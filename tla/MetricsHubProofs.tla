------------------------- MODULE MetricsHubProofs -------------------------
(***************************************************************************)
(* Proofs about MetricsHub, for any containers, viewers and sizes.         *)
(***************************************************************************)
EXTENDS MetricsHub, TLAPS

USE HubAssumption, NoSubAssumption

(***************************************************************************)
(* A channel or a feed that changes in nothing the invariant looks at.     *)
(***************************************************************************)
LEMMA SubsUpdated ==
  ASSUME TypeOK, NEW v \in Viewers, NEW s \in Sources, NEW c \in Sub,
         sub' = [sub EXCEPT ![v][s] = c]
  PROVE  /\ sub' \in [Viewers -> [Sources -> Sub \cup {NoSub}]]
         /\ \A u \in Viewers, r \in Sources :
              sub'[u][r] = IF u = v /\ r = s THEN c ELSE sub[u][r]
<1>. USE DEF TypeOK
<1>1. [sub[v] EXCEPT ![s] = c] \in [Sources -> Sub \cup {NoSub}]
  OBVIOUS
<1>2. sub' = [sub EXCEPT ![v] = [sub[v] EXCEPT ![s] = c]]
  OBVIOUS
<1>. QED
  BY <1>1, <1>2

LEMMA FeedUpdated ==
  ASSUME TypeOK, NEW f \in Feeds, NEW g \in Feed, feed' = [feed EXCEPT ![f] = g]
  PROVE  /\ feed' \in [Feeds -> Feed]
         /\ \A e \in Feeds : feed'[e] = IF e = f THEN g ELSE feed[e]
  BY DEF TypeOK

LEMMA ChannelKept ==
  ASSUME HubInv, NEW v \in Viewers, NEW s \in Sources, HasSub(v, s), NEW c \in Sub,
         c.feed = sub[v][s].feed, c.closed = sub[v][s].closed, c.left = sub[v][s].left,
         sub' = [sub EXCEPT ![v][s] = c],
         UNCHANGED <<feeds, feed, view, gone, todo>>
  PROVE  HubInv'
<1>. USE DEF HubInv
<1>1. /\ sub' \in [Viewers -> [Sources -> Sub \cup {NoSub}]]
      /\ \A u \in Viewers, r \in Sources :
           sub'[u][r] = IF u = v /\ r = s THEN c ELSE sub[u][r]
  BY SubsUpdated
<1>2. \A u \in Viewers, r \in Sources :
        /\ HasSub(u, r)' <=> HasSub(u, r)
        /\ HasSub(u, r) => /\ sub'[u][r].feed = sub[u][r].feed
                           /\ sub'[u][r].closed = sub[u][r].closed
                           /\ sub'[u][r].left = sub[u][r].left
  BY <1>1 DEF HasSub
<1>3. TypeOK'
  BY <1>1 DEF TypeOK
<1>4. SubscribedChannelsOpen'
  BY <1>2 DEF SubscribedChannelsOpen, TypeOK, Feed
<1>5. OpenChannelsServed'
  BY <1>2 DEF OpenChannelsServed
<1>6. UnwatchedHaveNoChannel' /\ ChannelsKnowTheirFeed'
  BY <1>2 DEF UnwatchedHaveNoChannel, ChannelsKnowTheirFeed
<1>7. WatchedFeedRuns' /\ MappedFeedsRun' /\ StreamsMapped' /\ TimedFeedsUnwatched'
  BY DEF WatchedFeedRuns, MappedFeedsRun, StreamsMapped, TimedFeedsUnwatched, Streams
<1>. QED
  BY <1>3, <1>4, <1>5, <1>6, <1>7

LEMMA FeedKept ==
  ASSUME HubInv, NEW f \in Feeds, NEW g \in Feed,
         g.source = feed[f].source, g.subs = feed[f].subs, g.stopped = feed[f].stopped,
         g.pump = "done" <=> feed[f].pump = "done", g.idle = "nil" <=> feed[f].idle = "nil",
         feed' = [feed EXCEPT ![f] = g],
         UNCHANGED <<feeds, view, gone, todo, sub>>
  PROVE  HubInv'
<1>. USE DEF HubInv
<1>1. feed' \in [Feeds -> Feed] /\ \A e \in Feeds : feed'[e] = IF e = f THEN g ELSE feed[e]
  BY FeedUpdated
<1>2. \A e \in Feeds :
        /\ feed'[e].source = feed[e].source /\ feed'[e].subs = feed[e].subs
        /\ feed'[e].stopped = feed[e].stopped
        /\ feed'[e].pump = "done" <=> feed[e].pump = "done"
        /\ feed'[e].idle = "nil" <=> feed[e].idle = "nil"
  BY <1>1
<1>3. TypeOK'
  BY <1>1 DEF TypeOK
<1>4. SubscribedChannelsOpen'
  BY <1>2 DEF SubscribedChannelsOpen, HasSub
<1>5. OpenChannelsServed' /\ ChannelsKnowTheirFeed'
  BY <1>2 DEF OpenChannelsServed, ChannelsKnowTheirFeed, HasSub, TypeOK, Sub
<1>6. MappedFeedsRun'
  BY <1>2 DEF MappedFeedsRun, Streams, TypeOK
<1>7. WatchedFeedRuns' /\ StreamsMapped' /\ TimedFeedsUnwatched'
  BY <1>2 DEF WatchedFeedRuns, StreamsMapped, TimedFeedsUnwatched, Streams
<1>8. UnwatchedHaveNoChannel'
  BY DEF UnwatchedHaveNoChannel, HasSub
<1>. QED
  BY <1>3, <1>4, <1>5, <1>6, <1>7, <1>8

(***************************************************************************)
(* Metrics.                                                                *)
(***************************************************************************)
LEMMA RequestKeeps ==
  ASSUME HubInv, NEW v \in Viewers,
         Ask(v) \/ Opened(v) \/ CloseOut(v) \/ Cancel(v)
  PROVE  HubInv'
<1>. USE DEF HubInv, Ask, Opened, CloseOut, Cancel, hub
<1>1. /\ view' \in [Viewers -> {"idle", "opening", "open", "closed"}]
      /\ gone' \in [Viewers -> BOOLEAN]
      /\ todo' \in [Viewers -> SUBSET Sources]
  <2>1. CASE Ask(v)
    BY <2>1 DEF TypeOK
  <2>2. CASE Opened(v) \/ CloseOut(v)
    BY <2>2 DEF TypeOK
  <2>3. CASE Cancel(v)
    BY <2>3 DEF TypeOK
  <2>. QED
    BY <2>1, <2>2, <2>3
<1>2. UNCHANGED <<feeds, feed, sub>>
  OBVIOUS
<1>3. TypeOK'
  BY <1>1, <1>2 DEF TypeOK
<1>4. UnwatchedHaveNoChannel'
  BY DEF UnwatchedHaveNoChannel, HasSub, TypeOK
<1>5. SubscribedChannelsOpen' /\ OpenChannelsServed' /\ ChannelsKnowTheirFeed'
  BY DEF SubscribedChannelsOpen, OpenChannelsServed, ChannelsKnowTheirFeed, HasSub
<1>6. WatchedFeedRuns' /\ MappedFeedsRun' /\ StreamsMapped' /\ TimedFeedsUnwatched'
  BY DEF WatchedFeedRuns, MappedFeedsRun, StreamsMapped, TimedFeedsUnwatched, Streams
<1>. QED
  BY <1>3, <1>4, <1>5, <1>6

LEMMA ForgetKeeps ==
  ASSUME HubInv, NEW v \in Viewers, Forget(v)
  PROVE  HubInv'
<1>. USE DEF HubInv, Forget, hub
<1>1. \A u \in Viewers, r \in Sources :
        sub'[u][r] = IF u = v THEN NoSub ELSE sub[u][r]
  BY DEF TypeOK
<1>2. \A r \in Sources : HasSub(v, r) => sub[v][r].closed
  BY DEF ChannelsKnowTheirFeed
<1>3. \A f \in Feeds : v \notin feed[f].subs /\ feed[f].subs \subseteq Viewers
  BY <1>2 DEF SubscribedChannelsOpen, TypeOK, Feed
<1>4. TypeOK'
  BY DEF TypeOK
<1>5. SubscribedChannelsOpen'
  BY <1>1, <1>3 DEF SubscribedChannelsOpen, HasSub, TypeOK, Feed
<1>6. OpenChannelsServed' /\ ChannelsKnowTheirFeed' /\ UnwatchedHaveNoChannel'
  BY <1>1 DEF OpenChannelsServed, ChannelsKnowTheirFeed, UnwatchedHaveNoChannel, HasSub, TypeOK
<1>7. WatchedFeedRuns' /\ MappedFeedsRun' /\ StreamsMapped' /\ TimedFeedsUnwatched'
  BY DEF WatchedFeedRuns, MappedFeedsRun, StreamsMapped, TimedFeedsUnwatched, Streams
<1>. QED
  BY <1>4, <1>5, <1>6, <1>7

LEMMA ForwarderKeeps ==
  ASSUME HubInv, NEW v \in Viewers, NEW s \in Sources, Forwarding(v, s) \/ Hand(v, s)
  PROVE  HubInv'
<1>. USE DEF Forwards, hub
<1>1. HasSub(v, s) /\ sub[v][s] \in Sub
  BY DEF Forwarding, Take, GiveUp, RangeEnds, Hand, HasSub, HubInv, TypeOK
<1>2. CASE Take(v, s)
  <2>. DEFINE c == [sub[v][s] EXCEPT !.queued = @ - 1, !.fwd = "handing"]
  <2>1. /\ c \in Sub /\ c.feed = sub[v][s].feed
        /\ c.closed = sub[v][s].closed /\ c.left = sub[v][s].left
    <3>1. sub[v][s].queued \in 0..Room /\ sub[v][s].queued > 0
      BY <1>1, <1>2 DEF Take, Sub
    <3>2. sub[v][s].queued - 1 \in 0..Room
      BY <3>1
    <3>. QED
      BY <1>1, <3>2 DEF Sub
  <2>2. sub' = [sub EXCEPT ![v][s] = c] /\ UNCHANGED <<feeds, feed, view, gone, todo>>
    BY <1>2 DEF Take, HubInv, TypeOK
  <2>. HIDE DEF c
  <2>. QED
    BY <1>1, <2>1, <2>2, ChannelKept
<1>3. CASE GiveUp(v, s) \/ RangeEnds(v, s)
  <2>. DEFINE c == [sub[v][s] EXCEPT !.fwd = "done"]
  <2>1. /\ c \in Sub /\ c.feed = sub[v][s].feed
        /\ c.closed = sub[v][s].closed /\ c.left = sub[v][s].left
    BY <1>1 DEF Sub
  <2>2. sub' = [sub EXCEPT ![v][s] = c] /\ UNCHANGED <<feeds, feed, view, gone, todo>>
    BY <1>3 DEF GiveUp, RangeEnds, HubInv, TypeOK
  <2>. HIDE DEF c
  <2>. QED
    BY <1>1, <2>1, <2>2, ChannelKept
<1>4. CASE Hand(v, s)
  <2>. DEFINE c == [sub[v][s] EXCEPT !.fwd = "reading"]
  <2>1. /\ c \in Sub /\ c.feed = sub[v][s].feed
        /\ c.closed = sub[v][s].closed /\ c.left = sub[v][s].left
    BY <1>1 DEF Sub
  <2>2. sub' = [sub EXCEPT ![v][s] = c] /\ UNCHANGED <<feeds, feed, view, gone, todo>>
    BY <1>4 DEF Hand, HubInv, TypeOK
  <2>. HIDE DEF c
  <2>. QED
    BY <1>1, <2>1, <2>2, ChannelKept
<1>. QED
  BY <1>2, <1>3, <1>4 DEF Forwarding

\* What the step of watch that gives a viewer its channel has done.
LEMMA JoinedOutcome ==
  ASSUME HubInv, NEW v \in Viewers, NEW s \in Sources, NEW f \in Feeds, NEW n \in 0..Room,
         s \in todo[v], Joined(v, s, f, n)
  PROVE  /\ sub' \in [Viewers -> [Sources -> Sub \cup {NoSub}]]
         /\ ~HasSub(v, s) /\ HasSub(v, s)'
         /\ sub'[v][s].feed = f /\ ~sub'[v][s].closed /\ ~sub'[v][s].left
         /\ \A u \in Viewers, r \in Sources : u # v \/ r # s => sub'[u][r] = sub[u][r]
<1>. DEFINE c == [feed |-> f, queued |-> n, closed |-> FALSE, left |-> FALSE, fwd |-> "reading"]
<1>1. c \in Sub /\ c.feed = f /\ ~c.closed /\ ~c.left
  BY DEF Sub
<1>2. sub' = [sub EXCEPT ![v][s] = c]
  BY DEF Joined
<1>. HIDE DEF c
<1>3. /\ sub' \in [Viewers -> [Sources -> Sub \cup {NoSub}]]
      /\ \A u \in Viewers, r \in Sources :
           sub'[u][r] = IF u = v /\ r = s THEN c ELSE sub[u][r]
  BY <1>1, <1>2, SubsUpdated DEF HubInv
<1>4. ~HasSub(v, s)
  BY DEF HubInv, UnwatchedHaveNoChannel
<1>. QED
  BY <1>1, <1>3, <1>4 DEF HasSub

LEMMA WatchNewKeeps ==
  ASSUME HubInv, NEW v \in Viewers, NEW s \in Sources, NEW f \in Feeds,
         view[v] = "opening", s \in todo[v], WatchNew(v, s, f),
         todo' = [todo EXCEPT ![v] = @ \ {s}], UNCHANGED <<view, gone>>
  PROVE  HubInv'
<1>. USE DEF HubInv
<1>. DEFINE g == [source |-> s, subs |-> {v}, recent |-> 0, idle |-> "nil", late |-> FALSE,
                  stopped |-> FALSE, pump |-> "receiving"]
<1>1. /\ g \in Feed /\ g.source = s /\ g.subs = {v} /\ g.idle = "nil"
      /\ ~g.stopped /\ g.pump = "receiving"
  BY DEF Feed
<1>2. /\ feed' = [feed EXCEPT ![f] = g] /\ feeds' = [feeds EXCEPT ![s] = f]
      /\ feeds[s] = NoFeed /\ Unused(f) /\ Joined(v, s, f, 0)
  BY DEF WatchNew
<1>. HIDE DEF g
<1>3. feed' \in [Feeds -> Feed] /\ \A e \in Feeds : feed'[e] = IF e = f THEN g ELSE feed[e]
  BY <1>1, <1>2, FeedUpdated
<1>4. /\ sub' \in [Viewers -> [Sources -> Sub \cup {NoSub}]]
      /\ ~HasSub(v, s) /\ HasSub(v, s)'
      /\ sub'[v][s].feed = f /\ ~sub'[v][s].closed /\ ~sub'[v][s].left
      /\ \A u \in Viewers, r \in Sources : u # v \/ r # s => sub'[u][r] = sub[u][r]
  BY <1>2, JoinedOutcome
<1>5. feed[f].pump = "done" /\ \A u \in Viewers, r \in Sources : HasSub(u, r) => sub[u][r].feed # f
  BY <1>2 DEF Unused
<1>6. TypeOK'
  BY <1>2, <1>3, <1>4 DEF TypeOK
<1>7. SubscribedChannelsOpen'
  <2>. SUFFICES ASSUME NEW e \in Feeds, NEW u \in feed'[e].subs
                PROVE  LET r == feed'[e].source
                       IN sub'[u][r] # NoSub /\ sub'[u][r].feed = e /\ ~sub'[u][r].closed
    BY DEF SubscribedChannelsOpen, HasSub
  <2>1. CASE e = f /\ u = v
    BY <2>1, <1>1, <1>3, <1>4 DEF HasSub
  <2>2. CASE e # f \/ u # v
    <3>1. u \in feed[e].subs /\ feed'[e].source = feed[e].source
      BY <2>2, <1>1, <1>3
    <3>. DEFINE r == feed[e].source
    <3>2. HasSub(u, r) /\ sub[u][r].feed = e /\ ~sub[u][r].closed
      BY <3>1 DEF SubscribedChannelsOpen
    <3>3. u \in Viewers /\ r \in Sources
      BY <3>1 DEF TypeOK, Feed
    <3>4. sub'[u][r] = sub[u][r]
      BY <3>2, <3>3, <1>4
    <3>. QED
      BY <3>1, <3>2, <3>4 DEF HasSub
  <2>. QED
    BY <2>1, <2>2
<1>8. OpenChannelsServed' /\ ChannelsKnowTheirFeed'
  <2>. SUFFICES ASSUME NEW u \in Viewers, NEW r \in Sources, HasSub(u, r)'
                PROVE  /\ ~sub'[u][r].closed =>
                            LET e == sub'[u][r].feed
                            IN u \in feed'[e].subs /\ feed'[e].source = r /\ feed'[e].pump # "done"
                       /\ feed'[sub'[u][r].feed].source = r
                       /\ sub'[u][r].left => sub'[u][r].closed
    BY DEF OpenChannelsServed, ChannelsKnowTheirFeed
  <2>1. CASE u = v /\ r = s
    BY <2>1, <1>1, <1>3, <1>4
  <2>2. CASE u # v \/ r # s
    <3>1. HasSub(u, r) /\ sub'[u][r] = sub[u][r]
      BY <2>2, <1>4 DEF HasSub
    <3>. DEFINE e == sub[u][r].feed
    <3>2. e \in Feeds /\ e # f
      BY <3>1, <1>5 DEF TypeOK, Sub, HasSub
    <3>3. /\ feed[e].source = r
          /\ sub[u][r].left => sub[u][r].closed
          /\ ~sub[u][r].closed => u \in feed[e].subs /\ feed[e].pump # "done"
      BY <3>1 DEF OpenChannelsServed, ChannelsKnowTheirFeed
    <3>4. /\ feed'[e].source = feed[e].source /\ feed'[e].pump = feed[e].pump
          /\ feed[e].subs \subseteq feed'[e].subs
      BY <3>2, <1>1, <1>3
    <3>. QED
      BY <3>1, <3>3, <3>4
  <2>. QED
    BY <2>1, <2>2
<1>9. WatchedFeedRuns' /\ TimedFeedsUnwatched'
  BY <1>1, <1>3 DEF WatchedFeedRuns, TimedFeedsUnwatched
<1>10. MappedFeedsRun'
  BY <1>1, <1>2, <1>3, <1>5 DEF MappedFeedsRun, Streams, TypeOK
<1>11. StreamsMapped'
  BY <1>1, <1>2, <1>3, <1>5 DEF StreamsMapped, Streams, TypeOK, Feed
<1>12. UnwatchedHaveNoChannel'
  BY <1>4 DEF UnwatchedHaveNoChannel, HasSub, TypeOK
<1>. QED
  BY <1>6, <1>7, <1>8, <1>9, <1>10, <1>11, <1>12

LEMMA WatchSharedKeeps ==
  ASSUME HubInv, NEW v \in Viewers, NEW s \in Sources, NEW f \in Feeds,
         view[v] = "opening", s \in todo[v], WatchShared(v, s, f),
         todo' = [todo EXCEPT ![v] = @ \ {s}], UNCHANGED <<view, gone>>
  PROVE  HubInv'
<1>. USE DEF HubInv
<1>. DEFINE g == [feed[f] EXCEPT !.subs = feed[f].subs \cup {v}, !.idle = "nil",
                                 !.late = feed[f].late \/ feed[f].idle = "fired"]
<1>1. feed[f] \in Feed /\ feed[f].source = s /\ Streams(f)
  BY DEF WatchShared, MappedFeedsRun, TypeOK
<1>2. /\ g \in Feed /\ g.source = s /\ g.subs = feed[f].subs \cup {v} /\ g.idle = "nil"
      /\ g.stopped = feed[f].stopped /\ g.pump = feed[f].pump
  BY <1>1 DEF Feed
<1>3. /\ feed' = [feed EXCEPT ![f] = g]
      /\ feeds' = feeds /\ Joined(v, s, f, feed[f].recent)
  BY DEF WatchShared
<1>. HIDE DEF g
<1>4. feed[f].recent \in 0..Room
  BY <1>1 DEF Feed
<1>5. feed' \in [Feeds -> Feed] /\ \A e \in Feeds : feed'[e] = IF e = f THEN g ELSE feed[e]
  BY <1>2, <1>3, FeedUpdated
<1>6. /\ sub' \in [Viewers -> [Sources -> Sub \cup {NoSub}]]
      /\ ~HasSub(v, s) /\ HasSub(v, s)'
      /\ sub'[v][s].feed = f /\ ~sub'[v][s].closed /\ ~sub'[v][s].left
      /\ \A u \in Viewers, r \in Sources : u # v \/ r # s => sub'[u][r] = sub[u][r]
  BY <1>3, <1>4, JoinedOutcome
<1>7. TypeOK'
  BY <1>3, <1>5, <1>6 DEF TypeOK
<1>8. SubscribedChannelsOpen'
  <2>. SUFFICES ASSUME NEW e \in Feeds, NEW u \in feed'[e].subs
                PROVE  LET r == feed'[e].source
                       IN sub'[u][r] # NoSub /\ sub'[u][r].feed = e /\ ~sub'[u][r].closed
    BY DEF SubscribedChannelsOpen, HasSub
  <2>1. CASE e = f /\ u = v
    BY <2>1, <1>1, <1>2, <1>5, <1>6 DEF HasSub
  <2>2. CASE e # f \/ u # v
    <3>1. u \in feed[e].subs /\ feed'[e].source = feed[e].source
      BY <2>2, <1>1, <1>2, <1>5
    <3>. DEFINE r == feed[e].source
    <3>2. HasSub(u, r) /\ sub[u][r].feed = e /\ ~sub[u][r].closed
      BY <3>1 DEF SubscribedChannelsOpen
    <3>3. u \in Viewers /\ r \in Sources
      BY <3>1 DEF TypeOK, Feed
    <3>4. sub'[u][r] = sub[u][r]
      BY <3>2, <3>3, <1>6
    <3>. QED
      BY <3>1, <3>2, <3>4 DEF HasSub
  <2>. QED
    BY <2>1, <2>2
<1>9. OpenChannelsServed' /\ ChannelsKnowTheirFeed'
  <2>. SUFFICES ASSUME NEW u \in Viewers, NEW r \in Sources, HasSub(u, r)'
                PROVE  /\ ~sub'[u][r].closed =>
                            LET e == sub'[u][r].feed
                            IN u \in feed'[e].subs /\ feed'[e].source = r /\ feed'[e].pump # "done"
                       /\ feed'[sub'[u][r].feed].source = r
                       /\ sub'[u][r].left => sub'[u][r].closed
    BY DEF OpenChannelsServed, ChannelsKnowTheirFeed
  <2>1. CASE u = v /\ r = s
    BY <2>1, <1>1, <1>2, <1>5, <1>6 DEF Streams
  <2>2. CASE u # v \/ r # s
    <3>1. HasSub(u, r) /\ sub'[u][r] = sub[u][r]
      BY <2>2, <1>6 DEF HasSub
    <3>. DEFINE e == sub[u][r].feed
    <3>2. e \in Feeds 
      BY <3>1 DEF TypeOK, Sub, HasSub
    <3>3. /\ feed[e].source = r
          /\ sub[u][r].left => sub[u][r].closed
          /\ ~sub[u][r].closed => u \in feed[e].subs /\ feed[e].pump # "done"
      BY <3>1 DEF OpenChannelsServed, ChannelsKnowTheirFeed
    <3>4. /\ feed'[e].source = feed[e].source /\ feed'[e].pump = feed[e].pump
          /\ feed[e].subs \subseteq feed'[e].subs
      BY <3>2, <1>1, <1>2, <1>5
    <3>. QED
      BY <3>1, <3>3, <3>4
  <2>. QED
    BY <2>1, <2>2
<1>10. WatchedFeedRuns' /\ TimedFeedsUnwatched'
  BY <1>1, <1>2, <1>5 DEF WatchedFeedRuns, TimedFeedsUnwatched, Streams
<1>11. MappedFeedsRun'
  <2>. SUFFICES ASSUME NEW r \in Sources, feeds[r] # NoFeed
                PROVE  LET e == feeds[r]
                       IN /\ feed'[e].pump # "done" /\ ~feed'[e].stopped /\ feed'[e].source = r
                          /\ feed'[e].subs = {} => feed'[e].idle # "nil"
    BY <1>3 DEF MappedFeedsRun, Streams
  <2>1. CASE feeds[r] = f
    BY <2>1, <1>1, <1>2, <1>5 DEF MappedFeedsRun, Streams
  <2>2. CASE feeds[r] # f
    BY <2>2, <1>5 DEF MappedFeedsRun, Streams, TypeOK
  <2>. QED
    BY <2>1, <2>2
<1>12. StreamsMapped'
  BY <1>1, <1>2, <1>3, <1>5 DEF StreamsMapped, Streams, TypeOK, Feed
<1>13. UnwatchedHaveNoChannel'
  BY <1>6 DEF UnwatchedHaveNoChannel, HasSub, TypeOK
<1>. QED
  BY <1>7, <1>8, <1>9, <1>10, <1>11, <1>12, <1>13

LEMMA WatchKeeps ==
  ASSUME HubInv, NEW v \in Viewers, NEW s \in Sources, Watch(v, s)
  PROVE  HubInv'
<1>1. CASE \E f \in Feeds : WatchNew(v, s, f)
  BY <1>1, WatchNewKeeps DEF Watch
<1>2. CASE \E f \in Feeds : WatchShared(v, s, f)
  BY <1>2, WatchSharedKeeps DEF Watch
<1>3. CASE feeds[s] = NoFeed /\ UNCHANGED <<hub, sub>>
  <2>. USE <1>3 DEF HubInv, Watch, hub
  <2>1. TypeOK' /\ UnwatchedHaveNoChannel'
    BY DEF TypeOK, UnwatchedHaveNoChannel, HasSub
  <2>2. SubscribedChannelsOpen' /\ OpenChannelsServed' /\ ChannelsKnowTheirFeed'
    BY DEF SubscribedChannelsOpen, OpenChannelsServed, ChannelsKnowTheirFeed, HasSub
  <2>3. WatchedFeedRuns' /\ MappedFeedsRun' /\ StreamsMapped' /\ TimedFeedsUnwatched'
    BY DEF WatchedFeedRuns, MappedFeedsRun, StreamsMapped, TimedFeedsUnwatched, Streams
  <2>. QED
    BY <2>1, <2>2, <2>3
<1>. QED
  BY <1>1, <1>2, <1>3 DEF Watch

(***************************************************************************)
(* The pump, leave and the timer.                                          *)
(***************************************************************************)
LEMMA FeedStepKeeps ==
  ASSUME HubInv, NEW f \in Feeds,
         Receive(f) \/ StreamEnds(f) \/ Fire(f) \/ ExpireLate(f)
  PROVE  HubInv'
<1>. USE DEF viewers
<1>1. feed[f] \in Feed
  BY DEF HubInv, TypeOK
<1>2. CASE Receive(f)
  <2>. DEFINE g == [feed[f] EXCEPT !.pump = "holding"]
  <2>1. /\ g \in Feed /\ g.source = feed[f].source /\ g.subs = feed[f].subs
        /\ g.stopped = feed[f].stopped /\ g.idle = feed[f].idle /\ g.pump = "holding"
    BY <1>1 DEF Feed
  <2>2. /\ feed' = [feed EXCEPT ![f] = g] /\ feed[f].pump = "receiving"
        /\ UNCHANGED <<feeds, view, gone, todo, sub>>
    BY <1>2 DEF Receive, HubInv, TypeOK
  <2>. HIDE DEF g
  <2>. QED
    BY <2>1, <2>2, FeedKept
<1>3. CASE StreamEnds(f)
  <2>. DEFINE g == [feed[f] EXCEPT !.pump = "closing"]
  <2>1. /\ g \in Feed /\ g.source = feed[f].source /\ g.subs = feed[f].subs
        /\ g.stopped = feed[f].stopped /\ g.idle = feed[f].idle /\ g.pump = "closing"
    BY <1>1 DEF Feed
  <2>2. /\ feed' = [feed EXCEPT ![f] = g] /\ feed[f].pump = "receiving"
        /\ UNCHANGED <<feeds, view, gone, todo, sub>>
    BY <1>3 DEF StreamEnds, HubInv, TypeOK
  <2>. HIDE DEF g
  <2>. QED
    BY <2>1, <2>2, FeedKept
<1>4. CASE Fire(f)
  <2>. DEFINE g == [feed[f] EXCEPT !.idle = "fired"]
  <2>1. /\ g \in Feed /\ g.source = feed[f].source /\ g.subs = feed[f].subs
        /\ g.stopped = feed[f].stopped /\ g.pump = feed[f].pump /\ g.idle = "fired"
    BY <1>1 DEF Feed
  <2>2. /\ feed' = [feed EXCEPT ![f] = g] /\ feed[f].idle = "armed"
        /\ UNCHANGED <<feeds, view, gone, todo, sub>>
    BY <1>4 DEF Fire, HubInv, TypeOK
  <2>. HIDE DEF g
  <2>. QED
    BY <2>1, <2>2, FeedKept
<1>5. CASE ExpireLate(f)
  <2>. DEFINE g == [feed[f] EXCEPT !.late = FALSE]
  <2>1. /\ g \in Feed /\ g.source = feed[f].source /\ g.subs = feed[f].subs
        /\ g.stopped = feed[f].stopped /\ g.pump = feed[f].pump /\ g.idle = feed[f].idle
    BY <1>1 DEF Feed
  <2>2. /\ feed' = [feed EXCEPT ![f] = g]
        /\ UNCHANGED <<feeds, view, gone, todo, sub>>
    BY <1>5 DEF ExpireLate, HubInv, TypeOK
  <2>. HIDE DEF g
  <2>. QED
    BY <2>1, <2>2, FeedKept
<1>. QED
  BY <1>2, <1>3, <1>4, <1>5

LEMMA DeliverKeeps ==
  ASSUME HubInv, NEW f \in Feeds, Deliver(f)
  PROVE  HubInv'
<1>. USE DEF HubInv
<1>. DEFINE Gets(u, r) == u \in feed[f].subs /\ r = feed[f].source /\ sub[u][r].queued < Room
            more(u, r) == [sub[u][r] EXCEPT !.queued = sub[u][r].queued + 1]
            g == [feed[f] EXCEPT !.pump = "receiving",
                    !.recent = IF feed[f].recent < History THEN feed[f].recent + 1
                                                           ELSE feed[f].recent]
<1>1. \A u \in Viewers, r \in Sources :
        /\ HasSub(u, r) => sub[u][r] \in Sub
        /\ Gets(u, r) => HasSub(u, r)
  BY DEF SubscribedChannelsOpen, HasSub, TypeOK
<1>2. \A u \in Viewers, r \in Sources : Gets(u, r) =>
        /\ more(u, r) \in Sub /\ more(u, r).feed = sub[u][r].feed
        /\ more(u, r).closed = sub[u][r].closed /\ more(u, r).left = sub[u][r].left
  <2>. SUFFICES ASSUME NEW u \in Viewers, NEW r \in Sources, Gets(u, r)
                PROVE  /\ more(u, r) \in Sub /\ more(u, r).feed = sub[u][r].feed
                       /\ more(u, r).closed = sub[u][r].closed
                       /\ more(u, r).left = sub[u][r].left
    OBVIOUS
  <2>1. sub[u][r] \in Sub /\ sub[u][r].queued + 1 \in 0..Room
    BY <1>1 DEF Sub
  <2>. QED
    BY <2>1 DEF Sub
<1>3. \A u \in Viewers, r \in Sources :
        sub'[u][r] = IF Gets(u, r) THEN more(u, r) ELSE sub[u][r]
  BY DEF Deliver
<1>4. sub' = [u \in Viewers |-> [r \in Sources |-> sub'[u][r]]]
  BY DEF Deliver
<1>5. feed' = [feed EXCEPT ![f] = g] /\ UNCHANGED <<feeds, view, gone, todo>>
  BY DEF Deliver, TypeOK
<1>6. /\ g \in Feed /\ g.source = feed[f].source /\ g.subs = feed[f].subs
      /\ g.stopped = feed[f].stopped /\ g.idle = feed[f].idle
      /\ g.pump # "done" /\ feed[f].pump # "done"
  <2>1. feed[f] \in Feed /\ feed[f].pump = "holding"
    BY DEF TypeOK, Deliver
  <2>2. (IF feed[f].recent < History THEN feed[f].recent + 1 ELSE feed[f].recent) \in 0..History
    BY <2>1 DEF Feed
  <2>. QED
    BY <2>1, <2>2 DEF Feed
<1>. HIDE DEF Gets, more, g
<1>7. \A u \in Viewers, r \in Sources :
        /\ sub'[u][r] \in Sub \cup {NoSub}
        /\ HasSub(u, r)' <=> HasSub(u, r)
        /\ HasSub(u, r) => /\ sub'[u][r].feed = sub[u][r].feed
                           /\ sub'[u][r].closed = sub[u][r].closed
                           /\ sub'[u][r].left = sub[u][r].left
  BY <1>1, <1>2, <1>3 DEF HasSub, TypeOK
<1>8. /\ feed' \in [Feeds -> Feed]
      /\ \A e \in Feeds :
           /\ feed'[e].source = feed[e].source /\ feed'[e].subs = feed[e].subs
           /\ feed'[e].stopped = feed[e].stopped /\ feed'[e].idle = feed[e].idle
           /\ feed'[e].pump = "done" <=> feed[e].pump = "done"
  BY <1>5, <1>6, FeedUpdated
<1>9. TypeOK'
  <2>1. sub' \in [Viewers -> [Sources -> Sub \cup {NoSub}]]
    BY <1>4, <1>7
  <2>. QED
    BY <1>5, <1>8, <2>1 DEF TypeOK
<1>10. SubscribedChannelsOpen'
  <2>. SUFFICES ASSUME NEW e \in Feeds, NEW u \in feed'[e].subs
                PROVE  LET r == feed'[e].source
                       IN sub'[u][r] # NoSub /\ sub'[u][r].feed = e /\ ~sub'[u][r].closed
    BY DEF SubscribedChannelsOpen, HasSub
  <2>. DEFINE r == feed[e].source
  <2>1. u \in feed[e].subs /\ feed'[e].source = r
    BY <1>8
  <2>2. u \in Viewers /\ r \in Sources
    BY <2>1 DEF TypeOK, Feed
  <2>3. HasSub(u, r) /\ sub[u][r].feed = e /\ ~sub[u][r].closed
    BY <2>1 DEF SubscribedChannelsOpen
  <2>. QED
    BY <2>1, <2>2, <2>3, <1>7 DEF HasSub
<1>11. OpenChannelsServed' /\ ChannelsKnowTheirFeed'
  BY <1>1, <1>7, <1>8 DEF OpenChannelsServed, ChannelsKnowTheirFeed, HasSub, Sub
<1>12. MappedFeedsRun'
  BY <1>5, <1>8 DEF MappedFeedsRun, Streams, TypeOK
<1>13. WatchedFeedRuns' /\ StreamsMapped' /\ TimedFeedsUnwatched'
  BY <1>5, <1>8 DEF WatchedFeedRuns, StreamsMapped, TimedFeedsUnwatched, Streams
<1>14. UnwatchedHaveNoChannel'
  BY <1>5, <1>7 DEF UnwatchedHaveNoChannel
<1>. QED
  BY <1>9, <1>10, <1>11, <1>12, <1>13, <1>14

LEMMA FinishKeeps ==
  ASSUME HubInv, NEW f \in Feeds, Finish(f)
  PROVE  HubInv'
<1>. USE DEF HubInv
<1>. DEFINE Shut(u, r) == u \in feed[f].subs /\ r = feed[f].source
            shut(u, r) == [sub[u][r] EXCEPT !.closed = TRUE]
            g == [feed[f] EXCEPT !.pump = "done", !.subs = {}, !.stopped = TRUE]
<1>1. \A u \in Viewers, r \in Sources :
        /\ HasSub(u, r) => sub[u][r] \in Sub
        /\ Shut(u, r) => HasSub(u, r) /\ sub[u][r].feed = f
  BY DEF SubscribedChannelsOpen, HasSub, TypeOK
<1>2. \A u \in Viewers, r \in Sources : Shut(u, r) =>
        /\ shut(u, r) \in Sub /\ shut(u, r).feed = f /\ shut(u, r).closed
        /\ shut(u, r).left = sub[u][r].left
  <2>. SUFFICES ASSUME NEW u \in Viewers, NEW r \in Sources, Shut(u, r)
                PROVE  /\ shut(u, r) \in Sub /\ shut(u, r).feed = f /\ shut(u, r).closed
                       /\ shut(u, r).left = sub[u][r].left
    OBVIOUS
  <2>1. sub[u][r] \in Sub /\ sub[u][r].feed = f
    BY <1>1
  <2>. QED
    BY <2>1 DEF Sub
<1>3. \A u \in Viewers, r \in Sources :
        sub'[u][r] = IF Shut(u, r) THEN shut(u, r) ELSE sub[u][r]
  BY DEF Finish, Closing
<1>4. sub' = [u \in Viewers |-> [r \in Sources |-> sub'[u][r]]]
  BY DEF Finish, Closing
<1>5. /\ feed' = [feed EXCEPT ![f] = g] /\ UNCHANGED <<view, gone, todo>>
      /\ feeds' \in [Sources -> Feeds \cup {NoFeed}]
      /\ \A r \in Sources : feeds'[r] = IF feeds[r] = f THEN NoFeed ELSE feeds[r]
  BY DEF Finish, Unmapped, TypeOK
<1>6. g \in Feed /\ g.source = feed[f].source /\ g.subs = {} /\ g.stopped /\ g.pump = "done"
  <2>1. feed[f] \in Feed
    BY DEF TypeOK
  <2>. QED
    BY <2>1 DEF Feed
<1>. HIDE DEF shut, g
<1>7. \A u \in Viewers, r \in Sources :
        /\ sub'[u][r] \in Sub \cup {NoSub}
        /\ HasSub(u, r)' <=> HasSub(u, r)
        /\ HasSub(u, r) => /\ sub'[u][r].feed = sub[u][r].feed
                           /\ sub'[u][r].closed <=> sub[u][r].closed \/ Shut(u, r)
                           /\ sub'[u][r].left = sub[u][r].left
  <2>. SUFFICES ASSUME NEW u \in Viewers, NEW r \in Sources
                PROVE  /\ sub'[u][r] \in Sub \cup {NoSub}
                       /\ HasSub(u, r)' <=> HasSub(u, r)
                       /\ HasSub(u, r) =>
                            /\ sub'[u][r].feed = sub[u][r].feed
                            /\ sub'[u][r].closed <=> sub[u][r].closed \/ Shut(u, r)
                            /\ sub'[u][r].left = sub[u][r].left
    OBVIOUS
  <2>1. CASE Shut(u, r)
    BY <2>1, <1>1, <1>2, <1>3 DEF HasSub
  <2>2. CASE ~Shut(u, r)
    BY <2>2, <1>3 DEF HasSub, TypeOK
  <2>. QED
    BY <2>1, <2>2
<1>8. feed' \in [Feeds -> Feed] /\ \A e \in Feeds : feed'[e] = IF e = f THEN g ELSE feed[e]
  BY <1>5, <1>6, FeedUpdated
<1>9. TypeOK'
  <2>1. sub' \in [Viewers -> [Sources -> Sub \cup {NoSub}]]
    BY <1>4, <1>7
  <2>. QED
    BY <1>5, <1>8, <2>1 DEF TypeOK
<1>10. SubscribedChannelsOpen'
  <2>. SUFFICES ASSUME NEW e \in Feeds, NEW u \in feed'[e].subs
                PROVE  LET r == feed'[e].source
                       IN sub'[u][r] # NoSub /\ sub'[u][r].feed = e /\ ~sub'[u][r].closed
    BY DEF SubscribedChannelsOpen, HasSub
  <2>1. e # f /\ feed'[e] = feed[e]
    BY <1>6, <1>8
  <2>. DEFINE r == feed[e].source
  <2>2. u \in Viewers /\ r \in Sources
    BY <2>1 DEF TypeOK, Feed
  <2>3. HasSub(u, r) /\ sub[u][r].feed = e /\ ~sub[u][r].closed
    BY <2>1 DEF SubscribedChannelsOpen
  <2>4. ~Shut(u, r)
    BY <2>1, <2>2, <2>3, <1>1
  <2>. QED
    BY <2>1, <2>2, <2>3, <2>4, <1>7 DEF HasSub
<1>11. OpenChannelsServed' /\ ChannelsKnowTheirFeed'
  <2>. SUFFICES ASSUME NEW u \in Viewers, NEW r \in Sources, HasSub(u, r)'
                PROVE  /\ ~sub'[u][r].closed =>
                            LET e == sub'[u][r].feed
                            IN u \in feed'[e].subs /\ feed'[e].source = r /\ feed'[e].pump # "done"
                       /\ feed'[sub'[u][r].feed].source = r
                       /\ sub'[u][r].left => sub'[u][r].closed
    BY DEF OpenChannelsServed, ChannelsKnowTheirFeed
  <2>. DEFINE e == sub[u][r].feed
  <2>1. /\ HasSub(u, r) /\ e \in Feeds /\ sub'[u][r].feed = e
        /\ sub'[u][r].closed <=> sub[u][r].closed \/ Shut(u, r)
        /\ sub'[u][r].left = sub[u][r].left
    BY <1>1, <1>7 DEF Sub
  <2>2. /\ feed[e].source = r
        /\ sub[u][r].left => sub[u][r].closed
        /\ ~sub[u][r].closed => u \in feed[e].subs /\ feed[e].pump # "done"
    BY <2>1 DEF OpenChannelsServed, ChannelsKnowTheirFeed
  <2>3. feed'[e].source = r /\ (e # f => feed'[e] = feed[e])
    BY <2>1, <2>2, <1>6, <1>8
  <2>. QED
    BY <2>1, <2>2, <2>3
<1>12. WatchedFeedRuns' /\ TimedFeedsUnwatched'
  BY <1>6, <1>8 DEF WatchedFeedRuns, TimedFeedsUnwatched
<1>13. MappedFeedsRun'
  BY <1>5, <1>8 DEF MappedFeedsRun, Streams, TypeOK
<1>14. StreamsMapped'
  BY <1>5, <1>6, <1>8 DEF StreamsMapped, Streams, TypeOK, Feed
<1>15. UnwatchedHaveNoChannel'
  BY <1>5, <1>7 DEF UnwatchedHaveNoChannel
<1>. QED
  BY <1>9, <1>10, <1>11, <1>12, <1>13, <1>14, <1>15

LEMMA LeaveKeeps ==
  ASSUME HubInv, NEW v \in Viewers, NEW s \in Sources, Leave(v, s)
  PROVE  HubInv'
<1>. USE DEF HubInv
<1>. DEFINE f == sub[v][s].feed
            c == [sub[v][s] EXCEPT !.left = TRUE, !.closed = TRUE]
            g == [feed[f] EXCEPT !.subs = feed[f].subs \ {v},
                                 !.idle = IF feed[f].subs = {v} THEN "armed" ELSE feed[f].idle]
<1>1. HasSub(v, s) /\ sub[v][s] \in Sub /\ f \in Feeds /\ feed[f] \in Feed /\ feed[f].source = s
  BY DEF Leave, Leaves, HasSub, TypeOK, Sub, ChannelsKnowTheirFeed
<1>2. c \in Sub /\ c.feed = f /\ c.closed /\ c.left
  BY <1>1 DEF Sub
<1>3. /\ g \in Feed /\ g.source = s /\ g.subs = feed[f].subs \ {v}
      /\ g.stopped = feed[f].stopped /\ g.pump = feed[f].pump
      /\ g.idle = IF feed[f].subs = {v} THEN "armed" ELSE feed[f].idle
  BY <1>1 DEF Feed
<1>4. /\ feed' = [feed EXCEPT ![f] = g] /\ sub' = [sub EXCEPT ![v][s] = c]
      /\ UNCHANGED <<feeds, view, gone, todo>>
  BY DEF Leave
<1>. HIDE DEF f, c, g
<1>5. feed' \in [Feeds -> Feed] /\ \A e \in Feeds : feed'[e] = IF e = f THEN g ELSE feed[e]
  BY <1>1, <1>3, <1>4, FeedUpdated
<1>6. /\ sub' \in [Viewers -> [Sources -> Sub \cup {NoSub}]]
      /\ \A u \in Viewers, r \in Sources :
           sub'[u][r] = IF u = v /\ r = s THEN c ELSE sub[u][r]
  <2>1. TypeOK /\ c \in Sub /\ sub' = [sub EXCEPT ![v][s] = c]
    BY <1>2, <1>4
  <2>. HIDE DEF HubInv
  <2>. QED
    BY <2>1, SubsUpdated
<1>7. \A u \in Viewers, r \in Sources :
        /\ HasSub(u, r)' <=> HasSub(u, r)
        /\ HasSub(u, r) => /\ sub'[u][r].feed = sub[u][r].feed
                           /\ u # v \/ r # s => sub'[u][r] = sub[u][r]
                           /\ u = v /\ r = s => sub'[u][r].closed /\ sub'[u][r].left
  BY <1>1, <1>2, <1>6 DEF HasSub, f
<1>8. TypeOK'
  BY <1>4, <1>5, <1>6 DEF TypeOK
<1>9. SubscribedChannelsOpen'
  <2>. SUFFICES ASSUME NEW e \in Feeds, NEW u \in feed'[e].subs
                PROVE  LET r == feed'[e].source
                       IN sub'[u][r] # NoSub /\ sub'[u][r].feed = e /\ ~sub'[u][r].closed
    BY DEF SubscribedChannelsOpen, HasSub
  <2>. DEFINE r == feed[e].source
  <2>1. u \in feed[e].subs /\ feed'[e].source = r /\ (e = f => u # v)
    BY <1>1, <1>3, <1>5
  <2>2. u \in Viewers /\ r \in Sources
    BY <2>1 DEF TypeOK, Feed
  <2>3. HasSub(u, r) /\ sub[u][r].feed = e /\ ~sub[u][r].closed
    BY <2>1 DEF SubscribedChannelsOpen
  <2>4. u # v \/ r # s
    BY <2>1, <2>3 DEF f
  <2>. QED
    BY <2>1, <2>2, <2>3, <2>4, <1>7 DEF HasSub
<1>10. OpenChannelsServed' /\ ChannelsKnowTheirFeed'
  <2>. SUFFICES ASSUME NEW u \in Viewers, NEW r \in Sources, HasSub(u, r)'
                PROVE  /\ ~sub'[u][r].closed =>
                            LET e == sub'[u][r].feed
                            IN u \in feed'[e].subs /\ feed'[e].source = r /\ feed'[e].pump # "done"
                       /\ feed'[sub'[u][r].feed].source = r
                       /\ sub'[u][r].left => sub'[u][r].closed
    BY DEF OpenChannelsServed, ChannelsKnowTheirFeed
  <2>. DEFINE e == sub[u][r].feed
  <2>1. HasSub(u, r) /\ e \in Feeds /\ sub'[u][r].feed = e
    BY <1>7 DEF HasSub, TypeOK, Sub
  <2>2. /\ feed[e].source = r
        /\ sub[u][r].left => sub[u][r].closed
        /\ ~sub[u][r].closed => u \in feed[e].subs /\ feed[e].pump # "done"
    BY <2>1 DEF OpenChannelsServed, ChannelsKnowTheirFeed
  <2>3. /\ feed'[e].source = r /\ feed'[e].pump = feed[e].pump
        /\ u # v => (u \in feed[e].subs => u \in feed'[e].subs)
        /\ r # s => feed'[e] = feed[e]
    BY <2>1, <2>2, <1>1, <1>3, <1>5
  <2>. QED
    BY <2>1, <2>2, <2>3, <1>7
<1>11. WatchedFeedRuns' /\ TimedFeedsUnwatched'
  BY <1>1, <1>3, <1>5 DEF WatchedFeedRuns, TimedFeedsUnwatched
<1>12. MappedFeedsRun'
  <2>. SUFFICES ASSUME NEW r \in Sources, feeds[r] # NoFeed
                PROVE  LET e == feeds[r]
                       IN /\ feed'[e].pump # "done" /\ ~feed'[e].stopped /\ feed'[e].source = r
                          /\ feed'[e].subs = {} => feed'[e].idle # "nil"
    BY <1>4 DEF MappedFeedsRun, Streams
  <2>. DEFINE e == feeds[r]
  <2>1. /\ e \in Feeds /\ feed[e].pump # "done" /\ ~feed[e].stopped /\ feed[e].source = r
        /\ feed[e].subs = {} => feed[e].idle # "nil"
    BY DEF MappedFeedsRun, Streams, TypeOK
  <2>. HIDE DEF e
  <2>2. CASE e = f
    <3>1. feed'[e] = g
      BY <2>2, <1>1, <1>5
    <3>2. g.subs = {} => g.idle # "nil"
      BY <2>1, <2>2, <1>3
    <3>. QED
      BY <2>1, <2>2, <3>1, <3>2, <1>1, <1>3 DEF e
  <2>3. CASE e # f
    BY <2>1, <2>3, <1>5 DEF e
  <2>. QED
    BY <2>2, <2>3
<1>13. StreamsMapped'
  BY <1>1, <1>3, <1>4, <1>5 DEF StreamsMapped, Streams
<1>14. UnwatchedHaveNoChannel'
  BY <1>4, <1>7 DEF UnwatchedHaveNoChannel
<1>. QED
  BY <1>8, <1>9, <1>10, <1>11, <1>12, <1>13, <1>14

LEMMA ExpireKeeps ==
  ASSUME HubInv, NEW f \in Feeds, Expire(f)
  PROVE  HubInv'
<1>. USE DEF HubInv, viewers
<1>. DEFINE g == [feed[f] EXCEPT !.idle = "nil",
                    !.stopped = feed[f].stopped \/ feeds[feed[f].source] = f]
<1>1. /\ g \in Feed /\ g.source = feed[f].source /\ g.subs = feed[f].subs /\ g.idle = "nil"
      /\ g.pump = feed[f].pump
      /\ g.stopped <=> (feed[f].stopped \/ feeds[feed[f].source] = f)
  <2>1. feed[f] \in Feed
    BY DEF TypeOK
  <2>. DEFINE b == feed[f].stopped \/ feeds[feed[f].source] = f
  <2>2. b \in BOOLEAN
    BY <2>1 DEF Feed
  <2>3. g = [feed[f] EXCEPT !.idle = "nil", !.stopped = b]
    OBVIOUS
  <2>. HIDE DEF b, g
  <2>4. /\ g \in Feed /\ g.source = feed[f].source /\ g.subs = feed[f].subs /\ g.idle = "nil"
        /\ g.pump = feed[f].pump /\ g.stopped = b
    BY <2>1, <2>2, <2>3 DEF Feed
  <2>. QED
    BY <2>4 DEF b
<1>2. /\ feed' = [feed EXCEPT ![f] = g] /\ UNCHANGED <<view, gone, todo, sub>>
      /\ feeds' \in [Sources -> Feeds \cup {NoFeed}]
      /\ \A r \in Sources : feeds'[r] = IF feeds[r] = f THEN NoFeed ELSE feeds[r]
  BY DEF Expire, Unmapped, TypeOK
<1>. HIDE DEF g
<1>3. feed' \in [Feeds -> Feed] /\ \A e \in Feeds : feed'[e] = IF e = f THEN g ELSE feed[e]
  BY <1>1, <1>2, FeedUpdated
<1>4. feed[f].subs = {}
  BY DEF Expire, TimedFeedsUnwatched
<1>5. TypeOK'
  BY <1>2, <1>3 DEF TypeOK
<1>6. SubscribedChannelsOpen'
  BY <1>1, <1>2, <1>3 DEF SubscribedChannelsOpen, HasSub
<1>7. OpenChannelsServed' /\ ChannelsKnowTheirFeed'
  BY <1>1, <1>2, <1>3 DEF OpenChannelsServed, ChannelsKnowTheirFeed, HasSub, TypeOK, Sub
<1>8. WatchedFeedRuns' /\ TimedFeedsUnwatched'
  BY <1>1, <1>3, <1>4 DEF WatchedFeedRuns, TimedFeedsUnwatched
<1>9. MappedFeedsRun'
  BY <1>2, <1>3 DEF MappedFeedsRun, Streams, TypeOK
<1>10. StreamsMapped'
  <2>. SUFFICES ASSUME NEW e \in Feeds, feed'[e].pump # "done", ~feed'[e].stopped
                PROVE  feeds'[feed'[e].source] = e
    BY DEF StreamsMapped, Streams
  <2>1. feed[e].pump # "done" /\ ~feed[e].stopped /\ feed'[e].source = feed[e].source
    BY <1>1, <1>3
  <2>2. feeds[feed[e].source] = e /\ feed[e].source \in Sources
    BY <2>1 DEF StreamsMapped, Streams, TypeOK, Feed
  <2>3. e # f
    BY <2>2, <1>1, <1>3
  <2>. QED
    BY <2>1, <2>2, <2>3, <1>2
<1>11. UnwatchedHaveNoChannel'
  BY <1>2 DEF UnwatchedHaveNoChannel, HasSub
<1>. QED
  BY <1>5, <1>6, <1>7, <1>8, <1>9, <1>10, <1>11

(***************************************************************************)
(* The theorems.                                                           *)
(***************************************************************************)
LEMMA InitHubInv == Init => HubInv
<1>. SUFFICES ASSUME Init PROVE HubInv
  OBVIOUS
<1>1. \A f \in Feeds :
        /\ feed[f] \in Feed /\ feed[f].subs = {} /\ feed[f].idle = "nil"
        /\ feed[f].pump = "done" /\ feed[f].stopped
  <2>. SUFFICES ASSUME NEW f \in Feeds
                PROVE  /\ feed[f] \in Feed /\ feed[f].subs = {} /\ feed[f].idle = "nil"
                       /\ feed[f].pump = "done" /\ feed[f].stopped
    OBVIOUS
  <2>1. feed[f] \in [source : Sources, subs : {{}}, recent : {0}, idle : {"nil"},
                     late : {FALSE}, stopped : {TRUE}, pump : {"done"}]
    BY DEF Init
  <2>2. 0 \in 0..History
    OBVIOUS
  <2>. QED
    BY <2>1, <2>2 DEF Feed
<1>2. \A v \in Viewers, s \in Sources : ~HasSub(v, s)
  BY DEF Init, HasSub
<1>3. TypeOK
  BY <1>1 DEF Init, TypeOK
<1>4. SubscribedChannelsOpen /\ OpenChannelsServed
  BY <1>1, <1>2 DEF SubscribedChannelsOpen, OpenChannelsServed
<1>5. WatchedFeedRuns /\ MappedFeedsRun /\ StreamsMapped
  BY <1>1 DEF Init, WatchedFeedRuns, MappedFeedsRun, StreamsMapped, Streams
<1>6. UnwatchedHaveNoChannel /\ ChannelsKnowTheirFeed /\ TimedFeedsUnwatched
  BY <1>1, <1>2 DEF UnwatchedHaveNoChannel, ChannelsKnowTheirFeed, TimedFeedsUnwatched
<1>. QED
  BY <1>3, <1>4, <1>5, <1>6 DEF HubInv

LEMMA NextHubInv == HubInv /\ [Next]_vars => HubInv'
<1>. SUFFICES ASSUME HubInv, [Next]_vars PROVE HubInv'
  OBVIOUS
<1>1. CASE \E v \in Viewers : Ask(v) \/ Opened(v) \/ CloseOut(v) \/ Cancel(v)
  BY <1>1, RequestKeeps
<1>2. CASE \E v \in Viewers : Forget(v)
  BY <1>2, ForgetKeeps
<1>3. CASE \E v \in Viewers, s \in Sources : Watch(v, s)
  BY <1>3, WatchKeeps
<1>4. CASE \E v \in Viewers, s \in Sources : Forwarding(v, s) \/ Hand(v, s)
  BY <1>4, ForwarderKeeps
<1>5. CASE \E v \in Viewers, s \in Sources : Leave(v, s)
  BY <1>5, LeaveKeeps
<1>6. CASE \E f \in Feeds : Receive(f) \/ StreamEnds(f) \/ Fire(f) \/ ExpireLate(f)
  BY <1>6, FeedStepKeeps
<1>7. CASE \E f \in Feeds : Deliver(f)
  BY <1>7, DeliverKeeps
<1>8. CASE \E f \in Feeds : Finish(f)
  BY <1>8, FinishKeeps
<1>9. CASE \E f \in Feeds : Expire(f)
  BY <1>9, ExpireKeeps
<1>10. CASE UNCHANGED vars
  <2>. USE <1>10 DEF vars, HubInv
  <2>1. TypeOK' /\ UnwatchedHaveNoChannel'
    BY DEF TypeOK, UnwatchedHaveNoChannel, HasSub
  <2>2. SubscribedChannelsOpen' /\ OpenChannelsServed' /\ ChannelsKnowTheirFeed'
    BY DEF SubscribedChannelsOpen, OpenChannelsServed, ChannelsKnowTheirFeed, HasSub
  <2>3. WatchedFeedRuns' /\ MappedFeedsRun' /\ StreamsMapped' /\ TimedFeedsUnwatched'
    BY DEF WatchedFeedRuns, MappedFeedsRun, StreamsMapped, TimedFeedsUnwatched, Streams
  <2>. QED
    BY <2>1, <2>2, <2>3
<1>. QED
  BY <1>1, <1>2, <1>3, <1>4, <1>5, <1>6, <1>7, <1>8, <1>9, <1>10 DEF Next

\* Whatever order requests, pumps, ended contexts and timers get the mutex in,
\* the hub's map, feeds, channels and timers agree (metricsHub).
THEOREM HubInvHolds == Spec => []HubInv
<1>1. Init => HubInv
  BY InitHubInv
<1>2. HubInv /\ [Next]_vars => HubInv'
  BY NextHubInv
<1>. QED
  BY <1>1, <1>2, PTL DEF Spec

\* No channel is sent to or closed once it is closed: neither the pump nor
\* leave nor the replay can end the process with a panic (pump, leave).
THEOREM NoClosedChannelInUse == Spec => []SubscribedChannelsOpen
<1>1. HubInv => SubscribedChannelsOpen
  BY DEF HubInv
<1>. QED
  BY <1>1, HubInvHolds, PTL

\* A timer that fired while its viewer came back never stops the stream of a
\* feed that is watched (leave's function, watch).
THEOREM TimerSparesWatchedFeeds == Spec => []WatchedFeedRuns
<1>1. HubInv => WatchedFeedRuns
  BY DEF HubInv
<1>. QED
  BY <1>1, HubInvHolds, PTL

\* A container has at most one live stream from Docker, however many watch it
\* and however often they come and go (watch, pump).
THEOREM StreamIsShared == Spec => []OneStreamPerSource
<1>1. HubInv => OneStreamPerSource
  BY DEF HubInv, StreamsMapped, OneStreamPerSource
<1>. QED
  BY <1>1, HubInvHolds, PTL

\* Every variable keeps its type, and no channel holds more samples than it has
\* room for (newSub, pump, forward).
THEOREM TypeCorrect == Spec => []TypeOK
<1>1. HubInv => TypeOK
  BY DEF HubInv
<1>. QED
  BY <1>1, HubInvHolds, PTL

\* A channel that is still open belongs to a feed that will send to it or close
\* it: whoever leaves, whatever timer fires and however the stream ends, no
\* request waits at a channel that nobody serves (watch, leave, pump).
THEOREM OpenChannelsBelong == Spec => []OpenChannelsServed
<1>1. HubInv => OpenChannelsServed
  BY DEF HubInv
<1>. QED
  BY <1>1, HubInvHolds, PTL
=============================================================================
