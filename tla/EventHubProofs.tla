-------------------------- MODULE EventHubProofs --------------------------
(***************************************************************************)
(* Proofs about EventHub, for any writers, pages and streams and any       *)
(* limit on public streams.  Each action has a lemma with one step per     *)
(* conjunct of SignalInv.                                                  *)
(***************************************************************************)
EXTENDS EventHub, FiniteSetTheorems, TLAPS

USE EventAssumption

(***************************************************************************)
(* The set of streams the server has a handler for.                        *)
(***************************************************************************)
LEMMA ServedFinite == IsFiniteSet(Served)
  BY FS_Subset DEF Served

LEMMA ServedKept ==
  ASSUME SlotsAreStreams, UNCHANGED slots,
         \A s \in Streams : stream'[s].at # "none" <=> stream[s].at # "none"
  PROVE  SlotsAreStreams'
<1>1. Served' = Served
  BY DEF Served
<1>. QED
  BY <1>1 DEF SlotsAreStreams

LEMMA HungUpKeeps ==
  ASSUME TypeOK, NEW s \in Streams \cup {NoStream}
  PROVE  /\ HungUp(s) \in [Streams -> Stream]
         /\ \A r \in Streams : HungUp(s)[r].at = stream[r].at
<1>1. CASE s = NoStream
  BY <1>1 DEF HungUp, TypeOK
<1>2. CASE s # NoStream
  <2>. DEFINE c == [stream[s] EXCEPT !.up = FALSE, !.mail = FALSE]
  <2>1. s \in Streams /\ stream[s] \in Stream
    BY <1>2 DEF TypeOK
  <2>2. c \in Stream /\ c.at = stream[s].at
    BY <2>1 DEF Stream
  <2>3. HungUp(s) = [stream EXCEPT ![s] = c]
    BY <1>2 DEF HungUp
  <2>. HIDE DEF c
  <2>. QED
    BY <2>1, <2>2, <2>3 DEF TypeOK
<1>. QED
  BY <1>1, <1>2

(***************************************************************************)
(* The server.                                                             *)
(***************************************************************************)
LEMMA WriteKeeps ==
  ASSUME SignalInv, NEW w \in Writers, Write(w)
  PROVE  SignalInv'
<1>. USE DEF SignalInv, Write
<1>1. TypeOK'
  BY DEF TypeOK
<1>2. HubKnowsOpenStreams'
  BY DEF HubKnowsOpenStreams
<1>3. SlotsAreStreams'
  BY DEF SlotsAreStreams, Served
<1>4. PagesHaveTheirStreams'
  BY DEF PagesHaveTheirStreams
<1>5. OnlyCloseShuts'
  BY DEF OnlyCloseShuts
<1>6. NoLostSignal'
  BY DEF NoLostSignal, Follows, WillShow, SignalComing, Fetching
<1>. QED
  BY <1>1, <1>2, <1>3, <1>4, <1>5, <1>6

LEMMA PublishKeeps ==
  ASSUME SignalInv, NEW w \in Writers, Publish(w)
  PROVE  SignalInv'
<1>. USE DEF SignalInv, Publish
<1>1. TypeOK'
  <2>1. \A s \in Streams : stream[s] \in Stream /\ [stream[s] EXCEPT !.wake = TRUE] \in Stream
    BY DEF TypeOK, Stream
  <2>2. stream' \in [Streams -> Stream]
    BY <2>1
  <2>. QED
    BY <2>2 DEF TypeOK
<1>2. HubKnowsOpenStreams'
  BY DEF HubKnowsOpenStreams
<1>3. SlotsAreStreams'
  <2>1. \A s \in Streams : stream'[s].at # "none" <=> stream[s].at # "none"
    BY DEF TypeOK, Stream, Page
  <2>. QED
    BY <2>1, ServedKept
<1>4. PagesHaveTheirStreams'
  BY DEF PagesHaveTheirStreams, TypeOK, Page
<1>5. OnlyCloseShuts'
  BY DEF OnlyCloseShuts
<1>6. NoLostSignal'
  BY DEF NoLostSignal, Follows, WillShow, SignalComing, Fetching, TypeOK, Stream,
         Page, Fetches, NoFetch, Asked, PagesHaveTheirStreams, HubKnowsOpenStreams,
         OnlyCloseShuts
<1>. QED
  BY <1>1, <1>2, <1>3, <1>4, <1>5, <1>6

LEMMA CloseKeeps ==
  ASSUME SignalInv, Close
  PROVE  SignalInv'
<1>. USE DEF SignalInv, Close
<1>1. TypeOK'
  <2>1. \A s \in Streams : stream[s] \in Stream /\ [stream[s] EXCEPT !.shut = TRUE] \in Stream
    BY DEF TypeOK, Stream
  <2>2. stream' \in [Streams -> Stream]
    BY <2>1
  <2>. QED
    BY <2>2 DEF TypeOK
<1>2. HubKnowsOpenStreams'
  BY DEF HubKnowsOpenStreams
<1>3. SlotsAreStreams'
  <2>1. \A s \in Streams : stream'[s].at # "none" <=> stream[s].at # "none"
    BY DEF TypeOK, Stream, Page
  <2>. QED
    BY <2>1, ServedKept
<1>4. PagesHaveTheirStreams'
  BY DEF PagesHaveTheirStreams, TypeOK, Page
<1>5. OnlyCloseShuts'
  BY DEF OnlyCloseShuts
<1>6. NoLostSignal'
  BY DEF NoLostSignal, Follows, WillShow, SignalComing, Fetching
<1>. QED
  BY <1>1, <1>2, <1>3, <1>4, <1>5, <1>6

LEMMA SubscribeKeeps ==
  ASSUME SignalInv, NEW s \in Streams, Subscribe(s)
  PROVE  SignalInv'
<1>. USE DEF SignalInv, Subscribe, Opened
<1>1. TypeOK'
  <2>1. page' \in [Pages -> Page]
    <3>1. \A p \in Pages : page[p] \in Page /\ [page[p] EXCEPT !.es = "open"] \in Page
      BY DEF TypeOK, Page
    <3>. QED
      BY <3>1
  <2>2. stream' \in [Streams -> Stream]
    <3>. DEFINE c == [stream[s] EXCEPT !.at = "waiting", !.wake = TRUE, !.shut = closed]
    <3>1. stream[s] \in Stream /\ closed \in BOOLEAN
      BY DEF TypeOK
    <3>2. c \in Stream
      BY <3>1 DEF Stream
    <3>3. stream' = [stream EXCEPT ![s] = c]
      BY DEF TypeOK
    <3>. HIDE DEF c
    <3>. QED
      BY <3>2, <3>3 DEF TypeOK
  <2>. QED
    BY <2>1, <2>2 DEF TypeOK
<1>2. HubKnowsOpenStreams'
  BY DEF HubKnowsOpenStreams, TypeOK
<1>3. SlotsAreStreams'
  <2>1. \A r \in Streams : stream'[r].at # "none" <=> stream[r].at # "none"
    BY DEF TypeOK, Stream, Page
  <2>. QED
    BY <2>1, ServedKept
<1>4. PagesHaveTheirStreams'
  BY DEF PagesHaveTheirStreams, TypeOK, Page
<1>5. OnlyCloseShuts'
  BY DEF OnlyCloseShuts, TypeOK
<1>6. NoLostSignal'
  BY DEF NoLostSignal, Follows, WillShow, SignalComing, Fetching, TypeOK, Page,
         PagesHaveTheirStreams
<1>. QED
  BY <1>1, <1>2, <1>3, <1>4, <1>5, <1>6

LEMMA TakeKeeps ==
  ASSUME SignalInv, NEW s \in Streams, Take(s)
  PROVE  SignalInv'
<1>. USE DEF SignalInv, Take
<1>1. TypeOK'
  BY DEF TypeOK, Stream
<1>2. HubKnowsOpenStreams'
  BY DEF HubKnowsOpenStreams, TypeOK
<1>3. SlotsAreStreams'
  BY DEF SlotsAreStreams, Served, TypeOK, Stream
<1>4. PagesHaveTheirStreams'
  BY DEF PagesHaveTheirStreams, TypeOK, Page
<1>5. OnlyCloseShuts'
  BY DEF OnlyCloseShuts, TypeOK
<1>6. NoLostSignal'
  BY DEF NoLostSignal, Follows, WillShow, SignalComing, Fetching, TypeOK, Page,
         PagesHaveTheirStreams
<1>. QED
  BY <1>1, <1>2, <1>3, <1>4, <1>5, <1>6

LEMMA SendKeeps ==
  ASSUME SignalInv, NEW s \in Streams, Send(s)
  PROVE  SignalInv'
<1>. USE DEF SignalInv, Send
<1>1. TypeOK'
  BY DEF TypeOK, Stream
<1>2. HubKnowsOpenStreams'
  BY DEF HubKnowsOpenStreams, TypeOK
<1>3. SlotsAreStreams'
  BY DEF SlotsAreStreams, Served, TypeOK, Stream
<1>4. PagesHaveTheirStreams'
  BY DEF PagesHaveTheirStreams, TypeOK, Page
<1>5. OnlyCloseShuts'
  BY DEF OnlyCloseShuts, TypeOK
<1>6. NoLostSignal'
  BY DEF NoLostSignal, Follows, WillShow, SignalComing, Fetching, TypeOK, Page,
         PagesHaveTheirStreams
<1>. QED
  BY <1>1, <1>2, <1>3, <1>4, <1>5, <1>6

LEMMA EndStreamKeeps ==
  ASSUME SignalInv, NEW s \in Streams, EndStream(s)
  PROVE  SignalInv'
<1>. USE DEF SignalInv, EndStream
<1>1. TypeOK'
  BY DEF TypeOK, Stream
<1>2. HubKnowsOpenStreams'
  BY DEF HubKnowsOpenStreams
<1>3. SlotsAreStreams'
  <2>1. \A r \in Streams : stream'[r].at # "none" <=> stream[r].at # "none"
    BY DEF TypeOK, Stream, Page
  <2>. QED
    BY <2>1, ServedKept
<1>4. PagesHaveTheirStreams'
  BY DEF PagesHaveTheirStreams, TypeOK, Stream, Page, OnlyCloseShuts
<1>5. OnlyCloseShuts'
  BY DEF OnlyCloseShuts
<1>6. NoLostSignal'
  BY DEF NoLostSignal, Follows, WillShow, SignalComing, Fetching
<1>. QED
  BY <1>1, <1>2, <1>3, <1>4, <1>5, <1>6

LEMMA LeaveKeeps ==
  ASSUME SignalInv, NEW s \in Streams, Leave(s)
  PROVE  SignalInv'
<1>. USE DEF SignalInv, Leave
<1>1. TypeOK'
  <2>1. Served' = Served \ {s} /\ s \in Served
    BY DEF Served, TypeOK, Stream
  <2>2. slots' = Cardinality(Served') /\ Cardinality(Served') \in Nat
    BY <2>1, ServedFinite, FS_RemoveElement, FS_CardinalityType DEF SlotsAreStreams
  <2>3. slots' \in 0..MaxPublicStreams
    BY <2>2 DEF TypeOK
  <2>4. stream' \in [Streams -> Stream]
    BY DEF TypeOK, Stream
  <2>. QED
    BY <2>3, <2>4 DEF TypeOK
<1>2. HubKnowsOpenStreams'
  BY DEF HubKnowsOpenStreams, TypeOK
<1>3. SlotsAreStreams'
  <2>1. Served' = Served \ {s} /\ s \in Served
    BY DEF Served, TypeOK, Stream
  <2>. QED
    BY <2>1, ServedFinite, FS_RemoveElement DEF SlotsAreStreams
<1>4. PagesHaveTheirStreams'
  BY DEF PagesHaveTheirStreams
<1>5. OnlyCloseShuts'
  BY DEF OnlyCloseShuts
<1>6. NoLostSignal'
  BY DEF NoLostSignal, Follows, WillShow, SignalComing, Fetching, PagesHaveTheirStreams
<1>. QED
  BY <1>1, <1>2, <1>3, <1>4, <1>5, <1>6

(***************************************************************************)
(* The page.                                                               *)
(***************************************************************************)
LEMMA ShowKeeps ==
  ASSUME SignalInv, NEW p \in Pages, Show(p)
  PROVE  SignalInv'
<1>. USE DEF SignalInv, Show, Refreshed, Fetching
<1>1. TypeOK'
  <2>. DEFINE q == [page[p] EXCEPT !.again = page[p].again \/ Fetching(p),
                               !.timer = page[p].timer \/ ~Fetching(p), !.es = "connecting"]
  <2>1. page[p] \in Page
    BY DEF TypeOK
  <2>2. q \in Page
    BY <2>1 DEF Page, Fetching
  <2>3. page' = [page EXCEPT ![p] = q]
    OBVIOUS
  <2>. HIDE DEF q
  <2>. QED
    BY <2>2, <2>3 DEF TypeOK
<1>2. HubKnowsOpenStreams'
  BY DEF HubKnowsOpenStreams
<1>3. SlotsAreStreams'
  BY DEF SlotsAreStreams, Served
<1>4. PagesHaveTheirStreams'
  BY DEF PagesHaveTheirStreams
<1>5. OnlyCloseShuts'
  BY DEF OnlyCloseShuts
<1>6. NoLostSignal'
  BY DEF NoLostSignal, Follows, WillShow, SignalComing, Fetching
<1>. QED
  BY <1>1, <1>2, <1>3, <1>4, <1>5, <1>6

LEMMA HideKeeps ==
  ASSUME SignalInv, NEW p \in Pages, Hide(p)
  PROVE  SignalInv'
<1>. USE DEF SignalInv, Hide, HungUp
<1>1. TypeOK'
  <2>. DEFINE q == [page[p] EXCEPT !.es = "off", !.on = NoStream,
                               !.timer = FALSE, !.again = FALSE]
  <2>1. page[p] \in Page
    BY DEF TypeOK
  <2>2. q \in Page
    BY <2>1 DEF Page
  <2>3. page' = [page EXCEPT ![p] = q]
    OBVIOUS
  <2>4. stream' \in [Streams -> Stream]
    BY <2>1, HungUpKeeps DEF Page
  <2>. HIDE DEF q
  <2>. QED
    BY <2>2, <2>3, <2>4 DEF TypeOK
<1>2. HubKnowsOpenStreams'
  BY DEF HubKnowsOpenStreams
<1>3. SlotsAreStreams'
  BY HungUpKeeps, ServedKept DEF TypeOK, Page
<1>4. PagesHaveTheirStreams'
  BY DEF PagesHaveTheirStreams, TypeOK
<1>5. OnlyCloseShuts'
  BY DEF OnlyCloseShuts
<1>6. NoLostSignal'
  BY DEF NoLostSignal, Follows, WillShow, SignalComing, Fetching, TypeOK,
         PagesHaveTheirStreams
<1>. QED
  BY <1>1, <1>2, <1>3, <1>4, <1>5, <1>6

LEMMA ConnectKeeps ==
  ASSUME SignalInv, NEW p \in Pages, NEW s \in Streams, Connect(p, s)
  PROVE  SignalInv'
<1>. USE DEF SignalInv, Connect
<1>1. TypeOK'
  BY DEF TypeOK, Stream, Page
<1>2. HubKnowsOpenStreams'
  BY DEF HubKnowsOpenStreams
<1>3. SlotsAreStreams'
  <2>1. Served' = Served \cup {s} /\ s \notin Served
    BY DEF Served, TypeOK, Stream
  <2>. QED
    BY <2>1, ServedFinite, FS_AddElement DEF SlotsAreStreams
<1>4. PagesHaveTheirStreams'
  BY DEF PagesHaveTheirStreams, TypeOK
<1>5. OnlyCloseShuts'
  BY DEF OnlyCloseShuts
<1>6. NoLostSignal'
  BY DEF NoLostSignal, Follows, WillShow, SignalComing, Fetching
<1>. QED
  BY <1>1, <1>2, <1>3, <1>4, <1>5, <1>6

LEMMA RefuseKeeps ==
  ASSUME SignalInv, NEW p \in Pages, Refuse(p)
  PROVE  SignalInv'
<1>. USE DEF SignalInv, Refuse
<1>1. TypeOK'
  BY DEF TypeOK, Page
<1>2. HubKnowsOpenStreams'
  BY DEF HubKnowsOpenStreams
<1>3. SlotsAreStreams'
  BY DEF SlotsAreStreams, Served
<1>4. PagesHaveTheirStreams'
  BY DEF PagesHaveTheirStreams
<1>5. OnlyCloseShuts'
  BY DEF OnlyCloseShuts
<1>6. NoLostSignal'
  BY DEF NoLostSignal, Follows, WillShow, SignalComing, Fetching
<1>. QED
  BY <1>1, <1>2, <1>3, <1>4, <1>5, <1>6

LEMMA ReopenKeeps ==
  ASSUME SignalInv, NEW p \in Pages, Reopen(p)
  PROVE  SignalInv'
<1>. USE DEF SignalInv, Reopen
<1>1. TypeOK'
  BY DEF TypeOK, Page
<1>2. HubKnowsOpenStreams'
  BY DEF HubKnowsOpenStreams
<1>3. SlotsAreStreams'
  BY DEF SlotsAreStreams, Served
<1>4. PagesHaveTheirStreams'
  BY DEF PagesHaveTheirStreams
<1>5. OnlyCloseShuts'
  BY DEF OnlyCloseShuts
<1>6. NoLostSignal'
  BY DEF NoLostSignal, Follows, WillShow, SignalComing, Fetching
<1>. QED
  BY <1>1, <1>2, <1>3, <1>4, <1>5, <1>6

LEMMA DisconnectKeeps ==
  ASSUME SignalInv, NEW p \in Pages, Disconnect(p)
  PROVE  SignalInv'
<1>. USE DEF SignalInv, Disconnect, HungUp
<1>1. TypeOK'
  <2>. DEFINE q == [page[p] EXCEPT !.es = "connecting", !.on = NoStream]
  <2>1. page[p] \in Page
    BY DEF TypeOK
  <2>2. q \in Page
    BY <2>1 DEF Page
  <2>3. page' = [page EXCEPT ![p] = q]
    OBVIOUS
  <2>4. stream' \in [Streams -> Stream]
    BY <2>1, HungUpKeeps DEF Page
  <2>. HIDE DEF q
  <2>. QED
    BY <2>2, <2>3, <2>4 DEF TypeOK
<1>2. HubKnowsOpenStreams'
  BY DEF HubKnowsOpenStreams
<1>3. SlotsAreStreams'
  BY HungUpKeeps, ServedKept DEF TypeOK, Page
<1>4. PagesHaveTheirStreams'
  BY DEF PagesHaveTheirStreams, TypeOK
<1>5. OnlyCloseShuts'
  BY DEF OnlyCloseShuts
<1>6. NoLostSignal'
  BY DEF NoLostSignal, Follows, WillShow, SignalComing, Fetching, TypeOK,
         PagesHaveTheirStreams
<1>. QED
  BY <1>1, <1>2, <1>3, <1>4, <1>5, <1>6

LEMMA MessageKeeps ==
  ASSUME SignalInv, NEW p \in Pages, Message(p)
  PROVE  SignalInv'
<1>. USE DEF SignalInv, Message, Refreshed, Fetching
<1>1. TypeOK'
  <2>. DEFINE q == Refreshed(p)
  <2>1. page[p] \in Page
    BY DEF TypeOK
  <2>2. q \in Page
    BY <2>1 DEF Page, Refreshed, Fetching
  <2>3. page' = [page EXCEPT ![p] = q]
    OBVIOUS
  <2>4. stream' \in [Streams -> Stream]
    BY DEF TypeOK, Stream
  <2>. HIDE DEF q
  <2>. QED
    BY <2>2, <2>3, <2>4 DEF TypeOK
<1>2. HubKnowsOpenStreams'
  BY DEF HubKnowsOpenStreams
<1>3. SlotsAreStreams'
  <2>1. \A s \in Streams : stream'[s].at # "none" <=> stream[s].at # "none"
    BY DEF TypeOK, Stream, Page
  <2>. QED
    BY <2>1, ServedKept
<1>4. PagesHaveTheirStreams'
  BY DEF PagesHaveTheirStreams
<1>5. OnlyCloseShuts'
  BY DEF OnlyCloseShuts
<1>6. NoLostSignal'
  BY DEF NoLostSignal, Follows, WillShow, SignalComing, Fetching, TypeOK, Stream,
         Page, Fetches, NoFetch, Asked, PagesHaveTheirStreams, HubKnowsOpenStreams,
         OnlyCloseShuts
<1>. QED
  BY <1>1, <1>2, <1>3, <1>4, <1>5, <1>6

LEMMA LoadKeeps ==
  ASSUME SignalInv, NEW p \in Pages, Load(p)
  PROVE  SignalInv'
<1>. USE DEF SignalInv, Load
<1>1. TypeOK'
  <2>. DEFINE q == [page[p] EXCEPT !.timer = FALSE, !.fetch = Asked]
  <2>1. page[p] \in Page
    BY DEF TypeOK
  <2>2. q \in Page
    BY <2>1 DEF Page, Fetches, NoFetch, Asked
  <2>3. page' = [page EXCEPT ![p] = q]
    OBVIOUS
  <2>. HIDE DEF q
  <2>. QED
    BY <2>2, <2>3 DEF TypeOK
<1>2. HubKnowsOpenStreams'
  BY DEF HubKnowsOpenStreams
<1>3. SlotsAreStreams'
  BY DEF SlotsAreStreams, Served
<1>4. PagesHaveTheirStreams'
  BY DEF PagesHaveTheirStreams
<1>5. OnlyCloseShuts'
  BY DEF OnlyCloseShuts
<1>6. NoLostSignal'
  BY DEF NoLostSignal, Follows, WillShow, SignalComing, Fetching, TypeOK, Page,
         Fetches, NoFetch, Asked
<1>. QED
  BY <1>1, <1>2, <1>3, <1>4, <1>5, <1>6

LEMMA AnswerKeeps ==
  ASSUME SignalInv, NEW p \in Pages, Answer(p)
  PROVE  SignalInv'
<1>. USE DEF SignalInv, Answer
<1>1. TypeOK'
  BY DEF TypeOK, Page, Fetches, NoFetch, Asked
<1>2. HubKnowsOpenStreams'
  BY DEF HubKnowsOpenStreams
<1>3. SlotsAreStreams'
  BY DEF SlotsAreStreams, Served
<1>4. PagesHaveTheirStreams'
  BY DEF PagesHaveTheirStreams
<1>5. OnlyCloseShuts'
  BY DEF OnlyCloseShuts
<1>6. NoLostSignal'
  BY DEF NoLostSignal, Follows, WillShow, SignalComing, Fetching
<1>. QED
  BY <1>1, <1>2, <1>3, <1>4, <1>5, <1>6

LEMMA LoadedKeeps ==
  ASSUME SignalInv, NEW p \in Pages, Loaded(p)
  PROVE  SignalInv'
<1>. USE DEF SignalInv, Loaded, Ended
<1>1. TypeOK'
  <2>. DEFINE q == [page[p] EXCEPT !.fetch = NoFetch, !.timer = page[p].timer \/ page[p].again,
                               !.again = FALSE, !.failed = FALSE, !.shown = page[p].fetch.data]
  <2>1. page[p] \in Page
    BY DEF TypeOK
  <2>4. page[p].fetch.data \in 0..MaxChanges
    BY <2>1 DEF Page, Fetches
  <2>2. q \in Page
    BY <2>1, <2>4 DEF Page, Fetches, NoFetch, Asked
  <2>3. page' = [page EXCEPT ![p] = q]
    OBVIOUS
  <2>. HIDE DEF q
  <2>. QED
    BY <2>2, <2>3 DEF TypeOK
<1>2. HubKnowsOpenStreams'
  BY DEF HubKnowsOpenStreams
<1>3. SlotsAreStreams'
  BY DEF SlotsAreStreams, Served
<1>4. PagesHaveTheirStreams'
  BY DEF PagesHaveTheirStreams
<1>5. OnlyCloseShuts'
  BY DEF OnlyCloseShuts
<1>6. NoLostSignal'
  BY DEF NoLostSignal, Follows, WillShow, SignalComing, Fetching, TypeOK, Page,
         Fetches, NoFetch, Asked
<1>. QED
  BY <1>1, <1>2, <1>3, <1>4, <1>5, <1>6

LEMMA LoadFailedKeeps ==
  ASSUME SignalInv, NEW p \in Pages, LoadFailed(p)
  PROVE  SignalInv'
<1>. USE DEF SignalInv, LoadFailed, Ended, Fetching
<1>1. TypeOK'
  <2>. DEFINE q == [page[p] EXCEPT !.fetch = NoFetch, !.timer = page[p].timer \/ page[p].again,
                               !.again = FALSE, !.failed = TRUE, !.shown = page[p].shown]
  <2>1. page[p] \in Page
    BY DEF TypeOK
  <2>2. q \in Page
    BY <2>1 DEF Page, Fetches, NoFetch, Asked
  <2>3. page' = [page EXCEPT ![p] = q]
    OBVIOUS
  <2>. HIDE DEF q
  <2>. QED
    BY <2>2, <2>3 DEF TypeOK
<1>2. HubKnowsOpenStreams'
  BY DEF HubKnowsOpenStreams
<1>3. SlotsAreStreams'
  BY DEF SlotsAreStreams, Served
<1>4. PagesHaveTheirStreams'
  BY DEF PagesHaveTheirStreams
<1>5. OnlyCloseShuts'
  BY DEF OnlyCloseShuts
<1>6. NoLostSignal'
  BY DEF NoLostSignal, Follows, WillShow, SignalComing, Fetching
<1>. QED
  BY <1>1, <1>2, <1>3, <1>4, <1>5, <1>6

(***************************************************************************)
(* The theorems.                                                           *)
(***************************************************************************)
LEMMA InitSignalInv == Init => SignalInv
<1>. SUFFICES ASSUME Init PROVE SignalInv
  OBVIOUS
<1>. USE DEF Init
<1>1. TypeOK
  <2>1. 0 \in 0..MaxChanges /\ 0 \in 0..MaxPublicStreams
    OBVIOUS
  <2>2. NoFetch \in Fetches
    BY DEF NoFetch, Fetches
  <2>3. stream \in [Streams -> Stream]
    BY DEF Stream
  <2>4. page \in [Pages -> Page]
    BY <2>1, <2>2 DEF Page
  <2>. QED
    BY <2>1, <2>3, <2>4 DEF TypeOK
<1>2. Served = {}
  BY DEF Served
<1>3. SlotsAreStreams
  BY <1>2, FS_EmptySet DEF SlotsAreStreams
<1>4. HubKnowsOpenStreams /\ OnlyCloseShuts
  BY DEF HubKnowsOpenStreams, OnlyCloseShuts
<1>5. PagesHaveTheirStreams /\ NoLostSignal
  BY DEF PagesHaveTheirStreams, NoLostSignal, Follows
<1>. QED
  BY <1>1, <1>3, <1>4, <1>5 DEF SignalInv

LEMMA NextSignalInv == SignalInv /\ [Next]_vars => SignalInv'
<1>. SUFFICES ASSUME SignalInv, [Next]_vars PROVE SignalInv'
  OBVIOUS
<1>1. CASE \E w \in Writers : Write(w) \/ Publish(w)
  BY <1>1, WriteKeeps, PublishKeeps
<1>2. CASE Close
  BY <1>2, CloseKeeps
<1>3. CASE \E s \in Streams : Handler(s)
  BY <1>3, SubscribeKeeps, TakeKeeps, SendKeeps, EndStreamKeeps, LeaveKeeps DEF Handler
<1>4. CASE \E p \in Pages :
         Show(p) \/ Hide(p) \/ Refuse(p) \/ Reopen(p) \/ Disconnect(p) \/ Message(p)
  BY <1>4, ShowKeeps, HideKeeps, RefuseKeeps, ReopenKeeps, DisconnectKeeps, MessageKeeps
<1>5. CASE \E p \in Pages, s \in Streams : Connect(p, s)
  BY <1>5, ConnectKeeps
<1>6. CASE \E p \in Pages : Fetch(p)
  BY <1>6, LoadKeeps, AnswerKeeps, LoadedKeeps, LoadFailedKeeps DEF Fetch
<1>7. CASE UNCHANGED vars
  <2>. USE <1>7 DEF vars, SignalInv
  <2>1. TypeOK' /\ HubKnowsOpenStreams' /\ OnlyCloseShuts' /\ PagesHaveTheirStreams'
    BY DEF TypeOK, HubKnowsOpenStreams, OnlyCloseShuts, PagesHaveTheirStreams
  <2>2. SlotsAreStreams'
    BY ServedKept
  <2>3. NoLostSignal'
    BY DEF NoLostSignal, Follows, Fetching, WillShow, SignalComing
  <2>. QED
    BY <2>1, <2>2, <2>3
<1>. QED
  BY <1>1, <1>2, <1>3, <1>4, <1>5, <1>6, <1>7 DEF Next

\* However changes, shutdown, connections and fetches interleave, the hub, its
\* handlers and the pages agree (events.go, directory.svelte.ts).
THEOREM SignalInvHolds == Spec => []SignalInv
<1>1. Init => SignalInv
  BY InitSignalInv
<1>2. SignalInv /\ [Next]_vars => SignalInv'
  BY NextSignalInv
<1>. QED
  BY <1>1, <1>2, PTL DEF Spec

\* A page with an open stream and no failed fetch never shows less than there is
\* without a signal on its way (Publish, subscribe, refresh).
THEOREM SignalsAreNotLost == Spec => []NoLostSignal
<1>1. SignalInv => NoLostSignal
  BY DEF SignalInv
<1>. QED
  BY <1>1, SignalInvHolds, PTL

\* The hub holds exactly the open channels of running handlers, so that Publish
\* and Close never meet a closed one (Publish, Close, unsubscribe).
THEOREM HubHoldsOpenChannels == Spec => []HubKnowsOpenStreams
<1>1. SignalInv => HubKnowsOpenStreams
  BY DEF SignalInv
<1>. QED
  BY <1>1, SignalInvHolds, PTL

\* Public streams keep to their limit, and each gives its place back
\* (streamPublicEvents).
THEOREM PublicStreamsCounted == Spec => [](SlotsAreStreams /\ slots <= MaxPublicStreams)
<1>1. SignalInv => SlotsAreStreams /\ slots <= MaxPublicStreams
  BY DEF SignalInv, TypeOK
<1>. QED
  BY <1>1, SignalInvHolds, PTL

\* Every variable keeps its type, for any writers, pages and streams: data a page
\* may show, places in use, handlers and EventSources (Hub, Directory).
THEOREM TypeCorrect == Spec => []TypeOK
<1>1. SignalInv => TypeOK
  BY DEF SignalInv
<1>. QED
  BY <1>1, SignalInvHolds, PTL
=============================================================================
