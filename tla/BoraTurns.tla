----------------------------- MODULE BoraTurns -----------------------------
(***************************************************************************)
(* Bora's turns: ProjectService in internal/service/bora.go, from a        *)
(* question to its answer in the database and in any number of streams,    *)
(* with the conversations of internal/infra/postgres/bora.go.              *)
(*                                                                         *)
(* A turn runs apart from the request that asked for it.  Three places     *)
(* know of it, each changed at a moment of its own: the map s.turns, where *)
(* a conversation has one turn and a user a few; the database, where the   *)
(* question and its answer go in one transaction; and the turn, which the  *)
(* streams of several requests replay and follow.                          *)
(*                                                                         *)
(* A question with its answer is an exchange: messages 2n and 2n+1 of the  *)
(* conversation, the n a turn was asked with.  Their text, and how the     *)
(* model comes to it, are left out.  Of a stream, what is left is the wake *)
(* channel it holds, which the turn's next event closes: a stream that is  *)
(* woken has events to take, or the end.                                   *)
(*                                                                         *)
(* Bounds: a conversation has at most MaxExchanges, and Turns is how many  *)
(* turns there can be at once, with those that streams still follow.       *)
(***************************************************************************)
EXTENDS Naturals, FiniteSets

CONSTANTS
  Convs, Users, Owner,   \* conversations, by the fresh id a first question draws; their users
  Clients,               \* requests
  Turns, NoTurn,
  PerUser, InFlight,     \* turnsPerUser, turnsInFlight
  MaxRounds,             \* maxRounds of internal/infra/llm/assistant.go
  MaxExchanges

ASSUME BoraAssumption ==
  /\ IsFiniteSet(Convs)
  /\ Owner \in [Convs -> Users]
  /\ PerUser \in Nat \ {0} /\ InFlight \in Nat \ {0}
  /\ MaxExchanges \in Nat \ {0} /\ MaxRounds \in Nat \ {0}

VARIABLES
  stored,    \* the exchanges of each conversation's row; no row without one
  dead,      \* conversations whose user or project is deleted
  places,    \* s.turns
  turn,      \* the turns
  job,       \* what each request is about to do
  gone       \* history: conversations that could be read, and then could not

vars == <<stored, dead, places, turn, job, gone>>

Ns == 0..(MaxExchanges - 1)

\* at: the model answers; the answer is about to be saved; answer returned, with
\* an answer or an error; the turn has left the map; its last event is published.
\* left: rounds of the model that may still call tools; 0 once they have ended.
Turn == [conv : Convs, n : Ns, cancelled : BOOLEAN, over : BOOLEAN,
         left : 0..MaxRounds,
         at : {"asking", "saving", "saved", "failed", "left", "told"}]

ASSUME NoTurnAssumption == NoTurn \notin Turns /\ NoTurn \notin Turn

Idle == [at |-> "idle"]
Job ==
  {Idle}
    \cup [at : {"read", "messages", "missing"}, conv : Convs]
    \cup [at : {"enter"}, conv : Convs, n : 0..MaxExchanges]
    \cup [at : {"look"}, conv : Convs, first : BOOLEAN]
    \cup [at : {"cancel"}, convs : SUBSET Convs]
    \cup [at : {"follow"}, turn : Turns, woken : BOOLEAN]

Holding == {"asking", "saving", "saved", "failed"}
Follows(c, t) == job[c].at = "follow" /\ job[c].turn = t
Runs(c) == places[c] # NoTurn
OnFirst(c) == Runs(c) /\ turn[places[c]].n = 0
Of(u) == {c \in Convs : Owner[c] = u}
Running(S) == {c \in S : Runs(c)}

\* The user has learnt the id: from the list, or from the first turn's stream.
Known(c) == stored[c] # {} \/ OnFirst(c) \/ c \in gone

\* An id that a refused question has drawn comes back, as it was never told.
Fresh(v) ==
  /\ stored[v] = {} /\ ~Runs(v) /\ v \notin gone
  /\ \A c \in Clients : job[c].at = "enter" => job[c].conv # v

\* Nothing runs it and nothing keeps it.
Free(t) == turn[t] = NoTurn
Forgotten(t) == turn[t] # NoTurn /\ turn[t].over /\ ~\E c \in Clients : Follows(c, t)

\* A stream begins with the events there are.
Following(t) == [at |-> "follow", turn |-> t, woken |-> TRUE]

\* The rounds of the model are over.
Finishing(t, at) == [turn EXCEPT ![t].at = at, ![t].left = 0]

Become(c, j) == job' = [job EXCEPT ![c] = j]
Waking(t) == [c \in Clients |-> IF Follows(c, t) THEN [job[c] EXCEPT !.woken = TRUE] ELSE job[c]]
Cancelling(S) ==
  [t \in Turns |-> IF turn[t] # NoTurn /\ \E c \in S : places[c] = t
                   THEN [turn[t] EXCEPT !.cancelled = TRUE] ELSE turn[t]]

(***************************************************************************)
(* Questions.                                                              *)
(***************************************************************************)
\* StartBora draws an id, and reads the fleet.
StartBora(c, v) ==
  /\ job[c] = Idle
  /\ Fresh(v)
  /\ Become(c, [at |-> "enter", conv |-> v, n |-> 0])
  /\ UNCHANGED <<stored, dead, places, turn, gone>>

\* AskBora refuses a running conversation at once ...
AskBora(c, v) ==
  /\ job[c] = Idle
  /\ Known(v) /\ ~Runs(v)
  /\ Become(c, [at |-> "read", conv |-> v])
  /\ UNCHANGED <<stored, dead, places, turn, gone>>

\* ... then reads its row ...
Read(c) ==
  /\ job[c].at = "read"
  /\ LET v == job[c].conv IN
       Become(c, [at |-> IF stored[v] = {} THEN "missing" ELSE "messages", conv |-> v])
  /\ UNCHANGED <<stored, dead, places, turn, gone>>

\* ... its messages, which have gone with the row when that was deleted meanwhile:
\* the question is then taken for the first; and the fleet.
ReadMessages(c) ==
  /\ job[c].at = "messages"
  /\ LET v == job[c].conv IN Become(c, [at |-> "enter", conv |-> v, n |-> Cardinality(stored[v])])
  /\ UNCHANGED <<stored, dead, places, turn, gone>>

\* As if enter relied on AskBora's look into the map.
HasRoomBeside(v) ==
  /\ Cardinality(Running(Of(Owner[v]))) < PerUser
  /\ Cardinality(Running(Convs)) < InFlight

HasRoom(v) ==
  /\ ~Runs(v)
  /\ Cardinality(Running(Of(Owner[v]))) < PerUser
  /\ Cardinality(Running(Convs)) < InFlight

\* The request follows the turn it starts.
Enter(c, t) ==
  /\ job[c].at = "enter" /\ job[c].n \in Ns
  /\ HasRoom(job[c].conv)
  /\ Free(t)
  /\ places' = [places EXCEPT ![job[c].conv] = t]
  /\ turn' = [turn EXCEPT ![t] =
       [conv |-> job[c].conv, n |-> job[c].n, cancelled |-> FALSE, over |-> FALSE,
        left |-> MaxRounds, at |-> "asking"]]
  /\ Become(c, Following(t))
  /\ UNCHANGED <<stored, dead, gone>>

\* ErrConflict, ErrTooMany, or an error before enter; also the reply of a 404.
Refuse(c) ==
  /\ job[c].at \in {"read", "messages", "enter", "look", "missing"}
  /\ Become(c, Idle)
  /\ UNCHANGED <<stored, dead, places, turn, gone>>

(***************************************************************************)
(* A turn.                                                                 *)
(***************************************************************************)
\* A step, a delta, or a line to say aloud.
Step(t) ==
  /\ ~Free(t) /\ turn[t].at = "asking"
  /\ job' = Waking(t)
  /\ UNCHANGED <<stored, dead, places, turn, gone>>

\* As if a model that calls tools in its last round went on.
ToolsForEver(t) ==
  /\ ~Free(t) /\ turn[t].at = "asking" /\ ~turn[t].cancelled
  /\ turn' = [turn EXCEPT ![t].left = IF @ = 0 THEN MaxRounds ELSE @ - 1]
  /\ UNCHANGED <<stored, dead, places, job, gone>>

\* A round of the model calls tools, whose results go to the next round: the last
\* one when this was one too many, or spent the budget for results.
CallTools(t) ==
  /\ ~Free(t) /\ turn[t].at = "asking" /\ ~turn[t].cancelled
  /\ turn[t].left > 0
  /\ turn' \in {[turn EXCEPT ![t].left = @ - 1], [turn EXCEPT ![t].left = 0]}
  /\ UNCHANGED <<stored, dead, places, job, gone>>

\* The model has answered.  A cancelled request to it returns an error.
Answer(t) ==
  /\ ~Free(t) /\ turn[t].at = "asking" /\ ~turn[t].cancelled
  /\ turn' = Finishing(t, "saving")
  /\ UNCHANGED <<stored, dead, places, job, gone>>

\* As if messages were numbered from one.
CommittedFromOne(t) ==
  LET v == turn[t].conv IN
  /\ v \notin dead /\ turn[t].n + 1 \notin stored[v]
  /\ stored' = [stored EXCEPT ![v] = @ \cup {turn[t].n + 1}]

\* As if the tables had no foreign keys.
CommittedForNobody(t) ==
  LET v == turn[t].conv IN
  /\ turn[t].n \notin stored[v]
  /\ stored' = [stored EXCEPT ![v] = @ \cup {turn[t].n}]

\* Save inserts the row, unless it is there, and the exchange: not under a key
\* that is taken, nor for a user or a project that is not there.
Committed(t) ==
  LET v == turn[t].conv IN
  /\ v \notin dead /\ turn[t].n \notin stored[v]
  /\ stored' = [stored EXCEPT ![v] = @ \cup {turn[t].n}]

Save(t) ==
  /\ ~Free(t) /\ turn[t].at = "saving"
  /\ Committed(t)
  /\ turn' = [turn EXCEPT ![t].at = "saved"]
  /\ UNCHANGED <<dead, places, job, gone>>

\* Save commits, but the turn is cancelled or the connection lost before it hears.
SaveUnheard(t) ==
  /\ ~Free(t) /\ turn[t].at = "saving"
  /\ Committed(t)
  /\ turn' = [turn EXCEPT ![t].at = "failed"]
  /\ UNCHANGED <<dead, places, job, gone>>

\* As if an error returned before the turn left the map.
GiveUpAtOnce(t) ==
  /\ ~Free(t) /\ turn[t].at \in {"asking", "saving"}
  /\ turn' = Finishing(t, "left")
  /\ UNCHANGED <<stored, dead, places, job, gone>>

\* The model fails, the turn is cancelled, or Save does not commit.
GiveUp(t) ==
  /\ ~Free(t) /\ turn[t].at \in {"asking", "saving"}
  /\ turn' = Finishing(t, "failed")
  /\ UNCHANGED <<stored, dead, places, job, gone>>

\* Nobody cancels a turn that is off the map, and what it has left to do asks no
\* more whether it was: its own cancel, deferred, is taken here.
LeavePlace(t) ==
  /\ ~Free(t) /\ turn[t].at \in {"saved", "failed"}
  /\ LET v == turn[t].conv IN
       /\ places' = [places EXCEPT ![v] = NoTurn]
       /\ gone' = IF turn[t].n = 0 /\ stored[v] = {} THEN gone \cup {v} ELSE gone
  /\ turn' = [turn EXCEPT ![t].at = "left", ![t].cancelled = TRUE]
  /\ UNCHANGED <<stored, dead, job>>

\* done, stopped or error.
Outcome(t) ==
  /\ ~Free(t) /\ turn[t].at = "left"
  /\ turn' = [turn EXCEPT ![t].at = "told"]
  /\ job' = Waking(t)
  /\ UNCHANGED <<stored, dead, places, gone>>

\* As if end did not close the wake.
EndSilently(t) ==
  /\ ~Free(t) /\ turn[t].at = "told" /\ ~turn[t].over
  /\ turn' = [turn EXCEPT ![t].over = TRUE]
  /\ UNCHANGED <<stored, dead, places, job, gone>>

End(t) ==
  /\ ~Free(t) /\ turn[t].at = "told" /\ ~turn[t].over
  /\ turn' = [turn EXCEPT ![t].over = TRUE]
  /\ job' = Waking(t)
  /\ UNCHANGED <<stored, dead, places, gone>>

Collect(t) ==
  /\ Forgotten(t)
  /\ turn' = [turn EXCEPT ![t] = NoTurn]
  /\ UNCHANGED <<stored, dead, places, job, gone>>

(***************************************************************************)
(* Streams: follow, which gives events to sse until the turn ends.         *)
(***************************************************************************)
FollowBora(c, v) ==
  /\ job[c] = Idle
  /\ Runs(v)
  /\ Become(c, Following(places[v]))
  /\ UNCHANGED <<stored, dead, places, turn, gone>>

\* Under the lock, the stream takes the events it has not sent, the wake that the
\* next one closes, and whether the turn is over; it sends them, and returns or
\* waits.
Take(c) ==
  /\ job[c].at = "follow" /\ job[c].woken
  /\ Become(c, IF turn[job[c].turn].over THEN Idle ELSE [job[c] EXCEPT !.woken = FALSE])
  /\ UNCHANGED <<stored, dead, places, turn, gone>>

\* The client is gone: its context ends, the turn runs on.
Leave(c) ==
  /\ job[c].at = "follow"
  /\ Become(c, Idle)
  /\ UNCHANGED <<stored, dead, places, turn, gone>>

(***************************************************************************)
(* Reading, stopping and deleting.                                         *)
(***************************************************************************)
\* BoraConversation looks for a turn, and then for the row.
Look(c, v) ==
  /\ job[c] = Idle
  /\ Known(v)
  /\ Become(c, [at |-> "look", conv |-> v, first |-> OnFirst(v)])
  /\ UNCHANGED <<stored, dead, places, turn, gone>>

\* As if a first turn were not read in place of its row.
FindStored(c) ==
  /\ job[c].at = "look"
  /\ Become(c, IF stored[job[c].conv] = {}
               THEN [at |-> "missing", conv |-> job[c].conv] ELSE Idle)
  /\ UNCHANGED <<stored, dead, places, turn, gone>>

Find(c) ==
  /\ job[c].at = "look"
  /\ Become(c, IF stored[job[c].conv] = {} /\ ~job[c].first
               THEN [at |-> "missing", conv |-> job[c].conv] ELSE Idle)
  /\ UNCHANGED <<stored, dead, places, turn, gone>>

StopBora(v) ==
  /\ Runs(v)
  /\ turn' = Cancelling({v})
  /\ UNCHANGED <<stored, dead, places, job, gone>>

\* The rows of S go.  Who reads one of them finds nothing, unless its first turn runs.
Erase(S) ==
  /\ stored' = [v \in Convs |-> IF v \in S THEN {} ELSE stored[v]]
  /\ gone' = gone \cup {v \in S : stored[v] # {} /\ ~OnFirst(v)}

\* DeleteBora, of one conversation or of all of a user's: first the rows ...
DeleteBora(c, S) ==
  /\ job[c] = Idle
  /\ Erase(S)
  /\ Become(c, [at |-> "cancel", convs |-> S])
  /\ UNCHANGED <<dead, places, turn>>

\* ... and then the turns.
CancelTurns(c) ==
  /\ job[c].at = "cancel"
  /\ turn' = Cancelling(job[c].convs)
  /\ Become(c, Idle)
  /\ UNCHANGED <<stored, dead, places, gone>>

Deletable == {{v} : v \in {w \in Convs : Known(w)}} \cup {Of(u) : u \in Users}

\* The conversation's project or user is deleted, and the row with it.
Vanish(v) ==
  /\ Known(v) /\ v \notin dead
  /\ dead' = dead \cup {v}
  /\ Erase({v})
  /\ UNCHANGED <<places, turn, job>>

(***************************************************************************)
(* The server.                                                             *)
(***************************************************************************)
\* Shutdown cancels every turn that runs; requests that were let in go on.
StopAllBora ==
  /\ turn' = Cancelling(Convs)
  /\ UNCHANGED <<stored, dead, places, job, gone>>

\* Boreas ends, at any moment, and starts again.
Restart ==
  /\ places' = [v \in Convs |-> NoTurn]
  /\ turn' = [t \in Turns |-> NoTurn]
  /\ job' = [c \in Clients |-> Idle]
  /\ gone' = gone \cup {v \in Convs : OnFirst(v) /\ stored[v] = {}}
  /\ UNCHANGED <<stored, dead>>

Init ==
  /\ stored = [v \in Convs |-> {}]
  /\ dead = {}
  /\ places = [v \in Convs |-> NoTurn]
  /\ turn = [t \in Turns |-> NoTurn]
  /\ job = [c \in Clients |-> Idle]
  /\ gone = {}

TurnNext(t) ==
  \/ CallTools(t) \/ Answer(t) \/ Save(t) \/ SaveUnheard(t) \/ GiveUp(t)
  \/ LeavePlace(t) \/ Outcome(t) \/ End(t)

ClientNext(c) ==
  \/ \E v \in Convs : StartBora(c, v) \/ AskBora(c, v) \/ FollowBora(c, v) \/ Look(c, v)
  \/ Read(c) \/ ReadMessages(c) \/ Refuse(c) \/ Find(c) \/ CancelTurns(c) \/ Leave(c)
  \/ \E t \in Turns : Enter(c, t)
  \/ \E S \in Deletable : DeleteBora(c, S)

Next ==
  \/ \E t \in Turns : TurnNext(t) \/ Step(t) \/ Collect(t)
  \/ \E c \in Clients : Take(c) \/ ClientNext(c)
  \/ \E v \in Convs : StopBora(v) \/ Vanish(v)
  \/ StopAllBora
  \/ Restart

Spec == Init /\ [][Next]_vars

\* A turn goes on: a request to the model and a tool have time limits, and so has
\* the pool's connection.  Who listens to a stream reads what it is sent.
Fairness ==
  /\ \A t \in Turns : WF_vars(TurnNext(t))
  /\ \A c \in Clients : WF_vars(Take(c))

FairSpec == Spec /\ Fairness
(***************************************************************************)
(* Properties.                                                             *)
(***************************************************************************)
\* Everything has its type.
TypeOK ==
  /\ stored \in [Convs -> SUBSET Ns]
  /\ dead \in SUBSET Convs
  /\ places \in [Convs -> Turns \cup {NoTurn}]
  /\ turn \in [Turns -> Turn \cup {NoTurn}]
  /\ job \in [Clients -> Job]
  /\ gone \in SUBSET Convs

\* s.turns holds the turns that run, each in its conversation's place, so that a
\* place taken is given back; and never more of them than the limits of enter.
PlacesBounded ==
  /\ \A v \in Convs : Runs(v) =>
       /\ ~Free(places[v])
       /\ turn[places[v]].conv = v
       /\ turn[places[v]].at \in Holding
  /\ \A t \in Turns : ~Free(t) =>
       /\ turn[t].at \in Holding => places[turn[t].conv] = t
       /\ turn[t].over => turn[t].at \notin Holding
  /\ \A u \in Users : Cardinality(Running(Of(u))) <= PerUser
  /\ Cardinality(Running(Convs)) <= InFlight

\* Exchanges are kept in the order they were asked in, from the first one and
\* without a gap, in every conversation that nobody has deleted; one without its
\* user or its project keeps none.
ExchangesInOrder ==
  /\ \A v \in Convs \ gone : stored[v] = 0..(Cardinality(stored[v]) - 1)
  /\ \A v \in dead : stored[v] = {}

\* A conversation is not found, by who reads it or asks in it, only after it was
\* deleted or its first question lost: reading finds it at every moment from its
\* first question in s.turns to its first answer in the database.
MissingIsGone ==
  \A c \in Clients : job[c].at = "missing" => job[c].conv \in gone

\* The promise of BoraTalk: a question is asked when its turn enters s.turns and
\* closed when it leaves.
Asked(v) ==
  IF ~Runs(v) THEN "no"
  ELSE IF turn[places[v]].at \in {"asking", "saving"} THEN "open"
  ELSE IF turn[places[v]].at = "saved" THEN "answered" ELSE "lost"

Talk == INSTANCE BoraTalk
  WITH kept <- [v \in Convs |-> Cardinality(stored[v])], asked <- [v \in Convs |-> Asked(v)]

\* BoraTurns implements BoraTalk: one question at a time in a conversation, each
\* adds one exchange or none, none is taken away but by a deletion, and none
\* keeps its conversation from the next question for ever.
TalkKept == Talk!Spec

\* A stream of a turn ends: follow cannot miss the last of the turn's events,
\* wherever it was when the turn ended.
FollowersHearTheEnd ==
  \A c \in Clients : job[c].at = "follow" ~> job[c] = Idle
=============================================================================
