------------------------------ MODULE BoraTalk ------------------------------
(***************************************************************************)
(* What a conversation with Bora promises: one question at a time, which   *)
(* ends; an answered one adds one exchange, a lost one adds nothing, unless *)
(* the answer was kept and only the word of it lost; and nothing takes      *)
(* exchanges away but a deletion.  BoraTurns implements it.                *)
(***************************************************************************)
EXTENDS Naturals

CONSTANTS Convs

VARIABLES
  kept,      \* exchanges of each conversation in the database
  asked      \* the question of each conversation

vars == <<kept, asked>>

Init ==
  /\ kept = [c \in Convs |-> 0]
  /\ asked = [c \in Convs |-> "no"]

Ask(c) ==
  /\ asked[c] = "no"
  /\ asked' = [asked EXCEPT ![c] = "open"]
  /\ UNCHANGED kept

Answer(c) ==
  /\ asked[c] = "open"
  /\ asked' = [asked EXCEPT ![c] = "answered"]
  /\ kept' = [kept EXCEPT ![c] = @ + 1]

Lose(c) ==
  /\ asked[c] = "open"
  /\ asked' = [asked EXCEPT ![c] = "lost"]
  /\ kept' \in {kept, [kept EXCEPT ![c] = @ + 1]}

Close(c) ==
  /\ asked[c] \in {"answered", "lost"}
  /\ asked' = [asked EXCEPT ![c] = "no"]
  /\ UNCHANGED kept

Delete ==
  /\ \E gone \in SUBSET Convs : kept' = [c \in Convs |-> IF c \in gone THEN 0 ELSE kept[c]]
  /\ UNCHANGED asked

\* Boreas restarts: the questions are forgotten, the exchanges are not.
Restart ==
  /\ asked' = [c \in Convs |-> "no"]
  /\ UNCHANGED kept

Next ==
  \/ \E c \in Convs : Ask(c) \/ Answer(c) \/ Lose(c) \/ Close(c)
  \/ Delete
  \/ Restart

\* Every question is answered or lost, and then makes room for the next one.
Fairness == \A c \in Convs : WF_vars(Answer(c) \/ Lose(c)) /\ WF_vars(Close(c))

Spec == Init /\ [][Next]_vars /\ Fairness
=============================================================================
