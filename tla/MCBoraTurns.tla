---------------------------- MODULE MCBoraTurns ----------------------------
(* BoraTurns with one user's conversations.                                *)
EXTENDS BoraTurns

CONSTANTS ann

MCOwner == [v \in Convs |-> ann]
=============================================================================
