--------------------------- MODULE MC_StakeIndex ---------------------------
(* Small instance of the abstract stake index: main-net modifier interval *)
(* of 60 s, timestamps that fall in the same, in the next and in a much   *)
(* later interval, including ones earlier than their parent's.            *)
EXTENDS StakeIndex

MCTimes == {0, 50, 70, 130}
MCModifierValues == 0 .. 1
=============================================================================
