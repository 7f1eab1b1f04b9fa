----------------------------- MODULE MCTimpControl -----------------------------
(***************************************************************************)
(* Every connected topology of the switches 0 .. 3, cabled in one order,   *)
(* switch 4 being left out; and a fabric of the leaves 0, 2, 3 and the     *)
(* spines 1, 4, cabled after leafspine().                                  *)
(***************************************************************************)
EXTENDS TimpControl, SequencesExt

Four == 0 .. 3
Pair == { x \in Four \X Four : x[1] < x[2] }

Connects(E) ==
  \A S \in (SUBSET Four) \ {{}, Four} :
    \E x \in E : (x[1] \in S) # (x[2] \in S)

LeafSpine == << <<1, 0>>, <<1, 2>>, <<1, 3>>, <<4, 0>>, <<4, 2>>, <<4, 3>> >>

MCCablings == { SetToSeq(E) : E \in { F \in SUBSET Pair : Connects(F) } }
                \cup { LeafSpine }

MCTwoDests == <<0, 1>>
=============================================================================
