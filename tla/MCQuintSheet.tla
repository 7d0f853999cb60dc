---------------------------- MODULE MCQuintSheet ----------------------------
(***************************************************************************)
(* QuintSheet for TLC: four millis to the point.                           *)
(***************************************************************************)
EXTENDS QuintSheet, TLC

Procs == Permutations(Proc)

MCSetTo == {6}
MCIncBy == {1, -3}
MCMinInt == -99

\* A legacy sheet, a sheet tassle wrote, and a mage block with neither field.
Blank == [kind |-> "mage", milli |-> {}, quintessence |-> {}, stamp |-> {},
          updated |-> {}, rest |-> 0]
MCSheets == {[Blank EXCEPT !.quintessence = {2}],
             [Blank EXCEPT !.milli = {9}, !.quintessence = {2}, !.stamp = {0}, !.updated = {0}],
             Blank}
=============================================================================
