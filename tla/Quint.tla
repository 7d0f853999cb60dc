------------------------------- MODULE Quint -------------------------------
(***************************************************************************)
(* tass-quint: mage quintessence in thousandths of a point, replicated     *)
(* into a whole-point field older clients know, and the rule that decides  *)
(* whether the two still belong together.  An optional field is a set of   *)
(* at most one value: {} is absent.                                        *)
(***************************************************************************)
EXTENDS Integers

CONSTANTS
  PerPoint,         \* PER_POINT, 1000 in the code
  MinInt, MaxInt    \* the bounds of i64

ASSUME QuintAssumption ==
  /\ PerPoint \in Nat \ {0}
  /\ MinInt \in Int /\ MaxInt \in Int
  /\ MinInt <= 0 /\ 0 <= MaxInt

\* Whole points: i64 division, which truncates towards zero.
Points(q) == IF q >= 0 THEN q \div PerPoint ELSE -((-q) \div PerPoint)

\* The lexicon bounds quintessence by 20, so the product stays within i64.
FromPoints(p) == p * PerPoint

\* add_millis saturates.
AddMillis(q, delta) ==
  IF q + delta > MaxInt THEN MaxInt
  ELSE IF q + delta < MinInt THEN MinInt ELSE q + delta

\* A slip: the replicated field is taken for the balance.
ResolveLegacy(milli, quintessence) ==
  IF quintessence # {} THEN {FromPoints(p) : p \in quintessence} ELSE milli

\* The effective balance: the milli field, or the legacy one hydrated, or none.
Resolve(milli, quintessence) ==
  IF milli # {} THEN milli ELSE {FromPoints(p) : p \in quintessence}

\* The fields a write sets: the stamp of the milli value only when one was asked for.
SheetPatch(q, stamp) == [milli |-> {q}, quintessence |-> {Points(q)}, stamp |-> stamp]

\* MilliIsTruthCoherence::classify.
Classify(milli, quintessence, stamp, updated) ==
  IF milli = {} THEN "InSync"
  ELSE IF quintessence # {Points(q) : q \in milli} THEN "RefreshFloor"
  ELSE IF \E s \in stamp, u \in updated : u > s THEN "RefreshFloor"
  ELSE "InSync"

\* The reference the documents give for Points.
Floor(q) == q \div PerPoint
=============================================================================
