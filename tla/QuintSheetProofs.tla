-------------------------- MODULE QuintSheetProofs --------------------------
(***************************************************************************)
(* Proofs about QuintSheet, for any number of commands, any amounts and    *)
(* any bounds: its types, that a stamped write leaves the sheet in sync,   *)
(* that only a race loses anything, and what a race can make of a balance. *)
(***************************************************************************)
EXTENDS QuintSheet, TLAPS

(***************************************************************************)
(* The values.                                                             *)
(***************************************************************************)

\* Points is a whole number: of thousandths of any sign.
LEMMA PointsInt == \A q \in Int : Points(q) \in Int
<1>1. PerPoint \in Int /\ PerPoint > 0
  BY QuintAssumption
<1>2. QED
  BY <1>1 DEF Points

\* Truncation is flooring on the balances the lexicon knows, which is why the tests of
\* points() agree with its documentation.
THEOREM PointsFloorsNonNegative ==
  \A q \in Int : q >= 0 => Points(q) = Floor(q)
BY DEF Points, Floor

\* Hydrating whole points gives a whole number of millis.
LEMMA FromPointsInt == \A p \in Int : FromPoints(p) \in Int
BY QuintAssumption DEF FromPoints

\* add_millis stays within i64, and adds exactly whenever the sum does.
THEOREM AddMillisBounded ==
  \A q, d \in MinInt .. MaxInt :
    /\ AddMillis(q, d) \in MinInt .. MaxInt
    /\ q + d \in MinInt .. MaxInt => AddMillis(q, d) = q + d
BY QuintAssumption DEF AddMillis

LEMMA AddMillisInt == \A q, d \in Int : AddMillis(q, d) \in Int
BY QuintAssumption DEF AddMillis

\* The balance of a record is a set of integers.
LEMMA BalanceInt == \A s \in Sheet : Balance(s) \subseteq Int
<1> SUFFICES ASSUME NEW s \in Sheet PROVE Balance(s) \subseteq Int
  OBVIOUS
<1>1. s.milli \subseteq Int /\ s.quintessence \subseteq Int
  BY DEF Sheet
<1>2. {FromPoints(p) : p \in s.quintessence} \subseteq Int
  BY <1>1, FromPointsInt
<1>3. QED
  BY <1>1, <1>2 DEF Balance, Resolve

-----------------------------------------------------------------------------
(***************************************************************************)
(* Types.  A command's number is known to be one while it runs.            *)
(***************************************************************************)

Numbered == \A t \in Proc : th[t].pc # "idle" => th[t].call \in 1 .. MaxCall

\* And so is what it does.
Doing == \A t \in Proc : th[t].pc # "idle" => th[t].op \in {"set", "inc", "patch"}

Typed == TypeOK /\ Numbered /\ Doing

LEMMA IdleTyped == Idle \in Command
BY SheetAssumption DEF Idle, Command

\* Patching keeps a record a record, whose updatedAt is a clock reading.
LEMMA PatchedTyped ==
  ASSUME Typed, NEW t \in Proc, NEW s \in Sheet
  PROVE  Patched(t, s) \in Sheet
<1>1. th[t] \in Command
  BY DEF Typed, TypeOK
<1>2. th[t].next \in Int /\ th[t].now \in 0 .. MaxTime
  BY <1>1 DEF Command
<1>3. th[t].stamp \in {"now", "past", "future", "none"}
  BY <1>1, SheetAssumption DEF Command
<1>4. StampOf(t) \subseteq Time
  BY <1>2, <1>3, SheetAssumption DEF StampOf, Time
<1>5. Points(th[t].next) \in Int
  BY <1>2, PointsInt
<1>6. QED
  BY <1>2, <1>4, <1>5 DEF Patched, SheetPatch, Sheet

LEMMA StartTyped ==
  ASSUME Typed, NEW t \in Proc, NEW op \in {"set", "inc", "patch"}, NEW arg \in Int,
         NEW stamp \in Stamp \cup {"none"}, Start(t, op, arg, stamp)
  PROVE  Typed'
<1>1. calls \in 0 .. MaxCall /\ calls' = calls + 1 /\ calls' \in 1 .. MaxCall
  BY SheetAssumption DEF Typed, TypeOK, Start
<1> DEFINE c == [Idle EXCEPT !.pc = IF op = "inc" THEN "read" ELSE "fetch", !.op = op,
                             !.arg = arg, !.next = arg, !.stamp = stamp, !.call = calls + 1]
<1>2. c \in Command /\ c.call \in 1 .. MaxCall /\ c.op = op
  <2>1. calls + 1 \in 1 .. MaxCall /\ calls + 1 \in 0 .. MaxCall
    BY <1>1
  <2>2. Idle \in Command
    BY IdleTyped
  <2>3. QED
    BY <2>1, <2>2 DEF Command
<1>3. th' = [th EXCEPT ![t] = c]
  BY DEF Start
<1> HIDE DEF c
<1>4. th' \in [Proc -> Command] /\ Numbered' /\ Doing'
  BY <1>2, <1>3 DEF Typed, TypeOK, Numbered, Doing
<1>5. QED
  BY <1>1, <1>4 DEF Typed, TypeOK, Start, history

LEMMA ReadTyped ==
  ASSUME Typed, NEW t \in Proc, Read(t)
  PROVE  Typed'
<1>1. PICK q \in OrZero(Balance(sheet)) :
        th' = [th EXCEPT ![t].pc = "fetch", ![t].next = AddMillis(q, th[t].arg),
                         ![t].seen = {version}]
  BY DEF Read
<1>2. th[t] \in Command /\ version \in Nat
  BY DEF Typed, TypeOK
<1>3. q \in Int
  BY BalanceInt DEF OrZero, Typed, TypeOK
<1>4. th[t].arg \in Int
  BY <1>2 DEF Command
<1> DEFINE next == AddMillis(q, th[t].arg)
<1>5. next \in Int
  BY <1>3, <1>4, AddMillisInt
<1> HIDE DEF next
<1> DEFINE c == [th[t] EXCEPT !.pc = "fetch", !.next = next, !.seen = {version}]
<1>typed. c \in Command /\ c.call = th[t].call /\ c.op = th[t].op
  BY <1>2, <1>5 DEF Command
<1>6. th'[t] = c
  BY <1>1 DEF Typed, TypeOK, next
<1>7. th'[t] \in Command /\ th'[t].call = th[t].call /\ th'[t].op = th[t].op
  BY <1>typed, <1>6
<1>8. \A u \in Proc : u # t => th'[u] = th[u]
  BY <1>1 DEF Typed, TypeOK
<1>9. th[t].pc # "idle"
  BY DEF Read
<1>10. th' \in [Proc -> Command] /\ Numbered' /\ Doing'
  BY <1>1, <1>7, <1>8, <1>9 DEF Typed, TypeOK, Numbered, Doing
<1>11. QED
  BY <1>10 DEF Typed, TypeOK, Read, history

LEMMA FetchTyped ==
  ASSUME Typed, NEW t \in Proc, Fetch(t)
  PROVE  Typed'
<1>1. th[t] \in Command /\ version \in Nat /\ sheet \in Sheet /\ clock \in 0 .. MaxTime
  BY DEF Typed, TypeOK
<1>2. FirstSeen(t) \subseteq Nat
  BY <1>1 DEF FirstSeen, Command
<1> DEFINE seen == FirstSeen(t)
           c == [th[t] EXCEPT !.pc = "put", !.copy = {sheet}, !.now = clock, !.seen = seen]
<1>3. th'[t] = c
  BY DEF Fetch, Typed, TypeOK
<1> HIDE DEF seen
<1>typed. c \in Command /\ c.call = th[t].call /\ c.op = th[t].op
  BY <1>1, <1>2 DEF Command, seen
<1>4. th'[t] \in Command /\ th'[t].call = th[t].call /\ th'[t].op = th[t].op
  BY <1>typed, <1>3
<1>5. th' \in [Proc -> Command] /\ \A u \in Proc : u # t => th'[u] = th[u]
  BY <1>4 DEF Fetch, Typed, TypeOK
<1>6. Numbered' /\ Doing'
  BY <1>4, <1>5 DEF Fetch, Typed, Numbered, Doing
<1>7. QED
  BY <1>5, <1>6 DEF Typed, TypeOK, Fetch, history

\* A command goes on with what it was asked.
LEMMA StillAsked ==
  ASSUME Typed, NEW t \in Proc, Read(t) \/ Fetch(t), NEW u \in Proc
  PROVE  th'[u].op = th[u].op /\ th'[u].arg = th[u].arg /\ th'[u].stamp = th[u].stamp
<1>1. th \in [Proc -> Command]
  BY DEF Typed, TypeOK
<1>2. \A next, seen, copy, now :
        LET read  == [th[t] EXCEPT !.pc = "fetch", !.next = next, !.seen = seen]
            fetch == [th[t] EXCEPT !.pc = "put", !.copy = copy, !.now = now, !.seen = seen]
        IN  /\ read.op = th[t].op /\ read.arg = th[t].arg /\ read.stamp = th[t].stamp
            /\ fetch.op = th[t].op /\ fetch.arg = th[t].arg /\ fetch.stamp = th[t].stamp
  BY <1>1 DEF Command
<1>3. CASE Read(t)
  <2>1. PICK q \in OrZero(Balance(sheet)) :
          th' = [th EXCEPT ![t].pc = "fetch", ![t].next = AddMillis(q, th[t].arg),
                           ![t].seen = {version}]
    BY <1>3 DEF Read
  <2> DEFINE next == AddMillis(q, th[t].arg)
  <2>2. th' = [th EXCEPT ![t] = [th[t] EXCEPT !.pc = "fetch", !.next = next, !.seen = {version}]]
    BY <1>1, <2>1
  <2> HIDE DEF next
  <2>3. QED
    BY <1>1, <1>2, <2>2
<1>4. CASE Fetch(t)
  <2> DEFINE seen == FirstSeen(t)
  <2>1. th' = [th EXCEPT ![t] = [th[t] EXCEPT !.pc = "put", !.copy = {sheet}, !.now = clock,
                                              !.seen = seen]]
    BY <1>1, <1>4 DEF Fetch
  <2> HIDE DEF seen
  <2>2. QED
    BY <1>1, <1>2, <2>1
<1>5. QED
  BY <1>3, <1>4

LEMMA GoesIdleTyped ==
  ASSUME Typed, NEW t \in Proc, th' = [th EXCEPT ![t] = Idle]
  PROVE  th' \in [Proc -> Command] /\ Numbered' /\ Doing'
<1>1. Idle.pc = "idle"
  BY DEF Idle
<1>2. QED
  BY <1>1, IdleTyped DEF Typed, TypeOK, Numbered, Doing

LEMMA FailsTyped ==
  ASSUME Typed, NEW t \in Proc, Fails(t)
  PROVE  Typed'
<1>1. th' \in [Proc -> Command] /\ Numbered' /\ Doing'
  BY GoesIdleTyped DEF Fails
<1>2. QED
  BY <1>1 DEF Typed, TypeOK, Fails, history

\* A write that lands adds to what the balance may be, and takes nothing away.
LEMMA ReachGrows ==
  ASSUME Typed, NEW t \in Proc, Put(t)
  PROVE  /\ reach \subseteq reach' /\ reach' \subseteq Int
         /\ th[t].op = "set" => th[t].arg \in reach'
         /\ th[t].op = "inc" => \A q \in reach : AddMillis(q, th[t].arg) \in reach'
<1>1. th[t].arg \in Int /\ th[t].op \in {"set", "inc", "patch"}
  BY DEF Put, Typed, TypeOK, Command, Doing
<1> DEFINE added == CASE th[t].op = "set" -> {th[t].arg}
                      [] th[t].op = "inc" -> {AddMillis(q, th[t].arg) : q \in reach}
                      [] th[t].op = "patch" -> {}
<1>2. reach' = reach \cup added
  BY DEF Put, Landed
<1>3. /\ th[t].op = "set" => added = {th[t].arg}
      /\ th[t].op = "inc" => added = {AddMillis(q, th[t].arg) : q \in reach}
      /\ th[t].op = "patch" => added = {}
  BY <1>1
<1> HIDE DEF added
<1>4. reach \subseteq Int
  BY DEF Typed, TypeOK
<1>5. {AddMillis(q, th[t].arg) : q \in reach} \subseteq Int
  BY <1>1, <1>4, AddMillisInt
<1>6. added \subseteq Int
  BY <1>1, <1>3, <1>5
<1>7. QED
  BY <1>2, <1>3, <1>4, <1>6

LEMMA PutTyped ==
  ASSUME Typed, NEW t \in Proc, Put(t)
  PROVE  Typed'
<1>1. th' \in [Proc -> Command] /\ Numbered' /\ Doing'
  BY GoesIdleTyped DEF Put
<1>2. th[t] \in Command
  BY DEF Typed, TypeOK
<1>3. th[t].arg \in Int /\ th[t].copy \subseteq Sheet
  BY <1>2 DEF Command
<1>4. th[t].stamp \in {"now", "past", "future", "none"}
  BY <1>2, SheetAssumption DEF Command
<1>5. th[t].call \in 1 .. MaxCall
  BY DEF Put, Typed, Numbered
<1>6. sheet' \in Sheet
  <2>1. PICK s \in th[t].copy :
          sheet' = IF th[t].op = "patch" THEN Merged(t, s) ELSE Patched(t, s)
    BY DEF Put
  <2>2. MaxEdit + th[t].call \in Nat /\ th[t].now \in 0 .. MaxTime
    BY <1>2, <1>5, SheetAssumption DEF Command
  <2>3. s \in Sheet
    BY <1>3
  <2>4. Merged(t, s) \in Sheet
    BY <2>2, <2>3 DEF Merged, Sheet
  <2>5. Patched(t, s) \in Sheet
    BY <2>3, PatchedTyped
  <2>6. QED
    BY <2>1, <2>4, <2>5
<1>7. OrZero(total) \subseteq Int
  BY DEF Typed, TypeOK, OrZero
<1>8. {AddMillis(q, th[t].arg) : q \in OrZero(total)} \subseteq Int
  BY <1>3, <1>7, AddMillisInt
<1>9. total' \subseteq Int
  <2>1. total \subseteq Int
    BY DEF Typed, TypeOK
  <2>2. th[t].op \in {"set", "inc", "patch"}
    BY DEF Put, Typed, Doing
  <2>3. QED
    BY <1>3, <1>8, <2>1, <2>2 DEF Put, Landed
<1>10. reach' \subseteq Int
  BY ReachGrows
<1>11. version' \in Nat /\ raced' \in BOOLEAN /\ kept' \in Nat
  BY <1>5, SheetAssumption DEF Put, Landed, Typed, TypeOK
<1>12. last' \in {"other", "now", "none", "past", "future"}
  BY <1>4 DEF Put, Landed
<1>13. QED
  BY <1>1, <1>6, <1>9, <1>10, <1>11, <1>12 DEF Put, Typed, TypeOK

LEMMA EditedTyped ==
  ASSUME Typed, NEW s \in Sheet, Edited(s), kept' \in Nat,
         total' \subseteq Int, reach' \subseteq Int
  PROVE  Typed'
<1>1. sheet.updated \subseteq 0 .. MaxTime /\ {clock} \subseteq 0 .. MaxTime
  BY DEF Typed, TypeOK, Sheet
<1>2. sheet' \in Sheet
  BY <1>1 DEF Edited, Sheet
<1>3. Numbered' /\ Doing'
  BY DEF Edited, Typed, Numbered, Doing
<1>4. edits' \in 0 .. MaxEdit
  BY SheetAssumption DEF Edited, Typed, TypeOK
<1>5. QED
  BY <1>2, <1>3, <1>4 DEF Typed, TypeOK, Edited

LEMMA EditsTyped ==
  ASSUME Typed, \/ \E p \in Legacy : EditLegacy(p)
                \/ EditRest \/ Spoil \/ Restore
  PROVE  Typed'
<1>1. CASE \E p \in Legacy : EditLegacy(p)
  <2>1. PICK p \in Legacy : EditLegacy(p)
    BY <1>1
  <2>2. p \in Int /\ FromPoints(p) \in Int
    BY SheetAssumption, FromPointsInt
  <2>3. [sheet EXCEPT !.quintessence = {p}] \in Sheet
    BY <2>2 DEF Typed, TypeOK, Sheet
  <2>4. total' \subseteq Int /\ reach' \subseteq Int /\ kept' \in Nat
    BY <2>1, <2>2 DEF EditLegacy, Typed, TypeOK
  <2>5. QED
    BY <2>1, <2>3, <2>4, EditedTyped DEF EditLegacy
<1>2. CASE EditRest
  <2>1. edits + 1 \in Nat
    BY SheetAssumption DEF Typed, TypeOK
  <2>2. [sheet EXCEPT !.rest = edits + 1] \in Sheet
    BY <2>1 DEF Typed, TypeOK, Sheet
  <2>3. total' \subseteq Int /\ reach' \subseteq Int /\ kept' \in Nat
    BY <1>2, <2>1 DEF EditRest, Typed, TypeOK
  <2>4. QED
    BY <1>2, <2>2, <2>3, EditedTyped DEF EditRest
<1>3. CASE Spoil \/ Restore
  <2>1. PICK k \in {"mage", "pascal", "other", "absent"} : Edited([sheet EXCEPT !.kind = k])
    BY <1>3 DEF Spoil, Restore
  <2>2. [sheet EXCEPT !.kind = k] \in Sheet
    BY DEF Typed, TypeOK, Sheet
  <2>3. total' \subseteq Int /\ reach' \subseteq Int /\ kept' \in Nat
    BY <1>3 DEF Spoil, Restore, Typed, TypeOK
  <2>4. QED
    BY <2>1, <2>2, <2>3, EditedTyped
<1>4. QED
  BY <1>1, <1>2, <1>3

LEMMA InitTyped == Init => Typed
<1> SUFFICES ASSUME Init PROVE Typed
  OBVIOUS
<1>1. sheet \in Sheet
  BY SheetsAssumption DEF Init
<1>2. Balance(sheet) \subseteq Int
  BY <1>1, BalanceInt
<1>3. th \in [Proc -> Command] /\ Numbered /\ Doing
  BY IdleTyped DEF Init, Numbered, Doing, Idle
<1>4. sheet.rest \in Nat
  BY <1>1 DEF Sheet
<1>5. total \subseteq Int /\ reach \subseteq Int /\ kept \in Nat
  BY <1>2, <1>4 DEF Init
<1>6. clock \in 0 .. MaxTime /\ calls \in 0 .. MaxCall /\ edits \in 0 .. MaxEdit
  BY SheetAssumption DEF Init
<1>8. version \in Nat /\ raced \in BOOLEAN /\ last \in {"other", "now", "none", "past", "future"}
  BY DEF Init
<1>9. QED
  BY <1>1, <1>3, <1>5, <1>6, <1>8 DEF Typed, TypeOK

LEMMA StepTyped == Typed /\ [Next]_vars => Typed'
<1> SUFFICES ASSUME Typed, [Next]_vars PROVE Typed'
  OBVIOUS
<1>1. SetTo \subseteq Int /\ IncBy \subseteq Int
  BY SheetAssumption, QuintAssumption
<1>2. ASSUME NEW t \in Proc, NEW stamp \in Stamp, NEW q \in SetTo, Start(t, "set", q, stamp)
      PROVE  Typed'
  BY <1>1, <1>2, StartTyped
<1>3. ASSUME NEW t \in Proc, NEW stamp \in Stamp, NEW q \in IncBy, Start(t, "inc", q, stamp)
      PROVE  Typed'
  BY <1>1, <1>3, StartTyped
<1>patch. ASSUME NEW t \in Proc, Start(t, "patch", 0, "none") PROVE Typed'
  BY <1>patch, StartTyped
<1>4. ASSUME NEW t \in Proc, Read(t) \/ Fetch(t) \/ Put(t) \/ Fails(t) PROVE Typed'
  BY <1>4, ReadTyped, FetchTyped, PutTyped, FailsTyped
<1>5. CASE (\E p \in Legacy : EditLegacy(p)) \/ EditRest \/ Spoil \/ Restore
  BY <1>5, EditsTyped
<1>6. CASE Tick
  BY <1>6, SheetAssumption DEF Tick, Typed, TypeOK, Numbered, Doing, history
<1>7. CASE UNCHANGED vars
  BY <1>7 DEF vars, Typed, TypeOK, Numbered, Doing
<1>8. QED
  BY <1>2, <1>3, <1>patch, <1>4, <1>5, <1>6, <1>7 DEF Next

\* The record stays a record: updatedAt is never a time of the caller's, and a command
\* carries what it fetched.
THEOREM TypeCorrect == Spec => []TypeOK
<1>1. Spec => []Typed
  BY InitTyped, StepTyped, PTL DEF Spec
<1>2. Typed => TypeOK
  BY DEF Typed
<1>3. QED
  BY <1>1, <1>2, PTL

-----------------------------------------------------------------------------
(***************************************************************************)
(* Drift.                                                                  *)
(***************************************************************************)

InSync(s) == Classify(s.milli, s.quintessence, s.stamp, s.updated) = "InSync"

\* A stamped patch is in sync with itself: the floor is the balance's own and no clock
\* reading is later than the stamp.
LEMMA PatchedInSync ==
  ASSUME Typed, NEW t \in Proc, NEW s \in Sheet, th[t].stamp \in {"now", "future"}
  PROVE  InSync(Patched(t, s))
<1> DEFINE p == Patched(t, s)
<1>1. th[t] \in Command
  BY DEF Typed, TypeOK
<1>2. th[t].now \in 0 .. MaxTime /\ MaxTime \in Nat
  BY <1>1, SheetAssumption DEF Command
<1>3. StampOf(t) = {th[t].now} \/ StampOf(t) = {MaxTime + 1}
  BY DEF StampOf
<1>4. /\ p.milli = {th[t].next} /\ p.quintessence = {Points(th[t].next)}
      /\ p.stamp = StampOf(t) /\ p.updated = {th[t].now}
  BY <1>3 DEF Patched, SheetPatch, Sheet
<1>5. p.quintessence = {Points(q) : q \in p.milli}
  BY <1>4
<1>6. \A a \in p.stamp, u \in p.updated : ~(u > a)
  BY <1>2, <1>3, <1>4
<1>7. QED
  BY <1>5, <1>6 DEF InSync, Classify

LEMMA StepKeepsCause ==
  ASSUME Typed, DriftHasACause, [Next]_vars
  PROVE  DriftHasACause'
<1>1. ASSUME NEW t \in Proc, Put(t) PROVE DriftHasACause'
  <2>1. PICK s \in th[t].copy :
          sheet' = IF th[t].op = "patch" THEN Merged(t, s) ELSE Patched(t, s)
    BY <1>1 DEF Put
  <2>2. th[t] \in Command
    BY DEF Typed, TypeOK
  <2>3. s \in Sheet
    BY <2>2 DEF Command
  <2>4. last' = IF th[t].op = "patch" THEN "other" ELSE th[t].stamp
    BY <1>1 DEF Put, Landed
  <2>5. last' \in {"now", "future"} => InSync(sheet')
    BY <2>1, <2>3, <2>4, PatchedInSync
  <2>6. QED
    BY <2>5 DEF DriftHasACause, InSync
<1>2. CASE (\E p \in Legacy : EditLegacy(p)) \/ EditRest \/ Spoil \/ Restore
  <2>1. last' = "other"
    BY <1>2 DEF EditLegacy, EditRest, Spoil, Restore, Edited
  <2>2. QED
    BY <2>1 DEF DriftHasACause
<1>3. CASE UNCHANGED <<sheet, last>>
  BY <1>3 DEF DriftHasACause
<1>4. QED
  BY <1>1, <1>2, <1>3 DEF Next, Start, Read, Fetch, Fails, Tick, vars, history

\* After a write stamped "now" the sheet is in sync, whatever it had fetched and whatever
\* it raced with: drift is always someone else's, or was asked for.
THEOREM StampedWritesInSync == Spec => []DriftHasACause
<1>1. Init => Typed /\ DriftHasACause
  BY InitTyped DEF Init, DriftHasACause
<1>2. Typed /\ DriftHasACause /\ [Next]_vars => (Typed /\ DriftHasACause)'
  BY StepTyped, StepKeepsCause
<1>3. QED
  BY <1>1, <1>2, PTL DEF Spec

\* "Coherent by construction" is true of a build whose users never ask for an unstamped
\* write or an earlier time: those two options are all that breaks it.
THEOREM StampedOnlyIsCoherent ==
  ASSUME Stamp \subseteq {"now", "future"}
  PROVE  Spec => []WritesLeaveCoherent
<1> DEFINE LastKnown == last \in Stamp \cup {"other"}
           Written == \A t \in Proc : th[t].op \in {"set", "inc"} => th[t].stamp \in Stamp
<1>1. Init => Written /\ LastKnown
  BY DEF Init, Idle
<1>2. Typed /\ Written /\ LastKnown /\ [Next]_vars => (Written /\ LastKnown)'
  <2> SUFFICES ASSUME Typed, Written, LastKnown, [Next]_vars PROVE (Written /\ LastKnown)'
    OBVIOUS
  <2>1. ASSUME NEW t \in Proc, NEW op \in {"set", "inc", "patch"}, NEW arg, NEW stamp,
               Start(t, op, arg, stamp), stamp \in Stamp \/ op = "patch"
        PROVE  (Written /\ LastKnown)'
    <3>1. last' = last /\ \A u \in Proc : u # t => th'[u] = th[u]
      BY <2>1 DEF Start, history, Typed, TypeOK
    <3>2. th'[t].op = op /\ th'[t].stamp = stamp
      BY <2>1 DEF Start, Idle, Typed, TypeOK
    <3>3. QED
      BY <2>1, <3>1, <3>2
  <2>2. ASSUME NEW t \in Proc, Read(t) \/ Fetch(t) PROVE (Written /\ LastKnown)'
    <3>1. last' = last
      BY <2>2 DEF Read, Fetch, history
    <3>2. \A u \in Proc : th'[u].op = th[u].op /\ th'[u].stamp = th[u].stamp
      BY <2>2, StillAsked
    <3>3. QED
      BY <3>1, <3>2
  <2>3. ASSUME NEW t \in Proc, Fails(t) \/ Put(t) PROVE (Written /\ LastKnown)'
    <3>1. th'[t] = Idle /\ \A u \in Proc : u # t => th'[u] = th[u]
      BY <2>3 DEF Fails, Put, Typed, TypeOK
    <3>2. Written'
      BY <3>1 DEF Idle
    <3>3. CASE Fails(t)
      BY <3>2, <3>3 DEF Fails, history
    <3>4. CASE Put(t)
      <4>1. th[t].op \in {"set", "inc", "patch"}
        BY <3>4 DEF Put, Typed, Doing
      <4>2. last' = IF th[t].op = "patch" THEN "other" ELSE th[t].stamp
        BY <3>4 DEF Put, Landed
      <4>3. QED
        BY <3>2, <4>1, <4>2
    <3>5. QED
      BY <2>3, <3>3, <3>4
  <2>4. CASE (\E p \in Legacy : EditLegacy(p)) \/ EditRest \/ Spoil \/ Restore
    BY <2>4 DEF EditLegacy, EditRest, Spoil, Restore, Edited
  <2>5. CASE Tick \/ UNCHANGED vars
    BY <2>5 DEF Tick, history, vars
  <2>6. QED
    BY <2>1, <2>2, <2>3, <2>4, <2>5 DEF Next
<1>3. LastKnown /\ DriftHasACause => WritesLeaveCoherent
  BY DEF DriftHasACause, WritesLeaveCoherent
<1>4. Spec => []Typed
  BY InitTyped, StepTyped, PTL DEF Spec
<1> HIDE DEF LastKnown, Written
<1>5. QED
  BY <1>1, <1>2, <1>3, <1>4, StampedWritesInSync, PTL DEF Spec

-----------------------------------------------------------------------------
(***************************************************************************)
(* Races.                                                                  *)
(***************************************************************************)

\* What the history expects is what the record says, in a mage block or not.
Expected == ~raced => /\ total = Resolve(sheet.milli, sheet.quintessence)
                      /\ kept = sheet.rest

Single == AtMostOne(sheet.milli) /\ AtMostOne(sheet.quintessence)

\* What command t carries.  seen never runs ahead of the record; and while the record is
\* as t first read it, t is about to put that record with the balance asked for.
Carries(t) ==
  /\ th[t].seen \subseteq 0 .. version
  /\ th[t].pc = "read" => th[t].op = "inc"
  /\ th[t].op = "set" => th[t].next = th[t].arg
  /\ th[t].pc = "fetch" /\ th[t].op = "inc" => th[t].seen # {}
  /\ th[t].pc \in {"fetch", "put"} /\ th[t].op = "inc" /\ th[t].seen = {version} =>
       \E q \in OrZero(Balance(sheet)) : th[t].next = AddMillis(q, th[t].arg)
  /\ th[t].pc = "put" /\ th[t].seen = {version} =>
       (th[t].op # "patch" => sheet.kind = "mage") /\ th[t].copy = {sheet}
  /\ th[t].pc = "put" => \A s \in th[t].copy : AtMostOne(s.milli) /\ AtMostOne(s.quintessence)

RaceInv == Typed /\ Expected /\ Single /\ \A t \in Proc : Carries(t)

LEMMA InitRace == Init => RaceInv
<1> SUFFICES ASSUME Init PROVE RaceInv
  OBVIOUS
<1>1. Balance(sheet) = Resolve(sheet.milli, sheet.quintessence) /\ Single
  BY SheetsAssumption DEF Init, Balance, Single
<1>2. \A t \in Proc : Carries(t)
  BY DEF Init, Carries, Idle
<1>3. QED
  BY <1>1, <1>2, InitTyped DEF Init, RaceInv, Expected

\* The commands that did not move carry what they carried.
LEMMA OthersCarry ==
  ASSUME RaceInv, NEW t \in Proc, NEW c, th' = [th EXCEPT ![t] = c],
         UNCHANGED <<sheet, version>>, Carries(t)'
  PROVE  \A u \in Proc : Carries(u)'
<1> SUFFICES ASSUME NEW u \in Proc, u # t PROVE Carries(u)'
  OBVIOUS
<1>1. th'[u] = th[u]
  BY DEF RaceInv, Typed, TypeOK
<1>2. QED
  BY <1>1 DEF RaceInv, Carries

\* After a write of the record no command is up to date.
LEMMA WrittenOver ==
  ASSUME RaceInv, NEW u \in Proc, th'[u] = th[u], version' = version + 1
  PROVE  Carries(u)'
<1>1. version \in Nat
  BY DEF RaceInv, Typed, TypeOK
<1>2. th[u].seen \subseteq 0 .. version
  BY DEF RaceInv, Carries
<1>3. th'[u].seen \subseteq 0 .. version' /\ th'[u].seen # {version'}
  BY <1>1, <1>2
<1>4. QED
  BY <1>3 DEF RaceInv, Carries

LEMMA IdleCarries ==
  ASSUME NEW t \in Proc, th'[t] = Idle
  PROVE  Carries(t)'
BY DEF Carries, Idle

LEMMA StartRace ==
  ASSUME RaceInv, NEW t \in Proc, NEW op \in {"set", "inc", "patch"}, NEW arg \in Int,
         NEW stamp \in Stamp \cup {"none"}, Start(t, op, arg, stamp)
  PROVE  RaceInv'
<1> DEFINE c == [Idle EXCEPT !.pc = IF op = "inc" THEN "read" ELSE "fetch", !.op = op,
                             !.arg = arg, !.next = arg, !.stamp = stamp, !.call = calls + 1]
<1>1. th' = [th EXCEPT ![t] = c]
  BY DEF Start
<1>2. th'[t] = c
  BY <1>1 DEF RaceInv, Typed, TypeOK
<1>3. /\ c.op = op /\ c.next = c.arg /\ c.seen = {} /\ c.copy = {}
      /\ c.pc = IF op = "inc" THEN "read" ELSE "fetch"
  BY DEF Idle
<1> HIDE DEF c
<1>4. Carries(t)'
  BY <1>2, <1>3 DEF Carries
<1>5. UNCHANGED <<sheet, version, total, kept, raced>>
  BY DEF Start, history
<1>6. \A u \in Proc : Carries(u)'
  BY <1>1, <1>4, <1>5, OthersCarry
<1>7. QED
  BY <1>5, <1>6, StartTyped DEF RaceInv, Expected, Single

LEMMA ReadRace ==
  ASSUME RaceInv, NEW t \in Proc, Read(t)
  PROVE  RaceInv'
<1>1. PICK q \in OrZero(Balance(sheet)) :
        th' = [th EXCEPT ![t].pc = "fetch", ![t].next = AddMillis(q, th[t].arg),
                         ![t].seen = {version}]
  BY DEF Read
<1> DEFINE next == AddMillis(q, th[t].arg)
           c == [th[t] EXCEPT !.pc = "fetch", !.next = next, !.seen = {version}]
<1>2. th' = [th EXCEPT ![t] = c] /\ th'[t] = c
  BY <1>1 DEF RaceInv, Typed, TypeOK
<1>3. th[t] \in Command /\ version \in Nat /\ th[t].op = "inc"
  BY DEF RaceInv, Typed, TypeOK, Carries, Read
<1> HIDE DEF next
<1>4. /\ c.op = "inc" /\ c.pc = "fetch" /\ c.seen = {version}
      /\ c.next = next /\ c.arg = th[t].arg
  BY <1>3 DEF Command
<1> HIDE DEF c
<1>5. UNCHANGED <<sheet, version, total, kept, raced>>
  BY DEF Read, history
<1>6. {version} \subseteq 0 .. version
  BY <1>3
<1>7. Carries(t)'
  BY <1>2, <1>4, <1>5, <1>6 DEF Carries, next, Balance
<1>8. \A u \in Proc : Carries(u)'
  BY <1>2, <1>5, <1>7, OthersCarry
<1>9. QED
  BY <1>5, <1>8, ReadTyped DEF RaceInv, Expected, Single

LEMMA FetchRace ==
  ASSUME RaceInv, NEW t \in Proc, Fetch(t)
  PROVE  RaceInv'
<1> DEFINE seen == FirstSeen(t)
           c == [th[t] EXCEPT !.pc = "put", !.copy = {sheet}, !.now = clock, !.seen = seen]
<1>1. th' = [th EXCEPT ![t] = c] /\ th'[t] = c
  BY DEF Fetch, RaceInv, Typed, TypeOK
<1>2. th[t] \in Command /\ version \in Nat
  BY DEF RaceInv, Typed, TypeOK
<1> HIDE DEF seen
<1>3. /\ c.op = th[t].op /\ c.pc = "put" /\ c.seen = seen /\ c.copy = {sheet}
      /\ c.next = th[t].next /\ c.arg = th[t].arg
  BY <1>2 DEF Command
<1> HIDE DEF c
<1>4. /\ UNCHANGED <<sheet, version, total, kept, raced>>
      /\ th[t].op # "patch" => sheet.kind = "mage"
  BY DEF Fetch, Fetchable, history
<1>5. Carries(t) /\ th[t].pc = "fetch" /\ Single
  BY DEF RaceInv, Fetch
<1>6. seen \subseteq 0 .. version
  BY <1>2, <1>5 DEF Carries, FirstSeen, seen
<1>7. th[t].op = "inc" => seen = th[t].seen
  BY <1>5 DEF Carries, FirstSeen, seen
<1>8. Carries(t)'
  BY <1>1, <1>3, <1>4, <1>5, <1>6, <1>7 DEF Carries, Single, Balance
<1>9. \A u \in Proc : Carries(u)'
  BY <1>1, <1>4, <1>8, OthersCarry
<1>10. QED
  BY <1>4, <1>9, FetchTyped DEF RaceInv, Expected, Single

LEMMA FailsRace ==
  ASSUME RaceInv, NEW t \in Proc, Fails(t)
  PROVE  RaceInv'
<1>1. th' = [th EXCEPT ![t] = Idle] /\ th'[t] = Idle
  BY DEF Fails, RaceInv, Typed, TypeOK
<1>2. UNCHANGED <<sheet, version, total, kept, raced>>
  BY DEF Fails, history
<1>3. \A u \in Proc : Carries(u)'
  BY <1>1, <1>2, IdleCarries, OthersCarry
<1>4. QED
  BY <1>2, <1>3, FailsTyped DEF RaceInv, Expected, Single

\* The put of an up-to-date command leaves the balance its history expects.
LEMMA PutExpected ==
  ASSUME RaceInv, NEW t \in Proc, Put(t), ~raced'
  PROVE  /\ total' = Resolve(sheet'.milli, sheet'.quintessence)
         /\ kept' = sheet'.rest
<1>1. ~raced /\ th[t].seen = {version}
  BY DEF Put, Landed
<1>2. th[t].pc = "put" /\ Carries(t) /\ th[t].op \in {"set", "inc", "patch"}
  BY DEF Put, RaceInv, Typed, Doing
<1>3. th[t].copy = {sheet} /\ sheet \in Sheet
  BY <1>1, <1>2 DEF Carries, RaceInv, Typed, TypeOK
<1>4. sheet' = IF th[t].op = "patch" THEN Merged(t, sheet) ELSE Patched(t, sheet)
  BY <1>3 DEF Put
<1>5. total = Resolve(sheet.milli, sheet.quintessence) /\ kept = sheet.rest
  BY <1>1 DEF RaceInv, Expected
<1>6. CASE th[t].op = "patch"
  <2>1. /\ sheet'.milli = sheet.milli /\ sheet'.quintessence = sheet.quintessence
        /\ sheet'.rest = MaxEdit + th[t].call
    BY <1>3, <1>4, <1>6 DEF Merged, Sheet
  <2>2. total' = total /\ kept' = MaxEdit + th[t].call
    BY <1>6 DEF Put, Landed
  <2>3. QED
    BY <1>5, <2>1, <2>2
<1>7. CASE th[t].op # "patch"
  <2>1. sheet'.milli = {th[t].next} /\ sheet'.rest = sheet.rest /\ kept' = kept
    BY <1>3, <1>4, <1>7 DEF Patched, SheetPatch, Sheet, Put, Landed
  <2>2. Resolve(sheet'.milli, sheet'.quintessence) = {th[t].next}
    BY <2>1 DEF Resolve
  <2>3. total = Balance(sheet)
    BY <1>1, <1>2, <1>5, <1>7 DEF Carries, Balance
  <2>4. CASE th[t].op = "set"
    <3>1. total' = {th[t].next}
      BY <1>2, <2>4 DEF Put, Landed, Carries
    <3>2. QED
      BY <1>5, <2>1, <2>2, <3>1
  <2>5. CASE th[t].op = "inc"
    <3>1. PICK q \in OrZero(Balance(sheet)) : th[t].next = AddMillis(q, th[t].arg)
      BY <1>1, <1>2, <2>5 DEF Carries
    <3>2. AtMostOne(Balance(sheet))
      <4>1. AtMostOne(sheet.milli) /\ AtMostOne(sheet.quintessence)
        BY DEF RaceInv, Single
      <4>2. QED
        BY <4>1 DEF AtMostOne, Balance, Resolve
    <3>3. OrZero(total) = {q}
      BY <2>3, <3>1, <3>2 DEF OrZero, AtMostOne
    <3>4. total' = {AddMillis(x, th[t].arg) : x \in OrZero(total)}
      BY <2>5 DEF Put, Landed
    <3>5. QED
      BY <1>5, <2>1, <2>2, <3>1, <3>3, <3>4
  <2>6. QED
    BY <1>2, <1>7, <2>4, <2>5
<1>8. QED
  BY <1>6, <1>7

LEMMA PutRace ==
  ASSUME RaceInv, NEW t \in Proc, Put(t)
  PROVE  RaceInv'
<1>1. th' = [th EXCEPT ![t] = Idle] /\ version' = version + 1
  BY DEF Put, Landed
<1>2. \A u \in Proc : Carries(u)'
  <2> SUFFICES ASSUME NEW u \in Proc PROVE Carries(u)'
    OBVIOUS
  <2>1. CASE u = t
    BY <1>1, <2>1, IdleCarries DEF RaceInv, Typed, TypeOK
  <2>2. CASE u # t
    <3>1. th'[u] = th[u]
      BY <1>1, <2>2 DEF RaceInv, Typed, TypeOK
    <3>2. QED
      BY <1>1, <3>1, WrittenOver
  <2>3. QED
    BY <2>1, <2>2
<1>3. Single'
  <2>1. PICK s \in th[t].copy :
          sheet' = IF th[t].op = "patch" THEN Merged(t, s) ELSE Patched(t, s)
    BY DEF Put
  <2>2. s \in Sheet
    BY DEF RaceInv, Typed, TypeOK, Command
  <2>3. AtMostOne(s.milli) /\ AtMostOne(s.quintessence)
    BY <2>1 DEF RaceInv, Carries, Put
  <2>4. \/ sheet'.milli = s.milli /\ sheet'.quintessence = s.quintessence
        \/ sheet'.milli = {th[t].next} /\ sheet'.quintessence = {Points(th[t].next)}
    BY <2>1, <2>2 DEF Merged, Patched, SheetPatch, Sheet
  <2>5. QED
    BY <2>3, <2>4 DEF Single, AtMostOne
<1>4. Expected'
  BY PutExpected DEF Expected
<1>5. QED
  BY <1>2, <1>3, <1>4, PutTyped DEF RaceInv

LEMMA EditsRace ==
  ASSUME RaceInv, \/ \E p \in Legacy : EditLegacy(p)
                  \/ EditRest \/ Spoil \/ Restore
  PROVE  RaceInv'
<1>1. th' = th /\ version' = version + 1 /\ raced' = raced
  BY DEF EditLegacy, EditRest, Spoil, Restore, Edited
<1>2. \A u \in Proc : Carries(u)'
  BY <1>1, WrittenOver
<1>3. sheet \in Sheet /\ Single /\ Expected
  BY DEF RaceInv, Typed, TypeOK
<1>4. Single' /\ Expected'
  <2>1. CASE \E p \in Legacy : EditLegacy(p)
    <3>1. PICK p \in Legacy : EditLegacy(p)
      BY <2>1
    <3>2. sheet'.milli = sheet.milli /\ sheet'.quintessence = {p} /\ sheet'.rest = sheet.rest
      BY <1>3, <3>1 DEF EditLegacy, Edited, Sheet
    <3>3. kept' = kept /\ total' = IF sheet.milli = {} THEN {FromPoints(p)} ELSE total
      BY <3>1 DEF EditLegacy
    <3>4. QED
      BY <1>1, <1>3, <3>2, <3>3 DEF Single, AtMostOne, Expected, Resolve
  <2>2. CASE EditRest
    <3>1. /\ sheet'.milli = sheet.milli /\ sheet'.quintessence = sheet.quintessence
          /\ sheet'.rest = kept' /\ total' = total
      BY <1>3, <2>2 DEF EditRest, Edited, Sheet
    <3>2. QED
      BY <1>1, <1>3, <3>1 DEF Single, Expected
  <2>3. CASE Spoil \/ Restore
    <3>1. /\ sheet'.milli = sheet.milli /\ sheet'.quintessence = sheet.quintessence
          /\ sheet'.rest = sheet.rest /\ total' = total /\ kept' = kept
      BY <1>3, <2>3 DEF Spoil, Restore, Edited, Sheet
    <3>2. QED
      BY <1>1, <1>3, <3>1 DEF Single, Expected
  <2>4. QED
    BY <2>1, <2>2, <2>3
<1>5. QED
  BY <1>2, <1>4, EditsTyped DEF RaceInv

LEMMA StepRace == RaceInv /\ [Next]_vars => RaceInv'
<1> SUFFICES ASSUME RaceInv, [Next]_vars PROVE RaceInv'
  OBVIOUS
<1>1. SetTo \subseteq Int /\ IncBy \subseteq Int
  BY SheetAssumption, QuintAssumption
<1>2. ASSUME NEW t \in Proc, NEW stamp \in Stamp, NEW q \in SetTo, Start(t, "set", q, stamp)
      PROVE  RaceInv'
  BY <1>1, <1>2, StartRace
<1>3. ASSUME NEW t \in Proc, NEW stamp \in Stamp, NEW q \in IncBy, Start(t, "inc", q, stamp)
      PROVE  RaceInv'
  BY <1>1, <1>3, StartRace
<1>patch. ASSUME NEW t \in Proc, Start(t, "patch", 0, "none") PROVE RaceInv'
  BY <1>patch, StartRace
<1>4. ASSUME NEW t \in Proc, Read(t) \/ Fetch(t) \/ Put(t) \/ Fails(t) PROVE RaceInv'
  BY <1>4, ReadRace, FetchRace, PutRace, FailsRace
<1>5. CASE (\E p \in Legacy : EditLegacy(p)) \/ EditRest \/ Spoil \/ Restore
  BY <1>5, EditsRace
<1>6. CASE Tick \/ UNCHANGED vars
  <2>1. UNCHANGED <<th, sheet, version, total, kept, raced>>
    BY <1>6 DEF Tick, vars, history
  <2>2. QED
    BY <2>1, StepTyped DEF RaceInv, Expected, Single, Carries, Balance
<1>7. QED
  BY <1>2, <1>3, <1>patch, <1>4, <1>5, <1>6 DEF Next

\* "Non-atomic ... a concurrent writer between them can be clobbered", and nothing else
\* can: a balance or a field is lost only where a write met a record its command had not
\* read.
THEOREM OnlyRacesLose == Spec => []LossesNeedARace
<1>1. Spec => []RaceInv
  BY InitRace, StepRace, PTL DEF Spec
<1>2. RaceInv => LossesNeedARace
  BY DEF RaceInv, Expected, LossesNeedARace, Balance
<1>3. QED
  BY <1>1, <1>2, PTL

-----------------------------------------------------------------------------
(***************************************************************************)
(* What a race can make of a balance.                                      *)
(***************************************************************************)

\* A record, the one on the PDS or one a command has fetched, whose balance the base
\* balances and the increments that landed account for.
Accounted(s) == Resolve(s.milli, s.quintessence) \subseteq reach

\* What command t is about to make the balance: what it was told to, or its own increment
\* on a balance accounted for, which it has not added to yet.
Asks(t) ==
  /\ th[t].pc = "put" => \A s \in th[t].copy : Accounted(s)
  /\ th[t].pc = "read" => th[t].op = "inc"
  /\ th[t].op = "set" => th[t].next = th[t].arg
  /\ th[t].pc \in {"fetch", "put"} /\ th[t].op = "inc" =>
       \E q \in reach : th[t].next = AddMillis(q, th[t].arg)

Reached == Typed /\ 0 \in reach /\ Accounted(sheet) /\ \A t \in Proc : Asks(t)

LEMMA InitReached == Init => Reached
<1> SUFFICES ASSUME Init PROVE Reached
  OBVIOUS
<1>1. Balance(sheet) = Resolve(sheet.milli, sheet.quintessence)
  BY SheetsAssumption DEF Init, Balance
<1>2. 0 \in reach /\ Accounted(sheet)
  BY <1>1 DEF Init, Accounted
<1>3. \A t \in Proc : Asks(t)
  BY DEF Init, Asks, Idle
<1>4. QED
  BY <1>2, <1>3, InitTyped DEF Reached

\* What a command asks for stays accounted for as the history grows.
LEMMA StillAsks ==
  ASSUME NEW u \in Proc, Asks(u), th'[u] = th[u], reach \subseteq reach'
  PROVE  Asks(u)'
<1>1. \A s : Accounted(s) => Resolve(s.milli, s.quintessence) \subseteq reach'
  BY DEF Accounted
<1>2. th'[u].pc = "put" => \A s \in th'[u].copy : Resolve(s.milli, s.quintessence) \subseteq reach'
  BY <1>1 DEF Asks
<1>3. QED
  BY <1>2 DEF Asks, Accounted

LEMMA OthersAsk ==
  ASSUME Reached, NEW t \in Proc, NEW c, th' = [th EXCEPT ![t] = c],
         reach \subseteq reach', Asks(t)'
  PROVE  \A u \in Proc : Asks(u)'
<1> SUFFICES ASSUME NEW u \in Proc, u # t PROVE Asks(u)'
  OBVIOUS
<1>1. th'[u] = th[u]
  BY DEF Reached, Typed, TypeOK
<1>2. QED
  BY <1>1, StillAsks DEF Reached

LEMMA IdleAsks ==
  ASSUME NEW t \in Proc, th'[t] = Idle
  PROVE  Asks(t)'
BY DEF Asks, Idle

\* A step that leaves the record and the history alone.
LEMMA SheetStays ==
  ASSUME Reached, UNCHANGED <<sheet, reach>>, Typed', \A u \in Proc : Asks(u)'
  PROVE  Reached'
BY DEF Reached, Accounted

LEMMA StartReached ==
  ASSUME Reached, NEW t \in Proc, NEW op \in {"set", "inc", "patch"}, NEW arg \in Int,
         NEW stamp \in Stamp \cup {"none"}, Start(t, op, arg, stamp)
  PROVE  Reached'
<1> DEFINE c == [Idle EXCEPT !.pc = IF op = "inc" THEN "read" ELSE "fetch", !.op = op,
                             !.arg = arg, !.next = arg, !.stamp = stamp, !.call = calls + 1]
<1>1. th' = [th EXCEPT ![t] = c]
  BY DEF Start
<1>2. th'[t] = c
  BY <1>1 DEF Reached, Typed, TypeOK
<1>3. c.op = op /\ c.next = c.arg /\ c.pc = IF op = "inc" THEN "read" ELSE "fetch"
  BY DEF Idle
<1> HIDE DEF c
<1>4. Asks(t)'
  BY <1>2, <1>3 DEF Asks
<1>5. UNCHANGED <<sheet, reach>>
  BY DEF Start, history
<1>6. \A u \in Proc : Asks(u)'
  BY <1>1, <1>4, <1>5, OthersAsk
<1>7. QED
  BY <1>5, <1>6, StartTyped, SheetStays DEF Reached

\* The balance a command reads is one accounted for.
LEMMA ReadReached ==
  ASSUME Reached, NEW t \in Proc, Read(t)
  PROVE  Reached'
<1>1. PICK q \in OrZero(Balance(sheet)) :
        th' = [th EXCEPT ![t].pc = "fetch", ![t].next = AddMillis(q, th[t].arg),
                         ![t].seen = {version}]
  BY DEF Read
<1> DEFINE next == AddMillis(q, th[t].arg)
           c == [th[t] EXCEPT !.pc = "fetch", !.next = next, !.seen = {version}]
<1>2. th' = [th EXCEPT ![t] = c] /\ th'[t] = c
  BY <1>1 DEF Reached, Typed, TypeOK
<1>3. th[t] \in Command /\ th[t].op = "inc"
  BY DEF Reached, Typed, TypeOK, Asks, Read
<1>4. q \in reach
  BY DEF Reached, Accounted, Balance, OrZero
<1> HIDE DEF next
<1>5. c.op = "inc" /\ c.pc = "fetch" /\ c.next = next /\ c.arg = th[t].arg
  BY <1>3 DEF Command
<1> HIDE DEF c
<1>6. UNCHANGED <<sheet, reach>>
  BY DEF Read, history
<1>7. Asks(t)'
  BY <1>2, <1>4, <1>5, <1>6 DEF Asks, next
<1>8. \A u \in Proc : Asks(u)'
  BY <1>2, <1>6, <1>7, OthersAsk
<1>9. QED
  BY <1>6, <1>8, ReadTyped, SheetStays DEF Reached

LEMMA FetchReached ==
  ASSUME Reached, NEW t \in Proc, Fetch(t)
  PROVE  Reached'
<1> DEFINE seen == FirstSeen(t)
           c == [th[t] EXCEPT !.pc = "put", !.copy = {sheet}, !.now = clock, !.seen = seen]
<1>1. th' = [th EXCEPT ![t] = c] /\ th'[t] = c
  BY DEF Fetch, Reached, Typed, TypeOK
<1>2. th[t] \in Command
  BY DEF Reached, Typed, TypeOK
<1> HIDE DEF seen
<1>3. /\ c.op = th[t].op /\ c.pc = "put" /\ c.copy = {sheet}
      /\ c.next = th[t].next /\ c.arg = th[t].arg
  BY <1>2 DEF Command
<1> HIDE DEF c
<1>4. UNCHANGED <<sheet, reach>>
  BY DEF Fetch, history
<1>5. Asks(t) /\ th[t].pc = "fetch" /\ Accounted(sheet)
  BY DEF Reached, Fetch
<1>6. Asks(t)'
  BY <1>1, <1>3, <1>4, <1>5 DEF Asks, Accounted
<1>7. \A u \in Proc : Asks(u)'
  BY <1>1, <1>4, <1>6, OthersAsk
<1>8. QED
  BY <1>4, <1>7, FetchTyped, SheetStays DEF Reached

LEMMA FailsReached ==
  ASSUME Reached, NEW t \in Proc, Fails(t)
  PROVE  Reached'
<1>1. th' = [th EXCEPT ![t] = Idle] /\ th'[t] = Idle
  BY DEF Fails, Reached, Typed, TypeOK
<1>2. UNCHANGED <<sheet, reach>>
  BY DEF Fails, history
<1>3. \A u \in Proc : Asks(u)'
  BY <1>1, <1>2, IdleAsks, OthersAsk
<1>4. QED
  BY <1>2, <1>3, FailsTyped, SheetStays DEF Reached

\* A record put over another one carries what its command fetched, or what it asked for;
\* and an increment is among those that landed only now, so it was not in the sum before.
LEMMA PutReached ==
  ASSUME Reached, NEW t \in Proc, Put(t)
  PROVE  Reached'
<1>1. Typed /\ th' = [th EXCEPT ![t] = Idle] /\ th'[t] = Idle
  BY DEF Put, Reached, Typed, TypeOK
<1>2. /\ reach \subseteq reach'
      /\ th[t].op = "set" => th[t].arg \in reach'
      /\ th[t].op = "inc" => \A q \in reach : AddMillis(q, th[t].arg) \in reach'
  BY <1>1, ReachGrows
<1>3. th[t].op \in {"set", "inc", "patch"} /\ th[t].pc = "put" /\ Asks(t)
  BY DEF Put, Reached, Typed, Doing
<1>4. PICK s \in th[t].copy :
        sheet' = IF th[t].op = "patch" THEN Merged(t, s) ELSE Patched(t, s)
  BY DEF Put
<1>5. s \in Sheet /\ Resolve(s.milli, s.quintessence) \subseteq reach
  BY <1>3, <1>4 DEF Reached, Typed, TypeOK, Command, Asks, Accounted
<1>6. Resolve(sheet'.milli, sheet'.quintessence) \subseteq reach'
  <2>1. CASE th[t].op = "patch"
    <3>1. sheet'.milli = s.milli /\ sheet'.quintessence = s.quintessence
      BY <1>4, <1>5, <2>1 DEF Merged, Sheet
    <3>2. QED
      BY <1>2, <1>5, <3>1
  <2>2. CASE th[t].op # "patch"
    <3>1. sheet'.milli = {th[t].next}
      BY <1>4, <1>5, <2>2 DEF Patched, SheetPatch, Sheet
    <3>2. Resolve(sheet'.milli, sheet'.quintessence) = {th[t].next}
      BY <3>1 DEF Resolve
    <3>3. th[t].next \in reach'
      BY <1>2, <1>3, <2>2 DEF Asks
    <3>4. QED
      BY <3>2, <3>3
  <2>3. QED
    BY <2>1, <2>2
<1>7. \A u \in Proc : Asks(u)'
  BY <1>1, <1>2, IdleAsks, OthersAsk
<1>8. QED
  BY <1>2, <1>6, <1>7, PutTyped DEF Reached, Accounted

LEMMA EditsReached ==
  ASSUME Reached, \/ \E p \in Legacy : EditLegacy(p)
                  \/ EditRest \/ Spoil \/ Restore
  PROVE  Reached'
<1>1. th' = th /\ reach \subseteq reach'
  BY DEF EditLegacy, EditRest, Spoil, Restore, Edited
<1>2. \A u \in Proc : Asks(u)'
  BY <1>1, StillAsks DEF Reached
<1>3. sheet \in Sheet /\ Resolve(sheet.milli, sheet.quintessence) \subseteq reach
  BY DEF Reached, Typed, TypeOK, Accounted
<1>4. Resolve(sheet'.milli, sheet'.quintessence) \subseteq reach'
  <2>1. CASE \E p \in Legacy : EditLegacy(p)
    <3>1. PICK p \in Legacy : EditLegacy(p)
      BY <2>1
    <3>2. sheet'.milli = sheet.milli /\ sheet'.quintessence = {p}
      BY <1>3, <3>1 DEF EditLegacy, Edited, Sheet
    <3>3. reach' = reach \cup {FromPoints(p)}
      BY <3>1 DEF EditLegacy
    <3>4. QED
      BY <1>3, <3>2, <3>3 DEF Resolve
  <2>2. CASE EditRest \/ Spoil \/ Restore
    <3>1. sheet'.milli = sheet.milli /\ sheet'.quintessence = sheet.quintessence
      BY <1>3, <2>2 DEF EditRest, Spoil, Restore, Edited, Sheet
    <3>2. QED
      BY <1>1, <1>3, <3>1
  <2>3. QED
    BY <2>1, <2>2
<1>5. QED
  BY <1>1, <1>2, <1>4, EditsTyped DEF Reached, Accounted

LEMMA StepReached == Reached /\ [Next]_vars => Reached'
<1> SUFFICES ASSUME Reached, [Next]_vars PROVE Reached'
  OBVIOUS
<1>1. SetTo \subseteq Int /\ IncBy \subseteq Int
  BY SheetAssumption, QuintAssumption
<1>2. ASSUME NEW t \in Proc, NEW stamp \in Stamp, NEW q \in SetTo, Start(t, "set", q, stamp)
      PROVE  Reached'
  BY <1>1, <1>2, StartReached
<1>3. ASSUME NEW t \in Proc, NEW stamp \in Stamp, NEW q \in IncBy, Start(t, "inc", q, stamp)
      PROVE  Reached'
  BY <1>1, <1>3, StartReached
<1>patch. ASSUME NEW t \in Proc, Start(t, "patch", 0, "none") PROVE Reached'
  BY <1>patch, StartReached
<1>4. ASSUME NEW t \in Proc, Read(t) \/ Fetch(t) \/ Put(t) \/ Fails(t) PROVE Reached'
  BY <1>4, ReadReached, FetchReached, PutReached, FailsReached
<1>5. CASE (\E p \in Legacy : EditLegacy(p)) \/ EditRest \/ Spoil \/ Restore
  BY <1>5, EditsReached
<1>6. CASE Tick \/ UNCHANGED vars
  <2>1. UNCHANGED <<th, sheet, reach>>
    BY <1>6 DEF Tick, vars, history
  <2>2. \A u \in Proc : Asks(u)'
    BY <2>1, StillAsks DEF Reached
  <2>3. QED
    BY <2>1, <2>2, StepTyped, SheetStays DEF Reached
<1>7. QED
  BY <1>2, <1>3, <1>patch, <1>4, <1>5, <1>6 DEF Next

\* However many writers clobber each other, no balance is invented and no increment
\* counts twice: what the record holds is a balance somebody set and increments that
\* landed after it.
THEOREM RacesInventNothing == Spec => []BalanceIsASubsum
<1>1. Spec => []Reached
  BY InitReached, StepReached, PTL DEF Spec
<1>2. Reached => BalanceIsASubsum
  BY DEF Reached, Accounted, BalanceIsASubsum, Balance
<1>3. QED
  BY <1>1, <1>2, PTL

\* The floor view holds as far as the lexicon's range does: where nobody asks for or starts
\* from a negative amount, no interleaving makes a balance negative, and the field older
\* clients read is the floor after every write of the client.
THEOREM ViewsFloorWhileNonNegative ==
  ASSUME SetTo \subseteq Nat, IncBy \subseteq Nat, Legacy \subseteq Nat,
         \A s \in Sheets : s.milli \subseteq Nat /\ s.quintessence \subseteq Nat
  PROVE  Spec => []ViewIsFloor
<1> DEFINE Args == \A t \in Proc : th[t].arg \in Nat
           NonNegative == Args /\ reach \subseteq Nat
<1>1. \A q, d \in Nat : AddMillis(q, d) \in Nat
  BY QuintAssumption DEF AddMillis
<1>2. \A p \in Nat : FromPoints(p) \in Nat
  BY QuintAssumption DEF FromPoints
<1>3. Init => NonNegative /\ ViewIsFloor
  <2> SUFFICES ASSUME Init PROVE NonNegative /\ ViewIsFloor
    OBVIOUS
  <2>1. Resolve(sheet.milli, sheet.quintessence) \subseteq Nat
    <3>1. sheet.milli \subseteq Nat /\ sheet.quintessence \subseteq Nat
      BY DEF Init
    <3>2. {FromPoints(p) : p \in sheet.quintessence} \subseteq Nat
      BY <1>2, <3>1
    <3>3. QED
      BY <3>1, <3>2 DEF Resolve
  <2>2. reach \subseteq Nat
    BY <2>1 DEF Init, Balance
  <2>3. QED
    BY <2>2 DEF Init, Idle, ViewIsFloor
<1>4. Reached /\ NonNegative /\ ViewIsFloor /\ [Next]_vars => (NonNegative /\ ViewIsFloor)'
  <2> SUFFICES ASSUME Reached, NonNegative, ViewIsFloor, [Next]_vars
               PROVE  (NonNegative /\ ViewIsFloor)'
    OBVIOUS
  <2>typed. th \in [Proc -> Command]
    BY DEF Reached, Typed, TypeOK
  <2>1. ASSUME NEW t \in Proc, NEW op, NEW arg \in Nat, NEW stamp, Start(t, op, arg, stamp)
        PROVE  (NonNegative /\ ViewIsFloor)'
    <3>1. th'[t].arg = arg /\ \A u \in Proc : u # t => th'[u] = th[u]
      BY <2>1, <2>typed DEF Start, Idle
    <3>2. UNCHANGED <<sheet, reach, last>>
      BY <2>1 DEF Start, history
    <3>3. QED
      BY <3>1, <3>2 DEF ViewIsFloor
  <2>2. ASSUME NEW t \in Proc, Read(t) \/ Fetch(t) \/ Fails(t)
        PROVE  (NonNegative /\ ViewIsFloor)'
    <3>1. \A u \in Proc : th'[u].arg \in {th[u].arg, 0}
      <4>1. CASE Read(t) \/ Fetch(t)
        BY <4>1, StillAsked DEF Reached
      <4>2. CASE Fails(t)
        BY <2>typed, <4>2 DEF Fails, Idle
      <4>3. QED
        BY <2>2, <4>1, <4>2
    <3>2. UNCHANGED <<sheet, reach, last>>
      BY <2>2 DEF Read, Fetch, Fails, history
    <3>3. QED
      BY <3>1, <3>2 DEF ViewIsFloor
  <2>3. ASSUME NEW t \in Proc, Put(t) PROVE (NonNegative /\ ViewIsFloor)'
    <3>1. Typed /\ Asks(t) /\ th[t].arg \in Nat /\ th[t].pc = "put"
      BY <2>3 DEF Reached, Put
    <3>2. Args'
      <4>1. \A u \in Proc : th'[u].arg \in {th[u].arg, 0}
        BY <2>3, <2>typed DEF Put, Idle
      <4>2. QED
        BY <4>1
    <3>3. th[t].op \in {"set", "inc", "patch"}
      BY <2>3, <3>1 DEF Put, Typed, Doing
    <3>4. {AddMillis(q, th[t].arg) : q \in reach} \subseteq Nat
      BY <1>1, <3>1
    <3>5. reach' \subseteq Nat
      BY <2>3, <3>1, <3>3, <3>4 DEF Put, Landed
    <3>6. CASE th[t].op = "patch"
      <4>1. last' = "other"
        BY <2>3, <3>6 DEF Put, Landed
      <4>2. QED
        BY <3>2, <3>5, <4>1 DEF ViewIsFloor
    <3>7. CASE th[t].op # "patch"
      <4>1. th[t].next \in Nat
        BY <1>1, <3>1, <3>3, <3>7 DEF Asks
      <4>2. sheet'.milli = {th[t].next} /\ sheet'.quintessence = {Points(th[t].next)}
        <5>1. PICK s \in th[t].copy : sheet' = Patched(t, s)
          BY <2>3, <3>7 DEF Put
        <5>2. s \in Sheet
          BY <2>typed DEF Command
        <5>3. QED
          BY <5>1, <5>2 DEF Patched, SheetPatch, Sheet
      <4>3. Points(th[t].next) = Floor(th[t].next)
        BY <4>1, PointsFloorsNonNegative
      <4>4. ViewIsFloor'
        BY <4>2, <4>3 DEF ViewIsFloor
      <4>5. QED
        BY <3>2, <3>5, <4>4
    <3>8. QED
      BY <3>6, <3>7
  <2>4. CASE (\E p \in Legacy : EditLegacy(p)) \/ EditRest \/ Spoil \/ Restore
    <3>1. th' = th /\ last' = "other"
      BY <2>4 DEF EditLegacy, EditRest, Spoil, Restore, Edited
    <3>2. reach' \subseteq Nat
      BY <1>2, <2>4 DEF EditLegacy, EditRest, Spoil, Restore
    <3>3. QED
      BY <3>1, <3>2 DEF ViewIsFloor
  <2>5. CASE Tick \/ UNCHANGED vars
    <3>1. UNCHANGED <<th, sheet, reach, last>>
      BY <2>5 DEF Tick, vars, history
    <3>2. QED
      BY <3>1 DEF ViewIsFloor
  <2>6. QED
    BY <2>1, <2>2, <2>3, <2>4, <2>5 DEF Next
<1>5. Spec => []Reached
  BY InitReached, StepReached, PTL DEF Spec
<1> HIDE DEF NonNegative
<1>6. QED
  BY <1>3, <1>4, <1>5, PTL DEF Spec
=============================================================================
