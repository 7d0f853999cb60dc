----------------------------- MODULE QuintSheet -----------------------------
(***************************************************************************)
(* tass-repo-mage's QuintClient on one actor.rpg.stats record, used by     *)
(* several invocations of `tass quint set` and `inc`, beside the           *)
(* TypeScript tool's patchMageSheet and clients that are not tassle's.  A  *)
(* write is two XRPC calls (get, then put of the whole record, with no     *)
(* swap), an adjust three.  Everything between two calls is local, so a    *)
(* step is one XRPC call.                                                  *)
(***************************************************************************)
EXTENDS Quint

CONSTANTS
  Proc,         \* the invocations of the command, one after another in each
  SetTo, IncBy, \* balances and differences asked for, in milli
  Stamp,        \* stamp options in use: "now", "none", "past", "future"
  Legacy,       \* whole points other clients write
  Sheets,       \* the records the model may start with
  MaxCall,      \* bound: commands started
  MaxEdit,      \* bound: edits by other clients
  MaxTime       \* bound: ticks of the wall clock

ASSUME SheetAssumption ==
  /\ SetTo \subseteq MinInt .. MaxInt /\ IncBy \subseteq MinInt .. MaxInt
  /\ Legacy \subseteq Int
  /\ Stamp \subseteq {"now", "none", "past", "future"}
  /\ MaxCall \in Nat /\ MaxEdit \in Nat /\ MaxTime \in Nat

Time == -1 .. MaxTime + 1

\* kind: "mage"; "pascal", a mage block with PascalCase keys; "other", another system's
\* record or one without a data block; "absent".  rest stands for every other field.
Sheet ==
  [kind : {"mage", "pascal", "other", "absent"},
   milli : SUBSET Int, quintessence : SUBSET Int, stamp : SUBSET Time,
   updated : SUBSET (0 .. MaxTime), rest : Nat]

\* An optional field holds one value or none.
AtMostOne(S) == \A a, b \in S : a = b

ASSUME SheetsAssumption ==
  \A s \in Sheets : /\ s \in Sheet /\ s.kind = "mage" /\ s.rest = 0
                    /\ AtMostOne(s.milli) /\ AtMostOne(s.quintessence)

VARIABLES
  sheet,    \* the record on the PDS
  th,       \* th[t]: the command t runs
  clock,    \* the wall clock
  calls,    \* commands started; a command's number is its identity
  edits,    \* edits other clients have made
  total,    \* history: the balance, had every write met the record it read
  kept,     \* history: what other clients last wrote in the other fields
  reach,    \* history: what the balances set outright and the increments that landed
            \* since, each at most once, may add up to
  version,  \* history: how often the record was written
  raced,    \* history: a write has gone over a record its command had not read
  last      \* history: who wrote the record last

vars == <<sheet, th, clock, calls, edits, total, kept, reach, version, raced, last>>
history == <<total, kept, reach, version, raced, last>>

\* "read": adjust is about to read the balance; "fetch": write_with is about to get the
\* record; "put": about to put it.  seen is the version the command read first.
Idle == [pc |-> "idle", op |-> "none", arg |-> 0, stamp |-> "none", call |-> 0,
         next |-> 0, now |-> 0, copy |-> {}, seen |-> {}]

Command ==
  [pc : {"idle", "read", "fetch", "put"}, op : {"none", "set", "inc", "patch"},
   arg : Int, stamp : Stamp \cup {"none"}, call : 0 .. MaxCall,
   next : Int, now : 0 .. MaxTime, copy : SUBSET Sheet, seen : SUBSET Nat]

TypeOK ==
  /\ sheet \in Sheet
  /\ th \in [Proc -> Command]
  /\ clock \in 0 .. MaxTime
  /\ calls \in 0 .. MaxCall /\ edits \in 0 .. MaxEdit
  /\ total \in SUBSET Int /\ kept \in Nat /\ reach \in SUBSET Int
  /\ version \in Nat /\ raced \in BOOLEAN
  /\ last \in {"other", "now", "none", "past", "future"}

\* The balance a read of record s returns: {} for Ok(None).
Balance(s) == IF s.kind = "mage" THEN Resolve(s.milli, s.quintessence) ELSE {}

OrZero(balance) == IF balance = {} THEN {0} ELSE balance

Init ==
  /\ sheet \in Sheets
  /\ th = [t \in Proc |-> Idle]
  /\ clock = 0 /\ calls = 0 /\ edits = 0
  /\ total = Balance(sheet) /\ kept = sheet.rest
  /\ reach = Balance(sheet) \cup {0}
  /\ version = 0 /\ raced = FALSE /\ last = "other"

-----------------------------------------------------------------------------
(***************************************************************************)
(* The commands.                                                           *)
(***************************************************************************)

Start(t, op, arg, stamp) ==
  /\ th[t].pc = "idle" /\ calls < MaxCall
  /\ calls' = calls + 1
  /\ th' = [th EXCEPT ![t] = [Idle EXCEPT
       !.pc = IF op = "inc" THEN "read" ELSE "fetch", !.op = op, !.arg = arg,
       !.next = arg, !.stamp = stamp, !.call = calls + 1]]
  /\ UNCHANGED <<sheet, clock, edits, history>>

\* adjust_with's read: an absent record, another system's and a mage block with neither
\* field all count as 0.
Read(t) ==
  /\ th[t].pc = "read" /\ sheet.kind # "pascal"
  /\ \E q \in OrZero(Balance(sheet)) :
       th' = [th EXCEPT ![t].pc = "fetch", ![t].next = AddMillis(q, th[t].arg),
                        ![t].seen = {version}]
  /\ UNCHANGED <<sheet, clock, calls, edits, history>>

FirstSeen(t) == IF th[t].seen = {} THEN {version} ELSE th[t].seen

\* write_with needs the record's data block to be a mage's; patchMageSheet, which works on
\* the older `mage` key beside it, any record.
Fetchable(t) == \/ sheet.kind = "mage"
                \/ th[t].op = "patch" /\ sheet.kind # "absent"

\* A slip: the increment is added to the fetched record too.
FetchAddsAgain(t) ==
  /\ th[t].pc = "fetch" /\ Fetchable(t)
  /\ th' = [th EXCEPT ![t].pc = "put", ![t].copy = {sheet}, ![t].now = clock,
                      ![t].seen = FirstSeen(t),
                      ![t].next = IF th[t].op = "inc" THEN AddMillis(@, th[t].arg) ELSE @]
  /\ UNCHANGED <<sheet, clock, calls, edits, history>>

\* write_with, or patchMageSheet, gets the record and takes the time.
Fetch(t) ==
  /\ th[t].pc = "fetch" /\ Fetchable(t)
  /\ th' = [th EXCEPT ![t].pc = "put", ![t].copy = {sheet}, ![t].now = clock,
                      ![t].seen = FirstSeen(t)]
  /\ UNCHANGED <<sheet, clock, calls, edits, history>>

\* Any call may fail; PascalCase fields fail a read and a write, no mage block a write.
Fails(t) ==
  /\ th[t].pc # "idle"
  /\ th' = [th EXCEPT ![t] = Idle]
  /\ UNCHANGED <<sheet, clock, calls, edits, history>>

\* Stamp::Now (which a time that does not parse becomes, too), Stamp::At with an earlier
\* or a later time, Stamp::None.
StampOf(t) == CASE th[t].stamp = "now"    -> {th[t].now}
                [] th[t].stamp = "past"   -> {-1}
                [] th[t].stamp = "future" -> {MaxTime + 1}
                [] th[t].stamp = "none"   -> {}

\* Slips: the record's updatedAt takes the stamp asked for; the whole-point field is not
\* replicated.
PatchedOneStamp(t, s) ==
  LET patch == SheetPatch(th[t].next, StampOf(t))
  IN  [s EXCEPT !.milli = patch.milli, !.quintessence = patch.quintessence,
                !.stamp = IF patch.stamp = {} THEN @ ELSE patch.stamp,
                !.updated = IF patch.stamp = {} THEN @ ELSE patch.stamp]
PatchedMilliOnly(t, s) ==
  LET patch == SheetPatch(th[t].next, StampOf(t))
  IN  [s EXCEPT !.milli = patch.milli,
                !.stamp = IF patch.stamp = {} THEN @ ELSE patch.stamp,
                !.updated = {th[t].now}]

\* apply_quint on the record fetched, and updatedAt.
Patched(t, s) ==
  LET patch == SheetPatch(th[t].next, StampOf(t))
  IN  [s EXCEPT !.milli = patch.milli, !.quintessence = patch.quintessence,
                !.stamp = IF patch.stamp = {} THEN @ ELSE patch.stamp,
                !.updated = {th[t].now}]

\* patchMageSheet merges its fields into `mage`, no part of what the commands look at, and
\* sets updatedAt.
Merged(t, s) == [s EXCEPT !.rest = MaxEdit + th[t].call, !.updated = {th[t].now}]

\* The history of a write that reached the PDS.
Landed(t) ==
  /\ version' = version + 1
  /\ raced' = (raced \/ th[t].seen # {version})
  /\ last' = IF th[t].op = "patch" THEN "other" ELSE th[t].stamp
  /\ kept' = IF th[t].op = "patch" THEN MaxEdit + th[t].call ELSE kept
  /\ total' = CASE th[t].op = "set" -> {th[t].arg}
                [] th[t].op = "inc" -> {AddMillis(q, th[t].arg) : q \in OrZero(total)}
                [] th[t].op = "patch" -> total
  /\ reach' = reach \cup CASE th[t].op = "set" -> {th[t].arg}
                          [] th[t].op = "inc" -> {AddMillis(q, th[t].arg) : q \in reach}
                          [] th[t].op = "patch" -> {}

\* put_record carries no swap: it replaces whatever the PDS holds.  The command is told
\* Ok or, the answer being lost, an error; the record is the same.
Put(t) ==
  /\ th[t].pc = "put"
  /\ \E s \in th[t].copy :
       sheet' = IF th[t].op = "patch" THEN Merged(t, s) ELSE Patched(t, s)
  /\ Landed(t)
  /\ th' = [th EXCEPT ![t] = Idle]
  /\ UNCHANGED <<clock, calls, edits>>

-----------------------------------------------------------------------------
(***************************************************************************)
(* Clients that are not tassle's, and time.  Any ATProto client may write  *)
(* the record; few of them know the milli field, some keep updatedAt.      *)
(***************************************************************************)

Edited(s) ==
  /\ edits < MaxEdit /\ edits' = edits + 1
  /\ \E u \in {sheet.updated, {clock}} : sheet' = [s EXCEPT !.updated = u]
  /\ version' = version + 1 /\ last' = "other"
  /\ UNCHANGED <<th, clock, calls, raced>>

\* The legacy field set by hand, which is a balance while there is no milli field.
EditLegacy(p) ==
  /\ sheet.kind = "mage"
  /\ Edited([sheet EXCEPT !.quintessence = {p}])
  /\ reach' = reach \cup {FromPoints(p)}
  /\ total' = IF sheet.milli = {} THEN {FromPoints(p)} ELSE total
  /\ UNCHANGED kept

\* Another field of the record.
EditRest ==
  /\ sheet.kind = "mage"
  /\ Edited([sheet EXCEPT !.rest = edits + 1])
  /\ kept' = edits + 1
  /\ UNCHANGED <<total, reach>>

\* The record gets PascalCase keys, moves to another system, or is removed.
Spoil ==
  /\ sheet.kind = "mage"
  /\ \E k \in {"pascal", "other", "absent"} : Edited([sheet EXCEPT !.kind = k])
  /\ UNCHANGED <<total, kept, reach>>

\* And comes back as it was.
Restore ==
  /\ sheet.kind # "mage"
  /\ Edited([sheet EXCEPT !.kind = "mage"])
  /\ UNCHANGED <<total, kept, reach>>

Tick ==
  /\ clock < MaxTime
  /\ clock' = clock + 1
  /\ UNCHANGED <<sheet, th, calls, edits, history>>

Next ==
  \/ \E t \in Proc :
       \/ \E stamp \in Stamp :
            \/ \E q \in SetTo : Start(t, "set", q, stamp)
            \/ \E q \in IncBy : Start(t, "inc", q, stamp)
       \/ Start(t, "patch", 0, "none")
       \/ Read(t) \/ Fetch(t) \/ Put(t) \/ Fails(t)
  \/ \E p \in Legacy : EditLegacy(p)
  \/ EditRest
  \/ Spoil
  \/ Restore
  \/ Tick

Spec == Init /\ [][Next]_vars

-----------------------------------------------------------------------------
(***************************************************************************)
(* Properties                                                              *)
(***************************************************************************)

\* "Non-atomic": a write may clobber a concurrent one, and that is the only way to lose
\* anything.  As long as every write met the record its command had first read, the
\* balance is the sum of what was asked for, failed calls, legacy edits of a sheet with
\* a milli balance and drift of either kind notwithstanding, and no other field is lost.
LossesNeedARace ==
  ~raced /\ sheet.kind = "mage" => Balance(sheet) = total /\ sheet.rest = kept

\* What a race can do is bounded: the balance is always one that was set outright (or 0,
\* for a sheet without one) and some of the increments that landed after that, each at
\* most once, added the way add_millis adds.  None is invented and none counts twice.
BalanceIsASubsum == sheet.kind = "mage" => Balance(sheet) \subseteq reach

\* A drift report has a cause: after a write stamped "now" (or later) the sheet is in
\* sync, however drifted the record was that it fetched, and whatever it raced with.
DriftHasACause ==
  Classify(sheet.milli, sheet.quintessence, sheet.stamp, sheet.updated) # "InSync"
    => last \notin {"now", "future"}

\* "the record it leaves behind is coherent by construction": every write of the client.
\* The code breaks this one with the stamps "none" and "past".
WritesLeaveCoherent ==
  last # "other" =>
    Classify(sheet.milli, sheet.quintessence, sheet.stamp, sheet.updated) = "InSync"

\* "the whole-point view is always the floor of millis / 1000".  The code breaks this one
\* on negative balances, which an increment by a negative amount leaves.
ViewIsFloor ==
  last # "other" => sheet.quintessence = {Floor(q) : q \in sheet.milli}
=============================================================================
