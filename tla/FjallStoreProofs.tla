-------------------------- MODULE FjallStoreProofs --------------------------
(***************************************************************************)
(* The ledger store, for every number of threads, DIDs, calls and          *)
(* directories: types, durability of acknowledged writes, and what a       *)
(* collision on fjall's directory lock takes.                              *)
(***************************************************************************)
EXTENDS FjallStore, SequenceTheorems, TLAPS

\* What a thread knows of its own call.
CallKnown ==
  \A t \in Thread :
    /\ th[t].pc # "idle" => /\ th[t].did \in Did
                            /\ th[t].kind \in Kind
                            /\ th[t].call \in 1 .. MaxCall
                            /\ th[t].call <= calls
    /\ th[t].pc \in {"have", "persist"} <=> th[t].handle # None
    /\ th[t].pc = "remove" => th[t].kind = "forget"
    /\ th[t].pc \in {"idle", "open", "persist"} => th[t].flushing = None

Typed == TypeOK /\ CallKnown

LEMMA NoneIsNoInc == None \notin Inc
  BY DEF None, Inc

LEMMA WritesPart == \A kind : Writes(kind) \subseteq SUBSET FoldSnapshot
  BY DEF Writes, Events, Fold, FoldSnapshot

\* Cutting a sequence leaves its first elements.
LEMMA CutProperties ==
  ASSUME NEW S, NEW s \in Seq(S), NEW n \in 0 .. Len(s)
  PROVE  /\ SubSeq(s, 1, n) \in Seq(S)
         /\ Len(SubSeq(s, 1, n)) = n
         /\ \A k \in 1 .. n : SubSeq(s, 1, n)[k] = s[k]
<1>1. Len(s) \in Nat /\ \A i \in 1 .. n : s[i] \in S
  BY LenProperties, ElementOfSeq
<1>2. /\ SubSeq(s, 1, n) \in Seq(S)
      /\ Len(SubSeq(s, 1, n)) = IF 1 <= n THEN n - 1 + 1 ELSE 0
      /\ \A i \in 1 .. n - 1 + 1 : SubSeq(s, 1, n)[i] = s[1 + i - 1]
  BY <1>1, SubSeqProperties
<1> QED
  BY <1>1, <1>2

\* The changes a step makes to a thread's record keep it a thread's record.
LEMMA ThreadMoves ==
  ASSUME th \in [Thread -> ThreadState], NEW t \in Thread, NEW h \in Inc \cup {None}, 
         NEW pc \in {"idle", "get", "open", "have", "persist", "remove"}
  PROVE  /\ [th EXCEPT ![t] = Idle] \in [Thread -> ThreadState]
         /\ [th EXCEPT ![t].pc = pc] \in [Thread -> ThreadState]
         /\ [th EXCEPT ![t].flushing = h] \in [Thread -> ThreadState]
         /\ [th EXCEPT ![t].pc = pc, ![t].handle = h] \in [Thread -> ThreadState]
         /\ [th EXCEPT ![t].pc = pc, ![t].flushing = h] \in [Thread -> ThreadState]
<1>1. Idle \in ThreadState
  BY StoreAssumption DEF ThreadState, Idle, None
<1> QED
  BY <1>1 DEF ThreadState

\* A handle put into the pool, and what the thread that opened it holds then.
LEMMA PooledMoves ==
  ASSUME th \in [Thread -> ThreadState], NEW t \in Thread, NEW d \in Did, NEW i \in Inc,
         cached[d] \in Inc \cup {None}, Pooled(t, d, i)
  PROVE  /\ th' \in [Thread -> ThreadState]
         /\ th'[t].pc = "have" /\ th'[t].handle = i /\ th'[t].flushing = cached[d]
         /\ th'[t].kind = th[t].kind /\ th'[t].did = th[t].did /\ th'[t].call = th[t].call
         /\ \A u \in Thread \ {t} : th'[u] = th[u]
<1> DEFINE r == [th[t] EXCEPT !.pc = "have", !.handle = i, !.flushing = cached[d]]
<1>1. th[t] \in ThreadState
  OBVIOUS
<1>2. /\ r \in ThreadState
      /\ r.pc = "have" /\ r.handle = i /\ r.flushing = cached[d]
      /\ r.kind = th[t].kind /\ r.did = th[t].did /\ r.call = th[t].call
  BY <1>1 DEF ThreadState
<1>3. th' = [th EXCEPT ![t] = r]
  BY <1>1 DEF Pooled, ThreadState
<1> HIDE DEF r
<1> QED
  BY <1>2, <1>3

LEMMA CallMoves ==
  ASSUME th \in [Thread -> ThreadState], NEW t \in Thread,
         NEW kind \in Kind, NEW d \in Did, NEW call \in 0 .. MaxCall
  PROVE  [th EXCEPT ![t] = [Idle EXCEPT !.pc = "get", !.kind = kind, !.did = d, !.call = call]]
           \in [Thread -> ThreadState]
  BY DEF ThreadState, Idle, None

LEMMA TypedInit == Init => Typed
  BY EmptySeq, StoreAssumption DEF Init, Typed, TypeOK, CallKnown, ThreadState, Idle, Inc, None

LEMMA OpenedTyped ==
  ASSUME Typed, NEW t \in Thread, th[t].pc = "open", NEW d \in Did, d = th[t].did,
         NEW i \in Inc, Pooled(t, d, i),
         disk' \in [Dir -> Inc \cup {None}], made' \in 0 .. MaxInc,
         UNCHANGED <<journal, durable, calls, acked, forgot>>
  PROVE  Typed'
<1>1. /\ th \in [Thread -> ThreadState] /\ cached \in [Did -> Inc \cup {None}]
      /\ expired \subseteq Did /\ cached[d] \in Inc \cup {None} /\ i # None
  BY NoneIsNoInc DEF Typed, TypeOK
<1>2. /\ th' \in [Thread -> ThreadState]
      /\ th'[t].pc = "have" /\ th'[t].handle = i
      /\ th'[t].kind = th[t].kind /\ th'[t].did = th[t].did /\ th'[t].call = th[t].call
      /\ \A u \in Thread \ {t} : th'[u] = th[u]
  BY <1>1, PooledMoves
<1>3. cached' \in [Did -> Inc \cup {None}] /\ expired' \subseteq Did
  BY <1>1 DEF Pooled
<1>4. TypeOK'
  BY <1>2, <1>3 DEF Typed, TypeOK
<1>5. CallKnown'
  BY <1>1, <1>2 DEF Typed, CallKnown
<1> QED
  BY <1>4, <1>5 DEF Typed

LEMMA TypedStep == Typed /\ [Next]_vars => Typed'
<1> SUFFICES ASSUME Typed, [Next]_vars PROVE Typed'
  OBVIOUS
<1>0. /\ TypeOK /\ CallKnown
      /\ DirOf \in [Did -> Dir] /\ MaxCall \in Nat /\ MaxInc \in Nat
      /\ th \in [Thread -> ThreadState]
      /\ cached \in [Did -> Inc \cup {None}] /\ disk \in [Dir -> Inc \cup {None}]
      /\ journal \in [Inc -> Seq(Batch)]
      /\ made \in Nat /\ calls \in 0 .. MaxCall
      /\ \A t \in Thread : th[t].pc # "idle" => th[t].did \in Did
      /\ None \notin Inc
  BY StoreAssumption, NoneIsNoInc DEF Typed, TypeOK, CallKnown
<1> USE DEF Idle, At, store, Pooled, Dropped
<1>1. ASSUME NEW t \in Thread, NEW kind \in Kind, NEW d \in Did, Call(t, kind, d)
      PROVE  Typed'
  <2>1. th' \in [Thread -> ThreadState]
    <3>1. calls + 1 \in 0 .. MaxCall
      BY <1>0, <1>1 DEF Call
    <3> QED
      BY <1>0, <1>1, <3>1, CallMoves DEF Call
  <2>2. TypeOK'
    BY <1>0, <1>1, <2>1 DEF Call, TypeOK
  <2>3. CallKnown'
    BY <1>0, <1>1 DEF Call, ThreadState, TypeOK, CallKnown
  <2> QED
    BY <2>2, <2>3 DEF Typed
<1>2. ASSUME NEW t \in Thread, GetCached(t)
      PROVE  Typed'
  <2>1. th' \in [Thread -> ThreadState]
    BY <1>0, <1>2, ThreadMoves DEF GetCached
  <2>2. TypeOK'
    BY <1>0, <1>2, <2>1 DEF GetCached, TypeOK
  <2>3. CallKnown'
    BY <1>0, <1>2 DEF GetCached, ThreadState, TypeOK, CallKnown
  <2> QED
    BY <2>2, <2>3 DEF Typed
<1>3. ASSUME NEW t \in Thread, StartOpen(t)
      PROVE  Typed'
  <2>1. th' \in [Thread -> ThreadState]
    BY <1>0, <1>3, ThreadMoves DEF StartOpen
  <2>2. TypeOK'
    BY <1>0, <1>3, <2>1 DEF StartOpen, TypeOK
  <2>3. CallKnown'
    BY <1>0, <1>3 DEF StartOpen, ThreadState, TypeOK, CallKnown
  <2> QED
    BY <2>2, <2>3 DEF Typed
<1>4. ASSUME NEW t \in Thread, OpenExisting(t)
      PROVE  Typed'
  <2>1. PICK d, i : d = th[t].did /\ i = disk[DirOf[d]]
    OBVIOUS
  <2>2. i \in Inc /\ d \in Did /\ th[t].pc = "open"
    BY <1>0, <1>4, <2>1 DEF OpenExisting
  <2>3. disk' \in [Dir -> Inc \cup {None}] /\ made' \in 0 .. MaxInc
    BY <1>0, <1>4 DEF OpenExisting, TypeOK
  <2> QED
    BY <1>4, <2>1, <2>2, <2>3, OpenedTyped DEF OpenExisting
<1>5. ASSUME NEW t \in Thread, OpenNew(t)
      PROVE  Typed'
  <2>1. PICK d, i : d = th[t].did /\ i = made + 1
    OBVIOUS
  <2>2. i \in Inc /\ d \in Did /\ th[t].pc = "open"
    BY <1>0, <1>5, <2>1 DEF OpenNew, Inc
  <2>3. disk' \in [Dir -> Inc \cup {None}] /\ made' \in 0 .. MaxInc
    BY <1>0, <1>5, <2>1, <2>2 DEF OpenNew, Inc
  <2> QED
    BY <1>5, <2>1, <2>2, <2>3, OpenedTyped DEF OpenNew
<1>6. ASSUME NEW t \in Thread, OpenCollides(t)
      PROVE  Typed'
  <2>1. th' \in [Thread -> ThreadState]
    BY <1>0, <1>6 DEF OpenCollides, ThreadState
  <2>2. TypeOK'
    BY <1>0, <1>6, <2>1 DEF OpenCollides, TypeOK
  <2>3. CallKnown'
    BY <1>0, <1>6 DEF OpenCollides, ThreadState, TypeOK, CallKnown
  <2> QED
    BY <2>2, <2>3 DEF Typed
<1>7. ASSUME NEW t \in Thread, NEW d \in Did, Evict(t, d)
      PROVE  Typed'
  <2>1. th' \in [Thread -> ThreadState]
    BY <1>0, <1>7, ThreadMoves DEF Evict
  <2>2. TypeOK'
    BY <1>0, <1>7, <2>1 DEF Evict, TypeOK
  <2>3. CallKnown'
    BY <1>0, <1>7 DEF Evict, ThreadState, TypeOK, CallKnown
  <2> QED
    BY <2>2, <2>3 DEF Typed
<1>8. ASSUME NEW t \in Thread, Flushed(t)
      PROVE  Typed'
  <2>1. th' \in [Thread -> ThreadState]
    BY <1>0, <1>8, ThreadMoves DEF Flushed
  <2>2. TypeOK'
    <3>1. durable' \in [Inc -> Nat] /\ \A i \in Inc : durable'[i] <= Len(journal[i])
      BY <1>0, <1>8, LenProperties DEF Flushed, TypeOK
    <3> QED
      BY <1>0, <1>8, <2>1, <3>1 DEF Flushed, TypeOK
  <2>3. CallKnown'
    BY <1>0, <1>8 DEF Flushed, ThreadState, TypeOK, CallKnown
  <2> QED
    BY <2>2, <2>3 DEF Typed
<1>9. ASSUME NEW t \in Thread, Commit(t)
      PROVE  Typed'
  <2>1. PICK whole \in Writes(th[t].kind) :
          journal' = [journal EXCEPT ![th[t].handle] = Append(@, Part(t, whole, whole))]
    BY <1>9 DEF Commit
  <2>2. Part(t, whole, whole) \in Batch
    BY <1>0, <1>9, WritesPart DEF Commit, CallKnown, Part, Batch
  <2>3. th[t].handle \in Inc /\ journal[th[t].handle] \in Seq(Batch)
    BY <1>0, <1>9 DEF Commit, CallKnown, ThreadState
  <2>4. /\ Append(journal[th[t].handle], Part(t, whole, whole)) \in Seq(Batch)
        /\ Len(Append(journal[th[t].handle], Part(t, whole, whole)))
             = Len(journal[th[t].handle]) + 1
    BY <2>2, <2>3, AppendProperties
  <2>5. journal' \in [Inc -> Seq(Batch)]
    BY <1>0, <2>1, <2>3, <2>4
  <2>6. ASSUME NEW i \in Inc PROVE durable[i] <= Len(journal'[i])
    <3>1. CASE i = th[t].handle
      BY <1>0, <2>1, <2>3, <2>4, <3>1, LenProperties DEF TypeOK
    <3>2. CASE i # th[t].handle
      BY <1>0, <2>1, <3>2 DEF TypeOK
    <3> QED
      BY <3>1, <3>2
  <2>7. th' \in [Thread -> ThreadState]
    BY <1>0, <1>9, ThreadMoves DEF Commit
  <2>8. TypeOK'
    BY <1>0, <1>9, <2>5, <2>6, <2>7 DEF Commit, TypeOK
  <2>9. CallKnown'
    BY <1>0, <1>9 DEF Commit, ThreadState, TypeOK, CallKnown
  <2> QED
    BY <2>8, <2>9 DEF Typed
<1>10. ASSUME NEW t \in Thread, Persist(t)
      PROVE  Typed'
  <2>1. th' \in [Thread -> ThreadState]
    BY <1>0, <1>10, ThreadMoves DEF Persist
  <2>2. TypeOK'
    <3>1. durable' \in [Inc -> Nat] /\ \A i \in Inc : durable'[i] <= Len(journal[i])
      <4>1. th[t].handle \in Inc
        BY <1>0, <1>10 DEF Persist, CallKnown, ThreadState
      <4> QED
        BY <1>0, <1>10, <4>1, LenProperties DEF Persist, TypeOK
    <3>2. acked' \subseteq [call : 1 .. MaxCall, did : Did]
      BY <1>0, <1>10 DEF Persist, Acked, TypeOK, CallKnown
    <3> QED
      BY <1>0, <1>10, <2>1, <3>1, <3>2 DEF Persist, TypeOK
  <2>3. CallKnown'
    BY <1>0, <1>10 DEF Persist, Acked, ThreadState, TypeOK, CallKnown
  <2> QED
    BY <2>2, <2>3 DEF Typed
<1>11. ASSUME NEW t \in Thread, ReturnUnacked(t)
      PROVE  Typed'
  <2>1. th' \in [Thread -> ThreadState]
    BY <1>0, <1>11, ThreadMoves DEF ReturnUnacked
  <2>2. TypeOK'
    BY <1>0, <1>11, <2>1 DEF ReturnUnacked, TypeOK
  <2>3. CallKnown'
    BY <1>0, <1>11 DEF ReturnUnacked, ThreadState, TypeOK, CallKnown
  <2> QED
    BY <2>2, <2>3 DEF Typed
<1>12. ASSUME NEW t \in Thread, Invalidate(t)
      PROVE  Typed'
  <2>1. th' \in [Thread -> ThreadState]
    BY <1>0, <1>12, ThreadMoves DEF Invalidate
  <2>2. TypeOK'
    BY <1>0, <1>12, <2>1 DEF Invalidate, TypeOK
  <2>3. CallKnown'
    BY <1>0, <1>12 DEF Invalidate, ThreadState, TypeOK, CallKnown
  <2> QED
    BY <2>2, <2>3 DEF Typed
<1>13. ASSUME NEW t \in Thread, Remove(t)
      PROVE  Typed'
  <2>1. th' \in [Thread -> ThreadState]
    BY <1>0, <1>13, ThreadMoves DEF Remove
  <2>2. TypeOK'
    BY <1>0, <1>13, <2>1 DEF Remove, TypeOK
  <2>3. CallKnown'
    BY <1>0, <1>13 DEF Remove, ThreadState, TypeOK, CallKnown
  <2> QED
    BY <2>2, <2>3 DEF Typed
<1>14. ASSUME NEW t \in Thread, RemoveFails(t)
      PROVE  Typed'
  <2>1. th' \in [Thread -> ThreadState]
    BY <1>0, <1>14, ThreadMoves DEF RemoveFails
  <2>2. TypeOK'
    BY <1>0, <1>14, <2>1 DEF RemoveFails, TypeOK
  <2>3. CallKnown'
    BY <1>0, <1>14 DEF RemoveFails, ThreadState, TypeOK, CallKnown
  <2> QED
    BY <2>2, <2>3 DEF Typed
<1>15. ASSUME Crash
      PROVE  Typed'
  <2>1. PICK cut \in [Inc -> 0 .. MaxCall] :
          /\ \A i \in Inc : durable[i] <= cut[i] /\ cut[i] <= Len(journal[i])
          /\ journal' = [i \in Inc |-> SubSeq(journal[i], 1, cut[i])]
    BY <1>15 DEF Crash
  <2>2. ASSUME NEW i \in Inc
        PROVE  journal'[i] \in Seq(Batch) /\ Len(journal'[i]) = cut[i]
    <3>1. journal[i] \in Seq(Batch) /\ cut[i] \in 0 .. Len(journal[i])
      BY <1>0, <2>1, LenProperties
    <3> QED
      BY <2>1, <3>1, CutProperties
  <2>3. journal' \in [Inc -> Seq(Batch)] /\ \A i \in Inc : durable[i] <= Len(journal'[i])
    BY <2>1, <2>2
  <2>4. th' \in [Thread -> ThreadState] /\ CallKnown'
    BY <1>0, <1>15 DEF Crash, ThreadState, TypeOK, CallKnown
  <2>5. TypeOK'
    BY <1>0, <1>15, <2>3, <2>4 DEF Crash, TypeOK
  <2> QED
    BY <2>4, <2>5 DEF Typed
<1>16. ASSUME UNCHANGED vars
      PROVE  Typed'
  <2>1. th' \in [Thread -> ThreadState]
    BY <1>0, <1>16 DEF vars, ThreadState
  <2>2. TypeOK'
    BY <1>0, <1>16, <2>1 DEF vars, TypeOK
  <2>3. CallKnown'
    BY <1>0, <1>16 DEF vars, ThreadState, TypeOK, CallKnown
  <2> QED
    BY <2>2, <2>3 DEF Typed
<1>17. ASSUME NEW d \in Did, Expire(d)
       PROVE  Typed'
  <2>1. TypeOK'
    BY <1>0, <1>17 DEF Expire, TypeOK
  <2>2. CallKnown'
    BY <1>0, <1>17 DEF Expire, CallKnown
  <2> QED
    BY <2>1, <2>2 DEF Typed
<1> QED
  BY <1>1, <1>2, <1>3, <1>4, <1>5, <1>6, <1>7, <1>8, <1>9, <1>10, <1>11, <1>12,
     <1>13, <1>14, <1>15, <1>16, <1>17 DEF Next

\* The types of the store's state, whatever its callers, its pool and crashes do.
THEOREM TypeCorrect == Spec => []TypeOK
<1>1. Typed => TypeOK
  BY DEF Typed
<1> QED
  BY <1>1, TypedInit, TypedStep, PTL DEF Spec
-----------------------------------------------------------------------------
(***************************************************************************)
(* Durability.  What is synced stays as it is; what an Ok promised is      *)
(* synced in the very database a reopen of its DID will find.              *)
(***************************************************************************)

SyncedKept ==
  \A i \in Inc : /\ durable[i] <= durable'[i]
                 /\ \A n \in 1 .. durable[i] : journal'[i][n] = journal[i][n]

LEMMA StepKeepsSynced == Typed /\ [Next]_vars => SyncedKept
<1> SUFFICES ASSUME Typed, [Next]_vars PROVE SyncedKept
  OBVIOUS
<1>0. /\ th \in [Thread -> ThreadState]
      /\ journal \in [Inc -> Seq(Batch)] /\ durable \in [Inc -> Nat]
      /\ \A i \in Inc : durable[i] <= Len(journal[i]) /\ Len(journal[i]) \in Nat
  BY LenProperties DEF Typed, TypeOK
<1>1. CASE journal' = journal /\ durable' = durable
  BY <1>0, <1>1 DEF SyncedKept
<1>2. ASSUME NEW t \in Thread, Flushed(t) PROVE SyncedKept
  <2>1. CASE durable' = durable
    BY <1>0, <1>2, <2>1 DEF Flushed, SyncedKept
  <2>2. CASE durable' = [durable EXCEPT ![th[t].flushing] = Len(journal[th[t].flushing])]
    BY <1>0, <1>2, <2>2 DEF Flushed, SyncedKept
  <2> QED
    BY <1>2, <2>1, <2>2 DEF Flushed
<1>3. ASSUME NEW t \in Thread, Persist(t) PROVE SyncedKept
  BY <1>0, <1>3 DEF Persist, SyncedKept
<1>4. ASSUME NEW t \in Thread, Commit(t) PROVE SyncedKept
  <2>1. PICK whole \in Writes(th[t].kind) :
          journal' = [journal EXCEPT ![th[t].handle] = Append(@, Part(t, whole, whole))]
    BY <1>4 DEF Commit
  <2>2. Part(t, whole, whole) \in Batch
    BY <1>4, WritesPart DEF Typed, CallKnown, Commit, At, Part, Batch
  <2>3. ASSUME NEW i \in Inc, NEW n \in 1 .. durable[i] PROVE journal'[i][n] = journal[i][n]
    <3>1. n \in 1 .. Len(journal[i])
      BY <1>0
    <3>2. Append(journal[i], Part(t, whole, whole))[n] = journal[i][n]
      BY <1>0, <2>2, <3>1, AppendProperties
    <3> QED
      BY <1>0, <2>1, <3>2
  <2> QED
    BY <1>0, <1>4, <2>3 DEF Commit, SyncedKept
<1>5. ASSUME Crash PROVE SyncedKept
  <2>1. PICK cut \in [Inc -> 0 .. MaxCall] :
          /\ \A i \in Inc : durable[i] <= cut[i] /\ cut[i] <= Len(journal[i])
          /\ journal' = [i \in Inc |-> SubSeq(journal[i], 1, cut[i])]
    BY <1>5 DEF Crash
  <2>2. ASSUME NEW i \in Inc, NEW n \in 1 .. durable[i] PROVE journal'[i][n] = journal[i][n]
    <3>1. n \in 1 .. cut[i] /\ cut[i] \in 0 .. Len(journal[i]) /\ journal[i] \in Seq(Batch)
      BY <1>0, <2>1
    <3>2. SubSeq(journal[i], 1, cut[i])[n] = journal[i][n]
      BY <3>1, CutProperties
    <3> QED
      BY <2>1, <3>2
  <2> QED
    BY <1>0, <1>5, <2>2 DEF Crash, SyncedKept
<1> QED
  BY <1>1, <1>2, <1>3, <1>4, <1>5
     DEF Next, vars, store, Call, GetCached, StartOpen, OpenExisting, OpenNew, OpenCollides,
         Expire, Evict, ReturnUnacked, Invalidate, Remove, RemoveFails

\* forget is used by one thread alone, or not at all; DIDs have distinct directories.
SafeUse == "forget" \in Kind => \A t, u \in Thread : t = u
DirsDistinct == \A d, e \in Did : DirOf[d] = DirOf[e] => d = e

\* Incarnations are handed out in order and no directory shares one.
DiskKnown == /\ \A p \in Dir : disk[p] <= made
             /\ \A p, q \in Dir : disk[p] # None /\ disk[p] = disk[q] => p = q

\* The pool and the threads hold the database now on disk, not one that forget removed.
PoolCurrent == /\ \A d \in Did : cached[d] # None => cached[d] = disk[DirOf[d]]
               /\ \A t \in Thread : th[t].pc = "remove" => cached[th[t].did] = None
HeldCurrent == \A t \in Thread :
  th[t].pc \in {"have", "persist"} => th[t].handle = disk[DirOf[th[t].did]]

\* The write about to be synced is in the journal.
BatchWritten == \A t \in Thread : th[t].pc = "persist" =>
  \E n \in 1 .. Len(journal[th[t].handle]) : journal[th[t].handle][n].call = th[t].call

AcksNumbered == /\ \A a \in acked : a.call <= calls
                /\ \A d \in Did : forgot[d] <= calls

Durable == DiskKnown /\ PoolCurrent /\ HeldCurrent /\ BatchWritten /\ AcksNumbered
           /\ AckedSurvives

LEMMA DurableInit == Init => Durable
  BY StoreAssumption
     DEF Init, Durable, DiskKnown, PoolCurrent, HeldCurrent, BatchWritten, AcksNumbered,
         AckedSurvives, Idle, None

\* Every step, as far as the directories are concerned.
LEMMA DiskStep ==
  ASSUME [Next]_vars
  PROVE  \/ disk' = disk /\ made' = made
         \/ \E t \in Thread : OpenNew(t) \/ Remove(t)
  BY DEF Next, vars, store, Call, GetCached, StartOpen, OpenExisting, OpenCollides,
         Expire, Evict, Flushed, Commit, Persist, ReturnUnacked, Invalidate, RemoveFails, Crash

LEMMA KeepsDiskKnown == Typed /\ DiskKnown /\ [Next]_vars => DiskKnown'
<1> SUFFICES ASSUME Typed, DiskKnown, [Next]_vars PROVE DiskKnown'
  OBVIOUS
<1>0. /\ DiskKnown /\ made \in Nat /\ disk \in [Dir -> Inc \cup {None}]
      /\ th \in [Thread -> ThreadState] /\ DirOf \in [Did -> Dir]
      /\ \A p \in Dir : disk[p] \in Nat
  BY StoreAssumption DEF Typed, TypeOK, Inc, None
<1>1. CASE disk' = disk /\ made' = made
  BY <1>0, <1>1 DEF DiskKnown
<1>2. ASSUME NEW t \in Thread, OpenNew(t) PROVE DiskKnown'
  BY <1>0, <1>2 DEF OpenNew, DiskKnown, None
<1>3. ASSUME NEW t \in Thread, Remove(t) PROVE DiskKnown'
  BY <1>0, <1>3 DEF Remove, DiskKnown, None
<1> QED
  BY <1>1, <1>2, <1>3, DiskStep
LEMMA KeepsPoolCurrent ==
  ASSUME SafeUse, DirsDistinct
  PROVE  Typed /\ Durable /\ [Next]_vars => PoolCurrent'
<1> SUFFICES ASSUME Typed, Durable, [Next]_vars PROVE PoolCurrent'
  OBVIOUS
<1>0. /\ PoolCurrent /\ DirOf \in [Did -> Dir]
      /\ th \in [Thread -> ThreadState]
      /\ cached \in [Did -> Inc \cup {None}] /\ disk \in [Dir -> Inc \cup {None}]
      /\ \A t \in Thread : th[t].pc # "idle" => th[t].did \in Did
      /\ \A t \in Thread : th[t].pc = "remove" => "forget" \in Kind
  BY StoreAssumption DEF Durable, Typed, TypeOK, CallKnown
<1> USE DEF At, Idle, Pooled, Dropped, PoolCurrent
<1>1. ASSUME NEW t \in Thread, NEW kind \in Kind, NEW d \in Did, Call(t, kind, d)
      PROVE  PoolCurrent'
  BY <1>0, <1>1 DEF Call, store
<1>2. ASSUME NEW t \in Thread, GetCached(t) PROVE PoolCurrent'
  BY <1>0, <1>2 DEF GetCached, store
<1>3. ASSUME NEW t \in Thread, StartOpen(t) PROVE PoolCurrent'
  BY <1>0, <1>3 DEF StartOpen, store
\* An open puts in the pool what is on disk.  A forget of the DID would be another thread's.
<1>4. ASSUME NEW t \in Thread, OpenExisting(t) PROVE PoolCurrent'
  <2>1. \A u \in Thread : th[u].pc # "remove"
    BY <1>0, <1>4 DEF OpenExisting, SafeUse
  <2> QED
    BY <1>0, <1>4, <2>1 DEF OpenExisting
<1>5. ASSUME NEW t \in Thread, OpenNew(t) PROVE PoolCurrent'
  <2>1. \A u \in Thread : th[u].pc # "remove"
    BY <1>0, <1>5 DEF OpenNew, SafeUse
  <2> QED
    BY <1>0, <1>5, <2>1 DEF OpenNew, DirsDistinct
<1>6. ASSUME NEW t \in Thread, OpenCollides(t) PROVE PoolCurrent'
  BY <1>0, <1>6 DEF OpenCollides, store
<1>7. ASSUME NEW t \in Thread, NEW d \in Did, Evict(t, d) PROVE PoolCurrent'
  BY <1>0, <1>7 DEF Evict
<1>8. ASSUME NEW t \in Thread, Flushed(t) PROVE PoolCurrent'
  BY <1>0, <1>8 DEF Flushed
<1>9. ASSUME NEW t \in Thread, Commit(t) PROVE PoolCurrent'
  BY <1>0, <1>9 DEF Commit
<1>10. ASSUME NEW t \in Thread, Persist(t) PROVE PoolCurrent'
  BY <1>0, <1>10 DEF Persist
<1>11. ASSUME NEW t \in Thread, ReturnUnacked(t) PROVE PoolCurrent'
  BY <1>0, <1>11 DEF ReturnUnacked, store
<1>12. ASSUME NEW t \in Thread, Invalidate(t) PROVE PoolCurrent'
  BY <1>0, <1>12 DEF Invalidate
\* The removed directory's DID has left the pool; other DIDs have other directories.
<1>13. ASSUME NEW t \in Thread, Remove(t) PROVE PoolCurrent'
  BY <1>0, <1>13 DEF Remove, DirsDistinct
<1>14. ASSUME NEW t \in Thread, RemoveFails(t) PROVE PoolCurrent'
  BY <1>0, <1>14 DEF RemoveFails, store
<1>15. ASSUME Crash PROVE PoolCurrent'
  BY <1>0, <1>15 DEF Crash
<1>16. ASSUME UNCHANGED vars PROVE PoolCurrent'
  BY <1>0, <1>16 DEF vars
<1>17. ASSUME NEW d \in Did, Expire(d) PROVE PoolCurrent'
  BY <1>0, <1>17 DEF Expire
<1> QED
  BY <1>1, <1>2, <1>3, <1>4, <1>5, <1>6, <1>7, <1>8, <1>9, <1>10, <1>11, <1>12,
     <1>13, <1>14, <1>15, <1>16, <1>17 DEF Next

LEMMA KeepsHeldCurrent ==
  ASSUME SafeUse, DirsDistinct
  PROVE  Typed /\ Durable /\ [Next]_vars => HeldCurrent'
<1> SUFFICES ASSUME Typed, Durable, [Next]_vars PROVE HeldCurrent'
  OBVIOUS
<1>0. /\ HeldCurrent /\ PoolCurrent /\ DirOf \in [Did -> Dir]
      /\ th \in [Thread -> ThreadState]
      /\ cached \in [Did -> Inc \cup {None}] /\ disk \in [Dir -> Inc \cup {None}]
      /\ \A t \in Thread :
           /\ th[t].pc # "idle" => th[t].did \in Did
           /\ th[t].pc = "remove" => "forget" \in Kind
           /\ th[t].pc \in {"have", "persist"} => th[t].handle # None
  BY StoreAssumption DEF Durable, Typed, TypeOK, CallKnown
<1> USE DEF At, Idle, Pooled, Dropped, HeldCurrent
<1>1. ASSUME NEW t \in Thread, NEW kind \in Kind, NEW d \in Did, Call(t, kind, d)
      PROVE  HeldCurrent'
  BY <1>0, <1>1 DEF Call, store
<1>2. ASSUME NEW t \in Thread, GetCached(t) PROVE HeldCurrent'
  <2>1. cached[th[t].did] = disk[DirOf[th[t].did]]
    BY <1>0, <1>2 DEF GetCached, PoolCurrent
  <2> QED
    BY <1>0, <1>2, <2>1 DEF GetCached, store
<1>3. ASSUME NEW t \in Thread, StartOpen(t) PROVE HeldCurrent'
  BY <1>0, <1>3 DEF StartOpen, store
<1>4. ASSUME NEW t \in Thread, OpenExisting(t) PROVE HeldCurrent'
  BY <1>0, <1>4 DEF OpenExisting
\* Nobody holds a handle of a DID that had no directory.
<1>5. ASSUME NEW t \in Thread, OpenNew(t) PROVE HeldCurrent'
  BY <1>0, <1>5 DEF OpenNew, DirsDistinct
<1>6. ASSUME NEW t \in Thread, OpenCollides(t) PROVE HeldCurrent'
  BY <1>0, <1>6 DEF OpenCollides, store
<1>7. ASSUME NEW t \in Thread, NEW d \in Did, Evict(t, d) PROVE HeldCurrent'
  BY <1>0, <1>7 DEF Evict
<1>8. ASSUME NEW t \in Thread, Flushed(t) PROVE HeldCurrent'
  BY <1>0, <1>8 DEF Flushed
<1>9. ASSUME NEW t \in Thread, Commit(t) PROVE HeldCurrent'
  BY <1>0, <1>9 DEF Commit
<1>10. ASSUME NEW t \in Thread, Persist(t) PROVE HeldCurrent'
  BY <1>0, <1>10 DEF Persist
<1>11. ASSUME NEW t \in Thread, ReturnUnacked(t) PROVE HeldCurrent'
  BY <1>0, <1>11 DEF ReturnUnacked, store
<1>12. ASSUME NEW t \in Thread, Invalidate(t) PROVE HeldCurrent'
  BY <1>0, <1>12 DEF Invalidate
\* The thread that removes holds no handle, and it is the only thread.
<1>13. ASSUME NEW t \in Thread, Remove(t) PROVE HeldCurrent'
  <2>1. \A u \in Thread : u = t
    BY <1>0, <1>13 DEF Remove, SafeUse
  <2> QED
    BY <1>0, <1>13, <2>1 DEF Remove
<1>14. ASSUME NEW t \in Thread, RemoveFails(t) PROVE HeldCurrent'
  BY <1>0, <1>14 DEF RemoveFails, store
<1>15. ASSUME Crash PROVE HeldCurrent'
  BY <1>0, <1>15 DEF Crash
<1>16. ASSUME UNCHANGED vars PROVE HeldCurrent'
  BY <1>0, <1>16 DEF vars
<1>17. ASSUME NEW d \in Did, Expire(d) PROVE HeldCurrent'
  BY <1>0, <1>17 DEF Expire
<1> QED
  BY <1>1, <1>2, <1>3, <1>4, <1>5, <1>6, <1>7, <1>8, <1>9, <1>10, <1>11, <1>12,
     <1>13, <1>14, <1>15, <1>16, <1>17 DEF Next
LEMMA KeepsBatchWritten == Typed /\ Durable /\ [Next]_vars => BatchWritten'
<1> SUFFICES ASSUME Typed, Durable, [Next]_vars PROVE BatchWritten'
  OBVIOUS
<1>0. /\ BatchWritten
      /\ th \in [Thread -> ThreadState] /\ journal \in [Inc -> Seq(Batch)]
      /\ \A t \in Thread : th[t].pc \in {"have", "persist"} => th[t].handle \in Inc
      /\ \A i \in Inc : Len(journal[i]) \in Nat
  BY LenProperties DEF Durable, Typed, TypeOK, CallKnown, ThreadState
<1> USE DEF At, Idle, Pooled, Dropped, BatchWritten
<1>1. CASE /\ journal' = journal
           /\ \A t \in Thread : th'[t].pc = "persist" =>
                /\ th[t].pc = "persist"
                /\ th'[t].handle = th[t].handle /\ th'[t].call = th[t].call
  BY <1>0, <1>1
<1>2. ASSUME NEW t \in Thread, Commit(t) PROVE BatchWritten'
  <2>1. PICK whole \in Writes(th[t].kind) :
          journal' = [journal EXCEPT ![th[t].handle] = Append(@, Part(t, whole, whole))]
    BY <1>2 DEF Commit
  <2>2. Part(t, whole, whole) \in Batch
    BY <1>2, WritesPart DEF Typed, CallKnown, Commit, Part, Batch
  <2> DEFINE i == th[t].handle
             n == Len(journal[i]) + 1
  <2>3. i \in Inc
    BY <1>0, <1>2 DEF Commit
  <2>4. /\ Len(journal'[i]) = n /\ journal'[i][n] = Part(t, whole, whole)
        /\ \A k \in 1 .. Len(journal[i]) : journal'[i][k] = journal[i][k]
    BY <1>0, <2>1, <2>2, <2>3, AppendProperties
  <2>5. ASSUME NEW u \in Thread, th'[u].pc = "persist"
        PROVE  \E k \in 1 .. Len(journal'[th'[u].handle]) :
                 journal'[th'[u].handle][k].call = th'[u].call
    <3>1. CASE u = t
      <4>1. th'[u].handle = i /\ th'[u].call = th[t].call
        BY <1>0, <1>2, <3>1 DEF Commit
      <4>2. n \in 1 .. Len(journal'[i]) /\ journal'[i][n].call = th[t].call
        BY <1>0, <2>3, <2>4 DEF Part
      <4> QED
        BY <4>1, <4>2
    <3>2. CASE u # t
      <4>1. th'[u] = th[u] /\ th[u].handle \in Inc
        BY <1>0, <1>2, <2>5, <3>2 DEF Commit
      <4>2. PICK k \in 1 .. Len(journal[th[u].handle]) :
              journal[th[u].handle][k].call = th[u].call
        BY <1>0, <2>5, <4>1
      <4>3. CASE th[u].handle = i
        <5>1. k \in 1 .. Len(journal'[i]) /\ journal'[i][k] = journal[i][k]
          BY <1>0, <2>3, <2>4, <4>2, <4>3
        <5> QED
          BY <4>1, <4>2, <4>3, <5>1
      <4>4. CASE th[u].handle # i
        BY <1>0, <2>1, <4>1, <4>2, <4>4
      <4> QED
        BY <4>3, <4>4
    <3> QED
      BY <3>1, <3>2
  <2> QED
    BY <2>5
<1>3. ASSUME Crash PROVE BatchWritten'
  BY <1>3 DEF Crash
<1>4. ASSUME NEW t \in Thread, NEW kind \in Kind, NEW d \in Did, Call(t, kind, d)
      PROVE  BatchWritten'
  BY <1>0, <1>1, <1>4 DEF Call, store
<1>5. ASSUME NEW t \in Thread, GetCached(t) PROVE BatchWritten'
  BY <1>0, <1>1, <1>5 DEF GetCached, store
<1>6. ASSUME NEW t \in Thread, StartOpen(t) PROVE BatchWritten'
  BY <1>0, <1>1, <1>6 DEF StartOpen, store
<1>7. ASSUME NEW t \in Thread, OpenExisting(t) PROVE BatchWritten'
  <2>1. th' = [th EXCEPT ![t].pc = "have", ![t].handle = disk[DirOf[th[t].did]],
                         ![t].flushing = cached[th[t].did]]
    BY <1>7 DEF OpenExisting
  <2>2. \A u \in Thread : th'[u].pc = "persist" => u # t /\ th'[u] = th[u]
    BY <1>0, <2>1 DEF ThreadState
  <2> QED
    BY <1>1, <1>7, <2>2 DEF OpenExisting
<1>8. ASSUME NEW t \in Thread, OpenNew(t) PROVE BatchWritten'
  BY <1>0, <1>1, <1>8 DEF OpenNew
<1>9. ASSUME NEW t \in Thread, OpenCollides(t) PROVE BatchWritten'
  BY <1>0, <1>1, <1>9 DEF OpenCollides, store
<1>10. ASSUME NEW t \in Thread, NEW d \in Did, Evict(t, d) PROVE BatchWritten'
  BY <1>0, <1>1, <1>10 DEF Evict
<1>11. ASSUME NEW t \in Thread, Flushed(t) PROVE BatchWritten'
  BY <1>0, <1>1, <1>11 DEF Flushed
<1>12. ASSUME NEW t \in Thread, Persist(t) PROVE BatchWritten'
  BY <1>0, <1>1, <1>12 DEF Persist
<1>13. ASSUME NEW t \in Thread, ReturnUnacked(t) PROVE BatchWritten'
  BY <1>0, <1>1, <1>13 DEF ReturnUnacked, store
<1>14. ASSUME NEW t \in Thread, Invalidate(t) PROVE BatchWritten'
  BY <1>0, <1>1, <1>14 DEF Invalidate
<1>15. ASSUME NEW t \in Thread, Remove(t) PROVE BatchWritten'
  BY <1>0, <1>1, <1>15 DEF Remove
<1>16. ASSUME NEW t \in Thread, RemoveFails(t) PROVE BatchWritten'
  BY <1>0, <1>1, <1>16 DEF RemoveFails, store
<1>17. ASSUME UNCHANGED vars PROVE BatchWritten'
  BY <1>0, <1>1, <1>17 DEF vars
<1>18. ASSUME NEW d \in Did, Expire(d) PROVE BatchWritten'
  BY <1>0, <1>1, <1>18 DEF Expire
<1> QED
  BY <1>2, <1>3, <1>4, <1>5, <1>6, <1>7, <1>8, <1>9, <1>10, <1>11, <1>12,
     <1>13, <1>14, <1>15, <1>16, <1>17, <1>18 DEF Next

\* Every step, as far as the history of calls is concerned.
LEMMA HistoryStep ==
  ASSUME Typed, [Next]_vars
  PROVE  \/ calls' \in {calls, calls + 1} /\ acked' = acked /\ forgot' = forgot
         \/ \E t \in Thread : Persist(t) \/ Remove(t)
  BY DEF Next, vars, store, Call, GetCached, StartOpen, OpenExisting, OpenNew, OpenCollides,
         Expire, Evict, Flushed, Commit, ReturnUnacked, Invalidate, RemoveFails, Crash

LEMMA KeepsAcksNumbered == Typed /\ Durable /\ [Next]_vars => AcksNumbered'
<1> SUFFICES ASSUME Typed, Durable, [Next]_vars PROVE AcksNumbered'
  OBVIOUS
<1>0. /\ AcksNumbered /\ calls \in Nat /\ forgot \in [Did -> Nat]
      /\ acked \subseteq [call : Nat, did : Did]
      /\ \A t \in Thread : th[t].pc # "idle" => th[t].did \in Did /\ th[t].call <= calls
  BY StoreAssumption DEF Durable, Typed, TypeOK, CallKnown
<1>1. CASE calls' \in {calls, calls + 1} /\ acked' = acked /\ forgot' = forgot
  BY <1>0, <1>1 DEF AcksNumbered
<1>2. ASSUME NEW t \in Thread, Persist(t) PROVE AcksNumbered'
  BY <1>0, <1>2 DEF Persist, Acked, At, AcksNumbered
<1>3. ASSUME NEW t \in Thread, Remove(t) PROVE AcksNumbered'
  BY <1>0, <1>3 DEF Remove, At, AcksNumbered
<1> QED
  BY <1>1, <1>2, <1>3, HistoryStep

\* A write stored in the database of a DID stays stored until the directory is removed.
LEMMA StoredStays ==
  ASSUME Typed, SyncedKept, NEW d \in Did, NEW call, Stored(call, d),
         disk'[DirOf[d]] = disk[DirOf[d]], durable' \in [Inc -> Nat]
  PROVE  Stored(call, d)'
<1> DEFINE i == disk[DirOf[d]]
<1>1. PICK n \in 1 .. durable[i] : journal[i][n].call = call
  BY DEF Stored
<1>2. i \in Inc /\ durable[i] \in Nat
  BY StoreAssumption DEF Stored, Typed, TypeOK
<1>3. n \in 1 .. durable'[i] /\ journal'[i][n].call = call
  BY <1>1, <1>2 DEF SyncedKept
<1> QED
  BY <1>2, <1>3 DEF Stored

LEMMA KeepsAcked ==
  ASSUME SafeUse, DirsDistinct
  PROVE  Typed /\ Durable /\ [Next]_vars => AckedSurvives'
<1> SUFFICES ASSUME Typed, Durable, [Next]_vars,
                    NEW a \in acked', a.call > forgot'[a.did]
             PROVE  Stored(a.call, a.did)'
  BY DEF AckedSurvives
<1>0. /\ Typed' /\ SyncedKept
      /\ durable' \in [Inc -> Nat] /\ a.did \in Did /\ a.call \in Nat
      /\ DirOf \in [Did -> Dir] /\ disk \in [Dir -> Inc \cup {None}]
      /\ forgot \in [Did -> Nat] /\ calls \in Nat
      /\ th \in [Thread -> ThreadState]
  BY TypedStep, StepKeepsSynced, StoreAssumption DEF Typed, TypeOK
\* An earlier Ok: its directory is the same, unless this step is the forget of its DID.
<1>1. CASE a \in acked /\ a.call > forgot[a.did]
  <2>1. Stored(a.call, a.did)
    BY <1>1 DEF Durable, AckedSurvives
  <2>2. disk[DirOf[a.did]] # None
    BY <2>1 DEF Stored
  <2>3. CASE disk' = disk
    BY <1>0, <2>1, <2>3, StoredStays
  <2>4. ASSUME NEW t \in Thread, OpenNew(t) PROVE Stored(a.call, a.did)'
    <3>1. disk'[DirOf[a.did]] = disk[DirOf[a.did]]
      BY <1>0, <2>2, <2>4 DEF OpenNew
    <3> QED
      BY <1>0, <2>1, <3>1, StoredStays
  <2>5. ASSUME NEW t \in Thread, Remove(t) PROVE Stored(a.call, a.did)'
    <3>1. th[t].did \in Did /\ a.call <= calls
      BY <1>1, <2>5 DEF Remove, At, Typed, CallKnown, Durable, AcksNumbered
    <3>2. a.did # th[t].did
      BY <1>0, <2>5, <3>1 DEF Remove
    <3>3. DirOf[a.did] # DirOf[th[t].did]
      BY <1>0, <3>1, <3>2 DEF DirsDistinct
    <3>4. disk'[DirOf[a.did]] = disk[DirOf[a.did]]
      BY <1>0, <2>5, <3>3 DEF Remove
    <3> QED
      BY <1>0, <2>1, <3>4, StoredStays
  <2> QED
    BY <2>3, <2>4, <2>5, DiskStep
\* This step's Ok: the batch is in the journal just synced, of the database on disk.
<1>2. ASSUME NEW t \in Thread, Persist(t), a.call = th[t].call, a.did = th[t].did
      PROVE  Stored(a.call, a.did)'
  <2> DEFINE i == th[t].handle
  <2>1. i = disk[DirOf[a.did]] /\ i \in Inc /\ i # None
    BY <1>0, <1>2 DEF Persist, At, Durable, HeldCurrent, Typed, CallKnown, ThreadState
  <2>2. PICK n \in 1 .. Len(journal[i]) : journal[i][n].call = a.call
    BY <1>2 DEF Persist, At, Durable, BatchWritten
  <2>3. durable'[i] = Len(journal[i]) /\ journal' = journal /\ disk' = disk
    BY <1>2, <2>1 DEF Persist, Typed, TypeOK
  <2> QED
    BY <2>1, <2>2, <2>3 DEF Stored
<1>3. \/ a \in acked /\ a.call > forgot[a.did]
      \/ \E t \in Thread : Persist(t) /\ a.call = th[t].call /\ a.did = th[t].did
  <2>1. CASE acked' = acked /\ forgot' = forgot
    BY <2>1
  <2>2. ASSUME NEW t \in Thread, Persist(t)
        PROVE  \/ a \in acked /\ a.call > forgot[a.did]
               \/ a.call = th[t].call /\ a.did = th[t].did
    BY <2>2 DEF Persist, Acked
  <2>3. ASSUME NEW t \in Thread, Remove(t) PROVE a \in acked /\ a.call > forgot[a.did]
    <3>1. forgot[a.did] <= calls
      BY <1>0 DEF Durable, AcksNumbered
    <3> QED
      BY <1>0, <2>3, <3>1 DEF Remove
  <2> QED
    BY <2>1, <2>2, <2>3, HistoryStep
<1> QED
  BY <1>1, <1>2, <1>3

\* append_events and commit_fold are durable, for any number of DIDs, calls, evictions
\* and crashes, when forget is left to a single thread and no two DIDs share a directory:
\* what returned Ok is what a reopen reads.
THEOREM AckedWritesSurvive ==
  ASSUME SafeUse, DirsDistinct
  PROVE  Spec => []AckedSurvives
<1>1. Init => Typed /\ Durable
  BY TypedInit, DurableInit
<1>2. Typed /\ Durable /\ [Next]_vars => (Typed /\ Durable)'
  BY TypedStep, KeepsDiskKnown, KeepsPoolCurrent, KeepsHeldCurrent, KeepsBatchWritten,
     KeepsAcksNumbered, KeepsAcked DEF Durable
<1>3. Durable => AckedSurvives
  BY DEF Durable
<1> QED
  BY <1>1, <1>2, <1>3, PTL DEF Spec
-----------------------------------------------------------------------------
(***************************************************************************)
(* Collisions on fjall's directory lock, with forget in use by any thread. *)
(***************************************************************************)

\* A pooled handle may outlive its directory, but it is on disk nowhere else.
PoolInPlace == \A d \in Did : cached[d] # None =>
  cached[d] <= made /\ \A p \in Dir : disk[p] = cached[d] => p = DirOf[d]

\* moka runs one initializer per DID, for a DID that is not in the pool or hidden there.
OneOpener == \A t \in Thread : th[t].pc = "open" =>
  /\ cached[th[t].did] = None \/ th[t].did \in expired
  /\ \A u \in Thread : th[u].pc = "open" /\ th[u].did = th[t].did => u = t

LEMMA KeepsPoolInPlace == Typed /\ DiskKnown /\ PoolInPlace /\ [Next]_vars => PoolInPlace'
<1> SUFFICES ASSUME Typed, DiskKnown, PoolInPlace, [Next]_vars PROVE PoolInPlace'
  OBVIOUS
<1>0. /\ PoolInPlace /\ DirOf \in [Did -> Dir] /\ made \in Nat
      /\ th \in [Thread -> ThreadState]
      /\ cached \in [Did -> Inc \cup {None}] /\ disk \in [Dir -> Inc \cup {None}]
      /\ \A t \in Thread : th[t].pc # "idle" => th[t].did \in Did
  BY StoreAssumption DEF Typed, TypeOK, CallKnown
<1> USE DEF At, Idle, Pooled, Dropped, PoolInPlace
<1>1. ASSUME NEW t \in Thread, NEW kind \in Kind, NEW d \in Did, Call(t, kind, d) PROVE PoolInPlace'
  BY <1>0, <1>1 DEF Call, store
<1>2. ASSUME NEW t \in Thread, GetCached(t) PROVE PoolInPlace'
  BY <1>0, <1>2 DEF GetCached, store
<1>3. ASSUME NEW t \in Thread, StartOpen(t) PROVE PoolInPlace'
  BY <1>0, <1>3 DEF StartOpen, store
<1>4. ASSUME NEW t \in Thread, OpenExisting(t) PROVE PoolInPlace'
  BY <1>0, <1>4 DEF OpenExisting, DiskKnown
<1>5. ASSUME NEW t \in Thread, OpenNew(t) PROVE PoolInPlace'
  <2>1. \A d \in Did : cached[d] # None => cached[d] # made + 1 /\ cached[d] <= made + 1
    BY <1>0, NoneIsNoInc DEF Inc
  <2>2. \A p \in Dir : disk[p] # made + 1
    BY <1>0 DEF DiskKnown
  <2>3. ASSUME NEW d \in Did, cached'[d] # None
        PROVE  cached'[d] <= made' /\ \A p \in Dir : disk'[p] = cached'[d] => p = DirOf[d]
    <3>1. CASE d = th[t].did
      BY <1>0, <1>5, <2>2, <3>1 DEF OpenNew
    <3>2. CASE d # th[t].did
      BY <1>0, <1>5, <2>1, <2>3, <3>2 DEF OpenNew
    <3> QED
      BY <3>1, <3>2
  <2> QED
    BY <2>3
<1>6. ASSUME NEW t \in Thread, OpenCollides(t) PROVE PoolInPlace'
  BY <1>0, <1>6 DEF OpenCollides, store
<1>7. ASSUME NEW t \in Thread, NEW d \in Did, Evict(t, d) PROVE PoolInPlace'
  BY <1>0, <1>7 DEF Evict
<1>8. ASSUME NEW t \in Thread, Flushed(t) PROVE PoolInPlace'
  BY <1>0, <1>8 DEF Flushed
<1>9. ASSUME NEW t \in Thread, Commit(t) PROVE PoolInPlace'
  BY <1>0, <1>9 DEF Commit
<1>10. ASSUME NEW t \in Thread, Persist(t) PROVE PoolInPlace'
  BY <1>0, <1>10 DEF Persist
<1>11. ASSUME NEW t \in Thread, ReturnUnacked(t) PROVE PoolInPlace'
  BY <1>0, <1>11 DEF ReturnUnacked, store
<1>12. ASSUME NEW t \in Thread, Invalidate(t) PROVE PoolInPlace'
  BY <1>0, <1>12 DEF Invalidate
<1>13. ASSUME NEW t \in Thread, Remove(t) PROVE PoolInPlace'
  BY <1>0, <1>13 DEF Remove
<1>14. ASSUME NEW t \in Thread, RemoveFails(t) PROVE PoolInPlace'
  BY <1>0, <1>14 DEF RemoveFails, store
<1>15. ASSUME Crash PROVE PoolInPlace'
  BY <1>0, <1>15 DEF Crash
<1>16. ASSUME UNCHANGED vars PROVE PoolInPlace'
  BY <1>0, <1>16 DEF vars
<1>17. ASSUME NEW d \in Did, Expire(d) PROVE PoolInPlace'
  BY <1>0, <1>17 DEF Expire
<1> QED
  BY <1>1, <1>2, <1>3, <1>4, <1>5, <1>6, <1>7, <1>8, <1>9, <1>10, <1>11, <1>12,
     <1>13, <1>14, <1>15, <1>16, <1>17 DEF Next

LEMMA KeepsOneOpener == Typed /\ OneOpener /\ [Next]_vars => OneOpener'
<1> SUFFICES ASSUME Typed, OneOpener, [Next]_vars PROVE OneOpener'
  OBVIOUS
<1>0. /\ OneOpener
      /\ th \in [Thread -> ThreadState]
      /\ cached \in [Did -> Inc \cup {None}]
      /\ \A t \in Thread : th[t].pc # "idle" => th[t].did \in Did
  BY StoreAssumption DEF Typed, TypeOK, CallKnown
<1> USE DEF At, Idle, Pooled, Dropped, OneOpener
<1>1. ASSUME NEW t \in Thread, NEW kind \in Kind, NEW d \in Did, Call(t, kind, d) PROVE OneOpener'
  BY <1>0, <1>1 DEF Call, store
<1>2. ASSUME NEW t \in Thread, GetCached(t) PROVE OneOpener'
  BY <1>0, <1>2 DEF GetCached, store
<1>3. ASSUME NEW t \in Thread, StartOpen(t) PROVE OneOpener'
  BY <1>0, <1>3 DEF StartOpen, store
<1>4. ASSUME NEW t \in Thread, OpenExisting(t) PROVE OneOpener'
  BY <1>0, <1>4 DEF OpenExisting
<1>5. ASSUME NEW t \in Thread, OpenNew(t) PROVE OneOpener'
  BY <1>0, <1>5 DEF OpenNew, Inc, None
<1>6. ASSUME NEW t \in Thread, OpenCollides(t) PROVE OneOpener'
  BY <1>0, <1>6 DEF OpenCollides, store
<1>7. ASSUME NEW t \in Thread, NEW d \in Did, Evict(t, d) PROVE OneOpener'
  BY <1>0, <1>7 DEF Evict
<1>8. ASSUME NEW t \in Thread, Flushed(t) PROVE OneOpener'
  BY <1>0, <1>8 DEF Flushed
<1>9. ASSUME NEW t \in Thread, Commit(t) PROVE OneOpener'
  BY <1>0, <1>9 DEF Commit
<1>10. ASSUME NEW t \in Thread, Persist(t) PROVE OneOpener'
  BY <1>0, <1>10 DEF Persist
<1>11. ASSUME NEW t \in Thread, ReturnUnacked(t) PROVE OneOpener'
  BY <1>0, <1>11 DEF ReturnUnacked, store
<1>12. ASSUME NEW t \in Thread, Invalidate(t) PROVE OneOpener'
  BY <1>0, <1>12 DEF Invalidate
<1>13. ASSUME NEW t \in Thread, Remove(t) PROVE OneOpener'
  BY <1>0, <1>13 DEF Remove
<1>14. ASSUME NEW t \in Thread, RemoveFails(t) PROVE OneOpener'
  BY <1>0, <1>14 DEF RemoveFails, store
<1>15. ASSUME Crash PROVE OneOpener'
  BY <1>0, <1>15 DEF Crash
<1>16. ASSUME UNCHANGED vars PROVE OneOpener'
  BY <1>0, <1>16 DEF vars
<1>17. ASSUME NEW d \in Did, Expire(d) PROVE OneOpener'
  BY <1>0, <1>17 DEF Expire
<1> QED
  BY <1>1, <1>2, <1>3, <1>4, <1>5, <1>6, <1>7, <1>8, <1>9, <1>10, <1>11, <1>12,
     <1>13, <1>14, <1>15, <1>16, <1>17 DEF Next

\* Concurrent first touches of a DID share one database: whatever the threads do, an open
\* meets a locked directory only when the pool let go of a handle another thread still uses,
\* or holds the handle itself as an expired entry that it hides and has not dropped.
THEOREM CollisionsHaveCauses ==
  ASSUME DirsDistinct
  PROVE  Spec => []CollisionHasACause
<1> DEFINE Opening == Typed /\ DiskKnown /\ PoolInPlace /\ OneOpener
<1>1. Init => Opening
  <2>1. Init => DiskKnown /\ PoolInPlace /\ OneOpener
    BY StoreAssumption DEF Init, DiskKnown, PoolInPlace, OneOpener, Idle, None
  <2> QED
    BY <2>1, TypedInit
<1>2. Opening /\ [Next]_vars => Opening'
  BY TypedStep, KeepsDiskKnown, KeepsPoolInPlace, KeepsOneOpener
<1>3. Opening => CollisionHasACause
  <2> SUFFICES ASSUME Opening, NEW t \in Thread, Colliding(t)
               PROVE  EvictedInUse(t) \/ HiddenInPool(t)
    BY DEF CollisionHasACause
  <2> DEFINE i == disk[DirOf[th[t].did]]
  <2>1. /\ th[t].did \in Did /\ DirOf[th[t].did] \in Dir /\ i # None /\ Live(i)
        /\ th[t].handle = None /\ th[t].flushing = None
        /\ cached[th[t].did] = None \/ th[t].did \in expired
    BY StoreAssumption DEF Colliding, Typed, CallKnown, OneOpener
  \* Only the DID's own entry can hold it: then the pool hides it.
  <2>2. ASSUME NEW d \in Did, cached[d] = i PROVE HiddenInPool(t)
    <3>1. d = th[t].did
      BY StoreAssumption, <2>1, <2>2 DEF PoolInPlace, DirsDistinct
    <3> QED
      BY <2>1, <2>2, <3>1 DEF HiddenInPool
  \* Otherwise a thread holds it, and not t.
  <2>3. CASE \A d \in Did : cached[d] # i
    BY <2>1, <2>3 DEF Live, EvictedInUse
  <2> QED
    BY <2>2, <2>3
<1> QED
  BY <1>1, <1>2, <1>3, PTL DEF Spec

-----------------------------------------------------------------------------
(***************************************************************************)
(* Atomicity of a write: a call commits one batch, and that batch is all   *)
(* it writes.  No condition on who calls forget is needed.                 *)
(***************************************************************************)

\* Every batch is the whole of its write, and no journal holds two of one call.
Whole ==
  \A i \in Inc : \A n \in 1 .. Len(journal[i]) :
    /\ journal[i][n].parts = journal[i][n].whole
    /\ journal[i][n].call <= calls
    /\ \A m \in 1 .. Len(journal[i]) : journal[i][m].call = journal[i][n].call => m = n

\* A call that has not committed is in no journal.
Before == {"get", "open", "have"}
Uncommitted ==
  \A t \in Thread : th[t].pc \in Before =>
    \A i \in Inc : \A n \in 1 .. Len(journal[i]) : journal[i][n].call # th[t].call

CallsDistinct ==
  \A t, u \in Thread : th[t].pc # "idle" /\ th[u].pc # "idle" /\ th[t].call = th[u].call => t = u

OneBatch == Whole /\ Uncommitted /\ CallsDistinct

\* The steps that write no batch and begin no call.
LEMMA KeepsOneBatch ==
  ASSUME OneBatch, journal' = journal, calls' = calls,
         \A t \in Thread : th'[t].pc # "idle" =>
           /\ th[t].pc # "idle" /\ th'[t].call = th[t].call
           /\ th'[t].pc \in Before => th[t].pc \in Before
  PROVE  OneBatch'
<1>1. Whole'
  BY DEF OneBatch, Whole
<1>2. Uncommitted'
  <2>1. SUFFICES ASSUME NEW t \in Thread, th'[t].pc \in Before,
                        NEW i \in Inc, NEW n \in 1 .. Len(journal[i])
                 PROVE  journal[i][n].call # th'[t].call
    BY DEF Uncommitted
  <2>2. th'[t].pc # "idle"
    BY <2>1 DEF Before
  <2>3. th[t].pc \in Before /\ th'[t].call = th[t].call
    BY <2>1, <2>2
  <2> QED
    BY <2>1, <2>3 DEF OneBatch, Uncommitted
<1>3. CallsDistinct'
  BY DEF OneBatch, CallsDistinct
<1> QED
  BY <1>1, <1>2, <1>3 DEF OneBatch

LEMMA CallKeepsOneBatch ==
  ASSUME Typed, OneBatch, NEW t \in Thread, NEW kind \in Kind, NEW d \in Did, Call(t, kind, d)
  PROVE  OneBatch'
<1>0. /\ th \in [Thread -> ThreadState] /\ calls \in Nat /\ calls' = calls + 1
      /\ journal' = journal /\ journal \in [Inc -> Seq(Batch)]
      /\ \A u \in Thread : th[u].pc # "idle" => th[u].call <= calls /\ th[u].call \in Nat
  BY StoreAssumption DEF Typed, TypeOK, CallKnown, Call, store
<1>1. /\ th'[t].call = calls + 1 /\ th'[t].pc = "get"
      /\ \A u \in Thread \ {t} : th'[u] = th[u]
  BY <1>0 DEF Call, Idle
<1>2. \A i \in Inc : \A n \in 1 .. Len(journal[i]) :
        journal[i][n].call <= calls /\ journal[i][n].call \in Nat
  <2>1. SUFFICES ASSUME NEW i \in Inc, NEW n \in 1 .. Len(journal[i])
                 PROVE  journal[i][n].call \in Nat
    BY DEF OneBatch, Whole
  <2>2. journal[i][n] \in Batch
    BY <1>0
  <2> QED
    BY <2>2 DEF Batch
<1>3. Whole'
  <2>1. SUFFICES ASSUME NEW i \in Inc, NEW n \in 1 .. Len(journal[i])
                 PROVE  journal[i][n].call <= calls + 1
    BY <1>0 DEF OneBatch, Whole
  <2> QED
    BY <1>0, <1>2
<1>4. Uncommitted'
  <2>1. SUFFICES ASSUME NEW u \in Thread, th'[u].pc \in Before,
                        NEW i \in Inc, NEW n \in 1 .. Len(journal[i])
                 PROVE  journal[i][n].call # th'[u].call
    BY <1>0 DEF Uncommitted
  <2>2. CASE u = t
    BY <1>0, <1>1, <1>2, <2>2
  <2>3. CASE u # t
    BY <1>1, <2>1, <2>3 DEF OneBatch, Uncommitted
  <2> QED
    BY <2>2, <2>3
<1>5. CallsDistinct'
  BY <1>0, <1>1 DEF OneBatch, CallsDistinct
<1> QED
  BY <1>3, <1>4, <1>5 DEF OneBatch

LEMMA CommitKeepsOneBatch ==
  ASSUME Typed, OneBatch, NEW t \in Thread, Commit(t)
  PROVE  OneBatch'
<1>0. /\ th \in [Thread -> ThreadState] /\ journal \in [Inc -> Seq(Batch)]
      /\ th[t].pc = "have" /\ th[t].handle \in Inc /\ th[t].call <= calls
      /\ calls' = calls /\ th' = [th EXCEPT ![t].pc = "persist"]
  BY DEF Typed, TypeOK, CallKnown, ThreadState, Commit, At
<1>1. PICK whole \in Writes(th[t].kind) :
        journal' = [journal EXCEPT ![th[t].handle] = Append(@, Part(t, whole, whole))]
  BY DEF Commit
<1> DEFINE h == th[t].handle
           new == Part(t, whole, whole)
<1>2. new \in Batch /\ new.parts = new.whole /\ new.call = th[t].call
  BY <1>0, WritesPart DEF Typed, CallKnown, Part, Batch
<1>3. /\ Len(journal[h]) \in Nat /\ Len(journal'[h]) = Len(journal[h]) + 1
      /\ journal'[h][Len(journal[h]) + 1] = new
      /\ \A n \in 1 .. Len(journal[h]) : journal'[h][n] = journal[h][n]
      /\ \A i \in Inc \ {h} : journal'[i] = journal[i]
  <2>1. journal[h] \in Seq(Batch) /\ journal'[h] = Append(journal[h], new)
    BY <1>0, <1>1
  <2>2. \A i \in Inc \ {h} : journal'[i] = journal[i]
    BY <1>0, <1>1
  <2> HIDE DEF new
  <2> QED
    BY <1>2, <2>1, <2>2, AppendProperties, LenProperties
<1> HIDE DEF new
<1>4. \A i \in Inc : \A n \in 1 .. Len(journal'[i]) :
        \/ n \in 1 .. Len(journal[i]) /\ journal'[i][n] = journal[i][n]
        \/ i = h /\ n = Len(journal[h]) + 1 /\ journal'[i][n] = new
  BY <1>0, <1>3
<1>5. \A i \in Inc : \A n \in 1 .. Len(journal[i]) : journal[i][n].call # th[t].call
  BY <1>0 DEF OneBatch, Uncommitted, Before
<1>6. Whole'
  <2>1. SUFFICES ASSUME NEW i \in Inc, NEW n \in 1 .. Len(journal'[i])
                 PROVE  /\ journal'[i][n].parts = journal'[i][n].whole
                        /\ journal'[i][n].call <= calls
                        /\ \A m \in 1 .. Len(journal'[i]) :
                             journal'[i][m].call = journal'[i][n].call => m = n
    BY <1>0 DEF Whole
  <2>2. journal'[i][n].parts = journal'[i][n].whole /\ journal'[i][n].call <= calls
    BY <1>0, <1>2, <1>4 DEF OneBatch, Whole
  <2>3. ASSUME NEW m \in 1 .. Len(journal'[i]), journal'[i][m].call = journal'[i][n].call
        PROVE  m = n
    BY <1>2, <1>4, <1>5, <2>3 DEF OneBatch, Whole
  <2> QED
    BY <2>2, <2>3
<1>7. Uncommitted'
  <2>1. SUFFICES ASSUME NEW u \in Thread, th'[u].pc \in Before,
                        NEW i \in Inc, NEW n \in 1 .. Len(journal'[i])
                 PROVE  journal'[i][n].call # th'[u].call
    BY DEF Uncommitted
  <2>2. u # t /\ th'[u] = th[u]
    BY <1>0, <2>1 DEF Before, ThreadState
  <2>3. th[u].call # th[t].call
    BY <1>0, <2>1, <2>2 DEF OneBatch, CallsDistinct, Before
  <2>4. \A k \in 1 .. Len(journal[i]) : journal[i][k].call # th[u].call
    BY <2>1, <2>2 DEF OneBatch, Uncommitted
  <2> QED
    BY <1>2, <1>4, <2>2, <2>3, <2>4
<1>8. CallsDistinct'
  <2>1. \A u \in Thread : th'[u].call = th[u].call /\ (th'[u].pc # "idle" => th[u].pc # "idle")
    BY <1>0 DEF ThreadState
  <2> QED
    BY <2>1 DEF OneBatch, CallsDistinct
<1> QED
  BY <1>6, <1>7, <1>8 DEF OneBatch

LEMMA CrashKeepsOneBatch ==
  ASSUME Typed, OneBatch, Crash
  PROVE  OneBatch'
<1>0. journal \in [Inc -> Seq(Batch)] /\ \A i \in Inc : Len(journal[i]) \in Nat
  BY LenProperties DEF Typed, TypeOK
<1>1. PICK cut \in [Inc -> 0 .. MaxCall] :
        /\ \A i \in Inc : durable[i] <= cut[i] /\ cut[i] <= Len(journal[i])
        /\ journal' = [i \in Inc |-> SubSeq(journal[i], 1, cut[i])]
  BY DEF Crash
<1>2. calls' = calls /\ \A t \in Thread : th'[t].pc = "idle"
  BY DEF Crash, Idle
<1>3. ASSUME NEW i \in Inc
      PROVE  \A n \in 1 .. Len(journal'[i]) :
               n \in 1 .. Len(journal[i]) /\ journal'[i][n] = journal[i][n]
  <2>1. cut[i] \in 0 .. Len(journal[i]) /\ journal[i] \in Seq(Batch)
    BY <1>0, <1>1, StoreAssumption
  <2>2. /\ Len(SubSeq(journal[i], 1, cut[i])) = cut[i]
        /\ \A n \in 1 .. cut[i] : SubSeq(journal[i], 1, cut[i])[n] = journal[i][n]
    BY <2>1, CutProperties
  <2> QED
    BY <1>0, <1>1, <2>1, <2>2
<1>4. Whole'
  BY <1>2, <1>3 DEF OneBatch, Whole
<1> QED
  BY <1>2, <1>4 DEF OneBatch, Uncommitted, CallsDistinct, Before

LEMMA OneBatchStep == Typed /\ OneBatch /\ [Next]_vars => OneBatch'
<1> SUFFICES ASSUME Typed, OneBatch, [Next]_vars PROVE OneBatch'
  OBVIOUS
<1>0. th \in [Thread -> ThreadState]
  BY DEF Typed, TypeOK
<1> USE DEF At, Idle, Pooled, Dropped, Before
<1>1. CASE \E t \in Thread, kind \in Kind, d \in Did : Call(t, kind, d)
  BY <1>1, CallKeepsOneBatch
<1>2. CASE \E t \in Thread : Commit(t)
  BY <1>2, CommitKeepsOneBatch
<1>3. CASE Crash
  BY <1>3, CrashKeepsOneBatch
<1>4. ASSUME NEW t \in Thread, GetCached(t) PROVE OneBatch'
  BY <1>0, <1>4, KeepsOneBatch DEF GetCached, store
<1>5. ASSUME NEW t \in Thread, StartOpen(t) PROVE OneBatch'
  BY <1>0, <1>5, KeepsOneBatch DEF StartOpen, store
<1>6. ASSUME NEW t \in Thread, OpenExisting(t) PROVE OneBatch'
  BY <1>0, <1>6, KeepsOneBatch DEF OpenExisting
<1>7. ASSUME NEW t \in Thread, OpenNew(t) PROVE OneBatch'
  BY <1>0, <1>7, KeepsOneBatch DEF OpenNew
<1>8. ASSUME NEW t \in Thread, OpenCollides(t) PROVE OneBatch'
  BY <1>0, <1>8, KeepsOneBatch DEF OpenCollides, store
<1>9. ASSUME NEW t \in Thread, NEW d \in Did, Evict(t, d) PROVE OneBatch'
  BY <1>0, <1>9, KeepsOneBatch DEF Evict
<1>10. ASSUME NEW t \in Thread, Flushed(t) PROVE OneBatch'
  BY <1>0, <1>10, KeepsOneBatch DEF Flushed
<1>11. ASSUME NEW t \in Thread, Persist(t) PROVE OneBatch'
  BY <1>0, <1>11, KeepsOneBatch DEF Persist
<1>12. ASSUME NEW t \in Thread, ReturnUnacked(t) PROVE OneBatch'
  BY <1>0, <1>12, KeepsOneBatch DEF ReturnUnacked, store
<1>13. ASSUME NEW t \in Thread, Invalidate(t) PROVE OneBatch'
  BY <1>0, <1>13, KeepsOneBatch DEF Invalidate
<1>14. ASSUME NEW t \in Thread, Remove(t) PROVE OneBatch'
  BY <1>0, <1>14, KeepsOneBatch DEF Remove
<1>15. ASSUME NEW t \in Thread, RemoveFails(t) PROVE OneBatch'
  BY <1>0, <1>15, KeepsOneBatch DEF RemoveFails, store
<1>16. CASE UNCHANGED vars
  BY <1>0, <1>16, KeepsOneBatch DEF vars
<1>17. ASSUME NEW d \in Did, Expire(d) PROVE OneBatch'
  BY <1>0, <1>17, KeepsOneBatch DEF Expire
<1> QED
  BY <1>1, <1>2, <1>3, <1>4, <1>5, <1>6, <1>7, <1>8, <1>9, <1>10, <1>11, <1>12, <1>13, <1>14, <1>15,
     <1>16, <1>17 DEF Next

\* Whatever a crash leaves of a journal holds all of a write or none of it, for any
\* number of threads and calls, and whatever forget and evictions do meanwhile.
THEOREM FoldsAreAtomic == Spec => []FoldAllOrNothing
<1>1. Init => OneBatch
  BY StoreAssumption DEF Init, OneBatch, Whole, Uncommitted, CallsDistinct, Idle, Before
<1>2. Typed /\ OneBatch => FoldAllOrNothing
  <2>1. SUFFICES ASSUME Typed, OneBatch, NEW i \in Inc,
                        NEW cut \in durable[i] .. Len(journal[i]), NEW n \in 1 .. cut
                 PROVE  UNION {journal[i][m].parts : m \in {k \in 1 .. cut :
                          journal[i][k].call = journal[i][n].call}} = journal[i][n].whole
    BY DEF FoldAllOrNothing
  <2>2. durable[i] \in Nat /\ Len(journal[i]) \in Nat
    <3>1. durable \in [Inc -> Nat] /\ journal[i] \in Seq(Batch)
      BY <2>1 DEF Typed, TypeOK
    <3> QED
      BY <3>1, LenProperties
  <2>3. n \in 1 .. Len(journal[i]) /\ \A k \in 1 .. cut : k \in 1 .. Len(journal[i])
    BY <2>1, <2>2
  <2>4. {k \in 1 .. cut : journal[i][k].call = journal[i][n].call} = {n}
    BY <2>1, <2>3 DEF OneBatch, Whole
  <2>5. journal[i][n].parts = journal[i][n].whole
    BY <2>1, <2>3 DEF OneBatch, Whole
  <2>6. UNION {journal[i][m].parts : m \in {n}} = journal[i][n].parts
    OBVIOUS
  <2> QED
    BY <2>4, <2>5, <2>6
<1> QED
  BY <1>1, <1>2, OneBatchStep, TypedInit, TypedStep, PTL DEF Spec
=============================================================================
