----------------------------- MODULE FjallStore -----------------------------
(***************************************************************************)
(* tass-ledger's FjallLedgerStore: one fjall database per actor DID, kept  *)
(* open by a bounded moka pool and used by any number of threads.          *)
(*                                                                         *)
(* A database on disk is an incarnation of its directory: remove and       *)
(* create give the path a new one, while handles open on the old one go on *)
(* writing to it.  Its journal is the sequence of committed batches, of    *)
(* which the first durable[i] have been synced; a crash keeps those and    *)
(* any number of the later ones.  fjall locks an open directory, so an     *)
(* incarnation never has two open handles and a handle is named by it.     *)
(***************************************************************************)
EXTENDS Naturals, Sequences

CONSTANTS
  Thread,    \* the callers
  Did,       \* the actors
  Dir,       \* directory names under the root
  DirOf,     \* did_dir: replaces reserved characters, so need not be one-to-one
  Kind,      \* the operations in use
  MaxCall,   \* bound: calls made
  MaxInc     \* bound: directories created

ASSUME StoreAssumption ==
  /\ DirOf \in [Did -> Dir]
  /\ Kind \subseteq {"append", "fold", "read", "forget"}
  /\ MaxCall \in Nat /\ MaxInc \in Nat

Inc  == 1 .. MaxInc
None == 0

\* What a write puts in its batch: append_events only events, commit_fold the events,
\* the cursor, and the snapshot when it is Some.
Events == {"events"}
Fold   == {"events", "cursor"}
FoldSnapshot == {"events", "cursor", "snapshot"}

Writes(kind) == IF kind = "append" THEN {Events}
                ELSE IF kind = "fold" THEN {Fold, FoldSnapshot} ELSE {}

VARIABLES
  th,        \* th[t]: where thread t's call stands, and the handles it holds
  cached,    \* the pool: cached[d] is the open handle of d, or None
  expired,   \* the pool's entries that have been idle too long: hidden, not yet dropped
  disk,      \* disk[p] is the incarnation under directory p, or None
  made,      \* incarnations created so far
  journal,   \* journal[i]: the batches committed to incarnation i
  durable,   \* durable[i]: how many of them are synced
  calls,     \* calls made so far; a call's number is its identity
  acked,     \* history: the writes that returned Ok
  forgot     \* history: forgot[d] is the last call made when forget(d) returned

vars == <<th, cached, expired, disk, made, journal, durable, calls, acked, forgot>>
store == <<cached, expired, disk, made, journal, durable>>

\* "idle"; "get": in handle(), about to consult the pool; "open": running its
\* initializer; "have": holding a handle; "persist": committed, not yet synced;
\* "remove": forget has invalidated the pool entry, the directory is still there.
\* flushing is the handle the eviction listener is flushing on this thread.
ThreadState ==
  [pc : {"idle", "get", "open", "have", "persist", "remove"},
   kind : Kind \cup {"none"}, did : Did \cup {"none"}, call : 0 .. MaxCall,
   handle : Inc \cup {None}, flushing : Inc \cup {None}]

Batch == [call : 1 .. MaxCall, parts : SUBSET FoldSnapshot, whole : SUBSET FoldSnapshot]

TypeOK ==
  /\ th \in [Thread -> ThreadState]
  /\ cached \in [Did -> Inc \cup {None}] /\ expired \subseteq Did
  /\ disk \in [Dir -> Inc \cup {None}]
  /\ made \in 0 .. MaxInc
  /\ journal \in [Inc -> Seq(Batch)]
  /\ durable \in [Inc -> Nat] /\ \A i \in Inc : durable[i] <= Len(journal[i])
  /\ calls \in 0 .. MaxCall
  /\ acked \subseteq [call : 1 .. MaxCall, did : Did]
  /\ forgot \in [Did -> 0 .. MaxCall]

Idle == [pc |-> "idle", kind |-> "none", did |-> "none", call |-> 0,
         handle |-> None, flushing |-> None]

Init ==
  /\ th = [t \in Thread |-> Idle]
  /\ cached = [d \in Did |-> None] /\ expired = {}
  /\ disk = [p \in Dir |-> None]
  /\ made = 0
  /\ journal = [i \in Inc |-> <<>>]
  /\ durable = [i \in Inc |-> 0]
  /\ calls = 0
  /\ acked = {}
  /\ forgot = [d \in Did |-> 0]

\* The pool, hidden entries included, or a thread still refers to the open database, so
\* fjall holds its directory's lock.
Live(i) == \/ \E d \in Did : cached[d] = i
           \/ \E t \in Thread : th[t].handle = i \/ th[t].flushing = i

At(t, pc) == th[t].pc = pc /\ th[t].flushing = None

-----------------------------------------------------------------------------
(***************************************************************************)
(* handle(): moka's try_get_with_by_ref around DidDb::open.  A lookup      *)
(* passes over an entry that has been idle too long.                       *)
(***************************************************************************)

Call(t, kind, d) ==
  /\ At(t, "idle")
  /\ calls < MaxCall
  /\ calls' = calls + 1
  /\ th' = [th EXCEPT ![t] = [Idle EXCEPT !.pc = "get", !.kind = kind, !.did = d,
                                          !.call = calls + 1]]
  /\ UNCHANGED <<store, acked, forgot>>

GetCached(t) ==
  /\ At(t, "get") /\ th[t].kind # "forget"
  /\ cached[th[t].did] # None /\ th[t].did \notin expired
  /\ th' = [th EXCEPT ![t].pc = "have", ![t].handle = cached[th[t].did]]
  /\ UNCHANGED <<store, calls, acked, forgot>>

\* A slip: get-or-insert without moka's per-key initialization.
StartOpenUnserialized(t) ==
  /\ At(t, "get") /\ th[t].kind # "forget"
  /\ cached[th[t].did] = None \/ th[t].did \in expired
  /\ th' = [th EXCEPT ![t].pc = "open"]
  /\ UNCHANGED <<store, calls, acked, forgot>>

\* One thread at a time runs the initializer of a DID; the others wait in "get".
StartOpen(t) ==
  /\ At(t, "get") /\ th[t].kind # "forget"
  /\ cached[th[t].did] = None \/ th[t].did \in expired
  /\ \A u \in Thread : th[u].pc = "open" => th[u].did # th[t].did
  /\ th' = [th EXCEPT ![t].pc = "open"]
  /\ UNCHANGED <<store, calls, acked, forgot>>

\* The handle goes into the pool; the listener flushes the expired entry it replaces.
Pooled(t, d, i) ==
  /\ cached' = [cached EXCEPT ![d] = i]
  /\ expired' = expired \ {d}
  /\ th' = [th EXCEPT ![t].pc = "have", ![t].handle = i, ![t].flushing = cached[d]]

\* DidDb::open of an existing directory that no live database has locked.
OpenExisting(t) ==
  LET d == th[t].did
      i == disk[DirOf[d]]
  IN  /\ At(t, "open")
      /\ i # None /\ ~Live(i)
      /\ Pooled(t, d, i)
      /\ UNCHANGED <<disk, made, journal, durable, calls, acked, forgot>>

\* create_dir_all makes the directory: a new, empty incarnation.
OpenNew(t) ==
  LET d == th[t].did
      i == made + 1
  IN  /\ At(t, "open")
      /\ disk[DirOf[d]] = None
      /\ made < MaxInc /\ made' = i
      /\ disk' = [disk EXCEPT ![DirOf[d]] = i]
      /\ Pooled(t, d, i)
      /\ UNCHANGED <<journal, durable, calls, acked, forgot>>

Waiting(t) == {u \in Thread : At(u, "get") /\ th[u].kind # "forget"
                              /\ th[u].did = th[t].did}

\* The directory's lock is held: the call fails (LedgerError::Pool), and with it
\* the calls that were waiting for this initializer.
OpenCollides(t) ==
  LET i == disk[DirOf[th[t].did]]
  IN  /\ At(t, "open")
      /\ i # None /\ Live(i)
      /\ \E w \in SUBSET Waiting(t) :
           th' = [u \in Thread |-> IF u = t \/ u \in w THEN Idle ELSE th[u]]
      /\ UNCHANGED <<store, calls, acked, forgot>>

-----------------------------------------------------------------------------
(***************************************************************************)
(* Expiry and eviction.  moka has no thread of its own: an entry is hidden *)
(* once its idle time is over, but leaves the pool only when a call that   *)
(* touches it runs the pending evictions and their listener.               *)
(***************************************************************************)

\* idle_timeout has passed since the last lookup of d, whoever still uses its handle.
Expire(d) ==
  /\ cached[d] # None /\ d \notin expired
  /\ expired' = expired \cup {d}
  /\ UNCHANGED <<th, cached, disk, made, journal, durable, calls, acked, forgot>>

Dropped(d) ==
  /\ cached' = [cached EXCEPT ![d] = None]
  /\ expired' = expired \ {d}

\* Over capacity or expired: the entry leaves the pool, then the listener flushes it.
Evict(t, d) ==
  /\ At(t, "get") \/ At(t, "have") \/ At(t, "remove")
  /\ cached[d] # None
  /\ Dropped(d)
  /\ th' = [th EXCEPT ![t].flushing = cached[d]]
  /\ UNCHANGED <<disk, made, journal, durable, calls, acked, forgot>>

\* The listener is done and drops its reference.  A failed flush is only logged.
Flushed(t) ==
  /\ th[t].flushing # None
  /\ th' = [th EXCEPT ![t].flushing = None]
  /\ LET i == th[t].flushing
     IN  durable' = [durable EXCEPT ![i] = Len(journal[i])] \/ UNCHANGED durable
  /\ UNCHANGED <<cached, expired, disk, made, journal, calls, acked, forgot>>

-----------------------------------------------------------------------------
(***************************************************************************)
(* append_events and commit_fold: one batch, committed and then synced.    *)
(***************************************************************************)

Part(t, parts, whole) == [call |-> th[t].call, parts |-> parts, whole |-> whole]

\* A slip: the cursor goes in a batch of its own, ahead of the events.
CommitSplit(t) ==
  /\ At(t, "have")
  /\ \E whole \in Writes(th[t].kind) :
       journal' = [journal EXCEPT ![th[t].handle] =
         @ \o <<Part(t, whole \cap {"cursor"}, whole), Part(t, whole \ {"cursor"}, whole)>>]
  /\ th' = [th EXCEPT ![t].pc = "persist"]
  /\ UNCHANGED <<cached, expired, disk, made, durable, calls, acked, forgot>>

Commit(t) ==
  /\ At(t, "have")
  /\ \E whole \in Writes(th[t].kind) :
       journal' = [journal EXCEPT ![th[t].handle] = Append(@, Part(t, whole, whole))]
  /\ th' = [th EXCEPT ![t].pc = "persist"]
  /\ UNCHANGED <<cached, expired, disk, made, durable, calls, acked, forgot>>

\* The call returns, dropping its handle: batch.commit() or the encoding of an event
\* failed, or the write was committed but its persist failed (the caller gets Err, yet
\* readers see the batch), or the call was a read.
ReturnUnacked(t) ==
  /\ At(t, "have") \/ At(t, "persist")
  /\ th' = [th EXCEPT ![t] = Idle]
  /\ UNCHANGED <<store, calls, acked, forgot>>

Acked(t) == acked' = acked \cup {[call |-> th[t].call, did |-> th[t].did]}

\* A slip: Ok without the persist.
PersistSkipped(t) ==
  /\ At(t, "persist")
  /\ Acked(t)
  /\ th' = [th EXCEPT ![t] = Idle]
  /\ UNCHANGED <<store, calls, forgot>>

\* persist(SyncAll) syncs whatever is in the journal by now, other threads' batches too.
Persist(t) ==
  /\ At(t, "persist")
  /\ durable' = [durable EXCEPT ![th[t].handle] = Len(journal[th[t].handle])]
  /\ Acked(t)
  /\ th' = [th EXCEPT ![t] = Idle]
  /\ UNCHANGED <<cached, expired, disk, made, journal, calls, forgot>>

-----------------------------------------------------------------------------
(***************************************************************************)
(* forget: two steps, between which other threads may use the pool.        *)
(***************************************************************************)

\* A slip: the directory goes, the pool entry stays.
InvalidateNothing(t) ==
  /\ At(t, "get") /\ th[t].kind = "forget"
  /\ th' = [th EXCEPT ![t].pc = "remove"]
  /\ UNCHANGED <<store, calls, acked, forgot>>

\* invalidate; run_pending_tasks then flushes the entry on this thread (Flushed).
Invalidate(t) ==
  /\ At(t, "get") /\ th[t].kind = "forget"
  /\ Dropped(th[t].did)
  /\ th' = [th EXCEPT ![t].pc = "remove", ![t].flushing = cached[th[t].did]]
  /\ UNCHANGED <<disk, made, journal, durable, calls, acked, forgot>>

\* remove_dir_all, whether or not a database is open in the directory.
Remove(t) ==
  LET d == th[t].did
  IN  /\ At(t, "remove")
      /\ disk' = [disk EXCEPT ![DirOf[d]] = None]
      /\ forgot' = [forgot EXCEPT ![d] = calls]
      /\ th' = [th EXCEPT ![t] = Idle]
      /\ UNCHANGED <<cached, expired, made, journal, durable, calls, acked>>

RemoveFails(t) ==
  /\ At(t, "remove")
  /\ th' = [th EXCEPT ![t] = Idle]
  /\ UNCHANGED <<store, calls, acked, forgot>>

-----------------------------------------------------------------------------

\* A slip: the sync mark does not hold what it promised.
CrashForgetful ==
  /\ th' = [t \in Thread |-> Idle]
  /\ cached' = [d \in Did |-> None] /\ expired' = {}
  /\ \E cut \in [Inc -> 0 .. MaxCall] :
       /\ \A i \in Inc : cut[i] <= Len(journal[i])
       /\ journal' = [i \in Inc |-> SubSeq(journal[i], 1, cut[i])]
  /\ UNCHANGED <<disk, made, durable, calls, acked, forgot>>

\* The process or the machine goes down: the pool and the calls are gone, each journal
\* keeps its synced batches and some of those after them.
Crash ==
  /\ th' = [t \in Thread |-> Idle]
  /\ cached' = [d \in Did |-> None] /\ expired' = {}
  /\ \E cut \in [Inc -> 0 .. MaxCall] :
       /\ \A i \in Inc : durable[i] <= cut[i] /\ cut[i] <= Len(journal[i])
       /\ journal' = [i \in Inc |-> SubSeq(journal[i], 1, cut[i])]
  /\ UNCHANGED <<disk, made, durable, calls, acked, forgot>>

Next ==
  \/ \E t \in Thread :
       \/ \E kind \in Kind, d \in Did : Call(t, kind, d)
       \/ GetCached(t) \/ StartOpen(t)
       \/ OpenExisting(t) \/ OpenNew(t) \/ OpenCollides(t)
       \/ \E d \in Did : Evict(t, d)
       \/ Flushed(t)
       \/ Commit(t) \/ Persist(t) \/ ReturnUnacked(t)
       \/ Invalidate(t) \/ Remove(t) \/ RemoveFails(t)
  \/ \E d \in Did : Expire(d)
  \/ Crash

Spec == Init /\ [][Next]_vars

-----------------------------------------------------------------------------
(***************************************************************************)
(* Properties.                                                             *)
(***************************************************************************)

Stored(call, d) ==
  LET i == disk[DirOf[d]]
  IN  i # None /\ \E n \in 1 .. durable[i] : journal[i][n].call = call

\* append_events and commit_fold are durable: a write that returned Ok is in the synced
\* part of the journal a reopen of its DID will read, whatever was evicted, reopened or
\* lost to a crash since, unless a forget of the DID returned after the write was called.
AckedSurvives ==
  \A a \in acked : a.call > forgot[a.did] => Stored(a.call, a.did)

\* commit_fold is atomic: whatever a crash now would leave of a journal holds all that a
\* fold wrote or none of it, so the cursor and the snapshot are never ahead of the log.
FoldAllOrNothing ==
  \A i \in Inc : \A cut \in durable[i] .. Len(journal[i]) :
    \A n \in 1 .. cut :
      UNION {journal[i][m].parts : m \in {k \in 1 .. cut :
               journal[i][k].call = journal[i][n].call}} = journal[i][n].whole

\* t is about to open a directory whose lock a live database holds.
Colliding(t) ==
  LET i == disk[DirOf[th[t].did]]
  IN  th[t].pc = "open" /\ i # None /\ Live(i)

\* The pool has let go of t's database and another thread still uses it.
EvictedInUse(t) ==
  LET i == disk[DirOf[th[t].did]]
  IN  /\ \A d \in Did : cached[d] # i
      /\ \E u \in Thread \ {t} : i \in {th[u].handle, th[u].flushing}

\* The pool hides t's database as expired and has not dropped it yet.
HiddenInPool(t) ==
  th[t].did \in expired /\ cached[th[t].did] = disk[DirOf[th[t].did]]

\* Concurrent first touches of a DID share one database: an open runs into the
\* directory's lock only when the pool has let go of a handle that another thread still
\* uses, or hides the handle as expired and holds it itself.  No interleaving of opens,
\* evictions, expiry, forgets and crashes collides without one of the two.
CollisionHasACause == \A t \in Thread : Colliding(t) => EvictedInUse(t) \/ HiddenInPool(t)
=============================================================================
