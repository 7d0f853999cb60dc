---------------------------- MODULE PhaseProofs ----------------------------
(***************************************************************************)
(* Proofs about Phase, for any machines, any number of jobs and any number *)
(* of runs: types, that a finished job stays finished, and what failures   *)
(* may cost.                                                               *)
(***************************************************************************)
EXTENDS Phase, SequenceTheorems, TLAPS

(***************************************************************************)
(* The invariant, job by job.  A job that exists has a machine and has     *)
(* run; it has a result only when it has ended; it owes an effect exactly  *)
(* while it awaits one; and the effects not performed are at most one for  *)
(* each run that failed, and one that is under way.                        *)
(***************************************************************************)
Open(r) == IF r.at = "effect" \/ r.result = "driver" THEN 1 ELSE 0

Shape(r) ==
  /\ r.at # "absent" => r.machine \in Machine /\ r.phase \in PhaseName
  /\ r.at # "ended" => r.result = "pending"
  /\ r.at = "effect" => r.owed \in Effect
  /\ r.at = "event" => r.phase \notin Terminal

\* done of all effects performed, in n runs, one of them open.
Within(done, all, n, open) == done <= all /\ all - done <= n - 1 + open /\ n >= 1

Paid(r) ==
  /\ r.at # "absent" => Within(Len(r.performed), Len(r.emitted), r.runs, Open(r))
  /\ r.at = "effect" => Len(r.performed) < Len(r.emitted)

JobInv(r) == r \in JobRecord /\ Shape(r) /\ Paid(r)

Inv == job \in [Job -> JobRecord] /\ \A j \in Job : JobInv(job[j])

\* The names a transition mentions.
LEMMA TransitionNames ==
  \A t \in Transition : /\ t.to \in PhaseName
                        /\ t.emit # NoEffect => t.emit \in Effect
BY DEF PhaseName, Effect

LEMMA StartIsPhase == \A m \in Machine : Start[m] \in PhaseName
BY DEF PhaseName

\* The arithmetic of the steps.
LEMMA WithinMoves ==
  ASSUME NEW d \in Nat, NEW a \in Nat, NEW n \in Nat
  PROVE  /\ Within(d, a, n, 0) => Within(d, a + 1, n, 1) /\ d < a + 1 /\ Within(d, a, n, 1)
         /\ Within(d, a, n, 1) /\ d < a => Within(d + 1, a, n, 0)
         /\ Within(d, a, n, 0) \/ Within(d, a, n, 1) => Within(d, a, n + 1, 0)
BY DEF Within

LEMMA NoJobInv == JobInv(NoJob)
<1>1. NoJob \in JobRecord
  BY MachineAssumption DEF NoJob, JobRecord, At, Result
<1>2. QED
  BY <1>1 DEF NoJob, JobInv, Shape, Paid

\* The lengths and the run count are numbers.
LEMMA Counts ==
  ASSUME NEW r \in JobRecord
  PROVE  /\ Len(r.performed) \in Nat /\ Len(r.emitted) \in Nat /\ r.runs \in Nat
         /\ r.performed \in Seq(Effect) /\ r.emitted \in Seq(Effect)
<1>1. r.performed \in Seq(Effect) /\ r.emitted \in Seq(Effect) /\ r.runs \in 0 .. MaxRuns
  BY DEF JobRecord
<1>2. QED
  BY <1>1, MachineAssumption

\* What one job does leaves the others alone.
LEMMA OneMoves ==
  ASSUME Inv, NEW j \in Job, NEW r, JobInv(r), job' = [job EXCEPT ![j] = r]
  PROVE  Inv'
<1>1. r \in JobRecord
  BY DEF JobInv
<1>2. job' \in [Job -> JobRecord]
  BY <1>1 DEF Inv
<1>3. \A i \in Job : job'[i] = IF i = j THEN r ELSE job[i]
  BY DEF Inv
<1>4. QED
  BY <1>2, <1>3 DEF Inv

-----------------------------------------------------------------------------
(***************************************************************************)
(* `run` between two awaits.                                               *)
(***************************************************************************)

\* The head of the loop keeps the invariant of a job that has a machine and has paid for
\* its effects but one for each earlier run.
LEMMA LoopInv ==
  ASSUME NEW r \in JobRecord, r.machine \in Machine, r.phase \in PhaseName,
         r.result = "pending", Within(Len(r.performed), Len(r.emitted), r.runs, 0)
  PROVE  JobInv(Loop(r))
<1> DEFINE ended == [r EXCEPT !.at = "ended", !.owed = NoEffect, !.result = "final"]
           event == [r EXCEPT !.at = "event", !.owed = NoEffect]
<1>1. ended \in JobRecord /\ event \in JobRecord
  BY DEF JobRecord, At, Result
<1>2. /\ ended.at = "ended" /\ ended.machine = r.machine /\ ended.phase = r.phase
      /\ ended.runs = r.runs /\ ended.emitted = r.emitted /\ ended.performed = r.performed
      /\ ended.result = "final"
  BY DEF JobRecord
<1>3. /\ event.at = "event" /\ event.machine = r.machine /\ event.phase = r.phase
      /\ event.runs = r.runs /\ event.emitted = r.emitted /\ event.performed = r.performed
      /\ event.result = "pending"
  BY DEF JobRecord
<1>4. Loop(r) = IF r.phase \in Terminal THEN ended ELSE event
  BY DEF Loop
<1> HIDE DEF ended, event
<1>5. Shape(ended) /\ (r.phase \notin Terminal => Shape(event))
  BY <1>2, <1>3 DEF Shape
<1>6. Open(ended) = 0 /\ Open(event) = 0
  BY <1>2, <1>3 DEF Open
<1>7. Paid(ended) /\ Paid(event)
  BY <1>2, <1>3, <1>6 DEF Paid
<1>8. QED
  BY <1>1, <1>4, <1>5, <1>7 DEF JobInv

\* consume: a silent edge goes round the loop, an emitting one owes its effect.
LEMMA AdvanceInv ==
  ASSUME NEW r, JobInv(r), r.at = "event", NEW t \in Transition
  PROVE  JobInv(Advance(r, t))
<1>1. r \in JobRecord /\ r.machine \in Machine /\ r.result = "pending"
  BY DEF JobInv, Shape
<1>2. /\ r.emitted \in Seq(Effect) /\ r.runs \in Nat
      /\ Len(r.emitted) \in Nat /\ Len(r.performed) \in Nat
  BY <1>1, Counts
<1>3. Within(Len(r.performed), Len(r.emitted), r.runs, 0)
  <2>1. Open(r) = 0
    BY <1>1 DEF Open
  <2>2. QED
    BY <2>1 DEF JobInv, Paid
<1>4. t.to \in PhaseName /\ (t.emit # NoEffect => t.emit \in Effect)
  BY TransitionNames
<1>5. CASE t.emit = NoEffect
  <2> DEFINE s == [r EXCEPT !.phase = t.to]
  <2>1. s \in JobRecord
    BY <1>1, <1>4 DEF JobRecord
  <2>2. /\ s.machine = r.machine /\ s.phase = t.to /\ s.runs = r.runs
        /\ s.result = r.result /\ s.performed = r.performed /\ s.emitted = r.emitted
    BY <1>1 DEF JobRecord
  <2>3. Advance(r, t) = Loop(s)
    BY <1>5 DEF Advance
  <2> HIDE DEF s
  <2>4. QED
    BY <1>1, <1>3, <1>4, <2>1, <2>2, <2>3, LoopInv
<1>6. CASE t.emit # NoEffect
  <2> DEFINE owing == [r EXCEPT !.phase = t.to, !.at = "effect", !.owed = t.emit,
                                !.emitted = Append(@, t.emit)]
  <2>1. Advance(r, t) = owing
    BY <1>6 DEF Advance
  <2>2. /\ Append(r.emitted, t.emit) \in Seq(Effect)
        /\ Len(Append(r.emitted, t.emit)) = Len(r.emitted) + 1
    BY <1>2, <1>4, <1>6
  <2>3. owing \in JobRecord
    BY <1>1, <1>4, <1>6, <2>2 DEF JobRecord, At
  <2>4. /\ owing.at = "effect" /\ owing.machine = r.machine /\ owing.phase = t.to
        /\ owing.runs = r.runs /\ owing.result = "pending" /\ owing.owed = t.emit
        /\ owing.performed = r.performed /\ Len(owing.emitted) = Len(r.emitted) + 1
    BY <1>1, <2>2 DEF JobRecord
  <2>5. Open(owing) = 1
    BY <2>4 DEF Open
  <2> HIDE DEF owing
  <2>6. Shape(owing)
    BY <1>1, <1>4, <1>6, <2>4 DEF Shape
  <2>7. /\ Within(Len(r.performed), Len(r.emitted) + 1, r.runs, 1)
        /\ Len(r.performed) < Len(r.emitted) + 1
    BY <1>2, <1>3, WithinMoves
  <2>8. Paid(owing)
    BY <2>4, <2>5, <2>7 DEF Paid
  <2>9. QED
    BY <2>1, <2>3, <2>6, <2>8 DEF JobInv
<1>7. QED
  BY <1>5, <1>6

\* A failed run ends one effect short of the emitted ones at most.
LEMMA EndedInv ==
  ASSUME NEW r \in JobRecord, r.machine \in Machine, r.phase \in PhaseName,
         NEW why \in {"driver", "stuck"},
         Within(Len(r.performed), Len(r.emitted), r.runs, IF why = "driver" THEN 1 ELSE 0)
  PROVE  JobInv(Ended(r, why))
<1> DEFINE e == Ended(r, why)
<1>1. e \in JobRecord
  BY DEF Ended, JobRecord, At, Result
<1>2. /\ e.at = "ended" /\ e.machine = r.machine /\ e.phase = r.phase /\ e.runs = r.runs
      /\ e.emitted = r.emitted /\ e.performed = r.performed /\ e.result = why
  BY DEF Ended, JobRecord
<1> HIDE DEF e
<1>3. Open(e) = IF why = "driver" THEN 1 ELSE 0
  BY <1>2 DEF Open
<1>4. Paid(e)
  BY <1>2, <1>3 DEF Paid
<1>5. Shape(e)
  BY <1>2 DEF Shape
<1>6. QED
  BY <1>1, <1>4, <1>5 DEF JobInv, e

-----------------------------------------------------------------------------
(***************************************************************************)
(* The steps.                                                              *)
(***************************************************************************)

LEMMA SpawnInv ==
  ASSUME Inv, NEW j \in Job, NEW m \in Machine, Spawn(j, m)
  PROVE  Inv'
<1>1. Start[m] \in PhaseName
  BY StartIsPhase
<1>2. NoJob \in JobRecord /\ 1 \in 0 .. MaxRuns
  BY NoJobInv, MachineAssumption DEF JobInv
<1>3. Spawned(m) \in JobRecord
  BY <1>1, <1>2 DEF Spawned, JobRecord, At
<1>4. /\ Spawned(m).at = "queued" /\ Spawned(m).machine = m /\ Spawned(m).phase = Start[m]
      /\ Spawned(m).runs = 1 /\ Spawned(m).result = "pending"
      /\ Spawned(m).emitted = <<>> /\ Spawned(m).performed = <<>>
  BY DEF Spawned, NoJob
<1>5. Shape(Spawned(m))
  BY <1>1, <1>4 DEF Shape
<1>6. Paid(Spawned(m))
  BY <1>4 DEF Paid, Within, Open
<1>7. QED
  BY <1>3, <1>5, <1>6, OneMoves DEF Spawn, JobInv

LEMMA FirstPollInv ==
  ASSUME Inv, NEW j \in Job, FirstPoll(j)
  PROVE  Inv'
<1>1. JobInv(job[j]) /\ job[j].at = "queued" /\ job' = [job EXCEPT ![j] = Loop(job[j])]
  BY DEF Inv, FirstPoll
<1>2. /\ job[j] \in JobRecord /\ job[j].machine \in Machine /\ job[j].phase \in PhaseName
      /\ job[j].result = "pending"
  BY <1>1 DEF JobInv, Shape
<1>3. Open(job[j]) = 0
  BY <1>1, <1>2 DEF Open
<1>4. Within(Len(job[j].performed), Len(job[j].emitted), job[j].runs, 0)
  BY <1>1, <1>3 DEF JobInv, Paid
<1>5. JobInv(Loop(job[j]))
  BY <1>2, <1>4, LoopInv
<1>6. QED
  BY <1>1, <1>5, OneMoves

\* What is known of a job that awaits an event.
LEMMA AwaitingEvent ==
  ASSUME NEW r, JobInv(r), r.at = "event", NEW why \in {"driver", "stuck"}
  PROVE  JobInv(Ended(r, why))
<1>1. /\ r \in JobRecord /\ r.machine \in Machine /\ r.phase \in PhaseName
      /\ r.result = "pending"
  BY DEF JobInv, Shape
<1>2. Open(r) = 0
  BY <1>1 DEF Open
<1>3. Within(Len(r.performed), Len(r.emitted), r.runs, 0)
  BY <1>2 DEF JobInv, Paid
<1>4. Within(Len(r.performed), Len(r.emitted), r.runs, 1)
  BY <1>1, <1>3, Counts, WithinMoves
<1>5. QED
  BY <1>1, <1>3, <1>4, EndedInv

LEMMA NextEventInv ==
  ASSUME Inv, NEW j \in Job, NEW i \in Input, NextEvent(j, i)
  PROVE  Inv'
<1>1. JobInv(job[j]) /\ job[j].at = "event"
  BY DEF Inv, NextEvent
<1>2. ASSUME NEW t \in Edges(job[j], i), job' = [job EXCEPT ![j] = Advance(job[j], t)]
      PROVE  Inv'
  BY <1>1, <1>2, AdvanceInv, OneMoves DEF Edges
<1>3. CASE job' = [job EXCEPT ![j] = Ended(job[j], "stuck")]
  BY <1>1, <1>3, AwaitingEvent, OneMoves
<1>4. QED
  BY <1>2, <1>3 DEF NextEvent

LEMMA NextEventFailsInv ==
  ASSUME Inv, NEW j \in Job, NextEventFails(j)
  PROVE  Inv'
<1>1. JobInv(job[j]) /\ job[j].at = "event"
  BY DEF Inv, NextEventFails
<1>2. QED
  BY <1>1, AwaitingEvent, OneMoves DEF NextEventFails

\* What is known of a job that awaits its effect, and of the same job once that is done.
LEMMA AwaitingEffect ==
  ASSUME NEW r, JobInv(r), r.at = "effect"
  PROVE  /\ r \in JobRecord /\ r.machine \in Machine /\ r.phase \in PhaseName
         /\ r.result = "pending" /\ r.owed \in Effect
         /\ Within(Len(r.performed), Len(r.emitted), r.runs, 1)
         /\ Within(Len(r.performed) + 1, Len(r.emitted), r.runs, 0)
<1>1. /\ r \in JobRecord /\ r.machine \in Machine /\ r.phase \in PhaseName
      /\ r.result = "pending" /\ r.owed \in Effect
  BY DEF JobInv, Shape
<1>2. Open(r) = 1
  BY DEF Open
<1>3. /\ Within(Len(r.performed), Len(r.emitted), r.runs, 1)
      /\ Len(r.performed) < Len(r.emitted)
  BY <1>2 DEF JobInv, Paid
<1>4. Within(Len(r.performed) + 1, Len(r.emitted), r.runs, 0)
  BY <1>1, <1>3, Counts, WithinMoves
<1>5. QED
  BY <1>1, <1>3, <1>4

\* The owed effect is one more performed.
LEMMA Performs ==
  ASSUME NEW r, JobInv(r), r.at = "effect", NEW s, s = Performed(r, <<r.owed>>)
  PROVE  /\ s \in JobRecord /\ s.machine \in Machine /\ s.phase \in PhaseName
         /\ s.result = "pending"
         /\ Within(Len(s.performed), Len(s.emitted), s.runs, 0)
         /\ Within(Len(s.performed), Len(s.emitted), s.runs, 1)
<1>1. /\ r \in JobRecord /\ r.machine \in Machine /\ r.phase \in PhaseName
      /\ r.result = "pending" /\ r.owed \in Effect
      /\ Within(Len(r.performed) + 1, Len(r.emitted), r.runs, 0)
  BY AwaitingEffect
<1>2. r.performed \in Seq(Effect)
  BY <1>1, Counts
<1>3. /\ r.performed \o <<r.owed>> \in Seq(Effect)
      /\ Len(r.performed \o <<r.owed>>) = Len(r.performed) + 1
  BY <1>1, <1>2
<1>4. /\ s \in JobRecord /\ s.machine = r.machine /\ s.phase = r.phase /\ s.runs = r.runs
      /\ s.result = r.result /\ s.emitted = r.emitted
      /\ Len(s.performed) = Len(r.performed) + 1
  BY <1>1, <1>3 DEF JobRecord, Performed
<1>5. Within(Len(s.performed), Len(s.emitted), s.runs, 0)
  BY <1>1, <1>4
<1>6. Within(Len(s.performed), Len(s.emitted), s.runs, 1)
  BY <1>4, <1>5, Counts, WithinMoves
<1>7. QED
  BY <1>1, <1>4, <1>5, <1>6

LEMMA EffectDoneInv ==
  ASSUME Inv, NEW j \in Job, EffectDone(j)
  PROVE  Inv'
<1>1. JobInv(job[j]) /\ job[j].at = "effect"
  BY DEF Inv, EffectDone
<1>2. PICK s : s = Performed(job[j], <<job[j].owed>>)
  OBVIOUS
<1>3. JobInv(Loop(s))
  BY <1>1, <1>2, Performs, LoopInv
<1>4. job' = [job EXCEPT ![j] = Loop(s)]
  BY <1>2 DEF EffectDone
<1>5. QED
  BY <1>3, <1>4, OneMoves

LEMMA EffectFailsInv ==
  ASSUME Inv, NEW j \in Job, EffectFails(j)
  PROVE  Inv'
<1>1. JobInv(job[j]) /\ job[j].at = "effect"
  BY DEF Inv, EffectFails
<1>2. PICK seen \in {<<>>, <<job[j].owed>>} :
        job' = [job EXCEPT ![j] = Ended(Performed(job[j], seen), "driver")]
  BY DEF EffectFails
<1>3. PICK s : s = Performed(job[j], seen)
  OBVIOUS
<1>4. JobInv(Ended(s, "driver"))
  <2>1. CASE seen = <<>>
    <3>1. job[j].performed \in Seq(Effect) /\ job[j] \in JobRecord
      BY <1>1, AwaitingEffect, Counts
    <3>2. job[j].performed \o seen = job[j].performed
      BY <2>1, <3>1
    <3>3. s = job[j]
      BY <1>3, <3>1, <3>2 DEF JobRecord, Performed
    <3>4. QED
      BY <1>1, <3>3, AwaitingEffect, EndedInv
  <2>2. CASE seen = <<job[j].owed>>
    BY <1>1, <1>3, <2>2, Performs, EndedInv
  <2>3. QED
    BY <2>1, <2>2
<1>5. QED
  BY <1>2, <1>3, <1>4, OneMoves

\* A run more makes room for the effect the failed one skipped.
LEMMA ResumeInv ==
  ASSUME Inv, NEW j \in Job, Resume(j)
  PROVE  Inv'
<1> DEFINE r == job[j]
           s == Resumed(r)
<1>1. JobInv(r) /\ r.at = "ended" /\ r.runs < MaxRuns /\ job' = [job EXCEPT ![j] = s]
  BY DEF Inv, Resume
<1> HIDE DEF r
<1>2. /\ r \in JobRecord /\ r.machine \in Machine /\ r.phase \in PhaseName
      /\ Within(Len(r.performed), Len(r.emitted), r.runs, Open(r))
  BY <1>1 DEF JobInv, Shape, Paid
<1>3. Len(r.performed) \in Nat /\ Len(r.emitted) \in Nat /\ r.runs \in Nat
  BY <1>2, Counts
<1>4. r.runs + 1 \in 0 .. MaxRuns
  BY <1>1, <1>3, MachineAssumption
<1>5. s \in JobRecord
  BY <1>2, <1>4 DEF JobRecord, At, Result, Resumed
<1>6. /\ s.at = "queued" /\ s.machine = r.machine /\ s.phase = r.phase /\ s.runs = r.runs + 1
      /\ s.result = "pending" /\ s.emitted = r.emitted /\ s.performed = r.performed
  BY <1>2 DEF JobRecord, Resumed
<1> HIDE DEF s
<1>7. Open(s) = 0 /\ Open(r) \in {0, 1}
  BY <1>6 DEF Open
<1>8. Within(Len(r.performed), Len(r.emitted), r.runs + 1, 0)
  BY <1>2, <1>3, <1>7, WithinMoves
<1>9. Paid(s)
  BY <1>6, <1>7, <1>8 DEF Paid
<1>10. Shape(s)
  BY <1>2, <1>6 DEF Shape
<1>11. QED
  BY <1>1, <1>5, <1>9, <1>10, OneMoves DEF JobInv

LEMMA InitInv == Init => Inv
BY NoJobInv DEF Init, Inv, JobInv

LEMMA StepInv == Inv /\ [Next]_vars => Inv'
<1> SUFFICES ASSUME Inv, [Next]_vars PROVE Inv'
  OBVIOUS
<1>1. ASSUME NEW j \in Job, NEW m \in Machine, Spawn(j, m) PROVE Inv'
  BY <1>1, SpawnInv
<1>2. ASSUME NEW j \in Job, NEW i \in Input, NextEvent(j, i) PROVE Inv'
  BY <1>2, NextEventInv
<1>3. ASSUME NEW j \in Job, FirstPoll(j) \/ NextEventFails(j) PROVE Inv'
  BY <1>3, FirstPollInv, NextEventFailsInv
<1>4. ASSUME NEW j \in Job, EffectDone(j) \/ EffectFails(j) \/ Resume(j) PROVE Inv'
  BY <1>4, EffectDoneInv, EffectFailsInv, ResumeInv
<1>5. CASE UNCHANGED vars
  BY <1>5 DEF vars, Inv
<1>6. QED
  BY <1>1, <1>2, <1>3, <1>4, <1>5 DEF Next

LEMMA AlwaysInv == Spec => []Inv
BY InitInv, StepInv, PTL DEF Spec

-----------------------------------------------------------------------------

\* Every job stays a job: only emitted effects are owed and performed.
THEOREM TypeCorrect == Spec => []TypeOK
<1>1. Inv => TypeOK
  BY DEF Inv, TypeOK
<1>2. QED
  BY <1>1, AlwaysInv, PTL

\* One step of any job leaves a finished one finished: its poll meets a terminal phase.
LEMMA FinishedStays ==
  ASSUME Inv, NEW j \in Job, NEW p \in Terminal, Finished(j, p), [Next]_vars
  PROVE  Finished(j, p)'
<1>1. /\ JobInv(job[j]) /\ job[j].at \in {"queued", "ended"} /\ job[j].phase = p
      /\ job[j] \in JobRecord
  BY DEF Inv, JobInv, Shape, Finished
<1>2. ASSUME NEW i \in Job, NEW r, job' = [job EXCEPT ![i] = r],
             i = j => r.phase = p /\ (r.at = "queued" \/ r.result = "final")
      PROVE  Finished(j, p)'
  <2>1. job'[j] = IF i = j THEN r ELSE job[j]
    BY <1>2 DEF Inv
  <2>2. QED
    BY <1>2, <2>1 DEF Finished
<1>3. ASSUME NEW i \in Job, NEW m \in Machine, Spawn(i, m) PROVE Finished(j, p)'
  <2>1. i # j
    BY <1>1, <1>3 DEF Spawn
  <2>2. QED
    BY <1>2, <1>3, <2>1 DEF Spawn
<1>4. ASSUME NEW i \in Job, FirstPoll(i) PROVE Finished(j, p)'
  <2>1. i = j => Loop(job[i]).phase = p /\ Loop(job[i]).result = "final"
    BY <1>1 DEF Loop, JobRecord
  <2>2. QED
    BY <1>2, <1>4, <2>1 DEF FirstPoll
<1>5. ASSUME NEW i \in Job, NEW a \in Input, NextEvent(i, a) PROVE Finished(j, p)'
  <2>1. i # j
    BY <1>1, <1>5 DEF NextEvent
  <2>2. PICK r : job' = [job EXCEPT ![i] = r]
    BY <1>5 DEF NextEvent
  <2>3. QED
    BY <1>2, <2>1, <2>2
<1>6. ASSUME NEW i \in Job, NextEventFails(i) \/ EffectDone(i) \/ EffectFails(i)
      PROVE  Finished(j, p)'
  <2>1. i # j
    BY <1>1, <1>6 DEF NextEventFails, EffectDone, EffectFails
  <2>2. PICK r : job' = [job EXCEPT ![i] = r]
    BY <1>6 DEF NextEventFails, EffectDone, EffectFails
  <2>3. QED
    BY <1>2, <2>1, <2>2
<1>7. ASSUME NEW i \in Job, Resume(i) PROVE Finished(j, p)'
  <2>1. i = j => Resumed(job[i]).phase = p /\ Resumed(job[i]).at = "queued"
    BY <1>1 DEF Resumed, JobRecord
  <2>2. QED
    BY <1>2, <1>7, <2>1 DEF Resume
<1>8. CASE UNCHANGED vars
  BY <1>8 DEF vars, Finished
<1>9. QED
  BY <1>3, <1>4, <1>5, <1>6, <1>7, <1>8 DEF Next

\* For any machine: a job that is resumed in a terminal phase, however it got there and
\* however often, asks its driver nothing more and returns that phase's final value.
THEOREM FinishesForGood == Spec => FinishedForGood
<1>1. SUFFICES ASSUME NEW j \in Job, NEW p \in Terminal
               PROVE  Spec => [](Finished(j, p) => []Finished(j, p))
  BY DEF FinishedForGood
<1>2. Inv /\ Finished(j, p) /\ [Next]_vars => Finished(j, p)'
  BY FinishedStays
<1>3. QED
  BY <1>2, AlwaysInv, PTL DEF Spec

\* For any machine, with cycles too: a failed run costs at most one effect, and a job
\* that ends well on its first run has performed all it emitted.
THEOREM FailuresCostOne == Spec => []OneGapPerFailure
<1>1. Inv => OneGapPerFailure
  BY DEF Inv, JobInv, Paid, Within, Open, OneGapPerFailure
<1>2. QED
  BY <1>1, AlwaysInv, PTL

-----------------------------------------------------------------------------
(***************************************************************************)
(* No effect twice.  This needs machines that go forward: the phases have  *)
(* depths that grow along every edge, and the edges of a machine that emit *)
(* the same effect lead equally deep.                                      *)
(***************************************************************************)
Forward(Depth) ==
  /\ Depth \in [PhaseName -> Nat]
  /\ \A t \in Transition : t.from \in PhaseName /\ Depth[t.from] < Depth[t.to]
  /\ \A t, u \in Transition :
       t.of = u.of /\ t.emit = u.emit /\ t.emit # NoEffect => Depth[t.to] = Depth[u.to]

\* The job is at or past the phase effect e leads to.
Past(Depth, r, e) ==
  \E t \in Transition : t.of = r.machine /\ t.emit = e /\ Depth[t.to] <= Depth[r.phase]

Distinct(r) ==
  \A a, b \in DOMAIN r.performed : r.performed[a] = r.performed[b] => a = b

Unperformed(r, e) == \A a \in DOMAIN r.performed : r.performed[a] # e

\* What was performed lies behind, once each; what is owed was not performed yet.
Once(Depth, r) ==
  /\ Distinct(r)
  /\ \A a \in DOMAIN r.performed : Past(Depth, r, r.performed[a])
  /\ r.at = "effect" => Past(Depth, r, r.owed) /\ Unperformed(r, r.owed)

OnceInv(Depth) == \A j \in Job : Once(Depth, job[j])

\* A job that stays in its phase, performs nothing and owes nothing.
LEMMA StaysOnce ==
  ASSUME NEW Depth, NEW r, Once(Depth, r), NEW s, s.machine = r.machine, s.phase = r.phase,
         s.performed = r.performed, s.at # "effect"
  PROVE  Once(Depth, s)
BY DEF Once, Distinct, Past

LEMMA LoopKeeps ==
  ASSUME NEW r \in JobRecord
  PROVE  /\ Loop(r).machine = r.machine /\ Loop(r).phase = r.phase
         /\ Loop(r).performed = r.performed /\ Loop(r).at # "effect"
BY DEF Loop, JobRecord

LEMMA EndedKeeps ==
  ASSUME NEW r \in JobRecord, NEW why
  PROVE  LET s == Ended(r, why)
         IN  /\ s.machine = r.machine /\ s.phase = r.phase
             /\ s.performed = r.performed /\ s.at # "effect"
BY DEF Ended, JobRecord

\* An edge leads past everything performed, so what it emits was not performed.
LEMMA AdvanceOnce ==
  ASSUME NEW Depth, Forward(Depth), NEW r, JobInv(r), Once(Depth, r), r.at = "event",
         NEW t \in Transition, t.of = r.machine, t.from = r.phase
  PROVE  Once(Depth, Advance(r, t))
<1>1. /\ r \in JobRecord /\ r.performed \in Seq(Effect) /\ r.emitted \in Seq(Effect)
      /\ t.to \in PhaseName /\ Depth[t.to] \in Nat
      /\ Depth[r.phase] \in Nat /\ Depth[r.phase] < Depth[t.to]
      /\ \A u \in Transition : u.to \in PhaseName /\ Depth[u.to] \in Nat
  BY Counts, TransitionNames DEF JobInv, Forward
<1>2. ASSUME NEW s, s.machine = r.machine, s.phase = t.to, NEW e, Past(Depth, r, e)
      PROVE  Past(Depth, s, e)
  <2>1. PICK u \in Transition : u.of = r.machine /\ u.emit = e /\ Depth[u.to] <= Depth[r.phase]
    BY <1>2 DEF Past
  <2>2. Depth[u.to] <= Depth[s.phase]
    BY <1>1, <1>2, <2>1
  <2>3. QED
    BY <1>2, <2>1, <2>2 DEF Past
<1>3. CASE t.emit = NoEffect
  <2> DEFINE s == [r EXCEPT !.phase = t.to]
  <2>1. /\ s \in JobRecord /\ s.machine = r.machine /\ s.phase = t.to
        /\ s.performed = r.performed /\ s.at = "event"
    BY <1>1 DEF JobRecord
  <2>2. Advance(r, t) = Loop(s)
    BY <1>3 DEF Advance
  <2> HIDE DEF s
  <2>3. Once(Depth, s)
    BY <1>2, <2>1 DEF Once, Distinct
  <2>4. QED
    BY <2>1, <2>2, <2>3, LoopKeeps, StaysOnce
<1>4. CASE t.emit # NoEffect
  <2> DEFINE s == [r EXCEPT !.phase = t.to, !.at = "effect", !.owed = t.emit,
                            !.emitted = Append(@, t.emit)]
  <2>1. /\ s.machine = r.machine /\ s.phase = t.to /\ s.performed = r.performed
        /\ s.owed = t.emit
    BY <1>1 DEF JobRecord
  <2>2. Advance(r, t) = s
    BY <1>4 DEF Advance
  <2> HIDE DEF s
  <2>3. Past(Depth, s, s.owed)
    BY <1>1, <2>1 DEF Past
  <2>4. Unperformed(s, s.owed)
    <3> SUFFICES ASSUME NEW a \in DOMAIN r.performed, r.performed[a] = t.emit PROVE FALSE
      BY <2>1 DEF Unperformed
    <3>1. PICK u \in Transition :
            u.of = r.machine /\ u.emit = t.emit /\ Depth[u.to] <= Depth[r.phase]
      BY DEF Once, Past
    <3>2. Depth[u.to] = Depth[t.to]
      BY <1>4, <3>1 DEF Forward
    <3>3. QED
      BY <1>1, <3>1, <3>2
  <2>5. \A a \in DOMAIN s.performed : Past(Depth, s, s.performed[a])
    BY <1>2, <2>1 DEF Once
  <2>6. Distinct(s)
    BY <2>1 DEF Once, Distinct
  <2>7. QED
    BY <2>2, <2>3, <2>4, <2>5, <2>6 DEF Once
<1>5. QED
  BY <1>3, <1>4

\* The owed effect takes its place behind the performed ones.
LEMMA PerformOnce ==
  ASSUME NEW Depth, NEW r, JobInv(r), Once(Depth, r), r.at = "effect",
         NEW s, s.machine = r.machine, s.phase = r.phase, s.at # "effect",
         s.performed = r.performed \o <<r.owed>>
  PROVE  Once(Depth, s)
<1>1. r.performed \in Seq(Effect) /\ r.owed \in Effect
  BY AwaitingEffect, Counts
<1>2. /\ DOMAIN s.performed = 1 .. Len(r.performed) + 1
      /\ DOMAIN r.performed = 1 .. Len(r.performed) /\ Len(r.performed) \in Nat
      /\ \A a \in 1 .. Len(r.performed) : s.performed[a] = r.performed[a]
      /\ s.performed[Len(r.performed) + 1] = r.owed
  BY <1>1
<1>3. \A a \in DOMAIN s.performed :
        a \in DOMAIN r.performed \/ a = Len(r.performed) + 1
  BY <1>2
<1>4. Distinct(s)
  BY <1>2, <1>3 DEF Once, Distinct, Unperformed
<1>5. \A a \in DOMAIN s.performed : Past(Depth, s, s.performed[a])
  BY <1>2, <1>3 DEF Once, Past
<1>6. QED
  BY <1>4, <1>5 DEF Once

\* A performed record, with its fields.
LEMMA PerformedFields ==
  ASSUME NEW r, JobInv(r), r.at = "effect", NEW seen \in {<<>>, <<r.owed>>},
         NEW s, s = Performed(r, seen)
  PROVE  /\ s \in JobRecord /\ s.machine = r.machine /\ s.phase = r.phase
         /\ s.performed = r.performed \o seen
         /\ seen = <<>> => s.performed = r.performed
<1>1. r \in JobRecord /\ r.performed \in Seq(Effect) /\ r.owed \in Effect
  BY AwaitingEffect, Counts
<1>2. r.performed \o <<>> = r.performed
  BY <1>1
<1>3. seen \in Seq(Effect)
  <2>1. <<>> \in Seq(Effect) /\ <<r.owed>> \in Seq(Effect)
    BY <1>1
  <2>2. QED
    BY <2>1
<1>4. r.performed \o seen \in Seq(Effect)
  BY <1>1, <1>3
<1>5. QED
  BY <1>1, <1>2, <1>4 DEF Performed, JobRecord

\* One job's step, for the whole invariant.
LEMMA OnceMoves ==
  ASSUME NEW Depth, Inv, OnceInv(Depth), NEW j \in Job, NEW r, Once(Depth, r),
         job' = [job EXCEPT ![j] = r]
  PROVE  OnceInv(Depth)'
<1>1. \A i \in Job : job'[i] = IF i = j THEN r ELSE job[i]
  BY DEF Inv
<1>2. \A i \in Job : Once(Depth, job'[i])
  BY <1>1 DEF OnceInv
<1>3. QED
  BY <1>2 DEF OnceInv

LEMMA OnceStep ==
  ASSUME NEW CONSTANT Depth, Forward(Depth)
  PROVE  Inv /\ OnceInv(Depth) /\ [Next]_vars => OnceInv(Depth)'
<1> SUFFICES ASSUME Inv, OnceInv(Depth), [Next]_vars PROVE OnceInv(Depth)'
  OBVIOUS
<1>1. \A j \in Job : JobInv(job[j]) /\ Once(Depth, job[j]) /\ job[j] \in JobRecord
  BY DEF Inv, OnceInv, JobInv
<1>2. ASSUME NEW j \in Job, NEW m \in Machine, Spawn(j, m) PROVE OnceInv(Depth)'
  <2>1. PICK s : s = Spawned(m)
    OBVIOUS
  <2>2. s.at = "queued" /\ s.performed = <<>>
    BY <2>1 DEF Spawned, NoJob
  <2>3. DOMAIN s.performed = {}
    BY <2>2
  <2>4. Once(Depth, s)
    BY <2>2, <2>3 DEF Once, Distinct
  <2>5. QED
    BY <1>2, <2>1, <2>4, OnceMoves DEF Spawn
<1>3. ASSUME NEW j \in Job, FirstPoll(j) PROVE OnceInv(Depth)'
  <2>1. Once(Depth, Loop(job[j]))
    BY <1>1, LoopKeeps, StaysOnce
  <2>2. QED
    BY <1>3, <2>1, OnceMoves DEF FirstPoll
<1>4. ASSUME NEW j \in Job, NEW i \in Input, NextEvent(j, i) PROVE OnceInv(Depth)'
  <2>1. ASSUME NEW t \in Edges(job[j], i), job' = [job EXCEPT ![j] = Advance(job[j], t)]
        PROVE  OnceInv(Depth)'
    <3>1. Once(Depth, Advance(job[j], t))
      BY <1>1, <1>4, AdvanceOnce DEF Edges, NextEvent
    <3>2. QED
      BY <2>1, <3>1, OnceMoves
  <2>2. CASE job' = [job EXCEPT ![j] = Ended(job[j], "stuck")]
    <3>1. Once(Depth, Ended(job[j], "stuck"))
      BY <1>1, EndedKeeps, StaysOnce
    <3>2. QED
      BY <2>2, <3>1, OnceMoves
  <2>3. QED
    BY <1>4, <2>1, <2>2 DEF NextEvent
<1>5. ASSUME NEW j \in Job, NextEventFails(j) PROVE OnceInv(Depth)'
  <2>1. Once(Depth, Ended(job[j], "driver"))
    BY <1>1, EndedKeeps, StaysOnce
  <2>2. QED
    BY <1>5, <2>1, OnceMoves DEF NextEventFails
<1>6. ASSUME NEW j \in Job, EffectDone(j) PROVE OnceInv(Depth)'
  <2>1. PICK p : p = Performed(job[j], <<job[j].owed>>)
    OBVIOUS
  <2>2. /\ p \in JobRecord /\ p.machine = job[j].machine /\ p.phase = job[j].phase
        /\ p.performed = job[j].performed \o <<job[j].owed>>
    BY <1>1, <1>6, <2>1, PerformedFields DEF EffectDone
  <2>3. Once(Depth, Loop(p))
    <3>1. PICK s : s = Loop(p)
      OBVIOUS
    <3>2. /\ s.machine = job[j].machine /\ s.phase = job[j].phase /\ s.at # "effect"
          /\ s.performed = job[j].performed \o <<job[j].owed>>
      BY <2>2, <3>1, LoopKeeps
    <3>3. job[j].at = "effect"
      BY <1>6 DEF EffectDone
    <3>4. QED
      BY <1>1, <3>1, <3>2, <3>3, PerformOnce
  <2>4. QED
    BY <1>6, <2>1, <2>3, OnceMoves DEF EffectDone
<1>7. ASSUME NEW j \in Job, EffectFails(j) PROVE OnceInv(Depth)'
  <2>1. PICK seen \in {<<>>, <<job[j].owed>>} :
          job' = [job EXCEPT ![j] = Ended(Performed(job[j], seen), "driver")]
    BY <1>7 DEF EffectFails
  <2>2. PICK p : p = Performed(job[j], seen)
    OBVIOUS
  <2>3. /\ p \in JobRecord /\ p.machine = job[j].machine /\ p.phase = job[j].phase
        /\ p.performed = job[j].performed \o seen
        /\ seen = <<>> => p.performed = job[j].performed
    BY <1>1, <1>7, <2>2, PerformedFields DEF EffectFails
  <2>4. Once(Depth, Ended(p, "driver"))
    <3>1. CASE seen = <<>>
      BY <1>1, <2>3, <3>1, EndedKeeps, StaysOnce
    <3>2. CASE seen = <<job[j].owed>>
      <4>1. PICK s : s = Ended(p, "driver")
        OBVIOUS
      <4>2. /\ s.machine = job[j].machine /\ s.phase = job[j].phase /\ s.at # "effect"
            /\ s.performed = job[j].performed \o <<job[j].owed>>
        BY <2>3, <3>2, <4>1, EndedKeeps
      <4>3. job[j].at = "effect"
        BY <1>7 DEF EffectFails
      <4>4. QED
        BY <1>1, <4>1, <4>2, <4>3, PerformOnce
    <3>3. QED
      BY <3>1, <3>2
  <2>5. QED
    BY <2>1, <2>2, <2>4, OnceMoves
<1>8. ASSUME NEW j \in Job, Resume(j) PROVE OnceInv(Depth)'
  <2>1. PICK s : s = Resumed(job[j])
    OBVIOUS
  <2>2. /\ s.machine = job[j].machine /\ s.phase = job[j].phase
        /\ s.performed = job[j].performed /\ s.at = "queued"
    BY <1>1, <2>1 DEF Resumed, JobRecord
  <2>3. Once(Depth, s)
    BY <1>1, <2>2, StaysOnce
  <2>4. QED
    BY <1>8, <2>1, <2>3, OnceMoves DEF Resume
<1>9. CASE UNCHANGED vars
  BY <1>9 DEF vars, OnceInv
<1>10. QED
  BY <1>2, <1>3, <1>4, <1>5, <1>6, <1>7, <1>8, <1>9 DEF Next

\* For machines that go forward, as all of this repository's do: however often runs
\* fail and are resumed, and whether or not a failed effect took place, no effect twice.
THEOREM ForwardEffectsOnce ==
  ASSUME NEW CONSTANT Depth, Forward(Depth)
  PROVE  Spec => []EffectAtMostOnce
<1>1. Init => OnceInv(Depth)
  <2>1. DOMAIN NoJob.performed = {} /\ NoJob.at = "absent"
    BY DEF NoJob
  <2>2. QED
    BY <2>1 DEF Init, OnceInv, Once, Distinct
<1>2. Inv /\ OnceInv(Depth) /\ [Next]_vars => OnceInv(Depth)'
  BY OnceStep
<1>3. OnceInv(Depth) => EffectAtMostOnce
  BY DEF OnceInv, Once, Distinct, EffectAtMostOnce
<1>4. QED
  BY <1>1, <1>2, <1>3, AlwaysInv, PTL DEF Spec
=============================================================================
