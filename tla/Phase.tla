------------------------------- MODULE Phase -------------------------------
(***************************************************************************)
(* tass-phase: phased asynchronous work driven by a pure state machine.    *)
(*                                                                         *)
(* A machine is data (its transitions, the effect each emits, its terminal *)
(* phases).  A job runs one machine with a driver: await the next event,   *)
(* consume it, perform the effect the transition emitted, loop.  Every     *)
(* await is a point where the executor may run another job, so one step of *)
(* this module is the code between two awaits.  The driver is the          *)
(* environment: it may answer any input, fail, or perform an effect and    *)
(* then report a failure.                                                  *)
(***************************************************************************)
EXTENDS Naturals, Sequences

CONSTANTS
  Job,          \* the units of work
  Machine,      \* the names of the machines
  Start,        \* Start[m] is the initial phase of machine m
  Transition,   \* the edges: [of, from, on, to, emit], emit may be NoEffect
  Terminal,     \* the phases in which `run` stops
  MaxRuns       \* bound: how often one job is run (first run and resumes)

NoEffect == "none"

PhaseName == {Start[m] : m \in Machine} \cup {t.from : t \in Transition}
                                        \cup {t.to : t \in Transition}
Input     == {t.on : t \in Transition}
Effect    == {t.emit : t \in Transition} \ {NoEffect}

\* rust-fsm machines are deterministic (state_machine! has one arm per input),
\* and no phase that is_terminal accepts has an outgoing edge.
ASSUME MachineAssumption ==
  /\ Start \in [Machine -> PhaseName]
  /\ \A t \in Transition : t.of \in Machine /\ t.from \notin Terminal
  /\ \A t, u \in Transition :
       t.of = u.of /\ t.from = u.from /\ t.on = u.on => t = u
  /\ MaxRuns \in Nat \ {0}

VARIABLE job    \* job[j]: the record below

vars == <<job>>

(***************************************************************************)
(* at: "absent" (not created), "queued" (pushed on the executor, never     *)
(* polled), "event" (awaiting next_event), "effect" (awaiting effect),     *)
(* "ended" (run returned and the executor yielded its result).             *)
(* emitted and performed are histories: the effects the consumed           *)
(* transitions emitted, and those that took place in the world.            *)
(***************************************************************************)
At     == {"absent", "queued", "event", "effect", "ended"}
Result == {"pending", "final", "driver", "stuck"}

JobRecord ==
  [machine   : Machine \cup {"none"},
   phase     : PhaseName \cup {"none"},
   at        : At,
   owed      : Effect \cup {NoEffect},
   emitted   : Seq(Effect),
   performed : Seq(Effect),
   result    : Result,
   runs      : 0 .. MaxRuns]

TypeOK == job \in [Job -> JobRecord]

NoJob == [machine |-> "none", phase |-> "none", at |-> "absent", owed |-> NoEffect,
          emitted |-> <<>>, performed |-> <<>>, result |-> "pending", runs |-> 0]

Init == job = [j \in Job |-> NoJob]

\* The jobs the executor holds: Executor::len counts them, is_empty tests for none.
Running == {j \in Job : job[j].at \in {"queued", "event", "effect"}}

-----------------------------------------------------------------------------
(***************************************************************************)
(* `run`, between two awaits.                                              *)
(***************************************************************************)

\* The head of the loop: return the final value or await the next event.
Loop(r) == IF r.phase \in Terminal
           THEN [r EXCEPT !.at = "ended", !.owed = NoEffect, !.result = "final"]
           ELSE [r EXCEPT !.at = "event", !.owed = NoEffect]

Edges(r, i) == {t \in Transition : t.of = r.machine /\ t.from = r.phase /\ t.on = i}

\* A slip (these variants of a definition show what the properties catch): an emitted
\* effect is not awaited.
AdvanceSkipping(r, t) ==
  IF t.emit = NoEffect
  THEN Loop([r EXCEPT !.phase = t.to])
  ELSE Loop([r EXCEPT !.phase = t.to, !.emitted = Append(@, t.emit)])

\* The phase advances before the effect runs: `consume`, then `effect().await`.
Advance(r, t) ==
  IF t.emit = NoEffect
  THEN Loop([r EXCEPT !.phase = t.to])
  ELSE [r EXCEPT !.phase = t.to, !.at = "effect", !.owed = t.emit,
                 !.emitted = Append(@, t.emit)]

Ended(r, why) == [r EXCEPT !.at = "ended", !.owed = NoEffect, !.result = why]

Performed(r, seen) == [r EXCEPT !.performed = @ \o seen]

Resumed(r) == [r EXCEPT !.at = "queued", !.result = "pending", !.runs = @ + 1]

Spawned(m) ==
  [NoJob EXCEPT !.machine = m, !.phase = Start[m], !.at = "queued", !.runs = 1]

-----------------------------------------------------------------------------
(***************************************************************************)
(* The steps of one job.                                                   *)
(***************************************************************************)

\* FsmJob::new pushed on the executor: no progress until the next poll.
Spawn(j, m) ==
  /\ job[j].at = "absent"
  /\ job' = [job EXCEPT ![j] = Spawned(m)]

\* A slip: a queued job is polled only while it is alone.
FirstPollAlone(j) ==
  /\ job[j].at = "queued" /\ Running = {j}
  /\ job' = [job EXCEPT ![j] = Loop(@)]

\* A slip: the loop asks for an event before it looks at the phase.
FirstPollEventFirst(j) ==
  /\ job[j].at = "queued"
  /\ job' = [job EXCEPT ![j] = [@ EXCEPT !.at = "event"]]

\* The executor's first poll enters `run`.
FirstPoll(j) ==
  /\ job[j].at = "queued"
  /\ job' = [job EXCEPT ![j] = Loop(@)]

\* next_event answered i: consume it, or Stuck when the phase has no such edge.
NextEvent(j, i) ==
  /\ job[j].at = "event"
  /\ \/ \E t \in Edges(job[j], i) : job' = [job EXCEPT ![j] = Advance(@, t)]
     \/ /\ Edges(job[j], i) = {}
        /\ job' = [job EXCEPT ![j] = Ended(@, "stuck")]

\* next_event failed: RunError::Driver.
NextEventFails(j) ==
  /\ job[j].at = "event"
  /\ job' = [job EXCEPT ![j] = Ended(@, "driver")]

\* A slip: the effect is recorded after the loop has forgotten which one was owed.
EffectDoneLate(j) ==
  /\ job[j].at = "effect"
  /\ job' = [job EXCEPT ![j] = Performed(Loop(@), <<Loop(@).owed>>)]

\* effect returned Ok: the owed effect took place, back to the head of the loop.
EffectDone(j) ==
  /\ job[j].at = "effect"
  /\ job' = [job EXCEPT ![j] = Loop(Performed(@, <<@.owed>>))]

\* effect failed.  A request can fail after the far side has carried it out.
EffectFails(j) ==
  /\ job[j].at = "effect"
  /\ \E seen \in {<<>>, <<job[j].owed>>} :
       job' = [job EXCEPT ![j] = Ended(Performed(@, seen), "driver")]

\* A retry that starts over instead of resuming the phase.
ResumeFromStart(j) ==
  /\ job[j].at = "ended" /\ job[j].runs < MaxRuns
  /\ job' = [job EXCEPT ![j] = [Resumed(@) EXCEPT !.phase = Start[job[j].machine]]]

\* FsmJob::resume with the phase the machine was left in, on the executor again.  It
\* takes any phase, a terminal one too: a queue that keeps phases may deliver a job twice,
\* or one whose last effect failed on the way into a terminal phase.
Resume(j) ==
  /\ job[j].at = "ended" /\ job[j].runs < MaxRuns
  /\ job' = [job EXCEPT ![j] = Resumed(@)]

Step(j) ==
  \/ FirstPoll(j)
  \/ \E i \in Input : NextEvent(j, i)
  \/ NextEventFails(j)
  \/ EffectDone(j)
  \/ EffectFails(j)

Next ==
  \E j \in Job :
    \/ \E m \in Machine : Spawn(j, m)
    \/ FirstPoll(j)
    \/ \E i \in Input : NextEvent(j, i)
    \/ NextEventFails(j)
    \/ EffectDone(j)
    \/ EffectFails(j)
    \/ Resume(j)

Spec == Init /\ [][Next]_vars

\* The executor polls every job whose await resolved, and "must eventually
\* resolve" is the Driver contract: a job that can step, steps.
Fairness == \A j \in Job : WF_vars(Step(j))
FairSpec == Spec /\ Fairness

-----------------------------------------------------------------------------
(***************************************************************************)
(* Properties                                                              *)
(***************************************************************************)

\* A job in the terminal phase p that returned its final value, or is on the executor
\* to be run again.
Finished(j, p) ==
  /\ job[j].phase = p
  /\ job[j].at = "queued" \/ job[j].result = "final"

\* A job resumed in a terminal phase, because it had finished or because the effect of
\* its last edge failed, stays in that phase however often it is resumed: no run of it
\* asks the driver for an event or an effect, fails, or returns another final value.
FinishedForGood ==
  \A j \in Job, p \in Terminal : [](Finished(j, p) => []Finished(j, p))

\* Resuming a job at the phase its machine was left in never repeats an effect,
\* however often runs fail and whether or not a failed effect had taken place.
\* (For machines without a cycle, as all of this repository's are.)
EffectAtMostOnce ==
  \A j \in Job : \A a, b \in DOMAIN job[j].performed :
    job[j].performed[a] = job[j].performed[b] => a = b

\* The price of that: a run that fails in an effect leaves the phase past it, so
\* the resumed run skips the effect.  Each failed run costs at most one effect,
\* and a job that ends well on its first run has performed all it emitted.
OneGapPerFailure ==
  \A j \in Job :
    LET open == IF job[j].at = "effect" \/ job[j].result = "driver" THEN 1 ELSE 0
    IN  job[j].at # "absent" =>
          /\ Len(job[j].performed) <= Len(job[j].emitted)
          /\ Len(job[j].emitted) - Len(job[j].performed) <= job[j].runs - 1 + open

\* Every run the executor holds comes to an end.
RunEnds == \A j \in Job : job[j].at = "queued" ~> job[j].at = "ended"
=============================================================================
