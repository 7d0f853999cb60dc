------------------------------ MODULE Listener ------------------------------
(***************************************************************************)
(* The listener: tass-spacedust's SpacedustSource (websocket frames, then  *)
(* hydration through tass-slingshot) feeding tass-engine's `run`, whose    *)
(* biased select! polls the executor of flights first and source.next()    *)
(* second.  One task runs all of it: a step is the code between two        *)
(* awaits, and a job that can move moves before the source is polled.      *)
(***************************************************************************)
EXTENDS Naturals, Sequences, Flights

CONSTANT MaxFrames    \* bound: the frames the stream delivers at most

ASSUME FramesAssumption == MaxFrames \in Nat

Position == 1 .. MaxFrames

VARIABLES
  job,    \* the executor's jobs (Phase); the job of a frame has its position
  taken,  \* how many frames the subscriber has taken off the websocket
  src,    \* where the source.next() future stands
  fate,   \* what became of each frame
  cost,   \* history: the job whose completion lost the frame, 0 for none
  loop    \* where `run` stands

vars == <<job, taken, src, fate, cost, loop>>

P == INSTANCE Phase WITH
  Job <- Position, Machine <- Flight, Start <- FlightStart,
  Transition <- FlightTransition, Terminal <- FlightTerminal, MaxRuns <- 1

\* "waiting": not started, or awaiting ws.next(), which loses nothing when dropped;
\* "pong": awaiting the reply to a ping; "hydrating": awaiting the body of link
\* number `taken`; "broken": the websocket failed and yields nothing more.
Source == {"waiting", "pong", "hydrating", "broken"}

Fate == {"ahead", "skipped", "warned", "held", "unmatched", "dispatched", "lost"}

TypeOK ==
  /\ P!TypeOK
  /\ taken \in 0 .. MaxFrames
  /\ src \in Source
  /\ fate \in [Position -> Fate]
  /\ cost \in [Position -> 0 .. MaxFrames]
  /\ loop \in {"select", "drain", "returned"}

Init ==
  /\ P!Init
  /\ taken = 0
  /\ src = "waiting"
  /\ fate = [n \in Position |-> "ahead"]
  /\ cost = [n \in Position |-> 0]
  /\ loop = "select"

-----------------------------------------------------------------------------
(***************************************************************************)
(* The one task.                                                           *)
(***************************************************************************)

\* Waiting for the network: the executor has nothing to poll in this job.
Parked(j) == job[j].at = "event" /\ Remote(job[j].machine, job[j].phase)

\* Inside a poll: this job runs on until it parks or ends.
MidPoll(j) == j \in P!Running /\ ~Parked(j) /\ job[j].at # "queued"

\* A slip: an unbiased select!, free to poll the source first.
SourceTurnUnbiased == loop = "select" /\ \A j \in Position : ~MidPoll(j)

\* The biased select! reaches source.next() only when exec.next() is pending.
SourceTurn == loop = "select" /\ \A j \in P!Running : Parked(j)

-----------------------------------------------------------------------------
(***************************************************************************)
(* Subscriber::next_event and SpacedustSource::next.                       *)
(***************************************************************************)

\* A slip: the next frame is read while a link is being hydrated.
TakeFrameAhead(n, f) ==
  /\ SourceTurn
  /\ src \in {"waiting", "hydrating"}
  /\ taken < MaxFrames /\ n = taken + 1
  /\ taken' = n
  /\ fate' = [fate EXCEPT ![n] = f]
  /\ UNCHANGED <<job, cost>>

\* The subscriber takes frame n, which meets fate f.
TakeFrame(n, f) ==
  /\ SourceTurn
  /\ src = "waiting"
  /\ taken < MaxFrames /\ n = taken + 1
  /\ taken' = n
  /\ fate' = [fate EXCEPT ![n] = f]
  /\ UNCHANGED <<job, cost>>

\* A frame of another kind, a delete link: the loops go on to the next frame.
SkipFrame(n) == TakeFrame(n, "skipped") /\ UNCHANGED <<src, loop>>

\* Text that does not decode, or a create link whose at-uri does not parse (the
\* hydrator rejects it before it awaits anything): Some(Err), which `run` logs.
WarnFrame(n) == TakeFrame(n, "warned") /\ UNCHANGED <<src, loop>>

\* A create link: its record is fetched before an event exists.
HoldLink(n) == TakeFrame(n, "held") /\ src' = "hydrating" /\ UNCHANGED loop

Ping(n) == TakeFrame(n, "skipped") /\ src' = "pong" /\ UNCHANGED loop

Close(n) == TakeFrame(n, "skipped") /\ loop' = "drain" /\ UNCHANGED src

\* The pong went out, or failed with an error `run` logs; either way read on.
PongAnswered ==
  /\ SourceTurn /\ src = "pong"
  /\ src' = "waiting"
  /\ UNCHANGED <<job, taken, fate, cost, loop>>

\* A websocket error: reported once, after which the stream yields None.
ReadBreaks ==
  /\ SourceTurn /\ src = "waiting"
  /\ src' = "broken"
  /\ UNCHANGED <<job, taken, fate, cost, loop>>

\* The stream yields None.
StreamEnds ==
  /\ SourceTurn /\ src \in {"waiting", "broken"}
  /\ loop' = "drain"
  /\ UNCHANGED <<job, taken, src, fate, cost>>

HydrateFails ==
  /\ SourceTurn /\ src = "hydrating"
  /\ src' = "waiting"
  /\ fate' = [fate EXCEPT ![taken] = "warned"]
  /\ UNCHANGED <<job, taken, cost, loop>>

\* Dispatcher::route: the chat flight is registered first and wins a tie.
Route(spotted, isAct) ==
  IF spotted THEN {"chat"} ELSE IF isAct THEN {"act"} ELSE {}

\* The body arrived: the source yields the event and `run` routes it.
Hydrated(spotted, isAct) ==
  /\ SourceTurn /\ src = "hydrating"
  /\ src' = "waiting"
  /\ \/ \E m \in Route(spotted, isAct) :
          /\ P!Spawn(taken, m)
          /\ fate' = [fate EXCEPT ![taken] = "dispatched"]
     \/ /\ Route(spotted, isAct) = {}
        /\ fate' = [fate EXCEPT ![taken] = "unmatched"]
        /\ UNCHANGED job
  /\ UNCHANGED <<taken, cost, loop>>

-----------------------------------------------------------------------------
(***************************************************************************)
(* The executor's jobs, and what a completion does to the select!.         *)
(***************************************************************************)

\* exec.next() is ready: the select! takes its first arm and drops the source.next()
\* future.  A link that was being hydrated goes with it.
Completed(j) ==
  IF loop = "select"
  THEN /\ src' = IF src = "broken" THEN src ELSE "waiting"
       /\ IF src = "hydrating"
          THEN /\ fate' = [fate EXCEPT ![taken] = "lost"]
               /\ cost' = [cost EXCEPT ![taken] = j]
          ELSE UNCHANGED <<fate, cost>>
  ELSE UNCHANGED <<src, fate, cost>>

\* Slips: the oldest job alone is polled; nothing is polled once the loop is left.
JobTurnOldest(j) ==
  /\ loop \in {"select", "drain"}
  /\ \A k \in P!Running : j <= k
JobTurnInLoop(j) ==
  /\ loop = "select"
  /\ \A k \in Position \ {j} : ~MidPoll(k)

\* The executor polls one job at a time; drain goes on polling after the loop.
JobTurn(j) ==
  /\ loop \in {"select", "drain"}
  /\ \A k \in Position \ {j} : ~MidPoll(k)

AfterJob(j) ==
  /\ IF job'[j].at = "ended" THEN Completed(j) ELSE UNCHANGED <<src, fate, cost>>
  /\ UNCHANGED <<taken, loop>>

JobPolled(j)   == JobTurn(j) /\ P!FirstPoll(j) /\ AfterJob(j)

\* The driver answers: the network reply of a parked job, or the next local answer.
JobAnswered(j) ==
  /\ JobTurn(j)
  /\ \E i \in Answers(job[j].machine, job[j].phase) : P!NextEvent(j, i)
  /\ AfterJob(j)

\* The read of the user's tass failed.
JobFails(j) ==
  /\ JobTurn(j)
  /\ Parked(j)
  /\ P!NextEventFails(j)
  /\ AfterJob(j)

\* Both effects are dry-run: they log, and return Ok at once.
JobActs(j) == JobTurn(j) /\ P!EffectDone(j) /\ AfterJob(j)

JobStep(j) == JobPolled(j) \/ JobAnswered(j) \/ JobFails(j) \/ JobActs(j)

\* A slip: return as soon as the source ends, dropping the executor.
ReturnUndrained ==
  /\ loop = "drain"
  /\ loop' = "returned"
  /\ UNCHANGED <<job, taken, src, fate, cost>>

\* `while exec.next().await.is_some() {}` is through, and `run` returns.
Return ==
  /\ loop = "drain" /\ P!Running = {}
  /\ loop' = "returned"
  /\ UNCHANGED <<job, taken, src, fate, cost>>

SourceStep ==
  \/ \E n \in Position :
       SkipFrame(n) \/ WarnFrame(n) \/ HoldLink(n) \/ Ping(n) \/ Close(n)
  \/ PongAnswered
  \/ ReadBreaks
  \/ StreamEnds
  \/ HydrateFails
  \/ \E spotted, isAct \in BOOLEAN : Hydrated(spotted, isAct)

Next ==
  \/ SourceStep
  \/ \E j \in Position : JobPolled(j) \/ JobAnswered(j) \/ JobFails(j) \/ JobActs(j)
  \/ Return

Spec == Init /\ [][Next]_vars

\* The runtime polls the one task whenever it can go on without the network.  No
\* reply is promised: neither a hydration nor a read of a tass has a timeout.
TaskFairness == WF_vars(Return) /\ WF_vars(\E j \in Position : ~Parked(j) /\ JobStep(j))
FairSpec == Spec /\ TaskFairness

-----------------------------------------------------------------------------
(***************************************************************************)
(* Properties                                                              *)
(***************************************************************************)

\* `run` does not dispatch every link it takes, but what it loses is bounded: a link
\* is lost only to a chat flight that started before it and completed, and no
\* completion loses two.  A listener whose flights never wait loses nothing.
CompletionsPayForLosses ==
  /\ \A n \in Position : fate[n] = "lost" =>
       /\ cost[n] \in 1 .. n - 1
       /\ job[cost[n]].at = "ended" /\ job[cost[n]].machine = "chat"
  /\ \A m, n \in Position :
       fate[m] = "lost" /\ fate[n] = "lost" /\ cost[m] = cost[n] => m = n

\* The bias of the select!: by the time the source has asked the network for the
\* next link or pong, every command dispatched so far has had its first poll.
StartedBeforeNext ==
  src \in {"hydrating", "pong"} => \A j \in Position : job[j].at # "queued"

\* "Returns when the source ends and in-flight work drains": nothing is dispatched
\* and unhandled, and no link is still in hand, when `run` returns.
ReturnMeansDone ==
  loop = "returned" => \A n \in Position :
    fate[n] # "held" /\ (fate[n] = "dispatched" => job[n].at = "ended")

\* The wide event tells the truth: it says DryRun exactly when the flight performed
\* its one effect, Skipped and Failed only when it performed none; and no chat mints
\* a record, since no user has authorized one.
OutcomeMatchesEffects ==
  \A j \in Position : job[j].at = "ended" =>
    /\ (Outcome(job[j].result, job[j].phase) = "DryRun") <=> (job[j].performed # <<>>)
    /\ job[j].machine = "chat" => job[j].performed = <<>>

\* The drivers keep the Phase contract: no flight ends Stuck.
FlightsNeverStick == \A j \in Position : job[j].result # "stuck"

\* A slow job never blocks a fast one: a flight whose own reads are answered is
\* handled, whatever the other flights, the stream and the hydrator are waiting for.
SlowNeverBlocksFast ==
  \A j \in Position :
    WF_vars(JobStep(j)) => (job[j].at = "queued" ~> job[j].at = "ended")

\* Once the stream is over `run` returns, provided the reads in flight are answered.
ReturnsAfterStream ==
  (\A j \in Position : WF_vars(JobStep(j))) => (loop = "drain" ~> loop = "returned")

\* The listener implements EventLoop: what a frame and the loop stand for there.
StatusOf ==
  [n \in Position |->
    CASE fate[n] \in {"ahead", "held", "lost"} -> fate[n]
      [] fate[n] = "dispatched" -> IF job[n].at = "ended" THEN "handled" ELSE "running"
      [] OTHER -> "dropped"]

OverOf ==
  CASE loop = "select" -> "no" [] loop = "drain" -> "ending" [] loop = "returned" -> "yes"

Abs == INSTANCE EventLoop WITH status <- StatusOf, over <- OverOf
ImplementsEventLoop == Abs!Spec

\* "dispatch each": every create link taken off the stream is still being fetched,
\* or was reported, or was routed.  The code breaks this one.
EveryLinkIsDispatched == \A n \in Position : fate[n] # "lost"
=============================================================================
