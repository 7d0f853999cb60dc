--------------------------- MODULE ListenerProofs ---------------------------
(***************************************************************************)
(* Proofs about Listener, for a stream of any length: types, what a flight *)
(* goes through, what is lost and to whom, that nothing is left when `run` *)
(* returns, and that every step is a step of EventLoop.                    *)
(***************************************************************************)
EXTENDS Listener, TLAPS

(***************************************************************************)
(* The life of a flight: every place it can be at, with what it owes, what *)
(* it has performed and how it ended.                                      *)
(***************************************************************************)
At(r, phase, at, result) == r.phase = phase /\ r.at = at /\ r.result = result

AbsentLife(r) == r.at = "absent" /\ r.result = "pending" /\ r.performed = <<>>

ChatLife(r) ==
  /\ r.machine = "chat" /\ r.owed = "none" /\ r.performed = <<>>
  /\ \/ At(r, "Matched", "queued", "pending")
     \/ At(r, "Matched", "event", "pending")
     \/ At(r, "Matched", "ended", "driver")
     \/ At(r, "Skipped", "ended", "final")
     \/ At(r, "Resolved", "event", "pending")
     \/ At(r, "NeedsAuth", "ended", "final")

ActLife(r) ==
  /\ r.machine = "act"
  /\ \/ r.owed = "none" /\ r.performed = <<>> /\ At(r, "Received", "queued", "pending")
     \/ r.owed = "none" /\ r.performed = <<>> /\ At(r, "Received", "event", "pending")
     \/ r.owed = "none" /\ r.performed = <<>> /\ At(r, "Rejected", "ended", "final")
     \/ r.owed = "none" /\ r.performed = <<>> /\ At(r, "Validated", "event", "pending")
     \/ r.owed = "Attest" /\ r.performed = <<>> /\ At(r, "Attesting", "effect", "pending")
     \/ r.owed = "none" /\ r.performed # <<>> /\ At(r, "Attesting", "event", "pending")
     \/ r.owed = "none" /\ r.performed # <<>> /\ At(r, "Done", "ended", "final")

Life(r) == r \in P!JobRecord /\ (AbsentLife(r) \/ ChatLife(r) \/ ActLife(r))

Lives == job \in [Position -> P!JobRecord] /\ \A j \in Position : Life(job[j])

-----------------------------------------------------------------------------
(***************************************************************************)
(* The operators of Phase, field by field.                                 *)
(***************************************************************************)

LEMMA Names ==
  /\ \A m \in Flight : FlightStart[m] \in P!PhaseName
  /\ \A t \in FlightTransition : t.to \in P!PhaseName /\ (t.emit # "none" => t.emit \in P!Effect)
  /\ "Attest" \in P!Effect
<1>1. \A m \in Flight : FlightStart[m] \in P!PhaseName
  BY DEF P!PhaseName
<1>2. \A t \in FlightTransition : t.to \in P!PhaseName /\ (t.emit # "none" => t.emit \in P!Effect)
  BY DEF P!PhaseName, P!Effect, P!NoEffect
<1>3. Act("Validated", "Confirmed", "Attesting", "Attest") \in FlightTransition
  BY DEF FlightTransition, ActTransition
<1>4. "Attest" \in P!Effect
  BY <1>2, <1>3 DEF Act
<1>5. QED
  BY <1>1, <1>2, <1>4

LEMMA SpawnedFields ==
  ASSUME NEW m \in Flight
  PROVE  LET s == P!Spawned(m)
         IN  /\ s \in P!JobRecord /\ s.machine = m /\ s.phase = FlightStart[m]
             /\ s.at = "queued" /\ s.owed = "none" /\ s.performed = <<>>
             /\ s.result = "pending"
<1> DEFINE r == P!NoJob
           s == [r EXCEPT !.machine = m, !.phase = FlightStart[m], !.at = "queued", !.runs = 1]
<1>1. FlightStart[m] \in P!PhaseName
  BY Names
<1>2. /\ r \in P!JobRecord /\ r.owed = "none"
      /\ r.performed = <<>> /\ r.result = "pending"
  BY DEF P!NoJob, P!NoEffect, P!JobRecord, P!At, P!Result
<1>3. P!Spawned(m) = s
  BY DEF P!Spawned
<1> HIDE DEF r
<1>4. s \in P!JobRecord
  <2>1. "queued" \in P!At /\ 1 \in 0 .. 1
    BY DEF P!At
  <2>2. QED
    BY <1>1, <1>2, <2>1 DEF P!JobRecord
<1>5. /\ s.machine = m /\ s.phase = FlightStart[m] /\ s.at = "queued"
      /\ s.owed = "none" /\ s.performed = <<>> /\ s.result = "pending"
  BY <1>2 DEF P!JobRecord
<1> HIDE DEF s
<1>6. QED
  BY <1>3, <1>4, <1>5

LEMMA LoopFields ==
  ASSUME NEW r \in P!JobRecord
  PROVE  LET s == P!Loop(r)
         IN  /\ s \in P!JobRecord /\ s.machine = r.machine /\ s.phase = r.phase
             /\ s.performed = r.performed /\ s.owed = "none"
             /\ r.phase \in FlightTerminal => s.at = "ended" /\ s.result = "final"
             /\ r.phase \notin FlightTerminal => s.at = "event" /\ s.result = r.result
BY DEF P!Loop, P!NoEffect, P!JobRecord, P!At, P!Result

LEMMA EndedFields ==
  ASSUME NEW r \in P!JobRecord
  PROVE  LET s == P!Ended(r, "driver")
         IN  /\ s \in P!JobRecord /\ s.machine = r.machine /\ s.phase = r.phase
             /\ s.performed = r.performed /\ s.owed = "none"
             /\ s.at = "ended" /\ s.result = "driver"
BY DEF P!Ended, P!NoEffect, P!JobRecord, P!At, P!Result

LEMMA PerformedFields ==
  ASSUME NEW r \in P!JobRecord, r.owed = "Attest", r.performed = <<>>
  PROVE  LET s == P!Performed(r, <<r.owed>>)
         IN  /\ s \in P!JobRecord /\ s.machine = r.machine /\ s.phase = r.phase
             /\ s.performed # <<>> /\ s.at = r.at /\ s.result = r.result
<1>1. <<>> \o <<"Attest">> = <<"Attest">> /\ <<"Attest">> # <<>>
  OBVIOUS
<1>2. <<"Attest">> \in Seq(P!Effect)
  BY Names
<1>3. QED
  BY <1>1, <1>2 DEF P!Performed, P!JobRecord

LEMMA AdvanceFields ==
  ASSUME NEW r \in P!JobRecord, NEW t \in FlightTransition
  PROVE  LET s == P!Advance(r, t)
         IN  /\ s \in P!JobRecord /\ s.machine = r.machine /\ s.phase = t.to
             /\ s.performed = r.performed
             /\ t.emit = "none" =>
                  /\ s.owed = "none"
                  /\ t.to \in FlightTerminal => s.at = "ended" /\ s.result = "final"
                  /\ t.to \notin FlightTerminal => s.at = "event" /\ s.result = r.result
             /\ t.emit # "none" => s.owed = t.emit /\ s.at = "effect" /\ s.result = r.result
<1>1. CASE t.emit = "none"
  <2> DEFINE s == [r EXCEPT !.phase = t.to]
  <2>1. s \in P!JobRecord /\ s.machine = r.machine /\ s.phase = t.to
        /\ s.performed = r.performed /\ s.result = r.result
    BY Names DEF P!JobRecord
  <2>2. P!Advance(r, t) = P!Loop(s)
    BY <1>1 DEF P!Advance, P!NoEffect
  <2> HIDE DEF s
  <2>3. QED
    BY <1>1, <2>1, <2>2, LoopFields
<1>2. CASE t.emit # "none"
  <2> DEFINE s == [r EXCEPT !.phase = t.to, !.at = "effect", !.owed = t.emit,
                            !.emitted = Append(@, t.emit)]
  <2>1. r.emitted \in Seq(P!Effect) /\ t.emit \in P!Effect
    BY <1>2, Names DEF P!JobRecord
  <2>2. Append(r.emitted, t.emit) \in Seq(P!Effect)
    BY <2>1
  <2>3. s \in P!JobRecord
    BY <2>1, <2>2, Names DEF P!JobRecord, P!At
  <2>4. /\ s.machine = r.machine /\ s.phase = t.to /\ s.performed = r.performed
        /\ s.owed = t.emit /\ s.at = "effect" /\ s.result = r.result
    BY DEF P!JobRecord
  <2>5. P!Advance(r, t) = s
    BY <1>2 DEF P!Advance, P!NoEffect
  <2> HIDE DEF s
  <2>6. QED
    BY <1>2, <2>3, <2>4, <2>5
<1>3. QED
  BY <1>1, <1>2

-----------------------------------------------------------------------------
(***************************************************************************)
(* Every step of a job keeps it in its life.                               *)
(***************************************************************************)

LEMMA AbsentLives == Life(P!NoJob)
<1>1. P!NoJob \in P!JobRecord
  BY DEF P!NoJob, P!NoEffect, P!JobRecord, P!At, P!Result
<1>2. AbsentLife(P!NoJob)
  BY DEF AbsentLife, P!NoJob
<1>3. QED
  BY <1>1, <1>2 DEF Life

LEMMA SpawnedLives ==
  ASSUME NEW m \in Flight
  PROVE  Life(P!Spawned(m)) /\ P!Spawned(m).at = "queued"
<1> DEFINE s == P!Spawned(m)
<1>1. /\ s \in P!JobRecord /\ s.machine = m /\ s.phase = FlightStart[m] /\ s.at = "queued"
      /\ s.owed = "none" /\ s.performed = <<>> /\ s.result = "pending"
  BY SpawnedFields
<1> SUFFICES Life(s) /\ s.at = "queued"
  OBVIOUS
<1> HIDE DEF s
<1>2. CASE m = "chat"
  BY <1>1, <1>2 DEF FlightStart, Life, ChatLife, At
<1>3. CASE m = "act"
  BY <1>1, <1>3 DEF FlightStart, Life, ActLife, At
<1>4. QED
  BY <1>2, <1>3 DEF Flight

LEMMA PolledLives ==
  ASSUME NEW r, Life(r), r.at = "queued"
  PROVE  Life(P!Loop(r)) /\ P!Loop(r).at = "event" /\ P!Loop(r).machine = r.machine
<1> DEFINE s == P!Loop(r)
<1>1. r \in P!JobRecord
  BY DEF Life
<1>2. r.phase \notin FlightTerminal /\ (ChatLife(r) \/ ActLife(r))
  BY DEF Life, AbsentLife, ChatLife, ActLife, At, FlightTerminal
<1>3. /\ s \in P!JobRecord /\ s.machine = r.machine /\ s.phase = r.phase
      /\ s.performed = r.performed /\ s.owed = "none" /\ s.at = "event" /\ s.result = r.result
  BY <1>1, <1>2, LoopFields
<1> SUFFICES Life(s) /\ s.at = "event" /\ s.machine = r.machine
  OBVIOUS
<1> HIDE DEF s
<1>4. CASE ChatLife(r)
  BY <1>3, <1>4 DEF Life, ChatLife, At
<1>5. CASE ActLife(r)
  BY <1>3, <1>5 DEF Life, ActLife, At
<1>6. QED
  BY <1>2, <1>4, <1>5

\* The machines answer each input a driver gives with one edge.
LEMMA EdgesOf ==
  ASSUME NEW r
  PROVE  /\ r.machine = "chat" /\ r.phase = "Matched" =>
              /\ P!Edges(r, "FoundTass") = {Chat("Matched", "FoundTass", "Resolved", "none")}
              /\ P!Edges(r, "NoTass") = {Chat("Matched", "NoTass", "Skipped", "none")}
         /\ r.machine = "chat" /\ r.phase = "Resolved" =>
              P!Edges(r, "Unauthorized") = {Chat("Resolved", "Unauthorized", "NeedsAuth", "none")}
         /\ r.machine = "act" /\ r.phase = "Received" =>
              /\ P!Edges(r, "Valid") = {Act("Received", "Valid", "Validated", "none")}
              /\ P!Edges(r, "Invalid") = {Act("Received", "Invalid", "Rejected", "none")}
         /\ r.machine = "act" /\ r.phase = "Validated" =>
              P!Edges(r, "Confirmed") = {Act("Validated", "Confirmed", "Attesting", "Attest")}
         /\ r.machine = "act" /\ r.phase = "Attesting" =>
              P!Edges(r, "Attested") = {Act("Attesting", "Attested", "Done", "none")}
BY DEF P!Edges, FlightTransition, ChatTransition, ActTransition, Chat, Act

\* What the edge that answers input i does to the job.
LEMMA AnsweredLives ==
  ASSUME NEW r, Life(r), r.at = "event", NEW i \in Answers(r.machine, r.phase)
  PROVE  \E t \in FlightTransition :
           /\ P!Edges(r, i) = {t}
           /\ Life(P!Advance(r, t)) /\ P!Advance(r, t).machine = r.machine
           /\ P!Advance(r, t).at \in {"event", "effect", "ended"}
<1>1. r \in P!JobRecord /\ (ChatLife(r) \/ ActLife(r))
  BY DEF Life, AbsentLife
<1>2. CASE r.machine = "chat" /\ r.phase = "Matched"
  <2>1. r.result = "pending" /\ r.performed = <<>> /\ i \in {"FoundTass", "NoTass"}
    BY <1>1, <1>2 DEF ChatLife, ActLife, At, Answers, ChatAnswers
  <2>2. CASE i = "FoundTass"
    <3> DEFINE t == Chat("Matched", "FoundTass", "Resolved", "none")
               s == P!Advance(r, t)
    <3>1. t \in FlightTransition /\ P!Edges(r, i) = {t}
      BY <1>2, <2>1, <2>2, EdgesOf DEF FlightTransition, ChatTransition
    <3>2. t.to = "Resolved" /\ t.emit = "none" /\ t.to \notin FlightTerminal
      BY DEF Chat, FlightTerminal
    <3> HIDE DEF t
    <3>3. /\ s \in P!JobRecord /\ s.machine = "chat" /\ s.phase = "Resolved" /\ s.performed = <<>>
          /\ s.owed = "none" /\ s.at = "event" /\ s.result = "pending"
      BY <1>1, <1>2, <2>1, <2>2, <3>1, <3>2, AdvanceFields
    <3> HIDE DEF s
    <3>4. Life(s)
      BY <3>3 DEF Life, ChatLife, At
    <3>5. QED
      BY <1>2, <2>1, <2>2, <3>1, <3>3, <3>4 DEF s
  <2>3. CASE i = "NoTass"
    <3> DEFINE t == Chat("Matched", "NoTass", "Skipped", "none")
               s == P!Advance(r, t)
    <3>1. t \in FlightTransition /\ P!Edges(r, i) = {t}
      BY <1>2, <2>1, <2>3, EdgesOf DEF FlightTransition, ChatTransition
    <3>2. t.to = "Skipped" /\ t.emit = "none" /\ t.to \in FlightTerminal
      BY DEF Chat, FlightTerminal
    <3> HIDE DEF t
    <3>3. /\ s \in P!JobRecord /\ s.machine = "chat" /\ s.phase = "Skipped" /\ s.performed = <<>>
          /\ s.owed = "none" /\ s.at = "ended" /\ s.result = "final"
      BY <1>1, <1>2, <2>1, <2>3, <3>1, <3>2, AdvanceFields
    <3> HIDE DEF s
    <3>4. Life(s)
      BY <3>3 DEF Life, ChatLife, At
    <3>5. QED
      BY <1>2, <2>1, <2>3, <3>1, <3>3, <3>4 DEF s
  <2>4. QED
    BY <2>1, <2>2, <2>3
<1>3. CASE r.machine = "chat" /\ r.phase # "Matched"
  <2>1. r.phase = "Resolved" /\ r.result = "pending" /\ r.performed = <<>>
    BY <1>1, <1>3 DEF ChatLife, ActLife, At
  <2>2. i = "Unauthorized"
    BY <1>3, <2>1 DEF Answers, ChatAnswers, UserHasAuthorized
  <2> DEFINE t == Chat("Resolved", "Unauthorized", "NeedsAuth", "none")
             s == P!Advance(r, t)
  <2>3. t \in FlightTransition /\ P!Edges(r, i) = {t}
    BY <1>3, <2>1, <2>2, EdgesOf DEF FlightTransition, ChatTransition
  <2>4. t.to = "NeedsAuth" /\ t.emit = "none" /\ t.to \in FlightTerminal
    BY DEF Chat, FlightTerminal
  <2> HIDE DEF t
  <2>5. /\ s \in P!JobRecord /\ s.machine = "chat" /\ s.phase = "NeedsAuth" /\ s.performed = <<>>
        /\ s.owed = "none" /\ s.at = "ended" /\ s.result = "final"
    BY <1>1, <1>3, <2>1, <2>2, <2>3, <2>4, AdvanceFields
  <2> HIDE DEF s
  <2>6. Life(s)
    BY <2>5 DEF Life, ChatLife, At
  <2>7. QED
    BY <1>3, <2>1, <2>2, <2>3, <2>5, <2>6 DEF s
<1>4. CASE r.machine = "act" /\ r.phase = "Received"
  <2>1. r.result = "pending" /\ r.performed = <<>> /\ i \in {"Valid", "Invalid"}
    BY <1>1, <1>4 DEF ChatLife, ActLife, At, Answers, ActAnswers
  <2>2. CASE i = "Valid"
    <3> DEFINE t == Act("Received", "Valid", "Validated", "none")
               s == P!Advance(r, t)
    <3>1. t \in FlightTransition /\ P!Edges(r, i) = {t}
      BY <1>4, <2>1, <2>2, EdgesOf DEF FlightTransition, ActTransition
    <3>2. t.to = "Validated" /\ t.emit = "none" /\ t.to \notin FlightTerminal
      BY DEF Act, FlightTerminal
    <3> HIDE DEF t
    <3>3. /\ s \in P!JobRecord /\ s.machine = "act" /\ s.phase = "Validated" /\ s.performed = <<>>
          /\ s.owed = "none" /\ s.at = "event" /\ s.result = "pending"
      BY <1>1, <1>4, <2>1, <2>2, <3>1, <3>2, AdvanceFields
    <3> HIDE DEF s
    <3>4. Life(s)
      BY <3>3 DEF Life, ActLife, At
    <3>5. QED
      BY <1>4, <2>1, <2>2, <3>1, <3>3, <3>4 DEF s
  <2>3. CASE i = "Invalid"
    <3> DEFINE t == Act("Received", "Invalid", "Rejected", "none")
               s == P!Advance(r, t)
    <3>1. t \in FlightTransition /\ P!Edges(r, i) = {t}
      BY <1>4, <2>1, <2>3, EdgesOf DEF FlightTransition, ActTransition
    <3>2. t.to = "Rejected" /\ t.emit = "none" /\ t.to \in FlightTerminal
      BY DEF Act, FlightTerminal
    <3> HIDE DEF t
    <3>3. /\ s \in P!JobRecord /\ s.machine = "act" /\ s.phase = "Rejected" /\ s.performed = <<>>
          /\ s.owed = "none" /\ s.at = "ended" /\ s.result = "final"
      BY <1>1, <1>4, <2>1, <2>3, <3>1, <3>2, AdvanceFields
    <3> HIDE DEF s
    <3>4. Life(s)
      BY <3>3 DEF Life, ActLife, At
    <3>5. QED
      BY <1>4, <2>1, <2>3, <3>1, <3>3, <3>4 DEF s
  <2>4. QED
    BY <2>1, <2>2, <2>3
<1>5. CASE r.machine = "act" /\ r.phase = "Validated"
  <2>1. r.result = "pending" /\ r.performed = <<>>
    BY <1>1, <1>5 DEF ChatLife, ActLife, At
  <2>2. i = "Confirmed"
    BY <1>5 DEF Answers, ActAnswers
  <2> DEFINE t == Act("Validated", "Confirmed", "Attesting", "Attest")
             s == P!Advance(r, t)
  <2>3. t \in FlightTransition /\ P!Edges(r, i) = {t}
    BY <1>5, <2>1, <2>2, EdgesOf DEF FlightTransition, ActTransition
  <2>4. t.to = "Attesting" /\ t.emit = "Attest" /\ t.to \notin FlightTerminal
    BY DEF Act, FlightTerminal
  <2> HIDE DEF t
  <2>5. /\ s \in P!JobRecord /\ s.machine = "act" /\ s.phase = "Attesting" /\ s.performed = <<>>
        /\ s.owed = "Attest" /\ s.at = "effect" /\ s.result = "pending"
    BY <1>1, <1>5, <2>1, <2>2, <2>3, <2>4, AdvanceFields
  <2> HIDE DEF s
  <2>6. Life(s)
    BY <2>5 DEF Life, ActLife, At
  <2>7. QED
    BY <1>5, <2>1, <2>2, <2>3, <2>5, <2>6 DEF s
<1>6. CASE r.machine = "act" /\ r.phase \notin {"Received", "Validated"}
  <2>1. r.phase = "Attesting" /\ r.result = "pending" /\ r.performed # <<>>
    BY <1>1, <1>6 DEF ChatLife, ActLife, At
  <2>2. i = "Attested"
    BY <1>6, <2>1 DEF Answers, ActAnswers
  <2> DEFINE t == Act("Attesting", "Attested", "Done", "none")
             s == P!Advance(r, t)
  <2>3. t \in FlightTransition /\ P!Edges(r, i) = {t}
    BY <1>6, <2>1, <2>2, EdgesOf DEF FlightTransition, ActTransition
  <2>4. t.to = "Done" /\ t.emit = "none" /\ t.to \in FlightTerminal
    BY DEF Act, FlightTerminal
  <2> HIDE DEF t
  <2>5. /\ s \in P!JobRecord /\ s.machine = "act" /\ s.phase = "Done" /\ s.performed # <<>>
        /\ s.owed = "none" /\ s.at = "ended" /\ s.result = "final"
    BY <1>1, <1>6, <2>1, <2>2, <2>3, <2>4, AdvanceFields
  <2> HIDE DEF s
  <2>6. Life(s)
    BY <2>5 DEF Life, ActLife, At
  <2>7. QED
    BY <1>6, <2>1, <2>2, <2>3, <2>5, <2>6 DEF s
<1>7. r.machine \in {"chat", "act"}
  BY <1>1 DEF ChatLife, ActLife
<1>8. QED
  BY <1>2, <1>3, <1>4, <1>5, <1>6, <1>7

LEMMA ActingLives ==
  ASSUME NEW r, Life(r), r.at = "effect"
  PROVE  LET s == P!Loop(P!Performed(r, <<r.owed>>))
         IN  Life(s) /\ s.at = "event" /\ s.machine = r.machine
<1> DEFINE p == P!Performed(r, <<r.owed>>)
           s == P!Loop(p)
<1>1. /\ r \in P!JobRecord /\ r.machine = "act" /\ r.owed = "Attest" /\ r.performed = <<>>
      /\ r.phase = "Attesting" /\ r.result = "pending"
  BY DEF Life, AbsentLife, ChatLife, ActLife, At
<1>2. /\ p \in P!JobRecord /\ p.machine = "act" /\ p.phase = "Attesting"
      /\ p.performed # <<>> /\ p.result = "pending"
  BY <1>1, PerformedFields
<1> HIDE DEF p
<1>3. p.phase \notin FlightTerminal
  BY <1>2 DEF FlightTerminal
<1>4. /\ s \in P!JobRecord /\ s.machine = "act" /\ s.phase = "Attesting" /\ s.performed # <<>>
      /\ s.owed = "none" /\ s.at = "event" /\ s.result = "pending"
  BY <1>2, <1>3, LoopFields
<1> HIDE DEF s
<1>5. Life(s)
  BY <1>4 DEF Life, ActLife, At
<1>6. QED
  BY <1>1, <1>4, <1>5 DEF s, p

LEMMA FailedLives ==
  ASSUME NEW r, Life(r), r.at = "event", Remote(r.machine, r.phase)
  PROVE  Life(P!Ended(r, "driver")) /\ P!Ended(r, "driver").at = "ended"
         /\ P!Ended(r, "driver").machine = r.machine
<1> DEFINE s == P!Ended(r, "driver")
<1>1. r \in P!JobRecord /\ r.machine = "chat" /\ r.phase = "Matched" /\ r.performed = <<>>
  BY DEF Life, AbsentLife, ChatLife, ActLife, Remote
<1>2. /\ s \in P!JobRecord /\ s.machine = "chat" /\ s.phase = "Matched" /\ s.performed = <<>>
      /\ s.owed = "none" /\ s.at = "ended" /\ s.result = "driver"
  BY <1>1, EndedFields
<1> HIDE DEF s
<1>3. Life(s)
  BY <1>2 DEF Life, ChatLife, At
<1>4. QED
  BY <1>1, <1>2, <1>3 DEF s

-----------------------------------------------------------------------------
(***************************************************************************)
(* The invariant.  A frame is dispatched exactly when it has a job, ahead  *)
(* exactly when it was not taken, and held exactly while it is the last    *)
(* one taken and its body is awaited.  While the source awaits the network *)
(* every flight under way is a chat that has been polled, which is what    *)
(* makes a chat the only flight that can cost a link.                      *)
(***************************************************************************)
Active == {"queued", "event", "effect"}

Waiting == {"hydrating", "pong"}

Booked ==
  \A n \in Position :
    /\ fate[n] = "dispatched" <=> job[n].at # "absent"
    /\ fate[n] = "ahead" <=> n > taken
    /\ fate[n] = "held" <=> src = "hydrating" /\ n = taken

Held == src = "hydrating" => taken \in Position

Turns ==
  /\ src \in Waiting =>
       /\ loop = "select"
       /\ \A j \in Position : job[j].at \in Active =>
            job[j].machine = "chat" /\ job[j].at # "queued"
  /\ loop = "returned" => \A j \in Position : job[j].at \notin Active

\* Everything but the jobs has its type.
Typed ==
  /\ taken \in 0 .. MaxFrames
  /\ src \in Source
  /\ fate \in [Position -> Fate]
  /\ cost \in [Position -> 0 .. MaxFrames]
  /\ loop \in {"select", "drain", "returned"}

Inv == Typed /\ Lives /\ Booked /\ Held /\ Turns /\ CompletionsPayForLosses

LEMMA InvTypes == Inv => TypeOK
BY DEF Inv, Typed, Lives, TypeOK, P!TypeOK

LEMMA LifeAt ==
  ASSUME NEW r, Life(r)
  PROVE  /\ r.at \in Active \cup {"absent", "ended"}
         /\ r.at = "effect" => r.machine = "act"
BY DEF Life, AbsentLife, ChatLife, ActLife, At, Active

\* When the source has its turn, every flight under way is a polled chat.
LEMMA TurnOfSource ==
  ASSUME SourceTurn
  PROVE  /\ loop = "select"
         /\ \A j \in Position : job[j].at \in Active =>
              job[j].machine = "chat" /\ job[j].at # "queued"
BY DEF SourceTurn, P!Running, Parked, Remote, Active

\* The parts of the invariant that say nothing of a step's new job.
LEMMA SameJobs ==
  ASSUME Inv, UNCHANGED job
  PROVE  Lives' /\ \A j \in Position : job'[j] = job[j]
BY DEF Inv, Lives

-----------------------------------------------------------------------------
(***************************************************************************)
(* The steps of the source.                                                *)
(***************************************************************************)

LEMMA InitInv == Init => Inv
<1> SUFFICES ASSUME Init PROVE Inv
  OBVIOUS
<1>1. \A j \in Position : job[j] = P!NoJob
  BY DEF Init, P!Init
<1>2. \A j \in Position : Life(job[j]) /\ job[j].at = "absent"
  BY <1>1, AbsentLives DEF P!NoJob
<1>3. Lives
  <2>1. P!NoJob \in P!JobRecord
    BY AbsentLives DEF Life
  <2>2. job \in [Position -> P!JobRecord]
    BY <2>1 DEF Init, P!Init
  <2>3. QED
    BY <1>2, <2>2 DEF Lives
<1>4. Typed
  BY FramesAssumption DEF Init, Typed, Source, Fate
<1>5. Booked /\ Turns
  BY <1>2 DEF Init, Booked, Turns, Position, Active, Waiting
<1>6. CompletionsPayForLosses
  BY DEF Init, CompletionsPayForLosses
<1>7. Held
  BY DEF Init, Held
<1>8. QED
  BY <1>3, <1>4, <1>5, <1>6, <1>7 DEF Inv

\* A frame taken: it is the next one, and it meets a fate that is not a job's.
LEMMA TakeKeeps ==
  ASSUME Inv, NEW n \in Position, NEW f \in {"skipped", "warned", "held"}, TakeFrame(n, f),
         f = "held" <=> src' = "hydrating", src' \in {"waiting", "pong", "hydrating"},
         loop' \in {"select", "drain"}, src' \in Waiting => loop' = loop
  PROVE  Inv'
<1>1. /\ loop = "select" /\ src = "waiting" /\ n = taken + 1 /\ taken' = n
      /\ fate' = [fate EXCEPT ![n] = f] /\ UNCHANGED <<job, cost>>
  BY DEF TakeFrame, SourceTurn
<1>2. Lives' /\ \A j \in Position : job'[j] = job[j]
  BY <1>1, SameJobs
<1>3. Typed /\ taken \in Nat
  BY DEF Inv, Typed
<1>4. fate' \in [Position -> Fate] /\ \A k \in Position : fate'[k] = IF k = n THEN f ELSE fate[k]
  BY <1>1, <1>3 DEF Typed, Fate
<1>5. Typed'
  BY <1>1, <1>3, <1>4 DEF Typed, Position, Source
<1>6. Booked'
  <2>1. fate[n] = "ahead" /\ job[n].at = "absent"
    BY <1>1, <1>3 DEF Inv, Booked
  <2>2. \A k \in Position : k # n => /\ fate'[k] = fate[k] /\ fate[k] # "held"
                                     /\ (k > n <=> k > taken)
    BY <1>1, <1>3, <1>4 DEF Inv, Booked, Position
  <2>3. QED
    BY <1>1, <1>2, <1>3, <1>4, <2>1, <2>2 DEF Inv, Booked, Position
<1>7. Turns'
  <2>1. \A j \in Position : job[j].at \in Active =>
          job[j].machine = "chat" /\ job[j].at # "queued"
    BY TurnOfSource DEF TakeFrame
  <2>2. QED
    BY <1>1, <1>2, <2>1 DEF Turns
<1>8. CompletionsPayForLosses'
  BY <1>1, <1>2, <1>4 DEF Inv, CompletionsPayForLosses
<1>9. Held'
  BY <1>1 DEF Held
<1>10. QED
  BY <1>9, <1>2, <1>5, <1>6, <1>7, <1>8 DEF Inv

\* The source comes to rest, or the loop moves on, with no frame in hand.
LEMMA RestKeeps ==
  ASSUME Inv, UNCHANGED <<job, taken, fate, cost>>, src # "hydrating",
         src' \in {"waiting", "broken"} \/ (src' = src /\ src \notin Waiting),
         loop' \in {"select", "drain", "returned"},
         loop' = "returned" => P!Running = {}
  PROVE  Inv'
<1>1. Lives' /\ \A j \in Position : job'[j] = job[j]
  BY SameJobs
<1>2. Typed'
  BY DEF Inv, Typed, Source
<1>3. src' \notin Waiting /\ src' # "hydrating"
  BY DEF Waiting
<1>4. Booked'
  BY <1>1, <1>3 DEF Inv, Booked
<1>5. Turns'
  BY <1>1, <1>3 DEF Turns, P!Running, Active
<1>6. CompletionsPayForLosses'
  BY <1>1 DEF Inv, CompletionsPayForLosses
<1>7. Held'
  BY <1>3 DEF Held
<1>8. QED
  BY <1>7, <1>1, <1>2, <1>4, <1>5, <1>6 DEF Inv

\* The held link is let go without a job.
LEMMA LetGoKeeps ==
  ASSUME Inv, src = "hydrating", src' = "waiting", NEW f \in {"warned", "unmatched"},
         fate' = [fate EXCEPT ![taken] = f], UNCHANGED <<job, taken, cost, loop>>
  PROVE  Inv'
<1>1. Lives' /\ \A j \in Position : job'[j] = job[j]
  BY SameJobs
<1>2. Typed
  BY DEF Inv, Typed
<1>3. fate' \in [Position -> Fate]
      /\ \A k \in Position : fate'[k] = IF k = taken THEN f ELSE fate[k]
  BY <1>2 DEF Typed, Fate
<1>4. Typed'
  BY <1>2, <1>3 DEF Typed, Source
<1>5. Booked'
  BY <1>1, <1>3 DEF Inv, Booked
<1>6. Turns'
  BY <1>1 DEF Inv, Turns, Waiting
<1>7. CompletionsPayForLosses'
  BY <1>1, <1>3 DEF Inv, CompletionsPayForLosses
<1>8. Held'
  BY DEF Held
<1>9. QED
  BY <1>8, <1>1, <1>4, <1>5, <1>6, <1>7 DEF Inv

\* The held link becomes a job.
LEMMA SpawnKeeps ==
  ASSUME Inv, src = "hydrating", src' = "waiting", NEW m \in Flight, P!Spawn(taken, m),
         fate' = [fate EXCEPT ![taken] = "dispatched"], UNCHANGED <<taken, cost, loop>>
  PROVE  Inv'
<1> DEFINE r == P!Spawned(m)
<1>1. Typed /\ Lives /\ taken \in 0 .. MaxFrames
  BY DEF Inv, Typed
<1>2. job' = [job EXCEPT ![taken] = r] /\ job[taken].at = "absent"
  BY DEF P!Spawn
<1>3. Life(r) /\ r.at = "queued" /\ r \in P!JobRecord
  BY SpawnedLives DEF Life
<1> HIDE DEF r
<1>4. job' \in [Position -> P!JobRecord]
      /\ \A k \in Position : job'[k] = IF k = taken THEN r ELSE job[k]
  BY <1>1, <1>2, <1>3 DEF Lives
<1>5. Lives'
  BY <1>1, <1>3, <1>4 DEF Lives
<1>6. fate' \in [Position -> Fate]
      /\ \A k \in Position : fate'[k] = IF k = taken THEN "dispatched" ELSE fate[k]
  BY <1>1 DEF Typed, Fate
<1>7. Typed'
  BY <1>1, <1>6 DEF Typed, Source
<1>8. Booked'
  BY <1>3, <1>4, <1>6 DEF Inv, Booked
<1>9. Turns'
  BY DEF Inv, Turns, Waiting
<1>10. CompletionsPayForLosses'
  <2>1. \A n \in Position : job[n].at = "ended" => job'[n] = job[n]
    BY <1>2, <1>4
  <2>2. \A n \in Position : fate'[n] = "lost" => fate[n] = "lost"
    BY <1>6
  <2>3. \A n \in Position : fate[n] = "lost" => cost[n] \in Position
    BY FramesAssumption DEF Inv, CompletionsPayForLosses, Position
  <2>4. QED
    BY <2>1, <2>2, <2>3 DEF Inv, CompletionsPayForLosses
<1>11. Held'
  BY DEF Held
<1>12. QED
  BY <1>11, <1>5, <1>7, <1>8, <1>9, <1>10 DEF Inv

-----------------------------------------------------------------------------
(***************************************************************************)
(* The steps of the jobs.                                                  *)
(***************************************************************************)

\* Whatever a job does, its record becomes r, the life of the same flight.
Moves(j, r) ==
  /\ Life(r) /\ r.machine = job[j].machine /\ r.at \in {"event", "effect", "ended"}
  /\ job[j].at \in Active
  /\ job' = [job EXCEPT ![j] = r]
  /\ loop \in {"select", "drain"}
  /\ AfterJob(j)

LEMMA StepMoves ==
  ASSUME Lives, NEW j \in Position, JobStep(j)
  PROVE  \E r : Moves(j, r)
<1>1. Life(job[j])
  BY DEF Lives
<1>2. CASE JobPolled(j)
  <2>1. job[j].at = "queued" /\ job' = [job EXCEPT ![j] = P!Loop(job[j])]
    BY <1>2 DEF JobPolled, P!FirstPoll
  <2>2. Moves(j, P!Loop(job[j]))
    BY <1>1, <1>2, <2>1, PolledLives DEF Moves, JobPolled, JobTurn, Active
  <2>3. QED
    BY <2>2
<1>3. CASE JobAnswered(j)
  <2>1. PICK i \in Answers(job[j].machine, job[j].phase) : P!NextEvent(j, i)
    BY <1>3 DEF JobAnswered
  <2>2. job[j].at = "event"
    BY <2>1 DEF P!NextEvent
  <2>3. PICK t \in FlightTransition :
          /\ P!Edges(job[j], i) = {t}
          /\ Life(P!Advance(job[j], t)) /\ P!Advance(job[j], t).machine = job[j].machine
          /\ P!Advance(job[j], t).at \in {"event", "effect", "ended"}
    BY <1>1, <2>2, AnsweredLives
  <2>4. job' = [job EXCEPT ![j] = P!Advance(job[j], t)]
    BY <2>1, <2>3 DEF P!NextEvent
  <2>5. Moves(j, P!Advance(job[j], t))
    BY <1>3, <2>2, <2>3, <2>4 DEF Moves, JobAnswered, JobTurn, Active
  <2>6. QED
    BY <2>5
<1>4. CASE JobFails(j)
  <2>1. /\ job[j].at = "event" /\ job' = [job EXCEPT ![j] = P!Ended(job[j], "driver")]
        /\ Remote(job[j].machine, job[j].phase)
    BY <1>4 DEF JobFails, P!NextEventFails, Parked
  <2>2. Moves(j, P!Ended(job[j], "driver"))
    BY <1>1, <1>4, <2>1, FailedLives DEF Moves, JobFails, JobTurn, Active
  <2>3. QED
    BY <2>2
<1>5. CASE JobActs(j)
  <2> DEFINE r == P!Loop(P!Performed(job[j], <<job[j].owed>>))
  <2>1. job[j].at = "effect" /\ job' = [job EXCEPT ![j] = r]
    BY <1>5 DEF JobActs, P!EffectDone
  <2>2. Life(r) /\ r.at = "event" /\ r.machine = job[j].machine
    BY <1>1, <2>1, ActingLives
  <2> HIDE DEF r
  <2>3. Moves(j, r)
    BY <1>5, <2>1, <2>2 DEF Moves, JobActs, JobTurn, Active
  <2>4. QED
    BY <2>3
<1>6. QED
  BY <1>2, <1>3, <1>4, <1>5 DEF JobStep

LEMMA JobKeeps ==
  ASSUME Inv, NEW j \in Position, NEW r, Moves(j, r)
  PROVE  Inv'
<1>1. Typed /\ Lives /\ taken \in 0 .. MaxFrames /\ fate[j] = "dispatched"
  BY DEF Inv, Typed, Booked, Moves, Active
<1>2. r \in P!JobRecord /\ Life(r)
  BY DEF Moves, Life
<1>3. job' \in [Position -> P!JobRecord]
      /\ \A k \in Position : job'[k] = IF k = j THEN r ELSE job[k]
  BY <1>1, <1>2 DEF Lives, Moves
<1>4. Lives'
  BY <1>1, <1>2, <1>3 DEF Lives
<1>5. UNCHANGED <<taken, loop>> /\ loop \in {"select", "drain"}
  BY DEF Moves, AfterJob
<1>6. \A k \in Position :
        /\ job'[k].at \in Active =>
             \/ job'[k] = job[k]
             \/ job[k].at \in Active /\ job'[k].at # "queued"
        /\ job'[k].at = "absent" <=> job[k].at = "absent"
        /\ job'[k].machine = job[k].machine
        /\ job[k].at = "ended" => job'[k] = job[k]
  BY <1>3 DEF Moves, Active
<1>7. CASE r.at = "ended" /\ loop = "select" /\ src = "hydrating"
  <2>1. /\ src' = "waiting" /\ fate' = [fate EXCEPT ![taken] = "lost"]
        /\ cost' = [cost EXCEPT ![taken] = j]
    BY <1>3, <1>7 DEF Moves, AfterJob, Completed
  <2>2. taken # j /\ fate[j] # "ahead" /\ j < taken /\ taken \in Position
    BY <1>1, <1>7 DEF Inv, Booked, Held, Position
  <2>3. fate[taken] = "held" /\ job[taken].at = "absent"
    BY <1>7, <2>2 DEF Inv, Booked
  <2>4. /\ fate' \in [Position -> Fate] /\ cost' \in [Position -> 0 .. MaxFrames]
        /\ \A k \in Position : fate'[k] = IF k = taken THEN "lost" ELSE fate[k]
        /\ \A k \in Position : cost'[k] = IF k = taken THEN j ELSE cost[k]
    <3>1. j \in 0 .. MaxFrames /\ "lost" \in Fate
      BY FramesAssumption DEF Position, Fate
    <3>2. QED
      BY <1>1, <2>1, <3>1 DEF Typed
  <2>5. Typed'
    BY <1>1, <1>5, <2>1, <2>4 DEF Typed, Source
  <2>6. Booked'
    BY <1>5, <1>6, <2>1, <2>3, <2>4 DEF Inv, Booked
  <2>7. Turns'
    BY <1>5, <2>1 DEF Turns, Waiting
  <2>8. job[j].machine = "chat" /\ job[j].at # "ended"
    BY <1>7 DEF Inv, Turns, Waiting, Moves, Active
  <2>9. \A k \in Position : fate[k] = "lost" => cost[k] \in Position /\ cost[k] # j
                                                /\ job'[cost[k]] = job[cost[k]]
    BY <1>6, <2>8, FramesAssumption DEF Inv, CompletionsPayForLosses, Position
  <2>10. CompletionsPayForLosses'
    <3>1. \A k \in Position : fate'[k] = "lost" =>
            /\ cost'[k] \in 1 .. k - 1
            /\ job'[cost'[k]].at = "ended" /\ job'[cost'[k]].machine = "chat"
      <4> SUFFICES ASSUME NEW k \in Position, fate'[k] = "lost"
                   PROVE  /\ cost'[k] \in 1 .. k - 1
                          /\ job'[cost'[k]].at = "ended" /\ job'[cost'[k]].machine = "chat"
        OBVIOUS
      <4>1. CASE k = taken
        BY <1>3, <1>6, <1>7, <2>2, <2>4, <2>8, <4>1 DEF Position
      <4>2. CASE k # taken
        BY <2>4, <2>9, <4>2 DEF Inv, CompletionsPayForLosses
      <4>3. QED
        BY <4>1, <4>2
    <3>2. \A k, l \in Position : fate'[k] = "lost" /\ fate'[l] = "lost" /\ cost'[k] = cost'[l] => k = l
      BY <2>4, <2>9 DEF Inv, CompletionsPayForLosses
    <3>3. QED
      BY <3>1, <3>2 DEF CompletionsPayForLosses
  <2>11. Held'
    BY <2>1 DEF Held
  <2>12. QED
    BY <1>4, <2>5, <2>6, <2>7, <2>10, <2>11 DEF Inv
<1>8. CASE ~(r.at = "ended" /\ loop = "select" /\ src = "hydrating")
  <2>1. UNCHANGED <<fate, cost>>
        /\ (src' = src \/ (src' \in {"waiting", "broken"} /\ src # "hydrating"))
    <3>1. job'[j] = r
      BY <1>3
    <3>2. CASE r.at = "ended" /\ loop = "select"
      BY <1>8, <3>1, <3>2 DEF Moves, AfterJob, Completed
    <3>3. CASE r.at = "ended" /\ loop # "select"
      BY <3>1, <3>3 DEF Moves, AfterJob, Completed
    <3>4. CASE r.at # "ended"
      BY <3>1, <3>4 DEF Moves, AfterJob
    <3>5. QED
      BY <3>2, <3>3, <3>4
  <2>2. Typed'
    BY <1>1, <1>5, <2>1 DEF Typed, Source
  <2>3. Booked'
    BY <1>5, <1>6, <2>1 DEF Inv, Booked
  <2>4. Turns'
    <3>1. loop' # "returned"
      BY <1>5
    <3>2. src' \in Waiting => src \in Waiting
      BY <2>1 DEF Waiting
    <3>3. src \in Waiting => /\ loop' = "select"
                             /\ \A k \in Position : job'[k].at \in Active =>
                                  job'[k].machine = "chat" /\ job'[k].at # "queued"
      BY <1>5, <1>6 DEF Inv, Turns
    <3>4. QED
      BY <3>1, <3>2, <3>3 DEF Turns
  <2>5. CompletionsPayForLosses'
    <3>1. \A n \in Position : fate[n] = "lost" => cost[n] \in Position
      BY FramesAssumption DEF Inv, CompletionsPayForLosses, Position
    <3>2. QED
      BY <1>6, <2>1, <3>1 DEF Inv, CompletionsPayForLosses
  <2>6. Held'
    BY <1>5, <2>1 DEF Inv, Held
  <2>7. QED
    BY <1>4, <2>2, <2>3, <2>4, <2>5, <2>6 DEF Inv
<1>9. QED
  BY <1>7, <1>8

-----------------------------------------------------------------------------
(***************************************************************************)
(* Every step keeps the invariant.                                         *)
(***************************************************************************)

LEMMA NextInv == Inv /\ [Next]_vars => Inv'
<1> SUFFICES ASSUME Inv, [Next]_vars PROVE Inv'
  OBVIOUS
<1>1. ASSUME NEW n \in Position, SkipFrame(n) PROVE Inv'
  BY <1>1, TakeKeeps DEF SkipFrame, TakeFrame, SourceTurn
<1>2. ASSUME NEW n \in Position, WarnFrame(n) PROVE Inv'
  BY <1>2, TakeKeeps DEF WarnFrame, TakeFrame, SourceTurn
<1>3. ASSUME NEW n \in Position, HoldLink(n) PROVE Inv'
  BY <1>3, TakeKeeps DEF HoldLink, TakeFrame, SourceTurn
<1>4. ASSUME NEW n \in Position, Ping(n) PROVE Inv'
  BY <1>4, TakeKeeps DEF Ping, TakeFrame, SourceTurn
<1>5. ASSUME NEW n \in Position, Close(n) PROVE Inv'
  BY <1>5, TakeKeeps DEF Close, TakeFrame, Waiting
<1>6. CASE PongAnswered
  BY <1>6, RestKeeps DEF PongAnswered, SourceTurn
<1>7. CASE ReadBreaks
  BY <1>7, RestKeeps DEF ReadBreaks, SourceTurn
<1>8. CASE StreamEnds
  BY <1>8, RestKeeps DEF StreamEnds, Waiting
<1>9. CASE HydrateFails
  BY <1>9, LetGoKeeps DEF HydrateFails
<1>10. ASSUME NEW spotted \in BOOLEAN, NEW isAct \in BOOLEAN, Hydrated(spotted, isAct)
       PROVE Inv'
  <2>1. src = "hydrating" /\ src' = "waiting" /\ UNCHANGED <<taken, cost, loop>>
    BY <1>10 DEF Hydrated
  <2>2. Route(spotted, isAct) \subseteq Flight
    BY DEF Route, Flight
  <2>3. CASE \E m \in Route(spotted, isAct) :
               P!Spawn(taken, m) /\ fate' = [fate EXCEPT ![taken] = "dispatched"]
    BY <2>1, <2>2, <2>3, SpawnKeeps
  <2>4. CASE fate' = [fate EXCEPT ![taken] = "unmatched"] /\ UNCHANGED job
    BY <2>1, <2>4, LetGoKeeps
  <2>5. QED
    BY <1>10, <2>3, <2>4 DEF Hydrated
<1>11. ASSUME NEW j \in Position, JobStep(j) PROVE Inv'
  BY <1>11, StepMoves, JobKeeps DEF Inv
<1>12. CASE Return
  <2>1. /\ loop = "drain" /\ loop' = "returned" /\ P!Running = {}
        /\ UNCHANGED <<job, taken, src, fate, cost>>
    BY <1>12 DEF Return
  <2>2. src \notin Waiting /\ src # "hydrating"
    BY <2>1 DEF Inv, Turns, Waiting
  <2>3. QED
    BY <2>1, <2>2, RestKeeps
<1>13. CASE UNCHANGED vars
  <2>1. Lives' /\ \A j \in Position : job'[j] = job[j]
    BY <1>13, SameJobs DEF vars
  <2>2. QED
    BY <1>13, <2>1 DEF vars, Inv, Typed, Booked, Held, Turns, CompletionsPayForLosses
<1>14. QED
  BY <1>1, <1>2, <1>3, <1>4, <1>5, <1>6, <1>7, <1>8, <1>9, <1>10, <1>11, <1>12, <1>13
  DEF Next, SourceStep, JobStep

LEMMA SpecInv == Spec => []Inv
<1>1. QED
  BY InitInv, NextInv, PTL DEF Spec

-----------------------------------------------------------------------------
(***************************************************************************)
(* What follows from the invariant.                                        *)
(***************************************************************************)

\* Types, for a stream of any length.
THEOREM TypeCorrect == Spec => []TypeOK
<1>1. QED
  BY SpecInv, InvTypes, PTL

\* A link is lost only to an earlier chat that completed, and no completion loses two.
THEOREM LossesArePaidFor == Spec => []CompletionsPayForLosses
<1>1. Inv => CompletionsPayForLosses
  BY DEF Inv
<1>2. QED
  BY <1>1, SpecInv, PTL

\* When the source awaits the network, every command dispatched has been polled.
THEOREM CommandsStartFirst == Spec => []StartedBeforeNext
<1>1. Inv => StartedBeforeNext
  BY DEF Inv, Turns, StartedBeforeNext, Waiting, Active
<1>2. QED
  BY <1>1, SpecInv, PTL

\* When `run` returns no link is in hand and every command dispatched was handled.
THEOREM NothingIsLeft == Spec => []ReturnMeansDone
<1>1. Inv => ReturnMeansDone
  <2> SUFFICES ASSUME Inv, loop = "returned", NEW n \in Position
               PROVE  fate[n] # "held" /\ (fate[n] = "dispatched" => job[n].at = "ended")
    BY DEF ReturnMeansDone
  <2>1. fate[n] # "held"
    BY DEF Inv, Booked, Turns, Waiting
  <2>2. ASSUME fate[n] = "dispatched" PROVE job[n].at = "ended"
    <3>1. job[n].at # "absent" /\ job[n].at \notin Active
      BY <2>2 DEF Inv, Booked, Turns
    <3>2. QED
      BY <3>1, LifeAt DEF Inv, Lives
  <2>3. QED
    BY <2>1, <2>2
<1>2. QED
  BY <1>1, SpecInv, PTL

\* The outcome `run` logs for a flight says whether its effect took place.
THEOREM OutcomesAreTrue == Spec => []OutcomeMatchesEffects
<1>1. Inv => OutcomeMatchesEffects
  <2> SUFFICES ASSUME Inv, NEW j \in Position, job[j].at = "ended"
               PROVE  /\ Outcome(job[j].result, job[j].phase) = "DryRun" <=>
                           job[j].performed # <<>>
                      /\ job[j].machine = "chat" => job[j].performed = <<>>
    BY DEF OutcomeMatchesEffects
  <2>1. ChatLife(job[j]) \/ ActLife(job[j])
    BY DEF Inv, Lives, Life, AbsentLife
  <2>2. CASE ChatLife(job[j])
    BY <2>2 DEF ChatLife, At, Outcome
  <2>3. CASE ActLife(job[j])
    BY <2>3 DEF ActLife, At, Outcome
  <2>4. QED
    BY <2>1, <2>2, <2>3
<1>2. QED
  BY <1>1, SpecInv, PTL

\* No flight is ever given an input its machine has no edge for.
THEOREM DriversKeepTheContract == Spec => []FlightsNeverStick
<1>1. Inv => FlightsNeverStick
  BY DEF Inv, Lives, Life, AbsentLife, ChatLife, ActLife, At, FlightsNeverStick
<1>2. QED
  BY <1>1, SpecInv, PTL

-----------------------------------------------------------------------------
(***************************************************************************)
(* Refinement: what each step does to StatusOf and OverOf.                 *)
(***************************************************************************)

\* StatusOf, frame by frame.
LEMMA StatusIs ==
  /\ StatusOf = [n \in Position |-> StatusOf[n]]
  /\ \A n \in Position :
       /\ fate[n] \in {"ahead", "held", "lost"} => StatusOf[n] = fate[n]
       /\ fate[n] \in {"skipped", "warned", "unmatched"} => StatusOf[n] = "dropped"
       /\ fate[n] = "dispatched" =>
            StatusOf[n] = IF job[n].at = "ended" THEN "handled" ELSE "running"
BY DEF StatusOf

LEMMA StatusIsNext ==
  /\ StatusOf' = [n \in Position |-> StatusOf'[n]]
  /\ \A n \in Position :
       /\ fate'[n] \in {"ahead", "held", "lost"} => StatusOf'[n] = fate'[n]
       /\ fate'[n] \in {"skipped", "warned", "unmatched"} => StatusOf'[n] = "dropped"
       /\ fate'[n] = "dispatched" =>
            StatusOf'[n] = IF job'[n].at = "ended" THEN "handled" ELSE "running"
BY DEF StatusOf

\* Only a held frame has status held, only a frame to come ahead, and so on.
LEMMA StatusTells ==
  ASSUME Inv
  PROVE  \A n \in Position :
           /\ StatusOf[n] = "ahead" <=> n > taken
           /\ StatusOf[n] = "held" <=> src = "hydrating" /\ n = taken
           /\ StatusOf[n] = "running" <=> job[n].at \in Active
<1> SUFFICES ASSUME NEW n \in Position
             PROVE  /\ StatusOf[n] = "ahead" <=> n > taken
                    /\ StatusOf[n] = "held" <=> src = "hydrating" /\ n = taken
                    /\ StatusOf[n] = "running" <=> job[n].at \in Active
  OBVIOUS
<1>1. fate[n] \in Fate
  BY DEF Inv, Typed
<1>2. job[n].at \in Active \cup {"absent", "ended"}
  BY LifeAt DEF Inv, Lives
<1>3. StatusOf[n] = "ahead" <=> fate[n] = "ahead"
  BY <1>1, StatusIs DEF Fate
<1>4. StatusOf[n] = "held" <=> fate[n] = "held"
  BY <1>1, StatusIs DEF Fate
<1>5. StatusOf[n] = "running" <=> fate[n] = "dispatched" /\ job[n].at # "ended"
  BY <1>1, StatusIs DEF Fate
<1>6. QED
  BY <1>2, <1>3, <1>4, <1>5 DEF Inv, Booked, Active

\* A step that changes one frame's status.
LEMMA StatusMoves ==
  ASSUME Inv, NEW n \in Position, NEW s, StatusOf'[n] = s,
         \A k \in Position \ {n} : fate'[k] = fate[k] /\ job'[k] = job[k]
  PROVE  StatusOf' = [StatusOf EXCEPT ![n] = s]
<1>1. \A k \in Position \ {n} : StatusOf'[k] = StatusOf[k]
  BY DEF StatusOf
<1>2. QED
  BY <1>1, StatusIs, StatusIsNext

LEMMA InitRefines == Init => Abs!Init
<1> SUFFICES ASSUME Init PROVE Abs!Init
  OBVIOUS
<1>1. \A n \in Position : StatusOf[n] = "ahead"
  BY StatusIs DEF Init
<1>2. StatusOf = [n \in Position |-> "ahead"]
  BY <1>1, StatusIs
<1>3. OverOf = "no"
  BY DEF Init, OverOf
<1>4. QED
  BY <1>2, <1>3 DEF Abs!Init

\* The source in its turn: nothing is held unless it is hydrating, and n is next.
LEMMA TakeRefines ==
  ASSUME Inv, NEW n \in Position, NEW f \in {"skipped", "warned", "held"}, TakeFrame(n, f)
  PROVE  /\ Abs!Free /\ Abs!IsNext(n) /\ OverOf = "no"
         /\ f = "held" => StatusOf' = [StatusOf EXCEPT ![n] = "held"]
         /\ f # "held" => StatusOf' = [StatusOf EXCEPT ![n] = "dropped"]
<1>1. /\ loop = "select" /\ src = "waiting" /\ n = taken + 1
      /\ fate' = [fate EXCEPT ![n] = f] /\ job' = job
  BY DEF TakeFrame, SourceTurn
<1>2. fate \in [Position -> Fate] /\ taken \in Nat
  BY DEF Inv, Typed
<1>3. fate'[n] = f /\ \A k \in Position \ {n} : fate'[k] = fate[k] /\ job'[k] = job[k]
  BY <1>1, <1>2
<1>4. Abs!Free
  BY <1>1, StatusTells DEF Abs!Free
<1>5. Abs!IsNext(n)
  BY <1>1, <1>2, StatusTells DEF Abs!IsNext, Position
<1>6. OverOf = "no"
  BY <1>1 DEF OverOf
<1>7. f = "held" => StatusOf'[n] = "held"
  BY <1>3, StatusIsNext
<1>8. f # "held" => StatusOf'[n] = "dropped"
  BY <1>3, StatusIsNext
<1>9. QED
  BY <1>3, <1>4, <1>5, <1>6, <1>7, <1>8, StatusMoves

\* A step that touches neither jobs, fates nor loop is a stutter.
LEMMA RestRefines ==
  ASSUME UNCHANGED <<job, fate, loop>>
  PROVE  UNCHANGED Abs!vars
BY DEF StatusOf, OverOf, Abs!vars

\* The held frame is decided.
LEMMA DecideRefines ==
  ASSUME Inv, src = "hydrating", UNCHANGED loop,
         NEW f \in {"warned", "unmatched", "dispatched"},
         fate' = [fate EXCEPT ![taken] = f],
         \A k \in Position \ {taken} : job'[k] = job[k],
         f = "dispatched" => job'[taken].at # "ended"
  PROVE  Abs!Next
<1>1. fate \in [Position -> Fate] /\ taken \in 0 .. MaxFrames
  BY DEF Inv, Typed
<1>2. taken \in Position
  BY DEF Inv, Held
<1>3. fate'[taken] = f /\ \A k \in Position \ {taken} : fate'[k] = fate[k] /\ job'[k] = job[k]
  BY <1>1, <1>2
<1>4. StatusOf[taken] = "held" /\ OverOf' = OverOf
  BY <1>2, StatusTells DEF OverOf
<1>5. CASE f = "dispatched"
  <2>1. StatusOf'[taken] = "running"
    BY <1>2, <1>3, <1>5, StatusIsNext
  <2>2. StatusOf' = [StatusOf EXCEPT ![taken] = "running"]
    BY <1>2, <1>3, <2>1, StatusMoves
  <2>3. QED
    BY <1>2, <1>4, <2>2 DEF Abs!Start, Abs!Next
<1>6. CASE f # "dispatched"
  <2>1. StatusOf'[taken] = "dropped"
    BY <1>2, <1>3, <1>6, StatusIsNext
  <2>2. StatusOf' = [StatusOf EXCEPT ![taken] = "dropped"]
    BY <1>2, <1>3, <2>1, StatusMoves
  <2>3. QED
    BY <1>2, <1>4, <2>2 DEF Abs!Drop, Abs!Next
<1>7. QED
  BY <1>5, <1>6

\* A job that goes on is a stutter; one that completes is handled, and costs the link in hand.
LEMMA JobRefines ==
  ASSUME Inv, NEW j \in Position, NEW r, Moves(j, r)
  PROVE  Abs!Next \/ UNCHANGED Abs!vars
<1>1. fate \in [Position -> Fate] /\ fate[j] = "dispatched" /\ StatusOf[j] = "running"
  BY StatusTells DEF Inv, Typed, Booked, Moves, Active
<1>2. \A k \in Position : job'[k] = IF k = j THEN r ELSE job[k]
  BY DEF Inv, Lives, Moves
<1>3. OverOf' = OverOf
  BY DEF Moves, AfterJob, OverOf
<1>4. CASE r.at # "ended"
  <2>1. fate' = fate
    BY <1>2, <1>4 DEF Moves, AfterJob
  <2>2. StatusOf'[j] = "running"
    BY <1>1, <1>2, <1>4, <2>1, StatusIsNext
  <2>3. StatusOf' = [StatusOf EXCEPT ![j] = "running"]
    BY <1>2, <2>1, <2>2, StatusMoves
  <2>4. StatusOf' = StatusOf
    BY <1>1, <2>3, StatusIs
  <2>5. QED
    BY <1>3, <2>4 DEF Abs!vars
<1>5. CASE r.at = "ended"
  <2>1. \A k \in Position \ {j} :
          StatusOf'[k] = IF StatusOf[k] = "held" THEN "lost" ELSE StatusOf[k]
    <3> SUFFICES ASSUME NEW k \in Position, k # j
                 PROVE  StatusOf'[k] = IF StatusOf[k] = "held" THEN "lost" ELSE StatusOf[k]
      OBVIOUS
    <3>1. job'[k] = job[k]
      BY <1>2
    <3>2. CASE StatusOf[k] = "held"
      <4>1. src = "hydrating" /\ k = taken /\ loop = "select"
        BY <3>2, StatusTells DEF Inv, Turns, Waiting
      <4>2. fate'[k] = "lost"
        BY <1>1, <1>2, <1>5, <4>1 DEF Moves, AfterJob, Completed
      <4>3. QED
        BY <3>2, <4>2, StatusIsNext
    <3>3. CASE StatusOf[k] # "held"
      <4>1. ~(src = "hydrating" /\ k = taken)
        BY <3>3, StatusTells
      <4>2. fate'[k] = fate[k]
        BY <1>1, <1>2, <1>5, <4>1 DEF Moves, AfterJob, Completed
      <4>3. StatusOf'[k] = StatusOf[k]
        BY <3>1, <4>2 DEF StatusOf
      <4>4. QED
        BY <3>3, <4>3
    <3>4. QED
      BY <3>2, <3>3
  <2>2. StatusOf'[j] = "handled"
    <3>1. ~(src = "hydrating" /\ j = taken)
      BY <1>1, StatusTells
    <3>2. fate'[j] = "dispatched"
      BY <1>1, <1>2, <1>5, <3>1 DEF Moves, AfterJob, Completed
    <3>3. QED
      BY <1>2, <1>5, <3>2, StatusIsNext
  <2>3. StatusOf' = [n \in Position |-> IF n = j THEN "handled"
                                        ELSE IF StatusOf[n] = "held" THEN "lost"
                                        ELSE StatusOf[n]]
    BY <2>1, <2>2, StatusIsNext
  <2>4. QED
    BY <1>1, <1>3, <2>3 DEF Abs!Handle, Abs!Next
<1>6. QED
  BY <1>4, <1>5

LEMMA NextRefines == Inv /\ [Next]_vars => [Abs!Next]_(Abs!vars)
<1> SUFFICES ASSUME Inv, [Next]_vars PROVE Abs!Next \/ UNCHANGED Abs!vars
  OBVIOUS
<1>1. ASSUME NEW n \in Position, NEW f \in {"skipped", "warned", "held"},
             TakeFrame(n, f), UNCHANGED loop
      PROVE  Abs!Next
  <2>1. OverOf' = OverOf
    BY <1>1 DEF OverOf
  <2>2. Abs!Take(n)
    BY <1>1, <2>1, TakeRefines DEF Abs!Take
  <2>3. QED
    BY <2>2 DEF Abs!Next
<1>2. ASSUME NEW n \in Position, Close(n) PROVE Abs!Next
  <2>1. OverOf' = "ending"
    BY <1>2 DEF Close, OverOf
  <2>2. Abs!End(n)
    BY <1>2, <2>1, TakeRefines DEF Abs!End, Close
  <2>3. QED
    BY <2>2 DEF Abs!Next
<1>3. CASE PongAnswered \/ ReadBreaks
  BY <1>3, RestRefines DEF PongAnswered, ReadBreaks
<1>4. CASE StreamEnds
  <2>1. /\ loop = "select" /\ loop' = "drain" /\ src # "hydrating"
        /\ UNCHANGED <<job, fate>>
    BY <1>4 DEF StreamEnds, SourceTurn
  <2>2. OverOf = "no" /\ OverOf' = "ending" /\ StatusOf' = StatusOf
    BY <2>1 DEF OverOf, StatusOf
  <2>3. Abs!Free
    BY <2>1, StatusTells DEF Abs!Free
  <2>4. QED
    BY <2>2, <2>3 DEF Abs!Break, Abs!Next
<1>5. CASE HydrateFails
  BY <1>5, DecideRefines DEF HydrateFails
<1>6. ASSUME NEW spotted \in BOOLEAN, NEW isAct \in BOOLEAN, Hydrated(spotted, isAct)
      PROVE  Abs!Next
  <2>1. src = "hydrating" /\ UNCHANGED loop
    BY <1>6 DEF Hydrated
  <2>2. CASE fate' = [fate EXCEPT ![taken] = "unmatched"] /\ UNCHANGED job
    BY <2>1, <2>2, DecideRefines
  <2>3. ASSUME NEW m \in Route(spotted, isAct), P!Spawn(taken, m),
               fate' = [fate EXCEPT ![taken] = "dispatched"]
        PROVE  Abs!Next
    <3>1. m \in Flight
      BY DEF Route, Flight
    <3>2. taken \in Position /\ job \in [Position -> P!JobRecord]
      BY <2>1 DEF Inv, Held, Lives
    <3>3. job' = [job EXCEPT ![taken] = P!Spawned(m)]
      BY <2>3 DEF P!Spawn
    <3>4. job'[taken].at = "queued" /\ \A k \in Position \ {taken} : job'[k] = job[k]
      BY <3>1, <3>2, <3>3, SpawnedLives
    <3>5. QED
      BY <2>1, <2>3, <3>4, DecideRefines
  <2>4. QED
    BY <1>6, <2>2, <2>3 DEF Hydrated
<1>7. ASSUME NEW j \in Position, JobStep(j) PROVE Abs!Next \/ UNCHANGED Abs!vars
  <2>1. PICK r : Moves(j, r)
    BY <1>7, StepMoves DEF Inv
  <2>2. QED
    BY <2>1, JobRefines
<1>8. CASE Return
  <2>1. loop = "drain" /\ loop' = "returned" /\ P!Running = {} /\ UNCHANGED <<job, fate>>
    BY <1>8 DEF Return
  <2>2. OverOf = "ending" /\ OverOf' = "yes" /\ StatusOf' = StatusOf
    BY <2>1 DEF OverOf, StatusOf
  <2>3. \A n \in Position : StatusOf[n] # "running"
    BY <2>1, StatusTells DEF P!Running, Active
  <2>4. QED
    BY <2>2, <2>3 DEF Abs!Return, Abs!Next
<1>9. CASE UNCHANGED vars
  BY <1>9, RestRefines DEF vars
<1>10. QED
  BY <1>1, <1>2, <1>3, <1>4, <1>5, <1>6, <1>7, <1>8, <1>9
  DEF Next, SourceStep, SkipFrame, WarnFrame, HoldLink, Ping, JobStep

\* The listener is an event loop: each frame meets one fate in stream order and keeps
\* it, a completion costs at most the link in hand, and `run` returns drained.
THEOREM ListenerIsEventLoop == Spec => ImplementsEventLoop
<1>1. QED
  BY InitRefines, NextRefines, SpecInv, PTL DEF Spec, ImplementsEventLoop, Abs!Spec
=============================================================================
