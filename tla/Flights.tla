------------------------------ MODULE Flights ------------------------------
(***************************************************************************)
(* The two enervate flights registered in the listener, as machines for    *)
(* Phase: tass-chat-enervate reacts to a chat, tass-act-enervate to an     *)
(* act record.  Each also says what its driver can answer in each phase,   *)
(* which of those awaits leave the task, and the engine Outcome of a run.  *)
(***************************************************************************)

Flight == {"chat", "act"}

FlightStart == [m \in Flight |-> IF m = "chat" THEN "Matched" ELSE "Received"]

Chat(from, on, to, emit) ==
  [of |-> "chat", from |-> from, on |-> on, to |-> to, emit |-> emit]
Act(from, on, to, emit) ==
  [of |-> "act", from |-> from, on |-> on, to |-> to, emit |-> emit]

ChatTransition ==
  {Chat("Matched",  "FoundTass",    "Resolved",  "none"),
   Chat("Matched",  "NoTass",       "Skipped",   "none"),
   Chat("Resolved", "Authorized",   "Minting",   "MintActRecord"),
   Chat("Resolved", "Unauthorized", "NeedsAuth", "none"),
   Chat("Minting",  "Minted",       "Done",      "none")}

ActTransition ==
  {Act("Received",  "Valid",     "Validated", "none"),
   Act("Received",  "Invalid",   "Rejected",  "none"),
   Act("Validated", "Confirmed", "Attesting", "Attest"),
   Act("Attesting", "Attested",  "Done",      "none")}

FlightTransition == ChatTransition \cup ActTransition

\* Both is_terminal.
FlightTerminal == {"Done", "Skipped", "NeedsAuth", "Rejected"}

-----------------------------------------------------------------------------
(***************************************************************************)
(* The drivers.  Reading the user's tass and the act record's fields is    *)
(* data: either answer is possible.                                        *)
(***************************************************************************)

\* user_has_authorized is a constant: no delegated session can be held yet.
UserHasAuthorized == FALSE

\* A slip: the gate passes users who never authorized.
ChatAnswersUngated(phase) ==
  CASE phase = "Matched"  -> {"FoundTass", "NoTass"}
    [] phase = "Resolved" -> {"Authorized", "Unauthorized"}
    [] phase = "Minting"  -> {"Minted"}
    [] OTHER              -> {}

\* The inputs ChatEnervateDriver::next_event can answer in a phase.
ChatAnswers(phase) ==
  CASE phase = "Matched"  -> {"FoundTass", "NoTass"}
    [] phase = "Resolved" -> IF UserHasAuthorized THEN {"Authorized"} ELSE {"Unauthorized"}
    [] phase = "Minting"  -> {"Minted"}
    [] OTHER              -> {}

\* A slip: a validated record is confirmed with the wrong input.
ActAnswersCrossed(phase) ==
  CASE phase = "Received"  -> {"Valid", "Invalid"}
    [] phase = "Validated" -> {"Attested"}
    [] phase = "Attesting" -> {"Attested"}
    [] OTHER               -> {}

\* The inputs ActEnervateDriver::next_event can answer in a phase.
ActAnswers(phase) ==
  CASE phase = "Received"  -> {"Valid", "Invalid"}
    [] phase = "Validated" -> {"Confirmed"}
    [] phase = "Attesting" -> {"Attested"}
    [] OTHER               -> {}

Answers(machine, phase) ==
  IF machine = "chat" THEN ChatAnswers(phase) ELSE ActAnswers(phase)

\* The one await of either flight that leaves the task is the public read of the
\* user's tass in Matched; it is also the only one that can fail.  Every other
\* answer and both (dry-run) effects are ready at once.
Remote(machine, phase) == machine = "chat" /\ phase = "Matched"

\* `handle`: the engine Outcome of a run that ended in `phase` with `result`.
Outcome(result, phase) ==
  IF result # "final" THEN "Failed"
  ELSE IF phase = "Done" THEN "DryRun" ELSE "Skipped"
=============================================================================
