------------------------------ MODULE MCPhase ------------------------------
(***************************************************************************)
(* Phase on two machines: the burn chain of                                *)
(* crates/tass-phase/tests/burn_chain.rs, whose effects lead to phases     *)
(* with an event still to come, and a notice, the smallest machine whose   *)
(* effect leads into a terminal phase.  No machine of the repository does  *)
(* that; the library accepts it.                                           *)
(***************************************************************************)
EXTENDS Phase

Edge(from, on, to, emit) ==
  [of |-> "burn", from |-> from, on |-> on, to |-> to, emit |-> emit]

Burn ==
  {Edge("Matched",    "FoundTarget",  "Resolved",   "none"),
   Edge("Matched",    "NoTarget",     "Skipped",    "none"),
   Edge("Resolved",   "Owner",        "Authorized", "ReadBalance"),
   Edge("Resolved",   "NotOwner",     "Denied",     "none"),
   Edge("Authorized", "Sufficient",   "Enacting",   "WriteEnervate"),
   Edge("Authorized", "Insufficient", "Aborted",    "none"),
   Edge("Enacting",   "Wrote",        "Attesting",  "WriteAttestation"),
   Edge("Attesting",  "Attested",     "Done",       "none")}

BurnTerminal == {"Done", "Skipped", "Denied", "Aborted"}

Notice ==
  {[of |-> "notice", from |-> "Open", on |-> "Close", to |-> "Closed", emit |-> "Notify"]}

MCStart      == [m \in {"burn", "notice"} |-> IF m = "burn" THEN "Matched" ELSE "Open"]
MCTransition == Burn \cup Notice
MCTerminal   == BurnTerminal \cup {"Closed"}
=============================================================================
