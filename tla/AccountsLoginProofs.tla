------------------------ MODULE AccountsLoginProofs -------------------------
(***************************************************************************)
(* Proofs about what logins leave in Accounts, for any number of commands, *)
(* accounts, servers and fragments: a profile of one account, with a       *)
(* session in the store, that serves the writers that start after it.      *)
(*                                                                         *)
(* The argument follows want[p], what the edits so far make of a fragment, *)
(* which only EditWrite changes, and the texts of p, which are its file    *)
(* and what a writer that has truncated it is about to write back.         *)
(***************************************************************************)
EXTENDS AccountsProofs

(***************************************************************************)
(* Who logs in where, and what a login has still to write.                 *)
(***************************************************************************)
LogsIn(c, p) == Editing(c, p) /\ cmd[c].kind \in LoginKind

\* A login that will write p once the network has answered.
Aims(c, p) == cmd[c].pc = "net" /\ cmd[c].kind \in {"app", "oauth"} /\ cmd[c].name = p

Ahead(c, k) == \E i \in DOMAIN cmd[c].todo : cmd[c].todo[i][k] # "keep"

Texts(p) == {file[p]} \cup {cmd[c].copy : c \in {d \in Command : Truncated(d, p)}}

Names == {"did", "handle", "pds"}

(***************************************************************************)
(* What a command that edits is about to write.                            *)
(***************************************************************************)

\* What a login in state s may give key k.
Gives(s, k, v) ==
  \/ k = "did" /\ v = s.acct
  \/ k = "handle" /\ s.kind = "app" /\ v = s.acct
  \/ k = "pds" /\ v \in lived[s.acct]
  \/ k = "auth_mode" /\ s.kind = "oauth" /\ v = "oauth"

\* A login by app password or OAuth has its session stored, and each edit it has left
\* writes some key, as its kind of login does.
StoredPlan(s) ==
  /\ <<s.kind, s.acct>> \in session
  /\ \A i \in DOMAIN s.todo :
       /\ \E k \in Key : s.todo[i][k] # "keep"
       /\ \A k \in Key : s.todo[i][k] # "keep" => Gives(s, k, s.todo[i][k])

\* The mode follows the account it is of.
ModeFollows(s) ==
  \A i \in DOMAIN s.todo : s.todo[i]["did"] # "keep" =>
    \E j \in DOMAIN s.todo : i < j /\ s.todo[j]["auth_mode"] # "keep"

Plan(s) ==
  s.pc \in Writing =>
    /\ s.kind \in LoginKind \cup {"config"}
    /\ s.kind \in {"app", "oauth"} => StoredPlan(s)
    /\ s.kind = "oauth" => ModeFollows(s) /\ "oauth" \in taint[s.path]
    /\ s.kind = "bare" => /\ "bare" \in taint[s.path]
                          /\ \A i \in DOMAIN s.todo : s.todo[i]["did"] \in Account
    /\ s.kind = "config" =>
         \A i \in DOMAIN s.todo :
           /\ \A k \in Identity : s.todo[i][k] # "keep" => "manual" \in taint[s.path]
           /\ s.todo[i]["did"] \notin {"keep", "unset"} => "named" \in taint[s.path]

(***************************************************************************)
(* The invariant.                                                          *)
(***************************************************************************)

\* Every value of text t is one the edits gave, or is gone.
Faded(t, p) == \A k \in Key : t[k] \in {"unset", want[p][k]}

\* Unless writers raced for p.
Fades(p) ==
  /\ \A c, d \in Command : Truncated(c, p) /\ Truncated(d, p) => c = d
  /\ \A t \in Texts(p) : Faded(t, p)

\* Logins of one profile that did not overlap are alone on it.
AloneOn(p) ==
  "overlap" \notin taint[p] =>
    \A c, d \in Command : c # d /\ LogsIn(c, p) => ~LogsIn(d, p) /\ ~Aims(d, p)

\* did, handle and PDS are those of an account with a session.
WholeOf(doc, a) ==
  /\ doc["did"] = a /\ doc["handle"] = a /\ doc["pds"] \in lived[a]
  /\ <<"app", a>> \in session

\* An untainted profile is of nobody or of one account; while a login writes it, what
\* the login has written is the login's.
OneOwner(p) ==
  taint[p] = {} =>
    /\ \A c \in Command, k \in Names : LogsIn(c, p) /\ ~Ahead(c, k) =>
         Gives(cmd[c], k, want[p][k])
    /\ ~LoggingIn(p) =>
         \/ p \notin logged /\ \A k \in Names : want[p][k] = "unset"
         \/ \E a \in Account : WholeOf(want[p], a)

\* The session the text asks for is in the store.
InStore(t) ==
  t["did"] # "unset" => <<IF t["auth_mode"] = "oauth" THEN "oauth" ELSE "app", t["did"]>> \in session

\* What a login in state s, that is to write or writes p, knows of its text t.
LoginKnows(c, p, t) ==
  /\ cmd[c].kind = "app" /\ (Aims(c, p) \/ LogsIn(c, p)) => t["auth_mode"] # "oauth"
  /\ cmd[c].kind = "oauth" /\ LogsIn(c, p) /\ ~Ahead(c, "auth_mode") =>
       t["auth_mode"] = "oauth" \/ t["did"] = "unset"
  /\ LogsIn(c, p) /\ ~Ahead(c, "did") => t["did"] \in {"unset", cmd[c].acct}

\* The mode a profile asks for is the mode of the session its account has.
Matched(p) ==
  taint[p] \cap {"bare", "crash", "overlap", "manual"} = {} /\ p \notin raced =>
    \A t \in Texts(p) :
      /\ \A c \in Command : LoginKnows(c, p, t)
      /\ ~LoggingIn(p) => InStore(t)

\* A writer that started on a sound profile carries its account, which has a session.
Served(s) ==
  s.kind = "writer" /\ s.sound =>
    /\ s.pc \in {"net", "client"}
    /\ s.login.did \in Account /\ <<"app", s.login.did>> \in session
    /\ s.login.pds \in lived[s.login.did]
    /\ s.pc = "client" => s.own = s.login.did /\ s.endpoint = s.login.pds

\* Every account that a text of a fragment names has a session, unless a login that stores
\* none or the user put it there.
Known == {"unset"} \cup {a \in Account : <<"app", a>> \in session \/ <<"oauth", a>> \in session}

Unnamed(p) == taint[p] \cap {"bare", "named"} = {}

DidsKnown ==
  \A p \in Stem : Unnamed(p) =>
    /\ file[p]["did"] \in Known
    /\ \A c \in Command : cmd[c].path = p /\ cmd[c].pc \in {"copy", "trunc"} =>
         cmd[c].copy["did"] \in Known

LoginInv ==
  /\ \A p \in Path \ raced : Fades(p)
  /\ \A c \in Command : Plan(cmd[c]) /\ Served(cmd[c])
  /\ \A p \in Stem : AloneOn(p) /\ OneOwner(p)
  /\ \A p \in Stem \ {"default"} : Matched(p)
  /\ DidsKnown


-----------------------------------------------------------------------------
(***************************************************************************)
(* Steps.                                                                  *)
(***************************************************************************)

\* The store, the history of servers, of causes and of races only grow.
Grows ==
  /\ session \subseteq session' /\ raced \subseteq raced'
  /\ \A p \in Path : taint[p] \subseteq taint'[p]
  /\ \A a \in Account : lived[a] \subseteq lived'[a]

\* Nothing has happened to p that its logins could tell.
Calm(p) ==
  /\ \A k \in Names : want'[p][k] = want[p][k]
  /\ p \in logged' => p \in logged
  /\ \A d \in Command :
       /\ LogsIn(d, p)' <=> LogsIn(d, p)
       /\ LogsIn(d, p) => /\ cmd'[d].todo = cmd[d].todo /\ cmd'[d].acct = cmd[d].acct
                          /\ cmd'[d].kind = cmd[d].kind

\* No login that aims at p is new.
NoNewAims(p) ==
  \A d \in Command : Aims(d, p)' => Aims(d, p) /\ cmd'[d].kind = cmd[d].kind

\* Its texts are what they were, or gone.
Steady(p) == Texts(p)' \subseteq Texts(p) \cup {Blank}

LEMMA StemIsPath == Stem \subseteq Path /\ Account \subseteq Stem
BY AccountsAssumption DEF Path

LEMMA Sentinels ==
  /\ "unset" \notin Account /\ "unset" \notin Pds /\ "unset" \notin Stem
  /\ "keep" \notin Account /\ "keep" \notin Pds /\ "base" \notin Stem
BY AccountsAssumption

LEMMA StepMoves ==
  ASSUME Inv, NEW c \in Command, NEW s, cmd' = [cmd EXCEPT ![c] = s]
  PROVE  /\ cmd'[c] = s
         /\ \A d \in Command : d # c => cmd'[d] = cmd[d]
BY DEF Inv

\* Command c moves, and what p's logins could tell of it stays.
LEMMA CalmStep ==
  ASSUME Inv, NEW c \in Command, NEW s, cmd' = [cmd EXCEPT ![c] = s], NEW p,
         \A k \in Names : want'[p][k] = want[p][k], p \in logged' => p \in logged,
         LogsIn(c, p)' <=> LogsIn(c, p),
         LogsIn(c, p) => s.todo = cmd[c].todo /\ s.acct = cmd[c].acct /\ s.kind = cmd[c].kind
  PROVE  Calm(p)
<1>1. cmd'[c] = s /\ \A d \in Command : d # c => cmd'[d] = cmd[d]
  BY StepMoves
<1>2. SUFFICES ASSUME NEW d \in Command
               PROVE  /\ LogsIn(d, p)' <=> LogsIn(d, p)
                      /\ LogsIn(d, p) => /\ cmd'[d].todo = cmd[d].todo
                                         /\ cmd'[d].acct = cmd[d].acct
                                         /\ cmd'[d].kind = cmd[d].kind
  BY DEF Calm
<1>3. CASE d = c
  BY <1>1, <1>3
<1>4. CASE d # c
  BY <1>1, <1>4 DEF LogsIn, Editing
<1>5. QED
  BY <1>3, <1>4

LEMMA NoNewAimsStep ==
  ASSUME Inv, NEW c \in Command, NEW s, cmd' = [cmd EXCEPT ![c] = s], NEW p, ~Aims(c, p)'
  PROVE  NoNewAims(p)
<1>1. \A d \in Command : d # c => cmd'[d] = cmd[d]
  BY StepMoves
<1>2. QED
  BY <1>1 DEF NoNewAims, Aims

\* A step that leaves the file alone, and truncates nothing, adds no text.
LEMMA SteadyStep ==
  ASSUME Inv, NEW c \in Command, NEW s, cmd' = [cmd EXCEPT ![c] = s], s.pc # "trunc",
         NEW p, file'[p] = file[p]
  PROVE  /\ Texts(p)' \subseteq Texts(p) /\ Steady(p)
         /\ \A d \in Command : Truncated(d, p)' => Truncated(d, p)
<1>1. cmd'[c] = s /\ \A d \in Command : d # c => cmd'[d] = cmd[d]
  BY StepMoves
<1>2. \A d \in Command : Truncated(d, p)' => Truncated(d, p) /\ cmd'[d] = cmd[d]
  BY <1>1 DEF Truncated
<1>3. Texts(p)' \subseteq Texts(p)
  BY <1>2 DEF Texts
<1>4. QED
  BY <1>2, <1>3 DEF Steady

\* A step of one command that does not start on a fragment: what it has to write it had.
LEMMA PlanStays ==
  ASSUME Inv, Grows, NEW d \in Command, Plan(cmd[d]),
         cmd'[d].pc \in Writing =>
           /\ cmd[d].pc \in Writing
           /\ cmd'[d].kind = cmd[d].kind /\ cmd'[d].acct = cmd[d].acct
           /\ cmd'[d].path = cmd[d].path /\ cmd'[d].todo = cmd[d].todo
  PROVE  Plan(cmd[d])'
<1>1. SUFFICES ASSUME cmd'[d].pc \in Writing PROVE Plan(cmd[d])'
  BY DEF Plan
<1> DEFINE s == cmd[d]
<1>2. /\ s.pc \in Writing /\ s.path \in Path
      /\ s.kind \in {"app", "oauth"} => s.acct \in Account
  BY <1>1 DEF Inv, Good, Shaped, Writing
<1>3. /\ cmd'[d].kind = s.kind /\ cmd'[d].acct = s.acct
      /\ cmd'[d].path = s.path /\ cmd'[d].todo = s.todo
  BY <1>1
<1>4. taint[s.path] \subseteq taint'[s.path]
  BY <1>2 DEF Grows
<1>5. s.kind \in {"app", "oauth"} => StoredPlan(cmd[d])'
  <2>1. SUFFICES ASSUME s.kind \in {"app", "oauth"} PROVE StoredPlan(cmd[d])'
    OBVIOUS
  <2>2. StoredPlan(s) /\ session \subseteq session' /\ lived[s.acct] \subseteq lived'[s.acct]
    BY <1>2, <2>1 DEF Plan, Grows
  <2>3. \A v : \A k \in Key : Gives(s, k, v) => Gives(cmd[d], k, v)'
    BY <1>3, <2>2 DEF Gives
  <2>4. QED
    BY <1>3, <2>2, <2>3 DEF StoredPlan
<1>6. ModeFollows(s) => ModeFollows(cmd[d])'
  BY <1>3 DEF ModeFollows
<1>7. QED
  BY <1>2, <1>3, <1>4, <1>5, <1>6 DEF Plan

LEMMA ServedStays ==
  ASSUME Grows, NEW d \in Command, Served(cmd[d]), cmd'[d] = cmd[d]
  PROVE  Served(cmd[d])'
BY DEF Served, Grows

LEMMA CalmAlone ==
  ASSUME Grows, NEW p \in Path, AloneOn(p),
         NoNewAims(p), \A d \in Command : LogsIn(d, p)' => LogsIn(d, p)
  PROVE  AloneOn(p)'
BY DEF AloneOn, NoNewAims, Grows

LEMMA WholeStays ==
  ASSUME Grows, NEW a \in Account, NEW p, \A k \in Names : want'[p][k] = want[p][k],
         WholeOf(want[p], a)
  PROVE  WholeOf(want[p], a)'
BY DEF WholeOf, Grows, Names

LEMMA CalmOwner ==
  ASSUME Inv, Grows, NEW p \in Path, OneOwner(p), Calm(p)
  PROVE  OneOwner(p)'
<1>1. SUFFICES ASSUME taint'[p] = {} PROVE OneOwner(p)'
  BY DEF OneOwner
<1>2. taint[p] = {}
  BY <1>1 DEF Grows
<1>3. LoggingIn(p)' <=> LoggingIn(p)
  BY DEF Calm, LoggingIn, LogsIn
<1>4. ASSUME NEW c \in Command, NEW k \in Names, LogsIn(c, p)', ~Ahead(c, k)'
      PROVE  Gives(cmd[c], k, want[p][k])'
  <2>1. LogsIn(c, p) /\ ~Ahead(c, k)
    BY <1>4 DEF Calm, Ahead
  <2>2. Gives(cmd[c], k, want[p][k])
    BY <1>2, <2>1 DEF OneOwner
  <2>3. cmd[c].acct \in Account
    BY <2>1 DEF Inv, Good, Shaped, LogsIn, Editing, LoginKind
  <2>4. /\ cmd'[c].acct = cmd[c].acct /\ cmd'[c].kind = cmd[c].kind
        /\ lived[cmd[c].acct] \subseteq lived'[cmd[c].acct] /\ want'[p][k] = want[p][k]
    BY <2>1, <2>3 DEF Calm, Grows
  <2>5. QED
    BY <2>2, <2>4 DEF Gives
<1>5. ASSUME ~LoggingIn(p)'
      PROVE  \/ p \notin logged' /\ \A k \in Names : want'[p][k] = "unset"
             \/ \E a \in Account : WholeOf(want[p], a)'
  <2>1. \/ p \notin logged /\ \A k \in Names : want[p][k] = "unset"
        \/ \E a \in Account : WholeOf(want[p], a)
    BY <1>2, <1>3, <1>5 DEF OneOwner
  <2>2. (\A k \in Names : want'[p][k] = want[p][k]) /\ (p \in logged' => p \in logged)
    BY DEF Calm
  <2>3. QED
    BY <2>1, <2>2, WholeStays
<1>6. QED
  BY <1>4, <1>5 DEF OneOwner

LEMMA BlankKnows ==
  /\ \A p : \A c \in Command : LoginKnows(c, p, Blank)
  /\ InStore(Blank)
BY DEF Blank, Key, LoginKnows, InStore

\* The account and the mode of every text are those of a text there was.
LEMMA MatchedStays ==
  ASSUME Inv, Grows, NEW p \in Path, Matched(p), Calm(p), NoNewAims(p),
         p \notin raced' =>
           \A t \in Texts(p)' : \E u \in Texts(p) \cup {Blank} :
             t["did"] = u["did"] /\ t["auth_mode"] = u["auth_mode"]
  PROVE  Matched(p)'
<1>1. SUFFICES ASSUME taint'[p] \cap {"bare", "crash", "overlap", "manual"} = {},
                      p \notin raced', NEW t \in Texts(p)'
               PROVE  /\ \A c \in Command : LoginKnows(c, p, t)'
                      /\ ~LoggingIn(p)' => InStore(t)'
  BY DEF Matched
<1>2. taint[p] \cap {"bare", "crash", "overlap", "manual"} = {} /\ p \notin raced
  BY <1>1 DEF Grows
<1>3. LoggingIn(p)' <=> LoggingIn(p)
  BY DEF Calm, LoggingIn, LogsIn
<1>4. PICK u \in Texts(p) \cup {Blank} : t["did"] = u["did"] /\ t["auth_mode"] = u["auth_mode"]
  BY <1>1
<1>5. /\ \A c \in Command : LoginKnows(c, p, u)
      /\ ~LoggingIn(p) => InStore(u)
  BY <1>2, <1>4, BlankKnows DEF Matched
<1>6. ASSUME NEW c \in Command PROVE LoginKnows(c, p, t)'
  <2>1. LoginKnows(c, p, u)
    BY <1>5
  <2>2. /\ Aims(c, p)' => Aims(c, p) /\ cmd'[c].kind = cmd[c].kind
        /\ LogsIn(c, p)' <=> LogsIn(c, p)
        /\ LogsIn(c, p) => /\ cmd'[c].todo = cmd[c].todo /\ cmd'[c].acct = cmd[c].acct
                           /\ cmd'[c].kind = cmd[c].kind
    BY DEF Calm, NoNewAims
  <2>3. \A k : LogsIn(c, p) => (Ahead(c, k)' <=> Ahead(c, k))
    BY <2>2 DEF Ahead
  <2>4. QED
    BY <1>4, <2>1, <2>2, <2>3 DEF LoginKnows
<1>7. InStore(u) => InStore(t)'
  BY <1>4 DEF InStore, Grows
<1>8. QED
  BY <1>3, <1>5, <1>6, <1>7

LEMMA CalmMatched ==
  ASSUME Inv, Grows, NEW p \in Path, Matched(p), Calm(p), NoNewAims(p),
         p \notin raced' => Steady(p)
  PROVE  Matched(p)'
BY MatchedStays DEF Steady

LEMMA FadesStays ==
  ASSUME Inv, NEW p \in Path, Fades(p), want'[p] = want[p], Steady(p),
         \A d \in Command : Truncated(d, p)' => Truncated(d, p)
  PROVE  Fades(p)'
<1>1. \A t \in Texts(p)' : Faded(t, p)'
  BY DEF Fades, Steady, Faded, Blank
<1>2. QED
  BY <1>1 DEF Fades

\* A step that holds no new text.
LEMMA DidsStay ==
  ASSUME Inv, DidsKnown, Grows, NEW c \in Command, NEW s, cmd' = [cmd EXCEPT ![c] = s],
         s.pc \notin {"copy", "trunc"}, file' = file
  PROVE  DidsKnown'
<1>1. Known \subseteq Known'
  BY DEF Known, Grows
<1>2. \A d \in Command : cmd'[d] = cmd[d] \/ cmd'[d].pc \notin {"copy", "trunc"}
  BY StepMoves
<1>3. SUFFICES ASSUME NEW p \in Stem, Unnamed(p)'
               PROVE  /\ file[p]["did"] \in Known'
                      /\ \A d \in Command : cmd'[d].path = p /\ cmd'[d].pc \in {"copy", "trunc"} =>
                           cmd'[d].copy["did"] \in Known'
  BY DEF DidsKnown
<1>4. Unnamed(p)
  BY <1>3, StemIsPath DEF Unnamed, Grows
<1>5. QED
  BY <1>1, <1>2, <1>4 DEF DidsKnown

-----------------------------------------------------------------------------
(***************************************************************************)
(* Commands that do not edit: clients, and logins that start or fail.      *)
(***************************************************************************)

\* The parts of the invariant that are not about one fragment.
LEMMA OneMoves ==
  ASSUME Inv, LoginInv, Grows, NEW c \in Command, NEW s, cmd' = [cmd EXCEPT ![c] = s],
         Plan(cmd[c])', Served(cmd[c])'
  PROVE  \A d \in Command : Plan(cmd[d])' /\ Served(cmd[d])'
<1>1. \A d \in Command : d # c => cmd'[d] = cmd[d]
  BY StepMoves
<1>2. ASSUME NEW d \in Command, d # c PROVE Plan(cmd[d])' /\ Served(cmd[d])'
  <2>1. Plan(cmd[d]) /\ Served(cmd[d]) /\ cmd'[d] = cmd[d]
    BY <1>1, <1>2 DEF LoginInv
  <2>2. QED
    BY <2>1, PlanStays, ServedStays
<1>3. QED
  BY <1>2

\* A command moves and neither writes nor truncates; if it is a login that edits, it
\* still is, and otherwise it is none and will be none once the network has answered.
LEMMA FrameLogins ==
  ASSUME Inv, LoginInv, Grows, NEW c \in Command, NEW s, cmd' = [cmd EXCEPT ![c] = s],
         Plan(cmd[c])', Served(cmd[c])', DidsKnown', s.pc # "trunc",
         UNCHANGED <<file, want, raced, logged>>,
         \A p \in Path :
           /\ ~Aims(c, p)' /\ (LogsIn(c, p)' <=> LogsIn(c, p))
           /\ LogsIn(c, p) =>
                s.todo = cmd[c].todo /\ s.acct = cmd[c].acct /\ s.kind = cmd[c].kind
  PROVE  LoginInv'
<1>1. \A p \in Path : Calm(p) /\ NoNewAims(p)
  BY CalmStep, NoNewAimsStep
<1>2. \A p \in Path : Steady(p) /\ \A d \in Command : Truncated(d, p)' => Truncated(d, p)
  BY SteadyStep
<1>3. \A p \in Path \ raced' : Fades(p)'
  BY <1>2, FadesStays DEF LoginInv
<1>4. \A d \in Command : Plan(cmd[d])' /\ Served(cmd[d])'
  BY OneMoves
<1>5. ASSUME NEW p \in Stem
      PROVE  /\ AloneOn(p)' /\ OneOwner(p)'
             /\ p # "default" => Matched(p)'
  <2>1. /\ p \in Path /\ Calm(p) /\ NoNewAims(p) /\ Steady(p) /\ AloneOn(p) /\ OneOwner(p)
        /\ p # "default" => Matched(p)
    BY <1>1, <1>2, StemIsPath DEF LoginInv
  <2>2. AloneOn(p)'
    BY <2>1, CalmAlone DEF Calm
  <2>3. QED
    BY <2>1, <2>2, CalmOwner, CalmMatched
<1>6. QED
  BY <1>3, <1>4, <1>5 DEF LoginInv

LEMMA QuietLogins ==
  ASSUME Inv, LoginInv, Grows, NEW c \in Command, NEW s, cmd' = [cmd EXCEPT ![c] = s],
         cmd[c].pc \notin Writing, s.pc \notin Writing, Served(cmd[c])',
         UNCHANGED <<file, want, raced, logged>>, \A p \in Path : ~Aims(c, p)'
  PROVE  LoginInv'
<1>1. cmd'[c] = s
  BY StepMoves
<1>2. Plan(cmd[c])' /\ s.pc # "trunc"
  BY <1>1 DEF Plan, Writing
<1>3. \A p \in Path : ~LogsIn(c, p) /\ ~LogsIn(c, p)'
  BY <1>1 DEF LogsIn, Editing, Writing
<1>4. DidsKnown'
  BY DidsStay DEF LoginInv, Writing
<1>5. QED
  BY <1>2, <1>3, <1>4, FrameLogins

LEMMA SameGrows ==
  ASSUME UNCHANGED <<session, raced, taint, lived>>
  PROVE  Grows
BY DEF Grows

\* What Start does, beside counting.
LEMMA Starts ==
  ASSUME NEW c \in Command, NEW s, Start(c, s)
  PROVE  cmd[c].pc = "idle" /\ cmd' = [cmd EXCEPT ![c] = s]
BY DEF Start, Become

LEMMA BareLoginLogins ==
  ASSUME Inv, LoginInv, NEW c \in Command, NEW a \in Account, BareLogin(c, a)
  PROVE  LoginInv'
<1> DEFINE s == [Idle EXCEPT !.pc = "net", !.acct = a, !.kind = "bare"]
<1>1. Start(c, s) /\ UNCHANGED <<files, session, active, home, history>>
  BY DEF BareLogin
<1>2. s.pc = "net" /\ s.kind = "bare"
  BY DEF Idle
<1> HIDE DEF s
<1>3. cmd[c].pc = "idle" /\ cmd' = [cmd EXCEPT ![c] = s] /\ cmd'[c] = s
  BY <1>1, Starts, StepMoves
<1>4. Grows
  BY <1>1, SameGrows DEF files, history
<1>5. \A p \in Path : ~Aims(c, p)'
  BY <1>2, <1>3 DEF Aims
<1>6. Served(cmd[c])'
  BY <1>2, <1>3 DEF Served
<1>7. QED
  BY <1>1, <1>2, <1>3, <1>4, <1>5, <1>6, QuietLogins DEF files, history, Writing

\* A sound profile has the account of its last login.
LEMMA SoundIsWhole ==
  ASSUME Inv, LoginInv, NEW n \in Stem, Sound(n)
  PROVE  \E a \in Account : WholeOf(file[n], a)
<1>1. /\ n \in logged /\ taint[n] = {} /\ n \notin raced \cup torn
      /\ ~LoggingIn(n) /\ \A c \in Command : ~Truncated(c, n)
  BY DEF Sound, Unsteady
<1>2. file[n] = want[n]
  BY <1>1, StemIsPath DEF Inv, Kept
<1>3. QED
  BY <1>1, <1>2 DEF LoginInv, OneOwner

LEMMA SoundServes ==
  ASSUME Inv, LoginInv, NEW n \in Stem, Sound(n)
  PROVE  LET login == LoginOf(n)
         IN  /\ login.did \in Account /\ <<"app", login.did>> \in session
             /\ login.pds \in lived[login.did]
<1>1. PICK a \in Account : WholeOf(file[n], a)
  BY SoundIsWhole
<1>2. file[n]["did"] = a /\ file[n]["pds"] \in Pds
  BY <1>1 DEF WholeOf, Inv, Typed
<1>3. n # "default"
  BY DEF Sound
<1>4. Resolved(n)["did"] = a /\ Resolved(n)["pds"] = file[n]["pds"]
  BY <1>2, <1>3, Sentinels DEF Resolved, Key
<1>5. QED
  BY <1>1, <1>4 DEF LoginOf, WholeOf

LEMMA WriterLogins ==
  ASSUME Inv, LoginInv, NEW c \in Command, NEW o \in Override, Writer(c, o)
  PROVE  LoginInv'
<1> DEFINE n == Name(o)
<1>1. n \in Stem
  BY NameIsStem DEF Inv
<1>2. PICK login : login = LoginOf(n)
  OBVIOUS
<1>3. PICK sound : sound = Sound(n)
  OBVIOUS
<1> DEFINE s == [Idle EXCEPT !.pc = "net", !.kind = "writer", !.name = n,
                             !.login = login, !.sound = sound]
<1>4. Start(c, s) /\ UNCHANGED <<files, session, active, home, history>>
  BY <1>2, <1>3 DEF Writer
<1>5. Sound(n) => /\ login.did \in Account /\ <<"app", login.did>> \in session
                  /\ login.pds \in lived[login.did]
  BY <1>1, <1>2, SoundServes
<1> HIDE DEF n
<1>6. s.pc = "net" /\ s.kind = "writer" /\ s.login = login /\ s.sound = sound
  BY DEF Idle
<1> HIDE DEF s
<1>7. cmd[c].pc = "idle" /\ cmd' = [cmd EXCEPT ![c] = s] /\ cmd'[c] = s
  BY <1>4, Starts, StepMoves
<1>8. Grows
  BY <1>4, SameGrows DEF files, history
<1>9. \A p \in Path : ~Aims(c, p)'
  BY <1>6, <1>7 DEF Aims
<1>10. Served(cmd[c])'
  BY <1>3, <1>4, <1>5, <1>6, <1>7 DEF Served, history
<1>11. QED
  BY <1>4, <1>6, <1>7, <1>8, <1>9, <1>10, QuietLogins DEF files, history, Writing

LEMMA ReaderLogins ==
  ASSUME Inv, LoginInv, NEW c \in Command, NEW o \in Override, NEW target \in Account,
         NEW sel \in {"@none", "@active", "@active-if-available"} \cup Account,
         Reader(c, o, sel, target)
  PROVE  LoginInv'
<1> PICK pc \in {"point", "net"} : pc = IF sel = "@none" THEN "point" ELSE "net"
  OBVIOUS
<1> PICK kind \in {"try_reader", "reader"} :
      kind = IF sel \in {"@none", "@active-if-available"} THEN "try_reader" ELSE "reader"
  OBVIOUS
<1> PICK own : own = IF sel = "@none" THEN "unset" ELSE IF sel \in Account THEN sel ELSE active
  OBVIOUS
<1> PICK login : login = LoginOf(Name(o))
  OBVIOUS
<1> DEFINE s == [Idle EXCEPT !.pc = pc, !.kind = kind, !.acct = target,
                             !.login = login, !.own = own]
<1>0. Start(c, s)
  BY DEF Reader
<1>1. Start(c, s) /\ s.pc \in {"point", "net"} /\ s.kind \in {"reader", "try_reader"}
  BY <1>0 DEF Idle
<1> HIDE DEF s
<1>2. UNCHANGED <<files, session, active, home, history>>
  BY DEF Reader
<1>3. cmd[c].pc = "idle" /\ cmd' = [cmd EXCEPT ![c] = s] /\ cmd'[c] = s
  BY <1>1, Starts, StepMoves
<1>4. Grows
  BY <1>2, SameGrows DEF files, history
<1>5. \A p \in Path : ~Aims(c, p)'
  BY <1>1, <1>3 DEF Aims
<1>6. Served(cmd[c])'
  BY <1>1, <1>3 DEF Served
<1>7. QED
  BY <1>1, <1>2, <1>3, <1>4, <1>5, <1>6, QuietLogins DEF files, history, Writing

\* A client moves on.
LEMMA ClientLogins ==
  ASSUME Inv, LoginInv, NEW c \in Command, cmd[c].pc \in {"net", "point", "client", "refused"},
         NEW s, Become(c, s), s.pc \in {"idle", "point", "client", "refused"},
         s.kind = cmd[c].kind \/ s.kind = "none",
         Served(s)', UNCHANGED <<files, session, active, home, started, history>>
  PROVE  LoginInv'
<1>1. cmd' = [cmd EXCEPT ![c] = s] /\ cmd'[c] = s
  BY StepMoves DEF Become
<1>2. Grows
  BY SameGrows DEF files, history
<1>3. \A p \in Path : ~Aims(c, p)'
  BY <1>1 DEF Aims
<1>4. Served(cmd[c])'
  BY <1>1 DEF Served
<1>5. QED
  BY <1>1, <1>2, <1>3, <1>4, QuietLogins DEF files, history, Writing

\* A read client moves on.
LEMMA ReadingLogins ==
  ASSUME Inv, LoginInv, NEW c \in Command, cmd[c].pc \in {"net", "point"},
         cmd[c].kind \in {"reader", "try_reader"},
         NEW pc \in {"point", "refused", "client"}, NEW own, NEW endpoint,
         Become(c, [cmd[c] EXCEPT !.pc = pc, !.own = own, !.endpoint = endpoint]),
         UNCHANGED <<files, session, active, home, started, history>>
  PROVE  LoginInv'
<1> PICK s : s = [cmd[c] EXCEPT !.pc = pc, !.own = own, !.endpoint = endpoint]
  OBVIOUS
<1>1. s.pc = pc /\ s.kind = cmd[c].kind
  BY DEF Inv, CommandState
<1>2. Served(s)'
  BY <1>1 DEF Served
<1>3. QED
  BY <1>1, <1>2, ClientLogins

LEMMA ClientsServe ==
  ASSUME Inv, LoginInv, NEW c \in Command,
         \/ WriterResumes(c) \/ WriterRefused(c) \/ ReaderResumes(c) \/ ReaderAbsent(c)
         \/ ReaderPoints(c) \/ Ends(c)
  PROVE  LoginInv'
<1> DEFINE r == cmd[c]
<1>1. r \in CommandState /\ Served(r)
  BY DEF Inv, LoginInv
<1>2. UNCHANGED <<files, session, active, home, started, history>>
  BY DEF WriterResumes, WriterRefused, ReaderResumes, ReaderAbsent, ReaderPoints, Ends
<1>3. CASE WriterResumes(c)
  <2>1. PICK a \in Account :
          /\ r.pc = "net" /\ r.kind = "writer"
          /\ <<"app", a>> \in session
          /\ AccountOf(r.login) \in {a, "unset"}
          /\ Become(c, IF r.login.pds = "unset" THEN [r EXCEPT !.pc = "refused"]
                       ELSE [r EXCEPT !.pc = "client", !.own = a, !.endpoint = r.login.pds])
    BY <1>3 DEF WriterResumes
  <2>2. r.sound => r.login.pds # "unset" /\ a = r.login.did
    BY <1>1, <2>1, Sentinels DEF Served, AccountOf, Inv, Typed
  <2>3. CASE r.login.pds = "unset"
    <3> PICK s : s = [r EXCEPT !.pc = "refused"]
      OBVIOUS
    <3>1. s.pc = "refused" /\ s.kind = r.kind /\ s.sound = r.sound
      BY <1>1 DEF CommandState
    <3>2. Served(s)'
      BY <2>2, <2>3, <3>1 DEF Served
    <3>3. QED
      BY <1>2, <2>1, <2>3, <3>1, <3>2, ClientLogins
  <2>4. CASE r.login.pds # "unset"
    <3> PICK s : s = [r EXCEPT !.pc = "client", !.own = a, !.endpoint = r.login.pds]
      OBVIOUS
    <3>1. /\ s.pc = "client" /\ s.own = a /\ s.endpoint = r.login.pds
          /\ s.kind = r.kind /\ s.sound = r.sound /\ s.login = r.login
      BY <1>1 DEF CommandState
    <3>2. Served(s)'
      BY <1>1, <1>2, <2>1, <2>2, <3>1 DEF Served, history
    <3>3. QED
      BY <1>2, <2>1, <2>4, <3>1, <3>2, ClientLogins
  <2>5. QED
    BY <2>3, <2>4
<1>4. CASE WriterRefused(c)
  <2>1. /\ r.pc = "net" /\ r.kind = "writer" /\ <<"app", AccountOf(r.login)>> \notin session
        /\ Become(c, [r EXCEPT !.pc = "refused"])
    BY <1>4 DEF WriterRefused
  <2>2. ~r.sound \/ r.sound \notin BOOLEAN
    BY <1>1, <2>1, Sentinels DEF Served, AccountOf
  <2> PICK s : s = [r EXCEPT !.pc = "refused"]
    OBVIOUS
  <2>3. s.pc = "refused" /\ s.kind = r.kind /\ s.sound = r.sound
    BY <1>1 DEF CommandState
  <2>4. Served(s)'
    BY <1>1, <2>2, <2>3 DEF Served, CommandState
  <2>5. QED
    BY <1>2, <2>1, <2>3, <2>4, ClientLogins
<1>5. CASE ReaderResumes(c) \/ ReaderAbsent(c) \/ ReaderPoints(c)
  <2>1. r.pc \in {"net", "point"} /\ r.kind \in {"reader", "try_reader"}
    BY <1>5 DEF ReaderResumes, ReaderAbsent, ReaderPoints, Reading, Inv, Good, Shaped
  <2>2. CASE ReaderResumes(c)
    <3>1. [r EXCEPT !.pc = "point"]
            = [r EXCEPT !.pc = "point", !.own = r.own, !.endpoint = r.endpoint]
      BY <1>1 DEF CommandState
    <3>2. Become(c, [r EXCEPT !.pc = "point", !.own = r.own, !.endpoint = r.endpoint])
      BY <2>2, <3>1 DEF ReaderResumes
    <3>3. QED
      BY <1>2, <2>1, <3>2, ReadingLogins
  <2>3. CASE ReaderAbsent(c)
    <3>1. PICK pc \in {"point", "refused"} : pc = IF r.kind = "reader" THEN "refused" ELSE "point"
      OBVIOUS
    <3>2. [r EXCEPT !.pc = pc, !.own = "unset"]
            = [r EXCEPT !.pc = pc, !.own = "unset", !.endpoint = r.endpoint]
      BY <1>1 DEF CommandState
    <3>3. Become(c, [r EXCEPT !.pc = pc, !.own = "unset"])
      BY <2>3, <3>1 DEF ReaderAbsent
    <3>4. Become(c, [r EXCEPT !.pc = pc, !.own = "unset", !.endpoint = r.endpoint])
      BY <3>2, <3>3
    <3>5. QED
      BY <1>2, <2>1, <3>1, <3>4, ReadingLogins
  <2>4. CASE ReaderPoints(c)
    <3>1. PICK own : own = IF r.own = r.acct THEN r.own ELSE "unset"
      OBVIOUS
    <3>2. [r EXCEPT !.pc = "client", !.endpoint = home[r.acct], !.own = own]
            = [r EXCEPT !.pc = "client", !.own = own, !.endpoint = home[r.acct]]
      BY <1>1 DEF CommandState
    <3>3. Become(c, [r EXCEPT !.pc = "client", !.own = own, !.endpoint = home[r.acct]])
      BY <2>4, <3>1, <3>2 DEF ReaderPoints
    <3>4. QED
      BY <1>2, <2>1, <3>3, ReadingLogins
  <2>5. QED
    BY <1>5, <2>2, <2>3, <2>4
<1>6. CASE Ends(c)
  <2>1. r.pc \in {"net", "point", "client", "refused"} /\ Become(c, Idle)
    BY <1>6 DEF Ends
  <2>2. Served(Idle)'
    BY IdleIsState DEF Served
  <2>3. QED
    BY <1>2, <2>1, <2>2, IdleIsState, ClientLogins
<1>7. QED
  BY <1>3, <1>4, <1>5, <1>6

-----------------------------------------------------------------------------
(***************************************************************************)
(* A login is asked for; a setting is changed by hand.                     *)
(***************************************************************************)

\* The login of a profile whose mode is OAuth is an OAuth login.
LEMMA StoreLoginLogins ==
  ASSUME Inv, LoginInv, NEW c \in Command, NEW o \in Override, NEW a \in Account,
         NEW oauth \in BOOLEAN, StoreLogin(c, o, a, oauth)
  PROVE  LoginInv'
<1>1. PICK n \in Stem, kind \in {"app", "oauth"} :
        /\ kind = IF oauth \/ Resolved(n)["auth_mode"] = "oauth" THEN "oauth" ELSE "app"
        /\ Start(c, [Idle EXCEPT !.pc = "net", !.name = n, !.acct = a, !.kind = kind])
        /\ taint' = [taint EXCEPT ![n] = @ \cup (IF Unsteady(n) THEN {"overlap"} ELSE {})]
        /\ UNCHANGED <<files, session, active, home, lived, logged>>
  BY NameIsStem DEF StoreLogin, Inv
<1> DEFINE s == [Idle EXCEPT !.pc = "net", !.name = n, !.acct = a, !.kind = kind]
<1>2. Start(c, s) /\ s.pc = "net" /\ s.name = n /\ s.kind = kind
  BY <1>1 DEF Idle
<1> HIDE DEF s
<1>3. /\ cmd[c].pc = "idle" /\ cmd' = [cmd EXCEPT ![c] = s] /\ cmd'[c] = s
      /\ UNCHANGED <<file, want, raced, logged, session, lived>>
  BY <1>1, <1>2, Starts, StepMoves DEF files
<1>4. taint \in [Path -> SUBSET Cause] /\ n \in Path
  BY StemIsPath DEF Inv, Typed
<1>5. Grows
  BY <1>1, <1>3, <1>4 DEF Grows
<1>6. /\ \A p : ~LogsIn(c, p) /\ ~LogsIn(c, p)'
      /\ \A p : p # n => ~Aims(c, p)'
  BY <1>2, <1>3 DEF LogsIn, Editing, Aims
<1>7. \A p \in Path : Calm(p) /\ (p # n => NoNewAims(p))
  BY <1>3, <1>6, CalmStep, NoNewAimsStep
<1>8. \A p \in Path : /\ Texts(p)' \subseteq Texts(p) /\ Steady(p)
                      /\ \A d \in Command : Truncated(d, p)' => Truncated(d, p)
  BY <1>2, <1>3, SteadyStep
<1>9. \A p \in Path \ raced' : Fades(p)'
  BY <1>3, <1>8, FadesStays DEF LoginInv
<1>10. \A d \in Command : Plan(cmd[d])' /\ Served(cmd[d])'
  BY <1>2, <1>3, <1>5, OneMoves DEF Plan, Served, Writing
<1>11. ASSUME NEW p \in Stem
       PROVE  /\ AloneOn(p)' /\ OneOwner(p)'
              /\ p # "default" => Matched(p)'
  <2>1. /\ p \in Path /\ Calm(p) /\ Steady(p) /\ AloneOn(p) /\ OneOwner(p)
        /\ p # "default" => Matched(p)
    BY <1>7, <1>8, StemIsPath DEF LoginInv
  <2>2. OneOwner(p)'
    BY <1>5, <2>1, CalmOwner
  <2>3. CASE p # n
    BY <1>5, <1>7, <2>1, <2>2, <2>3, CalmAlone, CalmMatched DEF Calm
  <2>4. CASE p = n
    <3>1. "overlap" \notin taint'[n] => ~Unsteady(n)
      BY <1>1, <1>4
    <3>2. ~Unsteady(n) => /\ \A d \in Command : ~LogsIn(d, n)'
                          /\ Texts(n)' \subseteq {file[n]}
      BY <1>7, <1>8, <2>1, <2>4 DEF Unsteady, LoggingIn, LogsIn, Texts, Calm
    <3>3. AloneOn(n)'
      BY <3>1, <3>2 DEF AloneOn
    <3>4. ASSUME n # "default", taint'[n] \cap {"bare", "crash", "overlap", "manual"} = {},
                 n \notin raced', NEW t \in Texts(n)'
          PROVE  /\ \A d \in Command : LoginKnows(d, n, t)'
                 /\ ~LoggingIn(n)' => InStore(t)'
      <4>1. taint[n] \cap {"bare", "crash", "overlap", "manual"} = {} /\ n \notin raced
        BY <1>4, <1>5, <3>4 DEF Grows
      <4>2. t = file[n] /\ t \in Texts(n) /\ \A d \in Command : ~LogsIn(d, n)'
        BY <1>8, <2>1, <2>4, <3>1, <3>2, <3>4
      <4>3. /\ \A d \in Command : LoginKnows(d, n, t)
            /\ ~LoggingIn(n) => InStore(t)
        BY <2>1, <2>4, <3>4, <4>1, <4>2 DEF Matched
      <4>4. kind = "app" => t["auth_mode"] # "oauth"
        BY <1>1, <3>4, <4>2 DEF Resolved, Key
      <4>5. ASSUME NEW d \in Command PROVE LoginKnows(d, n, t)'
        <5>1. CASE d = c
          BY <1>2, <1>3, <4>2, <4>4, <5>1 DEF LoginKnows
        <5>2. CASE d # c
          <6>1. cmd'[d] = cmd[d]
            BY <1>3, <5>2, StepMoves
          <6>2. QED
            BY <4>2, <4>3, <6>1 DEF LoginKnows, Aims
        <5>3. QED
          BY <5>1, <5>2
      <4>6. LoggingIn(n) <=> LoggingIn(n)'
        BY <2>1, <2>4 DEF LoggingIn, Calm, LogsIn
      <4>7. QED
        BY <1>3, <4>3, <4>5, <4>6 DEF InStore
    <3>5. QED
      BY <2>2, <2>4, <3>3, <3>4 DEF Matched
  <2>5. QED
    BY <2>3, <2>4
<1>12. DidsKnown'
  BY <1>2, <1>3, <1>5, DidsStay DEF LoginInv
<1>13. QED
  BY <1>9, <1>10, <1>11, <1>12 DEF LoginInv

LEMMA ChangeLogins ==
  ASSUME Inv, LoginInv, NEW c \in Command, NEW p \in Path, NEW k \in Key, NEW v \in Value,
         Change(c, p, k, v)
  PROVE  LoginInv'
<1> DEFINE todo == <<One(k, v)>>
           s == [Idle EXCEPT !.pc = "edit", !.kind = "config", !.path = p, !.todo = todo]
<1>1. Start(c, s) /\ s.pc = "edit" /\ s.kind = "config" /\ s.path = p /\ s.todo = todo
  BY DEF Change, Idle
<1>2. /\ taint' = [taint EXCEPT ![p] = @ \cup ByHand(k, v)]
      /\ UNCHANGED <<file, want, raced, logged, session, lived>>
  BY DEF Change, files
<1> HIDE DEF s
<1>3. cmd[c].pc = "idle" /\ cmd' = [cmd EXCEPT ![c] = s] /\ cmd'[c] = s
  BY <1>1, Starts, StepMoves
<1>4. taint \in [Path -> SUBSET Cause]
  BY DEF Inv, Typed
<1>5. Grows
  BY <1>2, <1>4 DEF Grows
<1>6. Plan(cmd[c])'
  <2>1. \A i \in DOMAIN todo : i = 1
    OBVIOUS
  <2>2. \A i \in DOMAIN todo, j \in Key : todo[i][j] # "keep" => j = k /\ todo[i][j] = v
    BY <2>1 DEF One
  <2>3. /\ k \in Identity => "manual" \in taint'[p]
        /\ k = "did" /\ v # "unset" => "named" \in taint'[p]
    BY <1>2, <1>4 DEF ByHand
  <2>4. Identity \subseteq Key /\ "did" \in Key
    BY DEF Identity, Key
  <2> HIDE DEF todo
  <2>5. QED
    BY <1>1, <1>3, <2>2, <2>3, <2>4 DEF Plan
<1>7. Served(cmd[c])'
  BY <1>1, <1>3 DEF Served
<1>8. \A q \in Path : ~Aims(c, q)' /\ ~LogsIn(c, q) /\ ~LogsIn(c, q)'
  BY <1>1, <1>3 DEF Aims, LogsIn, Editing, LoginKind
<1>9. DidsKnown'
  BY <1>1, <1>2, <1>3, <1>5, DidsStay DEF LoginInv
<1>10. QED
  BY <1>1, <1>2, <1>3, <1>5, <1>6, <1>7, <1>8, <1>9, FrameLogins

-----------------------------------------------------------------------------
(***************************************************************************)
(* The network has answered: a login starts on its edits.                  *)
(***************************************************************************)

LEMMA OneSets ==
  ASSUME NEW k \in Key, NEW v, v # "keep"
  PROVE  /\ One(k, v)[k] = v
         /\ \A j \in Key : One(k, v)[j] # "keep" => j = k
BY DEF One

LEMMA EditsLogins ==
  ASSUME Inv, LoginInv, NEW c \in Command, cmd[c].pc = "net", cmd[c].kind \in LoginKind,
         NEW p \in Stem, NEW todo, NEW causes, Edits(c, p, todo, causes),
         UNCHANGED <<files, home, started, lived, logged>>, session \subseteq session',
         Plan(cmd[c])',
         \/ "bare" \in causes
         \/ /\ Aims(c, p) /\ Ahead(c, "did")'
            /\ cmd[c].kind = "oauth" => Ahead(c, "auth_mode")'
            /\ causes # {} \/ \A k \in Names : Ahead(c, k)'
  PROVE  LoginInv'
<1>1. PICK s : s = [cmd[c] EXCEPT !.pc = "edit", !.path = p, !.todo = todo]
  OBVIOUS
<1>2. /\ s.pc = "edit" /\ s.path = p /\ s.todo = todo
      /\ s.kind = cmd[c].kind /\ s.acct = cmd[c].acct
  BY <1>1 DEF Inv, CommandState
<1>3. /\ cmd' = [cmd EXCEPT ![c] = s] /\ cmd'[c] = s
      /\ \A d \in Command : d # c => cmd'[d] = cmd[d]
      /\ UNCHANGED <<file, want, raced, logged, lived>>
  BY <1>1, StepMoves DEF Edits, Become, files
<1>4. PICK over :
        /\ taint' = [taint EXCEPT ![p] = @ \cup causes \cup over]
        /\ over = IF \E d \in Command \ {c} : p \in {cmd[d].name, cmd[d].path}
                                /\ cmd[d].kind \in LoginKind
                  THEN {"overlap"} ELSE {}
  BY DEF Edits
<1>5. taint \in [Path -> SUBSET Cause] /\ p \in Path
  BY StemIsPath DEF Inv, Typed
<1>6. Grows /\ taint'[p] = taint[p] \cup causes \cup over
  BY <1>3, <1>4, <1>5 DEF Grows
<1>7. \A q : ~Aims(c, q)' /\ ~LogsIn(c, q) /\ (q # p => ~LogsIn(c, q)')
  BY <1>2, <1>3 DEF Aims, LogsIn, Editing
<1>8. LogsIn(c, p)'
  BY <1>2, <1>3 DEF LogsIn, Editing
<1>9. \A q \in Path : NoNewAims(q) /\ (q # p => Calm(q))
  BY <1>3, <1>7, CalmStep, NoNewAimsStep
<1>10. \A q \in Path : /\ Texts(q)' \subseteq Texts(q) /\ Steady(q)
                       /\ \A d \in Command : Truncated(d, q)' => Truncated(d, q)
  BY <1>2, <1>3, SteadyStep
<1>11. \A q \in Path \ raced' : Fades(q)'
  BY <1>3, <1>10, FadesStays DEF LoginInv
<1>12. \A d \in Command : Plan(cmd[d])' /\ Served(cmd[d])'
  <2>1. Served(cmd[c])'
    BY <1>2, <1>3 DEF Served, LoginKind
  <2>2. QED
    BY <1>3, <1>6, <2>1, OneMoves
<1>13. "overlap" \notin taint'[p] =>
         \A d \in Command : d # c => ~LogsIn(d, p)' /\ ~Aims(d, p)'
  <2> SUFFICES ASSUME "overlap" \notin taint'[p], NEW d \in Command, d # c
               PROVE  ~LogsIn(d, p)' /\ ~Aims(d, p)'
    OBVIOUS
  <2>1. ~(p \in {cmd[d].name, cmd[d].path} /\ cmd[d].kind \in LoginKind)
    BY <1>4, <1>6
  <2>2. cmd'[d] = cmd[d]
    BY <1>3
  <2>3. QED
    BY <2>1, <2>2 DEF LogsIn, Editing, Aims, LoginKind
<1>14. ASSUME NEW q \in Stem
       PROVE  /\ AloneOn(q)' /\ OneOwner(q)'
              /\ q # "default" => Matched(q)'
  <2>1. CASE q # p
    <3>1. /\ q \in Path /\ AloneOn(q) /\ OneOwner(q) /\ Calm(q) /\ NoNewAims(q) /\ Steady(q)
          /\ q # "default" => Matched(q)
      BY <1>9, <1>10, <2>1, StemIsPath DEF LoginInv
    <3>2. QED
      BY <1>6, <3>1, CalmAlone, CalmOwner, CalmMatched DEF Calm
  <2>2. CASE q = p
    <3>1. AloneOn(p)'
      BY <1>13, <1>7 DEF AloneOn
    <3>2. LoggingIn(p)'
      BY <1>8 DEF LoggingIn, LogsIn
    <3>3. OneOwner(p)'
      <4> SUFFICES ASSUME taint'[p] = {}, NEW d \in Command, NEW k \in Names, LogsIn(d, p)',
                          ~Ahead(d, k)'
                   PROVE  FALSE
        BY <3>2 DEF OneOwner
      <4>1. d = c /\ causes = {}
        BY <1>6, <1>13
      <4>2. QED
        BY <4>1
    <3>4. ASSUME p # "default", taint'[p] \cap {"bare", "crash", "overlap", "manual"} = {},
                 p \notin raced', NEW t \in Texts(p)', NEW d \in Command
          PROVE  LoginKnows(d, p, t)'
      <4>1. CASE d # c
        BY <1>13, <3>4, <4>1 DEF LoginKnows
      <4>2. CASE d = c
        <5>1. /\ taint[p] \cap {"bare", "crash", "overlap", "manual"} = {} /\ p \notin raced
              /\ "bare" \notin causes
          BY <1>3, <1>6, <3>4
        <5>2. LoginKnows(c, p, t)
          BY <1>5, <1>10, <3>4, <5>1 DEF Matched, LoginInv
        <5>3. QED
          BY <1>2, <1>3, <4>2, <5>1, <5>2 DEF LoginKnows
      <4>3. QED
        BY <4>1, <4>2
    <3>5. QED
      BY <2>2, <3>1, <3>2, <3>3, <3>4 DEF Matched
  <2>3. QED
    BY <2>1, <2>2
<1>15. DidsKnown'
  BY <1>2, <1>3, <1>6, DidsStay DEF LoginInv
<1>16. QED
  BY <1>11, <1>12, <1>14, <1>15 DEF LoginInv

LEMMA AppAnsweredLogins ==
  ASSUME Inv, LoginInv, NEW c \in Command, AppAnswered(c)
  PROVE  LoginInv'
<1> DEFINE r == cmd[c]
<1>0. PICK a, p : a = r.acct /\ p = r.name
  OBVIOUS
<1>1. /\ Typed /\ r \in CommandState /\ a \in Account /\ p \in Stem
      /\ r.pc = "net" /\ r.kind = "app" /\ Keeps("app", a)
  BY <1>0 DEF Inv, Good, Shaped, AppAnswered
<1>2. PICK pds \in {home[a], "unset"} \cup (IF <<"app", a>> \in session THEN lived[a] ELSE {}) :
        Edits(c, p,
              <<One("did", a), One("handle", a)>>
                \o (IF pds = "unset" THEN <<>> ELSE <<One("pds", pds)>>),
              IF pds = "unset" THEN {"pdsless"} ELSE {})
  BY <1>0 DEF AppAnswered
<1>3. UNCHANGED <<files, home, started, lived, logged>>
  BY DEF AppAnswered
<1>4. PICK todo, causes :
        /\ todo = <<One("did", a), One("handle", a)>>
                    \o (IF pds = "unset" THEN <<>> ELSE <<One("pds", pds)>>)
        /\ causes = IF pds = "unset" THEN {"pdsless"} ELSE {}
        /\ Edits(c, p, todo, causes)
  BY <1>2
<1>5. pds # "unset" => pds \in lived[a] /\ pds # "keep"
  BY <1>1, <1>2, Sentinels DEF Typed
<1>6. a # "keep" /\ {"did", "handle", "pds"} \subseteq Key
  BY <1>1, Sentinels DEF Key
<1>7. cmd'[c] = [r EXCEPT !.pc = "edit", !.path = p, !.todo = todo]
  BY <1>4, StepMoves DEF Edits, Become
<1>8. /\ cmd'[c].todo = todo /\ cmd'[c].kind = "app" /\ cmd'[c].acct = a
      /\ cmd'[c].path = p /\ cmd'[c].pc = "edit"
  BY <1>0, <1>1, <1>7 DEF CommandState
<1>9. /\ DOMAIN todo = IF pds = "unset" THEN 1 .. 2 ELSE 1 .. 3
      /\ todo[1] = One("did", a) /\ todo[2] = One("handle", a)
      /\ pds # "unset" => todo[3] = One("pds", pds)
  <2>1. CASE pds = "unset"
    BY <1>4, <2>1
  <2>2. CASE pds # "unset"
    BY <1>4, <2>2
  <2>3. QED
    BY <2>1, <2>2
<1>10. <<"app", a>> \in session' /\ session \subseteq session' /\ lived' = lived
  BY <1>1, <1>3 DEF Keeps
<1>11. \A i \in DOMAIN todo :
         /\ \E k \in Key : todo[i][k] # "keep"
         /\ \A k \in Key : todo[i][k] # "keep" => Gives(cmd[c], k, todo[i][k])'
  <2>1. /\ Gives(cmd[c], "did", a)' /\ Gives(cmd[c], "handle", a)'
        /\ pds # "unset" => Gives(cmd[c], "pds", pds)'
    BY <1>5, <1>8, <1>10 DEF Gives
  <2>2. /\ One("did", a)["did"] = a /\ One("handle", a)["handle"] = a
        /\ \A k \in Key : One("did", a)[k] # "keep" => k = "did"
        /\ \A k \in Key : One("handle", a)[k] # "keep" => k = "handle"
    BY <1>6, OneSets
  <2>3. pds # "unset" => /\ One("pds", pds)["pds"] = pds
                         /\ \A k \in Key : One("pds", pds)[k] # "keep" => k = "pds"
    BY <1>5, <1>6, OneSets
  <2>4. SUFFICES ASSUME NEW i \in DOMAIN todo
                 PROVE  /\ \E k \in Key : todo[i][k] # "keep"
                        /\ \A k \in Key : todo[i][k] # "keep" => Gives(cmd[c], k, todo[i][k])'
    OBVIOUS
  <2>5. i = 1 \/ i = 2 \/ (i = 3 /\ pds # "unset")
    BY <1>9
  <2>6. CASE i = 1
    BY <1>6, <1>9, <2>1, <2>2, <2>6
  <2>7. CASE i = 2
    BY <1>6, <1>9, <2>1, <2>2, <2>7
  <2>8. CASE i = 3 /\ pds # "unset"
    BY <1>5, <1>6, <1>9, <2>1, <2>3, <2>8
  <2>9. QED
    BY <2>5, <2>6, <2>7, <2>8
<1>12. Plan(cmd[c])'
  BY <1>8, <1>10, <1>11 DEF Plan, StoredPlan, LoginKind
<1>13. Ahead(c, "did")' /\ (causes # {} \/ \A k \in Names : Ahead(c, k)')
  <2>1. 1 \in DOMAIN todo /\ 2 \in DOMAIN todo /\ (pds # "unset" => 3 \in DOMAIN todo)
    BY <1>9
  <2>2. /\ todo[1]["did"] # "keep" /\ todo[2]["handle"] # "keep"
        /\ pds # "unset" => todo[3]["pds"] # "keep"
    BY <1>5, <1>6, <1>9, OneSets
  <2>3. pds = "unset" => causes # {}
    BY <1>4
  <2>4. QED
    BY <1>8, <2>1, <2>2, <2>3 DEF Ahead, Names
<1>14. Aims(c, p)
  BY <1>0, <1>1 DEF Aims
<1>15. QED
  BY <1>1, <1>3, <1>4, <1>10, <1>12, <1>13, <1>14, EditsLogins DEF LoginKind

LEMMA OAuthAnsweredLogins ==
  ASSUME Inv, LoginInv, NEW c \in Command, OAuthAnswered(c)
  PROVE  LoginInv'
<1> DEFINE r == cmd[c]
<1>0. PICK a, p, pds : a = r.acct /\ p = r.name /\ pds = home[a]
  OBVIOUS
<1>1. /\ Typed /\ r \in CommandState /\ a \in Account /\ p \in Stem
      /\ r.pc = "net" /\ r.kind = "oauth" /\ Keeps("oauth", a)
  BY <1>0 DEF Inv, Good, Shaped, OAuthAnswered
<1>2. PICK todo :
        /\ todo = <<One("did", a), One("auth_mode", "oauth"), One("pds", pds)>>
        /\ Edits(c, p, todo, {"oauth"})
  BY <1>0 DEF OAuthAnswered
<1>3. UNCHANGED <<files, home, started, lived, logged>>
  BY DEF OAuthAnswered
<1>4. pds \in lived[a] /\ pds # "keep"
  BY <1>0, <1>1, Sentinels DEF Typed
<1>5. a # "keep" /\ {"did", "auth_mode", "pds"} \subseteq Key
  BY <1>1, Sentinels DEF Key
<1>6. cmd'[c] = [r EXCEPT !.pc = "edit", !.path = p, !.todo = todo]
  BY <1>2, StepMoves DEF Edits, Become
<1>7. /\ cmd'[c].todo = todo /\ cmd'[c].kind = "oauth" /\ cmd'[c].acct = a
      /\ cmd'[c].path = p /\ cmd'[c].pc = "edit"
  BY <1>0, <1>1, <1>6 DEF CommandState
<1>8. /\ DOMAIN todo = 1 .. 3
      /\ todo[1] = One("did", a) /\ todo[2] = One("auth_mode", "oauth")
      /\ todo[3] = One("pds", pds)
  BY <1>2
<1>9. /\ <<"oauth", a>> \in session' /\ session \subseteq session' /\ lived' = lived
      /\ "oauth" \in taint'[p]
  <2>1. p \in Path /\ taint \in [Path -> SUBSET Cause]
    BY <1>1, StemIsPath DEF Typed
  <2>2. QED
    BY <1>1, <1>2, <1>3, <2>1 DEF Keeps, Edits
<1>10. /\ One("did", a)["did"] = a /\ One("auth_mode", "oauth")["auth_mode"] = "oauth"
       /\ One("pds", pds)["pds"] = pds
       /\ \A k \in Key : One("did", a)[k] # "keep" => k = "did"
       /\ \A k \in Key : One("auth_mode", "oauth")[k] # "keep" => k = "auth_mode"
       /\ \A k \in Key : One("pds", pds)[k] # "keep" => k = "pds"
  BY <1>4, <1>5, OneSets
<1>11. \A i \in DOMAIN todo :
         /\ \E k \in Key : todo[i][k] # "keep"
         /\ \A k \in Key : todo[i][k] # "keep" => Gives(cmd[c], k, todo[i][k])'
  <2>1. /\ Gives(cmd[c], "did", a)' /\ Gives(cmd[c], "auth_mode", "oauth")'
        /\ Gives(cmd[c], "pds", pds)'
    BY <1>4, <1>7, <1>9 DEF Gives
  <2>2. SUFFICES ASSUME NEW i \in DOMAIN todo
                 PROVE  /\ \E k \in Key : todo[i][k] # "keep"
                        /\ \A k \in Key : todo[i][k] # "keep" => Gives(cmd[c], k, todo[i][k])'
    OBVIOUS
  <2>3. CASE i = 1
    BY <1>5, <1>8, <1>10, <2>1, <2>3
  <2>4. CASE i = 2
    BY <1>5, <1>8, <1>10, <2>1, <2>4
  <2>5. CASE i = 3
    BY <1>4, <1>5, <1>8, <1>10, <2>1, <2>5
  <2>6. QED
    BY <1>8, <2>3, <2>4, <2>5
<1>12. ModeFollows(cmd[c])'
  <2>1. \A i \in DOMAIN todo : todo[i]["did"] # "keep" => i = 1
    BY <1>5, <1>8, <1>10
  <2>2. 2 \in DOMAIN todo /\ todo[2]["auth_mode"] # "keep"
    BY <1>8, <1>10
  <2>3. QED
    BY <1>7, <2>1, <2>2 DEF ModeFollows
<1>13. Plan(cmd[c])'
  BY <1>7, <1>9, <1>11, <1>12 DEF Plan, StoredPlan, LoginKind
<1>14. Ahead(c, "did")' /\ Ahead(c, "auth_mode")'
  <2>1. 1 \in DOMAIN todo /\ 2 \in DOMAIN todo
    BY <1>8
  <2>2. todo[1]["did"] # "keep" /\ todo[2]["auth_mode"] # "keep"
    BY <1>5, <1>8, <1>10
  <2>3. QED
    BY <1>7, <2>1, <2>2 DEF Ahead
<1>15. Aims(c, p)
  BY <1>0, <1>1 DEF Aims
<1>16. QED
  BY <1>1, <1>2, <1>3, <1>9, <1>13, <1>14, <1>15, EditsLogins DEF LoginKind

LEMMA BareAnsweredLogins ==
  ASSUME Inv, LoginInv, NEW c \in Command, BareAnswered(c)
  PROVE  LoginInv'
<1> DEFINE r     == cmd[c]
           a     == r.acct
           saved == [One("did", a) EXCEPT !["pds"] = home[a], !["active"] = "set"]
           named == [saved EXCEPT !["handle"] = a]
<1>1. r \in CommandState /\ a \in Stem /\ a \in Account /\ r.pc = "net" /\ r.kind = "bare"
  BY StemIsPath DEF Inv, Good, Shaped, BareAnswered
<1>2. PICK edit \in {saved, named} : Edits(c, a, <<edit>>, {"bare"})
  BY DEF BareAnswered
<1>3. UNCHANGED <<files, session, active, home, started, lived, logged>>
  BY DEF BareAnswered
<1>4. edit["did"] = a
  BY <1>1, OneSets, Sentinels DEF Key, One
<1> HIDE DEF saved, named
<1>5. PICK todo : todo = <<edit>>
  OBVIOUS
<1>6. cmd'[c] = [r EXCEPT !.pc = "edit", !.path = a, !.todo = todo]
  BY <1>2, <1>5, StepMoves DEF Edits, Become
<1>7. /\ cmd'[c].todo = todo /\ cmd'[c].kind = "bare" /\ cmd'[c].path = a
  BY <1>1, <1>6 DEF CommandState
<1>8. "bare" \in taint'[a]
  BY <1>1, <1>2, StemIsPath DEF Edits, Inv, Typed
<1>9. \A i \in DOMAIN todo : todo[i]["did"] \in Account
  BY <1>1, <1>4, <1>5
<1>10. Plan(cmd[c])'
  BY <1>7, <1>8, <1>9 DEF Plan, LoginKind
<1>11. QED
  BY <1>1, <1>2, <1>3, <1>5, <1>10, EditsLogins DEF LoginKind

-----------------------------------------------------------------------------
(***************************************************************************)
(* One edit.                                                               *)
(***************************************************************************)

\* What follows an edit keeps its order.
LEMMA TailFollows ==
  ASSUME NEW S, NEW todo \in Seq(S), todo # <<>>
  PROVE  /\ 1 \in DOMAIN todo /\ Head(todo) = todo[1]
         /\ \A i \in DOMAIN Tail(todo) : i + 1 \in DOMAIN todo /\ Tail(todo)[i] = todo[i + 1]
         /\ \A j \in DOMAIN todo : j # 1 =>
              \E i \in DOMAIN Tail(todo) : j = i + 1 /\ Tail(todo)[i] = todo[j]
<1>1. Len(todo) \in Nat /\ Len(todo) >= 1 /\ DOMAIN todo = 1 .. Len(todo)
  OBVIOUS
<1>2. /\ Len(Tail(todo)) = Len(todo) - 1 /\ DOMAIN Tail(todo) = 1 .. (Len(todo) - 1)
      /\ \A i \in 1 .. (Len(todo) - 1) : Tail(todo)[i] = todo[i + 1]
  BY <1>1
<1>3. ASSUME NEW j \in DOMAIN todo, j # 1
      PROVE  \E i \in DOMAIN Tail(todo) : j = i + 1 /\ Tail(todo)[i] = todo[j]
  <2>1. PICK i : i = j - 1
    OBVIOUS
  <2>2. i \in DOMAIN Tail(todo) /\ j = i + 1 /\ Tail(todo)[i] = todo[j]
    BY <1>1, <1>2, <1>3, <2>1
  <2>3. QED
    BY <2>2
<1>4. Head(todo) = todo[1]
  OBVIOUS
<1>5. \A i \in DOMAIN Tail(todo) : i + 1 \in DOMAIN todo /\ Tail(todo)[i] = todo[i + 1]
  BY <1>1, <1>2
<1>6. QED
  BY <1>1, <1>3, <1>4, <1>5

\* What a command is about to write on a fragment of no other origin.
LEMMA TodoIsKnown ==
  ASSUME Inv, LoginInv, NEW c \in Command, cmd[c].pc \in Writing, Unnamed(cmd[c].path)
  PROVE  /\ 1 \in DOMAIN cmd[c].todo /\ Head(cmd[c].todo) = cmd[c].todo[1]
         /\ cmd[c].todo[1]["did"] \in Known \cup {"keep"}
<1>1. PICK r : r = cmd[c]
  OBVIOUS
<1>2. /\ r.todo \in Seq(Edit) /\ r.todo # <<>> /\ Plan(r)
      /\ r.kind \in {"app", "oauth"} => r.acct \in Account
  BY <1>1 DEF Inv, LoginInv, Good, Shaped, CommandState, Writing
<1>3. 1 \in DOMAIN r.todo /\ Head(r.todo) = r.todo[1]
  BY <1>2, TailFollows
<1>4. r.kind \in {"app", "oauth", "config"}
  BY <1>1, <1>2 DEF Plan, LoginKind, Unnamed
<1>5. r.kind \in {"app", "oauth"} => r.todo[1]["did"] \in Known \cup {"keep"}
  <2> SUFFICES ASSUME r.kind \in {"app", "oauth"}, r.todo[1]["did"] # "keep"
               PROVE  r.todo[1]["did"] \in Known
    OBVIOUS
  <2>1. Gives(r, "did", r.todo[1]["did"]) /\ <<r.kind, r.acct>> \in session
    BY <1>1, <1>2, <1>3 DEF Plan, StoredPlan, Key
  <2>2. QED
    BY <1>2, <2>1 DEF Gives, Known
<1>6. r.kind = "config" => r.todo[1]["did"] \in {"keep", "unset"}
  BY <1>1, <1>2, <1>3 DEF Plan, Unnamed
<1>7. QED
  BY <1>1, <1>3, <1>4, <1>5, <1>6 DEF Known

\* A login has something to write with every edit.
LEMMA EditReadLogins ==
  ASSUME Inv, LoginInv, NEW c \in Command, EditRead(c)
  PROVE  LoginInv'
<1>1. PICK r, p, edit : r = cmd[c] /\ p = r.path /\ edit = Head(r.todo)
  OBVIOUS
<1>2. /\ r \in CommandState /\ r.pc = "edit" /\ r.todo \in Seq(Edit) /\ r.todo # <<>>
      /\ Plan(r) /\ Served(r)
      /\ r.kind \in {"app", "oauth"} => r.acct \in Account
  BY <1>1 DEF Inv, LoginInv, Good, Shaped, Writing, EditRead, CommandState
<1>3. /\ UNCHANGED <<file, want, raced, logged>> /\ Grows
  BY SameGrows DEF EditRead, files, history
<1>4. PICK s :
        /\ cmd' = [cmd EXCEPT ![c] = s]
        /\ \/ s = [r EXCEPT !.pc = "copy", !.copy = file[p]]
           \/ /\ s = Idle
              /\ \A k \in Key : edit[k] # "keep" => edit[k] = "unset"
  BY <1>1 DEF EditRead, Become
<1>5. cmd'[c] = s
  BY <1>4, StepMoves
<1>6. CASE s = [r EXCEPT !.pc = "copy", !.copy = file[p]]
  <2>1. /\ s.pc = "copy" /\ s.kind = r.kind /\ s.acct = r.acct /\ s.path = r.path
        /\ s.todo = r.todo /\ s.sound = r.sound
    BY <1>2, <1>6 DEF CommandState
  <2>2. \A q : ~Aims(c, q)' /\ (LogsIn(c, q)' <=> LogsIn(c, q))
    BY <1>1, <1>2, <1>5, <2>1 DEF Aims, LogsIn, Editing
  <2>3. Plan(cmd[c])'
    BY <1>1, <1>2, <1>3, <1>5, <2>1, PlanStays DEF Writing
  <2>4. Served(cmd[c])'
    BY <1>2, <1>5, <2>1 DEF Served
  <2>5. DidsKnown'
    <3>1. Known' = Known /\ taint' = taint
      BY DEF EditRead, files, history, Known
    <3>2. s.copy = file[p]
      BY <1>2, <1>6 DEF CommandState
    <3>3. \A d \in Command : d # c => cmd'[d] = cmd[d]
      BY <1>4, StepMoves
    <3>4. QED
      BY <1>1, <1>3, <1>5, <2>1, <3>1, <3>2, <3>3 DEF LoginInv, DidsKnown, Unnamed
  <2>6. QED
    BY <1>1, <1>3, <1>4, <2>1, <2>2, <2>3, <2>4, <2>5, FrameLogins
<1>7. CASE s = Idle /\ \A k \in Key : edit[k] # "keep" => edit[k] = "unset"
  <2>1. 1 \in DOMAIN r.todo /\ edit = r.todo[1]
    BY <1>1, <1>2, TailFollows
  <2>2. r.kind \notin {"app", "oauth"}
    <3> SUFFICES ASSUME r.kind \in {"app", "oauth"} PROVE FALSE
      OBVIOUS
    <3>1. PICK k \in Key : edit[k] # "keep"
      BY <1>2, <2>1 DEF Plan, StoredPlan, Writing
    <3>2. Gives(r, k, edit[k])
      BY <1>2, <2>1, <3>1 DEF Plan, StoredPlan, Writing
    <3>3. edit[k] \in Account \cup Pds \cup {"oauth"}
      BY <1>2, <3>2 DEF Gives, Inv, Typed
    <3>4. QED
      BY <1>7, <3>1, <3>3, Sentinels
  <2>3. r.kind # "bare"
    BY <1>2, <1>7, <2>1, Sentinels DEF Plan, Writing, Key
  <2>4. \A q : ~Aims(c, q)' /\ ~LogsIn(c, q)' /\ ~LogsIn(c, q)
    BY <1>1, <1>5, <1>7, <2>2, <2>3, IdleIsState DEF Aims, LogsIn, Editing, LoginKind
  <2>5. Plan(cmd[c])' /\ Served(cmd[c])' /\ s.pc # "trunc"
    BY <1>5, <1>7, IdleIsState DEF Plan, Served, Writing
  <2>6. DidsKnown'
    BY <1>3, <1>4, <1>7, IdleIsState, DidsStay DEF LoginInv
  <2>7. QED
    BY <1>3, <1>4, <2>4, <2>5, <2>6, FrameLogins
<1>8. QED
  BY <1>4, <1>6, <1>7

LEMMA EditTruncateLogins ==
  ASSUME Inv, LoginInv, NEW c \in Command, EditTruncate(c)
  PROVE  LoginInv'
<1>1. PICK r, p, s : r = cmd[c] /\ p = r.path /\ s = [r EXCEPT !.pc = "trunc"]
  OBVIOUS
<1>2. /\ r \in CommandState /\ r.pc = "copy" /\ p \in Path /\ file \in [Path -> Doc]
      /\ Plan(r) /\ Served(r)
  BY <1>1 DEF Inv, Typed, LoginInv, Good, Shaped, Writing, EditTruncate
<1>3. /\ s.pc = "trunc" /\ s.kind = r.kind /\ s.acct = r.acct /\ s.path = p
      /\ s.todo = r.todo /\ s.copy = r.copy /\ s.sound = r.sound
  BY <1>1, <1>2 DEF CommandState
<1>4. /\ cmd' = [cmd EXCEPT ![c] = s] /\ file' = [file EXCEPT ![p] = Blank]
      /\ raced' = IF file[p] = r.copy /\ ~(\E d \in Command : Truncated(d, p))
                  THEN raced ELSE raced \cup {p}
      /\ UNCHANGED <<want, session, lived, taint, logged>>
  BY <1>1 DEF EditTruncate, Become, history
<1>5. cmd'[c] = s /\ \A d \in Command : d # c => cmd'[d] = cmd[d]
  BY <1>4, StepMoves
<1>6. Grows
  BY <1>4 DEF Grows
<1>7. \A q : ~Aims(c, q)' /\ (LogsIn(c, q)' <=> LogsIn(c, q))
  BY <1>1, <1>2, <1>3, <1>5 DEF Aims, LogsIn, Editing
<1>8. \A q \in Path : Calm(q) /\ NoNewAims(q)
  BY <1>1, <1>3, <1>4, <1>7, CalmStep, NoNewAimsStep
<1>9. ASSUME NEW q \in Path, q \notin raced'
      PROVE  Steady(q) /\ Fades(q)'
  <2>1. q \notin raced
    BY <1>4, <1>9
  <2>2. CASE q = p
    <3>1. file[p] = r.copy /\ \A d \in Command : ~Truncated(d, p)
      BY <1>4, <1>9, <2>2
    <3>2. \A d \in Command : Truncated(d, p)' => d = c
      BY <1>5, <3>1 DEF Truncated
    <3>3. Texts(p)' \subseteq {Blank, file[p]}
      BY <1>2, <1>3, <1>4, <1>5, <3>1, <3>2 DEF Texts
    <3>4. Steady(p)
      BY <3>3 DEF Steady, Texts
    <3>5. \A t \in Texts(p)' : Faded(t, p)'
      BY <1>4, <2>1, <2>2, <3>4 DEF LoginInv, Fades, Steady, Faded, Blank
    <3>6. QED
      BY <2>2, <3>2, <3>4, <3>5 DEF Fades
  <2>3. CASE q # p
    <3>1. \A d \in Command : Truncated(d, q)' => Truncated(d, q) /\ cmd'[d] = cmd[d]
      BY <1>3, <1>5, <2>3 DEF Truncated
    <3>2. file'[q] = file[q]
      BY <1>2, <1>4, <2>3
    <3>3. Steady(q)
      BY <3>1, <3>2 DEF Steady, Texts
    <3>4. QED
      BY <1>4, <2>1, <3>1, <3>3, FadesStays DEF LoginInv
  <2>4. QED
    BY <2>2, <2>3
<1>10. Plan(cmd[c])' /\ Served(cmd[c])'
  <2>1. Plan(cmd[c])'
    BY <1>1, <1>2, <1>3, <1>5, <1>6, PlanStays DEF Writing
  <2>2. QED
    BY <1>2, <1>3, <1>5, <2>1 DEF Served
<1>11. \A d \in Command : Plan(cmd[d])' /\ Served(cmd[d])'
  BY <1>4, <1>6, <1>10, OneMoves
<1>12. ASSUME NEW q \in Stem
       PROVE  /\ AloneOn(q)' /\ OneOwner(q)'
              /\ q # "default" => Matched(q)'
  <2>1. /\ q \in Path /\ AloneOn(q) /\ OneOwner(q) /\ Calm(q) /\ NoNewAims(q)
        /\ q # "default" => Matched(q)
    BY <1>8, StemIsPath DEF LoginInv
  <2>2. QED
    BY <1>6, <1>9, <2>1, CalmAlone, CalmOwner, CalmMatched DEF Calm
<1>13. DidsKnown'
  <2>1. Known' = Known
    BY <1>4 DEF Known
  <2>2. \A q \in Path : file'[q] = IF q = p THEN Blank ELSE file[q]
    BY <1>2, <1>4
  <2>3. Blank["did"] \in Known
    BY DEF Blank, Key, Known
  <2>4. SUFFICES ASSUME NEW q \in Stem, Unnamed(q)
                 PROVE  /\ file'[q]["did"] \in Known
                        /\ \A d \in Command :
                             cmd'[d].path = q /\ cmd'[d].pc \in {"copy", "trunc"} =>
                               cmd'[d].copy["did"] \in Known
    BY <1>4, <2>1 DEF DidsKnown, Unnamed
  <2>5. /\ file[q]["did"] \in Known
        /\ \A d \in Command : cmd[d].path = q /\ cmd[d].pc \in {"copy", "trunc"} =>
             cmd[d].copy["did"] \in Known
    BY <2>4 DEF LoginInv, DidsKnown
  <2>6. q = p => r.copy["did"] \in Known
    BY <1>1, <1>2, <2>5
  <2>7. file'[q]["did"] \in Known
    BY <2>2, <2>3, <2>5, StemIsPath
  <2>8. \A d \in Command : cmd'[d].path = q /\ cmd'[d].pc \in {"copy", "trunc"} =>
          cmd'[d].copy["did"] \in Known
    BY <1>3, <1>5, <2>5, <2>6
  <2>9. QED
    BY <2>7, <2>8
<1>14. QED
  BY <1>9, <1>11, <1>12, <1>13 DEF LoginInv

LEMMA CrashLogins ==
  ASSUME Inv, LoginInv, NEW c \in Command, Crash(c)
  PROVE  LoginInv'
<1>1. PICK r, p : r = cmd[c] /\ p = r.path
  OBVIOUS
<1>2. /\ r.pc \in Writing /\ p \in Path /\ taint \in [Path -> SUBSET Cause]
      /\ r.kind \in LoginKind \cup {"config"}
  BY <1>1 DEF Inv, Typed, LoginInv, Plan, Good, Shaped, Writing, Crash
<1>3. /\ cmd' = [cmd EXCEPT ![c] = Idle]
      /\ taint' = [taint EXCEPT ![p] = @ \cup (IF r.kind = "config" THEN {} ELSE {"crash"})]
      /\ UNCHANGED <<file, want, raced, session, lived, logged>>
  BY <1>1 DEF Crash, Become
<1>4. cmd'[c] = Idle /\ Idle.pc # "trunc"
  BY <1>3, StepMoves, IdleIsState
<1>5. Grows
  BY <1>2, <1>3 DEF Grows
<1>6. Plan(cmd[c])' /\ Served(cmd[c])'
  BY <1>4, IdleIsState DEF Plan, Served, Writing
<1>7. \A q : ~Aims(c, q)' /\ ~LogsIn(c, q)'
  BY <1>4, IdleIsState DEF Aims, LogsIn, Editing
<1>8. DidsKnown'
  BY <1>3, <1>5, IdleIsState, DidsStay DEF LoginInv
<1>9. CASE r.kind = "config"
  <2>1. \A q : ~LogsIn(c, q)
    BY <1>1, <1>9 DEF LogsIn, LoginKind
  <2>2. QED
    BY <1>3, <1>4, <1>5, <1>6, <1>7, <1>8, <2>1, FrameLogins
<1>10. CASE r.kind # "config"
  <2>1. \A q \in Path : /\ Steady(q) /\ NoNewAims(q)
                        /\ \A d \in Command : Truncated(d, q)' => Truncated(d, q)
    BY <1>3, <1>4, <1>7, SteadyStep, NoNewAimsStep
  <2>2. \A q \in Path : q # p => Calm(q)
    <3>1. \A q : q # p => ~LogsIn(c, q)
      BY <1>1 DEF LogsIn, Editing
    <3>2. QED
      BY <1>3, <1>7, <3>1, CalmStep
  <2>3. \A q \in Path \ raced' : Fades(q)'
    BY <1>3, <2>1, FadesStays DEF LoginInv
  <2>4. \A d \in Command : Plan(cmd[d])' /\ Served(cmd[d])'
    BY <1>3, <1>5, <1>6, OneMoves
  <2>5. ASSUME NEW q \in Stem
        PROVE  /\ AloneOn(q)' /\ OneOwner(q)'
               /\ q # "default" => Matched(q)'
    <3>1. /\ q \in Path /\ AloneOn(q) /\ OneOwner(q) /\ NoNewAims(q) /\ Steady(q)
          /\ q # "default" => Matched(q)
      BY <2>1, StemIsPath DEF LoginInv
    <3>2. \A d \in Command : LogsIn(d, q)' => LogsIn(d, q)
      <4>1. \A d \in Command : d # c => cmd'[d] = cmd[d]
        BY <1>3, StepMoves
      <4>2. QED
        BY <1>7, <4>1 DEF LogsIn, Editing
    <3>3. AloneOn(q)'
      BY <1>5, <3>1, <3>2, CalmAlone
    <3>4. CASE q # p
      BY <1>5, <2>2, <3>1, <3>3, <3>4, CalmOwner, CalmMatched
    <3>5. CASE q = p
      <4>1. "crash" \in taint'[q]
        BY <1>2, <1>3, <1>10, <3>5
      <4>2. QED
        BY <3>3, <4>1 DEF OneOwner, Matched
    <3>6. QED
      BY <3>4, <3>5
  <2>6. QED
    BY <1>8, <2>3, <2>4, <2>5 DEF LoginInv
<1>11. QED
  BY <1>9, <1>10

\* No command moves.
LEMMA StillLogins ==
  ASSUME Inv, LoginInv, Grows, UNCHANGED <<cmd, file, want, raced, logged>>
  PROVE  LoginInv'
<1>1. \A p : /\ Calm(p) /\ NoNewAims(p) /\ Texts(p)' = Texts(p)
             /\ \A d \in Command : LogsIn(d, p)' => LogsIn(d, p)
  BY DEF Calm, NoNewAims, Texts, LogsIn, Aims, Editing, Truncated
<1>2. ASSUME NEW p \in Path \ raced' PROVE Fades(p)'
  <2>1. Fades(p) /\ Steady(p) /\ \A d \in Command : Truncated(d, p)' => Truncated(d, p)
    BY <1>1 DEF LoginInv, Steady, Truncated
  <2>2. QED
    BY <2>1, FadesStays
<1>3. ASSUME NEW d \in Command PROVE Plan(cmd[d])' /\ Served(cmd[d])'
  <2>1. Plan(cmd[d]) /\ Served(cmd[d]) /\ cmd'[d] = cmd[d]
    BY DEF LoginInv
  <2>2. QED
    BY <2>1, PlanStays, ServedStays
<1>4. ASSUME NEW p \in Stem
      PROVE  /\ AloneOn(p)' /\ OneOwner(p)'
             /\ p # "default" => Matched(p)'
  <2>1. /\ p \in Path /\ AloneOn(p) /\ OneOwner(p) /\ Calm(p) /\ NoNewAims(p) /\ Steady(p)
        /\ p # "default" => Matched(p)
    BY <1>1, StemIsPath DEF LoginInv, Steady
  <2>2. QED
    BY <1>1, <2>1, CalmAlone, CalmOwner, CalmMatched
<1>5. DidsKnown'
  <2>1. Known \subseteq Known' /\ \A p \in Stem : Unnamed(p)' => Unnamed(p)
    BY StemIsPath DEF Known, Unnamed, Grows
  <2>2. QED
    BY <2>1 DEF LoginInv, DidsKnown
<1>6. QED
  BY <1>2, <1>3, <1>4, <1>5 DEF LoginInv

\* The write-back: want takes the edit, and so does the one text there is.  After its last
\* edit the profile is the login's as a whole.
LEMMA EditWriteLogins ==
  ASSUME Inv, LoginInv, NEW c \in Command, EditWrite(c)
  PROVE  LoginInv'
<1>1. PICK r, p, edit, rest :
        r = cmd[c] /\ p = r.path /\ edit = Head(r.todo) /\ rest = Tail(r.todo)
  OBVIOUS
<1>2. /\ r \in CommandState /\ r.pc = "trunc" /\ p \in Path
      /\ r.todo \in Seq(Edit) /\ r.todo # <<>> /\ r.copy \in Doc
      /\ Typed /\ Plan(r) /\ Served(r)
  BY <1>1 DEF Inv, LoginInv, Good, Shaped, Writing, EditWrite, CommandState
<1>3. PICK s :
        /\ s = (IF rest = <<>> THEN Idle
                ELSE [r EXCEPT !.pc = "edit", !.todo = rest, !.copy = Blank])
        /\ cmd' = [cmd EXCEPT ![c] = s]
  BY <1>1 DEF EditWrite, Become
<1>4. /\ file' = [file EXCEPT ![p] = Apply(edit, r.copy)]
      /\ want' = [want EXCEPT ![p] = Apply(edit, want[p])]
      /\ logged' = IF rest = <<>> /\ r.kind = "app" THEN logged \cup {p} ELSE logged
      /\ UNCHANGED <<raced, session, lived, taint>>
  BY <1>1 DEF EditWrite
<1>5. /\ rest = <<>> => s.pc = "idle"
      /\ rest # <<>> => /\ s.pc = "edit" /\ s.todo = rest /\ s.kind = r.kind
                        /\ s.acct = r.acct /\ s.path = p /\ s.sound = r.sound
  BY <1>1, <1>2, <1>3, IdleIsState DEF CommandState
<1>6. cmd'[c] = s /\ (\A d \in Command : d # c => cmd'[d] = cmd[d]) /\ s.pc # "trunc"
  <2>1. s.pc # "trunc"
    BY <1>5
  <2>2. QED
    BY <1>3, <2>1, StepMoves
<1>7. /\ 1 \in DOMAIN r.todo /\ edit = r.todo[1] /\ edit \in Edit
      /\ \A i \in DOMAIN rest : i + 1 \in DOMAIN r.todo /\ rest[i] = r.todo[i + 1]
      /\ \A j \in DOMAIN r.todo : j # 1 =>
           \E i \in DOMAIN rest : j = i + 1 /\ rest[i] = r.todo[j]
  BY <1>1, <1>2, TailFollows
<1>8. Grows
  BY <1>4 DEF Grows
<1> DEFINE More(k) == \E i \in DOMAIN rest : rest[i][k] # "keep"
<1>9. \A k : Ahead(c, k) <=> edit[k] # "keep" \/ More(k)
  <2> SUFFICES ASSUME NEW k PROVE Ahead(c, k) <=> edit[k] # "keep" \/ More(k)
    OBVIOUS
  <2>1. ASSUME NEW j \in DOMAIN r.todo, r.todo[j][k] # "keep"
        PROVE  edit[k] # "keep" \/ More(k)
    BY <1>7, <2>1
  <2>2. edit[k] # "keep" => Ahead(c, k)
    BY <1>1, <1>7 DEF Ahead
  <2>3. More(k) => Ahead(c, k)
    <3> SUFFICES ASSUME NEW i \in DOMAIN rest, rest[i][k] # "keep" PROVE Ahead(c, k)
      OBVIOUS
    <3>1. PICK j \in DOMAIN r.todo : r.todo[j] = rest[i]
      BY <1>7
    <3>2. QED
      BY <1>1, <3>1 DEF Ahead
  <2>4. Ahead(c, k) => edit[k] # "keep" \/ More(k)
    BY <1>1, <2>1 DEF Ahead
  <2>5. QED
    BY <2>2, <2>3, <2>4
<1>10. \A k : LogsIn(c, p)' => (Ahead(c, k)' <=> More(k))
  BY <1>5, <1>6 DEF Ahead, LogsIn, Editing
<1> HIDE DEF More
<1>11. \A k \in Key : /\ Apply(edit, want[p])[k] = IF edit[k] = "keep" THEN want[p][k] ELSE edit[k]
                      /\ Apply(edit, r.copy)[k] = IF edit[k] = "keep" THEN r.copy[k] ELSE edit[k]
  BY DEF Apply
<1>12. want'[p] = Apply(edit, want[p]) /\ file'[p] = Apply(edit, r.copy)
  BY <1>2, <1>4 DEF Typed
<1>13. /\ \A q : ~Aims(c, q)' /\ (LogsIn(c, q)' => q = p /\ LogsIn(c, q))
       /\ LogsIn(c, p) <=> r.kind \in LoginKind
       /\ LogsIn(c, p)' <=> r.kind \in LoginKind /\ rest # <<>>
       /\ \A q : q # p => ~LogsIn(c, q)
  BY <1>1, <1>2, <1>5, <1>6 DEF Aims, LogsIn, Editing
<1>14. \A q \in Path : /\ NoNewAims(q)
                       /\ \A d \in Command : LogsIn(d, q)' => LogsIn(d, q)
  <2>1. \A q \in Path : NoNewAims(q)
    BY <1>3, <1>13, NoNewAimsStep
  <2>2. QED
    BY <1>6, <1>13, <2>1 DEF LogsIn, Editing
<1>15. \A q \in Path : q # p => Calm(q)
  <2>1. \A q \in Path : q # p => want'[q] = want[q] /\ (q \in logged' => q \in logged)
    BY <1>2, <1>4 DEF Typed
  <2>2. QED
    BY <1>3, <1>13, <2>1, CalmStep
<1>16. \A q \in Path : q # p =>
         /\ Steady(q)
         /\ \A d \in Command : Truncated(d, q)' => Truncated(d, q)
  <2>1. \A q \in Path : q # p => file'[q] = file[q]
    BY <1>2, <1>4 DEF Typed
  <2>2. QED
    BY <1>3, <1>6, <2>1, SteadyStep
<1>17. Truncated(c, p) /\ r.copy \in Texts(p)
  BY <1>1, <1>2 DEF Truncated, Texts
<1>18. p \notin raced => Texts(p)' \subseteq {Apply(edit, r.copy)}
                         /\ \A d \in Command : ~Truncated(d, p)'
  <2> SUFFICES ASSUME p \notin raced
               PROVE  /\ Texts(p)' \subseteq {Apply(edit, r.copy)}
                      /\ \A d \in Command : ~Truncated(d, p)'
    OBVIOUS
  <2>1. \A d \in Command : Truncated(d, p) => d = c
    BY <1>2, <1>17 DEF LoginInv, Fades
  <2>2. \A d \in Command : ~Truncated(d, p)'
    BY <1>6, <2>1 DEF Truncated
  <2>3. QED
    BY <1>12, <2>2 DEF Texts
<1>19. ASSUME NEW q \in Path, q \notin raced' PROVE Fades(q)'
  <2>1. q \notin raced /\ Fades(q)
    BY <1>4, <1>19 DEF LoginInv
  <2>2. CASE q = p
    <3>1. \A k \in Key : r.copy[k] \in {"unset", want[p][k]}
      BY <1>17, <2>1, <2>2 DEF Fades, Faded
    <3>2. \A k \in Key : Apply(edit, r.copy)[k] \in {"unset", want'[p][k]}
      BY <1>11, <1>12, <3>1
    <3>3. QED
      BY <1>18, <2>1, <2>2, <3>2 DEF Fades, Faded
  <2>3. CASE q # p
    <3>1. want'[q] = want[q]
      BY <1>2, <1>4, <2>3 DEF Typed
    <3>2. QED
      BY <1>16, <2>1, <2>3, <3>1, FadesStays
  <2>4. QED
    BY <2>2, <2>3
<1>20. Plan(cmd[c])'
  <2> SUFFICES ASSUME rest # <<>> PROVE Plan(cmd[c])'
    BY <1>5, <1>6 DEF Plan, Writing
  <2>1. r.kind \in {"app", "oauth"} => StoredPlan(cmd[c])'
    <3>1. r.kind \in {"app", "oauth"} => StoredPlan(r)
      BY <1>2 DEF Plan, Writing
    <3>2. \A v : \A k \in Key : Gives(r, k, v) => Gives(cmd[c], k, v)'
      BY <1>4, <1>5, <1>6 DEF Gives
    <3>3. QED
      BY <1>4, <1>5, <1>6, <1>7, <3>1, <3>2 DEF StoredPlan
  <2>2. r.kind = "oauth" => ModeFollows(cmd[c])'
    <3> SUFFICES ASSUME r.kind = "oauth", NEW i \in DOMAIN rest, rest[i]["did"] # "keep"
                 PROVE  \E j \in DOMAIN rest : i < j /\ rest[j]["auth_mode"] # "keep"
      BY <1>5, <1>6 DEF ModeFollows
    <3>1. i \in Nat /\ i >= 1
      BY <1>1, <1>2
    <3>2. PICK j \in DOMAIN r.todo : i + 1 < j /\ r.todo[j]["auth_mode"] # "keep"
      BY <1>2, <1>7 DEF Plan, ModeFollows, Writing
    <3>3. PICK m \in DOMAIN rest : j = m + 1 /\ rest[m] = r.todo[j]
      BY <1>7, <3>1, <3>2
    <3>4. m \in Nat
      BY <1>1, <1>2
    <3>5. i < m
      BY <3>1, <3>2, <3>3, <3>4
    <3>6. QED
      BY <3>2, <3>3, <3>5
  <2>3. /\ cmd'[c].kind = r.kind /\ cmd'[c].path = p /\ cmd'[c].todo = rest
        /\ r.pc \in Writing /\ taint' = taint
    BY <1>2, <1>4, <1>5, <1>6 DEF Writing
  <2>4. /\ r.kind = "bare" => \A i \in DOMAIN rest : rest[i]["did"] \in Account
        /\ r.kind = "config" =>
             \A i \in DOMAIN rest :
               /\ \A k \in Identity : rest[i][k] # "keep" => "manual" \in taint[p]
               /\ rest[i]["did"] \notin {"keep", "unset"} => "named" \in taint[p]
    <3> SUFFICES ASSUME NEW i \in DOMAIN rest
                 PROVE  /\ r.kind = "bare" => rest[i]["did"] \in Account
                        /\ r.kind = "config" =>
                             /\ \A k \in Identity : rest[i][k] # "keep" => "manual" \in taint[p]
                             /\ rest[i]["did"] \notin {"keep", "unset"} => "named" \in taint[p]
      OBVIOUS
    <3>1. PICK j \in DOMAIN r.todo : r.todo[j] = rest[i]
      BY <1>7
    <3>2. QED
      BY <1>1, <1>2, <2>3, <3>1 DEF Plan
  <2>5. QED
    BY <1>1, <1>2, <2>1, <2>2, <2>3, <2>4 DEF Plan
<1>21. \A d \in Command : Plan(cmd[d])' /\ Served(cmd[d])'
  <2>1. Served(cmd[c])'
    <3>1. ~(r.kind = "writer" /\ r.sound)
      BY <1>2 DEF Served
    <3>2. QED
      BY <1>3, <1>5, <1>6, <3>1, IdleIsState DEF Served
  <2>2. QED
    BY <1>3, <1>8, <1>20, <2>1, OneMoves
<1>22. ASSUME NEW q \in Stem, q # p
       PROVE  /\ AloneOn(q)' /\ OneOwner(q)'
              /\ q # "default" => Matched(q)'
  <2>1. /\ q \in Path /\ AloneOn(q) /\ OneOwner(q) /\ Calm(q) /\ NoNewAims(q) /\ Steady(q)
        /\ q # "default" => Matched(q)
    BY <1>14, <1>15, <1>16, <1>22, StemIsPath DEF LoginInv
  <2>2. QED
    BY <1>8, <2>1, CalmAlone, CalmOwner, CalmMatched DEF Calm
<1>23. ASSUME p \in Stem PROVE AloneOn(p)'
  <2>1. AloneOn(p)
    BY <1>23 DEF LoginInv
  <2>2. QED
    BY <1>2, <1>8, <1>14, <2>1, CalmAlone
\* A setting changed by hand that is none of the identity.
<1>24. ASSUME r.kind = "config", "manual" \notin taint[p]
       PROVE  /\ Calm(p) /\ \A k \in Identity : edit[k] = "keep"
  <2>1. \A k \in Identity : edit[k] = "keep"
    BY <1>1, <1>2, <1>7, <1>24 DEF Plan, Writing
  <2>2. \A k \in Names : want'[p][k] = want[p][k]
    BY <1>11, <1>12, <2>1 DEF Names, Identity, Key
  <2>3. (p \in logged' => p \in logged) /\ ~LogsIn(c, p) /\ ~LogsIn(c, p)'
    BY <1>4, <1>13, <1>24 DEF LoginKind
  <2>4. QED
    BY <1>3, <2>1, <2>2, <2>3, CalmStep
\* A login that is alone on p.
<1>25. ASSUME r.kind \in LoginKind, "overlap" \notin taint[p], p \in Stem
       PROVE  /\ \A d \in Command : LogsIn(d, p)' \/ Aims(d, p)' => d = c /\ rest # <<>>
              /\ ~LoggingIn(p)' => rest = <<>>
  <2>1. \A d \in Command : d # c => ~LogsIn(d, p) /\ ~Aims(d, p)
    BY <1>13, <1>25 DEF LoginInv, AloneOn
  <2>2. \A d \in Command : d # c => ~LogsIn(d, p)' /\ ~Aims(d, p)'
    BY <1>2, <1>14, <2>1 DEF NoNewAims
  <2>3. \A d \in Command : LogsIn(d, p)' \/ Aims(d, p)' => d = c /\ rest # <<>>
    BY <1>13, <2>2
  <2>4. ~LoggingIn(p)' => rest = <<>>
    BY <1>13, <1>25 DEF LoggingIn, LogsIn
  <2>5. QED
    BY <2>3, <2>4
<1>26. ASSUME p \in Stem PROVE OneOwner(p)'
  <2>1. OneOwner(p)
    BY <1>26 DEF LoginInv
  <2>2. SUFFICES ASSUME taint[p] = {} PROVE OneOwner(p)'
    BY <1>4 DEF OneOwner
  <2>3. r.kind \in {"app", "config"}
    BY <1>1, <1>2, <2>2 DEF Plan, Writing, LoginKind
  <2>4. CASE r.kind = "config"
    BY <1>2, <1>8, <1>24, <2>1, <2>2, <2>4, CalmOwner
  <2>5. CASE r.kind = "app"
    <3>1. StoredPlan(r) /\ LogsIn(c, p) /\ r.acct \in Account
      BY <1>1, <1>2, <1>13, <2>5 DEF Plan, Writing, LoginKind, Inv, Good, Shaped
    <3>2. \A k \in Names : ~More(k) => Gives(r, k, want'[p][k])
      <4> SUFFICES ASSUME NEW k \in Names, ~More(k) PROVE Gives(r, k, want'[p][k])
        OBVIOUS
      <4>1. k \in Key
        BY DEF Names, Key
      <4>2. CASE edit[k] # "keep"
        BY <1>7, <1>11, <1>12, <3>1, <4>1, <4>2 DEF StoredPlan
      <4>3. CASE edit[k] = "keep"
        <5>1. Gives(r, k, want[p][k])
          BY <1>1, <1>9, <2>1, <2>2, <3>1, <4>3 DEF OneOwner
        <5>2. QED
          BY <1>11, <1>12, <4>1, <4>3, <5>1
      <4>4. QED
        BY <4>2, <4>3
    <3>3. /\ \A d \in Command : LogsIn(d, p)' => d = c /\ rest # <<>>
          /\ ~LoggingIn(p)' => rest = <<>>
      BY <1>25, <1>26, <2>2, <2>5 DEF LoginKind
    <3>4. ASSUME NEW d \in Command, NEW k \in Names, LogsIn(d, p)', ~Ahead(d, k)'
          PROVE  Gives(cmd[d], k, want[p][k])'
      <4>1. d = c /\ rest # <<>> /\ ~More(k)
        BY <1>10, <3>3, <3>4
      <4>2. Gives(r, k, want'[p][k])
        BY <3>2, <4>1
      <4>3. QED
        BY <1>4, <1>5, <1>6, <4>1, <4>2 DEF Gives
    <3>5. ASSUME ~LoggingIn(p)'
          PROVE  WholeOf(want[p], r.acct)' 
      <4>1. \A k \in Names : ~More(k)
        BY <3>3, <3>5 DEF More
      <4>2. \A k \in Names : Gives(r, k, want'[p][k])
        BY <3>2, <4>1
      <4>3. QED
        BY <1>4, <2>5, <3>1, <4>2 DEF WholeOf, Gives, Names, StoredPlan
    <3>6. QED
      BY <3>1, <3>4, <3>5 DEF OneOwner
  <2>6. QED
    BY <2>3, <2>4, <2>5
<1>27. ASSUME p \in Stem \ {"default"} PROVE Matched(p)'
  <2>1. Matched(p)
    BY <1>27 DEF LoginInv
  <2>2. SUFFICES ASSUME taint[p] \cap {"bare", "crash", "overlap", "manual"} = {}, p \notin raced
                 PROVE  Matched(p)'
    BY <1>4 DEF Matched
  <2>3. PICK t : t = Apply(edit, r.copy)
    OBVIOUS
  <2>4. /\ Texts(p)' \subseteq {t}
        /\ \A d \in Command : LoginKnows(d, p, r.copy)
        /\ ~LoggingIn(p) => InStore(r.copy)
    BY <1>17, <1>18, <2>1, <2>2, <2>3 DEF Matched
  <2>5. \A k \in {"did", "auth_mode"} : t[k] = IF edit[k] = "keep" THEN r.copy[k] ELSE edit[k]
    BY <1>11, <2>3 DEF Key
  <2>6. r.kind \in {"app", "oauth", "config"}
    BY <1>1, <1>2, <2>2 DEF Plan, Writing, LoginKind
  <2>7. CASE r.kind = "config"
    <3>1. Calm(p) /\ edit["did"] = "keep" /\ edit["auth_mode"] = "keep"
      BY <1>24, <2>2, <2>7 DEF Identity
    <3>2. t["did"] = r.copy["did"] /\ t["auth_mode"] = r.copy["auth_mode"]
      BY <2>5, <3>1
    <3>3. \A u \in Texts(p)' : \E v \in Texts(p) \cup {Blank} :
            u["did"] = v["did"] /\ u["auth_mode"] = v["auth_mode"]
      BY <1>17, <2>4, <3>2
    <3>4. QED
      BY <1>2, <1>8, <1>14, <2>1, <3>1, <3>3, MatchedStays
  <2>8. CASE r.kind \in {"app", "oauth"}
    <3>1. StoredPlan(r) /\ LogsIn(c, p) /\ r.acct \in Account /\ LoginKnows(c, p, r.copy)
      BY <1>1, <1>2, <1>13, <2>4, <2>8 DEF Plan, Writing, LoginKind, Inv, Good, Shaped
    <3>2. \A k \in Key : edit[k] # "keep" => Gives(r, k, edit[k])
      BY <1>7, <3>1 DEF StoredPlan
    <3>3. r.kind = "app" => t["auth_mode"] # "oauth"
      BY <1>1, <2>5, <3>1, <3>2 DEF LoginKnows, Gives, Key
    <3>4. ~More("did") => t["did"] \in {"unset", r.acct}
      BY <1>1, <1>9, <2>5, <3>1, <3>2 DEF LoginKnows, Gives, Key
    <3>5. r.kind = "oauth" /\ ~More("auth_mode") =>
            t["auth_mode"] = "oauth" \/ t["did"] = "unset"
      <4> SUFFICES ASSUME r.kind = "oauth", ~More("auth_mode"), edit["auth_mode"] = "keep"
                   PROVE  t["auth_mode"] = "oauth" \/ t["did"] = "unset"
        BY <2>5, <3>2 DEF Gives, Key
      <4>1. ~Ahead(c, "auth_mode")
        BY <1>9
      <4>2. r.copy["auth_mode"] = "oauth" \/ r.copy["did"] = "unset"
        BY <1>1, <3>1, <4>1 DEF LoginKnows
      <4>3. edit["did"] = "keep"
        BY <1>1, <1>2, <1>7, <4>1 DEF Plan, ModeFollows, Ahead, Writing
      <4>4. QED
        BY <2>5, <4>2, <4>3
    <3>6. /\ \A d \in Command : LogsIn(d, p)' \/ Aims(d, p)' => d = c /\ rest # <<>>
          /\ ~LoggingIn(p)' => rest = <<>>
      BY <1>25, <1>27, <2>2, <2>8 DEF LoginKind
    <3>7. ASSUME NEW d \in Command PROVE LoginKnows(d, p, t)'
      <4>1. CASE LogsIn(d, p)' \/ Aims(d, p)'
        <5>1. d = c /\ rest # <<>> /\ LogsIn(c, p)' /\ cmd'[c].kind = r.kind
              /\ cmd'[c].acct = r.acct
          BY <1>5, <1>6, <1>13, <3>6, <4>1
        <5>2. QED
          BY <1>10, <3>3, <3>4, <3>5, <5>1 DEF LoginKnows
      <4>2. CASE ~LogsIn(d, p)' /\ ~Aims(d, p)'
        BY <4>2 DEF LoginKnows
      <4>3. QED
        BY <4>1, <4>2
    <3>8. ASSUME ~LoggingIn(p)' PROVE InStore(t)'
      <4>1. ~More("did") /\ ~More("auth_mode")
        BY <3>6, <3>8 DEF More
      <4>2. QED
        BY <1>4, <2>8, <3>1, <3>3, <3>4, <3>5, <4>1 DEF InStore, StoredPlan
    <3>9. QED
      BY <2>4, <3>7, <3>8 DEF Matched
  <2>9. QED
    BY <2>6, <2>7, <2>8
<1>28. DidsKnown'
  <2>1. Known' = Known
    BY <1>4 DEF Known
  <2>2. \A q \in Path : q # p => file'[q] = file[q]
    BY <1>2, <1>4 DEF Typed
  <2>3. s.pc \notin {"copy", "trunc"}
    BY <1>5
  <2>4. SUFFICES ASSUME NEW q \in Stem, Unnamed(q)
                 PROVE  /\ file'[q]["did"] \in Known
                        /\ \A d \in Command :
                             cmd'[d].path = q /\ cmd'[d].pc \in {"copy", "trunc"} =>
                               cmd'[d].copy["did"] \in Known
    BY <1>4, <2>1 DEF DidsKnown, Unnamed
  <2>5. /\ file[q]["did"] \in Known
        /\ \A d \in Command : cmd[d].path = q /\ cmd[d].pc \in {"copy", "trunc"} =>
             cmd[d].copy["did"] \in Known
    BY <2>4 DEF LoginInv, DidsKnown
  <2>6. q = p => file'[p]["did"] \in Known
    <3> SUFFICES ASSUME q = p PROVE file'[p]["did"] \in Known
      OBVIOUS
    <3>1. r.copy["did"] \in Known
      BY <1>1, <1>2, <2>5
    <3>2. edit["did"] \in Known \cup {"keep"}
      BY <1>1, <1>2, <1>7, <2>4, TodoIsKnown DEF Writing
    <3>3. QED
      BY <1>11, <1>12, <3>1, <3>2 DEF Key
  <2>7. QED
    BY <1>6, <2>2, <2>3, <2>5, <2>6, StemIsPath
<1>29. QED
  BY <1>19, <1>21, <1>22, <1>23, <1>26, <1>27, <1>28 DEF LoginInv

-----------------------------------------------------------------------------

LEMMA InitLogin == Init => LoginInv
<1> SUFFICES ASSUME Init PROVE LoginInv
  OBVIOUS
<1>1. \A c \in Command : cmd[c] = Idle
  BY DEF Init
<1>2. \A p : \A c \in Command : ~LogsIn(c, p) /\ ~Aims(c, p) /\ ~Truncated(c, p)
  BY <1>1, IdleIsState DEF LogsIn, Aims, Truncated, Editing
<1>3. want = file /\ \A p \in Path : Texts(p) = {file[p]}
  BY <1>2 DEF Init, Texts
<1>4. \A p \in Path : Fades(p)
  BY <1>2, <1>3 DEF Fades, Faded
<1>5. \A c \in Command : Plan(cmd[c]) /\ Served(cmd[c])
  BY <1>1, IdleIsState DEF Plan, Served, Writing
<1>6. \A p \in Stem :
        \/ file[p] = Blank /\ p \notin logged
        \/ \E a \in Account : WholeOf(file[p], a) /\ InStore(file[p])
  <2>1. CASE file = [p \in Path |-> Blank] /\ logged = {}
    BY <2>1, StemIsPath
  <2>2. ASSUME NEW a \in Account, NEW n \in Stem \ (Account \cup {"default"}),
               file = [p \in Path |->
                 CASE p = n      -> [LoggedInAs(a) EXCEPT !["note"] = "set"]
                   [] p = "base" -> [Blank EXCEPT !["profile"] = n]
                   [] OTHER      -> Blank],
               session = {<<"app", a>>}, logged = {n}
        PROVE  \A p \in Stem :
                 \/ file[p] = Blank /\ p \notin logged
                 \/ \E b \in Account : WholeOf(file[p], b) /\ InStore(file[p])
    <3>1. \A p \in Stem : p \in Path /\ p # "base"
      BY StemIsPath, AccountsAssumption
    <3>2. file[n] = [LoggedInAs(a) EXCEPT !["note"] = "set"]
      BY <2>2, <3>1
    <3>3. \A p \in Stem : p # n => file[p] = Blank
      BY <2>2, <3>1
    <3>4. lived[a] = {Home[a]}
      BY DEF Init
    <3>5. /\ file[n]["did"] = a /\ file[n]["handle"] = a /\ file[n]["pds"] = Home[a]
          /\ file[n]["auth_mode"] = "unset"
      BY <3>2 DEF LoggedInAs, Blank, Key
    <3>6. WholeOf(file[n], a) /\ InStore(file[n])
      BY <2>2, <3>4, <3>5 DEF WholeOf, InStore
    <3>7. QED
      BY <2>2, <3>3, <3>6
  <2>3. QED
    BY <2>1, <2>2 DEF Init
<1>7. ASSUME NEW p \in Stem
      PROVE  AloneOn(p) /\ OneOwner(p) /\ Matched(p)
  <2>1. Texts(p) = {file[p]} /\ want[p] = file[p] /\ ~LoggingIn(p)
    BY <1>2, <1>3, StemIsPath DEF LoggingIn, LogsIn
  <2>2. \A t : \A c \in Command : LoginKnows(c, p, t)
    BY <1>2 DEF LoginKnows
  <2>3. InStore(file[p])
    BY <1>6, BlankKnows
  <2>4. OneOwner(p)
    <3>1. \A k \in Names : Blank[k] = "unset"
      BY DEF Blank, Key, Names
    <3>2. QED
      BY <1>2, <1>6, <2>1, <3>1 DEF OneOwner
  <2>5. QED
    BY <1>2, <2>1, <2>2, <2>3, <2>4 DEF AloneOn, Matched
<1>8. DidsKnown
  <2>1. \A p \in Stem : file[p]["did"] \in Known
    <3>1. Blank["did"] = "unset"
      BY DEF Blank, Key
    <3>2. QED
      BY <1>6, <3>1 DEF WholeOf, Known
  <2>2. QED
    BY <1>1, <2>1, IdleIsState DEF DidsKnown
<1>9. QED
  BY <1>4, <1>5, <1>7, <1>8 DEF LoginInv

LEMMA NextLogin == Inv /\ LoginInv /\ [Next]_vars => LoginInv'
<1> SUFFICES ASSUME Inv, LoginInv, [Next]_vars PROVE LoginInv'
  OBVIOUS
<1>1. ASSUME NEW c \in Command, NEW o \in Override, NEW a \in Account, NEW oauth \in BOOLEAN,
             StoreLogin(c, o, a, oauth)
      PROVE  LoginInv'
  BY <1>1, StoreLoginLogins
<1>2. ASSUME NEW c \in Command, NEW a \in Account, BareLogin(c, a) PROVE LoginInv'
  BY <1>2, BareLoginLogins
<1>3. ASSUME NEW c \in Command, NEW n \in Stem, Switch(c, n) PROVE LoginInv'
  <2>1. "base" \in Path /\ "profile" \in Key /\ n \in Value
    BY DEF Path, Key, Value
  <2>2. QED
    BY <1>3, <2>1, ChangeLogins DEF Switch
<1>4. ASSUME NEW c \in Command, NEW o \in Override, NEW s \in Setting, ConfigSet(c, o, s[1], s[2])
      PROVE  LoginInv'
  <2>1. s[1] \in Key /\ s[2] \in Value
    BY AccountsAssumption
  <2>2. Name(o) \in Path /\ "base" \in Path
    BY NameIsStem DEF Inv, Path
  <2>3. PICK p \in Path : Change(c, p, s[1], s[2])
    BY <1>4, <2>2 DEF ConfigSet
  <2>4. QED
    BY <2>1, <2>3, ChangeLogins
<1>5. ASSUME NEW c \in Command, NEW s \in Setting, AuthSet(c, s[1], s[2])
      PROVE  LoginInv'
  <2>1. s[1] \in Key /\ s[2] \in Value
    BY AccountsAssumption
  <2>2. PICK p \in Path : Change(c, p, s[1], s[2])
    BY <1>5 DEF AuthSet, Inv, Typed
  <2>3. QED
    BY <2>1, <2>2, ChangeLogins
<1>6. ASSUME NEW c \in Command, NEW o \in Override, Writer(c, o) PROVE LoginInv'
  BY <1>6, WriterLogins
<1>7. ASSUME NEW c \in Command, NEW o \in Override, NEW a \in Account,
             NEW sel \in {"@none", "@active", "@active-if-available"} \cup Account,
             Reader(c, o, sel, a)
      PROVE  LoginInv'
  BY <1>7, ReaderLogins
<1>8. ASSUME NEW c \in Command, AppAnswered(c) \/ OAuthAnswered(c) \/ BareAnswered(c)
      PROVE  LoginInv'
  BY <1>8, AppAnsweredLogins, OAuthAnsweredLogins, BareAnsweredLogins
<1>9. ASSUME NEW c \in Command, EditRead(c) \/ EditTruncate(c) \/ EditWrite(c) PROVE LoginInv'
  BY <1>9, EditReadLogins, EditTruncateLogins, EditWriteLogins
<1>10. ASSUME NEW c \in Command,
              \/ WriterResumes(c) \/ WriterRefused(c) \/ ReaderResumes(c) \/ ReaderAbsent(c)
              \/ ReaderPoints(c) \/ Ends(c)
       PROVE  LoginInv'
  BY <1>10, ClientsServe
<1>11. ASSUME NEW c \in Command, Crash(c) PROVE LoginInv'
  BY <1>11, CrashLogins
<1>12. ASSUME NEW a \in Moving, NEW s \in Pds, Move(a, s) PROVE LoginInv'
  <2>1. UNCHANGED <<cmd, file, want, raced, logged, session, taint>>
    BY <1>12 DEF Move, files
  <2>2. Grows
    <3>1. \A b \in Account : lived[b] \subseteq lived'[b]
      BY <1>12 DEF Move, Inv, Typed
    <3>2. QED
      BY <2>1, <3>1 DEF Grows
  <2>3. QED
    BY <2>1, <2>2, StillLogins
<1>13. CASE UNCHANGED vars
  <2>1. Grows /\ UNCHANGED <<cmd, file, want, raced, logged>>
    BY <1>13, SameGrows DEF vars
  <2>2. QED
    BY <2>1, StillLogins
<1>14. QED
  BY <1>1, <1>2, <1>3, <1>4, <1>5, <1>6, <1>7, <1>8, <1>9, <1>10, <1>11, <1>12, <1>13 DEF Next

LEMMA AlwaysLogin == Spec => []LoginInv
<1>1. QED
  BY InitLogin, NextLogin, AlwaysInv, PTL DEF Spec

\* A profile that nothing tainted is of one account: whatever logins, settings and clients
\* were interleaved, and whatever account moved meanwhile.
THEOREM ProfilesAreOfOneAccount == Spec => []OneAccountPerFragment
<1>1. ASSUME Inv, LoginInv PROVE OneAccountPerFragment
  <2> SUFFICES ASSUME NEW p \in Stem, taint[p] = {}, p \notin raced, ~LoggingIn(p)
               PROVE  \E a \in Account :
                        /\ file[p]["did"] \in {a, "unset"} /\ file[p]["handle"] \in {a, "unset"}
                        /\ file[p]["pds"] \in lived[a] \cup {"unset"}
    BY DEF OneAccountPerFragment
  <2>1. Fades(p) /\ OneOwner(p)
    BY <1>1, StemIsPath DEF LoginInv
  <2>2. \A k \in Names : file[p][k] \in {"unset", want[p][k]}
    BY <2>1 DEF Fades, Faded, Texts, Names, Key
  <2>3. CASE \A k \in Names : want[p][k] = "unset"
    BY <2>2, <2>3, AccountsAssumption DEF Names
  <2>4. CASE \E a \in Account : WholeOf(want[p], a)
    BY <2>2, <2>4 DEF Names, WholeOf
  <2>5. QED
    BY <2>1, <2>3, <2>4 DEF OneOwner
<1>2. QED
  BY <1>1, AlwaysInv, AlwaysLogin, PTL

\* A writer that starts on a profile its login left whole is not refused, and acts as that
\* account on a server of its own, for any number of commands at work in between.
THEOREM CleanLoginsServe == Spec => []CleanLoginServes
<1>1. LoginInv => CleanLoginServes
  BY DEF LoginInv, Served, CleanLoginServes
<1>2. QED
  BY <1>1, AlwaysLogin, PTL

\* A login stores its session before it records the account, so an account that a profile
\* names has one, of the kind its mode asks for unless something else wrote there.
THEOREM RecordedLoginsAreStored == Spec => []RecordedAfterStored
<1>1. ASSUME LoginInv PROVE RecordedAfterStored
  <2> SUFFICES ASSUME NEW p \in Stem, file[p]["did"] # "unset",
                      taint[p] \cap {"bare", "named"} = {}
               PROVE  LET has(kind) == <<kind, file[p]["did"]>> \in session
                      IN  /\ has("app") \/ has("oauth")
                          /\ p # "default" /\ ~LoggingIn(p)
                               /\ taint[p] \cap {"crash", "overlap", "manual"} = {}
                               /\ p \notin raced
                             => has(IF file[p]["auth_mode"] = "oauth" THEN "oauth" ELSE "app")
    BY DEF RecordedAfterStored
  <2>1. <<"app", file[p]["did"]>> \in session \/ <<"oauth", file[p]["did"]>> \in session
    BY <1>1 DEF LoginInv, DidsKnown, Unnamed, Known
  <2>2. ASSUME p # "default", ~LoggingIn(p),
               taint[p] \cap {"crash", "overlap", "manual"} = {}, p \notin raced
        PROVE  InStore(file[p])
    BY <1>1, <2>2 DEF LoginInv, Matched, Texts
  <2>3. QED
    BY <2>1, <2>2 DEF InStore
<1>2. QED
  BY <1>1, AlwaysLogin, PTL
=============================================================================
