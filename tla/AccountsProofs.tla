--------------------------- MODULE AccountsProofs ---------------------------
(***************************************************************************)
(* Proofs about Accounts, for any number of commands, accounts, servers    *)
(* and fragments: types, that edits survive unless writers raced or died,  *)
(* and that a session's token goes to its own account's server only.       *)
(***************************************************************************)
EXTENDS Accounts, TLAPS

(***************************************************************************)
(* The invariant.  A command that edits has a fragment and an edit to      *)
(* make; one that logs in or reads has an account.                         *)
(***************************************************************************)
Writing == {"edit", "copy", "trunc"}

\* A read client that carries a session points to a server of its account.
AtHome(s) ==
  s.pc = "client" /\ s.kind \in {"reader", "try_reader"} /\ s.own # "unset" =>
    s.own = s.acct /\ s.endpoint \in lived[s.own]

Shaped(s) ==
  /\ s \in CommandState
  /\ s.pc \in Writing => s.path \in Path /\ s.todo # <<>>
  /\ s.pc \in Writing /\ s.kind = "app" => s.path \in Stem
  /\ s.pc = "point" => s.kind \in {"reader", "try_reader"}
  /\ s.pc # "idle" /\ s.kind \in {"app", "oauth", "bare", "reader", "try_reader"} =>
       s.acct \in Account
  /\ s.pc = "net" /\ s.kind \in {"app", "oauth"} => s.name \in Stem

Good(s) == Shaped(s) /\ AtHome(s)

\* Everything but the commands has its type.
Typed ==
  /\ file \in [Path -> Doc] /\ want \in [Path -> Doc]
  /\ present \subseteq Path /\ raced \subseteq Path /\ torn \subseteq Path
  /\ session \subseteq {"app", "oauth"} \X Account
  /\ active \in Account \cup {"unset"}
  /\ home \in [Account -> Pds]
  /\ lived \in [Account -> SUBSET Pds] /\ \A a \in Account : home[a] \in lived[a]
  /\ started \in 0 .. MaxCmd
  /\ taint \in [Path -> SUBSET Cause]
  /\ logged \subseteq Stem

\* A fragment nobody raced for or tore is what it should be, or one writer has it
\* truncated and holds what it should be.
Kept(p) ==
  /\ \A c \in Command : Truncated(c, p) => cmd[c].copy = want[p]
  /\ \A c, d \in Command : Truncated(c, p) /\ Truncated(d, p) => c = d
  /\ (\A c \in Command : ~Truncated(c, p)) => file[p] = want[p]

Inv ==
  /\ Typed
  /\ cmd \in [Command -> CommandState]
  /\ \A c \in Command : Good(cmd[c])
  /\ \A p \in Path \ (raced \cup torn) : Kept(p)

-----------------------------------------------------------------------------
(***************************************************************************)
(* Values, documents and edits.                                            *)
(***************************************************************************)

LEMMA BlankIsDoc == Blank \in Doc
BY DEF Blank, Doc, Value, Key

LEMMA OneIsEdit ==
  ASSUME NEW k \in Key, NEW v \in Value, k = "profile" => v \in Stem \cup {"unset"}
  PROVE  One(k, v) \in Edit
BY DEF One, Edit, Key

LEMMA ApplyIsDoc ==
  ASSUME NEW e \in Edit, NEW d \in Doc
  PROVE  Apply(e, d) \in Doc
<1>1. /\ \A k \in Key : e[k] \in Value \cup {"keep"} /\ d[k] \in Value
      /\ e["profile"] \in Stem \cup {"unset", "keep"} /\ d["profile"] \in Stem \cup {"unset"}
  BY DEF Edit, Doc
<1>2. Apply(e, d) \in [Key -> Value]
  BY <1>1 DEF Apply
<1>3. Apply(e, d)["profile"] \in Stem \cup {"unset"}
  BY <1>1 DEF Apply, Key
<1>4. QED
  BY <1>2, <1>3 DEF Doc

LEMMA IdleIsState ==
  /\ Idle \in CommandState /\ Idle.pc = "idle" /\ Idle.kind = "none" /\ Idle.own = "unset"
  /\ Idle.path = "none" /\ Idle.name = "none" /\ Idle.acct = "unset"
<1>1. Blank \in Doc /\ NoLogin \in Login
  BY BlankIsDoc DEF NoLogin, Login, Value
<1>2. QED
  BY <1>1 DEF Idle, CommandState, Value

\* A selector names a drop-in.
LEMMA NameIsStem ==
  ASSUME Typed, NEW o \in Override
  PROVE  Name(o) \in Stem
<1>1. file["base"]["profile"] \in Stem \cup {"unset"}
  BY DEF Typed, Path, Doc
<1>2. QED
  BY <1>1, AccountsAssumption DEF Name

LEMMA LoginIsTyped ==
  ASSUME Typed, NEW n \in Stem
  PROVE  LoginOf(n) \in Login
<1>1. \A k \in Key : file[n][k] \in Value /\ file["base"][k] \in Value
  BY DEF Typed, Path, Doc
<1>2. \A k \in Key : Resolved(n)[k] \in Value
  BY <1>1 DEF Resolved
<1>3. QED
  BY <1>2 DEF LoginOf, Login, Key

-----------------------------------------------------------------------------
(***************************************************************************)
(* Steps that write no fragment.                                           *)
(***************************************************************************)

\* One command's step, from a state in which it has nothing truncated into another.
LEMMA QuietKeeps ==
  ASSUME Inv, NEW c \in Command, cmd[c].pc # "trunc", NEW s, Good(s), s.pc # "trunc",
         cmd' = [cmd EXCEPT ![c] = s],
         UNCHANGED <<file, present, want, raced, torn, home, lived>>, Typed'
  PROVE  Inv'
<1>1. s \in CommandState
  BY DEF Good, Shaped
<1>2. /\ cmd' \in [Command -> CommandState]
      /\ \A d \in Command : cmd'[d] = IF d = c THEN s ELSE cmd[d]
  BY <1>1 DEF Inv
<1>3. \A d \in Command : Good(cmd[d])'
  BY <1>2 DEF Inv, Good, Shaped, AtHome
<1>4. \A d \in Command, p \in Path : Truncated(d, p)' <=> Truncated(d, p)
  BY <1>2 DEF Truncated
<1>5. \A d \in Command, p \in Path : Truncated(d, p) => cmd'[d] = cmd[d]
  BY <1>2 DEF Truncated
<1>6. \A p \in Path \ (raced \cup torn) : Kept(p)'
  <2> SUFFICES ASSUME NEW p \in Path \ (raced \cup torn) PROVE Kept(p)'
    OBVIOUS
  <2>1. Kept(p)
    BY DEF Inv
  <2>2. QED
    BY <1>4, <1>5, <2>1 DEF Kept
<1>7. QED
  BY <1>2, <1>3, <1>6 DEF Inv

\* What Start does to the counter.
LEMMA StartCounts ==
  ASSUME Typed, NEW c \in Command, NEW s, Start(c, s)
  PROVE  started' \in 0 .. MaxCmd /\ cmd[c].pc = "idle" /\ cmd' = [cmd EXCEPT ![c] = s]
BY AccountsAssumption DEF Typed, Start, Become

LEMMA TaintTyped ==
  ASSUME Typed, NEW p \in Path, NEW causes \in SUBSET Cause,
         taint' = [taint EXCEPT ![p] = @ \cup causes]
  PROVE  taint' \in [Path -> SUBSET Cause]
BY DEF Typed

LEMMA StoreLoginKeeps ==
  ASSUME Inv, NEW c \in Command, NEW o \in Override, NEW a \in Account, NEW oauth \in BOOLEAN,
         StoreLogin(c, o, a, oauth)
  PROVE  Inv'
<1>1. Typed
  BY DEF Inv
<1>2. PICK n \in Stem, kind \in {"app", "oauth"} :
        /\ Start(c, [Idle EXCEPT !.pc = "net", !.name = n, !.acct = a, !.kind = kind])
        /\ taint' = [taint EXCEPT ![n] = @ \cup (IF Unsteady(n) THEN {"overlap"} ELSE {})]
        /\ UNCHANGED <<files, session, active, home, lived, logged>>
  BY <1>1, NameIsStem DEF StoreLogin
<1> DEFINE s == [Idle EXCEPT !.pc = "net", !.name = n, !.acct = a, !.kind = kind]
<1>3. /\ s \in CommandState /\ s.pc = "net" /\ s.name = n /\ s.acct = a /\ s.kind = kind
  BY IdleIsState DEF CommandState
<1>4. Start(c, s)
  BY <1>2
<1> HIDE DEF s
<1>5. Good(s)
  BY <1>3 DEF Good, Shaped, AtHome, Writing
<1>6. taint' \in [Path -> SUBSET Cause]
  BY <1>1, <1>2, TaintTyped DEF Path, Cause
<1>7. started' \in 0 .. MaxCmd /\ cmd[c].pc = "idle" /\ cmd' = [cmd EXCEPT ![c] = s]
  BY <1>1, <1>4, StartCounts
<1>8. Typed'
  BY <1>1, <1>2, <1>6, <1>7 DEF Typed, files
<1>9. QED
  BY <1>2, <1>3, <1>5, <1>7, <1>8, QuietKeeps DEF files

LEMMA BareLoginKeeps ==
  ASSUME Inv, NEW c \in Command, NEW a \in Account, BareLogin(c, a)
  PROVE  Inv'
<1> DEFINE s == [Idle EXCEPT !.pc = "net", !.acct = a, !.kind = "bare"]
<1>1. Typed /\ Start(c, s)
  BY DEF Inv, BareLogin
<1>2. s \in CommandState /\ s.pc = "net" /\ s.acct = a /\ s.kind = "bare"
  BY IdleIsState DEF CommandState
<1> HIDE DEF s
<1>3. Good(s)
  BY <1>2 DEF Good, Shaped, AtHome, Writing
<1>4. started' \in 0 .. MaxCmd /\ cmd[c].pc = "idle" /\ cmd' = [cmd EXCEPT ![c] = s]
  BY <1>1, StartCounts
<1>5. Typed'
  BY <1>1, <1>4 DEF BareLogin, Typed, files, history
<1>6. QED
  BY <1>2, <1>3, <1>4, <1>5, QuietKeeps DEF BareLogin, files, history

\* A login that starts on its edits.
LEMMA EditsKeeps ==
  ASSUME Inv, NEW c \in Command, cmd[c].pc = "net", cmd[c].kind \in {"app", "oauth", "bare"},
         NEW p \in Path, cmd[c].kind = "app" => p \in Stem,
         NEW todo \in Seq(Edit), todo # <<>>, NEW causes \in SUBSET Cause,
         Edits(c, p, todo, causes),
         session' \subseteq {"app", "oauth"} \X Account, active' \in Account \cup {"unset"},
         UNCHANGED <<files, home, started, lived, logged>>
  PROVE  Inv'
<1> DEFINE r == cmd[c]
           s == [r EXCEPT !.pc = "edit", !.path = p, !.todo = todo]
<1>1. Typed /\ r \in CommandState /\ r.acct \in Account
  BY DEF Inv, Good, Shaped
<1>2. cmd' = [cmd EXCEPT ![c] = s]
  BY DEF Edits, Become
<1>3. /\ s \in CommandState /\ s.pc = "edit" /\ s.path = p /\ s.todo = todo
      /\ s.acct = r.acct /\ s.kind = r.kind
  BY <1>1 DEF CommandState
<1> HIDE DEF s
<1>4. Good(s)
  BY <1>1, <1>3 DEF Good, Shaped, AtHome, Writing
<1>5. taint' \in [Path -> SUBSET Cause]
  <2>1. PICK more \in SUBSET Cause : taint' = [taint EXCEPT ![p] = @ \cup causes \cup more]
    BY DEF Edits, Cause
  <2>2. QED
    BY <1>1, <2>1 DEF Typed
<1>6. Typed'
  BY <1>1, <1>5 DEF Typed, files
<1>7. QED
  BY <1>2, <1>3, <1>4, <1>6, QuietKeeps DEF files

LEMMA KeepsTyped ==
  ASSUME Typed, NEW kind \in {"app", "oauth"}, NEW a \in Account, Keeps(kind, a)
  PROVE  session' \subseteq {"app", "oauth"} \X Account /\ active' \in Account \cup {"unset"}
BY DEF Typed, Keeps

\* What a login can write.
LEMMA LoginEdits ==
  ASSUME NEW a \in Account, NEW s \in Pds
  PROVE  /\ One("did", a) \in Edit /\ One("handle", a) \in Edit /\ One("pds", s) \in Edit
         /\ One("auth_mode", "oauth") \in Edit
BY OneIsEdit DEF Key, Value

LEMMA AppAnsweredKeeps ==
  ASSUME Inv, NEW c \in Command, AppAnswered(c)
  PROVE  Inv'
<1> DEFINE a == cmd[c].acct
<1>1. /\ Typed /\ a \in Account /\ cmd[c].name \in Stem
      /\ cmd[c].pc = "net" /\ cmd[c].kind = "app" /\ Keeps("app", a)
  BY DEF Inv, Good, Shaped, AppAnswered
<1>2. PICK pds \in {home[a], "unset"} \cup (IF <<"app", a>> \in session THEN lived[a] ELSE {}) :
        Edits(c, cmd[c].name,
              <<One("did", a), One("handle", a)>>
                \o (IF pds = "unset" THEN <<>> ELSE <<One("pds", pds)>>),
              IF pds = "unset" THEN {"pdsless"} ELSE {})
  BY DEF AppAnswered
<1>3. UNCHANGED <<files, home, started, lived, logged>>
  BY DEF AppAnswered
<1> HIDE DEF a
<1>4. pds \in Pds \cup {"unset"}
  BY <1>1, <1>2 DEF Typed
<1>5. One("did", a) \in Edit /\ One("handle", a) \in Edit
  BY <1>1, OneIsEdit DEF Key, Value
<1>6. PICK todo : todo = <<One("did", a), One("handle", a)>>
                           \o (IF pds = "unset" THEN <<>> ELSE <<One("pds", pds)>>)
  OBVIOUS
<1>7. todo \in Seq(Edit) /\ todo # <<>>
  <2>1. CASE pds = "unset"
    BY <1>5, <1>6, <2>1
  <2>2. CASE pds # "unset"
    <3>1. One("pds", pds) \in Edit
      BY <1>1, <1>4, <2>2, LoginEdits
    <3>2. QED
      BY <1>5, <1>6, <2>2, <3>1
  <2>3. QED
    BY <2>1, <2>2
<1>8. PICK causes \in SUBSET Cause : Edits(c, cmd[c].name, todo, causes)
  BY <1>2, <1>6 DEF Cause
<1>9. QED
  BY <1>1, <1>3, <1>7, <1>8, KeepsTyped, EditsKeeps DEF Path

LEMMA OAuthAnsweredKeeps ==
  ASSUME Inv, NEW c \in Command, OAuthAnswered(c)
  PROVE  Inv'
<1> DEFINE a == cmd[c].acct
<1>1. /\ Typed /\ a \in Account /\ cmd[c].name \in Stem
      /\ cmd[c].pc = "net" /\ cmd[c].kind = "oauth" /\ Keeps("oauth", a)
  BY DEF Inv, Good, Shaped, OAuthAnswered
<1>2. Edits(c, cmd[c].name,
            <<One("did", a), One("auth_mode", "oauth"), One("pds", home[a])>>, {"oauth"})
      /\ UNCHANGED <<files, home, started, lived, logged>>
  BY DEF OAuthAnswered
<1> HIDE DEF a
<1>3. home[a] \in Pds
  BY <1>1 DEF Typed
<1>4. PICK todo : todo = <<One("did", a), One("auth_mode", "oauth"), One("pds", home[a])>>
  OBVIOUS
<1>5. todo \in Seq(Edit) /\ todo # <<>>
  BY <1>1, <1>3, <1>4, LoginEdits
<1>6. {"oauth"} \in SUBSET Cause
  BY DEF Cause
<1>7. QED
  BY <1>1, <1>2, <1>4, <1>5, <1>6, KeepsTyped, EditsKeeps DEF Path

LEMMA BareAnsweredKeeps ==
  ASSUME Inv, NEW c \in Command, BareAnswered(c)
  PROVE  Inv'
<1> DEFINE a     == cmd[c].acct
           saved == [One("did", a) EXCEPT !["pds"] = home[a], !["active"] = "set"]
           named == [saved EXCEPT !["handle"] = a]
<1>1. Typed /\ a \in Account /\ cmd[c].pc = "net" /\ cmd[c].kind = "bare"
  BY DEF Inv, Good, Shaped, BareAnswered
<1>2. PICK edit \in {saved, named} : Edits(c, a, <<edit>>, {"bare"})
  BY DEF BareAnswered
<1>3. UNCHANGED <<files, session, active, home, started, lived, logged>>
  BY DEF BareAnswered
<1> HIDE DEF a
<1>4. One("did", a) \in Edit /\ home[a] \in Value /\ a \in Value /\ "set" \in Value
  BY <1>1, OneIsEdit DEF Key, Value, Typed
<1>5. saved \in Edit /\ named \in Edit
  BY <1>4 DEF Edit, Key
<1> HIDE DEF saved, named
<1>6. <<edit>> \in Seq(Edit) /\ <<edit>> # <<>> /\ {"bare"} \in SUBSET Cause
  BY <1>2, <1>5 DEF Cause
<1>7. a \in Path
  BY <1>1, AccountsAssumption DEF Path
<1>8. QED
  BY <1>1, <1>2, <1>3, <1>6, <1>7, EditsKeeps DEF Typed

LEMMA ChangeKeeps ==
  ASSUME Inv, NEW c \in Command, NEW p \in Path, NEW k \in Key, NEW v \in Value,
         k = "profile" => v \in Stem \cup {"unset"}, Change(c, p, k, v)
  PROVE  Inv'
<1> DEFINE todo == <<One(k, v)>>
           s == [Idle EXCEPT !.pc = "edit", !.kind = "config", !.path = p, !.todo = todo]
<1>1. Typed /\ Start(c, s)
  BY DEF Inv, Change
<1>2. todo \in Seq(Edit) /\ todo # <<>>
  BY OneIsEdit
<1> HIDE DEF todo
<1>3. s \in CommandState /\ s.pc = "edit" /\ s.path = p /\ s.todo = todo /\ s.kind = "config"
  BY <1>2, IdleIsState DEF CommandState
<1> HIDE DEF s
<1>4. Good(s)
  BY <1>2, <1>3 DEF Good, Shaped, AtHome
<1>5. started' \in 0 .. MaxCmd /\ cmd[c].pc = "idle" /\ cmd' = [cmd EXCEPT ![c] = s]
  BY <1>1, StartCounts
<1>6. taint' \in [Path -> SUBSET Cause]
  <2>1. PICK causes \in SUBSET Cause : taint' = [taint EXCEPT ![p] = @ \cup causes]
    BY DEF Change, ByHand, Cause
  <2>2. QED
    BY <1>1, <2>1, TaintTyped
<1>7. Typed'
  BY <1>1, <1>5, <1>6 DEF Change, Typed, files
<1>8. QED
  BY <1>3, <1>4, <1>5, <1>7, QuietKeeps DEF Change, files

LEMMA EditReadKeeps ==
  ASSUME Inv, NEW c \in Command, EditRead(c)
  PROVE  Inv'
<1> DEFINE r == cmd[c]
           s == [r EXCEPT !.pc = "copy", !.copy = file[r.path]]
<1>1. Typed /\ Good(r) /\ r.pc = "edit" /\ r \in CommandState /\ r.path \in Path
  BY DEF Inv, Good, Shaped, Writing, EditRead
<1>2. cmd' = [cmd EXCEPT ![c] = Idle] \/ cmd' = [cmd EXCEPT ![c] = s]
  BY DEF EditRead, Become
<1>3. UNCHANGED <<files, session, active, home, started, history>>
  BY DEF EditRead
<1> HIDE DEF r
<1>4. file[r.path] \in Doc
  BY <1>1 DEF Typed
<1>5. /\ s \in CommandState /\ s.pc = "copy" /\ s.path = r.path /\ s.todo = r.todo
      /\ s.kind = r.kind /\ s.acct = r.acct
  BY <1>1, <1>4 DEF CommandState
<1> HIDE DEF s
<1>6. Good(s)
  BY <1>1, <1>5 DEF Good, Shaped, AtHome, Writing
<1>7. Good(Idle)
  BY IdleIsState DEF Good, Shaped, AtHome, Writing
<1>8. Typed'
  BY <1>1, <1>3 DEF Typed, files, history
<1>9. CASE cmd' = [cmd EXCEPT ![c] = Idle]
  BY <1>1, <1>3, <1>7, <1>8, <1>9, IdleIsState, QuietKeeps DEF r, files, history
<1>10. CASE cmd' = [cmd EXCEPT ![c] = s]
  BY <1>1, <1>3, <1>5, <1>6, <1>8, <1>10, QuietKeeps DEF r, files, history
<1>11. QED
  BY <1>2, <1>9, <1>10

-----------------------------------------------------------------------------
(***************************************************************************)
(* Clients: they only read.                                                *)
(***************************************************************************)

LEMMA WriterKeeps ==
  ASSUME Inv, NEW c \in Command, NEW o \in Override, Writer(c, o)
  PROVE  Inv'
<1> DEFINE n == Name(o)
<1>1. Typed /\ n \in Stem
  BY NameIsStem DEF Inv
<1>2. PICK login : login = LoginOf(n)
  OBVIOUS
<1>3. PICK sound : sound = Sound(n)
  OBVIOUS
<1>4. sound \in BOOLEAN
  BY <1>3 DEF Sound
<1> DEFINE s == [Idle EXCEPT !.pc = "net", !.kind = "writer", !.name = n,
                             !.login = login, !.sound = sound]
<1>5. Start(c, s) /\ UNCHANGED <<files, session, active, home, history>>
  BY <1>2, <1>3 DEF Writer
<1>6. login \in Login
  BY <1>1, <1>2, LoginIsTyped
<1> HIDE DEF n
<1>7. s \in CommandState /\ s.pc = "net" /\ s.kind = "writer"
  BY <1>1, <1>4, <1>6, IdleIsState DEF CommandState
<1> HIDE DEF s
<1>8. Good(s)
  BY <1>7 DEF Good, Shaped, AtHome, Writing
<1>9. started' \in 0 .. MaxCmd /\ cmd[c].pc = "idle" /\ cmd' = [cmd EXCEPT ![c] = s]
  BY <1>1, <1>5, StartCounts
<1>10. Typed'
  BY <1>1, <1>5, <1>9 DEF Typed, files, history
<1>11. QED
  BY <1>5, <1>7, <1>8, <1>9, <1>10, QuietKeeps DEF files, history

LEMMA ReaderKeeps ==
  ASSUME Inv, NEW c \in Command, NEW o \in Override, NEW target \in Account,
         NEW sel \in {"@none", "@active", "@active-if-available"} \cup Account,
         Reader(c, o, sel, target)
  PROVE  Inv'
<1> DEFINE n == Name(o)
<1>1. Typed /\ n \in Stem
  BY NameIsStem DEF Inv
<1>2. PICK login : login = LoginOf(n)
  OBVIOUS
<1>3. PICK pc \in {"point", "net"} : pc = IF sel = "@none" THEN "point" ELSE "net"
  OBVIOUS
<1>4. PICK kind \in {"try_reader", "reader"} :
        kind = IF sel \in {"@none", "@active-if-available"} THEN "try_reader" ELSE "reader"
  OBVIOUS
<1>5. PICK own \in Account \cup {"unset"} :
        own = IF sel = "@none" THEN "unset" ELSE IF sel \in Account THEN sel ELSE active
  BY <1>1 DEF Typed
<1> DEFINE s == [Idle EXCEPT !.pc = pc, !.kind = kind, !.acct = target,
                             !.login = login, !.own = own]
<1>6. Start(c, s) /\ UNCHANGED <<files, session, active, home, history>>
  BY <1>2, <1>3, <1>4, <1>5 DEF Reader
<1>7. login \in Login
  BY <1>1, <1>2, LoginIsTyped
<1> HIDE DEF n
<1>8. s \in CommandState /\ s.pc = pc /\ s.kind = kind /\ s.acct = target
  BY <1>7, IdleIsState DEF CommandState
<1> HIDE DEF s
<1>9. Good(s)
  BY <1>8 DEF Good, Shaped, AtHome, Writing
<1>10. started' \in 0 .. MaxCmd /\ cmd[c].pc = "idle" /\ cmd' = [cmd EXCEPT ![c] = s]
  BY <1>1, <1>6, StartCounts
<1>11. Typed'
  BY <1>1, <1>6, <1>10 DEF Typed, files, history
<1>12. QED
  BY <1>6, <1>8, <1>9, <1>10, <1>11, QuietKeeps DEF files, history

\* The client of a command moves on: it stays what it was but for where it stands, the
\* session it carries and the server it points to.
LEMMA ClientKeeps ==
  ASSUME Inv, NEW c \in Command, cmd[c].pc \in {"net", "point"},
         NEW s \in CommandState, s.pc \in {"point", "client", "refused"},
         s.kind = cmd[c].kind, s.acct = cmd[c].acct, s.pc = "point" => Reading(c), AtHome(s),
         Become(c, s), UNCHANGED <<files, session, active, home, started, history>>
  PROVE  Inv'
<1>1. Typed /\ Good(cmd[c])
  BY DEF Inv
<1>2. Shaped(s)
  BY <1>1 DEF Good, Shaped, Writing, Reading
<1>3. Typed'
  BY <1>1 DEF Typed, files, history
<1>4. QED
  BY <1>2, <1>3, QuietKeeps DEF Good, Become, files, history

LEMMA ClientStepsKeep ==
  ASSUME Inv, NEW c \in Command,
         \/ WriterResumes(c) \/ WriterRefused(c) \/ ReaderResumes(c) \/ ReaderAbsent(c)
         \/ ReaderPoints(c)
  PROVE  Inv'
<1>1. PICK r : r = cmd[c]
  OBVIOUS
<1>2. /\ Typed /\ r \in CommandState /\ r.own \in Account \cup {"unset"}
      /\ r.endpoint \in Value /\ r.login.pds \in Value /\ r.pc \in {"net", "point"}
  BY <1>1 DEF Inv, CommandState, Login, WriterResumes, WriterRefused, ReaderResumes,
              ReaderAbsent, ReaderPoints
<1>3. UNCHANGED <<files, session, active, home, started, history>>
  BY DEF WriterResumes, WriterRefused, ReaderResumes, ReaderAbsent, ReaderPoints
<1>4. ASSUME Become(c, [r EXCEPT !.pc = "refused"]) PROVE Inv'
  <2> DEFINE s == [r EXCEPT !.pc = "refused"]
  <2>1. s \in CommandState /\ s.pc = "refused" /\ s.kind = r.kind /\ s.acct = r.acct
    BY <1>2 DEF CommandState
  <2> HIDE DEF s
  <2>2. AtHome(s)
    BY <2>1 DEF AtHome
  <2>3. Become(c, s)
    BY <1>4 DEF s
  <2>4. QED
    BY <1>1, <1>2, <1>3, <2>1, <2>2, <2>3, ClientKeeps
<1>5. CASE WriterResumes(c)
  <2>1. PICK a \in Account :
          Become(c, IF r.login.pds = "unset" THEN [r EXCEPT !.pc = "refused"]
                    ELSE [r EXCEPT !.pc = "client", !.own = a, !.endpoint = r.login.pds])
    BY <1>1, <1>5 DEF WriterResumes
  <2> DEFINE s == [r EXCEPT !.pc = "client", !.own = a, !.endpoint = r.login.pds]
  <2>2. s \in CommandState /\ s.pc = "client" /\ s.kind = r.kind /\ s.acct = r.acct
    BY <1>2 DEF CommandState
  <2>3. CASE r.login.pds = "unset"
    BY <1>4, <2>1, <2>3
  <2>4. CASE Become(c, s)
    <3> HIDE DEF s
    <3>1. AtHome(s)
      BY <1>1, <1>5, <2>2 DEF WriterResumes, AtHome
    <3>2. QED
      BY <1>1, <1>2, <1>3, <2>2, <2>4, <3>1, ClientKeeps
  <2>5. QED
    BY <2>1, <2>3, <2>4
<1>6. CASE WriterRefused(c)
  BY <1>1, <1>4, <1>6 DEF WriterRefused
<1>7. CASE ReaderResumes(c)
  <2> DEFINE s == [r EXCEPT !.pc = "point"]
  <2>1. s \in CommandState /\ s.pc = "point" /\ s.kind = r.kind /\ s.acct = r.acct
    BY <1>2 DEF CommandState
  <2>2. Become(c, s) /\ Reading(c)
    BY <1>1, <1>7 DEF ReaderResumes
  <2> HIDE DEF s
  <2>3. AtHome(s)
    BY <2>1 DEF AtHome
  <2>4. QED
    BY <1>1, <1>2, <1>3, <2>1, <2>2, <2>3, ClientKeeps
<1>8. CASE ReaderAbsent(c)
  <2>1. PICK pc \in {"refused", "point"} : Become(c, [r EXCEPT !.pc = pc, !.own = "unset"])
    BY <1>1, <1>8 DEF ReaderAbsent
  <2> DEFINE s == [r EXCEPT !.pc = pc, !.own = "unset"]
  <2>2. s \in CommandState /\ s.pc = pc /\ s.kind = r.kind /\ s.acct = r.acct
    BY <1>2 DEF CommandState
  <2>3. Become(c, s) /\ Reading(c)
    BY <1>8, <2>1 DEF ReaderAbsent
  <2> HIDE DEF s
  <2>4. AtHome(s)
    BY <2>2 DEF AtHome
  <2>5. QED
    BY <1>1, <1>2, <1>3, <2>2, <2>3, <2>4, ClientKeeps
<1>9. CASE ReaderPoints(c)
  <2>1. PICK own : own = IF r.own = r.acct THEN r.own ELSE "unset"
    OBVIOUS
  <2>2. r.acct \in Account
    BY <1>1, <1>9 DEF ReaderPoints, Inv, Good, Shaped
  <2>3. own \in Account \cup {"unset"} /\ home[r.acct] \in Value
    BY <1>2, <2>1, <2>2 DEF Typed, Value
  <2> DEFINE s == [r EXCEPT !.pc = "client", !.endpoint = home[r.acct], !.own = own]
  <2>4. /\ s \in CommandState /\ s.pc = "client" /\ s.kind = r.kind /\ s.acct = r.acct
        /\ s.own = own /\ s.endpoint = home[r.acct]
    BY <1>2, <2>3 DEF CommandState
  <2>5. Become(c, s)
    BY <1>1, <1>9, <2>1 DEF ReaderPoints
  <2> HIDE DEF s
  <2>6. AtHome(s)
    BY <1>2, <2>1, <2>2, <2>4 DEF AtHome, Typed
  <2>7. QED
    BY <1>1, <1>2, <1>3, <2>4, <2>5, <2>6, ClientKeeps
<1>10. QED
  BY <1>5, <1>6, <1>7, <1>8, <1>9

LEMMA EndsKeeps ==
  ASSUME Inv, NEW c \in Command, Ends(c)
  PROVE  Inv'
<1>1. Good(Idle)
  BY IdleIsState DEF Good, Shaped, AtHome, Writing
<1>2. Typed'
  BY DEF Inv, Ends, Typed, files, history
<1>3. QED
  BY <1>1, <1>2, IdleIsState, QuietKeeps DEF Ends, Become, files, history

-----------------------------------------------------------------------------
(***************************************************************************)
(* Steps that write a fragment, or die in it.                              *)
(***************************************************************************)

LEMMA EditTruncateKeeps ==
  ASSUME Inv, NEW c \in Command, EditTruncate(c)
  PROVE  Inv'
<1>0. PICK r, p, s : r = cmd[c] /\ p = r.path /\ s = [r EXCEPT !.pc = "trunc"]
  OBVIOUS
<1>1. Typed /\ Good(r) /\ r.pc = "copy" /\ r \in CommandState /\ p \in Path /\ r.todo # <<>>
  BY <1>0 DEF Inv, Good, Shaped, Writing, EditTruncate
<1>2. /\ cmd' = [cmd EXCEPT ![c] = s] /\ file' = [file EXCEPT ![p] = Blank]
      /\ present' = present \cup {p}
      /\ raced' = IF file[p] = r.copy /\ ~(\E d \in Command : Truncated(d, p))
                  THEN raced ELSE raced \cup {p}
      /\ UNCHANGED <<want, torn, session, active, home, started, history>>
  BY <1>0 DEF EditTruncate, Become
<1>3. /\ s \in CommandState /\ s.pc = "trunc" /\ s.path = p /\ s.todo = r.todo
      /\ s.kind = r.kind /\ s.acct = r.acct /\ s.copy = r.copy
  BY <1>0, <1>1 DEF CommandState
<1>4. /\ cmd' \in [Command -> CommandState]
      /\ \A d \in Command : cmd'[d] = IF d = c THEN s ELSE cmd[d]
  BY <1>2, <1>3 DEF Inv
<1>5. Good(s)
  BY <1>0, <1>1, <1>3 DEF Good, Shaped, AtHome, Writing
<1>6. \A d \in Command : Good(cmd[d])'
  BY <1>2, <1>4, <1>5 DEF Inv, Good, Shaped, AtHome, history
<1>7. Typed'
  <2>1. file' \in [Path -> Doc]
    BY <1>1, <1>2, BlankIsDoc DEF Typed
  <2>2. present' \subseteq Path /\ raced' \subseteq Path
    BY <1>1, <1>2 DEF Typed
  <2>3. QED
    BY <1>1, <1>2, <2>1, <2>2 DEF Typed, history
<1>8. \A q \in Path \ (raced \cup torn)' : Kept(q)'
  <2> SUFFICES ASSUME NEW q \in Path, q \notin raced', q \notin torn' PROVE Kept(q)'
    OBVIOUS
  <2>1. Kept(q)
    BY <1>2 DEF Inv
  <2>2. CASE q = p
    <3>1. file[p] = r.copy /\ \A d \in Command : ~Truncated(d, p)
      BY <1>2, <2>2
    <3>2. r.copy = want[p]
      BY <2>1, <2>2, <3>1 DEF Kept
    <3>3. \A d \in Command : Truncated(d, p)' => d = c
      BY <1>4, <3>1 DEF Truncated
    <3>4. Truncated(c, p)' /\ cmd'[c].copy = want'[p]
      BY <1>2, <1>3, <1>4, <3>2 DEF Truncated
    <3>5. QED
      BY <2>2, <3>3, <3>4 DEF Kept
  <2>3. CASE q # p
    <3>1. \A d \in Command : Truncated(d, q)' <=> Truncated(d, q)
      BY <1>0, <1>1, <1>3, <1>4, <2>3 DEF Truncated
    <3>2. \A d \in Command : Truncated(d, q) => cmd'[d] = cmd[d]
      BY <1>0, <1>1, <1>4, <2>3 DEF Truncated
    <3>3. file'[q] = file[q] /\ want'[q] = want[q]
      BY <1>1, <1>2, <2>3 DEF Typed
    <3>4. QED
      BY <2>1, <3>1, <3>2, <3>3 DEF Kept
  <2>4. QED
    BY <2>2, <2>3
<1>9. QED
  BY <1>4, <1>6, <1>7, <1>8 DEF Inv

LEMMA EditWriteKeeps ==
  ASSUME Inv, NEW c \in Command, EditWrite(c)
  PROVE  Inv'
<1>0. PICK r, p, edit, rest, on :
        /\ r = cmd[c] /\ p = r.path /\ edit = Head(r.todo) /\ rest = Tail(r.todo)
        /\ on = [r EXCEPT !.pc = "edit", !.todo = rest, !.copy = Blank]
  OBVIOUS
<1>1. /\ Typed /\ Good(r) /\ r.pc = "trunc" /\ r \in CommandState /\ p \in Path
      /\ r.todo \in Seq(Edit) /\ r.todo # <<>> /\ r.copy \in Doc
  BY <1>0 DEF Inv, Good, Shaped, Writing, EditWrite, CommandState
<1>2. /\ file' = [file EXCEPT ![p] = Apply(edit, r.copy)]
      /\ want' = [want EXCEPT ![p] = Apply(edit, want[p])]
      /\ logged' = logged \/ logged' = logged \cup {p}
      /\ rest # <<>> \/ r.kind # "app" => logged' = logged
      /\ UNCHANGED <<present, raced, torn, session, active, home, started, lived, taint>>
  BY <1>0 DEF EditWrite
<1>3. PICK s : s = (IF rest = <<>> THEN Idle ELSE on) /\ cmd' = [cmd EXCEPT ![c] = s]
  BY <1>0 DEF EditWrite, Become
<1>4. r.kind = "app" => p \in Stem
  BY <1>0, <1>1 DEF Good, Shaped, Writing
<1>5. edit \in Edit /\ rest \in Seq(Edit)
  BY <1>0, <1>1
<1>6. s \in CommandState /\ s.pc # "trunc" /\ Good(s)
  <2>1. /\ on \in CommandState /\ on.pc = "edit" /\ on.path = p /\ on.todo = rest
        /\ on.kind = r.kind /\ on.acct = r.acct
    BY <1>0, <1>1, <1>5, BlankIsDoc DEF CommandState
  <2>2. rest # <<>> => Good(on)
    BY <1>0, <1>1, <2>1 DEF Good, Shaped, AtHome, Writing
  <2>3. Good(Idle)
    BY IdleIsState DEF Good, Shaped, AtHome, Writing
  <2>4. QED
    BY <1>3, <2>1, <2>2, <2>3, IdleIsState
<1>7. /\ cmd' \in [Command -> CommandState]
      /\ \A d \in Command : cmd'[d] = IF d = c THEN s ELSE cmd[d]
  BY <1>3, <1>6 DEF Inv
<1>8. \A d \in Command : Good(cmd[d])'
  BY <1>2, <1>6, <1>7 DEF Inv, Good, Shaped, AtHome
<1>9. Apply(edit, r.copy) \in Doc /\ Apply(edit, want[p]) \in Doc
  BY <1>1, <1>5, ApplyIsDoc DEF Typed
<1>10. Typed'
  <2>1. file' \in [Path -> Doc] /\ want' \in [Path -> Doc]
    BY <1>1, <1>2, <1>9 DEF Typed
  <2>2. logged' \subseteq Stem
    BY <1>1, <1>2, <1>4 DEF Typed
  <2>3. QED
    BY <1>1, <1>2, <2>1, <2>2 DEF Typed
<1>11. \A q \in Path \ (raced \cup torn)' : Kept(q)'
  <2> SUFFICES ASSUME NEW q \in Path, q \notin raced, q \notin torn PROVE Kept(q)'
    BY <1>2
  <2>1. Kept(q)
    BY DEF Inv
  <2>2. Truncated(c, p)
    BY <1>0, <1>1 DEF Truncated
  <2>3. CASE q = p
    <3>1. r.copy = want[p] /\ \A d \in Command : Truncated(d, p) => d = c
      BY <1>0, <2>1, <2>2, <2>3 DEF Kept
    <3>2. \A d \in Command : ~Truncated(d, p)'
      BY <1>6, <1>7, <3>1 DEF Truncated
    <3>3. file'[p] = want'[p]
      BY <1>1, <1>2, <3>1 DEF Typed
    <3>4. QED
      BY <2>3, <3>2, <3>3 DEF Kept
  <2>4. CASE q # p
    <3>1. \A d \in Command : Truncated(d, q)' <=> Truncated(d, q)
      BY <1>0, <1>1, <1>6, <1>7, <2>4 DEF Truncated
    <3>2. \A d \in Command : Truncated(d, q) => cmd'[d] = cmd[d]
      BY <1>0, <1>1, <1>7, <2>4 DEF Truncated
    <3>3. file'[q] = file[q] /\ want'[q] = want[q]
      BY <1>1, <1>2, <2>4 DEF Typed
    <3>4. QED
      BY <2>1, <3>1, <3>2, <3>3 DEF Kept
  <2>5. QED
    BY <2>3, <2>4
<1>12. QED
  BY <1>7, <1>8, <1>10, <1>11 DEF Inv

LEMMA CrashKeeps ==
  ASSUME Inv, NEW c \in Command, Crash(c)
  PROVE  Inv'
<1>0. PICK p : p = cmd[c].path
  OBVIOUS
<1>1. Typed /\ cmd[c].pc \in Writing /\ p \in Path
  BY <1>0 DEF Inv, Good, Shaped, Writing, Crash
<1>2. /\ cmd' = [cmd EXCEPT ![c] = Idle]
      /\ torn' = IF cmd[c].pc = "trunc" THEN torn \cup {p} ELSE torn
      /\ UNCHANGED <<file, present, want, raced, session, active, home, started, lived, logged>>
  BY <1>0 DEF Crash, Become
<1>3. taint' \in [Path -> SUBSET Cause]
  <2>1. PICK causes \in SUBSET Cause : taint' = [taint EXCEPT ![p] = @ \cup causes]
    BY <1>0 DEF Crash, Cause
  <2>2. QED
    BY <1>1, <2>1, TaintTyped
<1>4. Typed'
  BY <1>1, <1>2, <1>3 DEF Typed
<1>5. /\ cmd' \in [Command -> CommandState]
      /\ \A d \in Command : cmd'[d] = IF d = c THEN Idle ELSE cmd[d]
  BY <1>2, IdleIsState DEF Inv
<1>6. Good(Idle)
  BY IdleIsState DEF Good, Shaped, AtHome, Writing
<1>7. \A d \in Command : Good(cmd[d])'
  BY <1>2, <1>5, <1>6 DEF Inv, Good, Shaped, AtHome
<1>8. \A q \in Path \ (raced \cup torn)' : Kept(q)'
  <2> SUFFICES ASSUME NEW q \in Path, q \notin raced, q \notin torn' PROVE Kept(q)'
    BY <1>2
  <2>1. Kept(q) /\ ~Truncated(c, q)
    BY <1>0, <1>2 DEF Inv, Truncated
  <2>2. \A d \in Command : Truncated(d, q)' <=> Truncated(d, q)
    BY <1>5, <2>1, IdleIsState DEF Truncated
  <2>3. \A d \in Command : Truncated(d, q) => cmd'[d] = cmd[d]
    BY <1>5, <2>1
  <2>4. QED
    BY <1>2, <2>1, <2>2, <2>3 DEF Kept
<1>9. QED
  BY <1>4, <1>5, <1>7, <1>8 DEF Inv

\* A move of an account leaves the servers it has been on in lived.
LEMMA MoveKeeps ==
  ASSUME Inv, NEW a \in Moving, NEW pds \in Pds, Move(a, pds)
  PROVE  Inv'
<1>1. /\ Typed /\ a \in Account
      /\ home' = [home EXCEPT ![a] = pds] /\ lived' = [lived EXCEPT ![a] = @ \cup {pds}]
      /\ UNCHANGED <<cmd, file, present, want, raced, torn, session, active, started,
                     taint, logged>>
  BY AccountsAssumption DEF Inv, Move, files
<1>2. \A b \in Account : lived[b] \subseteq lived'[b] /\ home'[b] \in lived'[b]
  BY <1>1 DEF Typed
<1>3. Typed'
  BY <1>1, <1>2 DEF Typed
<1>4. \A d \in Command : Good(cmd[d])'
  <2> SUFFICES ASSUME NEW d \in Command PROVE Good(cmd[d])'
    OBVIOUS
  <2>1. Good(cmd[d]) /\ cmd'[d] = cmd[d]
    BY <1>1 DEF Inv
  <2>2. AtHome(cmd[d])'
    <3>1. cmd[d].own \in Account \cup {"unset"}
      BY DEF Inv, CommandState
    <3>2. QED
      BY <1>2, <2>1, <3>1 DEF Good, AtHome
  <2>3. QED
    BY <2>1, <2>2 DEF Good, Shaped
<1>5. \A p \in Path \ (raced \cup torn) : Kept(p)'
  BY <1>1 DEF Inv, Kept, Truncated
<1>6. QED
  BY <1>1, <1>3, <1>4, <1>5 DEF Inv

-----------------------------------------------------------------------------

LEMMA InitInv == Init => Inv
<1> SUFFICES ASSUME Init PROVE Inv
  OBVIOUS
<1>1. \A a \in Account : LoggedInAs(a) \in Doc /\ [LoggedInAs(a) EXCEPT !["note"] = "set"] \in Doc
  <2> SUFFICES ASSUME NEW a \in Account
               PROVE  LoggedInAs(a) \in Doc /\ [LoggedInAs(a) EXCEPT !["note"] = "set"] \in Doc
    OBVIOUS
  <2>1. a \in Value /\ Home[a] \in Value /\ "set" \in Value
    BY AccountsAssumption DEF Value
  <2>2. LoggedInAs(a) \in Doc
    BY <2>1, BlankIsDoc DEF LoggedInAs, Doc, Key
  <2>3. QED
    BY <2>1, <2>2 DEF Doc, Key
<1>2. \A n \in Stem : [Blank EXCEPT !["profile"] = n] \in Doc
  <2>1. \A n \in Stem : n \in Value
    BY DEF Value
  <2>2. QED
    BY <2>1, BlankIsDoc DEF Doc, Key
<1>3. Typed
  <2>1. /\ home \in [Account -> Pds] /\ lived \in [Account -> SUBSET Pds]
        /\ \A a \in Account : home[a] \in lived[a]
        /\ started \in 0 .. MaxCmd /\ raced \subseteq Path /\ torn \subseteq Path
        /\ taint \in [Path -> SUBSET Cause] /\ want = file
    BY AccountsAssumption DEF Init
  <2>2. CASE /\ file = [p \in Path |-> Blank]
             /\ present = {} /\ session = {} /\ active = "unset" /\ logged = {}
    BY <2>1, <2>2, BlankIsDoc DEF Typed
  <2>3. ASSUME NEW a \in Account, NEW n \in Stem \ (Account \cup {"default"}),
               file = [p \in Path |->
                 CASE p = n      -> [LoggedInAs(a) EXCEPT !["note"] = "set"]
                   [] p = "base" -> [Blank EXCEPT !["profile"] = n]
                   [] OTHER      -> Blank],
               present = {n, "base"}, session = {<<"app", a>>}, active = a, logged = {n}
        PROVE  Typed
    <3>1. \A p \in Path : file[p] \in Doc
      BY <1>1, <1>2, <2>3, BlankIsDoc
    <3>2. file \in [Path -> Doc]
      BY <2>3, <3>1
    <3>3. present \subseteq Path /\ session \subseteq {"app", "oauth"} \X Account
      BY <2>3 DEF Path
    <3>4. QED
      BY <2>1, <2>3, <3>2, <3>3 DEF Typed
  <2>4. QED
    BY <2>2, <2>3 DEF Init
<1>4. cmd \in [Command -> CommandState] /\ \A c \in Command : cmd[c] = Idle
  BY IdleIsState DEF Init
<1>5. \A c \in Command : Good(cmd[c]) /\ cmd[c].pc # "trunc"
  BY <1>4, IdleIsState DEF Good, Shaped, AtHome, Writing
<1>6. \A p \in Path : Kept(p)
  BY <1>5 DEF Init, Kept, Truncated
<1>7. QED
  BY <1>3, <1>4, <1>5, <1>6 DEF Inv

LEMMA NextInv == Inv /\ [Next]_vars => Inv'
<1> SUFFICES ASSUME Inv, [Next]_vars PROVE Inv'
  OBVIOUS
<1>1. ASSUME NEW c \in Command, NEW o \in Override, NEW a \in Account, NEW oauth \in BOOLEAN,
             StoreLogin(c, o, a, oauth)
      PROVE  Inv'
  BY <1>1, StoreLoginKeeps
<1>2. ASSUME NEW c \in Command, NEW a \in Account, BareLogin(c, a) PROVE Inv'
  BY <1>2, BareLoginKeeps
<1>3. ASSUME NEW c \in Command, NEW n \in Stem, Switch(c, n) PROVE Inv'
  <2>1. "base" \in Path /\ "profile" \in Key /\ n \in Value
    BY DEF Path, Key, Value
  <2>2. QED
    BY <1>3, <2>1, ChangeKeeps DEF Switch
<1>4. ASSUME NEW c \in Command, NEW o \in Override, NEW s \in Setting, ConfigSet(c, o, s[1], s[2])
      PROVE  Inv'
  <2>1. /\ s[1] \in Key /\ s[2] \in Value
        /\ s[1] = "profile" => s[2] \in Stem \cup {"unset"}
    BY AccountsAssumption
  <2>2. PICK p \in Path : Change(c, p, s[1], s[2])
    <3>1. Name(o) \in Path /\ "base" \in Path
      BY NameIsStem DEF Inv, Path
    <3>2. QED
      BY <1>4, <3>1 DEF ConfigSet
  <2>3. QED
    BY <2>1, <2>2, ChangeKeeps
<1>5. ASSUME NEW c \in Command, NEW s \in Setting, AuthSet(c, s[1], s[2])
      PROVE  Inv'
  <2>1. /\ s[1] \in Key /\ s[2] \in Value
        /\ s[1] = "profile" => s[2] \in Stem \cup {"unset"}
    BY AccountsAssumption
  <2>2. PICK p \in Path : Change(c, p, s[1], s[2])
    BY <1>5 DEF AuthSet, Inv, Typed
  <2>3. QED
    BY <2>1, <2>2, ChangeKeeps
<1>6. ASSUME NEW c \in Command, NEW o \in Override, Writer(c, o) PROVE Inv'
  BY <1>6, WriterKeeps
<1>7. ASSUME NEW c \in Command, NEW o \in Override, NEW a \in Account,
             NEW sel \in {"@none", "@active", "@active-if-available"} \cup Account,
             Reader(c, o, sel, a)
      PROVE  Inv'
  BY <1>7, ReaderKeeps
<1>8. ASSUME NEW c \in Command, AppAnswered(c) \/ OAuthAnswered(c) \/ BareAnswered(c)
      PROVE  Inv'
  BY <1>8, AppAnsweredKeeps, OAuthAnsweredKeeps, BareAnsweredKeeps
<1>9. ASSUME NEW c \in Command, EditRead(c) \/ EditTruncate(c) \/ EditWrite(c) PROVE Inv'
  BY <1>9, EditReadKeeps, EditTruncateKeeps, EditWriteKeeps
<1>10. ASSUME NEW c \in Command,
              \/ WriterResumes(c) \/ WriterRefused(c) \/ ReaderResumes(c) \/ ReaderAbsent(c)
              \/ ReaderPoints(c)
       PROVE  Inv'
  BY <1>10, ClientStepsKeep
<1>11. ASSUME NEW c \in Command, Ends(c) \/ Crash(c) PROVE Inv'
  BY <1>11, EndsKeeps, CrashKeeps
<1>12. ASSUME NEW a \in Moving, NEW s \in Pds, Move(a, s) PROVE Inv'
  BY <1>12, MoveKeeps
<1>13. CASE UNCHANGED vars
  BY <1>13 DEF vars, Inv, Typed, Good, Shaped, AtHome, Kept, Truncated
<1>14. QED
  BY <1>1, <1>2, <1>3, <1>4, <1>5, <1>6, <1>7, <1>8, <1>9, <1>10, <1>11, <1>12, <1>13 DEF Next

LEMMA AlwaysInv == Spec => []Inv
<1>1. QED
  BY InitInv, NextInv, PTL DEF Spec

\* Types, for any number of commands at once.
THEOREM TypeCorrect == Spec => []TypeOK
<1>1. Inv => TypeOK
  BY DEF Inv, Typed, TypeOK
<1>2. QED
  BY <1>1, AlwaysInv, PTL

\* A fragment nobody is writing holds every edit any command made to it, unless two
\* writers raced for it or one was killed between the truncation and the write.
THEOREM EditsSurvive == Spec => []SettingsSurvive
<1>1. Inv => SettingsSurvive
  BY DEF Inv, Kept, SettingsSurvive
<1>2. QED
  BY <1>1, AlwaysInv, PTL

\* An authenticated read client points to a server of the account whose session it
\* carries, whatever profiles, the active account and other commands do.
THEOREM TokensStayHome == Spec => []ReadTokensStayHome
<1>1. Inv => ReadTokensStayHome
  BY DEF Inv, Good, AtHome, Reading, ReadTokensStayHome
<1>2. QED
  BY <1>1, AlwaysInv, PTL
=============================================================================
