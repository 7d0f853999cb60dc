------------------------------ MODULE Accounts ------------------------------
(***************************************************************************)
(* Who a tassle command acts as: the configuration fragments, the session  *)
(* store, and the commands that rewrite the one and resume from the other. *)
(*                                                                         *)
(* A fragment is a TOML file, base config.toml or config.toml.d/<stem>.toml.*)
(* write_value_at reads it, edits one key and writes it back with fs::write,*)
(* which first truncates: no lock, no rename.  A command resolves its       *)
(* profile (base under the selected drop-in) once and then awaits the      *)
(* network with what it read.  Any number of commands may run at once and  *)
(* any of them may be killed between two system calls.                     *)
(***************************************************************************)
EXTENDS Naturals, Sequences

CONSTANTS
  Command,   \* the processes
  Account,   \* the actors; a DID and the handle that resolves to it are one value
  Pds,       \* the servers
  Home,      \* Home[a]: the server that hosts a at the start
  Stem,      \* names of drop-ins: profiles, DIDs (of the bare login) and "default"
  Setting,   \* the <<key, value>> a user sets by hand; "unset" removes the key
  Override,  \* what --profile or TASS_PROFILE gives; "unset" if neither does
  Moving,    \* bound: the accounts that may move to another server
  MaxCmd     \* bound: commands started

Path  == Stem \cup {"base"}
Key   == {"profile", "did", "handle", "pds", "auth_mode", "active", "note"}
Value == Account \cup Pds \cup Stem \cup {"unset", "oauth", "set"}
\* The selector names a drop-in.
Doc   == {d \in [Key -> Value] : d["profile"] \in Stem \cup {"unset"}}
Blank == [k \in Key |-> "unset"]
Edit  == {e \in [Key -> Value \cup {"keep"}] : e["profile"] \in Stem \cup {"unset", "keep"}}

ASSUME AccountsAssumption ==
  /\ Home \in [Account -> Pds]
  /\ "default" \in Stem /\ Account \subseteq Stem /\ Account # {}
  /\ {"unset", "keep"} \cap (Account \cup Pds \cup Stem) = {}
  /\ "base" \notin Stem
  /\ Setting \subseteq Key \X Value
  /\ \A s \in Setting : s[1] = "profile" => s[2] \in Stem \cup {"unset"}
  /\ Override \subseteq Stem \cup {"unset"}
  /\ Moving \subseteq Account
  /\ MaxCmd \in Nat

\* The Login a profile carries.
Login == [did : Value, handle : Value, pds : Value, auth_mode : Value]

VARIABLES
  cmd,       \* cmd[c]: where command c stands and what it holds
  file,      \* file[p]: the keys of fragment p
  present,   \* the fragments that exist
  session,   \* the session store: <<kind, account>>
  active,    \* the store's active_account, or "unset"
  home,      \* home[a]: the server that hosts a now
  started,   \* commands started
  lived,     \* history: the servers a has been hosted on
  want,      \* history: what the fragment would hold had every write been applied in turn
  raced,     \* history: fragments truncated by a writer that had read another version,
             \* or while another writer had them truncated
  torn,      \* history: fragments whose writer was killed between truncate and write
  taint,     \* history: taint[p], what else happened to p that can mix two accounts
  logged     \* history: the profiles under which an app-password login has finished

vars == <<cmd, file, present, session, active, home, started, lived, want, raced, torn,
          taint, logged>>
files   == <<file, present, want, raced, torn>>
history == <<lived, taint, logged>>

\* "net": awaiting the network; "edit": about to read the next fragment version;
\* "copy": holding the edited text; "trunc": the file is truncated, not yet written;
\* "point": a read client awaiting the resolution of its target; "client": in use;
\* "refused": LoginRequired or NoPds.
CommandState ==
  [pc : {"idle", "net", "edit", "copy", "trunc", "point", "client", "refused"},
   kind : {"none", "app", "oauth", "bare", "config", "writer", "reader", "try_reader"},
   name : Stem \cup {"none"}, acct : Account \cup {"unset"},
   path : Path \cup {"none"}, todo : Seq(Edit), copy : Doc, login : Login,
   own : Account \cup {"unset"}, endpoint : Value, sound : BOOLEAN]

Cause == {"crash", "overlap", "pdsless", "oauth", "manual", "named", "bare"}

TypeOK ==
  /\ cmd \in [Command -> CommandState]
  /\ file \in [Path -> Doc] /\ want \in [Path -> Doc]
  /\ present \subseteq Path /\ raced \subseteq Path /\ torn \subseteq Path
  /\ session \subseteq {"app", "oauth"} \X Account
  /\ active \in Account \cup {"unset"}
  /\ home \in [Account -> Pds]
  /\ lived \in [Account -> SUBSET Pds] /\ \A a \in Account : home[a] \in lived[a]
  /\ started \in 0 .. MaxCmd
  /\ taint \in [Path -> SUBSET Cause]
  /\ logged \subseteq Stem

NoLogin == [did |-> "unset", handle |-> "unset", pds |-> "unset", auth_mode |-> "unset"]

Idle == [pc |-> "idle", kind |-> "none", name |-> "none", acct |-> "unset",
         path |-> "none", todo |-> <<>>, copy |-> Blank, login |-> NoLogin,
         own |-> "unset", endpoint |-> "unset", sound |-> FALSE]

\* The fragment of a login of a that ran to its end.
LoggedInAs(a) ==
  [Blank EXCEPT !["did"] = a, !["handle"] = a, !["pds"] = Home[a]]

\* Nothing is there yet, or a user has logged in under a profile, selected it and kept
\* a note in its fragment.
Init ==
  /\ cmd = [c \in Command |-> Idle]
  /\ \/ /\ file = [p \in Path |-> Blank]
        /\ present = {} /\ session = {} /\ active = "unset" /\ logged = {}
     \/ \E a \in Account, n \in Stem \ (Account \cup {"default"}) :
          /\ file = [p \in Path |->
               CASE p = n      -> [LoggedInAs(a) EXCEPT !["note"] = "set"]
                 [] p = "base" -> [Blank EXCEPT !["profile"] = n]
                 [] OTHER      -> Blank]
          /\ present = {n, "base"}
          /\ session = {<<"app", a>>} /\ active = a /\ logged = {n}
  /\ want = file
  /\ home = Home /\ lived = [a \in Account |-> {Home[a]}]
  /\ started = 0
  /\ raced = {} /\ torn = {}
  /\ taint = [p \in Path |-> {}]

-----------------------------------------------------------------------------
(***************************************************************************)
(* Resolution: build_figment, active_name, active_login.                   *)
(***************************************************************************)

\* The profile: --profile or TASS_PROFILE, else the base fragment's selector.
Name(override) ==
  IF override # "unset" THEN override
  ELSE IF file["base"]["profile"] # "unset" THEN file["base"]["profile"] ELSE "default"

\* The drop-in of a custom profile overrides the base key by key; "default" has no
\* drop-in, whatever config.toml.d/default.toml holds.
Resolved(name) ==
  [k \in Key |-> IF name # "default" /\ file[name][k] # "unset"
                 THEN file[name][k] ELSE file["base"][k]]

LoginOf(name) ==
  LET r == Resolved(name)
  IN  [did |-> r["did"], handle |-> r["handle"], pds |-> r["pds"],
       auth_mode |-> r["auth_mode"]]

\* Login::account.
AccountOf(login) == IF login.did # "unset" THEN login.did ELSE login.handle

Editing(c, p) == cmd[c].path = p /\ cmd[c].pc \in {"edit", "copy", "trunc"}
LoginKind     == {"app", "oauth", "bare"}
LoggingIn(p)  == \E c \in Command : Editing(c, p) /\ cmd[c].kind \in LoginKind

Truncated(c, p) == cmd[c].path = p /\ cmd[c].pc = "trunc"

\* Who reads fragment p now may see it empty, or half of a login.
Unsteady(p) == LoggingIn(p) \/ \E c \in Command : Truncated(c, p)

\* History: profile n holds what an app-password login that ran to its end undisturbed
\* left there, and nothing is being written to it.
Sound(n) ==
  /\ n \in logged /\ n # "default"
  /\ taint[n] = {} /\ n \notin raced \cup torn
  /\ ~Unsteady(n)

Become(c, state) == cmd' = [cmd EXCEPT ![c] = state]

Start(c, state) ==
  /\ cmd[c].pc = "idle"
  /\ started < MaxCmd /\ started' = started + 1
  /\ Become(c, state)

One(k, v) == [j \in Key |-> IF j = k THEN v ELSE "keep"]

Apply(edit, doc) == [k \in Key |-> IF edit[k] = "keep" THEN doc[k] ELSE edit[k]]

-----------------------------------------------------------------------------
(***************************************************************************)
(* Login.  The session goes into the store before anything is recorded.    *)
(***************************************************************************)

\* auth login: OAuth when asked for or when the profile's auth_mode says so.
StoreLogin(c, override, a, oauth) ==
  LET n == Name(override)
  IN  /\ Start(c, [Idle EXCEPT
           !.pc = "net", !.name = n, !.acct = a,
           !.kind = IF oauth \/ Resolved(n)["auth_mode"] = "oauth" THEN "oauth" ELSE "app"])
      /\ taint' = [taint EXCEPT ![n] = @ \cup (IF Unsteady(n) THEN {"overlap"} ELSE {})]
      /\ UNCHANGED <<files, session, active, home, lived, logged>>

\* auth login of a build without the session store.
BareLogin(c, a) ==
  /\ Start(c, [Idle EXCEPT !.pc = "net", !.acct = a, !.kind = "bare"])
  /\ UNCHANGED <<files, session, active, home, history>>

\* The command starts on its edits of fragment p.
Edits(c, p, todo, causes) ==
  /\ Become(c, [cmd[c] EXCEPT !.pc = "edit", !.path = p, !.todo = todo])
  /\ taint' = [taint EXCEPT ![p] = @ \cup causes \cup
                 (IF \E d \in Command \ {c} : p \in {cmd[d].name, cmd[d].path}
                                   /\ cmd[d].kind \in LoginKind
                  THEN {"overlap"} ELSE {})]

\* The store keeps the session and may make its account the active one.
Keeps(kind, a) ==
  /\ session' = session \cup {<<kind, a>>}
  /\ active' \in {active, a}

\* A slip: the handle is not written, so an older one stays.
AppWithoutHandle(c) ==
  LET a == cmd[c].acct
  IN  /\ cmd[c].pc = "net" /\ cmd[c].kind = "app"
      /\ Keeps("app", a)
      /\ Edits(c, cmd[c].name, <<One("did", a), One("pds", home[a])>>, {})
      /\ UNCHANGED <<files, home, started, lived, logged>>

\* A slip: the account is recorded although createSession failed.
AppUnstored(c) ==
  LET a == cmd[c].acct
  IN  /\ cmd[c].pc = "net" /\ cmd[c].kind = "app"
      /\ Edits(c, cmd[c].name, <<One("did", a), One("handle", a), One("pds", home[a])>>, {})
      /\ UNCHANGED <<files, session, active, home, started, lived, logged>>

\* resume finds the stored session, with the server it was made on, or createSession
\* makes one; the server's answer may leave its PDS out.
AppAnswered(c) ==
  LET a == cmd[c].acct
  IN  /\ cmd[c].pc = "net" /\ cmd[c].kind = "app"
      /\ Keeps("app", a)
      /\ \E pds \in {home[a], "unset"} \cup (IF <<"app", a>> \in session THEN lived[a] ELSE {}) :
           Edits(c, cmd[c].name,
             <<One("did", a), One("handle", a)>>
               \o (IF pds = "unset" THEN <<>> ELSE <<One("pds", pds)>>),
             IF pds = "unset" THEN {"pdsless"} ELSE {})
      /\ UNCHANGED <<files, home, started, lived, logged>>

\* The fragment of an OAuth login has no handle; an older one stays.
OAuthAnswered(c) ==
  LET a == cmd[c].acct
  IN  /\ cmd[c].pc = "net" /\ cmd[c].kind = "oauth"
      /\ Keeps("oauth", a)
      /\ Edits(c, cmd[c].name,
           <<One("did", a), One("auth_mode", "oauth"), One("pds", home[a])>>, {"oauth"})
      /\ UNCHANGED <<files, home, started, lived, logged>>

\* A slip: the bare login claims a session of its own kind.
BareKeeps(c) ==
  LET a == cmd[c].acct
  IN  /\ cmd[c].pc = "net" /\ cmd[c].kind = "bare"
      /\ Keeps("bare", a)
      /\ Edits(c, a, <<One("did", a)>>, {"bare"})
      /\ UNCHANGED <<files, home, started, lived, logged>>

\* save_profile writes the whole fragment of the DID at once, the handle only if the
\* login was by handle.
BareAnswered(c) ==
  LET a     == cmd[c].acct
      saved == [One("did", a) EXCEPT !["pds"] = home[a], !["active"] = "set"]
  IN  /\ cmd[c].pc = "net" /\ cmd[c].kind = "bare"
      /\ \E edit \in {saved, [saved EXCEPT !["handle"] = a]} : Edits(c, a, <<edit>>, {"bare"})
      /\ UNCHANGED <<files, session, active, home, started, lived, logged>>

-----------------------------------------------------------------------------
(***************************************************************************)
(* Settings changed by hand.                                               *)
(***************************************************************************)

Identity == {"did", "handle", "pds", "auth_mode"}

\* History: the user writes what a login would, a DID if named.
ByHand(k, v) ==
  (IF k \in Identity THEN {"manual"} ELSE {})
    \cup (IF k = "did" /\ v # "unset" THEN {"named"} ELSE {})

Change(c, p, k, v) ==
  /\ Start(c, [Idle EXCEPT !.pc = "edit", !.kind = "config", !.path = p,
                           !.todo = <<One(k, v)>>])
  /\ taint' = [taint EXCEPT ![p] = @ \cup ByHand(k, v)]
  /\ UNCHANGED <<files, session, active, home, lived, logged>>

\* auth switch.
Switch(c, n) ==
  /\ n \in present
  /\ Change(c, "base", "profile", n)

\* config set and unset: the selector, and the settings of "default", go to base.
ConfigSet(c, override, k, v) ==
  LET n == Name(override)
  IN  Change(c, IF k = "profile" \/ n = "default" THEN "base" ELSE n, k, v)

\* auth set edits the fragment of default_profile, which does not look at the selector:
\* one whose active flag is set if any is, of these the latest (times are left open).
AuthSet(c, k, v) ==
  LET complete == {p \in present \ {"base"} :
                     file[p]["did"] # "unset" /\ file[p]["pds"] # "unset"}
      flagged  == {p \in complete : file[p]["active"] = "set"}
  IN  \E p \in IF flagged # {} THEN flagged ELSE complete : Change(c, p, k, v)

-----------------------------------------------------------------------------
(***************************************************************************)
(* One edit: read_document, the change, fs::write.                         *)
(***************************************************************************)

\* Removing a key that is not there writes nothing.
EditRead(c) ==
  LET p    == cmd[c].path
      edit == Head(cmd[c].todo)
      idle == \A k \in Key : edit[k] # "keep" => edit[k] = "unset" /\ file[p][k] = "unset"
  IN  /\ cmd[c].pc = "edit"
      /\ Become(c, IF idle THEN Idle ELSE [cmd[c] EXCEPT !.pc = "copy", !.copy = file[p]])
      /\ UNCHANGED <<files, session, active, home, started, history>>

EditTruncate(c) ==
  LET p == cmd[c].path
  IN  /\ cmd[c].pc = "copy"
      /\ Become(c, [cmd[c] EXCEPT !.pc = "trunc"])
      /\ file' = [file EXCEPT ![p] = Blank]
      /\ present' = present \cup {p}
      /\ raced' = IF file[p] = cmd[c].copy /\ ~(\E d \in Command : Truncated(d, p))
                   THEN raced ELSE raced \cup {p}
      /\ UNCHANGED <<want, torn, session, active, home, started, history>>

\* A slip: the edit is written without the rest of the document.
EditAlone(c) ==
  LET p    == cmd[c].path
      edit == Head(cmd[c].todo)
      rest == Tail(cmd[c].todo)
  IN  /\ cmd[c].pc = "trunc"
      /\ file' = [file EXCEPT ![p] = Apply(edit, Blank)]
      /\ want' = [want EXCEPT ![p] = Apply(edit, want[p])]
      /\ Become(c, IF rest = <<>> THEN Idle
                   ELSE [cmd[c] EXCEPT !.pc = "edit", !.todo = rest, !.copy = Blank])
      /\ UNCHANGED <<present, raced, torn, session, active, home, started, history>>

EditWrite(c) ==
  LET p    == cmd[c].path
      edit == Head(cmd[c].todo)
      rest == Tail(cmd[c].todo)
  IN  /\ cmd[c].pc = "trunc"
      /\ file' = [file EXCEPT ![p] = Apply(edit, cmd[c].copy)]
      /\ want' = [want EXCEPT ![p] = Apply(edit, want[p])]
      /\ Become(c, IF rest = <<>> THEN Idle
                   ELSE [cmd[c] EXCEPT !.pc = "edit", !.todo = rest, !.copy = Blank])
      /\ logged' = IF rest = <<>> /\ cmd[c].kind = "app" THEN logged \cup {p} ELSE logged
      /\ UNCHANGED <<present, raced, torn, session, active, home, started, lived, taint>>

-----------------------------------------------------------------------------
(***************************************************************************)
(* Clients.                                                                *)
(***************************************************************************)

\* AuthedClient::for_profile: the profile is resolved before the store is opened.
Writer(c, override) ==
  LET n == Name(override)
  IN  /\ Start(c, [Idle EXCEPT !.pc = "net", !.kind = "writer", !.name = n,
                               !.login = LoginOf(n), !.sound = Sound(n)])
      /\ UNCHANGED <<files, session, active, home, history>>

\* A slip: the store's active account instead of the profile's.
WriterByActive(c) ==
  /\ cmd[c].pc = "net" /\ cmd[c].kind = "writer"
  /\ <<"app", active>> \in session
  /\ Become(c, [cmd[c] EXCEPT !.pc = "client", !.own = active,
                              !.endpoint = cmd[c].login.pds])
  /\ UNCHANGED <<files, session, active, home, started, history>>

\* The stored app-password session of the login's account, or any if it names none;
\* then the endpoint the fragment has.
WriterResumes(c) ==
  LET login == cmd[c].login
  IN  /\ cmd[c].pc = "net" /\ cmd[c].kind = "writer"
      /\ \E a \in Account :
           /\ <<"app", a>> \in session
           /\ AccountOf(login) \in {a, "unset"}
           /\ Become(c, IF login.pds = "unset" THEN [cmd[c] EXCEPT !.pc = "refused"]
                        ELSE [cmd[c] EXCEPT !.pc = "client", !.own = a,
                                            !.endpoint = login.pds])
      /\ UNCHANGED <<files, session, active, home, started, history>>

WriterRefused(c) ==
  /\ cmd[c].pc = "net" /\ cmd[c].kind = "writer"
  /\ <<"app", AccountOf(cmd[c].login)>> \notin session
  /\ Become(c, [cmd[c] EXCEPT !.pc = "refused"])
  /\ UNCHANGED <<files, session, active, home, started, history>>

\* acquire_read_client for a read of target: @none goes on without a session, @active
\* and a named account must find one, @active-if-available may do without.  Until the
\* session is resumed own is the account it is asked for.
Reader(c, override, selector, target) ==
  LET n == Name(override)
  IN  /\ Start(c, [Idle EXCEPT
           !.pc   = IF selector = "@none" THEN "point" ELSE "net",
           !.kind = IF selector \in {"@none", "@active-if-available"}
                    THEN "try_reader" ELSE "reader",
           !.acct = target, !.login = LoginOf(n),
           !.own  = IF selector = "@none" THEN "unset"
                    ELSE IF selector \in Account THEN selector ELSE active])
      /\ UNCHANGED <<files, session, active, home, history>>

Reading(c) == cmd[c].kind \in {"reader", "try_reader"}

\* The profile's auth_mode decides which kind of session is asked for.
SessionOf(c) == <<IF cmd[c].login.auth_mode = "oauth" THEN "oauth" ELSE "app", cmd[c].own>>

ReaderResumes(c) ==
  /\ cmd[c].pc = "net" /\ Reading(c)
  /\ SessionOf(c) \in session
  /\ Become(c, [cmd[c] EXCEPT !.pc = "point"])
  /\ UNCHANGED <<files, session, active, home, started, history>>

\* absent.
ReaderAbsent(c) ==
  /\ cmd[c].pc = "net" /\ Reading(c)
  /\ SessionOf(c) \notin session
  /\ Become(c, [cmd[c] EXCEPT !.pc = IF cmd[c].kind = "reader" THEN "refused" ELSE "point",
                              !.own = "unset"])
  /\ UNCHANGED <<files, session, active, home, started, history>>

\* A slip: the guard compares the target with the profile's account.
GuardByProfile(c) ==
  /\ cmd[c].pc = "point"
  /\ Become(c, [cmd[c] EXCEPT
       !.pc = "client", !.endpoint = home[cmd[c].acct],
       !.own = IF AccountOf(cmd[c].login) = cmd[c].acct THEN cmd[c].own ELSE "unset"])
  /\ UNCHANGED <<files, session, active, home, started, history>>

\* resolve_read: the target's server is looked up, the session dropped unless it is the
\* target's own (for_target), and the client pointed there.
ReaderPoints(c) ==
  /\ cmd[c].pc = "point"
  /\ Become(c, [cmd[c] EXCEPT
       !.pc = "client", !.endpoint = home[cmd[c].acct],
       !.own = IF cmd[c].own = cmd[c].acct THEN cmd[c].own ELSE "unset"])
  /\ UNCHANGED <<files, session, active, home, started, history>>

-----------------------------------------------------------------------------

\* The command is over, or what it awaited failed.
Ends(c) ==
  /\ cmd[c].pc \in {"net", "point", "client", "refused"}
  /\ Become(c, Idle)
  /\ UNCHANGED <<files, session, active, home, started, history>>

\* The process is killed, or fs::write fails half-way.
Crash(c) ==
  LET p == cmd[c].path
  IN  /\ cmd[c].pc \in {"edit", "copy", "trunc"}
      /\ Become(c, Idle)
      /\ torn' = IF cmd[c].pc = "trunc" THEN torn \cup {p} ELSE torn
      /\ taint' = [taint EXCEPT ![p] = @ \cup
                     (IF cmd[c].kind = "config" THEN {} ELSE {"crash"})]
      /\ UNCHANGED <<file, present, want, raced, session, active, home, started,
                     lived, logged>>

\* Outside tassle: an account moves to a server it has not been on.
Move(a, s) ==
  /\ s \notin lived[a]
  /\ home' = [home EXCEPT ![a] = s]
  /\ lived' = [lived EXCEPT ![a] = @ \cup {s}]
  /\ UNCHANGED <<cmd, files, session, active, started, taint, logged>>

Next ==
  \/ \E c \in Command :
       \/ \E o \in Override, a \in Account, oauth \in BOOLEAN : StoreLogin(c, o, a, oauth)
       \/ \E a \in Account : BareLogin(c, a)
       \/ \E n \in Stem : Switch(c, n)
       \/ \E o \in Override, s \in Setting : ConfigSet(c, o, s[1], s[2])
       \/ \E s \in Setting : AuthSet(c, s[1], s[2])
       \/ \E o \in Override : Writer(c, o)
       \/ \E o \in Override, a \in Account,
             sel \in {"@none", "@active", "@active-if-available"} \cup Account :
            Reader(c, o, sel, a)
       \/ AppAnswered(c) \/ OAuthAnswered(c) \/ BareAnswered(c)
       \/ EditRead(c) \/ EditTruncate(c) \/ EditWrite(c)
       \/ WriterResumes(c) \/ WriterRefused(c)
       \/ ReaderResumes(c) \/ ReaderAbsent(c) \/ ReaderPoints(c)
       \/ Ends(c) \/ Crash(c)
  \/ \E a \in Moving, s \in Pds : Move(a, s)

Spec == Init /\ [][Next]_vars

-----------------------------------------------------------------------------
(***************************************************************************)
(* Properties.                                                             *)
(***************************************************************************)

\* What a profile says of did, handle and PDS is of one account.  A mix has a cause on
\* that very fragment: two writers raced, a login died part-way or overlapped another,
\* the session had no PDS, an OAuth or bare login left an older handle, or the user
\* edited it.
OneAccountPerFragment ==
  \A p \in Stem : taint[p] = {} /\ p \notin raced /\ ~LoggingIn(p) =>
    \E a \in Account :
      /\ file[p]["did"] \in {a, "unset"} /\ file[p]["handle"] \in {a, "unset"}
      /\ file[p]["pds"] \in lived[a] \cup {"unset"}

\* The fragments are "safe to extend": when nobody is writing one, it holds every edit
\* any command has made to it, unless two writers raced or one was killed between the
\* truncation and the write.
SettingsSurvive ==
  \A p \in Path \ (raced \cup torn) :
    (\A c \in Command : ~Truncated(c, p)) => file[p] = want[p]

\* A login stores its session before it records the account: whatever crashes or races,
\* an account a fragment names has a session, unless the login was of the build that
\* stores none or the user wrote the DID; and unless the login was killed, raced or edited
\* after, the session is of the kind the fragment's auth_mode asks for.
RecordedAfterStored ==
  \A p \in Stem : file[p]["did"] # "unset" /\ taint[p] \cap {"bare", "named"} = {} =>
    LET has(kind) == <<kind, file[p]["did"]>> \in session
    IN  /\ has("app") \/ has("oauth")
        /\ p # "default" /\ ~LoggingIn(p)
             /\ taint[p] \cap {"crash", "overlap", "manual"} = {} /\ p \notin raced
           => has(IF file[p]["auth_mode"] = "oauth" THEN "oauth" ELSE "app")

\* A login that ran undisturbed to its end serves the writers that start after it: none
\* is refused, and each acts as the account and on a server of the account it recorded,
\* whatever other profiles and commands do meanwhile.
CleanLoginServes ==
  \A c \in Command : cmd[c].kind = "writer" /\ cmd[c].sound =>
    /\ cmd[c].pc # "refused"
    /\ cmd[c].pc = "client" =>
         cmd[c].own = cmd[c].login.did /\ cmd[c].endpoint \in lived[cmd[c].own]

\* A session's token is only sent to a server of its own account: an authenticated read
\* client is never pointed at another actor's, whatever the profile, the store's active
\* account and a concurrent login made of each other.
ReadTokensStayHome ==
  \A c \in Command : cmd[c].pc = "client" /\ Reading(c) /\ cmd[c].own # "unset" =>
    cmd[c].own = cmd[c].acct /\ cmd[c].endpoint \in lived[cmd[c].own]
=============================================================================
