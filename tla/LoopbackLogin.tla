--------------------------- MODULE LoopbackLogin ----------------------------
(***************************************************************************)
(* The TypeScript client's accounts: login, logout, and the commands that  *)
(* restore a session, as processes over one directory.  A login listens on *)
(* a loopback port for the browser; the port is part of the OAuth          *)
(* client_id, so a stored session can be refreshed only under the port it  *)
(* was issued for, and session.json records that port.  Tokens are in      *)
(* auth/<did>.json, pending authorizations in state/<token>.json.          *)
(*                                                                         *)
(* A read or a write of one file is one step, but for a writer that fails  *)
(* or dies half-way; what it leaves is as good as no file to readJson.     *)
(* removeFile swallows every error: tokens and record may outlive deletion. *)
(* Handles and service endpoints are left out: the DID is whichever        *)
(* account the user picked in the browser.                                 *)
(***************************************************************************)
EXTENDS Naturals

CONSTANTS
  Proc,      \* processes
  Did,       \* accounts
  Port,      \* loopback ports
  MaxStart,  \* bound: commands started
  MaxReq     \* bound: requests to /callback* per login

ASSUME LoopbackAssumption ==
  /\ Port \subseteq Nat \ {0}
  /\ {"nobody", "torn"} \cap Did = {}   \* a DID is "did:..."
  /\ MaxStart \in Nat /\ MaxReq \in Nat

None == 0
Req  == 1 .. MaxReq
Token == 1 .. MaxStart   \* an authorization is named by the start that asked for it

VARIABLES
  proc,       \* proc[c]: the command that process runs
  session,    \* session[d]: the port auth/<d>.json was issued under, None if missing or torn
  info,       \* session.json: an account and its port, Nobody or Torn
  pending,    \* the authorizations in state/
  tabs,       \* the authorization pages ever opened: token and redirect port
  starts,     \* commands so far
  aborted,    \* history: accounts whose tokens a login stored without recording them
  replaced,   \* history: accounts whose record a login wrote over
  crossed,    \* history: accounts where a command wrote over what another did meanwhile
  undeleted,  \* history: accounts whose tokens a logout could not delete
  lost        \* history: accounts whose tokens a failed write or refresh took away

vars == <<proc, session, info, pending, tabs, starts,
          aborted, replaced, crossed, undeleted, lost>>
history == <<aborted, replaced, crossed, undeleted, lost>>

Info   == [did : Did, port : Port]
Nobody == [did |-> "nobody", port |-> None]
Torn   == [did |-> "torn", port |-> None]

\* "authorize": the port is probed, the request is out; "listen": the server is up and
\* the timer set; "linger": login resolved, later requests still in flight; "refresh";
\* "clear": logout has tried to delete the tokens.  alone is history: no other command
\* ran beside this one.
\* req[r]: a request to /callback*: awaiting the token exchange, or the tokens are stored
\* and it awaits the profile and the DID document.
Request == [stage : {"none", "exchange", "names", "over"}, did : Did \cup {"nobody"}]

ProcState ==
  [pc : {"idle", "authorize", "listen", "linger", "refresh", "clear"},
   port : Port \cup {None}, token : Token \cup {None}, did : Did \cup {"nobody"},
   had : Port \cup {None}, alone : BOOLEAN, req : [Req -> Request]]

TypeOK ==
  /\ proc \in [Proc -> ProcState]
  /\ session \in [Did -> Port \cup {None}]
  /\ info \in Info \cup {Nobody, Torn}
  /\ pending \subseteq Token
  /\ tabs \subseteq [token : Token, port : Port]
  /\ starts \in 0 .. MaxStart
  /\ aborted \subseteq Did /\ replaced \subseteq Did /\ crossed \subseteq Did
  /\ undeleted \subseteq Did /\ lost \subseteq Did

NoRequest == [stage |-> "none", did |-> "nobody"]
Idle == [pc |-> "idle", port |-> None, token |-> None, did |-> "nobody", had |-> None,
         alone |-> FALSE, req |-> [r \in Req |-> NoRequest]]

Init ==
  /\ proc = [c \in Proc |-> Idle]
  /\ session = [d \in Did |-> None]
  /\ info = Nobody
  /\ pending = {} /\ tabs = {}
  /\ starts = 0
  /\ aborted = {} /\ replaced = {} /\ crossed = {} /\ undeleted = {} /\ lost = {}

Listening(p) == \E c \in Proc : proc[c].pc = "listen" /\ proc[c].port = p

\* What loadAuthInfo returns: a record, or null for a missing or unreadable file.
LoadedInfo == info \in Info

Begin(c, command) ==
  /\ proc[c].pc = "idle"
  /\ starts < MaxStart /\ starts' = starts + 1
  /\ proc' = [b \in Proc |->
       IF b # c THEN [proc[b] EXCEPT !.alone = FALSE]
       ELSE [command EXCEPT !.alone = \A a \in Proc \ {c} : proc[a].pc = "idle"]]

\* The accounts whose tokens process c has stored and not yet recorded.
Unrecorded(c) == {proc[c].req[r].did : r \in {q \in Req : proc[c].req[q].stage = "names"}}

\* The process is gone, and with it every request in flight.
Exit(c) ==
  /\ proc' = [proc EXCEPT ![c] = Idle]
  /\ aborted' = aborted \cup Unrecorded(c)

\* A logout has read session.json and not yet removed it.
LoggingOut == \E c \in Proc : proc[c].pc = "clear"

\* Whom a write of session.json puts out.
Displaced == IF LoadedInfo THEN {info.did} ELSE {}

\* The writer of session.json ends half-way.
Tear == info' = Torn /\ replaced' = replaced \cup Displaced

\* The tokens of d are stored, under the port of c's client.
StoreTokens(c, d) ==
  /\ session' = [session EXCEPT ![d] = proc[c].port]
  /\ lost' = lost \ {d}

\* The client deletes the tokens of d, or the write of their file ends half-way.
LoseTokens(d) ==
  /\ session' = [session EXCEPT ![d] = None]
  /\ lost' = lost \cup {d}

SetReq(c, r, request) == [proc[c] EXCEPT !.req[r] = request]

-----------------------------------------------------------------------------
(***************************************************************************)
(* login.                                                                  *)
(***************************************************************************)

\* findFreePort: the probe is bound and closed; the authorization request goes out.
StartLogin(c, p) ==
  /\ ~Listening(p)
  /\ Begin(c, [Idle EXCEPT !.pc = "authorize", !.port = p, !.token = starts + 1])
  /\ UNCHANGED <<session, info, pending, tabs, history>>

\* authorize failed; login.ts reports it and exits.
AuthorizeFails(c) ==
  /\ proc[c].pc = "authorize"
  /\ Exit(c)
  /\ UNCHANGED <<session, info, pending, tabs, starts, replaced, crossed, undeleted, lost>>

\* The authorization is stored, the timer set, the server bound, the browser opened.
Listen(c) ==
  /\ proc[c].pc = "authorize"
  /\ ~Listening(proc[c].port)
  /\ pending' = pending \cup {proc[c].token}
  /\ tabs' = tabs \cup {[token |-> proc[c].token, port |-> proc[c].port]}
  /\ proc' = [proc EXCEPT ![c].pc = "listen"]
  /\ UNCHANGED <<session, info, starts, history>>

\* Another process took the port since the probe: the server's 'error' event has no
\* listener, and the process dies of it.
PortTaken(c) ==
  /\ proc[c].pc = "authorize"
  /\ pending' = pending \cup {proc[c].token}
  /\ Exit(c)
  /\ UNCHANGED <<session, info, tabs, starts, replaced, crossed, undeleted, lost>>

\* The browser's request reaches whichever server has the port.  A pending authorization
\* is taken (get and del, with no await of I/O between) and its code goes out.
Callback(c, r, t, d) ==
  /\ proc[c].pc = "listen" /\ proc[c].port = t.port
  /\ proc[c].req[r] = NoRequest
  /\ t.token \in pending
  /\ pending' = pending \ {t.token}
  /\ proc' = [proc EXCEPT ![c] = SetReq(c, r, [stage |-> "exchange", did |-> d])]
  /\ UNCHANGED <<session, info, tabs, starts, history>>

\* The user refused, or the authorization is not pending any more: a page sent twice, or
\* anything else below /callback.  500, reject, exit, whatever other requests are doing.
CallbackRefused(c) ==
  /\ proc[c].pc = "listen"
  /\ pending' \in {pending} \cup {pending \ {t.token} : t \in tabs}
  /\ Exit(c)
  /\ UNCHANGED <<session, info, tabs, starts, replaced, crossed, undeleted, lost>>

\* A slip: the tokens are not stored.
ExchangedUnstored(c, r) ==
  /\ proc[c].req[r].stage = "exchange"
  /\ proc' = [proc EXCEPT ![c] = SetReq(c, r, [proc[c].req[r] EXCEPT !.stage = "names"])]
  /\ UNCHANGED <<session, info, pending, tabs, starts, history>>

\* The tokens are stored under the account they are for.
Exchanged(c, r) ==
  LET d == proc[c].req[r].did
  IN  /\ proc[c].req[r].stage = "exchange"
      /\ StoreTokens(c, d)
      /\ proc' = [proc EXCEPT ![c] = SetReq(c, r, [stage |-> "names", did |-> d])]
      /\ crossed' = IF LoggingOut THEN crossed \cup {d} ELSE crossed
      /\ UNCHANGED <<info, pending, tabs, starts, aborted, replaced, undeleted>>

\* getProfile was refused the access token, and the client has refreshed the tokens it
\* stored; whatever took their place meanwhile is written over.
ProfileRefreshed(c, r) ==
  LET d == proc[c].req[r].did
  IN  /\ proc[c].req[r].stage = "names"
      /\ StoreTokens(c, d)
      /\ crossed' = IF LoggingOut THEN crossed \cup {d} ELSE crossed
      /\ UNCHANGED <<proc, info, pending, tabs, starts, aborted, replaced, undeleted>>

\* That refresh, or the request after it, was refused, or the new tokens could not be
\* stored: the client drops what is there, and the login ignores getProfile's error.
ProfileDrops(c, r) ==
  /\ proc[c].req[r].stage = "names"
  /\ session[proc[c].req[r].did] # None
  /\ LoseTokens(proc[c].req[r].did)
  /\ UNCHANGED <<proc, info, pending, tabs, starts, aborted, replaced, crossed, undeleted>>

\* The exchange, or storing the tokens or session.json, failed, perhaps half-way through
\* the file.  Once login has resolved, rejecting it again does nothing.
RequestFails(c, r) ==
  LET d     == proc[c].req[r].did
      stage == proc[c].req[r].stage
  IN  /\ stage \in {"exchange", "names"}
      /\ \/ proc[c].pc = "listen" /\ Exit(c)
         \/ /\ proc[c].pc = "linger"
            /\ proc' = [proc EXCEPT ![c] = SetReq(c, r, [NoRequest EXCEPT !.stage = "over"])]
            /\ aborted' = aborted \cup ({d} \cap Unrecorded(c))
      /\ \/ UNCHANGED <<session, lost, info, replaced>>
         \/ stage = "exchange" /\ LoseTokens(d) /\ UNCHANGED <<info, replaced>>
         \/ stage = "names" /\ Tear /\ UNCHANGED <<session, lost>>
      /\ UNCHANGED <<pending, tabs, starts, crossed, undeleted>>

Saving(c, r, port) ==
  LET d == proc[c].req[r].did
  IN  /\ proc[c].req[r].stage = "names"
      /\ info' = [did |-> d, port |-> port]
      /\ aborted' = aborted \ {d}
      /\ replaced' = (replaced \cup Displaced) \ {d}
      /\ proc' = [proc EXCEPT ![c] =
           [SetReq(c, r, [NoRequest EXCEPT !.stage = "over"]) EXCEPT
              !.pc = "linger"]]
      /\ crossed' = IF session[d] \in {None, proc[c].port} /\ ~LoggingOut
                    THEN crossed \ {d} ELSE crossed \cup {d}
      /\ undeleted' = undeleted \ {d}
      /\ UNCHANGED <<session, lost, pending, tabs, starts>>

\* A slip: the port on record is kept when there is one.
SaveOldPort(c, r) == Saving(c, r, IF LoadedInfo THEN info.port ELSE proc[c].port)

\* A slip: the record has no port.
SaveWithoutPort(c, r) == Saving(c, r, None)

\* getProfile and the DID document have answered, or failed, which is ignored.  In one
\* go: saveAuthInfo, the page, clearTimeout, close, resolve.
Save(c, r) == Saving(c, r, proc[c].port)

\* A slip: the timer is cleared when a callback comes in.
TimeoutDisarmed(c) ==
  /\ proc[c].pc = "listen"
  /\ proc[c].req = Idle.req
  /\ Exit(c)
  /\ UNCHANGED <<session, info, pending, tabs, starts, replaced, crossed, undeleted, lost>>

\* Timer: close, reject; login.ts exits before any request goes on.
Timeout(c) ==
  /\ proc[c].pc = "listen"
  /\ Exit(c)
  /\ UNCHANGED <<session, info, pending, tabs, starts, replaced, crossed, undeleted, lost>>

\* Nothing in flight any more.
LoginOver(c) ==
  /\ proc[c].pc = "linger"
  /\ \A r \in Req : proc[c].req[r].stage \in {"none", "over"}
  /\ Exit(c)
  /\ UNCHANGED <<session, info, pending, tabs, starts, replaced, crossed, undeleted, lost>>

-----------------------------------------------------------------------------
(***************************************************************************)
(* getAgent: sheet, mint, meditate and the others.                         *)
(***************************************************************************)

\* The recorded account's tokens are read; if they have expired a refresh goes out,
\* under the recorded port.  The client's lock is local to the process.
StartRestore(c) ==
  /\ LoadedInfo /\ session[info.did] # None
  /\ Begin(c, [Idle EXCEPT !.pc = "refresh", !.port = info.port, !.did = info.did,
                           !.had = session[info.did]])
  /\ UNCHANGED <<session, info, pending, tabs, history>>

\* The new tokens are stored in place of whatever is there by now.
Refreshed(c) ==
  /\ proc[c].pc = "refresh"
  /\ proc[c].port = proc[c].had
  /\ StoreTokens(c, proc[c].did)
  /\ crossed' = IF session[proc[c].did] = proc[c].had THEN crossed
                                                     ELSE crossed \cup {proc[c].did}
  /\ Exit(c)
  /\ UNCHANGED <<info, pending, tabs, starts, replaced, undeleted>>

\* Refused, no answer, or not stored: the tokens are kept, dropped or torn; getAgent
\* returns null.
RefreshFails(c) ==
  /\ proc[c].pc = "refresh"
  /\ UNCHANGED <<session, lost>> \/ LoseTokens(proc[c].did)
  /\ Exit(c)
  /\ UNCHANGED <<info, pending, tabs, starts, replaced, crossed, undeleted>>

-----------------------------------------------------------------------------
(***************************************************************************)
(* logout, and the end of any process.                                     *)
(***************************************************************************)

\* A slip: the tokens stay.
LogoutClearsOnly(c) ==
  /\ Begin(c, [Idle EXCEPT !.pc = "clear"])
  /\ UNCHANGED <<session, info, pending, tabs, history>>

\* The tokens of an account logging out are gone, and with them what led to them.
Deleted(d) ==
  /\ session' = [session EXCEPT ![d] = None]
  /\ aborted' = aborted \ {d} /\ replaced' = replaced \ {d} /\ crossed' = crossed \ {d}
  /\ undeleted' = undeleted \ {d} /\ lost' = lost \ {d}

\* A best-effort delete: the file is there still, and nobody is told.
NotDeleted(d) ==
  /\ session[d] # None
  /\ undeleted' = undeleted \cup {d}
  /\ UNCHANGED <<session, aborted, replaced, crossed, lost>>

\* loadAuthInfo; fileSessionStore.del of the account it names.
Logout(c) ==
  /\ Begin(c, [Idle EXCEPT !.pc = "clear"])
  /\ \/ LoadedInfo /\ (Deleted(info.did) \/ NotDeleted(info.did))
     \/ ~LoadedInfo /\ UNCHANGED <<session, history>>
  /\ UNCHANGED <<info, pending, tabs>>

\* clearAuthInfo, whose removeFile may fail too.
ClearInfo(c) ==
  /\ proc[c].pc = "clear"
  /\ info' \in {Nobody, info}
  /\ Exit(c)
  /\ UNCHANGED <<session, pending, tabs, starts, replaced, crossed, undeleted, lost>>

\* The accounts whose tokens c may be writing.
Writing(c) ==
  {proc[c].req[r].did : r \in {q \in Req : proc[c].req[q].stage \in {"exchange", "names"}}}
    \cup (IF proc[c].pc = "refresh" THEN {proc[c].did} ELSE {})

\* The user interrupts it, or it is killed, perhaps while it writes session.json or tokens.
Kill(c) ==
  /\ proc[c].pc # "idle"
  /\ Exit(c)
  /\ \/ UNCHANGED <<session, lost, info, replaced>>
     \/ Unrecorded(c) # {} /\ Tear /\ UNCHANGED <<session, lost>>
     \/ (\E d \in Writing(c) : LoseTokens(d)) /\ UNCHANGED <<info, replaced>>
  /\ UNCHANGED <<pending, tabs, starts, crossed, undeleted>>

Next ==
  \E c \in Proc :
    \/ \E p \in Port : StartLogin(c, p)
    \/ AuthorizeFails(c) \/ Listen(c) \/ PortTaken(c)
    \/ \E r \in Req, t \in tabs, d \in Did : Callback(c, r, t, d)
    \/ CallbackRefused(c) \/ Timeout(c) \/ LoginOver(c)
    \/ \E r \in Req : \/ Exchanged(c, r) \/ RequestFails(c, r) \/ Save(c, r)
                    \/ ProfileRefreshed(c, r) \/ ProfileDrops(c, r)
    \/ StartRestore(c) \/ Refreshed(c) \/ RefreshFails(c)
    \/ Logout(c) \/ ClearInfo(c) \/ Kill(c)

Spec == Init /\ [][Next]_vars

\* The timer fires; nobody promises an answer of the browser or the network.
FairSpec == Spec /\ \A c \in Proc : WF_vars(Timeout(c))

-----------------------------------------------------------------------------
(***************************************************************************)
(* Properties.                                                             *)
(***************************************************************************)

\* oauthPort is the port the account's tokens were issued under, or no refresh of them
\* can succeed.  They part only while a login that stored tokens for the account has not
\* recorded them, or when it ended without, or when two commands crossed over it.
PortDriftHasACause ==
  LoadedInfo /\ session[info.did] \notin {None, info.port} =>
    info.did \in aborted \cup crossed \cup UNION {Unrecorded(c) : c \in Proc}

\* With nobody logged in no account's tokens are left in auth/, except those of accounts
\* a later login displaced, those a login stored without recording, those two commands
\* crossed over, and those a logout tried to delete and could not.
LoggedOutLeavesNoTokens ==
  info = Nobody =>
    \A d \in Did : session[d] # None =>
      d \in aborted \cup replaced \cup crossed \cup undeleted
              \cup UNION {Unrecorded(c) : c \in Proc}

\* A login that succeeded by itself ends with an account on record under its port, and
\* with that account's tokens stored under it, whatever other pages were sent to the
\* port, unless a write that failed half-way or the refresh inside getProfile took the
\* tokens away after it had stored them.
SuccessIsOnRecord ==
  [][\A c \in Proc : LoginOver(c) /\ proc[c].alone =>
       \/ /\ LoadedInfo /\ info.port = proc[c].port
          /\ session[info.did] = info.port \/ info.did \in lost
       \/ info = Torn]_vars

\* A login that waits for the browser ends, within its timer, whatever the browser and
\* the servers do or leave undone.
LoginEnds == \A c \in Proc : proc[c].pc = "listen" ~> proc[c].pc # "listen"
=============================================================================
