------------------------ MODULE LoopbackLoginProofs -------------------------
(***************************************************************************)
(* Proofs about LoopbackLogin, for any processes, accounts, ports and      *)
(* bounds: types, what the record and the stored tokens say of each other, *)
(* and what a successful login leaves.                                     *)
(***************************************************************************)
EXTENDS LoopbackLogin, TLAPS

(***************************************************************************)
(* What a process holds where it stands.                                   *)
(***************************************************************************)
Shape(p) ==
  /\ p.pc \in {"authorize", "listen", "linger", "refresh"} => p.port \in Port
  /\ p.pc = "authorize" => p.token \in Token
  /\ p.pc = "refresh" => p.did \in Did /\ p.had \in Port
  /\ \A r \in Req : p.req[r].stage \in {"exchange", "names"} =>
       p.req[r].did \in Did /\ p.pc \in {"listen", "linger"}

Shaped == \A c \in Proc : Shape(proc[c])

\* The accounts whose tokens are stored, or may be, and not recorded.
Owed(d) ==
  d \in aborted \/ \E c \in Proc, r \in Req : proc[c].req[r].stage = "names"
                                              /\ proc[c].req[r].did = d

LEMMA OwedIs ==
  \A d : d \in aborted \cup UNION {Unrecorded(c) : c \in Proc} <=> Owed(d)
BY DEF Owed, Unrecorded

-----------------------------------------------------------------------------
(***************************************************************************)
(* Types.                                                                  *)
(***************************************************************************)

LEMMA NotRecords == Nobody \notin Info /\ Torn \notin Info /\ Nobody # Torn
BY LoopbackAssumption DEF Nobody, Torn, Info, None

LEMMA IdleIsShaped == Idle \in ProcState /\ Shape(Idle)
BY DEF Idle, ProcState, Shape, Request, NoRequest, None

LEMMA OneMoves ==
  ASSUME proc \in [Proc -> ProcState], Shaped,
         NEW c \in Proc, NEW p \in ProcState, Shape(p), proc' = [proc EXCEPT ![c] = p]
  PROVE  proc' \in [Proc -> ProcState] /\ Shaped'
BY DEF Shaped

LEMMA ExitTypes ==
  ASSUME TypeOK, Shaped, NEW c \in Proc, Exit(c)
  PROVE  proc' \in [Proc -> ProcState] /\ Shaped' /\ aborted' \subseteq Did
<1>1. proc' \in [Proc -> ProcState] /\ Shaped'
  BY OneMoves, IdleIsShaped DEF Exit, TypeOK
<1>2. aborted' \subseteq Did
  BY DEF Exit, TypeOK, Unrecorded, Shaped, Shape
<1>3. QED
  BY <1>1, <1>2

LEMMA BeginTypes ==
  ASSUME TypeOK, Shaped, NEW c \in Proc, NEW p \in ProcState, Shape(p), Begin(c, p)
  PROVE  proc' \in [Proc -> ProcState] /\ Shaped' /\ starts' \in 0 .. MaxStart
<1>1. \A b \in Proc : [proc[b] EXCEPT !.alone = FALSE] \in ProcState
                      /\ Shape([proc[b] EXCEPT !.alone = FALSE])
  BY DEF TypeOK, ProcState, Shaped, Shape
<1>2. \A x \in BOOLEAN : [p EXCEPT !.alone = x] \in ProcState
                         /\ Shape([p EXCEPT !.alone = x])
  BY DEF ProcState, Shape
<1>3. (\A a \in Proc \ {c} : proc[a].pc = "idle") \in BOOLEAN
  OBVIOUS
<1>4. \A b \in Proc : proc'[b] \in ProcState /\ Shape(proc'[b])
  <2>1. TAKE b \in Proc
  <2>2. CASE b # c
    BY <1>1, <2>2 DEF Begin
  <2>3. CASE b = c
    BY <1>2, <1>3, <2>3 DEF Begin
  <2>4. QED
    BY <2>2, <2>3
<1>5. proc' \in [Proc -> ProcState]
  <2>1. DOMAIN proc' = Proc /\ proc' = [b \in Proc |-> proc'[b]]
    BY DEF Begin
  <2>2. QED
    BY <1>4, <2>1
<1>6. starts' \in 0 .. MaxStart
  BY LoopbackAssumption DEF Begin, TypeOK
<1>7. QED
  BY <1>4, <1>5, <1>6 DEF Shaped

\* What the steps of a request do to its process.
LEMMA RequestTypes ==
  ASSUME NEW p \in ProcState, Shape(p), NEW r \in Req, NEW q \in Request,
         p.pc \in {"listen", "linger"},
         q.stage \in {"exchange", "names"} => q.did \in Did
  PROVE  /\ [p EXCEPT !.req[r] = q] \in ProcState /\ Shape([p EXCEPT !.req[r] = q])
         /\ [[p EXCEPT !.req[r] = q] EXCEPT !.pc = "linger"] \in ProcState
         /\ Shape([[p EXCEPT !.req[r] = q] EXCEPT !.pc = "linger"])
<1> DEFINE P == [p EXCEPT !.req[r] = q]
<1>1. P \in ProcState
  BY DEF ProcState
<1>2. P.pc = p.pc /\ P.port = p.port /\ P.req = [p.req EXCEPT ![r] = q]
  BY DEF ProcState
<1>3. Shape(P)
  BY <1>2 DEF Shape, ProcState
<1>4. [P EXCEPT !.pc = "linger"] \in ProcState
  BY <1>1 DEF ProcState
<1>5. Shape([P EXCEPT !.pc = "linger"])
  BY <1>1, <1>2, <1>3 DEF Shape, ProcState
<1>6. QED
  BY <1>1, <1>3, <1>4, <1>5

\* The steps of a command, of a callback and of a request, one by one.
LEMMA CommandTypes ==
  ASSUME TypeOK, Shaped, NEW c \in Proc,
         (\E p \in Port : StartLogin(c, p)) \/ StartRestore(c) \/ Logout(c)
  PROVE  TypeOK' /\ Shaped'
<1>1. ASSUME NEW p \in Port, StartLogin(c, p) PROVE TypeOK' /\ Shaped'
  <2> DEFINE q == [Idle EXCEPT !.pc = "authorize", !.port = p, !.token = starts + 1]
  <2>1. starts + 1 \in Token
    <3>1. starts < MaxStart
      BY <1>1 DEF StartLogin, Begin
    <3>2. QED
      BY <3>1, LoopbackAssumption DEF TypeOK, Token
  <2>2. q \in ProcState /\ Shape(q)
    BY <2>1 DEF Idle, ProcState, Shape, Request, NoRequest, None
  <2>3. Begin(c, q)
    BY <1>1 DEF StartLogin
  <2>4. QED
    BY <1>1, <2>2, <2>3, BeginTypes DEF StartLogin, TypeOK, history
<1>2. CASE StartRestore(c)
  <2> DEFINE q == [Idle EXCEPT !.pc = "refresh", !.port = info.port, !.did = info.did,
                               !.had = session[info.did]]
  <2>1. info.did \in Did /\ info.port \in Port /\ session[info.did] \in Port
    BY <1>2 DEF StartRestore, LoadedInfo, Info, TypeOK
  <2>2. q \in ProcState /\ Shape(q)
    BY <2>1 DEF Idle, ProcState, Shape, Request, NoRequest, None
  <2>3. Begin(c, q)
    BY <1>2 DEF StartRestore
  <2>4. QED
    BY <1>2, <2>2, <2>3, BeginTypes DEF StartRestore, TypeOK, history
<1>3. CASE Logout(c)
  <2> DEFINE q == [Idle EXCEPT !.pc = "clear"]
  <2>1. q \in ProcState /\ Shape(q)
    BY DEF Idle, ProcState, Shape, Request, NoRequest, None
  <2>2. Begin(c, q)
    BY <1>3 DEF Logout
  <2>3. /\ session' \in [Did -> Port \cup {None}]
        /\ aborted' \subseteq Did /\ replaced' \subseteq Did /\ crossed' \subseteq Did
        /\ undeleted' \subseteq Did /\ lost' \subseteq Did
    <3>1. CASE LoadedInfo /\ Deleted(info.did)
      BY <3>1 DEF Deleted, TypeOK
    <3>2. CASE LoadedInfo /\ NotDeleted(info.did)
      BY <3>2 DEF NotDeleted, LoadedInfo, Info, TypeOK
    <3>3. CASE UNCHANGED <<session, history>>
      BY <3>3 DEF history, TypeOK
    <3>4. QED
      BY <1>3, <3>1, <3>2, <3>3 DEF Logout
  <2>4. QED
    BY <1>3, <2>1, <2>2, <2>3, BeginTypes DEF Logout, TypeOK
<1>4. QED
  BY <1>1, <1>2, <1>3

LEMMA LoginTypes ==
  ASSUME TypeOK, Shaped, NEW c \in Proc,
         \/ AuthorizeFails(c) \/ Listen(c) \/ PortTaken(c)
         \/ CallbackRefused(c) \/ Timeout(c) \/ LoginOver(c)
  PROVE  TypeOK' /\ Shaped'
<1>0. proc[c] \in ProcState /\ Shape(proc[c])
  BY DEF TypeOK, Shaped
<1>1. CASE AuthorizeFails(c) \/ Timeout(c) \/ LoginOver(c)
  BY <1>1, ExitTypes DEF AuthorizeFails, Timeout, LoginOver, TypeOK
<1>2. CASE Listen(c)
  <2> DEFINE p == [proc[c] EXCEPT !.pc = "listen"]
  <2>1. p \in ProcState /\ Shape(p)
    BY <1>0, <1>2 DEF Listen, ProcState, Shape
  <2>2. proc' = [proc EXCEPT ![c] = p]
    BY <1>2 DEF Listen
  <2>3. proc' \in [Proc -> ProcState] /\ Shaped'
    BY <2>1, <2>2, OneMoves DEF TypeOK
  <2>4. tabs' \subseteq [token : Token, port : Port] /\ pending' \subseteq Token
    BY <1>0, <1>2 DEF Listen, TypeOK, Shape
  <2>5. QED
    BY <1>2, <2>3, <2>4 DEF Listen, TypeOK, history
<1>3. CASE PortTaken(c)
  <2>1. pending' \subseteq Token
    BY <1>0, <1>3 DEF PortTaken, TypeOK, Shape
  <2>2. QED
    BY <1>3, <2>1, ExitTypes DEF PortTaken, TypeOK
<1>4. CASE CallbackRefused(c)
  BY <1>4, ExitTypes DEF CallbackRefused, TypeOK
<1>5. QED
  BY <1>1, <1>2, <1>3, <1>4

LEMMA RequestStepTypes ==
  ASSUME TypeOK, Shaped, NEW c \in Proc, NEW r \in Req,
         \/ \E t \in tabs, d \in Did : Callback(c, r, t, d)
         \/ Exchanged(c, r) \/ RequestFails(c, r) \/ Save(c, r)
         \/ ProfileRefreshed(c, r) \/ ProfileDrops(c, r)
  PROVE  TypeOK' /\ Shaped'
<1>0. proc[c] \in ProcState /\ Shape(proc[c])
  BY DEF TypeOK, Shaped
<1>1. CASE \E t \in tabs, d \in Did : Callback(c, r, t, d)
  <2>1. PICK t \in tabs, d \in Did : Callback(c, r, t, d)
    BY <1>1
  <2> DEFINE q == [stage |-> "exchange", did |-> d]
             p == [proc[c] EXCEPT !.req[r] = q]
  <2>2. q \in Request
    BY DEF Request
  <2>3. p \in ProcState /\ Shape(p)
    BY <1>0, <2>1, <2>2, RequestTypes DEF Callback
  <2>4. proc' = [proc EXCEPT ![c] = p]
    BY <2>1 DEF Callback, SetReq
  <2>5. proc' \in [Proc -> ProcState] /\ Shaped'
    BY <2>3, <2>4, OneMoves DEF TypeOK
  <2>6. pending' \subseteq Token
    BY <2>1 DEF Callback, TypeOK
  <2>7. QED
    BY <2>1, <2>5, <2>6 DEF Callback, TypeOK, history
<1>2. CASE Exchanged(c, r)
  <2> DEFINE d == proc[c].req[r].did
             q == [stage |-> "names", did |-> d]
             p == [proc[c] EXCEPT !.req[r] = q]
  <2>1. d \in Did /\ proc[c].pc \in {"listen", "linger"} /\ proc[c].port \in Port
    BY <1>0, <1>2 DEF Exchanged, Shape
  <2>2. q \in Request
    BY <2>1 DEF Request
  <2>3. p \in ProcState /\ Shape(p)
    BY <1>0, <2>1, <2>2, RequestTypes
  <2>4. proc' = [proc EXCEPT ![c] = p]
    BY <1>2 DEF Exchanged, SetReq
  <2>5. proc' \in [Proc -> ProcState] /\ Shaped'
    BY <2>3, <2>4, OneMoves DEF TypeOK
  <2>6. session' \in [Did -> Port \cup {None}] /\ crossed' \subseteq Did /\ lost' \subseteq Did
    BY <1>2, <2>1 DEF Exchanged, StoreTokens, TypeOK
  <2>7. QED
    BY <1>2, <2>5, <2>6 DEF Exchanged, TypeOK
<1>3. CASE RequestFails(c, r)
  <2>1. proc' \in [Proc -> ProcState] /\ Shaped' /\ aborted' \subseteq Did
    <3>1. CASE Exit(c)
      BY <3>1, ExitTypes
    <3>2. CASE /\ proc[c].pc = "linger"
               /\ proc' = [proc EXCEPT ![c] = SetReq(c, r, [NoRequest EXCEPT !.stage = "over"])]
               /\ aborted' = aborted \cup ({proc[c].req[r].did} \cap Unrecorded(c))
      <4> DEFINE q == [NoRequest EXCEPT !.stage = "over"]
                 p == [proc[c] EXCEPT !.req[r] = q]
      <4>1. q \in Request /\ q.stage = "over"
        BY DEF Request, NoRequest
      <4>2. p \in ProcState /\ Shape(p)
        BY <1>0, <3>2, <4>1, RequestTypes
      <4>3. proc' \in [Proc -> ProcState] /\ Shaped'
        BY <3>2, <4>2, OneMoves DEF TypeOK, SetReq
      <4>4. aborted' \subseteq Did
        BY <1>0, <3>2 DEF TypeOK, Unrecorded, Shape
      <4>5. QED
        BY <4>3, <4>4
    <3>3. QED
      BY <1>3, <3>1, <3>2 DEF RequestFails
  <2>2. info' \in Info \cup {Nobody, Torn} /\ replaced' \subseteq Did
    BY <1>3 DEF RequestFails, Tear, Displaced, LoadedInfo, Info, TypeOK
  <2>3. session' \in [Did -> Port \cup {None}] /\ lost' \subseteq Did
    <3>1. proc[c].req[r].did \in Did
      BY <1>0, <1>3 DEF RequestFails, Shape
    <3>2. QED
      BY <1>3, <3>1 DEF RequestFails, LoseTokens, TypeOK
  <2>4. QED
    BY <1>3, <2>1, <2>2, <2>3 DEF RequestFails, TypeOK
<1>4. CASE Save(c, r)
  <2> DEFINE d == proc[c].req[r].did
             q == [NoRequest EXCEPT !.stage = "over"]
             p == [[proc[c] EXCEPT !.req[r] = q] EXCEPT !.pc = "linger"]
  <2>1. d \in Did /\ proc[c].pc \in {"listen", "linger"} /\ proc[c].port \in Port
    BY <1>0, <1>4 DEF Save, Saving, Shape
  <2>2. q \in Request /\ q.stage = "over"
    BY DEF Request, NoRequest
  <2>3. p \in ProcState /\ Shape(p)
    BY <1>0, <2>1, <2>2, RequestTypes
  <2>4. proc' = [proc EXCEPT ![c] = p]
    BY <1>4 DEF Save, Saving, SetReq
  <2>5. proc' \in [Proc -> ProcState] /\ Shaped'
    BY <2>3, <2>4, OneMoves DEF TypeOK
  <2>6. info' \in Info
    BY <1>4, <2>1 DEF Save, Saving, Info
  <2>7. /\ aborted' \subseteq Did /\ replaced' \subseteq Did /\ crossed' \subseteq Did
        /\ undeleted' \subseteq Did
    BY <1>4, <2>1 DEF Save, Saving, TypeOK, Displaced, LoadedInfo, Info
  <2>8. QED
    BY <1>4, <2>5, <2>6, <2>7 DEF Save, Saving, TypeOK
<1>5. CASE ProfileRefreshed(c, r) \/ ProfileDrops(c, r)
  <2>1. proc[c].req[r].did \in Did /\ proc[c].port \in Port
    BY <1>0, <1>5 DEF ProfileRefreshed, ProfileDrops, Shape
  <2>2. session' \in [Did -> Port \cup {None}] /\ crossed' \subseteq Did /\ lost' \subseteq Did
    BY <1>5, <2>1 DEF ProfileRefreshed, ProfileDrops, StoreTokens, LoseTokens, TypeOK
  <2>3. QED
    BY <1>5, <2>2 DEF ProfileRefreshed, ProfileDrops, TypeOK, Shaped
<1>6. QED
  BY <1>1, <1>2, <1>3, <1>4, <1>5

LEMMA EndTypes ==
  ASSUME TypeOK, Shaped, NEW c \in Proc,
         Refreshed(c) \/ RefreshFails(c) \/ ClearInfo(c) \/ Kill(c)
  PROVE  TypeOK' /\ Shaped'
<1>0. proc[c] \in ProcState /\ Shape(proc[c])
  BY DEF TypeOK, Shaped
<1>1. CASE Refreshed(c)
  <2>1. proc[c].did \in Did /\ proc[c].port \in Port
    BY <1>0, <1>1 DEF Refreshed, Shape
  <2>2. session' \in [Did -> Port \cup {None}] /\ crossed' \subseteq Did /\ lost' \subseteq Did
    BY <1>1, <2>1 DEF Refreshed, StoreTokens, TypeOK
  <2>3. QED
    BY <1>1, <2>2, ExitTypes DEF Refreshed, TypeOK
<1>2. CASE RefreshFails(c)
  <2>1. proc[c].did \in Did
    BY <1>0, <1>2 DEF RefreshFails, Shape
  <2>2. session' \in [Did -> Port \cup {None}] /\ lost' \subseteq Did
    BY <1>2, <2>1 DEF RefreshFails, LoseTokens, TypeOK
  <2>3. QED
    BY <1>2, <2>2, ExitTypes DEF RefreshFails, TypeOK
<1>3. CASE ClearInfo(c)
  BY <1>3, ExitTypes DEF ClearInfo, TypeOK
<1>4. CASE Kill(c)
  <2>1. info' \in Info \cup {Nobody, Torn} /\ replaced' \subseteq Did
    BY <1>4 DEF Kill, Tear, Displaced, LoadedInfo, Info, TypeOK
  <2>2. Writing(c) \subseteq Did
    BY <1>0 DEF Writing, Shape
  <2>3. session' \in [Did -> Port \cup {None}] /\ lost' \subseteq Did
    BY <1>4, <2>2 DEF Kill, LoseTokens, TypeOK
  <2>4. QED
    BY <1>4, <2>1, <2>3, ExitTypes DEF Kill, TypeOK
<1>5. QED
  BY <1>1, <1>2, <1>3, <1>4

\* Every variable stays in its type, and a process holds the port, the token and the
\* account its place in the command asks for.
LEMMA TypesAndShapes == Spec => [](TypeOK /\ Shaped)
<1>1. Init => TypeOK /\ Shaped
  <2>1. \A c \in Proc : Init => proc[c] = Idle
    BY DEF Init
  <2>2. QED
    BY <2>1, IdleIsShaped, LoopbackAssumption DEF Init, TypeOK, Shaped
<1>2. TypeOK /\ Shaped /\ [Next]_vars => (TypeOK /\ Shaped)'
  <2>1. SUFFICES ASSUME TypeOK, Shaped, [Next]_vars PROVE TypeOK' /\ Shaped'
    OBVIOUS
  <2>2. CASE Next
    <3>1. PICK c \in Proc :
            \/ \E p \in Port : StartLogin(c, p)
            \/ AuthorizeFails(c) \/ Listen(c) \/ PortTaken(c)
            \/ \E r \in Req, t \in tabs, d \in Did : Callback(c, r, t, d)
            \/ CallbackRefused(c) \/ Timeout(c) \/ LoginOver(c)
            \/ \E r \in Req : \/ Exchanged(c, r) \/ RequestFails(c, r) \/ Save(c, r)
                            \/ ProfileRefreshed(c, r) \/ ProfileDrops(c, r)
            \/ StartRestore(c) \/ Refreshed(c) \/ RefreshFails(c)
            \/ Logout(c) \/ ClearInfo(c) \/ Kill(c)
      BY <2>2 DEF Next
    <3>2. QED
      BY <2>1, <3>1, CommandTypes, LoginTypes, RequestStepTypes, EndTypes
  <2>3. CASE UNCHANGED vars
    BY <2>1, <2>3 DEF vars, TypeOK, Shaped
  <2>4. QED
    BY <2>1, <2>2, <2>3
<1>3. QED
  BY <1>1, <1>2, PTL DEF Spec

THEOREM TypeCorrect == Spec => []TypeOK
BY TypesAndShapes, PTL

-----------------------------------------------------------------------------
(***************************************************************************)
(* Tokens stored and not recorded: who owes them, step by step.            *)
(***************************************************************************)

Quiet(c) ==
  \/ \E p \in Port : StartLogin(c, p)
  \/ AuthorizeFails(c) \/ Listen(c) \/ PortTaken(c)
  \/ \E r \in Req, t \in tabs, d \in Did : Callback(c, r, t, d)
  \/ CallbackRefused(c) \/ Timeout(c) \/ LoginOver(c)
  \/ StartRestore(c)

\* A process that leaves passes its accounts on to the history.
LEMMA ExitOwes ==
  ASSUME NEW c \in Proc, proc \in [Proc -> ProcState], Exit(c), NEW d, Owed(d)
  PROVE  Owed(d)'
<1>1. CASE d \in aborted
  BY <1>1 DEF Exit, Owed
<1>2. ASSUME NEW b \in Proc, NEW r \in Req, proc[b].req[r].stage = "names",
             proc[b].req[r].did = d
      PROVE  Owed(d)'
  <2>1. CASE b = c
    BY <1>2, <2>1 DEF Exit, Owed, Unrecorded
  <2>2. CASE b # c
    <3>1. proc'[b] = proc[b]
      BY <2>2 DEF Exit
    <3>2. QED
      BY <1>2, <3>1 DEF Owed
  <2>3. QED
    BY <2>1, <2>2
<1>3. QED
  BY <1>1, <1>2 DEF Owed

\* A process that begins owed nothing.
LEMMA BeginOwes ==
  ASSUME NEW c \in Proc, proc \in [Proc -> ProcState], Shaped, NEW p \in ProcState,
         Begin(c, p), NEW d, Owed(d), d \in aborted => d \in aborted'
  PROVE  Owed(d)'
<1>1. ASSUME NEW b \in Proc, NEW r \in Req, proc[b].req[r].stage = "names",
             proc[b].req[r].did = d
      PROVE  Owed(d)'
  <2>1. b # c
    BY <1>1 DEF Begin, Shaped, Shape
  <2>2. proc'[b].req = proc[b].req
    BY <2>1 DEF Begin, ProcState
  <2>3. QED
    BY <1>1, <2>2 DEF Owed
<1>2. QED
  BY <1>1 DEF Owed

\* A step of one request changes what that request owes.
LEMMA RequestOwes ==
  ASSUME NEW c \in Proc, proc \in [Proc -> ProcState], NEW r \in Req, NEW p, NEW q,
         proc' = [proc EXCEPT ![c] = p], p.req = [proc[c].req EXCEPT ![r] = q],
         NEW d, Owed(d), d \in aborted => d \in aborted',
         proc[c].req[r].stage = "names" /\ proc[c].req[r].did = d => d \in aborted'
  PROVE  Owed(d)'
<1>1. ASSUME NEW b \in Proc, NEW s \in Req, proc[b].req[s].stage = "names",
             proc[b].req[s].did = d
      PROVE  Owed(d)'
  <2>1. CASE b = c /\ s = r
    BY <1>1, <2>1 DEF Owed
  <2>2. CASE b = c /\ s # r
    <3>1. proc'[b].req[s] = proc[b].req[s]
      BY <2>2 DEF ProcState
    <3>2. QED
      BY <1>1, <3>1 DEF Owed
  <2>3. CASE b # c
    <3>1. proc'[b] = proc[b]
      BY <2>3
    <3>2. QED
      BY <1>1, <3>1 DEF Owed
  <2>4. QED
    BY <2>1, <2>2, <2>3
<1>2. QED
  BY <1>1 DEF Owed

\* The steps that touch neither the record nor the tokens owe what was owed.
LEMMA QuietOwes ==
  ASSUME TypeOK, Shaped, NEW c \in Proc, Quiet(c), NEW d, Owed(d)
  PROVE  Owed(d)'
<1>0. proc[c] \in ProcState /\ proc \in [Proc -> ProcState]
  BY DEF TypeOK
<1>1. ASSUME NEW p \in Port, StartLogin(c, p) PROVE Owed(d)'
  <2> DEFINE q == [Idle EXCEPT !.pc = "authorize", !.port = p, !.token = starts + 1]
  <2>1. starts < MaxStart
    BY <1>1 DEF StartLogin, Begin
  <2>2. starts + 1 \in Token
    BY <2>1, LoopbackAssumption DEF TypeOK, Token
  <2>3. q \in ProcState
    BY <2>2 DEF Idle, ProcState, Request, NoRequest, None
  <2>4. Begin(c, q) /\ aborted' = aborted
    BY <1>1 DEF StartLogin, history
  <2>5. QED
    BY <1>0, <2>3, <2>4, BeginOwes
<1>2. CASE StartRestore(c)
  <2> DEFINE q == [Idle EXCEPT !.pc = "refresh", !.port = info.port, !.did = info.did,
                               !.had = session[info.did]]
  <2>1. info.did \in Did /\ info.port \in Port /\ session[info.did] \in Port
    BY <1>2 DEF StartRestore, LoadedInfo, Info, TypeOK
  <2>2. q \in ProcState
    BY <2>1 DEF Idle, ProcState, Request, NoRequest, None
  <2>3. Begin(c, q) /\ aborted' = aborted
    BY <1>2 DEF StartRestore, history
  <2>4. QED
    BY <1>0, <2>2, <2>3, BeginOwes
<1>3. CASE AuthorizeFails(c) \/ PortTaken(c) \/ CallbackRefused(c) \/ Timeout(c) \/ LoginOver(c)
  <2>1. Exit(c)
    BY <1>3 DEF AuthorizeFails, PortTaken, CallbackRefused, Timeout, LoginOver
  <2>2. QED
    BY <1>0, <2>1, ExitOwes
<1>4. CASE Listen(c)
  <2>1. aborted' = aborted /\ \A b \in Proc : proc'[b].req = proc[b].req
    BY <1>4, <1>0 DEF Listen, history, ProcState
  <2>2. QED
    BY <2>1 DEF Owed
<1>5. ASSUME NEW r \in Req, NEW t \in tabs, NEW e \in Did, Callback(c, r, t, e) PROVE Owed(d)'
  <2> DEFINE q == [stage |-> "exchange", did |-> e]
             p == [proc[c] EXCEPT !.req[r] = q]
  <2>1. proc' = [proc EXCEPT ![c] = p] /\ aborted' = aborted
        /\ proc[c].req[r].stage # "names"
    BY <1>5 DEF Callback, SetReq, history, NoRequest
  <2>2. p.req = [proc[c].req EXCEPT ![r] = q]
    BY <1>0 DEF ProcState
  <2>3. QED
    BY <1>0, <2>1, <2>2, RequestOwes
<1>6. QED
  BY <1>1, <1>2, <1>3, <1>4, <1>5 DEF Quiet

LEMMA QuietLeaves ==
  ASSUME NEW c \in Proc, Quiet(c)
  PROVE  UNCHANGED <<session, info, replaced, crossed, undeleted>>
BY DEF Quiet, StartLogin, AuthorizeFails, Listen, PortTaken, Callback, CallbackRefused,
       Timeout, LoginOver, StartRestore, history

\* Tokens that are stored are owed until they are recorded.
LEMMA ExchangedOwes ==
  ASSUME TypeOK, Shaped, NEW c \in Proc, NEW r \in Req, Exchanged(c, r),
         NEW e, e = proc[c].req[r].did
  PROVE  Owed(e)' /\ \A d : Owed(d) => Owed(d)'
<1> DEFINE q == [stage |-> "names", did |-> e]
           p == [proc[c] EXCEPT !.req[r] = q]
<1>1. proc[c] \in ProcState /\ proc \in [Proc -> ProcState]
  BY DEF TypeOK
<1>2. proc' = [proc EXCEPT ![c] = p] /\ aborted' = aborted
      /\ proc[c].req[r].stage # "names"
  BY DEF Exchanged, SetReq
<1>3. p.req = [proc[c].req EXCEPT ![r] = q]
  BY <1>1 DEF ProcState
<1>4. \A d : Owed(d) => Owed(d)'
  BY <1>1, <1>2, <1>3, RequestOwes
<1>5. proc'[c].req[r] = q
  BY <1>1, <1>2, <1>3 DEF ProcState
<1>6. Owed(e)'
  <2>1. \E b \in Proc, s \in Req : proc'[b].req[s].stage = "names" /\ proc'[b].req[s].did = e
    BY <1>5
  <2>2. QED
    BY <2>1 DEF Owed
<1>7. QED
  BY <1>4, <1>6

LEMMA RequestFailsOwes ==
  ASSUME TypeOK, Shaped, NEW c \in Proc, NEW r \in Req, RequestFails(c, r), NEW d, Owed(d)
  PROVE  Owed(d)'
<1>1. proc[c] \in ProcState /\ proc \in [Proc -> ProcState]
  BY DEF TypeOK
<1>2. CASE Exit(c)
  BY <1>1, <1>2, ExitOwes
<1>3. CASE /\ proc' = [proc EXCEPT ![c] = SetReq(c, r, [NoRequest EXCEPT !.stage = "over"])]
           /\ aborted' = aborted \cup ({proc[c].req[r].did} \cap Unrecorded(c))
  <2> DEFINE q == [NoRequest EXCEPT !.stage = "over"]
             p == [proc[c] EXCEPT !.req[r] = q]
  <2>1. p.req = [proc[c].req EXCEPT ![r] = q]
    BY <1>1 DEF ProcState
  <2>2. proc' = [proc EXCEPT ![c] = p]
    BY <1>3 DEF SetReq
  <2>3. proc[c].req[r].stage = "names" /\ proc[c].req[r].did = d => d \in aborted'
    BY <1>3 DEF Unrecorded
  <2>4. d \in aborted => d \in aborted'
    BY <1>3
  <2>5. QED
    BY <1>1, <2>1, <2>2, <2>3, <2>4, RequestOwes
<1>4. QED
  BY <1>2, <1>3 DEF RequestFails

LEMMA SaveOwes ==
  ASSUME TypeOK, Shaped, NEW c \in Proc, NEW r \in Req, Save(c, r),
         NEW d, Owed(d), d # proc[c].req[r].did
  PROVE  Owed(d)'
<1> DEFINE q == [NoRequest EXCEPT !.stage = "over"]
           p == [[proc[c] EXCEPT !.req[r] = q] EXCEPT !.pc = "linger"]
<1>1. proc[c] \in ProcState /\ proc \in [Proc -> ProcState]
  BY DEF TypeOK
<1>2. proc' = [proc EXCEPT ![c] = p]
  BY DEF Save, Saving, SetReq
<1>3. p.req = [proc[c].req EXCEPT ![r] = q]
  BY <1>1 DEF ProcState
<1>4. d \in aborted => d \in aborted'
  BY DEF Save, Saving
<1>5. QED
  BY <1>1, <1>2, <1>3, <1>4, RequestOwes

LEMMA LogoutOwes ==
  ASSUME TypeOK, Shaped, NEW c \in Proc, Logout(c), NEW d, Owed(d), d # info.did
  PROVE  Owed(d)'
<1> DEFINE q == [Idle EXCEPT !.pc = "clear"]
<1>1. proc \in [Proc -> ProcState]
  BY DEF TypeOK
<1>2. q \in ProcState
  BY DEF Idle, ProcState, Request, NoRequest, None
<1>3. Begin(c, q) /\ (d \in aborted => d \in aborted')
  BY DEF Logout, Deleted, NotDeleted, history
<1>4. QED
  BY <1>1, <1>2, <1>3, BeginOwes

\* A logout that deletes nothing changes nothing owed.
LEMMA LogoutKeepsOwed ==
  ASSUME TypeOK, Shaped, NEW c \in Proc, Logout(c), aborted' = aborted, NEW d, Owed(d)
  PROVE  Owed(d)'
<1> DEFINE q == [Idle EXCEPT !.pc = "clear"]
<1>1. q \in ProcState
  BY DEF Idle, ProcState, Request, NoRequest, None
<1>2. proc \in [Proc -> ProcState] /\ Begin(c, q)
  BY DEF Logout, TypeOK
<1>3. QED
  BY <1>1, <1>2, BeginOwes

-----------------------------------------------------------------------------
(***************************************************************************)
(* The record against the stored tokens.                                   *)
(***************************************************************************)

\* Stated for a record by name, so that its account is a constant of the steps.
Drift ==
  \A d \in Did, p \in Port : info = [did |-> d, port |-> p] /\ session[d] \notin {None, p} =>
    Owed(d) \/ d \in crossed

\* Everybody whose tokens are stored is on record, or has a cause not to be.
Accounted ==
  \A d \in Did : session[d] # None =>
    (LoadedInfo /\ info.did = d) \/ Owed(d) \/ d \in replaced \cup crossed \cup undeleted

\* What a logout meant to delete is there only if it could not, or comes back only by
\* a crossing.
Cleared ==
  LoggingOut /\ LoadedInfo =>
    \A d \in Did : d = info.did /\ session[d] # None =>
      Owed(d) \/ d \in replaced \cup crossed \cup undeleted

RecordInv == Drift /\ Accounted /\ Cleared

\* A step that leaves the files alone, begins no logout and owes what was owed.
LEMMA SameFiles ==
  ASSUME RecordInv, UNCHANGED <<session, info>>,
         replaced \subseteq replaced', crossed \subseteq crossed',
         undeleted \subseteq undeleted', LoggingOut' => LoggingOut, \A d : Owed(d) => Owed(d)'
  PROVE  RecordInv'
<1>1. LoadedInfo' <=> LoadedInfo
  BY DEF LoadedInfo
<1>2. Drift'
  BY DEF RecordInv, Drift
<1>3. Accounted'
  BY <1>1 DEF RecordInv, Accounted
<1>4. Cleared'
  BY <1>1 DEF RecordInv, Cleared
<1>5. QED
  BY <1>2, <1>3, <1>4 DEF RecordInv

\* A step that at most takes tokens away.
LEMMA TokensLost ==
  ASSUME RecordInv, UNCHANGED <<info, replaced, crossed, undeleted>>,
         \A d \in Did : session'[d] \in {session[d], None},
         LoggingOut' => LoggingOut, \A d : Owed(d) => Owed(d)'
  PROVE  RecordInv'
<1>1. LoadedInfo' <=> LoadedInfo
  BY DEF LoadedInfo
<1>2. Drift'
  BY DEF RecordInv, Drift
<1>3. Accounted'
  BY <1>1 DEF RecordInv, Accounted
<1>4. Cleared'
  BY <1>1 DEF RecordInv, Cleared
<1>5. QED
  BY <1>2, <1>3, <1>4 DEF RecordInv

LEMMA LosingTokens ==
  ASSUME TypeOK, NEW e, UNCHANGED <<session, lost>> \/ LoseTokens(e)
  PROVE  \A d \in Did : session'[d] \in {session[d], None}
BY DEF TypeOK, LoseTokens

\* Tokens stored over other tokens: the account owes, and no other is concerned.
LEMMA TokensStored ==
  ASSUME TypeOK, RecordInv, UNCHANGED <<info, replaced, undeleted>>, crossed \subseteq crossed',
         NEW c \in Proc, NEW e, StoreTokens(c, e), Owed(e)',
         LoggingOut' => LoggingOut, \A d : Owed(d) => Owed(d)'
  PROVE  RecordInv'
<1>1. /\ \A d \in Did : d # e => session'[d] = session[d]
      /\ LoadedInfo' <=> LoadedInfo
  BY DEF StoreTokens, LoadedInfo, TypeOK
<1>2. Drift'
  BY <1>1 DEF RecordInv, Drift
<1>3. Accounted'
  BY <1>1 DEF RecordInv, Accounted
<1>4. Cleared'
  BY <1>1 DEF RecordInv, Cleared
<1>5. QED
  BY <1>2, <1>3, <1>4 DEF RecordInv

\* Who is deleting a record: a process that exits is not, and no other begins to.
LEMMA ExitLogsNobodyOut ==
  ASSUME NEW c \in Proc, proc \in [Proc -> ProcState], Exit(c)
  PROVE  LoggingOut' => LoggingOut
BY DEF LoggingOut, Exit, Idle

LEMMA StepLogsNobodyOut ==
  ASSUME NEW c \in Proc, proc \in [Proc -> ProcState], NEW p, proc' = [proc EXCEPT ![c] = p],
         p.pc # "clear"
  PROVE  LoggingOut' => LoggingOut
BY DEF LoggingOut

LEMMA BeginLogsNobodyOut ==
  ASSUME NEW c \in Proc, proc \in [Proc -> ProcState], NEW p \in ProcState, Begin(c, p),
         p.pc # "clear"
  PROVE  LoggingOut' => LoggingOut
<1>1. \A b \in Proc : proc'[b].pc = IF b = c THEN p.pc ELSE proc[b].pc
  BY DEF Begin, ProcState
<1>2. QED
  BY <1>1 DEF LoggingOut

LEMMA QuietLogsNobodyOut ==
  ASSUME TypeOK, Shaped, NEW c \in Proc, Quiet(c)
  PROVE  LoggingOut' => LoggingOut
<1>0. proc[c] \in ProcState /\ proc \in [Proc -> ProcState]
  BY DEF TypeOK
<1>1. ASSUME NEW p \in Port, StartLogin(c, p) PROVE LoggingOut' => LoggingOut
  <2> DEFINE q == [Idle EXCEPT !.pc = "authorize", !.port = p, !.token = starts + 1]
  <2>1. starts < MaxStart
    BY <1>1 DEF StartLogin, Begin
  <2>2. starts + 1 \in Token
    BY <2>1, LoopbackAssumption DEF TypeOK, Token
  <2>3. q \in ProcState /\ q.pc # "clear"
    BY <2>2 DEF Idle, ProcState, Request, NoRequest, None
  <2>4. Begin(c, q)
    BY <1>1 DEF StartLogin
  <2>5. QED
    BY <1>0, <2>3, <2>4, BeginLogsNobodyOut
<1>2. CASE StartRestore(c)
  <2> DEFINE q == [Idle EXCEPT !.pc = "refresh", !.port = info.port, !.did = info.did,
                               !.had = session[info.did]]
  <2>1. info.did \in Did /\ info.port \in Port /\ session[info.did] \in Port
    BY <1>2 DEF StartRestore, LoadedInfo, Info, TypeOK
  <2>2. q \in ProcState /\ q.pc # "clear"
    BY <2>1 DEF Idle, ProcState, Request, NoRequest, None
  <2>3. Begin(c, q)
    BY <1>2 DEF StartRestore
  <2>4. QED
    BY <1>0, <2>2, <2>3, BeginLogsNobodyOut
<1>3. CASE AuthorizeFails(c) \/ PortTaken(c) \/ CallbackRefused(c) \/ Timeout(c) \/ LoginOver(c)
  BY <1>0, <1>3, ExitLogsNobodyOut
     DEF AuthorizeFails, PortTaken, CallbackRefused, Timeout, LoginOver
<1>4. CASE Listen(c)
  <2> DEFINE p == [proc[c] EXCEPT !.pc = "listen"]
  <2>1. proc' = [proc EXCEPT ![c] = p] /\ p.pc # "clear"
    BY <1>0, <1>4 DEF Listen, ProcState
  <2>2. QED
    BY <1>0, <2>1, StepLogsNobodyOut
<1>5. ASSUME NEW r \in Req, NEW t \in tabs, NEW e \in Did, Callback(c, r, t, e)
      PROVE  LoggingOut' => LoggingOut
  <2> DEFINE p == SetReq(c, r, [stage |-> "exchange", did |-> e])
  <2>1. proc' = [proc EXCEPT ![c] = p] /\ p.pc # "clear"
    BY <1>0, <1>5 DEF Callback, SetReq, ProcState
  <2>2. QED
    BY <1>0, <2>1, StepLogsNobodyOut
<1>6. QED
  BY <1>1, <1>2, <1>3, <1>4, <1>5 DEF Quiet

LEMMA QuietKeepsRecord ==
  ASSUME TypeOK, Shaped, RecordInv, NEW c \in Proc, Quiet(c)
  PROVE  RecordInv'
BY QuietLeaves, QuietOwes, QuietLogsNobodyOut, SameFiles

LEMMA ExchangedKeepsRecord ==
  ASSUME TypeOK, Shaped, RecordInv, NEW c \in Proc, NEW r \in Req, Exchanged(c, r)
  PROVE  RecordInv'
<1>1. PICK e : e = proc[c].req[r].did
  OBVIOUS
<1>2. Owed(e)' /\ \A d : Owed(d) => Owed(d)'
  BY <1>1, ExchangedOwes
<1>3. /\ UNCHANGED <<info, replaced, undeleted>> /\ crossed \subseteq crossed'
      /\ StoreTokens(c, e)
  BY <1>1 DEF Exchanged
<1>4. LoggingOut' => LoggingOut
  <2>1. proc[c] \in ProcState /\ Shape(proc[c]) /\ proc \in [Proc -> ProcState]
    BY DEF TypeOK, Shaped
  <2> DEFINE p == SetReq(c, r, [stage |-> "names", did |-> e])
  <2>2. proc' = [proc EXCEPT ![c] = p] /\ p.pc # "clear"
    BY <1>1, <2>1 DEF Exchanged, SetReq, ProcState, Shape
  <2>3. QED
    BY <2>1, <2>2, StepLogsNobodyOut
<1>5. QED
  BY <1>2, <1>3, <1>4, TokensStored

\* The refresh inside getProfile: the login has not recorded the account yet.
LEMMA ProfileKeepsRecord ==
  ASSUME TypeOK, RecordInv, NEW c \in Proc, NEW r \in Req,
         ProfileRefreshed(c, r) \/ ProfileDrops(c, r)
  PROVE  RecordInv'
<1>1. UNCHANGED <<proc, aborted, info, replaced, undeleted>> /\ crossed \subseteq crossed'
  BY DEF ProfileRefreshed, ProfileDrops
<1>2. (LoggingOut' => LoggingOut) /\ \A d : Owed(d) => Owed(d)'
  BY <1>1 DEF LoggingOut, Owed
<1>3. CASE ProfileRefreshed(c, r)
  <2>1. PICK e : e = proc[c].req[r].did
    OBVIOUS
  <2>2. StoreTokens(c, e) /\ Owed(e)
    BY <1>3, <2>1 DEF ProfileRefreshed, Owed
  <2>3. QED
    BY <1>1, <1>2, <2>2, TokensStored
<1>4. CASE ProfileDrops(c, r)
  <2>1. LoseTokens(proc[c].req[r].did) /\ crossed' = crossed
    BY <1>4 DEF ProfileDrops
  <2>2. QED
    BY <1>1, <1>2, <2>1, LosingTokens, TokensLost
<1>5. QED
  BY <1>3, <1>4

\* The record torn: its account is displaced.
LEMMA TearKeepsRecord ==
  ASSUME TypeOK, RecordInv, Tear, UNCHANGED <<session, crossed, undeleted>>,
         \A d : Owed(d) => Owed(d)'
  PROVE  RecordInv'
<1>1. ~LoadedInfo' /\ info' = Torn
  BY NotRecords DEF Tear, LoadedInfo
<1>2. Drift'
  BY <1>1 DEF Drift, LoadedInfo, Info
<1>3. Accounted'
  BY <1>1 DEF RecordInv, Accounted, Tear, Displaced
<1>4. Cleared'
  BY <1>1 DEF Cleared
<1>5. QED
  BY <1>2, <1>3, <1>4 DEF RecordInv

LEMMA RequestFailsKeepsRecord ==
  ASSUME TypeOK, Shaped, RecordInv, NEW c \in Proc, NEW r \in Req, RequestFails(c, r)
  PROVE  RecordInv'
<1>0. proc[c] \in ProcState /\ proc \in [Proc -> ProcState]
  BY DEF TypeOK
<1>1. \A d : Owed(d) => Owed(d)'
  BY RequestFailsOwes
<1>2. crossed' = crossed /\ undeleted' = undeleted
  BY DEF RequestFails
<1>3. LoggingOut' => LoggingOut
  <2>1. CASE Exit(c)
    BY <1>0, <2>1, ExitLogsNobodyOut
  <2>2. CASE proc[c].pc = "linger"
             /\ proc' = [proc EXCEPT ![c] = SetReq(c, r, [NoRequest EXCEPT !.stage = "over"])]
    <3> DEFINE p == SetReq(c, r, [NoRequest EXCEPT !.stage = "over"])
    <3>1. p.pc # "clear"
      BY <1>0, <2>2 DEF SetReq, ProcState
    <3>2. QED
      BY <1>0, <2>2, <3>1, StepLogsNobodyOut
  <2>3. QED
    BY <2>1, <2>2 DEF RequestFails
<1>4. CASE /\ UNCHANGED <<session, lost>> \/ LoseTokens(proc[c].req[r].did)
           /\ UNCHANGED <<info, replaced>>
  BY <1>1, <1>2, <1>3, <1>4, LosingTokens, TokensLost
<1>5. CASE Tear /\ UNCHANGED session
  BY <1>1, <1>2, <1>5, TearKeepsRecord
<1>6. QED
  BY <1>4, <1>5 DEF RequestFails

\* The account that is recorded is owed nothing unless its tokens are not its own
\* any more; whom it puts out is displaced.
LEMMA SaveKeepsRecord ==
  ASSUME TypeOK, Shaped, RecordInv, NEW c \in Proc, NEW r \in Req, Save(c, r)
  PROVE  RecordInv'
<1>1. PICK e : e = proc[c].req[r].did
  OBVIOUS
<1>2. PICK n : n = proc[c].port
  OBVIOUS
<1>3. e \in Did /\ n \in Port /\ proc[c].pc \in {"listen", "linger"}
  BY <1>1, <1>2 DEF Save, Saving, Shaped, Shape
<1>4. \A d : d # e /\ Owed(d) => Owed(d)'
  BY <1>1, SaveOwes
<1>5. /\ info' = [did |-> e, port |-> n] /\ session' = session
      /\ replaced' = (replaced \cup Displaced) \ {e}
      /\ crossed' = IF session[e] \in {None, n} /\ ~LoggingOut
                    THEN crossed \ {e} ELSE crossed \cup {e}
      /\ undeleted' = undeleted \ {e}
  BY <1>1, <1>2 DEF Save, Saving
<1>6. LoadedInfo'
  BY <1>3, <1>5 DEF LoadedInfo, Info
<1>7. LoggingOut' => LoggingOut
  <2>1. proc[c] \in ProcState /\ proc \in [Proc -> ProcState]
    BY DEF TypeOK
  <2> DEFINE p == [SetReq(c, r, [NoRequest EXCEPT !.stage = "over"]) EXCEPT !.pc = "linger"]
  <2>2. proc' = [proc EXCEPT ![c] = p] /\ p.pc # "clear"
    BY <2>1 DEF Save, Saving, SetReq, ProcState
  <2>3. QED
    BY <2>1, <2>2, StepLogsNobodyOut
<1>8. Drift'
  <2>1. SUFFICES ASSUME NEW d \in Did, NEW p \in Port, info' = [did |-> d, port |-> p],
                        session'[d] \notin {None, p}
                 PROVE  d \in crossed'
    BY DEF Drift
  <2>2. d = e /\ p = n
    BY <1>5, <2>1
  <2>3. QED
    BY <1>5, <2>1, <2>2
<1>9. Accounted'
  <2>1. SUFFICES ASSUME NEW d \in Did, session'[d] # None, d # e
                 PROVE  Owed(d)' \/ d \in replaced' \cup crossed' \cup undeleted'
    BY <1>5, <1>6 DEF Accounted
  <2>2. (LoadedInfo /\ info.did = d) \/ Owed(d) \/ d \in replaced \cup crossed \cup undeleted
    BY <1>5, <2>1 DEF RecordInv, Accounted
  <2>3. QED
    BY <1>4, <1>5, <2>1, <2>2 DEF Displaced
<1>10. Cleared'
  BY <1>5, <1>7 DEF Cleared
<1>11. QED
  BY <1>8, <1>9, <1>10 DEF RecordInv

\* A refresh gives back what was there, or has crossed over it.
LEMMA RefreshedKeepsRecord ==
  ASSUME TypeOK, Shaped, RecordInv, NEW c \in Proc, Refreshed(c)
  PROVE  RecordInv'
<1>0. proc[c] \in ProcState /\ proc \in [Proc -> ProcState] /\ Shape(proc[c])
  BY DEF TypeOK, Shaped
<1>1. PICK e : e = proc[c].did
  OBVIOUS
<1>2. PICK n : n = proc[c].port
  OBVIOUS
<1>3. e \in Did /\ n \in Port /\ proc[c].had = n
  BY <1>0, <1>1, <1>2 DEF Refreshed, Shape
<1>4. /\ UNCHANGED <<info, replaced, undeleted>> /\ session' = [session EXCEPT ![e] = n]
      /\ crossed' = IF session[e] = n THEN crossed ELSE crossed \cup {e}
      /\ Exit(c)
  BY <1>1, <1>2, <1>3 DEF Refreshed, StoreTokens
<1>5. \A d : Owed(d) => Owed(d)'
  BY <1>0, <1>4, ExitOwes
<1>6. LoggingOut' => LoggingOut
  BY <1>0, <1>4, ExitLogsNobodyOut
<1>7. (LoadedInfo' <=> LoadedInfo) /\ n # None
  BY <1>3, <1>4, LoopbackAssumption DEF LoadedInfo, None
<1>8. \A d \in Did : session'[d] = session[d] \/ d \in crossed'
  BY <1>3, <1>4 DEF TypeOK
<1>9. Drift'
  BY <1>4, <1>5, <1>8 DEF RecordInv, Drift
<1>10. Accounted'
  BY <1>4, <1>5, <1>7, <1>8 DEF RecordInv, Accounted
<1>11. Cleared'
  BY <1>4, <1>5, <1>6, <1>7, <1>8 DEF RecordInv, Cleared
<1>12. QED
  BY <1>9, <1>10, <1>11 DEF RecordInv

LEMMA RefreshFailsKeepsRecord ==
  ASSUME TypeOK, RecordInv, NEW c \in Proc, RefreshFails(c)
  PROVE  RecordInv'
<1>1. /\ proc \in [Proc -> ProcState] /\ Exit(c)
      /\ UNCHANGED <<info, replaced, crossed, undeleted>>
      /\ UNCHANGED <<session, lost>> \/ LoseTokens(proc[c].did)
  BY DEF TypeOK, RefreshFails
<1>2. (LoggingOut' => LoggingOut) /\ \A d : Owed(d) => Owed(d)'
  BY <1>1, ExitOwes, ExitLogsNobodyOut
<1>3. QED
  BY <1>1, <1>2, LosingTokens, TokensLost

\* A logout deletes the tokens of the account on record, whatever it was blamed for,
\* or is itself to blame for them.
LEMMA LogoutKeepsRecord ==
  ASSUME TypeOK, Shaped, RecordInv, NEW c \in Proc, Logout(c)
  PROVE  RecordInv'
<1>1. PICK e : e = info.did
  OBVIOUS
<1>2. info' = info /\ (LoadedInfo' <=> LoadedInfo)
  BY DEF Logout, LoadedInfo
<1>3. \A d : d # e /\ Owed(d) => Owed(d)'
  BY <1>1, LogoutOwes
<1>4. CASE LoadedInfo /\ Deleted(e)
  <2>1. /\ replaced' = replaced \ {e} /\ crossed' = crossed \ {e}
        /\ undeleted' = undeleted \ {e}
        /\ session' = [session EXCEPT ![e] = None]
    BY <1>4 DEF Deleted
  <2>2. \A d \in Did : session'[d] = IF d = e THEN None ELSE session[d]
    BY <2>1 DEF TypeOK
  <2>3. Drift'
    BY <1>1, <1>2, <2>2 DEF Drift
  <2>4. Accounted'
    BY <1>1, <1>2, <1>3, <2>1, <2>2 DEF RecordInv, Accounted
  <2>5. Cleared'
    BY <1>1, <1>2, <2>2 DEF Cleared
  <2>6. QED
    BY <2>3, <2>4, <2>5 DEF RecordInv
<1>5. CASE LoadedInfo /\ NotDeleted(e)
  <2>1. UNCHANGED <<session, aborted, replaced, crossed>> /\ undeleted' = undeleted \cup {e}
    BY <1>5 DEF NotDeleted
  <2>2. \A d : Owed(d) => Owed(d)'
    BY <2>1, LogoutKeepsOwed
  <2>3. Drift'
    BY <1>2, <2>1, <2>2 DEF RecordInv, Drift
  <2>4. Accounted'
    BY <1>2, <2>1, <2>2 DEF RecordInv, Accounted
  <2>5. Cleared'
    BY <1>1, <1>2, <2>1 DEF Cleared
  <2>6. QED
    BY <2>3, <2>4, <2>5 DEF RecordInv
<1>6. CASE ~LoadedInfo /\ UNCHANGED <<session, history>>
  <2>1. UNCHANGED <<session, aborted, replaced, crossed, undeleted>>
    BY <1>6 DEF history
  <2>2. \A d : Owed(d) => Owed(d)'
    BY <2>1, LogoutKeepsOwed
  <2>3. Drift'
    BY <1>2, <2>1, <2>2 DEF RecordInv, Drift
  <2>4. Accounted'
    BY <1>2, <2>1, <2>2 DEF RecordInv, Accounted
  <2>5. Cleared'
    BY <1>2, <1>6 DEF Cleared
  <2>6. QED
    BY <2>3, <2>4, <2>5 DEF RecordInv
<1>7. QED
  BY <1>1, <1>4, <1>5, <1>6 DEF Logout

\* The record goes, or could not be removed; what it left behind is accounted for since
\* the logout began.
LEMMA ClearInfoKeepsRecord ==
  ASSUME TypeOK, RecordInv, NEW c \in Proc, ClearInfo(c)
  PROVE  RecordInv'
<1>1. /\ proc \in [Proc -> ProcState] /\ Exit(c) /\ info' \in {Nobody, info}
      /\ UNCHANGED <<session, replaced, crossed, undeleted>> /\ LoggingOut
  BY DEF TypeOK, ClearInfo, LoggingOut
<1>2. \A d : Owed(d) => Owed(d)'
  BY <1>1, ExitOwes
<1>3. CASE info' = info
  BY <1>1, <1>2, <1>3, ExitLogsNobodyOut, SameFiles
<1>4. CASE info' = Nobody
  <2>1. ~LoadedInfo' /\ info' \notin Info
    BY <1>4, NotRecords DEF LoadedInfo
  <2>2. Drift'
    BY <2>1 DEF Drift, Info
  <2>3. Accounted'
    BY <1>1, <1>2 DEF RecordInv, Accounted, Cleared
  <2>4. Cleared'
    BY <2>1 DEF Cleared
  <2>5. QED
    BY <2>2, <2>3, <2>4 DEF RecordInv
<1>5. QED
  BY <1>1, <1>3, <1>4

LEMMA KillKeepsRecord ==
  ASSUME TypeOK, RecordInv, NEW c \in Proc, Kill(c)
  PROVE  RecordInv'
<1>1. proc \in [Proc -> ProcState] /\ Exit(c) /\ UNCHANGED <<crossed, undeleted>>
  BY DEF TypeOK, Kill
<1>2. (LoggingOut' => LoggingOut) /\ \A d : Owed(d) => Owed(d)'
  BY <1>1, ExitOwes, ExitLogsNobodyOut
<1>3. CASE Tear /\ UNCHANGED session
  BY <1>1, <1>2, <1>3, TearKeepsRecord
<1>4. CASE UNCHANGED <<session, info, replaced>>
  BY <1>1, <1>2, <1>4, SameFiles
<1>5. ASSUME NEW e, LoseTokens(e), UNCHANGED <<info, replaced>> PROVE RecordInv'
  BY <1>1, <1>2, <1>5, LosingTokens, TokensLost
<1>6. QED
  BY <1>3, <1>4, <1>5 DEF Kill

LEMMA RecordKept == Spec => []RecordInv
<1>1. Init => RecordInv
  <2>1. Init => /\ info = Nobody /\ ~LoadedInfo /\ info \notin Info
                /\ \A d \in Did : session[d] = None
    BY NotRecords DEF Init, LoadedInfo
  <2>2. QED
    BY <2>1 DEF RecordInv, Drift, Accounted, Cleared, Info
<1>2. TypeOK /\ Shaped /\ RecordInv /\ [Next]_vars => RecordInv'
  <2>1. SUFFICES ASSUME TypeOK, Shaped, RecordInv, [Next]_vars PROVE RecordInv'
    OBVIOUS
  <2>2. CASE Next
    <3>1. PICK c \in Proc :
            \/ Quiet(c)
            \/ \E r \in Req : \/ Exchanged(c, r) \/ RequestFails(c, r) \/ Save(c, r)
                            \/ ProfileRefreshed(c, r) \/ ProfileDrops(c, r)
            \/ Refreshed(c) \/ RefreshFails(c)
            \/ Logout(c) \/ ClearInfo(c) \/ Kill(c)
      BY <2>2 DEF Next, Quiet
    <3>2. QED
      BY <2>1, <3>1, QuietKeepsRecord, ExchangedKeepsRecord, RequestFailsKeepsRecord,
         SaveKeepsRecord, ProfileKeepsRecord, RefreshedKeepsRecord, RefreshFailsKeepsRecord,
         LogoutKeepsRecord, ClearInfoKeepsRecord, KillKeepsRecord
  <2>3. CASE UNCHANGED vars
    <3>1. \A d : Owed(d) => Owed(d)'
      BY <2>3 DEF vars, Owed
    <3>2. LoggingOut' => LoggingOut
      BY <2>3 DEF vars, LoggingOut
    <3>3. QED
      BY <2>1, <2>3, <3>1, <3>2, SameFiles DEF vars
  <2>4. QED
    BY <2>1, <2>2, <2>3
<1>3. QED
  BY <1>1, <1>2, TypesAndShapes, PTL DEF Spec

\* The recorded port is the port the recorded account's tokens were issued under, but
\* for a login between its two files, one that ended there, and two commands that crossed.
THEOREM RecordedPortsMatch == Spec => []PortDriftHasACause
<1>1. TypeOK /\ RecordInv => PortDriftHasACause
  <2>1. SUFFICES ASSUME TypeOK, RecordInv, LoadedInfo,
                        session[info.did] \notin {None, info.port}
                 PROVE  Owed(info.did) \/ info.did \in crossed
    BY OwedIs DEF PortDriftHasACause
  <2>2. info.did \in Did /\ info.port \in Port
        /\ info = [did |-> info.did, port |-> info.port]
    BY <2>1 DEF LoadedInfo, Info
  <2>3. QED
    BY <2>1, <2>2 DEF RecordInv, Drift
<1>2. QED
  BY <1>1, TypesAndShapes, RecordKept, PTL

\* With nobody logged in, an account's tokens are left only where a login displaced it
\* or ended early, where two commands crossed, or where a logout could not delete them.
THEOREM LogoutsLeaveNoTokens == Spec => []LoggedOutLeavesNoTokens
<1>1. RecordInv => LoggedOutLeavesNoTokens
  <2>1. SUFFICES ASSUME RecordInv, info = Nobody, NEW d \in Did, session[d] # None
                 PROVE  Owed(d) \/ d \in replaced \cup crossed \cup undeleted
    BY OwedIs DEF LoggedOutLeavesNoTokens
  <2>2. ~LoadedInfo
    BY <2>1, NotRecords DEF LoadedInfo
  <2>3. QED
    BY <2>1, <2>2 DEF RecordInv, Accounted
<1>2. QED
  BY <1>1, RecordKept, PTL

-----------------------------------------------------------------------------
(***************************************************************************)
(* A login by itself.                                                      *)
(***************************************************************************)

\* The record a finished login of process p leaves.
OnRecord(p) ==
  \/ info = Torn
  \/ /\ LoadedInfo /\ info.port = p.port
     /\ session[info.did] = info.port \/ info.did \in lost

\* What p has stored is there still or was lost, and once it has succeeded it is on record.
Alone(p) ==
  /\ \A r \in Req : p.req[r].stage = "names" =>
       session[p.req[r].did] = p.port \/ p.req[r].did \in lost
  /\ p.pc = "linger" => OnRecord(p)

AloneInv ==
  \A c \in Proc : proc[c].alone /\ proc[c].pc # "idle" =>
    Alone(proc[c]) /\ \A b \in Proc \ {c} : proc[b].pc = "idle"

LEMMA BeginKeepsAlone ==
  ASSUME TypeOK, NEW c \in Proc, NEW p \in ProcState, Shape(p), Begin(c, p),
         p.pc \notin {"listen", "linger"}
  PROVE  AloneInv'
<1>1. \A b \in Proc : b # c => proc'[b].alone = FALSE /\ proc'[b].pc = proc[b].pc
  BY DEF Begin, TypeOK, ProcState
<1>2. /\ proc'[c].pc = p.pc /\ proc'[c].req = p.req
      /\ proc'[c].alone <=> \A a \in Proc \ {c} : proc[a].pc = "idle"
  BY DEF Begin, ProcState
<1>3. \A r \in Req : proc'[c].req[r].stage # "names"
  BY <1>2 DEF Shape
<1>4. QED
  BY <1>1, <1>2, <1>3 DEF AloneInv, Alone

\* When a process that is not idle moves, nobody else is alone.
LEMMA MoveKeepsAlone ==
  ASSUME TypeOK, AloneInv, NEW c \in Proc, proc[c].pc # "idle", NEW p \in ProcState,
         proc' = [proc EXCEPT ![c] = p],
         p.pc = "idle" \/ (p.alone => proc[c].alone /\ Alone(proc[c])')
  PROVE  AloneInv'
<1>1. \A b \in Proc : b # c => proc'[b] = proc[b] /\ ~(proc[b].alone /\ proc[b].pc # "idle")
  BY DEF AloneInv, TypeOK
<1>2. QED
  BY <1>1 DEF AloneInv, TypeOK

LEMMA CommandKeepsAlone ==
  ASSUME TypeOK, NEW c \in Proc,
         (\E p \in Port : StartLogin(c, p)) \/ StartRestore(c) \/ Logout(c)
  PROVE  AloneInv'
<1>1. ASSUME NEW p \in Port, StartLogin(c, p) PROVE AloneInv'
  <2> DEFINE q == [Idle EXCEPT !.pc = "authorize", !.port = p, !.token = starts + 1]
  <2>1. starts < MaxStart
    BY <1>1 DEF StartLogin, Begin
  <2>2. starts + 1 \in Token
    BY <2>1, LoopbackAssumption DEF TypeOK, Token
  <2>3. q \in ProcState /\ Shape(q) /\ q.pc = "authorize"
    BY <2>2 DEF Idle, ProcState, Shape, Request, NoRequest, None
  <2>4. Begin(c, q)
    BY <1>1 DEF StartLogin
  <2>5. QED
    BY <2>3, <2>4, BeginKeepsAlone
<1>2. CASE StartRestore(c)
  <2> DEFINE q == [Idle EXCEPT !.pc = "refresh", !.port = info.port, !.did = info.did,
                               !.had = session[info.did]]
  <2>1. info.did \in Did /\ info.port \in Port /\ session[info.did] \in Port
    BY <1>2 DEF StartRestore, LoadedInfo, Info, TypeOK
  <2>2. q \in ProcState /\ Shape(q) /\ q.pc = "refresh"
    BY <2>1 DEF Idle, ProcState, Shape, Request, NoRequest, None
  <2>3. Begin(c, q)
    BY <1>2 DEF StartRestore
  <2>4. QED
    BY <2>2, <2>3, BeginKeepsAlone
<1>3. CASE Logout(c)
  <2> DEFINE q == [Idle EXCEPT !.pc = "clear"]
  <2>1. q \in ProcState /\ Shape(q) /\ q.pc = "clear"
    BY DEF Idle, ProcState, Shape, Request, NoRequest, None
  <2>2. Begin(c, q)
    BY <1>3 DEF Logout
  <2>3. QED
    BY <2>1, <2>2, BeginKeepsAlone
<1>4. QED
  BY <1>1, <1>2, <1>3

\* A process that exits is alone no more.
LEMMA ExitKeepsAlone ==
  ASSUME TypeOK, AloneInv, NEW c \in Proc, proc[c].pc # "idle", Exit(c)
  PROVE  AloneInv'
<1>1. Idle \in ProcState /\ Idle.pc = "idle"
  BY IdleIsShaped DEF Idle
<1>2. QED
  BY <1>1, MoveKeepsAlone DEF Exit

LEMMA ExitsKeepAlone ==
  ASSUME TypeOK, AloneInv, NEW c \in Proc,
         \/ AuthorizeFails(c) \/ PortTaken(c) \/ CallbackRefused(c) \/ Timeout(c)
         \/ LoginOver(c) \/ Refreshed(c) \/ RefreshFails(c) \/ ClearInfo(c) \/ Kill(c)
  PROVE  AloneInv'
<1>1. proc[c].pc # "idle" /\ Exit(c)
  BY DEF AuthorizeFails, PortTaken, CallbackRefused, Timeout, LoginOver, Refreshed,
         RefreshFails, ClearInfo, Kill
<1>2. QED
  BY <1>1, ExitKeepsAlone

LEMMA ListenKeepsAlone ==
  ASSUME TypeOK, AloneInv, NEW c \in Proc, Listen(c)
  PROVE  AloneInv'
<1> DEFINE p == [proc[c] EXCEPT !.pc = "listen"]
<1>1. proc[c] \in ProcState /\ proc[c].pc = "authorize"
  BY DEF TypeOK, Listen
<1>2. p \in ProcState /\ p.pc = "listen" /\ p.alone = proc[c].alone
      /\ p.req = proc[c].req /\ p.port = proc[c].port
  BY <1>1 DEF ProcState
<1>3. proc' = [proc EXCEPT ![c] = p] /\ proc'[c] = p /\ session' = session /\ lost' = lost
  BY <1>1 DEF Listen, TypeOK, history
<1>4. p.alone => Alone(proc[c])'
  BY <1>1, <1>2, <1>3 DEF AloneInv, Alone
<1>5. QED
  BY <1>1, <1>2, <1>3, <1>4, MoveKeepsAlone

LEMMA RequestKeepsAlone ==
  ASSUME TypeOK, Shaped, AloneInv, NEW c \in Proc, NEW r \in Req,
         \/ \E t \in tabs, d \in Did : Callback(c, r, t, d)
         \/ Exchanged(c, r) \/ RequestFails(c, r) \/ Save(c, r)
         \/ ProfileRefreshed(c, r) \/ ProfileDrops(c, r)
  PROVE  AloneInv'
<1>0. proc[c] \in ProcState /\ Shape(proc[c])
  BY DEF TypeOK, Shaped
<1>1. ASSUME NEW t \in tabs, NEW d \in Did, Callback(c, r, t, d) PROVE AloneInv'
  <2> DEFINE q == [stage |-> "exchange", did |-> d]
             p == [proc[c] EXCEPT !.req[r] = q]
  <2>1. p \in ProcState
    BY <1>0, <1>1, RequestTypes DEF Callback, Request
  <2>2. p.pc = "listen" /\ proc[c].pc = "listen" /\ p.alone = proc[c].alone
        /\ p.req = [proc[c].req EXCEPT ![r] = q] /\ p.port = proc[c].port
    BY <1>0, <1>1 DEF Callback, ProcState
  <2>3. proc' = [proc EXCEPT ![c] = p] /\ proc'[c] = p /\ session' = session /\ lost' = lost
    BY <1>1 DEF Callback, SetReq, TypeOK, history
  <2>4. p.alone => Alone(proc[c])'
    BY <1>0, <2>2, <2>3 DEF AloneInv, Alone, ProcState
  <2>5. QED
    BY <2>1, <2>2, <2>3, <2>4, MoveKeepsAlone
<1>2. CASE Exchanged(c, r)
  <2> DEFINE d == proc[c].req[r].did
             q == [stage |-> "names", did |-> d]
             p == [proc[c] EXCEPT !.req[r] = q]
  <2>1. d \in Did /\ proc[c].pc \in {"listen", "linger"}
    BY <1>0, <1>2 DEF Exchanged, Shape
  <2>2. p \in ProcState
    BY <1>0, <2>1, RequestTypes DEF Request
  <2>3. p.pc = proc[c].pc /\ p.alone = proc[c].alone
        /\ p.req = [proc[c].req EXCEPT ![r] = q] /\ p.port = proc[c].port
    BY <1>0 DEF ProcState
  <2>4. /\ proc' = [proc EXCEPT ![c] = p] /\ proc'[c] = p /\ info' = info
        /\ session' = [session EXCEPT ![d] = p.port] /\ lost' = lost \ {d}
    BY <1>2, <2>3 DEF Exchanged, StoreTokens, SetReq, TypeOK
  <2>5. /\ \A e \in Did : session'[e] = IF e = d THEN p.port ELSE session[e]
        /\ LoadedInfo => info.did \in Did
        /\ LoadedInfo' <=> LoadedInfo
    BY <2>4 DEF TypeOK, LoadedInfo, Info
  <2>6. ASSUME p.alone PROVE Alone(proc[c])'
    <3>1. Alone(proc[c])
      BY <2>1, <2>3, <2>6 DEF AloneInv
    <3>2. ASSUME NEW s \in Req, p.req[s].stage = "names"
          PROVE  session'[p.req[s].did] = p.port \/ p.req[s].did \in lost'
      <4>1. CASE s = r
        BY <1>0, <2>1, <2>3, <2>5, <4>1 DEF ProcState
      <4>2. CASE s # r
        <5>1. p.req[s] = proc[c].req[s]
          BY <1>0, <2>3, <4>2 DEF ProcState
        <5>2. p.req[s].did \in Did
              /\ (session[p.req[s].did] = p.port \/ p.req[s].did \in lost)
          BY <1>0, <2>3, <3>1, <3>2, <5>1 DEF Alone, Shape
        <5>3. QED
          BY <2>4, <2>5, <5>2
      <4>3. QED
        BY <4>1, <4>2
    <3>3. p.pc = "linger" => OnRecord(proc[c])'
      BY <2>3, <2>4, <2>5, <3>1 DEF Alone, OnRecord
    <3>4. QED
      BY <2>4, <3>2, <3>3 DEF Alone
  <2>7. QED
    BY <2>1, <2>2, <2>4, <2>3, <2>6, MoveKeepsAlone
<1>3. CASE RequestFails(c, r)
  <2>1. proc[c].pc \in {"listen", "linger"}
    BY <1>0, <1>3 DEF RequestFails, Shape
  <2>2. CASE Exit(c)
    BY <2>1, <2>2, ExitKeepsAlone
  <2>3. CASE /\ proc[c].pc = "linger"
             /\ proc' = [proc EXCEPT ![c] = SetReq(c, r, [NoRequest EXCEPT !.stage = "over"])]
    <3> DEFINE q == [NoRequest EXCEPT !.stage = "over"]
               p == [proc[c] EXCEPT !.req[r] = q]
    <3>1. q \in Request /\ q.stage = "over"
      BY DEF Request, NoRequest
    <3>2. p \in ProcState
      BY <1>0, <2>3, <3>1, RequestTypes
    <3>3. p.pc = proc[c].pc /\ p.alone = proc[c].alone
          /\ p.req = [proc[c].req EXCEPT ![r] = q] /\ p.port = proc[c].port
      BY <1>0 DEF ProcState
    <3>4. /\ proc' = [proc EXCEPT ![c] = p] /\ proc'[c] = p /\ info' \in {info, Torn}
          /\ UNCHANGED <<session, lost>> \/ LoseTokens(proc[c].req[r].did)
      BY <1>3, <2>3 DEF RequestFails, Tear, SetReq, TypeOK
    <3>5. p.alone => Alone(proc[c])
      BY <2>3, <3>3 DEF AloneInv
    <3>6. \A d \in Did : \/ session'[d] = session[d] /\ (d \in lost => d \in lost')
                        \/ d \in lost'
      BY <3>4 DEF LoseTokens, TypeOK
    <3>7. \A s \in Req : p.req[s].stage = "names" => p.req[s] = proc[c].req[s]
                        /\ p.req[s].did \in Did
      BY <1>0, <3>1, <3>3 DEF Shape, ProcState
    <3>8. ASSUME p.alone, NEW s \in Req, p.req[s].stage = "names"
          PROVE  session'[p.req[s].did] = p.port \/ p.req[s].did \in lost'
      BY <3>3, <3>5, <3>6, <3>7, <3>8 DEF Alone
    <3>9. p.alone => OnRecord(proc[c])'
      <4>1. SUFFICES ASSUME p.alone, info # Torn, info' # Torn PROVE OnRecord(proc[c])'
        BY <3>4 DEF OnRecord
      <4>2. LoadedInfo /\ info' = info /\ LoadedInfo'
            /\ info.port = proc[c].port
            /\ (session[info.did] = info.port \/ info.did \in lost)
        BY <2>3, <3>4, <3>5, <4>1 DEF Alone, OnRecord, LoadedInfo
      <4>3. info.did \in Did
        BY <4>2 DEF LoadedInfo, Info
      <4>4. QED
        BY <3>3, <3>4, <3>6, <4>2, <4>3 DEF OnRecord
    <3>10. p.alone => Alone(proc[c])'
      BY <3>3, <3>4, <3>8, <3>9 DEF Alone
    <3>11. QED
      BY <2>1, <3>2, <3>3, <3>4, <3>10, MoveKeepsAlone
  <2>4. QED
    BY <1>3, <2>2, <2>3 DEF RequestFails
<1>4. CASE Save(c, r)
  <2> DEFINE q == [NoRequest EXCEPT !.stage = "over"]
             p == [[proc[c] EXCEPT !.req[r] = q] EXCEPT !.pc = "linger"]
             d == proc[c].req[r].did
  <2>1. q \in Request /\ q.stage = "over"
    BY DEF Request, NoRequest
  <2>2. d \in Did /\ proc[c].pc \in {"listen", "linger"} /\ proc[c].port \in Port
        /\ proc[c].req[r].stage = "names"
    BY <1>0, <1>4 DEF Save, Saving, Shape
  <2>3. p \in ProcState
    BY <1>0, <2>1, <2>2, RequestTypes
  <2>4. p.pc = "linger" /\ p.alone = proc[c].alone
        /\ p.req = [proc[c].req EXCEPT ![r] = q] /\ p.port = proc[c].port
    BY <1>0 DEF ProcState
  <2>5. proc' = [proc EXCEPT ![c] = p] /\ proc'[c] = p /\ session' = session /\ lost' = lost
        /\ info' = [did |-> d, port |-> p.port]
    BY <1>4, <2>4 DEF Save, Saving, SetReq, TypeOK
  <2>6. p.alone => Alone(proc[c])
    BY <2>2, <2>4 DEF AloneInv
  <2>7. LoadedInfo'
    BY <2>2, <2>4, <2>5 DEF LoadedInfo, Info
  <2>8. p.alone => OnRecord(proc[c])'
    BY <2>2, <2>4, <2>5, <2>6, <2>7 DEF Alone, OnRecord
  <2>9. p.alone => Alone(proc[c])'
    BY <1>0, <2>1, <2>4, <2>5, <2>6, <2>8 DEF Alone, ProcState
  <2>10. QED
    BY <2>2, <2>3, <2>4, <2>5, <2>9, MoveKeepsAlone
<1>5. CASE ProfileRefreshed(c, r) \/ ProfileDrops(c, r)
  <2> DEFINE d == proc[c].req[r].did
             n == proc[c].port
  <2>1. /\ proc' = proc /\ info' = info /\ proc[c].req[r].stage = "names"
        /\ \/ session' = [session EXCEPT ![d] = n] /\ lost' = lost \ {d}
           \/ session' = [session EXCEPT ![d] = None] /\ lost' = lost \cup {d}
    BY <1>5 DEF ProfileRefreshed, ProfileDrops, StoreTokens, LoseTokens
  <2>2. proc[c].pc # "idle"
    BY <1>0, <2>1 DEF Shape
  <2>3. \A e \in Did : IF e = d THEN session'[e] = n \/ e \in lost'
                      ELSE session'[e] = session[e] /\ (e \in lost <=> e \in lost')
    BY <2>1 DEF TypeOK
  <2> HIDE DEF d, n
  <2>4. (LoadedInfo' <=> LoadedInfo) /\ (LoadedInfo => info.did \in Did)
    BY <2>1 DEF LoadedInfo, Info
  <2>5. ASSUME proc[c].alone PROVE Alone(proc[c])'
    <3>1. Alone(proc[c]) /\ n = proc[c].port
      BY <2>2, <2>5 DEF AloneInv, n
    <3>2. \A s \in Req : proc[c].req[s].stage = "names" =>
            session'[proc[c].req[s].did] = n \/ proc[c].req[s].did \in lost'
      BY <1>0, <2>3, <3>1 DEF Alone, Shape
    <3>3. proc[c].pc = "linger" => OnRecord(proc[c])'
      BY <2>1, <2>3, <2>4, <3>1 DEF Alone, OnRecord
    <3>4. QED
      BY <2>1, <3>1, <3>2, <3>3 DEF Alone
  <2>6. QED
    BY <2>1, <2>2, <2>5 DEF AloneInv
<1>6. QED
  BY <1>1, <1>2, <1>3, <1>4, <1>5

LEMMA AloneKept == Spec => []AloneInv
<1>1. Init => AloneInv
  BY DEF Init, AloneInv, Idle
<1>2. TypeOK /\ Shaped /\ AloneInv /\ [Next]_vars => AloneInv'
  <2>1. SUFFICES ASSUME TypeOK, Shaped, AloneInv, [Next]_vars PROVE AloneInv'
    OBVIOUS
  <2>2. CASE Next
    BY <2>1, <2>2, CommandKeepsAlone, ExitsKeepAlone, ListenKeepsAlone, RequestKeepsAlone
       DEF Next
  <2>3. CASE UNCHANGED vars
    BY <2>1, <2>3 DEF vars, AloneInv, Alone, OnRecord, LoadedInfo
  <2>4. QED
    BY <2>1, <2>2, <2>3
<1>3. QED
  BY <1>1, <1>2, TypesAndShapes, PTL DEF Spec

\* A login that ran by itself and succeeded ends with its account on record under the
\* port its tokens are stored under, unless session.json was torn by a later page, or
\* a failed write or the refresh inside getProfile took the tokens.
THEOREM SuccessesAreOnRecord == Spec => SuccessIsOnRecord
<1>1. AloneInv => [\A c \in Proc : LoginOver(c) /\ proc[c].alone =>
                     \/ /\ LoadedInfo /\ info.port = proc[c].port
                        /\ session[info.did] = info.port \/ info.did \in lost
                     \/ info = Torn]_vars
  BY DEF AloneInv, Alone, OnRecord, LoginOver
<1>2. QED
  BY <1>1, AloneKept, PTL DEF SuccessIsOnRecord
=============================================================================
