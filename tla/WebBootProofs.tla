--------------------------- MODULE WebBootProofs ----------------------------
(***************************************************************************)
(* Proofs about WebBoot, for any servers, files, addresses and bounds:     *)
(* types, that a key outlives the starts that find it, that servers fork   *)
(* only by an overlap or the operator, and why a start by itself fails.    *)
(***************************************************************************)
EXTENDS WebBoot, SequenceTheorems, TLAPS

(***************************************************************************)
(* How far a start has come.                                               *)
(***************************************************************************)
Shape(q) ==
  /\ Len(q.loaded) <= Len(q.files)
  /\ q.pc \in {"load", "mint", "write"} => Len(q.loaded) < Len(q.files)
  /\ q.pc = "failed" /\ q.why \in {"short", "missing"} => Len(q.loaded) < Len(q.files)
  /\ q.pc \in {"bind", "serving"} => Len(q.loaded) = Len(q.files)
  /\ q.pc # "down" => q.start \in Key

Shaped == \A s \in Server : Shape(server[s])

\* The file a start is at.
At(q) == q.files[Len(q.loaded) + 1]

LEMMA Lengths ==
  ASSUME NEW q \in ServerState
  PROVE  /\ Len(q.loaded) \in Nat /\ Len(q.files) \in Nat
         /\ q.loaded \in Seq(Key) /\ q.files \in Seq(File)
<1>1. q.loaded \in Seq(Key) /\ q.files \in Seq(File)
  BY DEF ServerState
<1>2. QED
  BY <1>1

LEMMA AtIsFile ==
  ASSUME NEW q \in ServerState, Len(q.loaded) < Len(q.files)
  PROVE  At(q) \in File /\ Len(q.loaded) + 1 \in 1 .. Len(q.files)
BY Lengths DEF At

\* One more key.
LEMMA Appended ==
  ASSUME NEW q \in Seq(Key), NEW x \in Key
  PROVE  /\ Append(q, x) \in Seq(Key) /\ Len(Append(q, x)) = Len(q) + 1
         /\ \A i \in 1 .. Len(q) : Append(q, x)[i] = q[i]
         /\ Append(q, x)[Len(q) + 1] = x
BY AppendProperties

LEMMA DownIsShaped == Down \in ServerState /\ Shape(Down)
<1>1. <<>> \in Seq(File) /\ <<>> \in Seq(Key) /\ 0 \in 0 .. MaxStart /\ Len(<<>>) = 0
  BY WebBootAssumption
<1>2. Down \in ServerState
  BY <1>1 DEF Down, ServerState
<1>3. Down.loaded = <<>> /\ Down.files = <<>> /\ Down.pc = "down"
  BY DEF Down
<1>4. Shape(Down)
  BY <1>1, <1>3 DEF Shape
<1>5. QED
  BY <1>2, <1>4

-----------------------------------------------------------------------------
(***************************************************************************)
(* What a step does to its server.                                         *)
(***************************************************************************)

Moves(s, q) == server' = [server EXCEPT ![s] = q]

LEMMA OneMoves ==
  ASSUME server \in [Server -> ServerState], Shaped, NEW s \in Server,
         NEW q \in ServerState, Shape(q), Moves(s, q)
  PROVE  server' \in [Server -> ServerState] /\ Shaped'
BY DEF Moves, Shaped

LEMMA FailMoves ==
  ASSUME server \in [Server -> ServerState], Shaped, NEW s \in Server,
         NEW why \in {"dir", "short", "missing", "io", "address"}, Fail(s, why),
         \/ server[s].pc \in {"load", "mint", "write"}
         \/ why = "address" /\ server[s].pc = "bind"
  PROVE  /\ server' \in [Server -> ServerState] /\ Shaped'
         /\ server'[s].files = server[s].files /\ server'[s].loaded = server[s].loaded
         /\ server'[s].pc = "failed" /\ server'[s].why = why
         /\ \A t \in Server \ {s} : server'[t] = server[t]
<1> DEFINE q == [server[s] EXCEPT !.pc = "failed", !.why = why]
<1>1. server[s] \in ServerState /\ Shape(server[s])
  BY DEF Shaped
<1>2. q \in ServerState /\ q.files = server[s].files /\ q.loaded = server[s].loaded
      /\ q.pc = "failed" /\ q.why = why /\ q.start = server[s].start
  BY <1>1 DEF ServerState
<1>3. Shape(q)
  BY <1>1, <1>2 DEF Shape
<1>4. Moves(s, q)
  BY DEF Fail, Moves
<1>5. server' \in [Server -> ServerState] /\ Shaped'
  BY <1>2, <1>3, <1>4, OneMoves
<1>6. QED
  BY <1>2, <1>4, <1>5 DEF Moves

LEMMA LoadedMoves ==
  ASSUME server \in [Server -> ServerState], Shaped, NEW s \in Server,
         NEW key \in Key, Loaded(s, key), server[s].pc \in {"load", "write"}
  PROVE  /\ server' \in [Server -> ServerState] /\ Shaped'
         /\ server'[s].files = server[s].files
         /\ server'[s].loaded = Append(server[s].loaded, key)
         /\ server'[s].pc \in {"load", "bind"}
         /\ \A t \in Server \ {s} : server'[t] = server[t]
<1> DEFINE pc == IF Position(s) = Len(server[s].files) THEN "bind" ELSE "load"
           q == [server[s] EXCEPT !.loaded = Append(server[s].loaded, key), !.pc = pc]
<1>1. server[s] \in ServerState /\ Shape(server[s])
  BY DEF Shaped
<1>2. server[s].loaded \in Seq(Key) /\ Len(server[s].loaded) \in Nat
      /\ Len(server[s].files) \in Nat
  BY <1>1, Lengths
<1>3. Append(server[s].loaded, key) \in Seq(Key)
      /\ Len(Append(server[s].loaded, key)) = Len(server[s].loaded) + 1
  BY <1>2, Appended
<1>4. q \in ServerState /\ q.files = server[s].files
      /\ q.loaded = Append(server[s].loaded, key) /\ q.pc = pc /\ q.start = server[s].start
  BY <1>1, <1>3 DEF ServerState
<1>5. Len(server[s].loaded) < Len(server[s].files) /\ server[s].start \in Key
  BY <1>1 DEF Shape
<1>6. Shape(q)
  <2>1. Len(q.loaded) = Len(server[s].loaded) + 1
    BY <1>3, <1>4
  <2>2. pc = "bind" <=> Len(q.loaded) = Len(q.files)
    BY <1>4, <2>1 DEF Position
  <2>3. QED
    BY <1>2, <1>4, <1>5, <2>1, <2>2 DEF Shape
<1>7. Moves(s, q)
  BY DEF Loaded, Moves
<1>8. server' \in [Server -> ServerState] /\ Shaped'
  BY <1>4, <1>6, <1>7, OneMoves
<1>9. QED
  BY <1>4, <1>7, <1>8 DEF Moves

LEMMA ToMintOrWriteMoves ==
  ASSUME server \in [Server -> ServerState], Shaped, NEW s \in Server,
         NEW pc \in {"mint", "write"}, server' = [server EXCEPT ![s].pc = pc],
         server[s].pc \in {"load", "mint"}
  PROVE  /\ server' \in [Server -> ServerState] /\ Shaped'
         /\ server'[s].files = server[s].files /\ server'[s].loaded = server[s].loaded
         /\ server'[s].pc = pc
         /\ \A t \in Server \ {s} : server'[t] = server[t]
<1> DEFINE q == [server[s] EXCEPT !.pc = pc]
<1>1. server[s] \in ServerState /\ Shape(server[s])
  BY DEF Shaped
<1>2. q \in ServerState /\ q.files = server[s].files /\ q.loaded = server[s].loaded
      /\ q.pc = pc /\ q.start = server[s].start
  BY <1>1 DEF ServerState
<1>3. Shape(q)
  BY <1>1, <1>2 DEF Shape
<1>4. Moves(s, q)
  BY DEF Moves
<1>5. server' \in [Server -> ServerState] /\ Shaped'
  BY <1>2, <1>3, <1>4, OneMoves
<1>6. QED
  BY <1>2, <1>4, <1>5 DEF Moves

LEMMA StartMoves ==
  ASSUME TypeOK, Shaped, NEW s \in Server, Start(s)
  PROVE  /\ server' \in [Server -> ServerState] /\ Shaped'
         /\ server'[s].files = Append(list, CookieFile) /\ server'[s].loaded = <<>>
         /\ server'[s].pc = "load"
         /\ \A t \in Server \ {s} : server'[t] = server[t]
         /\ starts' \in 0 .. MaxStart
<1> DEFINE q == [Down EXCEPT !.pc = "load", !.start = starts + 1,
                             !.files = Append(list, CookieFile)]
<1>1. starts + 1 \in Key /\ starts + 1 \in 0 .. MaxStart /\ starts' \in 0 .. MaxStart
  BY WebBootAssumption DEF Start, TypeOK, Key
<1>2. list \in Seq(KeyFile) /\ list \in Seq(File) /\ CookieFile \in File /\ Len(list) \in Nat
  BY DEF TypeOK, File
<1>3. Append(list, CookieFile) \in Seq(File) /\ Len(Append(list, CookieFile)) = Len(list) + 1
  BY <1>2, AppendProperties
<1>4. <<>> \in Seq(Key) /\ Len(<<>>) = 0
  OBVIOUS
<1>5. q \in ServerState /\ q.files = Append(list, CookieFile) /\ q.loaded = <<>>
      /\ q.pc = "load" /\ q.start = starts + 1
  BY <1>1, <1>3, <1>4 DEF Down, ServerState
<1>6. Shape(q)
  BY <1>1, <1>2, <1>3, <1>4, <1>5 DEF Shape
<1>7. Moves(s, q)
  BY DEF Start, Moves
<1>8. server' \in [Server -> ServerState] /\ Shaped'
  BY <1>5, <1>6, <1>7, OneMoves DEF TypeOK
<1>9. QED
  BY <1>1, <1>5, <1>7, <1>8 DEF Moves, TypeOK

LEMMA KillMoves ==
  ASSUME TypeOK, Shaped, NEW s \in Server, Kill(s)
  PROVE  /\ server' \in [Server -> ServerState] /\ Shaped' /\ server'[s] = Down
         /\ \A t \in Server \ {s} : server'[t] = server[t]
<1>1. Moves(s, Down)
  BY DEF Kill, Moves
<1>2. QED
  BY <1>1, DownIsShaped, OneMoves DEF Moves, TypeOK

LEMMA BindMoves ==
  ASSUME TypeOK, Shaped, NEW s \in Server, Bind(s)
  PROVE  /\ server' \in [Server -> ServerState] /\ Shaped'
         /\ server'[s].files = server[s].files /\ server'[s].loaded = server[s].loaded
         /\ \/ server'[s].pc = "serving"
            \/ server'[s].pc = "failed" /\ server'[s].why = "address"
         /\ \A t \in Server \ {s} : server'[t] = server[t]
<1>0. server[s] \in ServerState /\ Shape(server[s]) /\ server[s].pc = "bind"
  BY DEF Bind, Shaped, TypeOK
<1>1. CASE Fail(s, "address")
  BY <1>0, <1>1, FailMoves DEF TypeOK
<1>2. CASE server' = [server EXCEPT ![s].pc = "serving"]
  <2> DEFINE q == [server[s] EXCEPT !.pc = "serving"]
  <2>1. q \in ServerState /\ q.files = server[s].files /\ q.loaded = server[s].loaded
        /\ q.pc = "serving" /\ q.start = server[s].start
    BY <1>0 DEF ServerState
  <2>2. Shape(q)
    BY <1>0, <2>1 DEF Shape
  <2>3. Moves(s, q)
    BY <1>2 DEF Moves
  <2>4. server' \in [Server -> ServerState] /\ Shaped'
    BY <2>1, <2>2, <2>3, OneMoves DEF TypeOK
  <2>5. QED
    BY <2>1, <2>3, <2>4 DEF Moves, TypeOK
<1>3. QED
  BY <1>1, <1>2 DEF Bind

-----------------------------------------------------------------------------
(***************************************************************************)
(* Types.                                                                  *)
(***************************************************************************)

LEMMA FileAtIsFile ==
  ASSUME TypeOK, Shaped, NEW s \in Server, server[s].pc \in {"load", "mint", "write"}
  PROVE  FileAt(s) \in File /\ server[s].start \in Key
<1>1. server[s] \in ServerState /\ Shape(server[s])
  BY DEF TypeOK, Shaped
<1>2. Len(server[s].loaded) < Len(server[s].files) /\ server[s].start \in Key
  BY <1>1 DEF Shape
<1>3. QED
  BY <1>1, <1>2, AtIsFile DEF At, FileAt, Position

LEMMA BootTypes ==
  ASSUME TypeOK, Shaped, NEW s \in Server, Boots(s)
  PROVE  TypeOK' /\ Shaped'
<1> USE DEF TypeOK
<1>1. CASE Load(s)
  <2>1. server[s].pc = "load" /\ FileAt(s) \in File
    BY <1>1, FileAtIsFile DEF Load
  <2>2. server' \in [Server -> ServerState] /\ Shaped'
    <3>1. CASE disk[FileAt(s)] \in Key /\ Loaded(s, disk[FileAt(s)])
      BY <2>1, <3>1, LoadedMoves
    <3>2. CASE server' = [server EXCEPT ![s].pc = "mint"]
      BY <2>1, <3>2, ToMintOrWriteMoves
    <3>3. CASE Fail(s, "missing") \/ Fail(s, "short")
      BY <2>1, <3>3, FailMoves
    <3>4. QED
      BY <1>1, <3>1, <3>2, <3>3 DEF Load
  <2>3. QED
    BY <1>1, <2>2 DEF Load, history, Shaped, Shape
<1>2. CASE Truncate(s)
  <2>1. server' \in [Server -> ServerState] /\ Shaped'
    BY <1>2, ToMintOrWriteMoves DEF Truncate
  <2>2. QED
    BY <1>2, <2>1 DEF Truncate, history, Shaped, Shape
<1>3. CASE NoDirectory(s)
  <2>1. server' \in [Server -> ServerState] /\ Shaped'
    BY <1>3, FailMoves DEF NoDirectory
  <2>2. QED
    BY <1>3, <2>1 DEF NoDirectory, history, Shaped, Shape
<1>4. CASE Write(s)
  <2>1. FileAt(s) \in File /\ server[s].start \in Key
    BY <1>4, FileAtIsFile DEF Write
  <2>2. server' \in [Server -> ServerState] /\ Shaped'
    BY <1>4, <2>1, LoadedMoves DEF Write
  <2>3. QED
    BY <1>4, <2>1, <2>2 DEF Write, history, Shaped, Shape
<1>5. CASE WriteFails(s)
  <2>1. FileAt(s) \in File /\ server[s].start \in Key
    BY <1>5, FileAtIsFile DEF WriteFails
  <2>2. server' \in [Server -> ServerState] /\ Shaped'
    BY <1>5, FailMoves DEF WriteFails
  <2>3. disk' \in [File -> Key \cup {None, Short}] /\ torn' \subseteq File
    BY <1>5, <2>1 DEF WriteFails
  <2>4. QED
    BY <1>5, <2>2, <2>3 DEF WriteFails, Shaped, Shape
<1>6. CASE Bind(s)
  <2>1. server' \in [Server -> ServerState] /\ Shaped'
    BY <1>6, BindMoves
  <2>2. QED
    BY <1>6, <2>1 DEF Bind, history, Shaped, Shape
<1>7. QED
  BY <1>1, <1>2, <1>3, <1>4, <1>5, <1>6 DEF Boots

LEMMA OperatorTypes ==
  ASSUME TypeOK, Shaped,
         MakeDirs \/ DropOld \/ (\E f \in File : RemoveFile(f)) \/ (\E f \in KeyFile : Prepend(f))
  PROVE  TypeOK' /\ Shaped'
<1> USE DEF TypeOK, Shaped
<1>1. CASE MakeDirs
  BY <1>1 DEF MakeDirs, history
<1>2. CASE DropOld
  <2>1. list[1] \in KeyFile
    BY <1>2 DEF DropOld
  <2>2. <<list[1]>> \in Seq(KeyFile)
    BY <2>1
  <2>3. ops' \in 0 .. MaxOp
    BY <1>2, WebBootAssumption DEF DropOld
  <2>4. QED
    BY <1>2, <2>2, <2>3 DEF DropOld, history
<1>3. ASSUME NEW f \in File, RemoveFile(f) PROVE TypeOK' /\ Shaped'
  <2>1. ops' \in 0 .. MaxOp
    BY <1>3, WebBootAssumption DEF RemoveFile
  <2>2. QED
    BY <1>3, <2>1 DEF RemoveFile
<1>4. ASSUME NEW f \in KeyFile, Prepend(f) PROVE TypeOK' /\ Shaped'
  <2>1. ops' \in 0 .. MaxOp
    BY <1>4, WebBootAssumption DEF Prepend
  <2>2. <<f>> \in Seq(KeyFile)
    OBVIOUS
  <2>3. list' \in Seq(KeyFile)
    BY <1>4, <2>2, ConcatProperties DEF Prepend
  <2>4. f \in File
    BY DEF File
  <2>5. QED
    BY <1>4, <2>1, <2>3, <2>4 DEF Prepend
<1>5. QED
  BY <1>1, <1>2, <1>3, <1>4

\* Every variable stays in its type, and what a start has loaded is what it has got to.
LEMMA TypesAndShapes == Spec => [](TypeOK /\ Shaped)
<1>1. Init => TypeOK /\ Shaped
  <2>1. SUFFICES ASSUME Init PROVE TypeOK /\ Shaped
    OBVIOUS
  <2>2. server \in [Server -> ServerState] /\ Shaped
    BY <2>1, DownIsShaped DEF Init, Shaped
  <2>3. \A s \in Server : Len(server[s].loaded) <= Len(server[s].files)
    BY <2>2 DEF Shaped, Shape
  <2>4. starts \in 0 .. MaxStart /\ ops \in 0 .. MaxOp
    BY <2>1, WebBootAssumption DEF Init
  <2>5. /\ disk \in [File -> Key \cup {None, Short}] /\ dirs \subseteq File
        /\ list \in Seq(KeyFile)
    BY <2>1, WebBootAssumption DEF Init
  <2>6. QED
    BY <2>1, <2>2, <2>3, <2>4, <2>5 DEF Init, TypeOK
<1>2. TypeOK /\ Shaped /\ [Next]_vars => (TypeOK /\ Shaped)'
  <2>1. SUFFICES ASSUME TypeOK, Shaped, [Next]_vars PROVE TypeOK' /\ Shaped'
    OBVIOUS
  <2>2. ASSUME NEW s \in Server, Start(s) PROVE TypeOK' /\ Shaped'
    BY <2>1, <2>2, StartMoves DEF Start, TypeOK, Shaped, Shape
  <2>3. ASSUME NEW s \in Server, Boots(s) PROVE TypeOK' /\ Shaped'
    BY <2>1, <2>3, BootTypes
  <2>4. ASSUME NEW s \in Server, Kill(s) PROVE TypeOK' /\ Shaped'
    <3>1. torn' \subseteq File
      BY <2>1, <2>4, FileAtIsFile DEF Kill, TypeOK
    <3>2. QED
      BY <2>1, <2>4, <3>1, KillMoves DEF Kill, TypeOK, Shaped, Shape
  <2>5. CASE MakeDirs \/ DropOld \/ (\E f \in File : RemoveFile(f))
             \/ (\E f \in KeyFile : Prepend(f))
    BY <2>1, <2>5, OperatorTypes
  <2>6. CASE UNCHANGED vars
    BY <2>1, <2>6 DEF vars, TypeOK, Shaped
  <2>7. QED
    BY <2>1, <2>2, <2>3, <2>4, <2>5, <2>6 DEF Next
<1>3. QED
  BY <1>1, <1>2, PTL DEF Spec

THEOREM TypeCorrect == Spec => []TypeOK
BY TypesAndShapes, PTL

-----------------------------------------------------------------------------
(***************************************************************************)
(* While no two starts have overlapped: one start at most is under way,    *)
(* the file it is generating holds no key, and what a server has loaded is *)
(* what the files hold, but for those the operator touched.                *)
(***************************************************************************)

Solo == \A s, t \in Server : Starting(s) /\ Starting(t) => s = t

Fresh == \A s \in Server : server[s].pc \in {"mint", "write"} => disk[At(server[s])] \notin Key

Agrees(q) ==
  \A i \in 1 .. Len(q.loaded) : q.loaded[i] = disk[q.files[i]] \/ q.files[i] \in touched

Same == \A s \in Server : Agrees(server[s])

KeyInv == ~overlapped => Solo /\ Fresh /\ Same

\* A key that a server has loaded, at a file.
LEMMA LoadedAt ==
  ASSUME NEW q \in ServerState, Shape(q), NEW i \in 1 .. Len(q.loaded)
  PROVE  q.loaded[i] \in Key /\ q.files[i] \in File
<1>1. /\ Len(q.loaded) \in Nat /\ Len(q.files) \in Nat /\ Len(q.loaded) <= Len(q.files)
      /\ q.loaded \in Seq(Key) /\ q.files \in Seq(File)
  BY Lengths DEF Shape
<1>2. i \in 1 .. Len(q.files)
  BY <1>1
<1>3. QED
  BY <1>1, <1>2

\* A step of the one start there is: it writes over no key, and adds to what it has
\* loaded only what the file holds.
LEMMA BootStep ==
  ASSUME TypeOK, Shaped, KeyInv, NEW s \in Server, Starting(s), ~overlapped,
         UNCHANGED <<overlapped, touched>>,
         \A t \in Server \ {s} : server'[t] = server[t],
         \A g \in File : disk'[g] = disk[g] \/ disk[g] \notin Key,
         server'[s].pc \in {"mint", "write"} => disk'[At(server[s])'] \notin Key,
         server'[s].files = server[s].files,
         \A i \in 1 .. Len(server'[s].loaded) :
           \/ i \in 1 .. Len(server[s].loaded) /\ server'[s].loaded[i] = server[s].loaded[i]
           \/ server'[s].loaded[i] = disk'[server[s].files[i]]
  PROVE  KeyInv'
<1>1. Solo /\ Fresh /\ Same
  BY DEF KeyInv
<1>2. \A t \in Server \ {s} : ~Starting(t)
  BY <1>1 DEF Solo
<1>3. Solo'
  BY <1>2 DEF Solo, Starting
<1>4. Fresh'
  <2>1. SUFFICES ASSUME NEW t \in Server, server'[t].pc \in {"mint", "write"}
                 PROVE  disk'[At(server[t])'] \notin Key
    BY DEF Fresh
  <2>2. t = s
    BY <1>2, <2>1 DEF Starting
  <2>3. QED
    BY <2>1, <2>2
<1>5. ASSUME NEW t \in Server, NEW i \in 1 .. Len(server[t].loaded)
      PROVE  \/ server[t].loaded[i] = disk'[server[t].files[i]]
             \/ server[t].files[i] \in touched'
  <2>1. server[t].loaded[i] \in Key /\ server[t].files[i] \in File
    BY LoadedAt DEF TypeOK, Shaped
  <2>2. server[t].loaded[i] = disk[server[t].files[i]] \/ server[t].files[i] \in touched
    BY <1>1 DEF Same, Agrees
  <2>3. QED
    BY <2>1, <2>2
<1>6. Same'
  <2>1. SUFFICES ASSUME NEW t \in Server, NEW i \in 1 .. Len(server'[t].loaded)
                 PROVE  \/ server'[t].loaded[i] = disk'[server'[t].files[i]]
                        \/ server'[t].files[i] \in touched'
    BY DEF Same, Agrees
  <2>2. CASE t = s
    BY <1>5, <2>1, <2>2
  <2>3. CASE t # s
    BY <1>5, <2>1, <2>3
  <2>4. QED
    BY <2>2, <2>3
<1>7. QED
  BY <1>3, <1>4, <1>6 DEF KeyInv

LEMMA BootKeepsKeys ==
  ASSUME TypeOK, Shaped, KeyInv, NEW s \in Server, Boots(s)
  PROVE  KeyInv' /\ (~overlapped => \A g \in File : disk'[g] = disk[g] \/ disk[g] \notin Key)
<1>0. Starting(s) /\ UNCHANGED <<overlapped, touched>>
  BY DEF Boots, Load, Truncate, NoDirectory, Write, WriteFails, Bind, Starting, history
<1>1. CASE overlapped
  BY <1>0, <1>1 DEF KeyInv
<1>2. ASSUME ~overlapped PROVE KeyInv' /\ \A g \in File : disk'[g] = disk[g] \/ disk[g] \notin Key
  <2>0. Fresh
    BY <1>2 DEF KeyInv
  <2>1. CASE Load(s)
    <3>1. FileAt(s) \in File /\ server[s].pc = "load" /\ disk' = disk
      BY <2>1, FileAtIsFile DEF Load
    <3>2. CASE disk[FileAt(s)] \in Key /\ Loaded(s, disk[FileAt(s)])
      <4>1. /\ server'[s].files = server[s].files
            /\ server'[s].loaded = Append(server[s].loaded, disk[FileAt(s)])
            /\ server'[s].pc \in {"load", "bind"}
            /\ \A t \in Server \ {s} : server'[t] = server[t]
        BY <3>1, <3>2, LoadedMoves DEF TypeOK
      <4>2. server[s].loaded \in Seq(Key) /\ Len(server[s].loaded) \in Nat
        BY Lengths DEF TypeOK
      <4>3. /\ Len(server'[s].loaded) = Len(server[s].loaded) + 1
            /\ \A i \in 1 .. Len(server[s].loaded) : server'[s].loaded[i] = server[s].loaded[i]
            /\ server'[s].loaded[Len(server[s].loaded) + 1] = disk[FileAt(s)]
        BY <3>2, <4>1, <4>2, Appended
      <4>4. \A i \in 1 .. Len(server'[s].loaded) :
              \/ i \in 1 .. Len(server[s].loaded) /\ server'[s].loaded[i] = server[s].loaded[i]
              \/ server'[s].loaded[i] = disk'[server[s].files[i]]
        BY <3>1, <4>2, <4>3 DEF FileAt, Position
      <4>5. QED
        BY <1>0, <1>2, <3>1, <4>1, <4>4, BootStep
    <3>3. CASE disk[FileAt(s)] = None /\ server' = [server EXCEPT ![s].pc = "mint"]
      <4>1. /\ server'[s].files = server[s].files /\ server'[s].loaded = server[s].loaded
            /\ \A t \in Server \ {s} : server'[t] = server[t]
        BY <3>1, <3>3, ToMintOrWriteMoves DEF TypeOK
      <4>2. At(server[s])' = FileAt(s) /\ None \notin Key
        BY <4>1 DEF At, FileAt, Position, None, Key
      <4>3. QED
        BY <1>0, <1>2, <3>1, <3>3, <4>1, <4>2, BootStep
    <3>4. CASE Fail(s, "missing") \/ Fail(s, "short")
      <4>1. /\ server'[s].files = server[s].files /\ server'[s].loaded = server[s].loaded
            /\ server'[s].pc = "failed" /\ \A t \in Server \ {s} : server'[t] = server[t]
        BY <3>1, <3>4, FailMoves DEF TypeOK
      <4>2. QED
        BY <1>0, <1>2, <3>1, <4>1, BootStep
    <3>5. QED
      BY <2>1, <3>2, <3>3, <3>4 DEF Load
  <2>2. CASE Truncate(s)
    <3>1. FileAt(s) \in File /\ server[s].pc = "mint" /\ disk' = [disk EXCEPT ![FileAt(s)] = Short]
      BY <2>2, FileAtIsFile DEF Truncate
    <3>2. /\ server'[s].files = server[s].files /\ server'[s].loaded = server[s].loaded
          /\ \A t \in Server \ {s} : server'[t] = server[t]
      BY <2>2, ToMintOrWriteMoves DEF Truncate, TypeOK
    <3>3. At(server[s])' = FileAt(s) /\ At(server[s]) = FileAt(s) /\ Short \notin Key
      BY <3>2 DEF At, FileAt, Position, Short, Key
    <3>4. disk[FileAt(s)] \notin Key
      BY <2>0, <3>1, <3>3 DEF Fresh
    <3>5. disk'[FileAt(s)] = Short /\ \A g \in File : disk'[g] = disk[g] \/ disk[g] \notin Key
      BY <3>1, <3>4 DEF TypeOK
    <3>6. QED
      BY <1>0, <1>2, <3>2, <3>3, <3>5, BootStep
  <2>3. CASE NoDirectory(s) \/ Bind(s)
    <3>1. /\ server'[s].files = server[s].files /\ server'[s].loaded = server[s].loaded
          /\ server'[s].pc \in {"failed", "serving"}
          /\ \A t \in Server \ {s} : server'[t] = server[t]
      BY <2>3, FailMoves, BindMoves DEF NoDirectory, TypeOK
    <3>2. disk' = disk
      BY <2>3 DEF NoDirectory, Bind
    <3>3. QED
      BY <1>0, <1>2, <3>1, <3>2, BootStep
  <2>4. CASE Write(s)
    <3>1. FileAt(s) \in File /\ server[s].pc = "write" /\ server[s].start \in Key
          /\ disk' = [disk EXCEPT ![FileAt(s)] = server[s].start]
      BY <2>4, FileAtIsFile DEF Write
    <3>2. /\ server'[s].files = server[s].files
          /\ server'[s].loaded = Append(server[s].loaded, server[s].start)
          /\ server'[s].pc \in {"load", "bind"}
          /\ \A t \in Server \ {s} : server'[t] = server[t]
      BY <2>4, <3>1, LoadedMoves DEF Write, TypeOK
    <3>3. server[s].loaded \in Seq(Key) /\ Len(server[s].loaded) \in Nat
      BY Lengths DEF TypeOK
    <3>4. /\ Len(server'[s].loaded) = Len(server[s].loaded) + 1
          /\ \A i \in 1 .. Len(server[s].loaded) : server'[s].loaded[i] = server[s].loaded[i]
          /\ server'[s].loaded[Len(server[s].loaded) + 1] = server[s].start
      BY <3>1, <3>2, <3>3, Appended
    <3>5. disk[FileAt(s)] \notin Key
      BY <2>0, <3>1 DEF Fresh, At, FileAt, Position
    <3>6. disk'[FileAt(s)] = server[s].start
          /\ \A g \in File : disk'[g] = disk[g] \/ disk[g] \notin Key
      BY <3>1, <3>5 DEF TypeOK
    <3>7. \A i \in 1 .. Len(server'[s].loaded) :
            \/ i \in 1 .. Len(server[s].loaded) /\ server'[s].loaded[i] = server[s].loaded[i]
            \/ server'[s].loaded[i] = disk'[server[s].files[i]]
      BY <3>3, <3>4, <3>6 DEF FileAt, Position
    <3>8. QED
      BY <1>0, <1>2, <3>2, <3>6, <3>7, BootStep
  <2>5. CASE WriteFails(s)
    <3>1. FileAt(s) \in File /\ server[s].pc = "write"
      BY <2>5, FileAtIsFile DEF WriteFails
    <3>2. /\ server'[s].files = server[s].files /\ server'[s].loaded = server[s].loaded
          /\ server'[s].pc = "failed" /\ \A t \in Server \ {s} : server'[t] = server[t]
      BY <2>5, FailMoves DEF WriteFails, TypeOK
    <3>3. disk[FileAt(s)] \notin Key
      BY <2>0, <3>1 DEF Fresh, At, FileAt, Position
    <3>4. \A g \in File : disk'[g] = disk[g] \/ disk[g] \notin Key
      BY <2>5, <3>1, <3>3 DEF WriteFails, TypeOK
    <3>5. QED
      BY <1>0, <1>2, <3>2, <3>4, BootStep
  <2>6. QED
    BY <2>1, <2>2, <2>3, <2>4, <2>5 DEF Boots
<1>3. QED
  BY <1>1, <1>2

LEMMA StartKeepsKeys ==
  ASSUME TypeOK, Shaped, KeyInv, NEW s \in Server, Start(s)
  PROVE  KeyInv'
<1>1. SUFFICES ASSUME ~overlapped' PROVE Solo' /\ Fresh' /\ Same'
  BY DEF KeyInv
<1>2. /\ ~overlapped /\ \A t \in Server \ {s} : ~Starting(t)
      /\ UNCHANGED <<disk, touched>>
  BY <1>1 DEF Start
<1>3. Solo /\ Fresh /\ Same
  BY <1>2 DEF KeyInv
<1>4. /\ server'[s].pc = "load" /\ server'[s].loaded = <<>>
      /\ \A t \in Server \ {s} : server'[t] = server[t]
  BY StartMoves
<1>5. Solo'
  BY <1>2, <1>4 DEF Solo, Starting
<1>6. Fresh'
  BY <1>2, <1>3, <1>4 DEF Fresh, At
<1>7. Same'
  <2>1. Agrees(server[s])'
    <3>1. Len(server'[s].loaded) = 0
      BY <1>4
    <3>2. QED
      BY <3>1 DEF Agrees
  <2>2. \A t \in Server \ {s} : Agrees(server[t])'
    BY <1>2, <1>3, <1>4 DEF Same, Agrees
  <2>3. QED
    BY <2>1, <2>2 DEF Same
<1>8. QED
  BY <1>5, <1>6, <1>7

LEMMA KillKeepsKeys ==
  ASSUME TypeOK, Shaped, KeyInv, NEW s \in Server, Kill(s)
  PROVE  KeyInv'
<1>1. SUFFICES ASSUME ~overlapped' PROVE Solo' /\ Fresh' /\ Same'
  BY DEF KeyInv
<1>2. ~overlapped /\ UNCHANGED <<disk, touched>>
  BY <1>1 DEF Kill
<1>3. Solo /\ Fresh /\ Same
  BY <1>2 DEF KeyInv
<1>4. server'[s] = Down /\ \A t \in Server \ {s} : server'[t] = server[t]
  BY KillMoves
<1>5. server'[s].pc = "down" /\ Len(server'[s].loaded) = 0
  <2>1. Down.pc = "down" /\ Down.loaded = <<>>
    BY DEF Down
  <2>2. QED
    BY <1>4, <2>1
<1>6. Solo'
  BY <1>3, <1>4, <1>5 DEF Solo, Starting
<1>7. Fresh'
  BY <1>2, <1>3, <1>4, <1>5 DEF Fresh, At
<1>8. Agrees(server[s])'
  BY <1>5 DEF Agrees
<1>9. \A t \in Server \ {s} : Agrees(server[t])'
  BY <1>2, <1>3, <1>4 DEF Same, Agrees
<1>10. QED
  BY <1>6, <1>7, <1>8, <1>9 DEF Same

LEMMA OperatorKeepsKeys ==
  ASSUME TypeOK, Shaped, KeyInv,
         \/ MakeDirs \/ DropOld
         \/ \E f \in File : RemoveFile(f)
         \/ \E f \in KeyFile : Prepend(f)
  PROVE  KeyInv'
<1>1. /\ UNCHANGED <<server, overlapped>> /\ touched \subseteq touched'
      /\ \A g \in File : disk'[g] = disk[g] \/ (disk'[g] = None /\ g \in touched')
  <2>1. CASE MakeDirs \/ DropOld
    BY <2>1 DEF MakeDirs, DropOld, history
  <2>2. ASSUME NEW f \in KeyFile, Prepend(f)
        PROVE  UNCHANGED <<server, overlapped, disk>> /\ touched \subseteq touched'
    BY <2>2 DEF Prepend
  <2>3. ASSUME NEW f \in File, RemoveFile(f)
        PROVE  /\ UNCHANGED <<server, overlapped>> /\ touched \subseteq touched'
               /\ \A g \in File : disk'[g] = disk[g] \/ (disk'[g] = None /\ g \in touched')
    BY <2>3 DEF RemoveFile, TypeOK
  <2>4. QED
    BY <2>1, <2>2, <2>3
<1>2. None \notin Key
  BY DEF None, Key
<1>3. SUFFICES ASSUME ~overlapped, Solo, Fresh, Same PROVE Solo' /\ Fresh' /\ Same'
  BY <1>1 DEF KeyInv
<1>4. Solo'
  BY <1>1, <1>3 DEF Solo, Starting
<1>5. Fresh'
  <2>1. SUFFICES ASSUME NEW t \in Server, server[t].pc \in {"mint", "write"}
                 PROVE  disk'[At(server[t])] \notin Key
    BY <1>1 DEF Fresh, At
  <2>2. At(server[t]) \in File
    BY <2>1, AtIsFile DEF TypeOK, Shaped, Shape
  <2>3. QED
    BY <1>1, <1>2, <1>3, <2>1, <2>2 DEF Fresh
<1>6. Same'
  <2>1. SUFFICES ASSUME NEW t \in Server, NEW i \in 1 .. Len(server[t].loaded)
                 PROVE  \/ server[t].loaded[i] = disk'[server[t].files[i]]
                        \/ server[t].files[i] \in touched'
    BY <1>1 DEF Same, Agrees
  <2>2. server[t].files[i] \in File
    BY <2>1, LoadedAt DEF TypeOK, Shaped
  <2>3. QED
    BY <1>1, <1>3, <2>2 DEF Same, Agrees
<1>7. QED
  BY <1>4, <1>5, <1>6

LEMMA KeysKept == Spec => []KeyInv
<1>1. Init => KeyInv
  <2>1. SUFFICES ASSUME Init PROVE Solo /\ Fresh /\ Same
    BY DEF KeyInv
  <2>2. \A s \in Server : server[s] = Down
    BY <2>1 DEF Init
  <2>3. Down.pc = "down" /\ Len(Down.loaded) = 0
    BY DEF Down
  <2>4. QED
    BY <2>2, <2>3 DEF Solo, Starting, Fresh, Same, Agrees
<1>2. TypeOK /\ Shaped /\ KeyInv /\ [Next]_vars => KeyInv'
  <2>1. SUFFICES ASSUME TypeOK, Shaped, KeyInv, [Next]_vars PROVE KeyInv'
    OBVIOUS
  <2>2. CASE Next
    BY <2>1, <2>2, StartKeepsKeys, BootKeepsKeys, KillKeepsKeys, OperatorKeepsKeys DEF Next
  <2>3. CASE UNCHANGED vars
    BY <2>1, <2>3 DEF vars, KeyInv, Solo, Starting, Fresh, At, Same, Agrees
  <2>4. QED
    BY <2>1, <2>2, <2>3
<1>3. QED
  BY <1>1, <1>2, TypesAndShapes, PTL DEF Spec

\* A key that is there is generated over only when two starts overlapped, and goes
\* otherwise only by the operator's hand.
THEOREM KeysAreKept == Spec => KeysOutliveStarts
<1>1. TypeOK /\ Shaped /\ KeyInv /\ [Next]_vars =>
        [\A f \in File : disk[f] \in Key /\ disk'[f] # disk[f] =>
           overlapped \/ f \in touched']_vars
  <2>1. SUFFICES ASSUME TypeOK, Shaped, KeyInv, [Next]_vars, NEW f \in File,
                        disk[f] \in Key, disk'[f] # disk[f]
                 PROVE  overlapped \/ f \in touched'
    OBVIOUS
  <2>2. ASSUME NEW s \in Server, Boots(s) PROVE overlapped
    BY <2>1, <2>2, BootKeepsKeys
  <2>3. CASE \E g \in File : RemoveFile(g)
    BY <2>1, <2>3 DEF RemoveFile, TypeOK
  <2>4. ~UNCHANGED vars /\ ~MakeDirs /\ ~DropOld /\ ~(\E g \in KeyFile : Prepend(g))
        /\ ~(\E s \in Server : Start(s) \/ Kill(s))
    BY <2>1 DEF vars, MakeDirs, DropOld, Prepend, Start, Kill
  <2>5. QED
    BY <2>1, <2>2, <2>3, <2>4 DEF Next
<1>2. QED
  BY <1>1, TypesAndShapes, KeysKept, PTL DEF Spec, KeysOutliveStarts

\* What a serving server loaded is what the files hold, and so what the next one loads,
\* unless two starts overlapped or the operator removed the file.
THEOREM ForksNeedAnOverlap == Spec => []ForkNeedsAnOverlap
<1>1. TypeOK /\ Shaped /\ KeyInv => ForkNeedsAnOverlap
  <2>1. SUFFICES ASSUME TypeOK, Shaped, KeyInv, NEW s \in Server, server[s].pc = "serving",
                        NEW i \in DOMAIN server[s].files, ~overlapped
                 PROVE  server[s].loaded[i] = disk[server[s].files[i]]
                        \/ server[s].files[i] \in touched
    BY DEF ForkNeedsAnOverlap
  <2>2. server[s].files \in Seq(File) /\ Len(server[s].loaded) = Len(server[s].files)
    BY <2>1, Lengths DEF TypeOK, Shaped, Shape
  <2>3. i \in 1 .. Len(server[s].loaded)
    BY <2>1, <2>2
  <2>4. QED
    BY <2>1, <2>3 DEF KeyInv, Same, Agrees
<1>2. QED
  BY <1>1, TypesAndShapes, KeysKept, PTL

-----------------------------------------------------------------------------
(***************************************************************************)
(* Why a start fails.  A file is short while its writer is at it, or after *)
(* the writer died; a start meets one only if another start is under way   *)
(* or was cut short.  A list of more than the first key is the operator's. *)
(***************************************************************************)

Writing(f) == \E t \in Server : server[t].pc = "write" /\ At(server[t]) = f

ShortHasACause == \A f \in File : disk[f] = Short => f \in torn \/ Writing(f)

\* The files of a start: keys and then the cookie, one key unless the operator added one.
Listed ==
  /\ Len(list) > 1 => touched # {}
  /\ \A s \in Server :
       /\ Len(server[s].files) > 2 => touched # {}
       /\ \A i \in 1 .. Len(server[s].files) :
            i < Len(server[s].files) => server[s].files[i] \in KeyFile

Failure(q) ==
  q.pc = "failed" =>
    /\ q.why = "short" => At(q) \in torn
    /\ q.why = "missing" => touched # {} /\ At(q) \in KeyFile

FailInv == ShortHasACause /\ Listed /\ (~overlapped => \A s \in Server : Failure(server[s]))

\* A step that leaves the files alone.
LEMMA SameDisk ==
  ASSUME ShortHasACause, disk' = disk, torn \subseteq torn', NEW s \in Server,
         \A t \in Server \ {s} : server'[t] = server[t],
         server[s].pc = "write" => At(server[s]) \in torn'
  PROVE  ShortHasACause'
<1>1. \A f : Writing(f) => Writing(f)' \/ f \in torn'
  BY DEF Writing, At
<1>2. QED
  BY <1>1 DEF ShortHasACause

LEMMA ListedMoves ==
  ASSUME Listed, list' = list, touched' = touched, NEW s \in Server,
         \A t \in Server \ {s} : server'[t] = server[t],
         server'[s].files = server[s].files
  PROVE  Listed'
BY DEF Listed

\* Shorts of the steps of one start.
LEMMA BootShorts ==
  ASSUME TypeOK, Shaped, ShortHasACause, NEW s \in Server, Boots(s)
  PROVE  ShortHasACause'
<1>0. server[s].pc # "write" => server[s].pc \in {"load", "mint", "bind"}
  BY DEF Boots, Load, Truncate, NoDirectory, Write, WriteFails, Bind
<1>1. CASE Load(s)
  <2>1. \A t \in Server \ {s} : server'[t] = server[t]
    BY <1>1 DEF Load, Loaded, Fail, TypeOK
  <2>2. QED
    BY <1>1, <2>1, SameDisk DEF Load, history
<1>2. CASE Truncate(s)
  <2>1. /\ server'[s].files = server[s].files /\ server'[s].loaded = server[s].loaded
        /\ server'[s].pc = "write" /\ \A t \in Server \ {s} : server'[t] = server[t]
    BY <1>2, ToMintOrWriteMoves DEF Truncate, TypeOK
  <2>2. At(server[s])' = FileAt(s) /\ server[s].pc = "mint"
    BY <1>2, <2>1 DEF At, FileAt, Position, Truncate
  <2>3. \A f : Writing(f) => Writing(f)'
    BY <2>1, <2>2 DEF Writing, At
  <2>4. \A f : f = FileAt(s) => Writing(f)'
    BY <2>1, <2>2 DEF Writing
  <2>5. /\ torn' = torn
        /\ \A f \in File : f # FileAt(s) => disk'[f] = disk[f]
    BY <1>2 DEF Truncate, TypeOK, history
  <2>6. QED
    BY <2>3, <2>4, <2>5 DEF ShortHasACause
<1>3. CASE NoDirectory(s) \/ Bind(s)
  <2>1. \A t \in Server \ {s} : server'[t] = server[t]
    BY <1>3 DEF NoDirectory, Bind, Fail, TypeOK
  <2>2. QED
    BY <1>3, <2>1, SameDisk DEF NoDirectory, Bind, history
<1>4. CASE Write(s)
  <2>1. FileAt(s) \in File /\ server[s].start \in Key /\ Short \notin Key
    BY <1>4, FileAtIsFile DEF Write, Short, Key
  <2>2. /\ torn' = torn /\ disk'[FileAt(s)] # Short
        /\ \A f \in File : f # FileAt(s) => disk'[f] = disk[f]
    BY <1>4, <2>1 DEF Write, TypeOK, history
  <2>3. \A t \in Server \ {s} : server'[t] = server[t]
    BY <1>4 DEF Write, Loaded, TypeOK
  <2>4. \A f : Writing(f) /\ f # FileAt(s) => Writing(f)'
    BY <2>3 DEF Writing, At, FileAt, Position
  <2>5. QED
    BY <2>2, <2>4 DEF ShortHasACause
<1>5. CASE WriteFails(s)
  <2>1. FileAt(s) \in File /\ server[s].start \in Key /\ Short \notin Key
        /\ FileAt(s) = At(server[s])
    BY <1>5, FileAtIsFile DEF WriteFails, Short, Key, FileAt, At, Position
  <2>2. \A t \in Server \ {s} : server'[t] = server[t]
    BY <1>5 DEF WriteFails, Fail, TypeOK
  <2>3. CASE torn' = torn \cup {FileAt(s)} /\ disk' = disk
    BY <2>1, <2>2, <2>3, SameDisk
  <2>4. CASE disk' = [disk EXCEPT ![FileAt(s)] = server[s].start] /\ torn' = torn
    <3>1. /\ disk'[FileAt(s)] # Short
          /\ \A f \in File : f # FileAt(s) => disk'[f] = disk[f]
      BY <2>1, <2>4 DEF TypeOK
    <3>2. \A f : Writing(f) /\ f # FileAt(s) => Writing(f)'
      BY <2>1, <2>2 DEF Writing, At
    <3>3. QED
      BY <2>4, <3>1, <3>2 DEF ShortHasACause
  <2>5. QED
    BY <1>5, <2>3, <2>4 DEF WriteFails
<1>6. QED
  BY <1>1, <1>2, <1>3, <1>4, <1>5 DEF Boots

LEMMA BootMoves ==
  ASSUME TypeOK, Shaped, NEW s \in Server, Boots(s)
  PROVE  /\ server'[s].files = server[s].files
         /\ \A t \in Server \ {s} : server'[t] = server[t]
         /\ UNCHANGED <<list, touched, overlapped>> /\ torn \subseteq torn'
<1>1. CASE Load(s)
  <2>1. server[s].pc = "load" /\ FileAt(s) \in File
    BY <1>1, FileAtIsFile DEF Load
  <2>2. UNCHANGED <<list, touched, overlapped, torn>>
    BY <1>1 DEF Load, history
  <2>3. \/ disk[FileAt(s)] \in Key /\ Loaded(s, disk[FileAt(s)])
        \/ server' = [server EXCEPT ![s].pc = "mint"]
        \/ Fail(s, "missing") \/ Fail(s, "short")
    BY <1>1 DEF Load
  <2>4. QED
    BY <2>1, <2>2, <2>3, LoadedMoves, ToMintOrWriteMoves, FailMoves DEF TypeOK
<1>2. CASE Truncate(s)
  BY <1>2, ToMintOrWriteMoves DEF Truncate, history, TypeOK
<1>3. CASE NoDirectory(s)
  BY <1>3, FailMoves DEF NoDirectory, history, TypeOK
<1>4. CASE Write(s)
  <2>1. server[s].start \in Key
    BY <1>4, FileAtIsFile DEF Write
  <2>2. QED
    BY <1>4, <2>1, LoadedMoves DEF Write, history, TypeOK
<1>5. CASE WriteFails(s)
  BY <1>5, FailMoves DEF WriteFails, TypeOK
<1>6. CASE Bind(s)
  BY <1>6, BindMoves DEF Bind, history
<1>7. QED
  BY <1>1, <1>2, <1>3, <1>4, <1>5, <1>6 DEF Boots

\* A start by itself finds a short file only where a writer died, and misses a key only
\* where the operator put it on the list.
LEMMA BootFailures ==
  ASSUME TypeOK, Shaped, KeyInv, FailInv, NEW s \in Server, Boots(s), ~overlapped
  PROVE  Failure(server[s])'
<1>1. CASE Load(s)
  <2>0. server[s].pc = "load" /\ FileAt(s) \in File /\ Starting(s) /\ UNCHANGED <<torn, touched>>
    BY <1>1, FileAtIsFile DEF Load, Starting, history
  <2>1. CASE disk[FileAt(s)] \in Key /\ Loaded(s, disk[FileAt(s)])
    <3>1. server'[s].pc \in {"load", "bind"}
      BY <2>0, <2>1, LoadedMoves DEF TypeOK
    <3>2. QED
      BY <3>1 DEF Failure
  <2>2. CASE server' = [server EXCEPT ![s].pc = "mint"]
    <3>1. server'[s].pc = "mint"
      BY <2>0, <2>2, ToMintOrWriteMoves DEF TypeOK
    <3>2. QED
      BY <3>1 DEF Failure
  <2>3. CASE disk[FileAt(s)] = None /\ ~Active(s) /\ Fail(s, "missing")
    <3>1. /\ server'[s].files = server[s].files /\ server'[s].loaded = server[s].loaded
          /\ server'[s].why = "missing"
      BY <2>0, <2>3, FailMoves DEF TypeOK
    <3>2. At(server[s])' = FileAt(s)
      BY <3>1 DEF At, FileAt, Position
    <3>3. /\ Len(server[s].files) \in Nat /\ Position(s) \in 1 .. Len(server[s].files)
      BY <2>0, Lengths, AtIsFile DEF TypeOK, Shaped, Shape, Position
    <3>4. Position(s) < Len(server[s].files) /\ Len(server[s].files) > 2
      BY <2>3, <3>3 DEF Active
    <3>5. touched # {} /\ FileAt(s) \in KeyFile
      BY <3>3, <3>4 DEF FailInv, Listed, FileAt
    <3>6. QED
      BY <2>0, <3>1, <3>2, <3>5 DEF Failure
  <2>4. CASE disk[FileAt(s)] = Short /\ Fail(s, "short")
    <3>1. /\ server'[s].files = server[s].files /\ server'[s].loaded = server[s].loaded
          /\ server'[s].why = "short"
      BY <2>0, <2>4, FailMoves DEF TypeOK
    <3>2. At(server[s])' = FileAt(s)
      BY <3>1 DEF At, FileAt, Position
    <3>3. ~Writing(FileAt(s))
      BY <2>0 DEF KeyInv, Solo, Starting, Writing
    <3>4. FileAt(s) \in torn
      BY <2>0, <2>4, <3>3 DEF FailInv, ShortHasACause
    <3>5. QED
      BY <2>0, <3>1, <3>2, <3>4 DEF Failure
  <2>5. QED
    BY <1>1, <2>1, <2>2, <2>3, <2>4 DEF Load
<1>2. CASE Truncate(s)
  <2>1. server'[s].pc = "write"
    BY <1>2, ToMintOrWriteMoves DEF Truncate, TypeOK
  <2>2. QED
    BY <2>1 DEF Failure
<1>3. CASE NoDirectory(s) \/ WriteFails(s) \/ Bind(s)
  <2>1. server'[s].pc = "serving" \/ server'[s].why \in {"dir", "io", "address"}
    BY <1>3, FailMoves, BindMoves DEF NoDirectory, WriteFails, TypeOK
  <2>2. QED
    BY <2>1 DEF Failure
<1>4. CASE Write(s)
  <2>1. server[s].start \in Key
    BY <1>4, FileAtIsFile DEF Write
  <2>2. server'[s].pc \in {"load", "bind"}
    BY <1>4, <2>1, LoadedMoves DEF Write, TypeOK
  <2>3. QED
    BY <2>2 DEF Failure
<1>5. QED
  BY <1>1, <1>2, <1>3, <1>4 DEF Boots

LEMMA BootKeepsFailures ==
  ASSUME TypeOK, Shaped, KeyInv, FailInv, NEW s \in Server, Boots(s)
  PROVE  FailInv'
<1>1. ShortHasACause'
  BY BootShorts DEF FailInv
<1>2. Listed'
  BY BootMoves, ListedMoves DEF FailInv
<1>3. ASSUME ~overlapped', NEW t \in Server PROVE Failure(server[t])'
  <2>1. ~overlapped /\ torn \subseteq torn' /\ touched' = touched
    BY <1>3, BootMoves
  <2>2. CASE t = s
    BY <2>1, <2>2, BootFailures
  <2>3. CASE t # s
    <3>1. server'[t] = server[t] /\ Failure(server[t])
      BY <2>1, <2>3, BootMoves DEF FailInv
    <3>2. QED
      BY <2>1, <3>1 DEF Failure, At
  <2>4. QED
    BY <2>2, <2>3
<1>4. QED
  BY <1>1, <1>2, <1>3 DEF FailInv

LEMMA StartKeepsFailures ==
  ASSUME TypeOK, Shaped, FailInv, NEW s \in Server, Start(s)
  PROVE  FailInv'
<1>1. /\ server'[s].files = Append(list, CookieFile) /\ server'[s].pc = "load"
      /\ \A t \in Server \ {s} : server'[t] = server[t]
      /\ UNCHANGED <<disk, list, torn, touched>> /\ (overlapped => overlapped')
      /\ server[s].pc # "write"
  BY StartMoves DEF Start
<1>2. ShortHasACause'
  BY <1>1, SameDisk DEF FailInv
<1>3. Listed'
  <2>1. list \in Seq(KeyFile) /\ Len(list) \in Nat
    BY DEF TypeOK
  <2>2. /\ Len(server'[s].files) = Len(list) + 1
        /\ \A i \in 1 .. Len(list) : server'[s].files[i] = list[i]
    BY <1>1, <2>1, AppendProperties
  <2>3. \A i \in 1 .. Len(server'[s].files) :
          i < Len(server'[s].files) => server'[s].files[i] \in KeyFile
    BY <2>1, <2>2
  <2>4. Len(server'[s].files) > 2 => touched # {}
    BY <2>1, <2>2 DEF FailInv, Listed
  <2>5. QED
    BY <1>1, <2>3, <2>4 DEF FailInv, Listed
<1>4. ASSUME ~overlapped', NEW t \in Server PROVE Failure(server[t])'
  BY <1>1, <1>4 DEF FailInv, Failure, At
<1>5. QED
  BY <1>2, <1>3, <1>4 DEF FailInv

LEMMA KillKeepsFailures ==
  ASSUME TypeOK, Shaped, FailInv, NEW s \in Server, Kill(s)
  PROVE  FailInv'
<1>1. /\ server'[s] = Down /\ \A t \in Server \ {s} : server'[t] = server[t]
      /\ UNCHANGED <<disk, list, touched, overlapped>> /\ torn \subseteq torn'
      /\ server[s].pc = "write" => FileAt(s) \in torn'
  BY KillMoves DEF Kill
<1>2. Down.pc = "down" /\ Len(Down.files) = 0
  <2>1. Down.pc = "down" /\ Down.files = <<>>
    BY DEF Down
  <2>2. QED
    BY <2>1
<1>3. ShortHasACause'
  BY <1>1, SameDisk DEF FailInv, FileAt, At, Position
<1>4. Listed'
  BY <1>1, <1>2 DEF FailInv, Listed
<1>5. ASSUME ~overlapped', NEW t \in Server PROVE Failure(server[t])'
  BY <1>1, <1>2, <1>5 DEF FailInv, Failure, At
<1>6. QED
  BY <1>3, <1>4, <1>5 DEF FailInv

LEMMA OperatorKeepsFailures ==
  ASSUME TypeOK, Shaped, FailInv,
         \/ MakeDirs \/ DropOld
         \/ \E f \in File : RemoveFile(f)
         \/ \E f \in KeyFile : Prepend(f)
  PROVE  FailInv'
<1>1. /\ UNCHANGED <<server, torn, overlapped>> /\ touched \subseteq touched'
      /\ \A g \in File : disk'[g] \in {disk[g], None}
      /\ list' = list \/ Len(list') = 1 \/ touched' # {}
  <2>1. CASE MakeDirs
    BY <2>1 DEF MakeDirs, history, TypeOK
  <2>2. CASE DropOld
    BY <2>2 DEF DropOld, history, TypeOK
  <2>3. ASSUME NEW f \in File, RemoveFile(f)
        PROVE  /\ UNCHANGED <<server, torn, overlapped, list>> /\ touched \subseteq touched'
               /\ \A g \in File : disk'[g] \in {disk[g], None}
    BY <2>3 DEF RemoveFile, TypeOK
  <2>4. ASSUME NEW f \in KeyFile, Prepend(f)
        PROVE  /\ UNCHANGED <<server, torn, overlapped, disk>>
               /\ touched \subseteq touched' /\ touched' # {}
    BY <2>4 DEF Prepend
  <2>5. QED
    BY <2>1, <2>2, <2>3, <2>4
<1>2. ShortHasACause'
  <2>1. None # Short
    BY DEF None, Short
  <2>2. \A f : Writing(f) => Writing(f)'
    BY <1>1 DEF Writing, At
  <2>3. QED
    BY <1>1, <2>1, <2>2 DEF FailInv, ShortHasACause
<1>3. Listed'
  <2>1. touched # {} => touched' # {}
    BY <1>1
  <2>2. Len(list') > 1 => touched' # {}
    <3>1. CASE list' = list
      BY <2>1, <3>1 DEF FailInv, Listed
    <3>2. CASE Len(list') = 1
      BY <3>2
    <3>3. QED
      BY <1>1, <3>1, <3>2
  <2>3. QED
    BY <1>1, <2>1, <2>2 DEF FailInv, Listed
<1>4. ASSUME ~overlapped', NEW t \in Server PROVE Failure(server[t])'
  BY <1>1, <1>4 DEF FailInv, Failure, At
<1>5. QED
  BY <1>2, <1>3, <1>4 DEF FailInv

\* A start by itself fails at a short file only where a writer died half-way, and for
\* want of an older key only once the operator changed the files.  The list begins with
\* one key at most: the default is one path.
THEOREM LoneStartsServe ==
  ASSUME Len(FirstList) <= 1
  PROVE  Spec => []LoneStartServes
<1>1. Init => FailInv
  <2>1. SUFFICES ASSUME Init PROVE FailInv
    OBVIOUS
  <2>2. \A s \in Server : server[s] = Down
    BY <2>1 DEF Init
  <2>3. Down.pc = "down" /\ Down.files = <<>>
    BY DEF Down
  <2>4. Len(Down.files) = 0
    BY <2>3
  <2>5. ShortHasACause
    BY <2>1 DEF Init, ShortHasACause, None, Short
  <2>6. Len(list) \in Nat /\ Len(list) <= 1
    BY <2>1, WebBootAssumption DEF Init
  <2>7. Listed
    BY <2>2, <2>4, <2>6 DEF Listed
  <2>8. QED
    BY <2>2, <2>3, <2>5, <2>7 DEF FailInv, Failure
<1>2. TypeOK /\ Shaped /\ KeyInv /\ FailInv /\ [Next]_vars => FailInv'
  <2>1. SUFFICES ASSUME TypeOK, Shaped, KeyInv, FailInv, [Next]_vars PROVE FailInv'
    OBVIOUS
  <2>2. CASE Next
    BY <2>1, <2>2, StartKeepsFailures, BootKeepsFailures, KillKeepsFailures,
       OperatorKeepsFailures DEF Next
  <2>3. CASE UNCHANGED vars
    BY <2>1, <2>3 DEF vars, FailInv, ShortHasACause, Writing, Listed, Failure, At
  <2>4. QED
    BY <2>1, <2>2, <2>3
<1>3. FailInv => LoneStartServes
  BY DEF FailInv, Failure, LoneStartServes, At, FileAt, Position
<1>4. QED
  BY <1>1, <1>2, <1>3, TypesAndShapes, KeysKept, PTL DEF Spec
=============================================================================
