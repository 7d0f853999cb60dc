------------------------------ MODULE WebBoot -------------------------------
(***************************************************************************)
(* How tass-web comes by its secrets.  A start loads the client-auth keys, *)
(* in the order of keyset_paths, then the cookie key, then binds its        *)
(* address.  The first key file and the cookie key are generated when they *)
(* are missing: a read that finds nothing, then fs::write (truncate, write)*)
(* without a lock.  Servers may start beside each other, be killed         *)
(* anywhere, and be restarted; the operator makes the directories, removes *)
(* a broken file, and rotates the signing key.                             *)
(***************************************************************************)
EXTENDS Integers, Sequences

CONSTANTS
  Server,     \* server processes
  KeyFile,    \* files of client-auth keys
  CookieFile, \* the file of the cookie key
  Addr,       \* addresses
  BindTo,     \* BindTo[s]: --bind, or the service's bind, or the default
  FirstList,  \* keyset_paths at the beginning
  MaxStart,   \* bound: starts
  MaxOp       \* bound: things the operator does to files and configuration

ASSUME WebBootAssumption ==
  /\ CookieFile \notin KeyFile
  /\ BindTo \in [Server -> Addr]
  /\ FirstList \in Seq(KeyFile)
  /\ MaxStart \in Nat /\ MaxOp \in Nat

File == KeyFile \cup {CookieFile}
Key  == 1 .. MaxStart    \* a key is named by the start that generated it
None  == 0     \* no such file
Short == -1    \* truncated, or part of a key: it does not parse, or has another length

VARIABLES
  server,     \* server[s]: where the start stands and what it has loaded
  disk,       \* disk[f]: the key in file f, None or Short
  dirs,       \* the files whose directory exists
  list,       \* keyset_paths
  starts,     \* starts so far
  ops,        \* what the operator has done
  overlapped, \* history: a server started while another was starting
  torn,       \* history: files whose writer died half-way
  touched     \* history: files the operator removed or put on the list

vars == <<server, disk, dirs, list, starts, ops, overlapped, torn, touched>>
history == <<overlapped, torn, touched>>

\* "load": about to read its next file; "mint": it was missing; "write": truncated, not
\* yet written; "bind": everything loaded.  loaded holds the keys of a prefix of files.
ServerState ==
  [pc : {"down", "load", "mint", "write", "bind", "serving", "failed"},
   files : Seq(File), loaded : Seq(Key), start : 0 .. MaxStart,
   why : {"", "dir", "short", "missing", "io", "address"}]

TypeOK ==
  /\ server \in [Server -> ServerState]
  /\ \A s \in Server : Len(server[s].loaded) <= Len(server[s].files)
  /\ disk \in [File -> Key \cup {None, Short}]
  /\ dirs \subseteq File
  /\ list \in Seq(KeyFile)
  /\ starts \in 0 .. MaxStart /\ ops \in 0 .. MaxOp
  /\ overlapped \in BOOLEAN /\ torn \subseteq File /\ touched \subseteq File

Down == [pc |-> "down", files |-> <<>>, loaded |-> <<>>, start |-> 0, why |-> ""]

Init ==
  /\ server = [s \in Server |-> Down]
  /\ disk = [f \in File |-> None]
  /\ dirs \in {{}, File}
  /\ list = FirstList
  /\ starts = 0 /\ ops = 0
  /\ overlapped = FALSE /\ torn = {} /\ touched = {}

Starting(s) == server[s].pc \in {"load", "mint", "write", "bind"}

\* The file a start is at, and whether a missing one may be generated: keyset_files[0],
\* the active signer, and the cookie key.
Position(s) == Len(server[s].loaded) + 1
FileAt(s)   == server[s].files[Position(s)]

\* A slip: only the first file.
ActiveFirst(s) == Position(s) = 1

Active(s) == Position(s) \in {1, Len(server[s].files)}

Fail(s, why) == server' = [server EXCEPT ![s] = [@ EXCEPT !.pc = "failed", !.why = why]]

Loaded(s, key) ==
  server' = [server EXCEPT ![s] =
    [@ EXCEPT !.loaded = Append(server[s].loaded, key),
              !.pc = IF Position(s) = Len(server[s].files) THEN "bind" ELSE "load"]]

-----------------------------------------------------------------------------

\* main up to boot_prod.
Start(s) ==
  /\ server[s].pc \in {"down", "failed"}
  /\ starts < MaxStart /\ starts' = starts + 1
  /\ server' = [server EXCEPT ![s] = [Down EXCEPT !.pc = "load", !.start = starts + 1,
                                                  !.files = Append(list, CookieFile)]]
  /\ overlapped' = (overlapped \/ \E t \in Server \ {s} : Starting(t))
  /\ UNCHANGED <<disk, dirs, list, ops, torn, touched>>

\* A slip: a key of any length will do.
LoadUnchecked(s) ==
  LET f == FileAt(s)
  IN  /\ server[s].pc = "load"
      /\ IF disk[f] = None THEN server' = [server EXCEPT ![s].pc = "mint"]
                           ELSE Loaded(s, disk[f])
      /\ UNCHANGED <<disk, dirs, list, starts, ops, history>>

\* A slip: the active keys are generated at every start.
LoadAfresh(s) ==
  LET f == FileAt(s)
  IN  /\ server[s].pc = "load"
      /\ IF Active(s) THEN server' = [server EXCEPT ![s].pc = "mint"]
                      ELSE disk[f] \in Key /\ Loaded(s, disk[f])
      /\ UNCHANGED <<disk, dirs, list, starts, ops, history>>

\* A slip: a short file is taken for one that is still being written, and waited for.
LoadWaits(s) ==
  LET f == FileAt(s)
  IN  /\ server[s].pc = "load"
      /\ \/ disk[f] \in Key /\ Loaded(s, disk[f])
         \/ disk[f] = None /\ Active(s) /\ server' = [server EXCEPT ![s].pc = "mint"]
         \/ disk[f] = None /\ ~Active(s) /\ Fail(s, "missing")
      /\ UNCHANGED <<disk, dirs, list, starts, ops, history>>

\* load_merged and load_or_generate_at.
Load(s) ==
  LET f == FileAt(s)
  IN  /\ server[s].pc = "load"
      /\ \/ disk[f] \in Key /\ Loaded(s, disk[f])
         \/ disk[f] = None /\ Active(s) /\ server' = [server EXCEPT ![s].pc = "mint"]
         \/ disk[f] = None /\ ~Active(s) /\ Fail(s, "missing")
         \/ disk[f] = Short /\ Fail(s, "short")
      /\ UNCHANGED <<disk, dirs, list, starts, ops, history>>

\* The key is made and fs::write opens the file, whatever is there by now.
Truncate(s) ==
  LET f == FileAt(s)
  IN  /\ server[s].pc = "mint"
      /\ f \in dirs
      /\ disk' = [disk EXCEPT ![f] = Short]
      /\ server' = [server EXCEPT ![s].pc = "write"]
      /\ UNCHANGED <<dirs, list, starts, ops, history>>

\* Nobody creates keyset/ or cookie/.
NoDirectory(s) ==
  /\ server[s].pc = "mint"
  /\ FileAt(s) \notin dirs
  /\ Fail(s, "dir")
  /\ UNCHANGED <<disk, dirs, list, starts, ops, history>>

\* A slip: the result of the write is not looked at.
WriteUnchecked(s) ==
  /\ server[s].pc = "write"
  /\ torn' = torn \cup {FileAt(s)}
  /\ Loaded(s, server[s].start)
  /\ UNCHANGED <<disk, dirs, list, starts, ops, overlapped, touched>>

Write(s) ==
  /\ server[s].pc = "write"
  /\ disk' = [disk EXCEPT ![FileAt(s)] = server[s].start]
  /\ Loaded(s, server[s].start)
  /\ UNCHANGED <<dirs, list, starts, ops, history>>

\* The write or the chmod after it fails.
WriteFails(s) ==
  LET f == FileAt(s)
  IN  /\ server[s].pc = "write"
      /\ \/ torn' = torn \cup {f} /\ UNCHANGED disk
         \/ disk' = [disk EXCEPT ![f] = server[s].start] /\ UNCHANGED torn
      /\ Fail(s, "io")
      /\ UNCHANGED <<dirs, list, starts, ops, overlapped, touched>>

AddressFree(s) ==
  \A t \in Server : server[t].pc = "serving" => BindTo[t] # BindTo[s]

Bind(s) ==
  /\ server[s].pc = "bind"
  /\ IF AddressFree(s) THEN server' = [server EXCEPT ![s].pc = "serving"]
                       ELSE Fail(s, "address")
  /\ UNCHANGED <<disk, dirs, list, starts, ops, history>>

\* Ctrl-C, or the process is killed; either way a start may follow.
Kill(s) ==
  /\ server[s].pc \notin {"down", "failed"}
  /\ server' = [server EXCEPT ![s] = Down]
  /\ torn' = IF server[s].pc = "write" THEN torn \cup {FileAt(s)} ELSE torn
  /\ UNCHANGED <<disk, dirs, list, starts, ops, overlapped, touched>>

-----------------------------------------------------------------------------
(***************************************************************************)
(* The operator.                                                           *)
(***************************************************************************)

MakeDirs ==
  /\ dirs # File
  /\ dirs' = File
  /\ UNCHANGED <<server, disk, list, starts, ops, history>>

RemoveFile(f) ==
  /\ ops < MaxOp /\ ops' = ops + 1
  /\ disk[f] # None
  /\ disk' = [disk EXCEPT ![f] = None]
  /\ touched' = touched \cup {f}
  /\ UNCHANGED <<server, dirs, list, starts, overlapped, torn>>

\* Rotation: a new first file on the list; later the old ones go.
Prepend(f) ==
  /\ ops < MaxOp /\ ops' = ops + 1
  /\ \A i \in DOMAIN list : list[i] # f
  /\ list' = <<f>> \o list
  /\ touched' = touched \cup {f}
  /\ UNCHANGED <<server, disk, dirs, starts, overlapped, torn>>

DropOld ==
  /\ ops < MaxOp /\ ops' = ops + 1
  /\ Len(list) > 1
  /\ list' = <<list[1]>>
  /\ UNCHANGED <<server, disk, dirs, starts, history>>

Boots(s) == Load(s) \/ Truncate(s) \/ NoDirectory(s) \/ Write(s) \/ WriteFails(s) \/ Bind(s)

Next ==
  \/ \E s \in Server : Start(s) \/ Boots(s) \/ Kill(s)
  \/ MakeDirs \/ DropOld
  \/ \E f \in File : RemoveFile(f)
  \/ \E f \in KeyFile : Prepend(f)

Spec == Init /\ [][Next]_vars

\* A process that is starting goes on: nothing in a start waits.
FairSpec == Spec /\ \A s \in Server : WF_vars(Boots(s))

-----------------------------------------------------------------------------
(***************************************************************************)
(* Properties.                                                             *)
(***************************************************************************)

\* Cookies and client assertions of one server are good for the next: what a serving
\* server loaded is what the files hold, so a restart or a second server uses the same
\* keys.  A fork takes two starts beside each other, or an operator's removal.
ForkNeedsAnOverlap ==
  \A s \in Server : server[s].pc = "serving" =>
    \A i \in DOMAIN server[s].files :
      LET f == server[s].files[i]
      IN  server[s].loaded[i] # disk[f] => overlapped \/ f \in touched

\* A key that is there is never generated over: not by a start that finds it, nor by one
\* that failed elsewhere, unless starts overlapped or the operator removed it.
KeysOutliveStarts ==
  [][\A f \in File : disk[f] \in Key /\ disk'[f] # disk[f] =>
       overlapped \/ f \in touched']_vars

\* A start by itself serves: beyond a missing directory, a taken address and a file
\* system error, it fails only at a file whose writer died half-way, or for want of an
\* older key once the operator changed the files, unless another server was starting.
LoneStartServes ==
  \A s \in Server : server[s].pc = "failed" /\ ~overlapped =>
    /\ server[s].why = "short" => FileAt(s) \in torn
    /\ server[s].why = "missing" => touched # {} /\ FileAt(s) \in KeyFile

\* Every start ends: serving, failed, or killed.
StartsEnd == \A s \in Server : Starting(s) ~> ~Starting(s)
=============================================================================
