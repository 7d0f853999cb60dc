# Verification of tassle

tassle is a workspace of small Rust crates and a TypeScript tool around one
idea: a mage's quintessence, kept in records on AT Protocol servers. A listener
follows the network's link stream and runs *flights* (phased jobs) for chats and
acts that concern it; a ledger folds those events per actor; a sheet client keeps
the balance on the actor's `actor.rpg.stats` record. This directory holds TLA+
modules of those parts, TLC configurations that check them on small instances,
and TLAPS proofs of the properties that matter most.

## 1. Inventory

### What the parts are, and what state each keeps

| part | source | state | operations | talks to |
|---|---|---|---|---|
| phased jobs | `crates/tass-phase` | a machine's state, an executor's set of jobs | `run`, `FsmJob::new/resume`, `Executor::spawn/next/drain` | a `Driver` (awaited) |
| event loop | `crates/tass-engine` | the executor, whether the source ended | `run` (biased `select!`), `route`, `dispatch_one` | source, dispatcher, commands |
| link source | `crates/tass-spacedust` | one websocket, read position | `next_event`, `SpacedustSource::next` | hydrator (awaited inside `next`) |
| hydrator | `crates/tass-slingshot` | none | `hydrate` | HTTP |
| flights | `crates/tass-chat-enervate`, `tass-act-enervate` | one machine each | `next_event`, `effect`, `handle` | `tass-repo` (awaited) |
| listener binary | `crates/tass-listen` | none | wires the above together, order of registration | |
| ledger | `crates/tass-ledger` | one fjall database per DID, a bounded pool of handles | `append_events`, `commit_fold`, three reads, `forget` | disk, from any thread |
| quint value | `crates/tass-quint` | none (pure) | `points`, `add_millis`, `resolve`, `sheet_patch`, `classify` | |
| sheet client | `crates/tass-repo-mage` | none of its own; the record on the PDS | `read_report`, `write_with`, `adjust_with` | PDS, two or three calls each |
| repo client | `crates/tass-repo` | none | resolve, get, list | PDS |
| accounts | `crates/tass-config`, `tass-cli` (`auth`, `config`, `profile_config`) | configuration fragments (`config.toml`, `config.toml.d/*.toml`) and a session store on disk | three logins, switch, set, unset, resume for writing and for reading | PDS, browser; each command is a process |
| web | `crates/tass-web`, `tass-web-auth` | signing keys and cookie key on disk | load-or-generate, merge, bind; OAuth routes | browser, PDS; each server is a process |
| TypeScript login | `src/src/auth` | `auth/<did>.json`, `state/<token>.json`, `session.json` | login over a loopback port, restore and refresh, logout | browser, OAuth client, PDS |
| TypeScript tool | `src/src/commands` | PDS records | meditate, tassilize, mint, `patchMageSheet` | PDS |
| types, lexicons, build tools | `tass-lex*`, `tass-codegen`, `tass-validate`, `xtask`, `tass-output` | none | generated or batch | |

### What is hard

* **Listener.** One task interleaves a source, its hydration, and every flight.
  The `select!` drops the source's future whenever a flight completes; the source
  may by then hold a link. Order of the arms, draining before the return, and slow
  flights beside fast ones are all decided by a few lines nobody tests together.
* **Jobs.** The phase advances before the effect is awaited, so a failure there is
  neither undone nor retried; `resume` starts from the phase.
* **Ledger.** A pool that closes handles others still use and hides handles it has not
  closed yet, a directory lock per open database, `forget` in two steps, and crashes between commit and persist.
* **Sheet.** Get and put without swap, by several commands and by clients that
  know only half of the fields; drift is inferred from two timestamps.
* **Accounts.** A login is a row of reads, edits and rewrites of small files, each
  of which truncates first; nothing locks, any number of commands run at once, and
  a command resolves its profile long before it uses it. What a fragment says, what
  the store holds and where the account lives can drift apart in every order.
* **Keys.** A server generates what it does not find; two may look at once, and a
  writer may die between the truncation and the bytes.
* **Loopback login.** The port is part of the client's identity; a timer, several
  callbacks and stale browser pages meet one server; tokens are stored by the
  OAuth client before the login records whose they are, and may be refreshed or
  dropped by it meanwhile; a failed deletion goes unnoticed.

What makes each part correct is stated in section 4; PROJECT.json lists the
hazards line by line.

## 2. Modules

| module | models | state and actions against the code |
|---|---|---|
| `Phase` | `tass-phase`, any machine and driver | `job[j]` is an `FsmJob` on the executor; a step is the code between two awaits of `run`. `FirstPoll` enters `run`, `NextEvent` is an answer and `consume`, `EffectDone/EffectFails` the awaited effect, `Resume` is `FsmJob::resume`, of a phase the job was left in, terminal ones included |
| `Flights` | the two enervate machines, what their drivers can answer, their `Outcome` | tables, for `Phase` and `Listener` |
| `EventLoop` | what the listener promises of the link stream (abstract) | one status per link |
| `Listener` | source, hydration, `select!`, dispatcher and flights in one task | composes `Phase` (as `P`) and `Flights`; implements `EventLoop` |
| `FjallStore` | the ledger store, used by any threads | `th[t]` is a call's program counter and handle; `cached` the pool, `expired` its entries that lookups no longer see; `disk`, `journal`, `durable` the databases |
| `Quint` | the pure value and the coherence rule | operators |
| `QuintSheet` | `tass quint set` and `inc` and the TypeScript `patchMageSheet` on one record, beside other clients | a step is one XRPC call: `Read`, `Fetch`, `Put`; `Fails` at any of them. `Edited` and its users are clients that are not tassle's |
| `Accounts` | `tass-config`, the account commands of `tass-cli`, `tass-repo`'s `point` | `cmd[c]` is a process; `file` the fragments, `session` the store, `home` where accounts live. A login is `StoreLogin` (app password or OAuth) or `BareLogin`, the network's answer (`AppAnswered`, ...), then for each key `EditRead`, `EditTruncate`, `EditWrite`; a client is `Writer` or `Reader` and how it resumes. `Crash` anywhere, `Move` by an account |
| `WebBoot` | the start of `tass-web` and the keys of `tass-web-auth` | `server[s]` is a start: it loads its files in order, minting what is missing, then binds. `Kill` anywhere; the operator makes directories, removes files, puts a new key first and drops the old |
| `LoopbackLogin` | the TypeScript login, `getAgent` and logout | `proc[c]` is a command; `session`, `info` and `pending` the files. `Callback` starts a request to the server, `Exchanged` stores tokens, `ProfileRefreshed` and `ProfileDrops` are what the OAuth client does to them inside `getProfile`, `Save` records the account; `Timeout`, failures and `Kill` in between. `Logout` deletes or fails to, then `ClearInfo` |
| `MCPhase`, `MCFjallStore`, `MCQuintSheet`, `MCAccounts`, `MCWebBoot` | constants for TLC | the burn chain of `tests/burn_chain.rs` and a machine whose effect leads into a terminal phase, which the library accepts and the repository has none of; directories by DID; four millis to the point; two actors on two servers; two servers and one rotation |
| `PhaseProofs`, `ListenerProofs`, `FjallStoreProofs`, `QuintSheetProofs`, `AccountsProofs`, `AccountsLoginProofs`, `WebBootProofs`, `LoopbackLoginProofs` | theorems and proofs | |

Definitions introduced as *slips* are variants of the definition that follows
them with a plausible mistake in it; PROJECT.json pairs each with the property
that catches it. They are in no next-state relation.

### What the models abstract

* Text, JSON and URLs are gone: a frame is one of the outcomes the code tells
  apart (skipped, undecodable, a link, ping, close), a body decides two booleans.
* The chat flight's first phase awaits a DID resolution and a `listRecords`. They
  are one await here: nothing of the flight's state changes between them, both are
  parked on the network and both fail the same way.
* An error while answering a ping and a websocket error are each reported once
  and read on or over; the text of reports is left out.
* In `FjallStore` moka is external: an entry may expire whenever nobody touches it, and
  leaves the pool at some later call, or is replaced when its DID is opened again. When
  moka runs its maintenance is left open, so the models hold for every schedule of it. A batch records which of events, cursor and snapshot it carries,
  not their contents. `remove_dir_all` either removes the directory or fails; a
  removal that stops half-way leaves a database fjall may or may not open and is
  not modelled. An `append_events` with no events is an empty batch.
* In `QuintSheet` every field but the five the code looks at is one number,
  `rest`: what `patchMageSheet` writes is part of it, since it works on the record's
  `mage` key and the Rust client on its `data` block. A time given with `--at` is earlier or later than every clock reading.
  `from_points_f64` and the range note of the command line have no part in it.
* In `Accounts` a fragment is the seven keys some command reads or writes, `note`
  standing for every other; `id`, `created_at` and `session_id` are data nobody
  branches on. A handle and the DID it resolves to are one value: the network is
  right about who an actor is, and may change its mind about where it lives. The
  session store is external and written in one step. Errors before anything is
  written (a bad selector, a missing directory) are `Ends`. A writer `raced` when it
  truncates over a version it has not read, or while another has the file truncated.
* In `WebBoot` a key is named by the start that generated it; identifiers and the
  merging of key sets are left out; a failing `chmod` is a failed write.
* In `LoopbackLogin` a file is read or written in one step, but for a writer that fails or
  dies half-way: a torn `session.json` is `Torn`, torn tokens are none, which is all that
  `readJson` tells apart. A deletion of tokens or of `session.json` may fail. That of a used
  authorization does not: the server that issued a code redeems it once, so a page sent
  twice fails all the same, at the exchange instead of at the lookup. Which account the user picks is free, stale pages and reused ports
  included; pending authorizations are never cleaned up, as in the code.

## 3. Runs

| run | question | bound, and why it is enough |
|---|---|---|
| `phase` | do failures and resumes ever repeat or reorder effects, does a finished job stay as it is, does every run end | two jobs, each run twice at most; the burn chain has three effects, so a job can fail before, in and after each; the second machine's effect can fail on the way into its terminal phase |
| `listener` | what can be lost and to whom, order, drain, truthful outcomes; refinement of `EventLoop`; slow never blocks fast; `run` returns after the stream | four frames: a link lost while hydrating needs two, two losses to two completions need four |
| `link_lost` | is every link dispatched (no) | three frames |
| `ledger_single` | one caller with every operation, crashes and evictions: are acknowledged writes safe and folds atomic | two DIDs, three calls, three directories: write, forget, write again; write, evict, reopen, crash |
| `ledger_pool` | two threads: the same, and what can make an open collide | two threads, two DIDs, three calls: a holder, an evicter and an opener are two threads at most |
| `ledger_forget` | is a write safe when another thread forgets (no) | four calls: write, forget, read in between, write |
| `quint_sheet` | what can be lost, invented or left incoherent on a sheet | two commands or patches at once, two edits by others, two clock values, three kinds of sheet to start from |
| `accounts` | is a profile of one account, is an edit ever lost, is a recorded account stored, does a clean login serve the writers after it, does a token go to another's server | two commands at once, killed anywhere; two accounts, one of which moves once or more; two servers, a custom profile beside `default` and the DIDs', a note, a PDS and a DID set by hand. Two writers are enough to race for a fragment and a third adds only another of the same, which the proofs cover |
| `web_boot` | can two servers end up with different keys, is a key ever generated over, what makes a start fail, does each end | two servers, three starts (so one restarts beside the other), two operations: a repair and a rotation |
| `loopback_login` | do record and tokens name one port, what tokens does a logout leave, is a success on record, does a login end | two processes, two accounts, two ports, three commands, two requests to a login: a login displaced, crossed over or logged out needs three commands, a late or doubled callback two requests |
| `quint_unstamped` | does every write leave the sheet coherent (no) | one command after another |
| `quint_negative` | is the whole-point view the floor (no) | one command after another |

`CHECK_DEADLOCK FALSE` is set where the system may stop: jobs all over, a
listener that returned or whose stream is silent, and the bounds on calls.

### The four runs that end in a violation

* **`link_lost`.** `select!` at `tass-engine/src/lib.rs:169` drops a source future
  that has taken a link and is hydrating it. `CompletionsPayForLosses` bounds it:
  one link for each chat flight that completes, never more, and none if no flight
  waits for the network.
* **`ledger_forget`.** A thread reopens a DID between `forget`'s invalidation and
  its `remove_dir_all`; the pool then hands out a database whose directory is gone.
* **`quint_unstamped`.** A write with `--unstamped` leaves an old milli stamp under a
  new `updatedAt`, which the client's own reads then report as someone else's edit.
* **`quint_negative`.** `points()` truncates: a balance of -250 milli is shown as 0.

## 4. Fairness

`Phase`: weak fairness of each job's step. The executor is a `FuturesUnordered`,
which polls every woken job, and the `Driver` contract requires its futures to
resolve. `Listener`: weak fairness of the task only: when a job or the return can
go on without the network, the runtime polls it. No reply is assumed, since no
request has a timeout. The two liveness properties are therefore conditional:
*if* the reads of this job (of all jobs) are answered, then it is handled (then
`run` returns). `WebBoot`: weak fairness of each start's own steps: file reads, writes
and `bind` return, nothing in a start waits for another process. `LoopbackLogin`: weak
fairness of the login's timer alone, which Node fires while its event loop runs; the
browser and the network owe nothing, and `LoginEnds` needs nothing of them.
`Accounts`, `FjallStore` and `QuintSheet` state safety only: their commands wait for the
network without a timeout or are calls that return.

## 5. Proofs

TLC says whether a formula holds on one small instance; the theorems below hold for
every value of the constants that meets the module's assumptions. Each argument
is an invariant of all actions from which the property follows.

`PhaseProofs` (any machines, any number of jobs and runs):

* `FinishesForGood` (`Spec => FinishedForGood`): a job that is queued in a terminal
  phase, or has ended there, stays in that phase, whatever is resumed and polled: it is
  only ever queued, or ended with a final value. It needs that what ends a run as final
  is the phase alone, and that an effect is never owed by a job that is queued.
* `TypeCorrect` and `FailuresCostOne` (`Spec => []OneGapPerFailure`). One invariant gives both, job by job: a result
  only when ended, an effect owed exactly while one is awaited, and the effects not
  performed at most one for each run that failed and one under way. `OneGapPerFailure`
  alone does not survive a resume: it needs that a run going on has no result and that
  a job awaiting its effect is one behind. Of the assumptions
  on machines only the bound is used: a job may run at least once.
* `ForwardEffectsOnce`: `EffectAtMostOnce` for machines whose phases have a depth that
  grows along every edge, edges with one effect leading equally deep (every machine
  of the repository is such). The invariant: whatever a job performed lies behind
  its phase, once, and the effect it owes is not among it. Resuming keeps the phase.

`ListenerProofs` (streams of any length):

* One invariant. `Lives` lists every place a chat or an act flight can be in, with what
  it then owes, has performed and will report; `Booked` ties each position to the
  flight made of it (dispatched exactly if it has one, held exactly while it is the
  last taken and hydrating); `Turns` says what the biased `select!` leaves: while the
  source waits for the network, every active flight has been polled and is a chat.
* `TypeCorrect`, `LossesArePaidFor`, `CommandsStartFirst`, `NothingIsLeft`, `OutcomesAreTrue`
  and `DriversKeepTheContract` follow. `CommandsStartFirst` is not inductive alone: an
  act could be spawned while the source waits, were it not for `Turns`.
* `ListenerIsEventLoop`: `Spec => ImplementsEventLoop`. Taking a frame is the abstract
  arrival, letting go of a hydrated link is its loss, a flight's end is its handling;
  polls, hydration and all other steps leave every link's status as it was.

`FjallStoreProofs` (any threads, DIDs, directories and bounds):

* `TypeCorrect`: `Spec => []TypeOK`.
* `StepKeepsSynced`: no step, a crash included, changes a synced batch. This is
  the lemma that makes durability inductive.
* `AckedWritesSurvive`: a write that returned Ok stays in the synced journal of the
  database a reopen of its DID finds. It assumes `DirsDistinct` (`did_dir` is
  one-to-one on the DIDs in use; its comment says it need not be for exotic
  did:web) and `SafeUse` (one thread, or no `forget`): `ledger_forget` shows it false
  without the second. `AckedSurvives` alone is not inductive: a handle could point
  at another database than the directory does. The invariant adds that the pool
  and every held handle are the incarnation under the directory, that a command
  about to persist has its batch in that journal, and that calls are numbered.
* `CollisionsHaveCauses` (`Spec => []CollisionHasACause`): an open meets a locked directory
  only through a handle the pool has let go of and another thread uses, or through the
  DID's own entry, expired and not dropped yet. It needs `DirsDistinct` and one opener per DID, and no `SafeUse`.
* `FoldsAreAtomic`: `Spec => []FoldAllOrNothing`, without `SafeUse`. One batch per call:
  every batch in a journal is the whole of its call, no two batches there are of one
  call, and a command that has yet to commit has none.

`QuintSheetProofs` (any commands, amounts, stamps and edits):

* `StampedWritesInSync`: `Spec => []DriftHasACause`, from the fact that a command's time
  is a clock reading.
* `OnlyRacesLose`: `Spec => []LossesNeedARace`. The invariant says what a command carries
  while the record is still at the version it first read: the balance it will put is
  the one the history expects.
* `RacesInventNothing`: `Spec => []BalanceIsASubsum`, races included. `reach` is the history
  of all balances that the ones set outright and the increments that landed since, each
  at most once, may add up to, by `add_millis` and so with its saturation. The invariant
  (`Reached`): the record and every record a command has fetched hold such a balance, and
  an increment under way is to put its own amount on top of one. Because `reach` only
  grows, a command's stale copy stays accounted for, and because an increment enters it
  only when it lands, none counts twice.
* `StampedOnlyIsCoherent` and `ViewsFloorWhileNonNegative` say how far the two documented
  promises go that `quint_unstamped` and `quint_negative` refute: the first holds without
  the options for no stamp and for an earlier time, the second where neither a command
  nor the record it starts from has a negative amount, since sums in `reach` then have none.
* `AddMillisBounded` and `PointsFloorsNonNegative`: `add_millis` stays within `i64` and is
  exact whenever the sum is, and `points` is the floor on balances that are not
  negative.

`AccountsProofs` (any number of commands, accounts, servers and profiles):

* `TypeCorrect`: fragments stay documents whose selector names a drop-in, and a command
  that writes has a fragment and a non-empty list of edits.
* `EditsSurvive`: `Spec => []SettingsSurvive`. The invariant, fragment by fragment, for
  those nobody raced for or tore: either nobody has it truncated and it is what the
  edits so far make of it, or exactly one command has, and holds that in memory.
* `TokensStayHome`: `Spec => []ReadTokensStayHome`, from the guard in `point`, and from the
  fact that servers are added to where an account has lived and never taken away.

`AccountsLoginProofs` (the same, and at least one account): one invariant, `LoginInv`, for
three properties that look independent and are not.

* Everything is said of the *texts* of a fragment, its file and what a writer that
  truncated it will write back, and of `want`, what the edits so far make of it. Only
  `EditWrite` changes `want`, and only a race makes a text say anything else (`Fades`; an
  empty text is one a writer has truncated, or died on).
* `Plan` is what an editor is about to do: a login's session is stored before its first
  edit, each of its edits writes what its account calls for, an OAuth login that writes
  a DID writes the mode after it, and a cause is on record before an edit by hand. A login that meets
  no other is alone on its fragment (`AloneOn`).
* `ProfilesAreOfOneAccount` (`Spec => []OneAccountPerFragment`): in a fragment without a
  cause, what a login under way has written of `want` is its account's, and once no login
  is under way the DID, handle and PDS are all of one account, or none was ever written
  (`OneOwner`). The half-way form is what makes it inductive.
* `RecordedLoginsAreStored` (`Spec => []RecordedAfterStored`): every DID of any text has a
  session, even one a race brought back, because sessions are never removed (`DidsKnown`).
  That the session is of the kind the mode asks for needs more, of every text and of
  what logins under way have yet to write (`Matched`).
* `CleanLoginsServe` (`Spec => []CleanLoginServes`): when a login comes to a sound end its
  fragment names an account with a session of its own and a server it has lived on;
  a writer that starts then carries both (`Served`), so no later step of others can refuse it.
* The proof changed the model once: a DID set by hand is a cause of its own (`named` in
  `taint`). Without it `RecordedAfterStored` held in the runs only because no run set a
  DID, and is false as soon as one does; `accounts` now does.
* The assumption that there is an account is new with `OneAccountPerFragment`: without any,
  nobody logs in and a fragment is of none.

`WebBootProofs` (any servers, files, starts and operations):

* `TypeCorrect`; `KeysAreKept` (an action property) and `ForksNeedAnOverlap`. While no
  start has overlapped another, at most one server is starting, what it is about to
  write is still missing, and what every server loaded is on disk unless the operator
  touched the file.
* `LoneStartsServe`, when the service lists at most one key file at first: a short file
  has a writer that died, and later files of the list were put behind by the operator.
  With a longer first list a start fails on the second file, as the code says.

`LoopbackLoginProofs` (any processes, accounts, ports and commands):

* `TypeCorrect`; `RecordedPortsMatch` and `LogoutsLeaveNoTokens` from one invariant: every
  account with tokens is on record under their port, or displaced, or owed by a
  request that has stored and not yet recorded, or crossed over, or was to be deleted
  by a logout that could not; a logout half-way counts as on record. Steps that only
  take tokens away (`TokensLost`) and steps that store them (`TokensStored`) are each one
  lemma, whoever takes them. `LoggedOutLeavesNoTokens` alone is not inductive: a login that
  displaces an account must know its tokens were accounted for before.
* `SuccessesAreOnRecord` (an action property): a command that never met another has
  the tokens and the record to itself, so what its request stored is still there when
  it ends, unless its own client lost it: `lost` records torn writes and refused refreshes.

Every type invariant and safety property that a run finds to hold is a theorem. Four
theorems have hypotheses beside the modules' assumptions, each given above:
`AckedWritesSurvive` and `CollisionsHaveCauses` (distinct directories, the first also
safe use), `LoneStartsServe` (at most one key at first) and `ForwardEffectsOnce`
(machines that go forward). Only model-checked are the liveness properties `RunEnds`,
`SlowNeverBlocksFast`, `ReturnsAfterStream`, `StartsEnd` and `LoginEnds`: liveness under
fairness is out of the prover's reach.

## 6. What the code does and its text says otherwise

The four violations above are runs. The following were met while modelling; the
models follow the code.

* `repo list` and `mage list` say their target is by default the "active tassle profile"
  (`commands/repo.rs:24`, `commands/mage.rs:28`), but they and `auth set` use
  `default_profile` and ignore the selector.
* A login under the name `default` writes `config.toml.d/default.toml`, which no resolution
  loads. In `Accounts` such a fragment is `default` in `Stem` and serves nobody.
* The write client resumes an app-password session whatever `auth_mode` says;
  `WriterResumes` and `CleanLoginServes` are about app-password logins for that reason.
* `@active-if-available` is said to fall back and never to error (`tass-config/src/config.rs:92`), but a session
  that is found and fails to resume is an error.
* The keys are "generated on first run" (`oauth.md`, `cookie_key.rs:1`) only once somebody
  has made their directories: a start on a fresh state directory fails (`why = "dir"`
  in `WebBoot`, with a run's `MakeDirs`). A file that is short is never repaired.
* The redirect of a loopback client is derived from the configured bind, or 3000, and not
  from `--bind` (`metadata.rs:85`).
* The only collision left on opening a database is said to be with "an evicted handle"
  that "is still held live elsewhere, which the single-threaded listener fold does not
  hit" (`fjall_store.rs:76-79`). With `time_to_idle` (line 92) moka hides an entry when its
  time is over and drops it when its maintenance next runs: a touch in between opens a
  directory the pool itself has locked, with one thread and nothing held elsewhere.
  `CollisionHasACause` says that these two are all the ways an open can collide.
* The TypeScript logout says it clears the stored session; tokens of accounts a later
  login displaced, or of a login that died before recording, stay in `auth/`, and so do
  those of the very account when the deletion fails, since `removeFile` ignores every
  error ("ignore missing", `file-store.ts:40`) and `session.json` is cleared all the same.
  `LoggedOutLeavesNoTokens` allows these, two commands that crossed, and nothing else.
* A login reports success although the tokens it stored may be gone: `getProfile` goes
  through the new session, whose client deletes the tokens when a refresh fails, and the
  error is ignored (`agent.ts:116-121`). `SuccessIsOnRecord` allows this (`lost`) and says
  that nothing else takes them.

## 7. Not modelled, and the plan

About 31,000 of the repository's 43,000 lines of implementation are generated record types of
`tass-lex` and `tass-lex-rpg`: declarations, builders and validators without state or
order. They, the lexicons, the samples, the build tools, output formatting and the
tailscale lookup have no behaviour to model, so the share of lines the map covers stays
small whatever is added; of the code that decides something most is mapped.

Modelled in part: the spacedust and slingshot wire formats, the server's routes (one
request each, no state but the session cookie kept by a library), commands that make
one call, the lifecycle checks on where the session store is.

What is left, most important first:

1. `FjallStore` contents: folds committed in another order than computed, cursor against
   snapshot as two reads, two DIDs in one directory. No caller folds yet.
2. `QuintSheet` beside a retrying client, when the client learns to retry.
