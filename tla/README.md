# A verification project for htl

htl is a toolchain for Teal and Lua embedded in Rust programs: a checker with a
cache, a language server, a project model with dependencies, a runner that keeps
Lua states on a thread of their own, a library for Lua programs, and generators
of declarations. This directory holds TLA+ modules of its stateful parts, TLC
configurations that check them on small instances, and theorems TLAPS checks
for every value of the constants.

    tlc -workers 2 -config MCWatchdog.cfg MCWatchdog     # any MC*.cfg, with its MC module
    tlapm TimeLimitProofs.tla                            # any *Proofs.tla

`PROJECT.json` lists the components, the runs with their properties, a mutant
per property (a small change of a definition under which the run fails), the
source lines of each definition, the findings, the hazards and the theorems.

## Inventory

### Parts that keep state and meet other actors

| Part | Source | State | Operations | What is hard |
|---|---|---|---|---|
| Deadline watchdog | `htl-core/src/run.rs` (`Deadlines`, `DeadlineState`, `Watched`) | a heap of (instant, id), a map id to token, `next`, `stop`, one mutex, one condition variable | `watch`, drop of `Watched`, `run` (scan, wait), `stop` | lost wake-ups; the heap's stale entries; instants that cannot be represented |
| Runner and VM thread | `htl-core/src/run.rs` (`start`, `Runner`, `Instance`, `RunnerDriver`, `Vm`) | the request channel, a oneshot per request, a token per request, the slots, a stop channel, two threads | `instance`, `call`, `close`, clone and drop of handles, drop of futures, `shutdown`, panic | a future dropped at any await; shutdown while a program runs; parking on two sources |
| Check cache and check runs | `htl-core/src/cache.rs`, `project.rs` | entries on disk with stamp, inputs and probes; their order of use; per run a memo of hashes | lookup, validation, touch, check, store, sweep | edits, additions and removals between runs, other builds, other processes, crashes |
| `std.proc.run` | `htl-std/src/proc.rs` | a child and its group, two readers and their buffers, a deadline, the guard that kills | spawn, wait, drain, kill, reap, drop | what processes do; the future dropped at any await; the deadline in any phase |
| Language server, checks | `htl-cli/src/lsp.rs` | open documents, projects by directory, stale files, what was published | batches of notifications and requests, `check_all`, `check_one`, code actions, formatting, shutdown | batching; the disk written while it works; manifests that change or do not load; clients that do not watch |
| Language server, index | `htl-cli/src/lsp/symbols.rs`, `refs.rs` | an entry by file with text, stamp, closure and uses; what is dirty, whether to walk again, a fingerprint of the inputs | put, event, refresh, fill, forget; symbols and references requests | an entry that is stale when it is used; the disk written between any two reads; clients that do not watch |
| Checked-module store | `htl-core/src/prelude.lua` (`store`, `by_file`, `seed_env`, `store_from`, `globals_below`) | results of walked files by file and by name, shared by every check of a state | seed, walk, serve, store, close | a check must say what it would say had nothing been stored |
| Fix passes | `htl-core/src/fix.rs`, `cmd_fix` | the tree, the outcome of the file in hand, the report | apply, check again, keep, put back | a check that fails half way; fixes that undo each other; a first check served from the store |
| Task layer | `htl-core/src/task.rs` | tasks on an external executor, `Ask`/`Asker` | spawn, ask, ask within, cancel | a late answer after a timeout |
| Packages | `htl-core/src/pkg.rs`, `htl-cli/src/pin.rs` | manifest, lockfile, `vendored/`, `patches/`, the links of `entries/`, `types/` | add, install, update, patch, clean, pin, and the repair of links in every check | one step of several failing; a process killed in between; two processes and a person at once |
| A host's directories | `htl-core/src/pkg.rs` (`TealResolver`), `model.rs` (`install_resolver`) | the checker's table of files by name, whether it is a running host's | serve a `require`, answer a check, read the table again | files dropped in and taken out while modules run and are checked |
| Linking | `htl-core/src/link.rs` | a queue of modules, the names ever queued, the names filed with the host's | take a module, check it, follow its `require`s | a name is followed once, for whoever asks first |
| Registries | `htl-core/src/registry.rs`, `ffi.rs` | a list of installers behind a mutex | register, install all | none: the list is cloned before an installer is called |

### Parts that are functions of their input

The project model and resolver (`model.rs`, `model/resolver.rs`, `resolve.rs`,
`naming.rs`): which file a name is, asked from a file. The bundle format
(`bundle.rs`, `build_target.rs`). Verdict, unused and reporting (`verdict.rs`,
`unused.rs`, `diagnostic.rs`, `config.rs`, `lint.rs`): folds over findings. The
test runner (`testing.rs`): a state per test, in turn. The checker's prelude and
lints (`lib.rs`, `*.lua`, `teal.rs`, `typeindex.rs`), the generators (`dts.rs`,
`dep_dts.rs`, `shapes.rs`, `rsgen.rs`, `htl-macros`), scaffolding and adoption.

### How they interact

* A `Runner` handle sends a request with a cancel token and a oneshot over a
  bounded channel to the VM thread. The VM thread registers the token with the
  watchdog while a program runs. A dropped future cancels its token.
  `RunnerDriver::shutdown` stops the VM thread, which stops the watchdog when it
  ends, and joins both. A program on the VM thread may call `std.proc.run`,
  whose future the watchdog's cancel or the caller's drop ends at an await.
* `htl check` makes a project model, looks each file up in the cache, checks
  what missed, and stores it. Other processes of `htl check` share the store.
* A `TealResolver` looks in its directories at every `require` of a run, and has the
  checker read its table again before a file that is not in it is checked; the
  checker, once told that its table is a running host's, reads it again for a name.
* The linker checks each typed module, and asks the resolver of each name twice: as
  the requiring file and as a run.
* The language server makes a project model and a checker per directory,
  and remembers what each check reached; it does not use the cache.

### What makes each part correct

* Watchdog: a deadline that is registered is enforced, never early, never after
  its guard; nothing it must wake for is missed; the heap stays bounded.
* Runner: every caller is answered or told; a timeout means the program had its
  time; what nobody can name keeps no state; a shutdown completes.
* Cache: a replayed finding is the one a check would make now; a project that
  did not change is all hits; the sweep drops the oldest.
* `std.proc.run`: no output is lost; nothing of the group outlives the call
  that killed it; the call ends at its deadline; no deadlock on a pipe.
* Language server: what the client shows is what a check would say, as far as
  the server was told; a project is rebuilt for all its files; a fix is offered
  for the text it was computed from.
* Index: an answer is what an index made of the files as they are would say.
* Store: the answer of a check does not depend on the checks before it, and a
  file's records are one instance for all who require it.
* Fix passes: a file is left with no more errors than it had, or as it was.
* Packages: the manifest, the copy and the declarations tell the same story after
  every command that returns; the link ends up where they say it leads; what a
  person changed is not overwritten unasked.
* Host directories: a name is the same file to the check and to the run, or an error
  to both; reading the table again settles what it was read again for.
* Link: a bundle that is handed out has, for each name its code asks for, what the
  check of that code saw, and nothing else.

## Plan

In this order, the most important behaviour first; those with a cross are done:

1. x `DeadlineTimer` (abstract), `Watchdog` (implements it), `TimeLimitProofs`
2. x `Runner` (uses `DeadlineTimer`)
3. x `CheckCache`
4. x `Proc`
5. x `Lsp`
6. x `ModuleStore`: what the checks of one state share; `CachesProofs`, of this and of
   `CheckCache`
7. x `LspIndex`: the symbol and reference index by stamp and event
8. x `FixPass`: passes, re-check, put back
9. x `Pkg`: manifest, lockfile, copy, link and declarations, with a crash between
   any two writes; `PkgProofs`
10. x `Resolver`: which file a name is
11. x `HostDirs` (uses `Resolver`)
12. x `Link` (uses `Resolver`); `ResolverProofs`, of `HostDirs` and of `Link`
13. x `RunnerProofs`, `TimeLimitProofs` (of `Proc` too), `FixPassProofs`, `LspProofs`,
    `LspIndexProofs`: the invariants behind every safety property of those modules
14. x `OneDescription` and `LinkedAsChecked` for every project, not only those of
    `MCHostDirs` and `MCLink`
15. `Verdict` and the test runner's harvest of a tree, as folds

Abstract specifications worth stating: the timer (done); a cache that is exact,
which `CheckCache` implements while nothing is edited during a run; a server
whose published findings are a function of the disk when it is idle (the
invariants `PublishedIsCurrent` and `AnswersAreCurrent` say it of each half).

## Modules

### `DeadlineTimer` and `Watchdog`

`DeadlineTimer` is what the runner is promised: a registered token is cancelled
once its duration is over, never sooner, never once the registration has ended.
`Watchdog` is the code: one action per critical section of the mutex, and one
per `notify_one`, which the code calls after it releases the mutex. `heap` and
`live` are the two fields of `DeadlineState`; an id stands for its token, as
each registration has its own. `Scan` is one turn of the loop of `run`: what is
overdue is popped and cancelled, and the thread either ends, or waits, for the
earliest entry or for ever. The condition variable wakes on notify, on its
timeout and spuriously. `DueAt` is `checked_add` with its thirty years;
`Overgrown`/`Rebuilt` are the rebuild a dropped guard makes when stale entries
outnumber the live ones. The refinement maps a token to the instant of its id
while its guard exists.

### `Runner`

One id per future stands for the request, its token and its oneshot. The VM
thread's loop is spelled out: the stop is polled, then the channel, and the
thread parks registered with both. `ServeClose`, `Refuse`, `BeginRun`, `EndRun`
and `Reply` are the stages of `serve`; `Panic` is an unwind in any of them, with
what the drop of each local does. A caller may give up in any state of its
future. Deadlines are `DeadlineTimer`'s actions on the same variables. Values
are left out; every refusal before the run is one outcome.

### `CheckCache`

`Resolve`, `Closure` and `Report` say what a check reads and reports; a report
holds what was read and what each name resolved to, so equal reports mean equal
findings. A process is `Start`, `Lookup` per file, `Check`, `Hash` and
`Publish` per miss, `List` and `Sweep`: each is a point at which other processes,
an edit or a crash may intervene. `StillValid` is `still_valid` with stamp,
inputs and probes; `Hash` hashes after the check, as `store_module` does. Keys
differ by the way the check was invoked. `Drops` counts, as `sweep` does, only what it
removed itself: an entry another process removed since the listing does not make up
for one. Entries are per module; the whole-run
entry and stores without a project model are left out.

### `Proc`

One call of `run`, its two readers, and the processes. A process forks, closes,
writes, leaves the group, exits or does nothing. The awaits of `run` are the
values of `call`; a `Drop` is possible at each. `KillGroup` is
`killpg` and `start_kill`; `Reuse` gives the group's id to a stranger once its
leader is reaped and nobody is in it. `WaitFails` is the error return of
`child.wait()`, which ends the call by the same drops as `Drop`. Pipes hold units, not bytes.

### `Lsp`

The loop takes a message, and those queued behind it are of one batch; all the
server knows of its queue is whether it is empty, so a message's content is
chosen when it is taken. `Opened`, `DidClose`, `DidChangeWatchedFiles` collect
what is stale; `CheckAll` is `check_all` with `drop_moved`; `CheckOne`, `Load`,
`RunCheck` and `Record` are `check_one`, with the disk written between them.
`Offered` is `code_actions`; `Formatting` and `Format` are `formatting`. Text
and the manifest's stamp are read in one step, the closure of a check is read in
one step, and a load for formatting is one step. There is one project with its
files in a directory below it; its three manifests are one value. Hover,
definition and outline read the last check as a code action does. `untold`,
`manUntold` and `compared` are history variables: they say what the server has
not been told, for the properties, and no action reads them but the client's
watcher event, which reports a change that happened.

### `ModuleStore`

A state of the checker holds one store; a check has an environment of its own,
seeded from it. The code keeps an entry alive by two tables, `store` from the name and
`by_file` from the file; `store_from` makes one entry for each name and file it stores, so
that an entry is told by its slot, a name and a file: `entries` has the entries, `store`
and `byFile` say which slot a name or a file leads to, and an entry that neither leads to
is gone. Two names of one file may hold two entries, of which the index has the last.

`Begin` opens a check, `SeedEntry` is one turn of `seed_env` (an entry is seeded only if
its name still finds its file from here), `Frame`, `Require`, `Answered`, `NotFound` and
`FinishFile` are the walk: `require_module` and `tl.check_string`, with the stack of files
being walked; a name being walked is `Circular`. `Delivered` is `deliver_globals`,
`GlobalsBelow` is `globals_below`, a fold over the names of a result with the `visited`
and the memo that the whole recursion shares. `EndCheck` stores the environment
(`StoreFrom`, in whichever order `pairs` gives the names) and says what the check answers:
errors, errors of dependencies, looked up by name, and the closure, looked up by file. A
file's text is what it requires, which globals it declares and which it uses; types are
left out. A cold check has its own environment and is kept out of the store, and is what
a check served from the store is compared with.

### `LspIndex`

One project. `ix` is a `SymbolIndex`: an entry by file with the hash of its text,
its stamp, whether that had settled, its closure and its uses. `Put`, `Event`,
`FirstRefs`, `Fill`, `Moved` and `Revalidated` are its methods. `Save`,
`FileEvent` and `InputsEvent` are the server's messages; a request is `Ask`,
`Stat` and `ReadText` per file, `Refreshed`, then for references `Ready`,
`Pending` and a fill per file (`FillFromCheck`, or `FillReads`, `FillChecks`,
`FillKeeps`), then `Answer`. The disk, which `Write`, `Delete` and `WriteInputs`
change between any two of these steps, keeps a stamp apart from its text: within
two seconds a write of the same length leaves the stamp as it was. The place a
name is declared at is the text of the file that declares it, so a use is stale
exactly when that file's text has changed since the check that made it. `Unusual`
names five courses of events. Four of them the index does not follow (see Findings),
and the properties are checked without; the fifth, `"unsaid"`, a file that goes with
its directory, it follows while no file requires through another, and the run has it.

### `FixPass`

A text is the set of findings it holds, and a fix is what it takes out and
brings in; overlaps and edits that fit nowhere are data. `OpenFile` is the start
of `fix_file`, whose first check may be served from the store; the `Stop...`
actions are its breaks; `WritePass`, then `KeepPass` or `RevertPass` with the
check in between, are a pass; `FinishFile` is its end and what `cmd_fix` takes
from it. `Fails` ends the run where a check or a read fails, and `WriteFails` where the
write of a pass or of what is put back does, with any part of the text in the file. `CheckOnly` and
`Judge` are the rest of `cmd_fix`.

### `Pkg`

One dependency, the files that speak of it, and processes that run `htl pkg` or
check the project, each step by step and each killed between any two. `Open` is
`MluaProject::at`, which reads the manifest once; `ReadLock`, `StatLink`,
`RemoveLink` and `MakeLink` are `link_entries`; `Install`, `Update`, `SyncTypes`
and `WriteNote` are an install; `Ask`, `Bind`, `Overwrite`, `Record` and the two
failures are `patch`; `RewriteEntry` and `Rebind` are `add`. `mlua_pkg::ops` is
external and modelled by what htl's documents and tests say of it. The person
edits the copy, commits it, moves the pin, drops the patch or the dependency.
`stale`, `settled` and `broken` are history variables that say when a property
is due; no action reads them.

### `Resolver`

Operators only, over a project that is data: modules with an owner, a mount and
roots by role, `[imports]`, the names the host provides. A directory and a name
are sequences of segments. `NameOf` and `Candidates` are `naming.rs`, the rule and
the rule read backwards; `Place` is the root that holds a file most specifically;
`Walked` is what `Resolver::new` makes its table of and `Gained` what it would gain;
`Pick`, `ResolvePlain` and `Resolve` are `resolve` with ambiguity, hiding, shadowing
and imports; `Rewrite` is the name generated code has. `Listed`, `Met` and `Before`
are the order in which the first of several entries is taken.

### `HostDirs`

`Init` is `apply_model` and `from_project` on the same directories. `Added` and
`Removed` are whoever writes them. `Load` is a `require` of the run: `Serves` looks
in the directories as they are, `Run` is what it makes of what is there, and a file
that is not in the table has it read again (`refresh_if_unknown`). `Ask` is a check's
`resolve_name`, which reads it again for a name, if `live` and if a directory gained
one (`TableFor`). A walk and a look are one step each.

### `Link`

One link of one project (`program`), whose files (`sources`) do not change meanwhile.
`TakeExtras` is the loop over `[build] extra` (`ExtraAll`), `Take` one turn of the loop
of `link_with`: a typed module is checked (`Rejected` says whether an error at a
`require` leaves it without code) and each of its `require`s is followed (`Follow`, and
`FollowAll` in order), erased ones left out. `Programs` are projects that also say what
their files require, the entry, the extra names and the host's. `Answer` with
a requirer is the check's search, with none it is what a run would get; `Classify`
decides between a file, the host, an error. What a module says beyond its `require`s
is left out.

## Runs

| Run | Instance | Shows |
|---|---|---|
| `watchdog` | 2 clients, 3 registrations, durations 1 and one past the last instant, slack 0 | types, `LiveInHeap`, `NoLostWakeup`, `HeapBounded`, the refinement `ImplementsTimer` (never early, never late, never unguarded), and under fairness `WatchdogWakes`: a deadline is enforced and a stop ends the thread |
| `runner` | 3 requests, a channel of 2, a deadline of 1, clock to 3 | `DeadlinesHold`: who watches a run and what a timeout means; `SlotsFollowHandles`: which slots live, and what is refused |
| `runner_live` | 2 requests, a channel of 1, clock to 2 | `NobodyWaits`: every caller is answered, and the runner ends when it is shut down or nobody holds it |
| `cache` | 5 files (a requires m, which is b or, with c there, ambiguous; b requires n, which is d; htl.toml), 2 processes, 2 builds, 2 invocations, 3 runs, 1 edit, 1 crash, a store of 2 | replays are exact, the config is an input, an unchanged project is all hits, the sweep drops the oldest |
| `proc` | a child and one descendant, pipes of 1 unit, 2 units of output each | `CallIsSound`: output is whole, a kill reaches the group, no handle is polled twice; `CallMovesOn`: the call ends, no pipe deadlock |
| `lsp` | 2 files, one of which may require the other, 4 messages, 2 writes, manifests that change, do not load or do not parse, a client that watches files or not | what is shown is current when the server waits and when it answers, a project is rebuilt for all its files, fixes fit the buffer |
| `store` | every tree of requires over 4 files with one global, every other graph without a cycle with a global nobody declares, and two directories with a module of the same name; 3 checks, cold or served | a check says, lists and names what a walk of its own would, and a file is one instance |
| `lsp_index` | 2 files, one requires the other, 2 writes, a client that watches files or not | uses fit the text they are answered with and have their closure, and answers are those of an index made from the files as they are |
| `fix` | 3 files, 3 fixes of one file that overlap, do not fit, bring findings in and undo each other, or files that hang on each other; 4 passes | the tree is what the report says, errors do not grow, the run ends |
| `pkg` | 1 terminal, 2 checks at once, 2 revisions, 4 commands and checks | the link settles, the files agree, no edit is lost unasked |
| `host_dirs` | a host with every spelling of one name in two modules and a directory of declarations; one with a package and names beside it; one with a dotted file; a project with tests and two contract directories; any files of these come and go | `OneDescription`: check and run agree; `GainedSettles`: a table read again has what it was read again for |
| `link` | a program with a dependency, imports both ways and a test root, and one with the host's names, declarations with and without plain Lua behind them, an extra module, and one whose dependency declares what the project implements; every subset of their 5 to 12 files | `LinkedAsChecked`: what is handed out is what was checked; `OnlyWhatRuns`: and nothing more, each name once |

The bounds are the smallest in which each hazard of `PROJECT.json` occurs. Two
clients and three registrations are enough for a stale heap entry below a live
one, a nearer deadline registered under a wait, and a rebuild between a scan and
a wait; the clock runs past every deadline and one duration cannot be
represented. Three requests make an instance, a call and a close, or a caller
behind two others in a channel of two. A store of two overflows with the third
entry, and two processes list and sweep it at once; a second process, the crash
and the second build need no more than one edit. One unit makes a pipe full;
with two, a write happens after the reader emptied it. Four messages open two
files and leave two for what happens between them, and two writes change a file
and a manifest. Four files are a file, a requirer, its requirer and a second
requirer, and three checks are one that stores, one that is served and one that
is cold. Two writes of the index are a write under a request and one that its
stamp hides. Three fixes are the least of which two can undo each other two passes
apart while a third waits, and one more pass than that is left of the four. Four
commands are an install, a patch, a second that must ask, and one killed; two
checks at once undo each other's steps at one link. The names of `host_dirs` have each
spelling the naming rule gives and each place a file of the name may be refused in:
a nested root, a skipped directory, a second module. Every subset of the files of
`link` includes those in which a name is declared, shadowed, ambiguous, hidden or
missing for one requirer and not for another. Every action of every module fires in these runs, and the mutant
of every property is found by them.

Deadlock is not checked: each of these systems may stop (a watchdog or a VM
that has ended, a call that is over, a server that ended, a behaviour at its
bound). That they stop only there is what the liveness properties say.

### Fairness

* `Watchdog`: the thread runs when it is scheduled, a timed wait returns, time
  passes, and a client or `stop()` that released the mutex reaches its
  `notify_one`. Nothing makes a client register, or drop its guard.
* `Runner`: both threads run, and executors poll the callers' futures. A program
  whose token is cancelled ends at a hook check; one that is not may run for
  ever. The module documentation of `run.rs` excludes native calls that never
  return and a `pcall` that swallows the cancel, and so does this. Nothing makes
  a caller ask, give up or drop a handle, or the driver shut down.
* `Proc`: the executor polls the call and its readers, and time passes. Nothing
  makes a process do anything, and nothing drops the future
  or makes a wait fail.
* `FixPass`: the run is one thread and goes on.
* The others state no liveness and assume no fairness: a person need not save,
  ask or run another command.

## Findings

Each is a property that states what a comment or a document of the repository
says, and a counterexample TLC finds. They are replayed by the configuration
named, or by naming the property alone in the one of its module.

1. `EverySlotIsNamed` (run.rs:680), `MCRunnerSlots.cfg`. An instance's slot is
   removed when its answer cannot be sent. A future dropped after the send and
   before it reads the answer leaves a slot that no handle names, until the
   runner ends. Only a future nobody was going to poll again does this.
2. `DeadlineOnEveryCall` (run.rs:31), `MCRunnerDeadline.cfg`. The field of a call
   is read from the module's table, which runs its code if it has an `__index`
   metamethod, before the deadline is registered.
3. `HitsAreExact` (cache.rs:1787), `MCCheckCacheEdits.cfg`. Inputs are hashed
   after the check read them. A file written in between gives an entry with the
   new hash and the old findings, which later runs replay until the file changes.
4. `HitsSeeContractEdits` (lib.rs:766), `MCCheckCacheContract.cfg`. A contract's
   record is declared in a file that is no input of the files held to it.
5. `KillsOnlyItsOwn` (proc.rs:372), `MCProcReuse.cfg`. While the readers are
   awaited the child is reaped; if its group is empty the id may be given again,
   and a cancel or the deadline then kills the group that has it. It takes a
   descendant that left the group and holds a pipe.
6. `EveryOpenFileIsRechecked` (lsp.rs:1432), `MCLspFailedLoad.cfg`. A project that
   does not load is not remembered, so nothing notices that its manifests were
   repaired: for a client that does not watch files the file that asks is
   checked, and the others keep the failure.
7. Of `ModuleStore`, with `MCModuleStoreDiamond.cfg` and, for `Projects`, one of five.
   The comment over the store says that a result "does not depend on who required it"
   (prelude.lua:2899), and these are the projects in which it does:

   * `OneAnswer` (prelude.lua:72), `Diamonds`. `globals_below` keeps on an entry a closure
     cut short by the `visited` of the walk it ran in. With 1 requiring 2 and 3, and 3
     requiring 2, the walk from 1 visits 2 first, so 3 remembers a closure without 2's
     globals; a check of 5, which requires 3 alone, is then told that a global of 2 is
     unknown, and is not when 5 is checked first.
   * `WholeClosure` (2929), `Cycles` (`Sources <- MCSources`, `ModuleNames <- MCNames`;
     `OneAnswer` fails too). 1 and 2 require each other and 1 requires 3. A check of 1
     walks 1 twice, once below itself, and stores neither result, as the one its requirer
     was typed with is not the one in `env.loaded`; it stores 2, whose result names 1. A
     check of 2 is then served, finds no entry of 1, and names neither 3 in its closure,
     with which a cached answer is stamped, nor the errors of 3. The comment at 47 to 49
     says that everything walked with a module was stored with it.
   * `OneAnswer` (128), `Nested` (`Sources <- MCSources`, `ModuleNames <- MCNames`). A file
     that is `x.y` from one directory and `y` from another has two entries, and the index
     the last. A check under the first name is seeded with the first result, which is not
     the index's: the module is not walked, as it is loaded, and its globals are not
     handed over. The comment at 122 to 124 has only the two cases in which the seed did
     not happen and the walk does.
   * `OneAnswer` (2974), `Parted` (as `Nested`). An entry is seeded when its name is found
     at its file. If the file requires what one search path has and another has not, a
     check under the one is served the answer made under the other.
   * `OneAnswer` (3016), `Moved` (`ModuleNames <- MCNames`). 1 requires 2, which requires
     3, and another directory has a 3 of its own. `dependency_errors` asks the store for
     the result of 3 by name, as the environment has only 2; the store holds the other
     file, and the error in 3 is not listed. `require_closure` asks by file and names it.
8. `PositionIsCurrent` (lsp.rs:1961), `MCLspIndexPosition.cfg`. The file a
   references request is made in is checked again only while its entry is
   distrusted. Uses made again by another request take the mark away, and the
   position is then resolved by the check before.
9. `AnswersAreCurrent`, with `MCLspIndex.cfg` and one name in `Unusual`:
   `"returning"`, a file that goes and comes back between two requests (symbols.rs
   542, lsp.rs:340); `"recurring"`, a text that comes back, with `MaxWrites = 3`,
   whose uses are of the check before; `"early"`, inputs that change before their
   first fingerprint (lsp.rs:1920); `"unheard"`, inputs that change while the
   project is loaded and no file of it is open (lsp.rs:1371). And, with `"unsaid"`,
   `MCLspIndexChain.cfg` (lsp.rs:2042): a requires d and d requires t; d goes with its
   directory, which no event names, after the check that makes a's uses and before d's
   own is made. No use of t is then in a file that is gone, so the project is not walked
   again, and a's uses, made through d, are answered with. It takes three files, and was
   met as a step of the proof of `AnswersCurrent` that does not hold.
10. Of `FixPass`: `NoNewError` (fix.rs:273), errors are compared by count, so one
    may be traded for another; `NothingUnreported` (fix.rs:266), a check that fails
    after a write leaves the file rewritten and listed nowhere; `DeferredAtCap`
    (fix.rs:255), edits are deferred though no cap was hit; `JudgedAsChecked`
    (`htl-cli/src/lib.rs:2823`), a file is judged by the check made when it was
    done, before the files after it were rewritten.
11. Of `Pkg`: `LinkFollowsTheUse` (pkg.rs:1164), the link leads to the copy
    whichever revision it was taken from; `NeverUnwritten` (1458) and `NeverUnread`
    (1360), a patch or an add that is killed between its two writes;
    `EditsSurvive` with `Unseen = TRUE` (1680), an edit that git's ignore rules hide.
12. Of `HostDirs`: `RunAsChecked` (resolver.rs:356), `MCHostDirsRequirer.cfg`: a run
    says of no `require` who asks, so it sees the test root and the project's own
    modules where the check did not; `ContractsLeftOut` (resolver.rs:160),
    `MCHostDirsContract.cfg`: a contract directory inside a source root is in the
    table; `AlwaysOneDescription` (model.rs:1306), `MCHostDirsStale.cfg`: a file taken
    out, or dropped in beside others of its name, is noticed by the run alone;
    `OneDescriptionOfAll` (pkg.rs:2149), `MCHostDirsAll.cfg`: a file under a skipped
    directory, or with a dot in its stem, is a module for one of the two.
13. `BundleIsWhole` (link.rs:417), `MCLinkWhole.cfg`. The `require`s of plain Lua are
    read through the wrapper that rewrites names, and followed under what it makes of
    them; the code is bundled as it is. In a dependency an `[imports]` entry points
    at, `v.lua` requires `d.w`: the bundle has `@d/d.w` and no `d.w`.
14. `LinkedWhoeverAsksFirst` (link.rs:771), as `MCLinkWhole.cfg`'s invariant. A dependency `d` declares
    `d.x`, asks for it, and the project's own `src/d/x.tl` implements it, which `d` does
    not see. If `d` is followed first, the search finds no file of its own behind the
    declaration, the name is filed with the host's, and a module of the project that
    was checked against `src/d/x.tl` finds it there: the bundle is handed out without
    the file. The comment on that branch (769) says a declared name never makes the
    resolver and the lookup disagree. The other way round the file is bundled.

Smaller ones met while reading, with no run:

* the drain after a kill waits up to 200 ms for each of two readers in turn, so
  for 400 ms, where the documentation bounds it by 200 ms;
* a project that has only `mlua-pkg.toml` has no config among its inputs, so an
  `htl.toml` added later is not noticed by a replay; the property therefore
  speaks of a config that was there;
* temporary files of a process killed in a cache write are not swept;
* a file that the server's check finds written away and back is taken for
  unwritten, and keeps fixes of the text in between; the property speaks of at
  most one write during a check;
* while the walk up fails a file is checked under its own directory; a manifest
  repaired before the load makes a project under that key, which comparisons of
  manifests do not reach (`RebuiltTogether` speaks of files filed under a
  project);
* a global brought into scope by an earlier `require` of a file is there when a
  later one is walked, so a stored result can hang on who required it first
  (`MCModuleStore` leaves such projects out, by `WellUsed`, and `OneAnswerHolds` by
  `ReadsRequired`);
* two checks that repair one link at once can each fail on what the other has
  just done; the link is right all the same (`LinkSettles`);
* a patch that fails puts back the manifest's whole text as it was read before the
  fetch, and with it what a person wrote there meanwhile; a patch killed between
  the copy and the lockfile leaves a `patch_base` of another revision; an install
  killed between a declaration and its note leaves it without one for good;
* two commands at once can part a manifest from its copy: a second `add` reads the
  entry `patch` has just written, the patch fails and puts the old text back, and
  the `add` carries the patched entry across (`pkg` has one terminal, and
  `TheFilesAgree` is proved for one);
* of two roots that are one directory `place` takes the last and
  `Project::locate` the first; an `own:` import is answered from the test root too.

What the properties of `HostDirs` and `Link` leave out follows from 12 to 14.
`UpToDate` and `Ordinary` are the conditions of `OneDescription`: the table has of a
name nothing, or what the directories have; no file of the name is where the two
readings differ, and the host has no module of it. `LinkedAsChecked` has three exceptions: a name the bundled code spells otherwise than it was followed (13); one of
which somebody who asks for it sees only a part of the files (not `SeenWhole`; 14, and
12 for a requirer's own sake); and the entry's name where it is somebody else's too
(not `EntryIsClear`), for the entry is bundled under it without a search.

## Proofs

Every theorem is for all values of the constants that meet the `ASSUME`s of the
module it is about: naturals where there are numbers, the value for "nothing" not
one of the records it stands in for, and in `Lsp` an order of the files without
repetitions. Further hypotheses are named below and in the theorems. Where an
operator recurs it is a recursive function over naturals (`Replay`, `Retained`) or a
fold, and what is shown of it by induction is shown with a set of naturals and its
least member, from the library's `WFMin`.

### `TimeLimitProofs`: `Watchdog`

For any number of clients, any durations and any bounds, from
`WatchdogAssumption` (durations and instants are naturals, and thirty years off
can be represented): the type invariant, `LiveInHeap`, `NoLostWakeup`,
`HeapBounded`, `FiresOnlyOverdueGuarded`, and `ImplementsTimer`, that every
behaviour of `Watchdog` is one of `DeadlineTimer`.

`LiveInHeap` and `HeapBounded` are not inductive alone: a rebuild keeps what the
map has, so the map must hold only guarded ids, and a registration adds an id
that no structure may have yet. `IdsAreFresh` says so: ids are handed out once,
each client that is not idle has a guard of its own, and the map holds only ids
whose guard exists. `NoLostWakeup` needs in addition that a sleeping thread's
deadline is the least of the heap at the scan, which is what `Scan` computes.
The action properties follow from the invariant and one step.

### `TimeLimitProofs`: `Proc`

The deadline of `std.proc.run` is the other limit on a program's time; the module
extends both, and no theorem of one half speaks of the other's state.

For any descendants, any capacity of a pipe and any amount of output: `ProcTypeOK`,
which counts what is written, in the pipe and in the buffer, and `CallIsSound`.

Of the invariant, `ReadersAreSound` says that a reader at its end has an empty pipe
nobody can write to any more, and that stays so because a handle of a pipe is only
ever inherited from a process that has one. `GroupIsSound` says that before
the spawn, and once the group was signalled, nothing in it runs, and no process is born
into it but of one that does; and that the guard is armed wherever the future can be dropped.

### `RunnerProofs`

For any number of requests, any size of the channel and any deadline: `TypeOK`,
`DeadlinesHold` and `SlotsFollowHandles`.

That a call told "gone" follows a close needs the order in which requests are
served, across the channel and the VM thread: `Order` says that what has left the
channel was sent before what is in it, and what is served now is the last of
those. `Names` ties an instance to the one request it was made for, in the slots,
the answers and the handles; with it `Slots` can say of a made instance that has
no slot that nobody can hold it, or that a close of it was served. `Lives` is what
both rest on: a request that the VM has not come to has left no trace. `Deadlines`
adds that a fired token is of a program whose deadline is over, which a running
program's registration (`begun + Deadline`) makes true at each firing.

### `CachesProofs`: `CheckCache`

For any project (files, names, what offers what), any number of processes, builds
and invocations, and any edits, crashes and sweeps.

If nothing is edited while a run is on, a replay is exact (`HitsAreExact`) and sees
the config (`HitsSeeConfigEdits`); with such edits the first is false, which is
finding 3. The argument is in two parts. `AgreeingReport`: a file's report is a
function of its closure's contents and of what the names asked in it resolve to. If
two worlds agree on those for the closure in the first, the closure in the second is
the same, as each is the least set closed under what its members require. The
invariant `Inv`: an entry is right in *every* world it matches (`Right`), not only
in this one, and that is what a crash, an edit and another process's write preserve;
and what a process holds in memory is of the world as it is (`RunRight`), with
one clause for each stage of a store.

With edits at any time: `TypeOK`, `StableEntriesHold` (what was stored since the
last edit by a run that saw none is a hit) and `SweepDropsTheOldest`. Their
invariant is `CacheKept`: the order of use names the entries on disk, each once; an
entry a run wrote or a list a sweep read is of the keys as they were then; and what
is promised to be stable was read from the world as it still is.

### `CachesProofs`: `ModuleStore`

For any files, names, search paths and projects, and any number of checks in any order,
served or cold. Four theorems, each with the hypotheses on the project that it needs; a
project with one search path meets `NamesTogether`, `DirsAgree`, `NamesKept` and `FilesKept`.

* `StoreTypes`, of every project. `Shape` adds to the types what leads where: an entry is
  of its own file, `store` and `byFile` lead to an entry, and every frame but the first has
  a name, whose module is the placeholder.
* `OneInstanceHolds`, if two names of one file in one search path are both names of it in
  every search path that has one (`NamesTogether`); cycles do no harm. `Once` says that the
  names a search path has for a file hold one result, that a check has it in its
  environment from the seed on, and walks no file of which the store has it.
* `WholeClosureHolds`, if the search paths agree on what a file they share requires
  (`DirsAgree`) and no file requires itself (`Loopless`). `Whole` says that results name
  what their files require, and that whatever a result names has an entry: in the store by
  the index, and in a check because it was seeded from there or is about to be stored. The
  rank that `Loopless` gives falls along the stack, so that no file is walked twice, which
  is what a cycle breaks (finding 7, `Cycles`).
* `OneAnswerHolds`, if, moreover, a file reads of the globals anybody declares only those
  that it or what it requires by name declares (`ReadsRequired`), and search paths that
  share a name or a file share both (`NamesKept`, `FilesKept`). The errors are then those of
  the project itself (`SaysWhatIs`), which no order of checks is part of. `Apart` bounds
  what is handed over by what is declared; `Handed` says that a name which was answered
  has its file's globals in the environment, because it was walked here or because the
  index has the very result that was served (`OneIndex`), so that `globals_below` starts
  from that file's own globals whatever it remembers of those below; `Says` follows
  the errors, and has by name, for `dependency_errors`, what `Whole` has by file.

None of the hypotheses of `OneAnswerHolds` is idle: `Diamonds` violates `ReadsRequired`
and no other, `Cycles` `Loopless`, `Parted` `DirsAgree`, `Nested` `FilesKept`, `Moved`
`NamesKept`, and each is a counterexample (finding 7). They are conditions on the project,
not on the checks.

`GlobalsBelow` is defined by a recursive function and a fold. The proofs use of either
only what its equation says of one turn, and of the fold that it keeps whatever each turn
keeps, which goes by the number of names (`GatheredAll`, from the library's `WFMin`); what
it computes is never needed, as an answer is never more than what is declared and never
less than what the file declares itself.

### `PkgProofs`

For any number of checks, any revisions and any number of commands, each killed
anywhere; `patch` is the name of no revision.

`TypeOK` is not inductive: a process remembers the manifest and the link's target
as they were when it read them, and the step that uses them happens after others
came between. `Inv` is `TypeOK` in three parts, files, processes and `Fits`, which
says for one process what must still be so where it stands: a process about to
overwrite has a manifest that declares the dependency, has looked for uncommitted
changes since any edit that is not `late`, or was forced; a process that will
write a note or a link runs under a lockfile. `Keeps` says that no step of one
process takes away what another counts on, so each action disturbs only its own
process and the files it writes.

* `EditsAreNotOverwritten` (any number of terminals): an unsaved change is
  overwritten only under `--force`, or when it came after git was asked. It needs
  the two steps that change the copy's ownership, `Overwrite` and the person's own,
  and `~Unseen`, that git names every file changed; else it is false (finding 11).
* `TheLinkSettles` (any number of terminals): `Settling` says of each process at the
  link what it is about to do and what of the link it has seen, so that a step which
  fails, or makes what was just removed, is of a process that another one overtook;
  the last to leave found the link as it is wanted.
* `TheFilesAgree`, with `OneTerminal`: `Agreement` follows one command from the
  manifest it read to the note it writes, and says at each place which of manifest,
  copy, lockfile and declarations already agree. Two commands at once do not keep
  this (see the smaller findings); any number of checks beside the one do.

### `ResolverProofs`: `HostDirs`

For any projects whose directories, mounts and names are sequences of segments
(`ProjectsTyped`; roots and files are finitely many), any files and any `Skipped`:
the type invariant, `GainedSettles` and, if no two modules have one directory
(`RootsApart`), `OneDescription`. With two modules of one directory the run finds a
file twice that the table has once, under the last of them.

`CandidateTyped` and `BelowIsUnder` say that a spelling of a name below a root is under
that root, so that one the walk does not skip is met by the walk (`GainedIsWalked`); a
table is a set of files of an earlier walk, and `WalkGrows` says what a later walk keeps
of them. A file that was gained is then in the fresh table and its entry in none before.

`OneDescription` follows from the types alone: it is about two ways to find the files of
a name, whatever led to the state. The check walks the directories and names each file
by the root that holds it most specifically; the run spells the name below every
directory and leaves out what a directory inside it has. `SpelledAs` and
`FileOfSpelling` say that the spellings of a name are those of the files with that
name, for a stem of one segment; `HoldsIsOffers` that the most specific root is the one
no inner root takes the file from. So the two find the same files
(`ServesWhatIsClaimed`). `NewIsGained` says that a table that had nothing of the name is
read again (`TableIsFresh`), and `TheyAgree` that the two verdicts on one set of files
agree: `Cardinality` of pairs and of entries (`AsMany`), of modules where one directory
is served and plain Lua is not looked at (`OneServed`), the first entry by module, root
and rank (`FirstIsOne`).

### `ResolverProofs`: `Link`

Both are about what `Resolver` answers; no theorem of one half speaks of the other's
state. For any programs (`ProgramsTyped`: what is required and imported is names, and
the entry is a typed file that is a module), any files of them, any imports,
declarations, plain Lua, extra names and names of the host: `OnlyWhatRuns` and
`LinkedAsChecked`. `ImportsTyped` says that no dependency is called by one of the two
words the model marks a name's other kinds with.

The invariant `Linked` has two parts. `Good` is of the walk and the taken modules at
any place of it, within a turn too: `Counted`, that the queue and what was taken are
the names ever queued, each once; `Fitting`, that as long as nothing failed a queued
module is the file a run's search has for its name, and a filed name one of the host's
or one it has no file for, unless not everybody who asks sees the whole of it;
`Wanted`, that a queued or filed name is the entry's, an extra one, or asked for by a
taken module. `Done` is of each taken module: its unerased names are queued or filed.
`LinkedAsChecked` follows when the queue is empty: a name that was checked without an
error at its `require` and seen whole is answered to the requirer as to a run
(`AnsweredAsARun`), a run's answer decides what it is to the linker (`AsRunIs`), so
whoever asks first it is queued or filed as the answer of the check wants, and no
other file is there under the name.

`AnsweredAsARun` is the lemma about the resolver: a followed name stands for itself when
its own file asks for it again (an import that was rewritten is not rewritten twice),
and where none of its files is hidden from the requirer both pick from the same entries.
The folds over a file's requires and over `[build] extra` are unfolded once to the
function they are defined by (`FoldExists`), and `FoldKeeps` is their induction:
what each turn keeps, the fold keeps.

### `FixPassProofs`

For any files and findings, any fixes, however they overlap, do not fit and undo each
other, any flags, any number of passes, and checks and writes that fail anywhere: the tree is
what the run reports (`TreeIsAsReported`), and no file is left with more errors than
its first check found if that check read the tree as it was (`ErrorsNeverGrow`).

Neither is inductive. `Working` says of the file in hand that its text is what the
kept passes make of the original (`Replay`), that the disk has it or, between a
write and its check, the next one, and that nothing of it was reported yet;
`Counted` that the last check kept is of the text kept and of the disk as it is,
and has no more errors than the first. `Others` keeps what was said of the files
that are done: each is written at most once it is in hand, and never afterwards.
The lemmas before it are about `Replay` and about the fixes of one pass: which are
taken is a recursion along the ordered edits, and what remains is of this text.

### `LspProofs`

For any files that require each other in any way, cycles too, any texts, manifests
and projects, any number of writes and messages and any batches of them:
`TypeOK`, `PublishedIsCurrent`, `RebuiltTogether`, `ActionsFitTheBuffer`, and that
answers follow the checks they wait for (`AnswersFollowChecks`).

`PublishedIsCurrent` speaks of a server that waits; the invariant must say what is
so at every other place of the loop. It is: a file of which something else than a
new check would say is shown is `Waiting`, that is, on the list of the round, or
among those the batch has left to check, or it depends on a file the batch has seen
change; or it hangs on a file whose change the server was not told of. For the
last to be enough, `Shown` says that what its check read is among the dependencies
the server keeps of it, and that each open file's entry is of the project as it
is loaded, which is of the manifests as they are (`ProjectsHold`). A batch that
ends turns what changed into a list (`Retained`, once each, every open file that
depends on it), and a check takes its file from the head of it; `JobHolds` follows
the check from the read to the record, where other files may change under it, and
is what makes the record either current or waiting again. `Fits` counts the writes
while a check is under way: with none the text is as it was read, with one it is
not, so the fixes are dropped. `AnswersAreLast` is that a request and a shutdown are
taken up only when the list is empty.

### `LspIndexProofs`

For any files that require each other in any way, cycles too, any number of writes,
and a client that watches or does not: `SymbolsAreCurrent`, whatever is `Unusual`;
`UsesFitTheirText`, if no text and no file comes back (`NoText`); and
`AnswersAreCurrent`, if nothing is `Unusual` (`AllSaid`). The last is as weak as the code
allows: each of the five courses alone has a counterexample (finding 9).

`SymbolsInv` says where an entry may be wrong: a file whose entry has not the text of
the disk, or has none, is one the request has yet to look at (`Later`), or one that the
next request will, because an event is on its way, the entry is marked, or the client
does not watch and every file is looked at. A stamp that did not move hides a write only
while the entry had not settled. `UsesInv` follows a file from the read before its check
to the read after it: what `fill` keeps was made of the text it is kept for.

That an answer about uses is current rests on what `ReferencesInv` says of every entry
at every place of every request, in parts: `Kept`, that an entry's uses, or the check
they will be made of, read each file at the text that file's *entry* has, and by the
closure as it is on disk, unless a file is known to be gone (`Gap`) and all uses will be
taken; `Checks`, that the checks of open files are by the loaded project, and what it
may differ from the inputs in; `Lost` and `Complete`, that an entry of a file that is
gone, and a file that has no entry, are looked at before any uses are made; `Changed`,
that what a request found changed has lost its uses, and not yet taken those above it;
`Filling`, that the uses of a request nothing was written during are all made in the
end. The two halves meet in the answer: entries have the texts of the disk, uses those
of the entries.

A check of one file puts the entries of all the open ones, one after another
(`PutAll`, a fold over a set). What it leaves is not computed but described: `Putting`
relates the index before to any index after some of the files were put, whatever the
order, and the fold is in that relation by induction on the number of files
(`Inductive`, from the library's `WFMin`).

### What is model-checked only

* `NobodyWaits`, `WatchdogWakes`, `CallMovesOn` and `RunEnds`: liveness under
  fairness and `ENABLED` are beyond TLAPS's backends here.

Every safety property and every action property of every run is stated by a theorem.

## What is not modelled

* The server's call hierarchy, tasks, how the model finds its modules, the test
  runner, pins: functions of their input, or thin layers over external crates.
* The type checker (third party), lints, formatting, generators of declarations,
  scaffolding: functions from text to text, with no state of their own and no
  actor beside them. They are most of the repository's lines.
* Windows: `Proc` models the Unix half of `proc.rs`; elsewhere the child alone
  is killed.
* In `CheckCache`: whole-run entries, stores without a project model, a file
  edited between two reads of one check. In `Lsp`: several projects, events of
  Rust sources and of `types/` (they are in `LspIndex`), fix-all. In `Runner`:
  values, progress events. In `LspIndex`: the closing of a document, manifests,
  the search of a query. In `FixPass`: suggestions, which are never written. In
  `Pkg`: `target_dir` copies, `patch_drift`, `add_types`, trees under build scratch.
  In `HostDirs`: files that cannot be read (a `require` of one raises and changes
  nothing, and a Lua file is then as if absent), contract settings, packages added to a directory of packages (a new
  project), links between directories. In `Link`: the store of generated code,
  payloads and their format, the module that ships in the binary, names that only
  `package.path` has, plain Lua that does not parse.
