--------------------------------- MODULE Pkg ---------------------------------
(***************************************************************************)
(* A project's dependencies (htl-core/src/pkg.rs and the cmd_pkg_* of       *)
(* htl-cli/src/lib.rs): the manifest's pin, the lockfile, the copy of a     *)
(* dependency the project patched, the link `require` reads and the         *)
(* declarations a dependency publishes, as `htl pkg install`, `update`,     *)
(* `patch`, `add` and `clean` write them, and as every check of the project *)
(* repairs the link (prepare_deps).                                         *)
(*                                                                         *)
(* One dependency: what two of them do is independent but for an error,     *)
(* which ends the loop over them.  A command is a process: it runs step by  *)
(* step between the steps of the others, and may be killed between any two. *)
(* mlua_pkg::ops is external, and modelled by what htl's docs and tests say *)
(* it does.  Left out: target_dir copies, patch_drift, an entry below the   *)
(* root, the dot-entries dropped from a copy (nothing reads them), and      *)
(* trees under build scratch, where nothing is written.                     *)
(***************************************************************************)
EXTENDS Naturals, FiniteSets

CONSTANTS
    Commanders,  \* the processes that run `htl pkg`
    Checkers,    \* the processes that check the project
    Revisions,   \* what a pin can resolve to
    Unseen,      \* TRUE: an edit of the copy may be one git's ignore rules hide
    MaxCommands, \* bound: the commands and checks begun
    None         \* nothing there

\* What the files hold.
Manifests == [pin : Revisions \cup {None}, patch : BOOLEAN]
Locks == [sha : Revisions \cup {None}, base : Revisions \cup {None}]
Copies == [rev : Revisions, own : BOOLEAN, seen : BOOLEAN, saved : BOOLEAN]
Declarations == [rev : Revisions, note : Revisions \cup {None}]

ASSUME NoneAssumption ==
    None \notin Revisions \cup {"patch", "vendored"} \cup Locks \cup Copies \cup Declarations
ASSUME RevisionsAssumption == "patch" \notin Revisions
ASSUME UnseenAssumption == Unseen \in BOOLEAN
ASSUME MaxCommandsAssumption == MaxCommands \in Nat

VARIABLES
    manifest, \* [pin, patch]: the revision asked for (None: no such entry), patch_dir given
    lock,     \* None before the first install; [sha, base]: what was resolved, patch_base
    copy,     \* patches/<dep>: None or [rev, own, seen, saved]
    cache,    \* the fetched revisions
    vendored, \* what vendored/<dep> leads to: None, "patch" or a revision in the cache
    link,     \* entries/<dep>: None, "patch" or "vendored"
    types,    \* the dependency's declaration in types/: None or [rev, note]
    proc,     \* process -> what it is at
    begun,    \* how many commands and checks were begun
    stale,    \* history: the looks at the link begun before what it should be changed
    settled,  \* history: a look that was not stale ended since then
    broken    \* history: a patch or an add was killed half-way, or a copy not recorded

world == <<manifest, lock, copy, cache, vendored, link, types>>
vars == <<manifest, lock, copy, cache, vendored, link, types, proc, begun, stale, settled, broken>>

Procs == Commanders \cup Checkers

\* patch: what MluaProject::at read; force: --force; before: the manifest as it was read;
\* wanted: the link's target; late (history): an edit came after the question to git.
Resting == [at |-> "rest", cmd |-> None, patch |-> FALSE, force |-> FALSE, before |-> None,
            wanted |-> None, late |-> FALSE]

At(p, here) == proc[p].at = here
Quiet(procs) == \A p \in procs : At(p, "rest")

-----------------------------------------------------------------------------
(* What the link should be                                                 *)

\* link_target: the patch wins, whichever revision it was taken from.
LinkTarget(patched) == IF patched THEN "patch" ELSE "vendored"

Locked == lock # None /\ lock.sha # None
Wanted == IF Locked THEN LinkTarget(manifest.patch) ELSE None

\* patch_status, in_use.
InUse == copy # None /\ lock # None /\ lock.base # None /\ lock.base = lock.sha

\* vendored/<dep> leads somewhere.
Placed == IF vendored = "patch" THEN copy # None ELSE vendored \in cache

-----------------------------------------------------------------------------
(* Processes.  Next adds to each step what it does to the history.         *)

Goto(p, here) == proc' = [proc EXCEPT ![p].at = here]
End(p) == proc' = [proc EXCEPT ![p] = Resting]

Open(p, cmd, forced) ==   \* MluaProject::at
    /\ At(p, "rest") /\ begun < MaxCommands
    /\ begun' = begun + 1
    /\ proc' = [proc EXCEPT ![p] =
           [Resting EXCEPT !.at = IF cmd = "check" THEN "lock" ELSE cmd, !.cmd = cmd,
                           !.patch = manifest.patch, !.force = forced]]
    /\ UNCHANGED world

Killed(p) ==
    /\ ~At(p, "rest")
    /\ End(p)
    /\ UNCHANGED <<world, begun>>

-----------------------------------------------------------------------------
(* link_entries                                                            *)

ReadLock(p) ==
    /\ At(p, "lock")
    /\ IF lock = None
       THEN End(p)
       ELSE proc' = [proc EXCEPT ![p].at = "stat",
                                 ![p].wanted = IF lock.sha = None THEN None
                                               ELSE LinkTarget(proc[p].patch)]
    /\ UNCHANGED <<world, begun>>

\* What comes after the links: install and update bring in the declarations.
Linked(p) == IF proc[p].cmd = "check" THEN End(p) ELSE Goto(p, "types")

\* Mutated form: a link that is there is taken to be the right one.
StatAnyLink(p) ==
    /\ At(p, "stat")
    /\ IF link # None \/ proc[p].wanted = None THEN Linked(p) ELSE Goto(p, "link")
    /\ UNCHANGED <<world, begun>>

StatLink(p) ==
    /\ At(p, "stat")
    /\ CASE link = proc[p].wanted -> Linked(p)
         [] link # proc[p].wanted /\ link # None -> Goto(p, "unlink")
         [] link # proc[p].wanted /\ link = None -> Goto(p, "link")
    /\ UNCHANGED <<world, begun>>

\* The link is not there any more: an error, and the command fails.
RemoveLink(p) ==
    /\ At(p, "unlink")
    /\ link' = None
    /\ IF link = None THEN End(p)
       ELSE IF proc[p].wanted = None THEN Linked(p)
       ELSE Goto(p, "link")
    /\ UNCHANGED <<manifest, lock, copy, cache, vendored, types, begun>>

\* There is one already: an error, and the command fails.
MakeLink(p) ==
    /\ At(p, "link")
    /\ IF link # None THEN End(p) /\ UNCHANGED link
       ELSE link' = proc[p].wanted /\ Linked(p)
    /\ UNCHANGED <<manifest, lock, copy, cache, vendored, types, begun>>

-----------------------------------------------------------------------------
(* install and update                                                      *)

\* mlua_pkg::ops::install: resolve, fetch, place, write the lockfile.
OpsInstall(pin) ==
    LET base == IF lock = None \/ pin = None \/ ~manifest.patch THEN None ELSE lock.base
    IN /\ lock' = [sha |-> pin, base |-> base]
       /\ cache' = cache \cup ({pin} \ {None})
       /\ vendored' = IF base # None /\ base = pin /\ copy # None THEN "patch" ELSE pin

Install(p) ==
    /\ At(p, "install")
    /\ OpsInstall(manifest.pin)
    /\ Goto(p, "lock")
    /\ UNCHANGED <<manifest, copy, link, types, begun>>

\* A tag that follows releases is bumped in the manifest, then the install.
Update(p) ==
    /\ At(p, "update")
    /\ \E pin \in IF manifest.pin = None THEN {None} ELSE Revisions :
          /\ manifest' = [manifest EXCEPT !.pin = pin]
          /\ OpsInstall(pin)
    /\ Goto(p, "lock")
    /\ UNCHANGED <<copy, link, types, begun>>

Unfetched(p) ==   \* the fetch fails
    /\ At(p, "install") \/ At(p, "update")
    /\ End(p)
    /\ UNCHANGED <<world, begun>>

\* sync_types, copy_declarations: a declaration that is there is left alone.
SyncTypes(p) ==
    /\ At(p, "types")
    /\ IF lock.sha = None \/ ~Placed \/ types # None
       THEN End(p) /\ UNCHANGED types
       ELSE /\ types' = [rev |-> IF vendored = "patch" THEN copy.rev ELSE vendored, note |-> None]
            /\ Goto(p, "note")
    /\ UNCHANGED <<manifest, lock, copy, cache, vendored, link, begun>>

WriteNote(p) ==
    /\ At(p, "note")
    /\ types' = [types EXCEPT !.note = lock.sha]
    /\ End(p)
    /\ UNCHANGED <<manifest, lock, copy, cache, vendored, link, begun>>

-----------------------------------------------------------------------------
(* patch                                                                   *)

\* uncommitted: what `git status` names under the directory.
GitSees == copy # None /\ copy.seen /\ ~copy.saved

\* Mutated form: git is asked only of a copy the manifest names.
AskOfDeclared(p) ==
    /\ At(p, "patch")
    /\ manifest.pin # None
    /\ proc[p].force \/ ~GitSees \/ ~manifest.patch
    /\ proc' = [proc EXCEPT ![p].at = "bind", ![p].before = manifest]
    /\ UNCHANGED <<world, begun>>

\* Mutated form: the name is not looked up in the manifest.
AskOfAny(p) ==
    /\ At(p, "patch")
    /\ proc[p].force \/ ~GitSees
    /\ proc' = [proc EXCEPT ![p].at = "bind", ![p].before = manifest]
    /\ UNCHANGED <<world, begun>>

\* The manifest declares it, and git names nothing that would be lost, or was not asked.
Ask(p) ==
    /\ At(p, "patch")
    /\ manifest.pin # None
    /\ proc[p].force \/ ~GitSees
    /\ proc' = [proc EXCEPT ![p].at = "bind", ![p].before = manifest]
    /\ UNCHANGED <<world, begun>>

Refuse(p) ==
    /\ At(p, "patch")
    /\ manifest.pin = None \/ (copy # None /\ ~proc[p].force)
    /\ End(p)
    /\ UNCHANGED <<world, begun>>

\* set_dep_key(patch_dir), when the entry read did not declare it.
Bind(p) ==
    /\ At(p, "bind")
    /\ manifest' = IF proc[p].before.patch THEN manifest ELSE [manifest EXCEPT !.patch = TRUE]
    /\ Goto(p, "overwrite")
    /\ UNCHANGED <<lock, copy, cache, vendored, link, types, begun>>

\* The manifest goes back as it was read, when this command had bound it.
PutBack(p) == IF proc[p].before.patch THEN manifest ELSE proc[p].before

PatchFails(p) ==   \* mlua_pkg::ops::patch, before its copy
    /\ At(p, "overwrite")
    /\ manifest' = PutBack(p)
    /\ End(p)
    /\ UNCHANGED <<lock, copy, cache, vendored, link, types, begun>>

\* mlua_pkg::ops::patch fetches the pin, copies it over what is there ...
Overwrite(p) ==
    /\ At(p, "overwrite")
    /\ copy' = [rev |-> manifest.pin, own |-> FALSE, seen |-> TRUE, saved |-> FALSE]
    /\ cache' = cache \cup {manifest.pin}
    /\ Goto(p, "record")
    /\ UNCHANGED <<manifest, lock, vendored, link, types, begun>>

\* ... and records the revision in the lockfile.
Record(p) ==
    /\ At(p, "record")
    /\ \E sha \in IF lock = None \/ lock.sha = None THEN {copy.rev} ELSE {lock.sha, copy.rev} :
          lock' = [sha |-> sha, base |-> copy.rev]
    /\ End(p)
    /\ UNCHANGED <<manifest, copy, cache, vendored, link, types, begun>>

RecordFails(p) ==
    /\ At(p, "record")
    /\ manifest' = PutBack(p)
    /\ End(p)
    /\ UNCHANGED <<lock, copy, cache, vendored, link, types, begun>>

-----------------------------------------------------------------------------
(* add and clean                                                           *)

\* Mutated form: the entry's patch is not carried across.
RewriteOnly(p) ==
    /\ At(p, "add")
    /\ \E pin \in Revisions : manifest' = [pin |-> pin, patch |-> FALSE]
    /\ End(p)
    /\ UNCHANGED <<lock, copy, cache, vendored, link, types, begun>>

\* What the entry declared before is read; mlua_pkg::ops::add then replaces all of it.
RewriteEntry(p) ==
    /\ At(p, "add")
    /\ \E pin \in Revisions : manifest' = [pin |-> pin, patch |-> FALSE]
    /\ IF manifest.patch THEN Goto(p, "rebind") ELSE End(p)
    /\ UNCHANGED <<lock, copy, cache, vendored, link, types, begun>>

Rebind(p) ==   \* set_dep_key(patch_dir)
    /\ At(p, "rebind")
    /\ manifest' = [manifest EXCEPT !.patch = TRUE]
    /\ End(p)
    /\ UNCHANGED <<lock, copy, cache, vendored, link, types, begun>>

\* The cache, all of it or what the lockfile does not name; vendored/ is left alone.
Clean(p) ==
    /\ At(p, "clean")
    /\ \E all \in BOOLEAN :
          cache' = IF all THEN {} ELSE IF lock = None THEN cache ELSE cache \cap {lock.sha}
    /\ End(p)
    /\ UNCHANGED <<manifest, lock, copy, vendored, link, types, begun>>

-----------------------------------------------------------------------------
(* The person                                                              *)

Edit ==
    /\ copy # None
    /\ \E seen \in {TRUE, ~Unseen} :
          copy' = [copy EXCEPT !.own = TRUE, !.saved = FALSE, !.seen = copy.seen /\ seen]
    /\ proc' = [p \in Procs |->
                  [proc[p] EXCEPT !.late = @ \/ proc[p].at \in {"bind", "overwrite"}]]
    /\ UNCHANGED <<manifest, lock, cache, vendored, link, types, begun>>

Commit ==
    /\ copy # None /\ copy.seen /\ ~copy.saved
    /\ copy' = [copy EXCEPT !.saved = TRUE]
    /\ UNCHANGED <<manifest, lock, cache, vendored, link, types, proc, begun>>

MovePin ==
    /\ \E pin \in Revisions \ {manifest.pin} : manifest' = [manifest EXCEPT !.pin = pin]
    /\ UNCHANGED <<lock, copy, cache, vendored, link, types, proc, begun>>

\* "removing patch_dir and the directory returns the dependency to its fetched form".
DropPatch ==
    /\ Quiet(Commanders) /\ copy # None /\ copy.saved
    /\ copy' = None
    /\ manifest' = [manifest EXCEPT !.patch = FALSE]
    /\ UNCHANGED <<lock, cache, vendored, link, types, proc, begun>>

DropDependency ==
    /\ Quiet(Commanders) /\ manifest.pin # None /\ copy = None
    /\ manifest' = [pin |-> None, patch |-> FALSE]
    /\ UNCHANGED <<lock, copy, cache, vendored, link, types, proc, begun>>

-----------------------------------------------------------------------------

Begin == \/ \E p \in Commanders, cmd \in {"install", "update", "add", "clean"} : Open(p, cmd, FALSE)
         \/ \E p \in Commanders, forced \in BOOLEAN : Open(p, "patch", forced)
         \/ \E p \in Checkers : Open(p, "check", FALSE)

Step(p) ==
    \/ ReadLock(p) \/ StatLink(p) \/ RemoveLink(p) \/ MakeLink(p)
    \/ Install(p) \/ Update(p) \/ Unfetched(p) \/ SyncTypes(p) \/ WriteNote(p)
    \/ Ask(p) \/ Refuse(p) \/ Bind(p) \/ PatchFails(p) \/ Overwrite(p) \/ Record(p)
    \/ RewriteEntry(p) \/ Rebind(p) \/ Clean(p)
Person == Edit \/ Commit \/ MovePin \/ DropPatch \/ DropDependency

\* Killed here, the manifest, the copy and the lockfile do not agree.
MidWay(p) == proc[p].at \in {"overwrite", "record", "rebind"}

\* The histories.  A look is a check, an install or an update: it is stale once what the
\* link should be changes (but by its own install, with no other under way) or a process
\* is killed; or when it begins beside one that is stale.
Linking == {"lock", "stat", "unlink", "link"}
LookEnds(p) == proc[p].at \in Linking /\ proc'[p].at \notin Linking
Looking == {q \in Procs : proc'[q].at # "rest" /\ proc'[q].cmd \in {"check", "install", "update"}}

Remember(own, shaken) ==
    LET moved == <<manifest.patch, Locked>>' # <<manifest.patch, Locked>> IN
    /\ stale' = IF (moved \/ shaken) /\ Looking \ own # {} THEN Looking
                ELSE {q \in Looking : q \in stale \/ (At(q, "rest") /\ stale # {})}
    /\ settled' = /\ ~moved /\ ~shaken
                  /\ settled \/ \E p \in Procs : LookEnds(p)
                  /\ \A p \in stale : ~LookEnds(p)

Init ==
    /\ manifest \in [pin : Revisions, patch : {FALSE}]
    /\ lock = None /\ copy = None /\ cache = {} /\ vendored = None /\ link = None /\ types = None
    /\ proc = [p \in Procs |-> Resting]
    /\ begun = 0
    /\ stale = {} /\ settled = FALSE /\ broken = FALSE

Next ==
    \/ /\ Begin \/ Person
       /\ Remember({}, FALSE) /\ UNCHANGED broken
    \/ \E p \in Procs :
          \/ Step(p) /\ Remember({p}, FALSE) /\ UNCHANGED broken
          \/ RecordFails(p) /\ Remember({}, FALSE) /\ broken' = TRUE
          \/ Killed(p) /\ Remember({}, TRUE) /\ broken' = (broken \/ MidWay(p))

Spec == Init /\ [][Next]_vars

-----------------------------------------------------------------------------
(* Properties                                                              *)

Processes ==
    [at : {"rest", "lock", "stat", "unlink", "link", "types", "note", "install", "update",
           "patch", "bind", "overwrite", "record", "add", "rebind", "clean"},
     cmd : {None, "check", "install", "update", "patch", "add", "clean"},
     patch : BOOLEAN, force : BOOLEAN, before : Manifests \cup {None},
     wanted : {None, "patch", "vendored"}, late : BOOLEAN]

\* The shape of the files and of the processes: only a dependency the manifest declares
\* has a patch, only one that was resolved has a base, and nothing reads a lockfile that
\* is not there.
TypeOK ==
    /\ manifest \in Manifests /\ (manifest.pin = None => ~manifest.patch)
    /\ lock \in Locks \cup {None}
    /\ lock # None /\ lock.sha = None => lock.base = None
    /\ copy \in Copies \cup {None}
    /\ cache \subseteq Revisions
    /\ vendored \in Revisions \cup {None, "patch"}
    /\ link \in {None, "patch", "vendored"}
    /\ types \in Declarations \cup {None}
    /\ proc \in [Procs -> Processes]
    /\ \A p \in Procs : /\ At(p, "rest") => proc[p] = Resting
                        /\ proc[p].at \in {"stat", "unlink", "link", "types", "note"}
                              => lock # None
    /\ begun \in 0 .. MaxCommands
    /\ stale \subseteq Procs /\ settled \in BOOLEAN /\ broken \in BOOLEAN

\* What the project changed in its copy and git does not have is overwritten only under
\* --force, or when the change came after git was asked: whatever commands ran, failed
\* or were killed before (refuse_if_uncommitted).
Unsaved == copy # None /\ copy.own /\ ~copy.saved
EditsSurvive ==
    [][Unsaved /\ ~(copy' # None /\ copy'.own) =>
         \E p \in Commanders : At(p, "overwrite") /\ (proc[p].force \/ proc[p].late)]_vars

\* Once a look at the link that nothing changed under has ended, and nobody is at it, the
\* link is what the manifest and the lockfile ask for: several looks at once may undo
\* each other's steps and fail, and leave it right (link_entries).
LinkSettles == settled /\ Quiet(Procs) => link = Wanted

\* Between commands the manifest names a copy exactly when there is one, unless one
\* was killed half-way or its copy not recorded: a patch that fails puts the manifest
\* back, and an entry rewritten by `add` keeps its patch (MluaProject::patch, add).
CopyIsBound == Quiet(Commanders) /\ ~broken => (manifest.patch <=> copy # None)

\* The note beside a declaration names the revision it was copied from, or is missing:
\* an install that was killed, and those after it, never leave a wrong one (sync_types),
\* as long as the lockfile knows which revision the copy is.
NoteTellsTheRevision == types # None /\ ~broken => types.note \in {None, types.rev}

\* The manifest, the copy and the declarations tell the same story.
FilesAgree == CopyIsBound /\ NoteTellsTheRevision

\* What docs and comments say, and the code does not do.
\* pkg.rs:1412: "When the pin moves on, install uses the new revision, leaves the copy
\* alone": with the pin's revision installed, a copy taken from another is not linked.
LinkFollowsTheUse ==
    settled /\ Quiet(Procs) /\ Locked
    /\ lock.sha = manifest.pin /\ lock.base \notin {None, lock.sha} => link # "patch"

\* pkg.rs:1476: a manifest never goes on naming a directory that was not written.
NeverUnwritten == Quiet(Commanders) /\ manifest.patch => copy # None

\* pkg.rs:1346: what an entry declared about its patch is carried across an add, so a
\* copy never sits unread in the tree.
NeverUnread == Quiet(Commanders) /\ copy # None => manifest.patch
=============================================================================
