------------------------------ MODULE PkgProofs ------------------------------
(***************************************************************************)
(* Proofs about Pkg, for any number of terminals and checks at once, any   *)
(* revisions and any number of commands, killed and failed anywhere: the   *)
(* files keep their shape, what the project changed in its copy is not     *)
(* overwritten behind its back, the link settles on what was asked for,    *)
(* and the files agree.                                                    *)
(***************************************************************************)
EXTENDS Pkg, TLAPS

\* What holds of a process at each of its steps.  A copy is overwritten by a command
\* that was forced, or asked git and was told that nothing would be lost, which is so
\* still unless an edit came since.
Patching == {"patch", "bind", "overwrite", "record", "add", "rebind"}
Fits(p) ==
    /\ At(p, "rest") => proc[p] = Resting
    /\ proc[p].at \in {"stat", "unlink", "link", "types", "note"} => lock # None
    /\ At(p, "note") => types # None
    /\ proc[p].at \in Patching => p \in Commanders
    /\ proc[p].at \in {"bind", "overwrite", "record", "rebind"} => manifest.pin # None
    /\ proc[p].at \in {"bind", "overwrite", "record"} =>
          proc[p].before \in Manifests /\ proc[p].before.pin # None
    /\ At(p, "record") => copy # None
    /\ proc[p].at \in {"bind", "overwrite"} =>
          Unseen \/ proc[p].force \/ proc[p].late \/ ~Unsaved

Files ==
    /\ manifest \in Manifests /\ (manifest.pin = None => ~manifest.patch)
    /\ lock \in Locks \cup {None}
    /\ lock # None /\ lock.sha = None => lock.base = None
    /\ copy \in Copies \cup {None}
    /\ copy # None => Unseen \/ copy.seen
    /\ cache \subseteq Revisions
    /\ vendored \in Revisions \cup {None, "patch"}
    /\ link \in {None, "patch", "vendored"}
    /\ types \in Declarations \cup {None}
    /\ begun \in 0 .. MaxCommands

Sound == Files /\ proc \in [Procs -> Processes] /\ \A p \in Procs : Fits(p)

Inv ==
    /\ Sound
    /\ stale \subseteq Procs /\ settled \in BOOLEAN /\ broken \in BOOLEAN

\* No step takes away what a process counts on.
Keeps ==
    /\ lock # None => lock' # None
    /\ types # None => types' # None
    /\ copy # None => copy' # None
    /\ manifest.pin # None => manifest'.pin # None
    /\ Unsaved' => Unsaved

-----------------------------------------------------------------------------

LEMMA InitInv == Init => Inv
<1> SUFFICES ASSUME Init PROVE Inv
  OBVIOUS
<1>1. Resting \in Processes
  BY DEF Resting, Processes
<1>2. Files
  <2>1. PICK pin \in Revisions : manifest = [pin |-> pin, patch |-> FALSE]
    BY DEF Init
  <2>2. manifest \in Manifests /\ ~manifest.patch
    BY <2>1 DEF Manifests
  <2>3. begun \in 0 .. MaxCommands
    BY MaxCommandsAssumption DEF Init
  <2> QED
    BY <2>2, <2>3 DEF Init, Files
<1>3. proc \in [Procs -> Processes]
  BY <1>1 DEF Init
<1>4. ASSUME NEW p \in Procs PROVE Fits(p)
  BY DEF Init, Fits, At, Resting, Patching
<1> QED
  BY <1>2, <1>3, <1>4 DEF Init, Inv, Sound

\* A process that is where it was goes on counting on what it did.
LEMMA OthersFit ==
  ASSUME NEW q \in Procs, Fits(q), Keeps, proc'[q] = proc[q]
  PROVE  Fits(q)'
BY DEF Fits, Keeps, At

\* One process moves on, and the rest count on what they did.
LEMMA MoveSound ==
  ASSUME Sound, NEW p \in Procs, NEW r \in Processes, proc' = [proc EXCEPT ![p] = r],
         Keeps, Files', Fits(p)'
  PROVE  Sound'
<1>1. \A q \in Procs \ {p} : proc'[q] = proc[q]
  BY DEF Sound
<1>2. \A q \in Procs \ {p} : Fits(q)'
  BY <1>1, OthersFit DEF Sound
<1> QED
  BY <1>2 DEF Sound

LEMMA EndSound ==
  ASSUME Sound, NEW p \in Procs, End(p), Keeps, Files'
  PROVE  Sound'
<1>1. Resting \in Processes
  BY DEF Resting, Processes
<1>2. proc'[p] = Resting
  BY DEF End, Sound
<1>3. Fits(p)'
  BY <1>2 DEF Fits, At, Resting, Patching
<1> QED
  BY <1>1, <1>3, MoveSound DEF End

Phases == {"rest", "lock", "stat", "unlink", "link", "types", "note", "install", "update",
           "patch", "bind", "overwrite", "record", "add", "rebind", "clean"}

LEMMA Went ==
  ASSUME Sound, NEW p \in Procs, NEW here \in Phases, Goto(p, here)
  PROVE  /\ proc'[p] \in Processes /\ proc' = [proc EXCEPT ![p] = proc'[p]]
         /\ proc'[p].at = here
         /\ proc'[p].before = proc[p].before /\ proc'[p].force = proc[p].force
         /\ proc'[p].late = proc[p].late /\ proc'[p].cmd = proc[p].cmd
         /\ proc'[p].patch = proc[p].patch /\ proc'[p].wanted = proc[p].wanted
<1>1. proc' = [proc EXCEPT ![p] = [proc[p] EXCEPT !.at = here]]
  BY DEF Goto
<1>2. proc'[p] = [proc[p] EXCEPT !.at = here]
  BY <1>1 DEF Sound
<1>3. proc[p] \in Processes
  BY DEF Sound
<1>4. proc'[p] \in Processes
  BY <1>2, <1>3 DEF Processes, Phases
<1>5. proc' = [proc EXCEPT ![p] = proc'[p]]
  BY <1>1, <1>2
<1>6. /\ proc'[p].at = here
      /\ proc'[p].before = proc[p].before /\ proc'[p].force = proc[p].force
      /\ proc'[p].late = proc[p].late /\ proc'[p].cmd = proc[p].cmd
      /\ proc'[p].patch = proc[p].patch /\ proc'[p].wanted = proc[p].wanted
  BY <1>2, <1>3 DEF Processes
<1> QED
  BY <1>4, <1>5, <1>6

LEMMA GotoSound ==
  ASSUME Sound, NEW p \in Procs, NEW here \in Phases, Goto(p, here),
         Keeps, Files', Fits(p)'
  PROVE  Sound'
BY Went, MoveSound

-----------------------------------------------------------------------------
(* Steps that leave the files alone.                                       *)

LEMMA StillFiles == ASSUME Sound, UNCHANGED <<world, begun>> PROVE Files' /\ Keeps
BY DEF Sound, Files, world, Keeps, Unsaved

LEMMA OpenSound ==
  ASSUME Sound, NEW p \in Procs,
         NEW cmd \in {"check", "install", "update", "patch", "add", "clean"},
         NEW forced \in BOOLEAN, Open(p, cmd, forced),
         cmd # "check" => p \in Commanders
  PROVE  Sound'
<1> DEFINE r == [Resting EXCEPT !.at = IF cmd = "check" THEN "lock" ELSE cmd, !.cmd = cmd,
                                !.patch = manifest.patch, !.force = forced]
<1>1. proc' = [proc EXCEPT ![p] = r]
  BY DEF Open
<1>2. manifest.patch \in BOOLEAN
  BY DEF Sound, Files, Manifests
<1>3. r \in Processes
  BY <1>2 DEF Resting, Processes
<1>4. proc'[p] = r /\ r.at = IF cmd = "check" THEN "lock" ELSE cmd
  BY <1>1 DEF Sound, Resting
<1>5. Fits(p)'
  BY <1>4 DEF Fits, At, Patching
<1>6. Files' /\ Keeps
  <2>1. begun' \in 0 .. MaxCommands
    BY MaxCommandsAssumption DEF Open, Sound, Files
  <2> QED
    BY <2>1 DEF Open, Sound, Files, world, Keeps, Unsaved
<1> QED
  BY <1>1, <1>3, <1>5, <1>6, MoveSound

LEMMA EndedSound ==
  ASSUME Sound, NEW p \in Procs, End(p), UNCHANGED <<world, begun>>
  PROVE  Sound'
BY StillFiles, EndSound

LEMMA ReadLockSound ==
  ASSUME Sound, NEW p \in Procs, ReadLock(p)
  PROVE  Sound'
<1>1. CASE lock = None
  BY <1>1, EndedSound DEF ReadLock
<1>2. CASE lock # None
  <2> DEFINE w == IF lock.sha = None THEN None ELSE LinkTarget(proc[p].patch)
             r == [proc[p] EXCEPT !.at = "stat", !.wanted = w]
  <2>1. proc' = [proc EXCEPT ![p] = r]
    BY <1>2 DEF ReadLock
  <2>2. proc[p] \in Processes
    BY DEF Sound
  <2>3. w \in {None, "patch", "vendored"}
    BY DEF LinkTarget
  <2>4. r \in Processes /\ r.at = "stat"
    BY <2>2, <2>3 DEF Processes
  <2>5. proc'[p] = r
    BY <2>1 DEF Sound
  <2>6. Files' /\ Keeps /\ lock' # None
    BY <1>2, StillFiles DEF ReadLock, world
  <2>7. Fits(p)'
    BY <2>4, <2>5, <2>6 DEF Fits, At, Patching
  <2> QED
    BY <2>1, <2>4, <2>6, <2>7, MoveSound
<1> QED
  BY <1>1, <1>2

\* After the links: the end of a check, the declarations of an install.
LEMMA LinkedSound ==
  ASSUME Sound, NEW p \in Procs, Linked(p), Keeps, Files', lock # None
  PROVE  Sound'
<1>1. CASE End(p)
  BY <1>1, EndSound
<1>2. CASE Goto(p, "types")
  <2>1. "types" \in Phases
    BY DEF Phases
  <2>2. Fits(p)'
    BY <1>2, <2>1, Went DEF Fits, At, Patching, Keeps
  <2> QED
    BY <1>2, <2>1, <2>2, GotoSound
<1> QED
  BY <1>1, <1>2 DEF Linked

LEMMA StatLinkSound ==
  ASSUME Sound, NEW p \in Procs, StatLink(p)
  PROVE  Sound'
<1>1. lock # None /\ Files' /\ Keeps
  BY StillFiles DEF StatLink, At, Sound, Fits
<1>2. CASE Linked(p)
  BY <1>1, <1>2, LinkedSound
<1>3. ASSUME NEW here \in {"unlink", "link"}, Goto(p, here)
      PROVE  Sound'
  <2>1. here \in Phases
    BY DEF Phases
  <2>2. Fits(p)'
    BY <1>1, <1>3, <2>1, Went DEF Fits, At, Patching, Keeps
  <2> QED
    BY <1>1, <1>3, <2>1, <2>2, GotoSound
<1> QED
  BY <1>2, <1>3 DEF StatLink

LEMMA RemoveLinkSound ==
  ASSUME Sound, NEW p \in Procs, RemoveLink(p)
  PROVE  Sound'
<1>1. lock # None
  BY DEF RemoveLink, At, Sound, Fits
<1>2. Files' /\ Keeps
  BY DEF RemoveLink, Sound, Files, Keeps, Unsaved
<1>3. CASE End(p)
  BY <1>2, <1>3, EndSound
<1>4. CASE Linked(p)
  BY <1>1, <1>2, <1>4, LinkedSound
<1>5. CASE Goto(p, "link")
  <2>1. "link" \in Phases
    BY DEF Phases
  <2>2. Fits(p)'
    BY <1>1, <1>2, <1>5, <2>1, Went DEF Fits, At, Patching, Keeps
  <2> QED
    BY <1>2, <1>5, <2>1, <2>2, GotoSound
<1> QED
  BY <1>3, <1>4, <1>5 DEF RemoveLink

LEMMA MakeLinkSound ==
  ASSUME Sound, NEW p \in Procs, MakeLink(p)
  PROVE  Sound'
<1>1. lock # None
  BY DEF MakeLink, At, Sound, Fits
<1>2. proc[p].wanted \in {None, "patch", "vendored"}
  BY DEF Sound, Processes
<1>3. Files' /\ Keeps
  BY <1>2 DEF MakeLink, Sound, Files, Keeps, Unsaved
<1> QED
  BY <1>1, <1>3, EndSound, LinkedSound DEF MakeLink

-----------------------------------------------------------------------------
(* install, update and the declarations.                                   *)

\* What a successful mlua_pkg::ops::install leaves.
LEMMA OpsInstallFiles ==
  ASSUME Files, NEW pin \in Revisions \cup {None}, OpsInstall(pin)
  PROVE  /\ lock' \in Locks /\ lock' # None
         /\ lock'.sha = None => lock'.base = None
         /\ cache' \subseteq Revisions
         /\ vendored' \in Revisions \cup {None, "patch"}
<1> DEFINE base == IF lock = None \/ pin = None \/ ~manifest.patch THEN None ELSE lock.base
<1>1. base \in Revisions \cup {None} /\ (pin = None => base = None)
  BY DEF Files, Locks
<1>2. lock' = [sha |-> pin, base |-> base]
  BY DEF OpsInstall
<1>3. lock'.sha = pin /\ lock'.base = base /\ lock' \in Locks
  BY <1>1, <1>2 DEF Locks
<1>4. lock' # None
  BY <1>3, NoneAssumption
<1>5. cache' \subseteq Revisions /\ vendored' \in Revisions \cup {None, "patch"}
  BY DEF OpsInstall, Files
<1> QED
  BY <1>1, <1>3, <1>4, <1>5

\* On to the links, which count on nothing.
LEMMA ToLockSound ==
  ASSUME Sound, NEW p \in Procs, Goto(p, "lock"), Keeps, Files'
  PROVE  Sound'
<1>1. "lock" \in Phases
  BY DEF Phases
<1>2. Fits(p)'
  BY <1>1, Went DEF Fits, At, Patching
<1> QED
  BY <1>1, <1>2, GotoSound

LEMMA InstallSound == ASSUME Sound, NEW p \in Procs, Install(p) PROVE Sound'
<1>1. manifest.pin \in Revisions \cup {None}
  BY DEF Sound, Files, Manifests
<1>2. Files
  BY DEF Sound
<1>3. Files' /\ Keeps
  BY <1>1, <1>2, OpsInstallFiles DEF Install, Files, Keeps, Unsaved
<1> QED
  BY <1>3, ToLockSound DEF Install

LEMMA UpdateSound == ASSUME Sound, NEW p \in Procs, Update(p) PROVE Sound'
<1>1. PICK pin \in IF manifest.pin = None THEN {None} ELSE Revisions :
         manifest' = [manifest EXCEPT !.pin = pin] /\ OpsInstall(pin)
  BY DEF Update
<1>2. manifest \in Manifests /\ (manifest.pin = None => ~manifest.patch) /\ Files
  BY DEF Sound, Files
<1>3. pin \in Revisions \cup {None} /\ (manifest.pin # None => pin # None)
      /\ (pin = None => manifest.pin = None)
  BY <1>1, NoneAssumption
<1>4. manifest' \in Manifests /\ manifest'.pin = pin /\ manifest'.patch = manifest.patch
  BY <1>1, <1>2, <1>3 DEF Manifests
<1>5. Files' /\ Keeps
  BY <1>1, <1>2, <1>3, <1>4, OpsInstallFiles DEF Update, Files, Keeps, Unsaved
<1> QED
  BY <1>5, ToLockSound DEF Update

LEMMA UnfetchedSound == ASSUME Sound, NEW p \in Procs, Unfetched(p) PROVE Sound'
BY EndedSound DEF Unfetched

LEMMA SyncTypesSound == ASSUME Sound, NEW p \in Procs, SyncTypes(p) PROVE Sound'
<1> DEFINE rev == IF vendored = "patch" THEN copy.rev ELSE vendored
<1>1. CASE lock.sha = None \/ ~Placed \/ types # None
  <2>1. End(p) /\ UNCHANGED <<world, begun>>
    BY <1>1 DEF SyncTypes, world
  <2> QED
    BY <2>1, EndedSound
<1>2. CASE ~(lock.sha = None \/ ~Placed \/ types # None)
  <2>1. types' = [rev |-> rev, note |-> None] /\ Goto(p, "note")
    BY <1>2 DEF SyncTypes
  <2>2. rev \in Revisions
    BY <1>2 DEF Placed, Sound, Files, Copies
  <2>3. types' \in Declarations /\ types' # None
    BY <2>1, <2>2, NoneAssumption DEF Declarations
  <2>4. Files' /\ Keeps /\ lock' # None
    BY <2>3 DEF SyncTypes, Sound, Files, Keeps, Unsaved, Fits, At
  <2>5. "note" \in Phases
    BY DEF Phases
  <2>6. Fits(p)'
    BY <2>1, <2>3, <2>4, <2>5, Went DEF Fits, At, Patching
  <2> QED
    BY <2>1, <2>4, <2>5, <2>6, GotoSound
<1> QED
  BY <1>1, <1>2

LEMMA WriteNoteSound == ASSUME Sound, NEW p \in Procs, WriteNote(p) PROVE Sound'
<1>1. types \in Declarations /\ lock \in Locks
  BY DEF WriteNote, Sound, Files, Fits, At
<1>2. types' \in Declarations /\ types' # None
  <2>1. lock.sha \in Revisions \cup {None}
    BY <1>1 DEF Locks
  <2>2. types' \in Declarations
    BY <1>1, <2>1 DEF WriteNote, Declarations
  <2> QED
    BY <2>2, NoneAssumption
<1>3. Files' /\ Keeps
  BY <1>2 DEF WriteNote, Sound, Files, Keeps, Unsaved
<1> QED
  BY <1>3, EndSound DEF WriteNote

-----------------------------------------------------------------------------
(* patch, add and clean.                                                   *)

\* What git names is all there is to lose: the copy is seen.
LEMMA AskSound == ASSUME Sound, NEW p \in Procs, Ask(p) PROVE Sound'
<1> DEFINE r == [proc[p] EXCEPT !.at = "bind", !.before = manifest]
<1>1. proc' = [proc EXCEPT ![p] = r]
  BY DEF Ask
<1>2. proc[p] \in Processes /\ manifest \in Manifests
  BY DEF Sound, Files
<1>3. r \in Processes /\ r.at = "bind" /\ r.before = manifest /\ r.force = proc[p].force
  BY <1>2 DEF Processes
<1>4. proc'[p] = r
  BY <1>1 DEF Sound
<1>5. Files' /\ Keeps
  BY StillFiles DEF Ask
<1>6. p \in Commanders /\ manifest.pin # None /\ (copy # None => Unseen \/ copy.seen)
  BY DEF Ask, Sound, Files, Fits, At, Patching
<1>7. Unseen \/ proc[p].force \/ ~Unsaved'
  BY <1>6 DEF Ask, GitSees, Unsaved, world
<1>8. Fits(p)'
  BY <1>2, <1>3, <1>4, <1>6, <1>7 DEF Fits, At, Patching, Ask, world
<1> QED
  BY <1>1, <1>3, <1>5, <1>8, MoveSound

LEMMA RefuseSound == ASSUME Sound, NEW p \in Procs, Refuse(p) PROVE Sound'
BY EndedSound DEF Refuse

LEMMA BindSound == ASSUME Sound, NEW p \in Procs, Bind(p) PROVE Sound'
<1>1. At(p, "bind") /\ Fits(p) /\ manifest \in Manifests
  BY DEF Bind, Sound, Files
<1>2. manifest.pin # None /\ p \in Commanders
  BY <1>1 DEF Fits, At, Patching
<1>3. manifest' \in Manifests /\ manifest'.pin = manifest.pin
  BY <1>1 DEF Bind, Manifests
<1>4. Files' /\ Keeps
  BY <1>2, <1>3 DEF Bind, Sound, Files, Keeps, Unsaved
<1>5. "overwrite" \in Phases /\ Goto(p, "overwrite") /\ UNCHANGED copy
  BY DEF Phases, Bind
<1>6. Fits(p)'
  BY <1>1, <1>2, <1>3, <1>5, Went DEF Fits, At, Patching, Unsaved
<1> QED
  BY <1>4, <1>5, <1>6, GotoSound

\* The manifest put back is one that was there, and declared the dependency.
LEMMA PutBackFiles ==
  ASSUME Sound, NEW p \in Procs, proc[p].at \in {"overwrite", "record"},
         manifest' = PutBack(p), UNCHANGED <<lock, copy, cache, vendored, link, types, begun>>
  PROVE  Files' /\ Keeps
<1>1. manifest \in Manifests /\ manifest.pin # None
  BY DEF Sound, Files, Fits
<1>2. proc[p].before \in Manifests /\ proc[p].before.pin # None
  BY DEF Sound, Fits
<1>3. manifest' \in Manifests /\ manifest'.pin # None
  BY <1>1, <1>2 DEF PutBack
<1> QED
  BY <1>3 DEF Sound, Files, Keeps, Unsaved

LEMMA PatchFailsSound == ASSUME Sound, NEW p \in Procs, PatchFails(p) PROVE Sound'
BY PutBackFiles, EndSound DEF PatchFails, At

LEMMA RecordFailsSound == ASSUME Sound, NEW p \in Procs, RecordFails(p) PROVE Sound'
BY PutBackFiles, EndSound DEF RecordFails, At

LEMMA OverwriteSound == ASSUME Sound, NEW p \in Procs, Overwrite(p) PROVE Sound'
<1>1. manifest.pin \in Revisions /\ p \in Commanders /\ proc[p].before \in Manifests
      /\ proc[p].before.pin # None /\ manifest.pin # None
  BY DEF Overwrite, Sound, Files, Manifests, Fits, At, Patching
<1>2. copy' = [rev |-> manifest.pin, own |-> FALSE, seen |-> TRUE, saved |-> FALSE]
  BY DEF Overwrite
<1>3. copy' \in Copies /\ copy'.seen /\ ~copy'.own
  BY <1>1, <1>2 DEF Copies
<1>4. copy' # None
  BY <1>3, NoneAssumption
<1>5. Files' /\ Keeps
  BY <1>1, <1>3, <1>4 DEF Overwrite, Sound, Files, Keeps, Unsaved
<1>6. "record" \in Phases /\ Goto(p, "record") /\ UNCHANGED manifest
  BY DEF Phases, Overwrite
<1>7. Fits(p)'
  BY <1>1, <1>4, <1>6, Went DEF Fits, At, Patching
<1> QED
  BY <1>5, <1>6, <1>7, GotoSound

LEMMA RecordKeeps == ASSUME Sound, NEW p \in Procs, Record(p) PROVE Files' /\ Keeps
<1>1. copy \in Copies /\ (lock # None => lock \in Locks)
  BY DEF Record, Sound, Files, Fits, At
<1>2. copy.rev \in Revisions /\ copy.rev # None
  BY <1>1, NoneAssumption DEF Copies
<1>3. PICK sha \in IF lock = None \/ lock.sha = None THEN {copy.rev} ELSE {lock.sha, copy.rev} :
         lock' = [sha |-> sha, base |-> copy.rev]
  BY DEF Record
<1>4. sha \in Revisions \cup {None} /\ sha # None
  BY <1>1, <1>2, <1>3 DEF Locks
<1>5. lock' \in Locks /\ lock'.sha # None
  BY <1>2, <1>3, <1>4 DEF Locks
<1>6. lock' # None
  BY <1>5, NoneAssumption
<1>7. Files' /\ Keeps
  BY <1>5, <1>6 DEF Record, Sound, Files, Keeps, Unsaved
<1> QED
  BY <1>7

LEMMA RecordSound == ASSUME Sound, NEW p \in Procs, Record(p) PROVE Sound'
BY RecordKeeps, EndSound DEF Record

LEMMA RewriteEntrySound == ASSUME Sound, NEW p \in Procs, RewriteEntry(p) PROVE Sound'
<1>1. PICK pin \in Revisions : manifest' = [pin |-> pin, patch |-> FALSE]
  BY DEF RewriteEntry
<1>2. manifest' \in Manifests /\ manifest'.pin # None /\ ~manifest'.patch
  BY <1>1, NoneAssumption DEF Manifests
<1>3. Files' /\ Keeps
  BY <1>2 DEF RewriteEntry, Sound, Files, Keeps, Unsaved
<1>4. CASE End(p)
  BY <1>3, <1>4, EndSound
<1>5. CASE Goto(p, "rebind")
  <2>1. "rebind" \in Phases /\ p \in Commanders
    BY DEF Phases, RewriteEntry, Sound, Fits, At, Patching
  <2>2. Fits(p)'
    BY <1>2, <1>5, <2>1, Went DEF Fits, At, Patching
  <2> QED
    BY <1>3, <1>5, <2>1, <2>2, GotoSound
<1> QED
  BY <1>4, <1>5 DEF RewriteEntry

LEMMA RebindSound == ASSUME Sound, NEW p \in Procs, Rebind(p) PROVE Sound'
<1>1. manifest \in Manifests /\ manifest.pin # None
  BY DEF Rebind, Sound, Files, Fits, At
<1>2. manifest' \in Manifests /\ manifest'.pin # None
  BY <1>1 DEF Rebind, Manifests
<1>3. Files' /\ Keeps
  BY <1>2 DEF Rebind, Sound, Files, Keeps, Unsaved
<1> QED
  BY <1>3, EndSound DEF Rebind

LEMMA CleanSound == ASSUME Sound, NEW p \in Procs, Clean(p) PROVE Sound'
<1>1. cache' \subseteq Revisions
  BY DEF Clean, Sound, Files
<1>2. Files' /\ Keeps
  BY <1>1 DEF Clean, Sound, Files, Keeps, Unsaved
<1> QED
  BY <1>2, EndSound DEF Clean

LEMMA KilledSound == ASSUME Sound, NEW p \in Procs, Killed(p) PROVE Sound'
BY EndedSound DEF Killed

LEMMA StepSound == ASSUME Sound, NEW p \in Procs, Step(p) PROVE Sound'
BY ReadLockSound, StatLinkSound, RemoveLinkSound, MakeLinkSound, InstallSound, UpdateSound,
   UnfetchedSound, SyncTypesSound, WriteNoteSound, AskSound, RefuseSound, BindSound,
   PatchFailsSound, OverwriteSound, RecordSound, RewriteEntrySound, RebindSound, CleanSound
   DEF Step

LEMMA BeginSound == ASSUME Sound, Begin PROVE Sound'
<1>1. CASE \E p \in Commanders, cmd \in {"install", "update", "add", "clean"} :
              Open(p, cmd, FALSE)
  <2>1. PICK p \in Commanders, cmd \in {"install", "update", "add", "clean"} :
              Open(p, cmd, FALSE)
    BY <1>1
  <2> QED
    BY <2>1, OpenSound DEF Procs
<1>2. CASE \E p \in Commanders, forced \in BOOLEAN : Open(p, "patch", forced)
  <2>1. PICK p \in Commanders, forced \in BOOLEAN : Open(p, "patch", forced)
    BY <1>2
  <2> QED
    BY <2>1, OpenSound DEF Procs
<1>3. CASE \E p \in Checkers : Open(p, "check", FALSE)
  <2>1. PICK p \in Checkers : Open(p, "check", FALSE)
    BY <1>3
  <2> QED
    BY <2>1, OpenSound DEF Procs
<1> QED
  BY <1>1, <1>2, <1>3 DEF Begin

-----------------------------------------------------------------------------
(* The person.                                                             *)

LEMMA StillSound ==
  ASSUME Sound, UNCHANGED proc, Keeps, Files'
  PROVE  Sound'
<1>1. \A q \in Procs : Fits(q)'
  BY OthersFit DEF Sound
<1> QED
  BY <1>1 DEF Sound

LEMMA CommitSound == ASSUME Sound, Commit PROVE Sound'
<1>1. copy \in Copies
  BY DEF Commit, Sound, Files
<1>2. copy' \in Copies /\ copy'.seen /\ copy'.saved
  BY <1>1 DEF Commit, Copies
<1>3. Files' /\ Keeps
  BY <1>2, NoneAssumption DEF Commit, Sound, Files, Keeps, Unsaved
<1> QED
  BY <1>3, StillSound DEF Commit

LEMMA MovePinSound == ASSUME Sound, MovePin PROVE Sound'
<1>1. PICK pin \in Revisions : manifest' = [manifest EXCEPT !.pin = pin]
  BY DEF MovePin
<1>2. manifest \in Manifests
  BY DEF Sound, Files
<1>3. manifest' \in Manifests /\ manifest'.pin # None
  BY <1>1, <1>2, NoneAssumption DEF Manifests
<1>4. Files' /\ Keeps
  BY <1>3 DEF MovePin, Sound, Files, Keeps, Unsaved
<1> QED
  BY <1>4, StillSound DEF MovePin

\* Nobody is patching, and so nobody counts on the copy or on the entry.
LEMMA QuietFits ==
  ASSUME Sound, Quiet(Commanders), UNCHANGED <<proc, lock, types>>, NEW q \in Procs
  PROVE  Fits(q)'
<1>1. proc[q].at \notin {"bind", "overwrite", "record", "rebind"}
  <2>1. proc[q].at \in Patching => q \in Commanders
    BY DEF Sound, Fits
  <2> QED
    BY <2>1 DEF Quiet, At, Patching
<1> QED
  BY <1>1 DEF Sound, Fits, At

LEMMA DropPatchSound == ASSUME Sound, DropPatch PROVE Sound'
<1>1. manifest \in Manifests
  BY DEF Sound, Files
<1>2. manifest' \in Manifests /\ ~manifest'.patch
  BY <1>1 DEF DropPatch, Manifests
<1>3. Files'
  BY <1>2 DEF DropPatch, Sound, Files
<1>4. \A q \in Procs : Fits(q)'
  BY QuietFits DEF DropPatch
<1> QED
  BY <1>3, <1>4 DEF DropPatch, Sound

LEMMA DropDependencySound == ASSUME Sound, DropDependency PROVE Sound'
<1>1. manifest' \in Manifests /\ ~manifest'.patch
  BY DEF DropDependency, Manifests
<1>2. Files'
  BY <1>1 DEF DropDependency, Sound, Files
<1>3. \A q \in Procs : Fits(q)'
  BY QuietFits DEF DropDependency
<1> QED
  BY <1>2, <1>3 DEF DropDependency, Sound

\* An edit is late for whoever has asked git and is yet to overwrite the copy.
LEMMA EditSound == ASSUME Sound, Edit PROVE Sound'
<1>1. copy \in Copies /\ (Unseen \/ copy.seen)
  BY DEF Edit, Sound, Files
<1>2. PICK seen \in {TRUE, ~Unseen} :
         copy' = [copy EXCEPT !.own = TRUE, !.saved = FALSE, !.seen = copy.seen /\ seen]
  BY DEF Edit
<1>3. copy' \in Copies /\ (Unseen \/ copy'.seen)
  <2>1. (copy.seen /\ seen) \in BOOLEAN /\ (Unseen \/ seen)
    BY <1>1, UnseenAssumption DEF Copies
  <2> QED
    BY <1>1, <1>2, <2>1 DEF Copies
<1>4. copy' # None
  BY <1>3, NoneAssumption
<1>5. Files'
  BY <1>3 DEF Edit, Sound, Files
<1>6. ASSUME NEW q \in Procs
      PROVE  proc'[q] \in Processes /\ Fits(q)'
  <2> DEFINE late == proc[q].late \/ proc[q].at \in {"bind", "overwrite"}
  <2>1. proc'[q] = [proc[q] EXCEPT !.late = late]
    BY DEF Edit
  <2>2. proc[q] \in Processes /\ Fits(q)
    BY DEF Sound
  <2>3. late \in BOOLEAN
    BY <2>2 DEF Processes
  <2>4. proc'[q] \in Processes
    BY <2>1, <2>2, <2>3 DEF Processes
  <2>5. proc'[q].at = proc[q].at /\ proc'[q].before = proc[q].before
        /\ proc'[q].force = proc[q].force /\ proc'[q].late = late
    BY <2>1, <2>2 DEF Processes
  <2>6. At(q, "rest") => proc'[q] = Resting
    <3> SUFFICES ASSUME At(q, "rest") PROVE proc'[q] = Resting
      OBVIOUS
    <3>1. proc[q] = Resting
      BY <2>2 DEF Fits, At
    <3>2. Resting \in Processes /\ Resting.at = "rest" /\ ~Resting.late
      BY DEF Resting, Processes
    <3>3. late = FALSE
      BY <3>1, <3>2
    <3>4. /\ proc'[q].cmd = Resting.cmd /\ proc'[q].patch = Resting.patch
          /\ proc'[q].wanted = Resting.wanted
      BY <2>1, <3>1, <3>2 DEF Processes
    <3> QED
      BY <2>4, <2>5, <3>1, <3>2, <3>3, <3>4 DEF Processes
  <2>7. Fits(q)'
    BY <1>4, <2>2, <2>5, <2>6 DEF Fits, At, Edit
  <2> QED
    BY <2>4, <2>7
<1>7. DOMAIN proc' = Procs /\ proc' = [q \in Procs |-> proc'[q]]
  BY DEF Edit
<1> QED
  BY <1>5, <1>6, <1>7 DEF Sound

-----------------------------------------------------------------------------
(* The specification.                                                      *)

LEMMA NextSound == ASSUME Sound, Next PROVE Sound'
<1>1. CASE Begin
  BY <1>1, BeginSound
<1>2. CASE Person
  BY <1>2, EditSound, CommitSound, MovePinSound, DropPatchSound, DropDependencySound DEF Person
<1>3. ASSUME NEW p \in Procs, Step(p) \/ RecordFails(p) \/ Killed(p)
      PROVE  Sound'
  BY <1>3, StepSound, RecordFailsSound, KilledSound
<1> QED
  BY <1>1, <1>2, <1>3 DEF Next

LEMMA RememberTypes ==
  ASSUME NEW own, NEW shaken \in BOOLEAN, Remember(own, shaken)
  PROVE  stale' \subseteq Procs /\ settled' \in BOOLEAN
<1>1. Looking \subseteq Procs
  BY DEF Looking
<1>2. stale' \subseteq Looking
  BY DEF Remember
<1> QED
  BY <1>1, <1>2 DEF Remember

LEMMA NextInv == ASSUME Inv, [Next]_vars PROVE Inv'
<1>1. CASE Next
  <2>1. Sound'
    BY <1>1, NextSound DEF Inv
  <2>2. PICK own \in {{}} \cup {{p} : p \in Procs}, shaken \in BOOLEAN : Remember(own, shaken)
    BY <1>1 DEF Next
  <2>3. stale' \subseteq Procs /\ settled' \in BOOLEAN
    BY <2>2, RememberTypes
  <2>4. broken' \in BOOLEAN
    BY <1>1 DEF Next, Inv, MidWay
  <2> QED
    BY <2>1, <2>3, <2>4 DEF Inv
<1>2. CASE UNCHANGED vars
  BY <1>2 DEF vars, Inv, Sound, Files, Fits, At, Unsaved
<1> QED
  BY <1>1, <1>2

LEMMA AlwaysInv == Spec => []Inv
BY InitInv, NextInv, PTL DEF Spec

\* The files and the processes keep their shape, whatever runs beside what and
\* wherever it fails or is killed.
THEOREM TypesHold == Spec => []TypeOK
<1>1. Inv => TypeOK
  BY DEF Inv, Sound, Files, Fits, TypeOK
<1> QED
  BY <1>1, AlwaysInv, PTL

\* What the project changed and did not commit is overwritten only by a command that
\* was forced, or whose question to git came before the change: however many commands
\* run at once, provided git names every file changed.
THEOREM EditsAreNotOverwritten == ASSUME ~Unseen PROVE Spec => EditsSurvive
<1> DEFINE Taken == Unsaved /\ ~(copy' # None /\ copy'.own)
           Warned == \E p \in Commanders : At(p, "overwrite") /\ (proc[p].force \/ proc[p].late)
<1>1. ASSUME Inv, Next, Taken PROVE Warned
  <2>1. copy \in Copies /\ Unsaved
    BY <1>1 DEF Inv, Sound, Files, Unsaved
  <2>2. ~Begin
    BY <1>1 DEF Begin, Open, world, Unsaved
  <2>3. ~Person
    <3>1. ~Edit /\ ~Commit
      BY <1>1, <2>1, NoneAssumption DEF Edit, Commit, Unsaved, Copies
    <3>2. ~MovePin /\ ~DropPatch /\ ~DropDependency
      BY <1>1 DEF MovePin, DropPatch, DropDependency, Unsaved
    <3> QED
      BY <3>1, <3>2 DEF Person
  <2>4. PICK p \in Procs : Overwrite(p)
    <3>1. PICK p \in Procs : Step(p) \/ RecordFails(p) \/ Killed(p)
      BY <1>1, <2>2, <2>3 DEF Next
    <3>2. UNCHANGED copy => FALSE
      BY <1>1 DEF Unsaved
    <3> QED
      BY <3>1, <3>2 DEF Step, RecordFails, Killed, ReadLock, StatLink, RemoveLink, MakeLink,
         Install, Update, Unfetched, SyncTypes, WriteNote, Ask, Refuse, Bind, PatchFails,
         Record, RewriteEntry, Rebind, Clean, world
  <2>5. At(p, "overwrite") /\ Fits(p)
    BY <1>1, <2>4 DEF Overwrite, Inv, Sound
  <2> QED
    BY <1>1, <2>5 DEF Fits, At, Patching
<1>2. ASSUME Inv, [Next]_vars PROVE [Taken => Warned]_vars
  BY <1>1, <1>2
<1> QED
  BY <1>2, AlwaysInv, PTL DEF Spec, EditsSurvive
-----------------------------------------------------------------------------
(* The link settles.                                                       *)

\* The processes that look at the link, or will.
Looks == {q \in Procs : proc[q].at # "rest" /\ proc[q].cmd \in {"check", "install", "update"}}

\* Which command comes to which step.
Role(p) ==
    /\ proc[p].at \in Linking \cup {"types", "note", "install", "update"}
          => proc[p].cmd \in {"check", "install", "update"}
    /\ proc[p].at \in {"types", "note", "install", "update"} => proc[p].cmd # "check"
    /\ proc[p].at # "rest" /\ proc[p].cmd # "check" => p \in Commanders
    /\ At(p, "link") => proc[p].wanted # None

\* What a look goes by is what the manifest and the lockfile say.
Aims(p) ==
    /\ proc[p].at \in {"lock", "install", "update"} => proc[p].patch = manifest.patch
    /\ proc[p].at \in {"stat", "unlink", "link"} => proc[p].wanted = Wanted

\* Looks that nothing changed under: somebody is about to make the link whenever it is
\* missing, once one of them ended or means to remove what it saw.
Making == \E p \in Procs : At(p, "link")
Removing == \E p \in Procs : At(p, "unlink")
Converges ==
    /\ \A p \in Procs : Aims(p)
    /\ Making => link \in {None, Wanted}
    /\ settled /\ link # Wanted => Making
    /\ Removing /\ link = None /\ Wanted # None => Making

\* A look that is stale makes every other so, and as long as there is one nothing is
\* settled.
Settling ==
    /\ \A p \in Procs : Role(p)
    /\ lock = None => link = None
    /\ stale \in {{}, Looks}
    /\ settled => stale = {}
    /\ stale = {} => Converges

Moved == <<manifest.patch, Locked>>' # <<manifest.patch, Locked>>

LEMMA WantedStays == ASSUME ~Moved PROVE Wanted' = Wanted /\ manifest'.patch = manifest.patch
BY DEF Moved, Wanted, LinkTarget

\* What the histories remember of a step.
LEMMA Remembered ==
  ASSUME Settling, NEW own, NEW shaken \in BOOLEAN, Remember(own, shaken),
         \A q \in Looks' : q \in Looks \/ At(q, "rest")
  PROVE  /\ stale' \in {{}, Looks'}
         /\ settled' => /\ stale' = {} /\ ~Moved /\ ~shaken
                        /\ settled \/ \E p \in Procs : LookEnds(p)
         /\ stale' = {} => \/ stale = {} /\ (Moved \/ shaken => Looks' \subseteq own)
                           \/ Looks' = {} /\ ~settled'
<1> DEFINE still == {q \in Looks' : q \in stale \/ (At(q, "rest") /\ stale # {})}
<1>1. stale' = IF (Moved \/ shaken) /\ Looks' \ own # {} THEN Looks' ELSE still
  BY DEF Remember, Moved, Looking, Looks
<1>2. settled' => /\ ~Moved /\ ~shaken
                  /\ settled \/ \E p \in Procs : LookEnds(p)
                  /\ \A p \in stale : ~LookEnds(p)
  BY DEF Remember, Moved
<1>3. \A p \in Procs : LookEnds(p) => p \in Looks
  BY DEF LookEnds, Settling, Role, Looks, Linking
<1>4. CASE stale = {}
  <2>1. still = {}
    BY <1>4
  <2> HIDE DEF still
  <2> QED
    BY <1>1, <1>2, <1>4, <2>1
<1>5. CASE stale = Looks /\ stale # {}
  <2>1. still = Looks'
    BY <1>5
  <2>2. ~settled'
    BY <1>2, <1>3, <1>5 DEF Settling
  <2> HIDE DEF still
  <2> QED
    BY <1>1, <2>1, <2>2
<1> QED
  BY <1>4, <1>5 DEF Settling

\* When nobody looks any more, there is nothing to go by.
LEMMA NobodyLooks ==
  ASSUME \A q \in Procs : Role(q)', Looks' = {}, ~settled'
  PROVE  Converges'
<1>1. \A q \in Procs : proc'[q].at \notin Linking \cup {"types", "note", "install", "update"}
  BY DEF Role, Looks, Linking
<1> QED
  BY <1>1 DEF Converges, Aims, Making, Removing, At, Linking

\* A step that is none of link_entries.
LEMMA ElsewhereSettles ==
  ASSUME Settling, NEW p \in Procs, NEW own \in SUBSET {p}, Remember(own, FALSE),
         \A q \in Procs \ {p} : proc'[q] = proc[q],
         Role(p)', p \in Looks' => p \in Looks \/ At(p, "rest"),
         proc[p].at \notin Linking, proc'[p].at \notin {"unlink", "link"},
         Aims(p) => Aims(p)', lock # None => lock' # None, link' = link
  PROVE  Settling'
<1>1. \A q \in Procs : Role(q)'
  BY DEF Settling, Role, At
<1>2. \A q \in Looks' : q \in Looks \/ At(q, "rest")
  BY DEF Looks
<1>3. lock' = None => link' = None
  BY DEF Settling
<1>4. \A q \in Procs : ~LookEnds(q)
  BY DEF LookEnds
<1>5. Making' <=> Making
  BY DEF Making, At, Linking
<1>6. Removing' <=> Removing
  BY DEF Removing, At, Linking
<1>7. ASSUME stale' = {} PROVE Converges'
  <2>1. CASE Looks' = {} /\ ~settled'
    BY <1>1, <2>1, NobodyLooks
  <2>2. CASE stale = {} /\ ~Moved
    <3>1. Converges /\ (settled' => settled)
      BY <1>2, <1>4, <2>2, Remembered DEF Settling
    <3>2. \A q \in Procs : Aims(q)'
      BY <2>2, <3>1, WantedStays DEF Converges, Aims
    <3> QED
      BY <1>5, <1>6, <2>2, <3>1, <3>2, WantedStays DEF Converges
  <2>3. CASE stale = {} /\ Moved /\ Looks' \subseteq {p}
    <3>1. Converges /\ ~settled'
      BY <1>2, <2>3, Remembered DEF Settling
    <3>2. \A q \in Procs \ {p} : proc'[q].at \notin Linking \cup {"install", "update"}
      BY <1>1, <2>3 DEF Role, Looks, Linking
    <3>3. \A q \in Procs : Aims(q)'
      BY <3>1, <3>2 DEF Converges, Aims, Linking
    <3>4. ~Making' /\ ~Removing'
      BY <3>2 DEF Making, Removing, At, Linking
    <3> QED
      BY <3>1, <3>3, <3>4 DEF Converges
  <2>4. Looks' \subseteq own => Looks' \subseteq {p}
    OBVIOUS
  <2> QED
    BY <1>2, <1>7, <2>1, <2>2, <2>3, <2>4, Remembered
<1> QED
  BY <1>1, <1>2, <1>3, <1>7, Remembered DEF Settling

\* A step of link_entries: what the manifest and the lockfile say stays.
LEMMA LookSettles ==
  ASSUME Settling, NEW p \in Procs, Remember({p}, FALSE),
         \A q \in Procs \ {p} : proc'[q] = proc[q],
         Role(p)', proc[p].at \in Linking, UNCHANGED <<manifest, lock>>,
         lock = None => link' = None,
         Converges => Converges'
  PROVE  Settling'
<1>1. \A q \in Procs : Role(q)'
  BY DEF Settling, Role, At
<1>2. \A q \in Looks' : q \in Looks \/ At(q, "rest")
  <2>1. p \in Looks
    BY DEF Settling, Role, Looks, Linking
  <2> QED
    BY <2>1 DEF Looks
<1>3. ~Moved
  BY DEF Moved, Locked
<1>4. stale' = {} => Converges'
  BY <1>1, <1>2, <1>3, Remembered, NobodyLooks DEF Settling
<1> QED
  BY <1>1, <1>2, <1>4, Remembered DEF Settling

\* Where a command that goes on, or ends, comes to.
LEMMA Ended ==
  ASSUME Sound, NEW p \in Procs, End(p)
  PROVE  /\ proc'[p] = Resting /\ Role(p)' /\ Aims(p)' /\ p \notin Looks'
         /\ proc'[p].at = "rest" /\ \A q \in Procs \ {p} : proc'[q] = proc[q]
<1>1. proc'[p] = Resting /\ \A q \in Procs \ {p} : proc'[q] = proc[q]
  BY DEF End, Sound
<1>2. Resting.at = "rest" /\ Resting.cmd = None
  BY DEF Resting
<1> QED
  BY <1>1, <1>2 DEF Role, Aims, Looks, At, Linking

LEMMA GoneOn ==
  ASSUME Settling, Sound, NEW p \in Procs, NEW here \in Phases, Goto(p, here), ~At(p, "rest")
  PROVE  /\ proc'[p].at = here /\ proc'[p].cmd = proc[p].cmd /\ proc'[p].patch = proc[p].patch
         /\ proc'[p].wanted = proc[p].wanted
         /\ p \in Looks' => p \in Looks
         /\ \A q \in Procs \ {p} : proc'[q] = proc[q]
         /\ here \in Patching => Role(p)' /\ Aims(p)'
         /\ proc[p].cmd # "check" => p \in Commanders
<1>1. \A q \in Procs \ {p} : proc'[q] = proc[q]
  BY DEF Goto, Sound
<1>2. /\ proc'[p].at = here /\ proc'[p].cmd = proc[p].cmd /\ proc'[p].patch = proc[p].patch
      /\ proc'[p].wanted = proc[p].wanted
  BY Went
<1>3. proc[p].at # "rest" /\ Role(p)
  BY DEF Settling, At
<1>4. here \in Patching => Role(p)' /\ Aims(p)'
  BY <1>2, <1>3 DEF Role, Aims, Patching, Linking, At
<1> QED
  BY <1>1, <1>2, <1>3, <1>4 DEF Looks, Role

\* A command that ends, or goes on with patch or add, is not at the link.
LEMMA EndSettles ==
  ASSUME Settling, Sound, NEW p \in Procs, NEW own \in SUBSET {p}, Remember(own, FALSE), End(p),
         proc[p].at \notin Linking, lock # None => lock' # None, link' = link
  PROVE  Settling'
BY Ended, ElsewhereSettles

LEMMA PatchingSettles ==
  ASSUME Settling, Sound, NEW p \in Procs, Remember({p}, FALSE),
         NEW here \in {"bind", "overwrite", "record", "rebind"}, Goto(p, here),
         proc[p].at \in Patching, lock # None => lock' # None, link' = link
  PROVE  Settling'
<1>1. here \in Phases /\ here \in Patching /\ here \notin {"unlink", "link"}
  BY DEF Phases, Patching
<1>2. ~At(p, "rest") /\ proc[p].at \notin Linking
  BY DEF Patching, Linking, At
<1> QED
  BY <1>1, <1>2, GoneOn, ElsewhereSettles

LEMMA OpenSettles ==
  ASSUME Settling, Sound, NEW p \in Procs,
         NEW cmd \in {"check", "install", "update", "patch", "add", "clean"},
         NEW forced \in BOOLEAN, Open(p, cmd, forced), cmd # "check" => p \in Commanders,
         Remember({}, FALSE)
  PROVE  Settling'
<1> DEFINE r == [Resting EXCEPT !.at = IF cmd = "check" THEN "lock" ELSE cmd, !.cmd = cmd,
                                !.patch = manifest.patch, !.force = forced]
<1>1. proc' = [proc EXCEPT ![p] = r] /\ At(p, "rest")
  BY DEF Open
<1>2. proc'[p] = r /\ \A q \in Procs \ {p} : proc'[q] = proc[q]
  BY <1>1 DEF Sound
<1>3. /\ r.at = IF cmd = "check" THEN "lock" ELSE cmd
      /\ r.cmd = cmd /\ r.patch = manifest.patch
  BY DEF Resting
<1> HIDE DEF r
<1>4. Role(p)' /\ Aims(p)'
  BY <1>2, <1>3 DEF Role, Aims, Linking, At, Open, world
<1>5. proc[p].at \notin Linking /\ proc'[p].at \notin {"unlink", "link"}
  BY <1>1, <1>2, <1>3 DEF At, Linking
<1>6. UNCHANGED <<lock, link>>
  BY DEF Open, world
<1> QED
  BY <1>1, <1>2, <1>4, <1>5, <1>6, ElsewhereSettles

\* An install, or an update, goes on to the link with the patch it read.
LEMMA InstallSettles ==
  ASSUME Settling, Sound, NEW p \in Procs, Install(p) \/ Update(p), Remember({p}, FALSE)
  PROVE  Settling'
<1>1. PICK pin \in Revisions \cup {None} : OpsInstall(pin)
  BY DEF Install, Update, Sound, Files, Manifests
<1>2. lock' # None
  BY <1>1, OpsInstallFiles DEF Sound
<1>3. manifest'.patch = manifest.patch
  BY DEF Install, Update, Sound, Files, Manifests
<1>4. Goto(p, "lock") /\ link' = link /\ "lock" \in Phases
  BY DEF Install, Update, Phases
<1>5. proc[p].at \in {"install", "update"}
  BY DEF Install, Update, At
<1>6. Role(p)' /\ (Aims(p) => Aims(p)')
  BY <1>3, <1>4, <1>5, GoneOn DEF Settling, Role, Aims, At, Linking
<1> QED
  BY <1>2, <1>4, <1>5, <1>6, GoneOn, ElsewhereSettles DEF At, Linking

LEMMA TypesSettle ==
  ASSUME Settling, Sound, NEW p \in Procs, SyncTypes(p), Remember({p}, FALSE)
  PROVE  Settling'
<1>1. proc[p].at = "types" /\ UNCHANGED <<lock, link>> /\ proc[p].at \notin Linking
  BY DEF SyncTypes, At, Linking
<1>2. CASE End(p)
  BY <1>1, <1>2, EndSettles
<1>3. CASE Goto(p, "note")
  <2>1. "note" \in Phases /\ ~At(p, "rest")
    BY <1>1 DEF Phases, At
  <2>2. Role(p)' /\ Aims(p)'
    BY <1>1, <1>3, <2>1, GoneOn DEF Settling, Role, Aims, At, Linking
  <2> QED
    BY <1>1, <1>3, <2>1, <2>2, GoneOn, ElsewhereSettles
<1> QED
  BY <1>2, <1>3 DEF SyncTypes

\* The steps of patch, add and clean, and those that fail.
LEMMA PatchStepsSettle ==
  ASSUME Settling, Sound, NEW p \in Procs, Remember({p}, FALSE),
         Bind(p) \/ Overwrite(p) \/ RewriteEntry(p) \/ Ask(p)
  PROVE  Settling'
<1>1. UNCHANGED <<lock, link>> /\ proc[p].at \in Patching
  BY DEF Bind, Overwrite, RewriteEntry, Ask, world, Patching, At
<1>2. proc[p].at \notin Linking
  BY <1>1 DEF Patching, Linking
<1>3. CASE Bind(p) \/ Overwrite(p) \/ RewriteEntry(p)
  BY <1>1, <1>2, <1>3, EndSettles, PatchingSettles DEF Bind, Overwrite, RewriteEntry
<1>4. CASE Ask(p)
  <2> DEFINE r == [proc[p] EXCEPT !.at = "bind", !.before = manifest]
  <2>1. proc[p] \in Processes /\ proc'[p] = r /\ \A q \in Procs \ {p} : proc'[q] = proc[q]
    BY <1>4 DEF Ask, Sound
  <2>2. proc'[p].at = "bind" /\ proc'[p].cmd = proc[p].cmd
    BY <2>1 DEF Processes
  <2>3. proc[p].at # "rest" /\ Role(p)
    BY <1>1 DEF Patching, Settling
  <2>4. Role(p)' /\ Aims(p)' /\ (p \in Looks' => p \in Looks)
    BY <2>2, <2>3 DEF Role, Aims, Looks, Linking, At
  <2> QED
    BY <1>1, <1>2, <2>1, <2>2, <2>4, ElsewhereSettles
<1> QED
  BY <1>3, <1>4

LEMMA EndsSettle ==
  ASSUME Settling, Sound, NEW p \in Procs, NEW own \in SUBSET {p}, Remember(own, FALSE),
         \/ Unfetched(p) \/ WriteNote(p) \/ Refuse(p) \/ PatchFails(p) \/ Record(p)
         \/ RecordFails(p) \/ Rebind(p) \/ Clean(p)
  PROVE  Settling'
<1>1. End(p) /\ link' = link /\ proc[p].at \notin Linking
  BY DEF Unfetched, WriteNote, Refuse, PatchFails, Record, RecordFails, Rebind, Clean, world, At,
         Linking
<1>2. lock # None => lock' # None
  BY RecordKeeps DEF Keeps, Unfetched, WriteNote, Refuse, PatchFails, RecordFails, Rebind, Clean,
     world
<1> QED
  BY <1>1, <1>2, EndSettles

\* Who is about to make the link, and who to remove it, when one process moves.
LEMMA MakersMove ==
  ASSUME NEW p \in Procs, \A q \in Procs \ {p} : proc'[q] = proc[q]
  PROVE  /\ proc'[p].at = "link" => Making'
         /\ proc[p].at # "link" => (Making => Making')
         /\ proc'[p].at # "link" => (Making' => Making)
         /\ proc'[p].at # "unlink" => (Removing' => Removing)
BY DEF Making, Removing, At

LEMMA ReadLockSettles ==
  ASSUME Settling, Sound, NEW p \in Procs, ReadLock(p), Remember({p}, FALSE)
  PROVE  Settling'
<1>1. proc[p].at = "lock" /\ UNCHANGED <<manifest, lock, link>> /\ proc[p].at \in Linking
  BY DEF ReadLock, At, world, Linking
<1>2. Wanted' = Wanted /\ (lock = None => link' = None /\ Wanted = None)
  BY <1>1 DEF Wanted, Locked, LinkTarget, Settling
<1>3. CASE lock = None
  <2>1. End(p)
    BY <1>3 DEF ReadLock
  <2>2. ASSUME Converges PROVE Converges'
    <3>1. \A q \in Procs : Aims(q)'
      BY <1>1, <1>2, <2>1, <2>2, Ended DEF Converges, Aims
    <3>2. link' = None /\ Wanted' = None
      BY <1>2, <1>3
    <3> QED
      BY <3>1, <3>2 DEF Converges
  <2> QED
    BY <1>1, <1>2, <2>1, <2>2, Ended, LookSettles
<1>4. CASE lock # None
  <2> DEFINE w == IF lock.sha = None THEN None ELSE LinkTarget(proc[p].patch)
  <2>1. /\ proc'[p] = [proc[p] EXCEPT !.at = "stat", !.wanted = w]
        /\ \A q \in Procs \ {p} : proc'[q] = proc[q]
    BY <1>4 DEF ReadLock, Sound
  <2>2. proc[p] \in Processes
    BY DEF Sound
  <2>3. proc'[p].at = "stat" /\ proc'[p].wanted = w /\ proc'[p].cmd = proc[p].cmd
    BY <2>1, <2>2 DEF Processes
  <2>4. Role(p)'
    BY <1>1, <2>3 DEF Settling, Role, Linking, At
  <2>5. ASSUME Converges PROVE Converges'
    <3>1. w = Wanted
      BY <1>1, <1>4, <2>5 DEF Converges, Aims, Wanted, Locked
    <3> HIDE DEF w
    <3>2. \A q \in Procs : Aims(q)'
      BY <1>1, <1>2, <2>1, <2>3, <2>5, <3>1 DEF Converges, Aims
    <3>3. (Making' <=> Making) /\ (Removing' => Removing)
      BY <1>1, <2>1, <2>3, MakersMove
    <3>4. settled' /\ ~settled => FALSE
      <4>1. \A q \in Procs : ~LookEnds(q)
        BY <2>1, <2>3 DEF LookEnds, Linking
      <4> QED
        BY <4>1 DEF Remember
    <3> QED
      BY <1>1, <1>2, <2>5, <3>2, <3>3, <3>4 DEF Converges
  <2> QED
    BY <1>1, <1>2, <2>1, <2>4, <2>5, LookSettles
<1> QED
  BY <1>3, <1>4

\* A look that has done with the link ends, or goes on to the declarations.
LEMMA DoneLinking ==
  ASSUME Settling, Sound, NEW p \in Procs, proc[p].at \in Linking, Linked(p) \/ End(p)
  PROVE  /\ Role(p)' /\ Aims(p)' /\ proc'[p].at \notin {"unlink", "link"}
         /\ \A q \in Procs \ {p} : proc'[q] = proc[q]
<1>1. CASE End(p)
  BY <1>1, Ended
<1>2. CASE Goto(p, "types") /\ proc[p].cmd # "check"
  <2>1. "types" \in Phases /\ ~At(p, "rest")
    BY DEF Phases, At, Linking
  <2> QED
    BY <1>2, <2>1, GoneOn DEF Settling, Role, Aims, At, Linking
<1> QED
  BY <1>1, <1>2 DEF Linked

\* One that goes on with the link it wants.
LEMMA KeepsLinking ==
  ASSUME Settling, Sound, NEW p \in Procs, proc[p].at \in {"stat", "unlink"},
         NEW here \in {"unlink", "link"}, Goto(p, here), here = "link" => proc[p].wanted # None
  PROVE  /\ Role(p)' /\ proc'[p].at = here /\ proc'[p].wanted = proc[p].wanted
         /\ \A q \in Procs \ {p} : proc'[q] = proc[q]
<1>1. here \in Phases /\ ~At(p, "rest")
  BY DEF Phases, At
<1> QED
  BY <1>1, GoneOn DEF Settling, Role, At, Linking

LEMMA StatLinkSettles ==
  ASSUME Settling, Sound, NEW p \in Procs, StatLink(p), Remember({p}, FALSE)
  PROVE  Settling'
<1>1. proc[p].at = "stat" /\ UNCHANGED <<manifest, lock, link>> /\ proc[p].at \in Linking
  BY DEF StatLink, At, world, Linking
<1>2. Wanted' = Wanted /\ (lock = None => link' = None)
  BY <1>1 DEF Wanted, Locked, LinkTarget, Settling
<1>3. Converges => proc[p].wanted = Wanted
  BY <1>1 DEF Converges, Aims
<1>4. CASE link = proc[p].wanted /\ Linked(p)
  <2>1. /\ Role(p)' /\ Aims(p)' /\ proc'[p].at \notin {"unlink", "link"}
        /\ \A q \in Procs \ {p} : proc'[q] = proc[q]
    BY <1>1, <1>4, DoneLinking
  <2>2. ASSUME Converges PROVE Converges'
    BY <1>1, <1>2, <1>3, <1>4, <2>1, <2>2 DEF Converges, Aims
  <2> QED
    BY <1>1, <1>2, <2>1, <2>2, LookSettles
<1>5. CASE link # proc[p].wanted /\ link # None /\ Goto(p, "unlink")
  <2>1. /\ Role(p)' /\ proc'[p].at = "unlink" /\ proc'[p].wanted = proc[p].wanted
        /\ \A q \in Procs \ {p} : proc'[q] = proc[q]
    BY <1>1, <1>5, KeepsLinking
  <2>2. ASSUME Converges PROVE Converges'
    <3>1. \A q \in Procs : Aims(q)'
      BY <1>1, <1>2, <1>3, <2>1, <2>2 DEF Converges, Aims
    <3>2. Making' = Making
      BY <1>1, <2>1 DEF Making, At
    <3>3. settled' => settled
      <4>1. \A q \in Procs : ~LookEnds(q)
        BY <2>1 DEF LookEnds, Linking
      <4> QED
        BY <4>1 DEF Remember
    <3> QED
      BY <1>1, <1>2, <1>5, <2>2, <3>1, <3>2, <3>3 DEF Converges
  <2> QED
    BY <1>1, <1>2, <2>1, <2>2, LookSettles
<1>6. CASE link # proc[p].wanted /\ link = None /\ Goto(p, "link")
  <2>1. /\ Role(p)' /\ proc'[p].at = "link" /\ proc'[p].wanted = proc[p].wanted
        /\ \A q \in Procs \ {p} : proc'[q] = proc[q]
    BY <1>1, <1>6, KeepsLinking
  <2>2. ASSUME Converges PROVE Converges'
    <3>1. \A q \in Procs : Aims(q)'
      BY <1>1, <1>2, <1>3, <2>1, <2>2 DEF Converges, Aims
    <3>2. Making'
      BY <2>1, MakersMove
    <3> QED
      BY <1>1, <1>6, <3>1, <3>2 DEF Converges
  <2> QED
    BY <1>1, <1>2, <2>1, <2>2, LookSettles
<1> QED
  BY <1>4, <1>5, <1>6 DEF StatLink

LEMMA RemoveLinkSettles ==
  ASSUME Settling, Sound, NEW p \in Procs, RemoveLink(p), Remember({p}, FALSE)
  PROVE  Settling'
<1>1. /\ proc[p].at = "unlink" /\ proc[p].at \in Linking
      /\ UNCHANGED <<manifest, lock>> /\ link' = None
  BY DEF RemoveLink, At, Linking
<1>2. Wanted' = Wanted
  BY <1>1 DEF Wanted, Locked, LinkTarget
<1>3. Converges => proc[p].wanted = Wanted
  BY <1>1 DEF Converges, Aims
<1>4. CASE Linked(p) \/ End(p)
  <2>1. /\ Role(p)' /\ Aims(p)' /\ proc'[p].at \notin {"unlink", "link"}
        /\ \A q \in Procs \ {p} : proc'[q] = proc[q]
    BY <1>1, <1>4, DoneLinking
  <2>2. link = None \/ proc[p].wanted = None \/ proc'[p].at = "link"
    BY <1>1, GoneOn DEF RemoveLink, Goto, Phases, At
  <2>3. ASSUME Converges PROVE Converges'
    <3>1. \A q \in Procs : Aims(q)'
      BY <1>1, <1>2, <2>1, <2>3 DEF Converges, Aims
    <3>2. Making => Making'
      BY <1>1, <2>1, MakersMove
    <3>3. Wanted # None => Making
      BY <1>1, <1>3, <2>1, <2>2, <2>3 DEF Converges, Removing, At
    <3> QED
      BY <1>1, <1>2, <3>1, <3>2, <3>3 DEF Converges
  <2> QED
    BY <1>1, <2>1, <2>3, LookSettles
<1>5. CASE Goto(p, "link") /\ proc[p].wanted # None
  <2>1. /\ Role(p)' /\ proc'[p].at = "link" /\ proc'[p].wanted = proc[p].wanted
        /\ \A q \in Procs \ {p} : proc'[q] = proc[q]
    BY <1>1, <1>5, KeepsLinking
  <2>2. ASSUME Converges PROVE Converges'
    <3>1. \A q \in Procs : Aims(q)'
      BY <1>1, <1>2, <1>3, <2>1, <2>2 DEF Converges, Aims
    <3>2. Making'
      BY <2>1, MakersMove
    <3> QED
      BY <1>1, <3>1, <3>2 DEF Converges
  <2> QED
    BY <1>1, <2>1, <2>2, LookSettles
<1> QED
  BY <1>4, <1>5 DEF RemoveLink

LEMMA MakeLinkSettles ==
  ASSUME Settling, Sound, NEW p \in Procs, MakeLink(p), Remember({p}, FALSE)
  PROVE  Settling'
<1>1. proc[p].at = "link" /\ UNCHANGED <<manifest, lock>> /\ proc[p].at \in Linking
  BY DEF MakeLink, At, Linking
<1>2. Wanted' = Wanted /\ lock # None
  BY <1>1 DEF Wanted, Locked, LinkTarget, Sound, Fits
<1>3. /\ Role(p)' /\ Aims(p)' /\ proc'[p].at \notin {"unlink", "link"}
      /\ \A q \in Procs \ {p} : proc'[q] = proc[q]
  BY <1>1, DoneLinking DEF MakeLink
<1>4. proc[p].wanted # None
  BY <1>1 DEF Settling, Role, At
<1>5. ASSUME Converges PROVE Converges'
  <2>1. \A q \in Procs : Aims(q)'
    BY <1>1, <1>2, <1>3, <1>5 DEF Converges, Aims
  <2>2. proc[p].wanted = Wanted /\ link \in {None, Wanted}
    BY <1>1, <1>5 DEF Converges, Aims, Making, At
  <2>3. link' = Wanted' /\ link' # None
    BY <1>2, <1>4, <2>2 DEF MakeLink
  <2> QED
    BY <2>1, <2>3 DEF Converges
<1> QED
  BY <1>1, <1>2, <1>3, <1>5, LookSettles

\* A process that is killed makes every look there is stale.
LEMMA KilledSettles ==
  ASSUME Settling, Sound, NEW p \in Procs, Killed(p), Remember({}, TRUE)
  PROVE  Settling'
<1>1. /\ Role(p)' /\ p \notin Looks' /\ \A q \in Procs \ {p} : proc'[q] = proc[q]
      /\ UNCHANGED <<lock, link>>
  BY Ended DEF Killed, world
<1>2. \A q \in Procs : Role(q)'
  BY <1>1 DEF Settling, Role, At
<1>3. \A q \in Looks' : q \in Looks \/ At(q, "rest")
  BY <1>1 DEF Looks
<1>4. ~settled'
  BY DEF Remember
<1>5. stale' = {} => Converges'
  BY <1>2, <1>3, <1>4, Remembered, NobodyLooks
<1>6. lock' = None => link' = None
  BY <1>1 DEF Settling
<1> QED
  BY <1>2, <1>3, <1>4, <1>5, <1>6, Remembered DEF Settling

\* The person moves no process.
LEMMA PersonSettles ==
  ASSUME Settling, Sound, Person, Remember({}, FALSE)
  PROVE  Settling'
<1>1. UNCHANGED <<lock, link>>
  BY DEF Person, Edit, Commit, MovePin, DropPatch, DropDependency
<1>2. ASSUME NEW q \in Procs
      PROVE  /\ proc'[q].at = proc[q].at /\ proc'[q].cmd = proc[q].cmd
             /\ proc'[q].patch = proc[q].patch /\ proc'[q].wanted = proc[q].wanted
  <2>1. CASE Edit
    BY <2>1 DEF Edit, Sound, Processes
  <2> QED
    BY <2>1 DEF Person, Commit, MovePin, DropPatch, DropDependency
<1>3. \A q \in Procs : Role(q)'
  BY <1>2 DEF Settling, Role, At
<1>4. \A q \in Looks' : q \in Looks
  BY <1>2 DEF Looks
<1>5. Making' = Making /\ Removing' = Removing
  BY <1>2 DEF Making, Removing, At
<1>6. \A q \in Procs : ~LookEnds(q)
  BY <1>2 DEF LookEnds
<1>7. ASSUME stale' = {} PROVE Converges'
  <2>1. CASE Looks' = {} /\ ~settled'
    BY <1>3, <2>1, NobodyLooks
  <2>2. CASE stale = {} /\ ~Moved
    <3>1. Converges /\ (settled' => settled)
      BY <1>4, <1>6, <2>2, Remembered DEF Settling
    <3>2. \A q \in Procs : Aims(q)'
      BY <1>2, <2>2, <3>1, WantedStays DEF Converges, Aims
    <3> QED
      BY <1>1, <1>5, <2>2, <3>1, <3>2, WantedStays DEF Converges
  <2>3. CASE stale = {} /\ Moved /\ Looks' \subseteq {}
    <3>1. ~settled' /\ Looks' = {}
      BY <1>4, <2>3, Remembered
    <3> QED
      BY <1>3, <3>1, NobodyLooks
  <2> QED
    BY <1>4, <1>7, <2>1, <2>2, <2>3, Remembered
<1>8. lock' = None => link' = None
  BY <1>1 DEF Settling
<1> QED
  BY <1>3, <1>4, <1>7, <1>8, Remembered DEF Settling

LEMMA BeginSettles ==
  ASSUME Settling, Sound, Begin, Remember({}, FALSE)
  PROVE  Settling'
<1>1. PICK p \in Procs, cmd \in {"check", "install", "update", "patch", "add", "clean"},
           forced \in BOOLEAN : Open(p, cmd, forced) /\ (cmd # "check" => p \in Commanders)
  BY DEF Begin, Procs
<1> QED
  BY <1>1, OpenSettles

LEMMA NextSettles == ASSUME Settling, Sound, [Next]_vars PROVE Settling'
<1>1. CASE (Begin \/ Person) /\ Remember({}, FALSE)
  BY <1>1, BeginSettles, PersonSettles
<1>2. ASSUME NEW p \in Procs, Step(p), Remember({p}, FALSE)
      PROVE  Settling'
  <2>1. CASE ReadLock(p) \/ StatLink(p) \/ RemoveLink(p) \/ MakeLink(p)
    BY <1>2, <2>1, ReadLockSettles, StatLinkSettles, RemoveLinkSettles, MakeLinkSettles
  <2>2. CASE Install(p) \/ Update(p) \/ SyncTypes(p)
    BY <1>2, <2>2, InstallSettles, TypesSettle
  <2>3. CASE Bind(p) \/ Overwrite(p) \/ RewriteEntry(p) \/ Ask(p)
    BY <1>2, <2>3, PatchStepsSettle
  <2>4. CASE \/ Unfetched(p) \/ WriteNote(p) \/ Refuse(p) \/ PatchFails(p) \/ Record(p)
             \/ Rebind(p) \/ Clean(p)
    BY <1>2, <2>4, EndsSettle
  <2> QED
    BY <1>2, <2>1, <2>2, <2>3, <2>4 DEF Step
<1>3. ASSUME NEW p \in Procs, RecordFails(p), Remember({}, FALSE)
      PROVE  Settling'
  BY <1>3, EndsSettle
<1>4. ASSUME NEW p \in Procs, Killed(p), Remember({}, TRUE)
      PROVE  Settling'
  BY <1>4, KilledSettles
<1>5. CASE UNCHANGED vars
  BY <1>5 DEF vars, Settling, Role, Looks, Converges, Aims, Making, Removing, At, Wanted, Locked,
     LinkTarget
<1> QED
  BY <1>1, <1>2, <1>3, <1>4, <1>5 DEF Next

LEMMA InitSettles == Init => Settling
<1> SUFFICES ASSUME Init PROVE Settling
  OBVIOUS
<1>1. \A p \in Procs : proc[p].at = "rest"
  BY DEF Init, Resting
<1> QED
  BY <1>1 DEF Init, Settling, Role, Converges, Aims, Making, Removing, At, Linking

\* Once a look at the link that nothing changed under has ended, and nobody is at it, the
\* link is what the manifest and the lockfile ask for: however many looks undid each
\* other's steps and failed, whatever was killed, and whatever was edited unseen by git.
THEOREM TheLinkSettles == Spec => []LinkSettles
<1>1. Inv => Sound
  BY DEF Inv
<1>2. Spec => []Settling
  BY <1>1, AlwaysInv, InitSettles, NextSettles, PTL DEF Spec
<1>3. Settling => LinkSettles
  <2> SUFFICES ASSUME Settling, settled, Quiet(Procs) PROVE link = Wanted
    BY DEF LinkSettles
  <2>1. Converges /\ ~Making
    BY DEF Settling, Making, Quiet, At
  <2> QED
    BY <2>1 DEF Converges
<1> QED
  BY <1>2, <1>3, PTL

-----------------------------------------------------------------------------
(* One terminal: the files agree.                                          *)

Bound == manifest.patch <=> copy # None
BaseIsCopied == copy # None /\ lock # None /\ lock.base # None => lock.base = copy.rev
NoteIsRight == types # None => types.note \in {None, types.rev}
Vendors ==
    \/ vendored = lock.sha /\ vendored # "patch"
    \/ vendored = "patch" /\ copy # None /\ lock.base # None /\ lock.base = lock.sha

\* What the manifest, the copy, the lockfile and the declarations say of each other at
\* each step of a command: a copy and its entry part between the two writes of a patch or
\* an add, and an install vendors the revision it locked until it has noted it.
Agrees(p) ==
    /\ proc[p].at \in {"overwrite", "record", "rebind"} \/ Bound
    /\ At(p, "record") \/ BaseIsCopied
    /\ proc[p].at \in {"bind", "overwrite"} => (proc[p].before.patch <=> copy # None)
    /\ proc[p].at \in {"overwrite", "record"} => manifest.patch
    /\ proc[p].at \in {"record", "rebind"} => copy # None
    /\ proc[p].at \in Linking \cup {"types", "note"} /\ proc[p].cmd # "check" /\ lock # None
          => Vendors
    /\ At(p, "note") => types.rev = lock.sha
Agreement ==
    ~broken => /\ NoteIsRight
               /\ \A p \in Commanders : Agrees(p)
               /\ Commanders = {} => Bound

OneTerminal == \A p, q \in Commanders : p = q

LEMMA AgreesStays ==
  ASSUME NEW q \in Commanders, Agrees(q), UNCHANGED <<manifest, lock, copy, vendored, types>>,
         proc'[q].at = proc[q].at, proc'[q].cmd = proc[q].cmd, proc'[q].before = proc[q].before
  PROVE  Agrees(q)'
BY DEF Agrees, Bound, BaseIsCopied, Vendors, At

\* The one command there is has moved.
LEMMA OneAgrees ==
  ASSUME OneTerminal, NEW p \in Commanders, NoteIsRight', Agrees(p)'
  PROVE  Agreement'
BY DEF OneTerminal, Agreement

\* A process that ends, or goes on with the link, and leaves the rest as it was.
LEMMA LookAgrees ==
  ASSUME OneTerminal, Agreement, ~broken, NEW p \in Procs,
         UNCHANGED <<manifest, lock, copy, vendored, types>>,
         \A q \in Procs \ {p} : proc'[q] = proc[q],
         proc[p].at \notin {"overwrite", "record", "rebind"},
         \/ proc'[p].at = "rest"
         \/ /\ proc[p].at \in Linking /\ proc'[p].at \in {"stat", "unlink", "link", "types"}
            /\ proc'[p].cmd = proc[p].cmd
  PROVE  Agreement'
<1>1. NoteIsRight'
  BY DEF Agreement, NoteIsRight
<1>2. CASE p \in Commanders
  <2>1. Agrees(p)
    BY <1>2 DEF Agreement
  <2>2. Agrees(p)'
    BY <2>1 DEF Agrees, Bound, BaseIsCopied, Vendors, At, Linking
  <2> QED
    BY <1>1, <1>2, <2>2, OneAgrees
<1>3. CASE p \notin Commanders
  <2>1. \A q \in Commanders : Agrees(q)'
    BY <1>3, AgreesStays DEF Agreement, Procs
  <2> QED
    BY <1>1, <2>1 DEF Agreement, Bound
<1> QED
  BY <1>2, <1>3

LEMMA LinkMoves ==
  ASSUME Sound, Settling, NEW p \in Procs,
         ReadLock(p) \/ StatLink(p) \/ RemoveLink(p) \/ MakeLink(p)
  PROVE  /\ proc[p].at \in Linking /\ UNCHANGED <<manifest, lock, copy, vendored, types>>
         /\ \A q \in Procs \ {p} : proc'[q] = proc[q]
         /\ \/ proc'[p].at = "rest"
            \/ /\ proc'[p].at \in {"stat", "unlink", "link", "types"}
               /\ proc'[p].cmd = proc[p].cmd
<1>1. proc[p].at \in Linking /\ UNCHANGED <<manifest, lock, copy, vendored, types>>
  BY DEF ReadLock, StatLink, RemoveLink, MakeLink, world, Linking, At
<1>2. CASE End(p)
  BY <1>1, <1>2, Ended
<1>3. ASSUME NEW here \in {"unlink", "link", "types"}, Goto(p, here)
      PROVE  /\ \A q \in Procs \ {p} : proc'[q] = proc[q]
             /\ proc'[p].at = here /\ proc'[p].cmd = proc[p].cmd
  <2>1. here \in Phases /\ ~At(p, "rest")
    BY <1>1 DEF Phases, Linking, At
  <2> QED
    BY <1>3, <2>1, GoneOn
<1>4. CASE ReadLock(p) /\ lock # None
  <2>1. proc[p] \in Processes
    BY DEF Sound
  <2> QED
    BY <1>1, <1>4, <2>1 DEF ReadLock, Sound, Processes
<1> QED
  BY <1>1, <1>2, <1>3, <1>4 DEF ReadLock, StatLink, RemoveLink, MakeLink, Linked

LEMMA OpenAgrees ==
  ASSUME OneTerminal, Sound, Agreement, ~broken, NEW p \in Procs,
         NEW cmd \in {"check", "install", "update", "patch", "add", "clean"},
         NEW forced \in BOOLEAN, Open(p, cmd, forced), cmd # "check" => p \in Commanders
  PROVE  Agreement'
<1> DEFINE r == [Resting EXCEPT !.at = IF cmd = "check" THEN "lock" ELSE cmd, !.cmd = cmd,
                                !.patch = manifest.patch, !.force = forced]
<1>1. /\ proc'[p] = r /\ \A q \in Procs \ {p} : proc'[q] = proc[q]
      /\ UNCHANGED <<manifest, lock, copy, vendored, types>> /\ proc[p].at = "rest"
  BY DEF Open, Sound, world, At
<1>2. r.at = (IF cmd = "check" THEN "lock" ELSE cmd) /\ r.cmd = cmd
  BY DEF Resting
<1> HIDE DEF r
<1>3. NoteIsRight'
  BY <1>1 DEF Agreement, NoteIsRight
<1>4. CASE p \in Commanders
  <2>1. Agrees(p)
    BY <1>4 DEF Agreement
  <2>2. Agrees(p)'
    BY <1>1, <1>2, <2>1 DEF Agrees, Bound, BaseIsCopied, At, Linking
  <2> QED
    BY <1>3, <1>4, <2>2, OneAgrees
<1>5. CASE p \notin Commanders
  <2>1. \A q \in Commanders : Agrees(q)'
    BY <1>1, <1>5, AgreesStays DEF Agreement, Procs
  <2> QED
    BY <1>1, <1>3, <2>1 DEF Agreement, Bound
<1> QED
  BY <1>4, <1>5

\* What holds of the command that takes a step, and of where it comes to.
LEMMA OneSteps ==
  ASSUME OneTerminal, Sound, Settling, Agreement, ~broken, NEW p \in Procs,
         proc[p].at \in {"install", "update", "types", "note"} \cup Patching
  PROVE  /\ p \in Commanders /\ Agrees(p) /\ NoteIsRight
         /\ proc[p].at \in {"install", "update", "types", "note"} => proc[p].cmd # "check"
<1>1. p \in Commanders
  BY DEF Settling, Role, Sound, Fits
<1> QED
  BY <1>1 DEF Agreement, Settling, Role

LEMMA InstallAgrees ==
  ASSUME OneTerminal, Sound, Settling, Agreement, ~broken, NEW p \in Procs,
         Install(p) \/ Update(p)
  PROVE  Agreement'
<1>1. proc[p].at \in {"install", "update"}
  BY DEF Install, Update, At
<1>2. p \in Commanders /\ Agrees(p) /\ NoteIsRight
  BY <1>1, OneSteps
<1>3. PICK pin \in Revisions \cup {None} : OpsInstall(pin)
  BY DEF Install, Update, Sound, Files, Manifests
<1>4. /\ manifest'.patch = manifest.patch /\ UNCHANGED <<copy, types>>
      /\ proc'[p].at = "lock"
  <2>1. "lock" \in Phases /\ ~At(p, "rest")
    BY <1>1 DEF Phases, At
  <2> QED
    BY <2>1, GoneOn DEF Install, Update, Sound, Files, Manifests
<1>5. Bound /\ BaseIsCopied
  BY <1>1, <1>2 DEF Agrees, At
<1> DEFINE base == IF lock = None \/ pin = None \/ ~manifest.patch THEN None ELSE lock.base
<1>6. lock'.sha = pin /\ lock'.base = base
  BY <1>3 DEF OpsInstall
<1>7. vendored' = IF base # None /\ base = pin /\ copy # None THEN "patch" ELSE pin
  BY <1>3 DEF OpsInstall
<1>8. pin # "patch"
  BY NoneAssumption, RevisionsAssumption
<1>9. BaseIsCopied' /\ Bound'
  BY <1>4, <1>5, <1>6 DEF BaseIsCopied, Bound
<1>10. Vendors'
  <2> HIDE DEF base
  <2> QED
    BY <1>4, <1>6, <1>7, <1>8 DEF Vendors
<1>11. Agrees(p)'
  BY <1>4, <1>9, <1>10 DEF Agrees, At
<1>12. NoteIsRight'
  BY <1>2, <1>4 DEF NoteIsRight
<1> QED
  BY <1>2, <1>11, <1>12, OneAgrees

LEMMA TypesAgree ==
  ASSUME OneTerminal, Sound, Settling, Agreement, ~broken, NEW p \in Procs, SyncTypes(p)
  PROVE  Agreement'
<1> DEFINE rev == IF vendored = "patch" THEN copy.rev ELSE vendored
<1>1. proc[p].at = "types" /\ UNCHANGED <<manifest, lock, copy, vendored>> /\ lock # None
  BY DEF SyncTypes, At, Sound, Fits
<1>2. p \in Commanders /\ Agrees(p) /\ NoteIsRight /\ proc[p].cmd # "check"
  BY <1>1, OneSteps
<1>3. CASE End(p) /\ UNCHANGED types
  BY <1>1, <1>3, Ended, LookAgrees
<1>4. CASE types' = [rev |-> rev, note |-> None] /\ Goto(p, "note")
  <2>1. "note" \in Phases /\ ~At(p, "rest")
    BY <1>1 DEF Phases, At
  <2>2. proc'[p].at = "note"
    BY <1>4, <2>1, GoneOn
  <2>3. Bound /\ BaseIsCopied /\ Vendors
    BY <1>1, <1>2 DEF Agrees, At
  <2>4. rev = lock.sha
    BY <1>1, <2>3 DEF Vendors, BaseIsCopied
  <2>5. types'.rev = rev /\ types'.note = None
    BY <1>4
  <2> HIDE DEF rev
  <2>6. Agrees(p)'
    BY <1>1, <2>2, <2>3, <2>4, <2>5 DEF Agrees, At, Bound, BaseIsCopied, Vendors
  <2> QED
    BY <1>2, <2>5, <2>6, OneAgrees DEF NoteIsRight
<1> QED
  BY <1>3, <1>4 DEF SyncTypes

LEMMA NoteAgrees ==
  ASSUME OneTerminal, Sound, Settling, Agreement, ~broken, NEW p \in Procs, WriteNote(p)
  PROVE  Agreement'
<1>1. proc[p].at = "note" /\ UNCHANGED <<manifest, lock, copy, vendored>>
  BY DEF WriteNote, At
<1>2. p \in Commanders /\ Agrees(p)
  BY <1>1, OneSteps
<1>3. types \in Declarations /\ proc'[p].at = "rest"
  BY <1>1, Ended DEF WriteNote, Sound, Files, Fits, At
<1>4. types'.note = lock.sha /\ types'.rev = types.rev
  BY <1>3 DEF WriteNote, Declarations
<1>5. types.rev = lock.sha
  BY <1>1, <1>2 DEF Agrees, At
<1>6. Agrees(p)'
  BY <1>1, <1>2, <1>3 DEF Agrees, At, Bound, BaseIsCopied, Linking
<1> QED
  BY <1>2, <1>4, <1>5, <1>6, OneAgrees DEF NoteIsRight

LEMMA AskAgrees ==
  ASSUME OneTerminal, Sound, Settling, Agreement, ~broken, NEW p \in Procs, Ask(p)
  PROVE  Agreement'
<1>1. proc[p].at = "patch" /\ UNCHANGED <<manifest, lock, copy, vendored, types>>
  BY DEF Ask, At, world
<1>2. p \in Commanders /\ Agrees(p) /\ NoteIsRight
  BY <1>1, OneSteps DEF Patching
<1>3. proc'[p].at = "bind" /\ proc'[p].before = manifest
  BY DEF Ask, Sound, Processes
<1>4. Agrees(p)'
  BY <1>1, <1>2, <1>3 DEF Agrees, At, Bound, BaseIsCopied, Linking
<1> QED
  BY <1>1, <1>2, <1>4, OneAgrees DEF NoteIsRight

LEMMA BindAgrees ==
  ASSUME OneTerminal, Sound, Settling, Agreement, ~broken, NEW p \in Procs, Bind(p)
  PROVE  Agreement'
<1>1. /\ proc[p].at = "bind" /\ UNCHANGED <<lock, copy, vendored, types>>
      /\ Goto(p, "overwrite") /\ "overwrite" \in Phases /\ manifest \in Manifests
  BY DEF Bind, At, Phases, Sound, Files
<1>2. p \in Commanders /\ Agrees(p) /\ NoteIsRight
  BY <1>1, OneSteps DEF Patching
<1>3. proc'[p].at = "overwrite" /\ proc'[p].before = proc[p].before
  BY <1>1, Went
<1>4. manifest'.patch
  BY <1>1, <1>2 DEF Bind, Manifests, Agrees, Bound
<1>5. Agrees(p)'
  BY <1>1, <1>2, <1>3, <1>4 DEF Agrees, At, BaseIsCopied, Linking
<1> QED
  BY <1>1, <1>2, <1>5, OneAgrees DEF NoteIsRight

LEMMA PatchFailsAgrees ==
  ASSUME OneTerminal, Sound, Settling, Agreement, ~broken, NEW p \in Procs, PatchFails(p)
  PROVE  Agreement'
<1>1. /\ proc[p].at = "overwrite" /\ UNCHANGED <<lock, copy, vendored, types>>
      /\ manifest' = PutBack(p) /\ proc'[p].at = "rest" /\ manifest \in Manifests
  BY Ended DEF PatchFails, At, Sound, Files
<1>2. p \in Commanders /\ Agrees(p) /\ NoteIsRight
  BY <1>1, OneSteps DEF Patching
<1>3. Bound'
  BY <1>1, <1>2 DEF PutBack, Agrees, Bound
<1>4. Agrees(p)'
  BY <1>1, <1>2, <1>3 DEF Agrees, At, BaseIsCopied, Linking
<1> QED
  BY <1>1, <1>2, <1>4, OneAgrees DEF NoteIsRight

LEMMA OverwriteAgrees ==
  ASSUME OneTerminal, Sound, Settling, Agreement, ~broken, NEW p \in Procs, Overwrite(p)
  PROVE  Agreement'
<1>1. /\ proc[p].at = "overwrite" /\ UNCHANGED <<manifest, lock, vendored, types>>
      /\ Goto(p, "record") /\ "record" \in Phases
  BY DEF Overwrite, At, Phases
<1>2. p \in Commanders /\ Agrees(p) /\ NoteIsRight
  BY <1>1, OneSteps DEF Patching
<1>3. proc'[p].at = "record"
  BY <1>1, Went
<1>4. copy' # None
  BY <1>3, OverwriteSound DEF Sound, Fits, At
<1>5. Agrees(p)'
  BY <1>1, <1>2, <1>3, <1>4 DEF Agrees, At, Linking
<1> QED
  BY <1>1, <1>2, <1>5, OneAgrees DEF NoteIsRight

LEMMA RecordAgrees ==
  ASSUME OneTerminal, Sound, Settling, Agreement, ~broken, NEW p \in Procs, Record(p)
  PROVE  Agreement'
<1>1. /\ proc[p].at = "record" /\ UNCHANGED <<manifest, copy, vendored, types>>
      /\ proc'[p].at = "rest" /\ lock'.base = copy.rev
  BY Ended DEF Record, At
<1>2. p \in Commanders /\ Agrees(p) /\ NoteIsRight
  BY <1>1, OneSteps DEF Patching
<1>3. Agrees(p)'
  BY <1>1, <1>2 DEF Agrees, At, Bound, BaseIsCopied, Linking
<1> QED
  BY <1>1, <1>2, <1>3, OneAgrees DEF NoteIsRight

LEMMA AddAgrees ==
  ASSUME OneTerminal, Sound, Settling, Agreement, ~broken, NEW p \in Procs,
         RewriteEntry(p) \/ Rebind(p)
  PROVE  Agreement'
<1>1. proc[p].at \in {"add", "rebind"} /\ UNCHANGED <<lock, copy, vendored, types>>
  BY DEF RewriteEntry, Rebind, At
<1>2. p \in Commanders /\ Agrees(p) /\ NoteIsRight
  BY <1>1, OneSteps DEF Patching
<1>3. CASE RewriteEntry(p)
  <2>1. proc[p].at = "add" /\ ~manifest'.patch
    BY <1>3 DEF RewriteEntry, At
  <2>2. ASSUME manifest.patch, Goto(p, "rebind") PROVE Agrees(p)'
    <3>1. proc'[p].at = "rebind"
      BY <2>2, Went DEF Phases
    <3> QED
      BY <1>1, <1>2, <2>1, <2>2, <3>1 DEF Agrees, At, Bound, BaseIsCopied, Linking
  <2>3. ASSUME ~manifest.patch, End(p) PROVE Agrees(p)'
    <3>1. proc'[p].at = "rest"
      BY <2>3, Ended
    <3> QED
      BY <1>1, <1>2, <2>1, <2>3, <3>1 DEF Agrees, At, Bound, BaseIsCopied, Linking
  <2>4. Agrees(p)'
    BY <1>3, <2>2, <2>3 DEF RewriteEntry
  <2> QED
    BY <1>1, <1>2, <2>4, OneAgrees DEF NoteIsRight
<1>4. CASE Rebind(p)
  <2>1. proc[p].at = "rebind" /\ manifest'.patch /\ proc'[p].at = "rest"
    BY <1>4, Ended DEF Rebind, At, Sound, Files, Manifests
  <2>2. Agrees(p)'
    BY <1>1, <1>2, <2>1 DEF Agrees, At, Bound, BaseIsCopied, Linking
  <2> QED
    BY <1>1, <1>2, <2>2, OneAgrees DEF NoteIsRight
<1> QED
  BY <1>3, <1>4

\* Commands that change nothing of this, and those that are killed elsewhere.
LEMMA StillAgrees ==
  ASSUME OneTerminal, Sound, Settling, Agreement, ~broken, NEW p \in Procs,
         Unfetched(p) \/ Refuse(p) \/ Clean(p) \/ (Killed(p) /\ ~MidWay(p))
  PROVE  Agreement'
<1>1. /\ End(p) /\ UNCHANGED <<manifest, lock, copy, vendored, types>>
      /\ proc[p].at \notin {"overwrite", "record", "rebind"}
  BY DEF Unfetched, Refuse, Clean, Killed, world, MidWay, At
<1> QED
  BY <1>1, Ended, LookAgrees

LEMMA PersonAgrees ==
  ASSUME Sound, Agreement, ~broken, Person
  PROVE  Agreement'
<1>1. NoteIsRight'
  BY DEF Person, Edit, Commit, MovePin, DropPatch, DropDependency, Agreement, NoteIsRight
<1>2. ASSUME NEW q \in Commanders
      PROVE  /\ proc'[q].at = proc[q].at /\ proc'[q].cmd = proc[q].cmd
             /\ proc'[q].before = proc[q].before
  <2>1. q \in Procs
    BY DEF Procs
  <2>2. CASE Edit
    BY <2>1, <2>2 DEF Edit, Sound, Processes
  <2> QED
    BY <2>2 DEF Person, Commit, MovePin, DropPatch, DropDependency
<1>3. CASE Edit \/ Commit \/ MovePin
  <2>1. copy # None => copy \in Copies
    BY DEF Sound, Files
  <2>2. manifest'.patch = manifest.patch /\ UNCHANGED <<lock, vendored, types>>
    BY <1>3 DEF Edit, Commit, MovePin, Sound, Files, Manifests
  <2>3. (copy' # None <=> copy # None) /\ (copy # None => copy'.rev = copy.rev)
    <3>1. CASE Edit
      BY <2>1, <3>1, EditSound, NoneAssumption DEF Edit, Copies, Sound, Files
    <3>2. CASE Commit
      BY <2>1, <3>2, NoneAssumption DEF Commit, Copies
    <3> QED
      BY <1>3, <3>1, <3>2 DEF MovePin
  <2>4. \A q \in Commanders : Agrees(q)'
    BY <1>2, <2>2, <2>3 DEF Agreement, Agrees, Bound, BaseIsCopied, Vendors, At
  <2> QED
    BY <1>1, <2>2, <2>3, <2>4 DEF Agreement, Bound
<1>4. CASE DropPatch \/ DropDependency
  <2>1. /\ copy' = None /\ ~manifest'.patch /\ \A q \in Commanders : proc[q].at = "rest"
    BY <1>4 DEF DropPatch, DropDependency, Quiet, At, Sound, Files, Manifests
  <2>2. \A q \in Commanders : Agrees(q)'
    BY <1>2, <2>1 DEF Agrees, Bound, BaseIsCopied, At, Linking
  <2> QED
    BY <1>1, <2>1, <2>2 DEF Agreement, Bound
<1> QED
  BY <1>3, <1>4 DEF Person

LEMMA NextAgrees == ASSUME OneTerminal, Sound, Settling, Agreement, [Next]_vars PROVE Agreement'
<1> SUFFICES ASSUME ~broken' PROVE Agreement'
  BY DEF Agreement
<1>1. CASE (Begin \/ Person) /\ UNCHANGED broken
  <2>1. CASE Begin
    <3>1. PICK p \in Procs, cmd \in {"check", "install", "update", "patch", "add", "clean"},
               forced \in BOOLEAN : Open(p, cmd, forced) /\ (cmd # "check" => p \in Commanders)
      BY <2>1 DEF Begin, Procs
    <3> QED
      BY <1>1, <3>1, OpenAgrees
  <2> QED
    BY <1>1, <2>1, PersonAgrees
<1>2. ASSUME NEW p \in Procs, Step(p), UNCHANGED broken PROVE Agreement'
  <2>1. CASE ReadLock(p) \/ StatLink(p) \/ RemoveLink(p) \/ MakeLink(p)
    BY <1>2, <2>1, LinkMoves, LookAgrees DEF Linking
  <2>2. CASE Unfetched(p) \/ Refuse(p) \/ Clean(p)
    BY <1>2, <2>2, StillAgrees
  <2> QED
    BY <1>2, <2>1, <2>2, InstallAgrees, TypesAgree, NoteAgrees, AskAgrees, BindAgrees,
       PatchFailsAgrees, OverwriteAgrees, RecordAgrees, AddAgrees DEF Step
<1>3. ASSUME NEW p \in Procs, Killed(p), broken' = (broken \/ MidWay(p)) PROVE Agreement'
  BY <1>3, StillAgrees
<1>4. CASE UNCHANGED vars
  BY <1>4 DEF vars, Agreement, NoteIsRight, Agrees, Bound, BaseIsCopied, Vendors, At
<1> QED
  BY <1>1, <1>2, <1>3, <1>4 DEF Next

LEMMA InitAgrees == Init => Agreement
<1> SUFFICES ASSUME Init PROVE Agreement
  OBVIOUS
<1>1. ~manifest.patch /\ copy = None /\ \A p \in Commanders : proc[p].at = "rest"
  BY DEF Init, Procs, Resting
<1> QED
  BY <1>1 DEF Init, Agreement, NoteIsRight, Agrees, Bound, BaseIsCopied, At, Linking

\* Commands run one after the other, beside any number of checks, and killed and failed
\* anywhere: between them the manifest names the copy there is, and a note beside the
\* declarations tells the revision they were copied from.  (Two commands at once can
\* part a manifest from its copy: each puts back or carries across what it read.)
THEOREM TheFilesAgree == ASSUME OneTerminal PROVE Spec => []FilesAgree
<1>1. Inv => Sound
  BY DEF Inv
<1>2. Spec => [](Settling /\ Agreement)
  BY <1>1, AlwaysInv, InitSettles, NextSettles, InitAgrees, NextAgrees, PTL DEF Spec
<1>3. Agreement => FilesAgree
  <2> SUFFICES ASSUME Agreement, ~broken
               PROVE  /\ Quiet(Commanders) => (manifest.patch <=> copy # None)
                      /\ types # None => types.note \in {None, types.rev}
    BY DEF FilesAgree, CopyIsBound, NoteTellsTheRevision
  <2>1. ASSUME Quiet(Commanders) PROVE Bound
    BY <2>1 DEF Agreement, Agrees, Quiet, At
  <2> QED
    BY <2>1 DEF Agreement, NoteIsRight, Bound
<1> QED
  BY <1>2, <1>3, PTL
=============================================================================
