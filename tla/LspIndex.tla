------------------------------ MODULE LspIndex ------------------------------
(***************************************************************************)
(* The symbol and reference index of the language server                   *)
(* (htl-cli/src/lsp/symbols.rs, refs.rs, and the requests of lsp.rs that    *)
(* read it).  One entry per file of a project holds what was read from its *)
(* text and, once a references request made them, its uses, which say      *)
(* where names of *other* files are.  What keeps an entry current: checks  *)
(* of open files, the watcher's events or a stat of every file, and, for   *)
(* the uses, the files the check that made them read.                      *)
(*                                                                         *)
(* A text is a number and stands for its own hash, symbols and positions.  *)
(* Which file requires which does not change; a required file that is gone *)
(* is not among those a check reads.  A check of an open file is one step: *)
(* module Lsp has its interleavings.                                       *)
(***************************************************************************)
EXTENDS Naturals, FiniteSets, FiniteSetsExt

CONSTANTS
    Files,       \* the files of the project
    Requires,    \* what each file requires
    Unusual,     \* what may happen: "unsaid", a file goes with its directory, which no
                 \* event names; "recurring", a file is given a text it has had before;
                 \* "returning", a file that was deleted is made again; "early", for a
                 \* client that does not watch, the inputs change before the index has its
                 \* first fingerprint of them; "unheard", for one that does, they change
                 \* while a project is loaded and no file of it is open
    MaxWrites,   \* bound: writes of files and of inputs
    None         \* nothing: no file on disk, no entry, no check

ASSUME FilesAssumption == IsFiniteSet(Files) /\ "inputs" \notin Files
ASSUME RequiresAssumption == Requires \in [Files -> SUBSET Files]
ASSUME ConstantsAssumption ==
    /\ MaxWrites \in Nat
    /\ Unusual \subseteq {"unsaid", "recurring", "returning", "early", "unheard"}

VARIABLES
    disk,      \* file -> its text, None when it is gone
    stamp,     \* file -> its modification time and length
    calm,      \* file -> it was last written more than two seconds ago
    ext,       \* the inputs outside the walk: `types/`, Rust sources
    writes,    \* how many writes there were
    watching,  \* whether the client watches files
    told,      \* the events the watcher has yet to deliver
    model,     \* the inputs the loaded project was made from, None when none is loaded
    checked,   \* file -> the last check of it, None when it is not open or not on disk
    opened,    \* the open files
    ix,        \* the project's index
    req        \* the request being answered

world == <<disk, stamp, calm, ext, writes>>
vars == <<disk, stamp, calm, ext, writes, watching, told, model, checked, opened, ix, req>>

Inputs == "inputs"
OnDisk(f) == disk[f] # None

\* What a walk of the project lists.
There == {f \in Files : OnDisk(f)}

\* The files a check of f reads through `require`, when the files S are there.
ClosureIn(f, S) ==
    LET step[k \in Nat] == IF k = 0 THEN Requires[f]
                           ELSE step[k - 1] \cup UNION {Requires[g] : g \in step[k - 1] \cap S}
    IN  (step[Cardinality(Files)] \cap S) \ {f}
Closure(f) == ClosureIn(f, There)

\* What a check leaves of a file: its text, the text of each file it read, the inputs.
Uses == [text : Nat, read : UNION {[S -> Nat] : S \in SUBSET Files}, inputs : Nat \cup {None}]

\* A check of f as it is on disk, by the project loaded from the inputs m.
Check(f, m) == [text |-> disk[f], read |-> [g \in Closure(f) |-> disk[g]], inputs |-> m]

-----------------------------------------------------------------------------
(* The index (symbols.rs)                                                  *)

NoIndex == [files |-> [f \in Files |-> None], dirty |-> {}, relist |-> TRUE,
            refsBuilt |-> FALSE, inputs |-> None]
Held == {f \in Files : ix.files[f] # None}

Entries == [text : Nat, stamp : Nat, settled : BOOLEAN, refs : Uses \cup {None},
            distrust : BOOLEAN, deps : (SUBSET Files) \cup {None}]
Replies == [found : BOOLEAN,
            hits : SUBSET [file : Files, text : Nat, inputs : Nat \cup {None}]]
ASSUME NoneAssumption ==
    /\ None \notin Nat \cup Files \cup Uses \cup Entries \cup Replies
    /\ \A S \in SUBSET Files : None # S

Entry(text, at, settled) ==
    [text |-> text, stamp |-> at, settled |-> settled, refs |-> None, distrust |-> FALSE,
     deps |-> None]

\* Whether the entry of f hangs on what moved: the files whose text changed, or the list.
Hit(i, changed, structural, f) ==
    \/ structural
    \/ /\ changed # {} /\ f \notin changed
       /\ i.files[f].deps = None \/ i.files[f].deps \cap changed # {}

\* SymbolIndex::moved
Taken(e) == [e EXCEPT !.refs = None, !.distrust = TRUE]
Moved(i, changed, structural) ==
    [i EXCEPT !.files = [f \in Files |->
        IF @[f] # None /\ Hit(i, changed, structural, f) THEN Taken(@[f]) ELSE @[f]]]

\* SymbolIndex::event
Event(i, f) == IF i.files[f] # None THEN [i EXCEPT !.dirty = @ \cup {f}]
               ELSE [i EXCEPT !.relist = TRUE]

\* The entry the check c of f leaves, and its place in the index.
PutEntry(i, f, c) ==
    [text |-> c.text, stamp |-> stamp[f], settled |-> calm[f],
     refs |-> IF i.files[f].text = c.text THEN i.files[f].refs ELSE None,
     distrust |-> FALSE, deps |-> DOMAIN c.read]
PutInto(i, f, c) == [i EXCEPT !.files[f] = PutEntry(i, f, c), !.dirty = @ \ {f}]

\* Mutated form: a check that read another text takes no uses with it.
PutQuiet(i, f, c) == IF i.files[f] = None THEN i ELSE PutInto(i, f, c)

\* SymbolIndex::put of the check c of f, whose stamp is the one now.
Put(i, f, c) ==
    IF i.files[f] = None THEN i
    ELSE IF i.files[f].text = c.text THEN PutInto(i, f, c)
    ELSE Moved(PutInto(i, f, c), {f}, FALSE)

\* SymbolIndex::first_refs
FirstRefs(i) == IF i.refsBuilt THEN i ELSE [Moved(i, {}, TRUE) EXCEPT !.refsBuilt = TRUE]

\* Mutated form: whatever text the entry has now.
FillBlind(i, f, hash, made) ==
    IF i.files[f] # None
    THEN [i EXCEPT !.files[f].refs = made, !.files[f].distrust = FALSE,
                   !.files[f].deps = IF made.inputs = None THEN None ELSE DOMAIN made.read]
    ELSE i

\* SymbolIndex::fill, of uses made from a text that was the entry's then.
Fill(i, f, hash, made) ==
    IF i.files[f] # None /\ i.files[f].text = hash
    THEN [i EXCEPT !.files[f].refs = made, !.files[f].distrust = FALSE,
                   !.files[f].deps = IF made.inputs = None THEN None ELSE DOMAIN made.read]
    ELSE i

\* revalidate: the entry is kept on its stamp alone only when that was settled and
\* nothing was said of the file, on its text otherwise.
TrustsStamp(old, at, force) == old # None /\ ~force /\ old.stamp = at /\ old.settled
Revalidated(old, text, at, settled) ==
    IF old # None /\ old.text = text THEN [old EXCEPT !.stamp = at, !.settled = settled]
    ELSE Entry(text, at, settled)

-----------------------------------------------------------------------------
(* The world: the disk, and what the client is told of it                  *)

Unquiet == req' = [req EXCEPT !.quiet = FALSE]
Tell(e) == told' = IF watching THEN told \cup {e} ELSE told

\* A file is written.  Within two seconds of the write before, with the same length,
\* the stamp does not move.
Write(f, text, same) ==
    /\ writes < MaxWrites
    /\ text # disk[f]
    /\ text = writes + 2 \/ "recurring" \in Unusual
    /\ OnDisk(f) \/ "returning" \in Unusual
    /\ same => OnDisk(f) /\ ~calm[f]
    /\ disk' = [disk EXCEPT ![f] = text]
    /\ stamp' = [stamp EXCEPT ![f] = IF same THEN @ ELSE writes + 2]
    /\ calm' = [calm EXCEPT ![f] = FALSE]
    /\ writes' = writes + 1
    /\ Tell(f)
    /\ Unquiet
    /\ UNCHANGED <<ext, watching, model, checked, opened, ix>>

\* A file goes; with its directory, no event names it.
Delete(f, named) ==
    /\ writes < MaxWrites
    /\ OnDisk(f)
    /\ named \/ "unsaid" \in Unusual
    /\ disk' = [disk EXCEPT ![f] = None]
    /\ writes' = writes + 1
    /\ IF named THEN Tell(f) ELSE UNCHANGED told
    /\ Unquiet
    /\ UNCHANGED <<stamp, calm, ext, watching, model, checked, opened, ix>>

\* A declaration under `types/` or a Rust source changes.
WriteInputs ==
    /\ writes < MaxWrites
    /\ IF watching THEN opened # {} \/ model = None \/ "unheard" \in Unusual
       ELSE ix.inputs # None \/ "early" \in Unusual
    /\ ext' = ext + 1
    /\ writes' = writes + 1
    /\ Tell(Inputs)
    /\ Unquiet
    /\ UNCHANGED <<disk, stamp, calm, watching, model, checked, opened, ix>>

Settle(f) ==
    /\ ~calm[f]
    /\ calm' = [calm EXCEPT ![f] = TRUE]
    /\ UNCHANGED <<disk, stamp, ext, writes, watching, told, model, checked, opened, ix, req>>

-----------------------------------------------------------------------------
(* Messages of the client                                                  *)

Idle == [stage |-> "idle", kind |-> "symbols", here |-> None, target |-> None, round |-> 0,
         todo |-> {}, file |-> None, read |-> None, changed |-> {}, structural |-> FALSE,
         all |-> FALSE, first |-> FALSE, place |-> None, made |-> None, quiet |-> FALSE,
         reply |-> None]

\* Checks of the open files S, one after the other, by the project of the inputs m.
ChecksOf(S, m) == [f \in Files |-> IF f \notin S THEN checked[f]
                                   ELSE IF OnDisk(f) THEN Check(f, m) ELSE None]
PutAll(i, S, m) ==
    FoldSet(LAMBDA f, acc : Put(acc, f, Check(f, m)), i, {f \in S : OnDisk(f)})
LoadedModel == IF model = None THEN ext ELSE model

\* The client opens or saves f: f is checked, and the open files that read it.
Save(f) ==
    /\ req.stage = "idle"
    /\ LET S == {f} \cup {g \in opened : checked[g] # None /\ f \in DOMAIN checked[g].read}
       IN  /\ checked' = ChecksOf(S, LoadedModel)
           /\ ix' = PutAll(ix, S, LoadedModel)
    /\ opened' = opened \cup {f}
    /\ model' = LoadedModel
    /\ UNCHANGED <<disk, stamp, calm, ext, writes, watching, told, req>>

\* Server::watched with an event about one file of the project.
FileEvent(f) ==
    /\ req.stage = "idle"
    /\ f \in told
    /\ told' = told \ {f}
    /\ ix' = Event(ix, f)
    /\ UNCHANGED <<disk, stamp, calm, ext, writes, watching, model, checked, opened, req>>

\* Server::watched with an event about the inputs: the project of the open files is
\* dropped, no use is kept, and they are checked against the project built again.
InputsEvent ==
    /\ req.stage = "idle"
    /\ Inputs \in told
    /\ told' = told \ {Inputs}
    /\ IF opened = {} THEN UNCHANGED <<model, checked, ix>>
       ELSE /\ model' = ext
            /\ checked' = ChecksOf(opened, ext)
            /\ ix' = PutAll(Moved(ix, {}, TRUE), opened, ext)
    /\ UNCHANGED <<disk, stamp, calm, ext, writes, watching, opened, req>>

-----------------------------------------------------------------------------
(* A request: the index is brought up to date, the uses are made, it is     *)
(* answered.  The disk may change between any two steps.                    *)

AllTold == told = {} /\ \A f \in opened : checked[f] = None \/ checked[f].text = disk[f]

\* SymbolIndex::refresh begins: the project is walked, or what was named is looked at.
Refresh(r) ==
    LET all == ~watching \/ ix.relist
        lost == Held \ There
    IN  /\ req' = [r EXCEPT !.stage = "stat", !.all = all, !.changed = {},
                            !.todo = IF all THEN There ELSE ix.dirty \cap Held,
                            !.structural = all /\ lost # {},
                            !.first = Held = {}]
        /\ ix' = IF all THEN [ix EXCEPT !.files = [f \in Files |->
                                   IF f \in lost THEN None ELSE @[f]]] ELSE ix
        /\ model' = LoadedModel

Ask(kind, here, target) ==
    /\ req.stage = "idle"
    /\ kind = "refs" => here \in opened /\ target \in {here} \cup Requires[here]
    /\ kind = "symbols" => here = target
    /\ Refresh([Idle EXCEPT !.kind = kind, !.here = here, !.target = target, !.quiet = AllTold])
    /\ UNCHANGED <<disk, stamp, calm, ext, writes, watching, told, checked, opened>>

FreeToMove == <<disk, stamp, calm, ext, writes, watching, told, opened>>

\* revalidate of one file: its stamp first.
Stat(f) ==
    /\ req.stage = "stat"
    /\ f \in req.todo
    /\ \/ /\ ~OnDisk(f)
          /\ ix' = [ix EXCEPT !.files[f] = None]
          /\ req' = [req EXCEPT !.todo = @ \ {f}, !.structural = TRUE]
       \/ /\ OnDisk(f)
          /\ TrustsStamp(ix.files[f], stamp[f], ~req.all \/ f \in ix.dirty)
          /\ req' = [req EXCEPT !.todo = @ \ {f}]
          /\ UNCHANGED ix
       \/ /\ OnDisk(f)
          /\ ~TrustsStamp(ix.files[f], stamp[f], ~req.all \/ f \in ix.dirty)
          /\ req' = [req EXCEPT !.stage = "read", !.file = f, !.read = stamp[f]]
          /\ UNCHANGED ix
    /\ UNCHANGED <<FreeToMove, model, checked>>

\* What reading f gives: a file that is gone reads as an empty text.
TextOf(f) == IF OnDisk(f) THEN disk[f] ELSE 0

\* ... and then its text.
ReadText ==
    /\ req.stage = "read"
    /\ LET f == req.file
           old == ix.files[f]
           new == Revalidated(old, TextOf(f), req.read, calm[f] \/ stamp[f] # req.read)
       IN  /\ ix' = [ix EXCEPT !.files[f] = new]
           /\ req' = [req EXCEPT !.stage = "stat", !.todo = @ \ {f}, !.file = None, !.read = None,
                        !.changed = IF old # None /\ old.text # new.text THEN @ \cup {f} ELSE @,
                        !.structural = @ \/ (old = None /\ ~req.first)]
    /\ UNCHANGED <<FreeToMove, model, checked>>

\* The refresh ends: what hangs on the files that moved goes.
Refreshed ==
    /\ req.stage = "stat"
    /\ req.todo = {}
    /\ ix' = [Moved(ix, req.changed, req.structural) EXCEPT !.dirty = {}, !.relist = FALSE]
    /\ req' = IF req.kind = "symbols" THEN [req EXCEPT !.stage = "answer"]
              ELSE IF req.round = 0 THEN [req EXCEPT !.stage = "ready"]
              ELSE [req EXCEPT !.stage = "pending"]
    /\ UNCHANGED <<FreeToMove, model, checked>>

\* Where a check puts the declaration a request is about: nowhere when it did not
\* read the file, or the file is gone.
PlaceIn(c, here, target) ==
    IF c = None \/ ~OnDisk(target) THEN None
    ELSE IF target = here THEN c.text
    ELSE IF target \in DOMAIN c.read THEN c.read[target] ELSE None

NoPlace == [found |-> FALSE, hits |-> {}]
Named(hits) == [found |-> TRUE, hits |-> hits]
Replied(r, reply) == [r EXCEPT !.stage = "idle", !.reply = reply, !.made = None, !.todo = {},
                               !.changed = {}, !.structural = FALSE, !.all = FALSE, !.first = FALSE]

\* The rest of Server::project_ready, and the position resolved.
InputsMoved == ~watching /\ ix.inputs # None /\ ix.inputs # ext
Ready ==
    /\ req.stage = "ready"
    /\ LET m == IF InputsMoved THEN ext ELSE model
           again == IF InputsMoved THEN opened ELSE {}
           seen == IF watching THEN ix ELSE [ix EXCEPT !.inputs = ext]
           rebuilt == IF InputsMoved THEN PutAll(Moved(seen, {}, TRUE), again, ext) ELSE seen
           first == FirstRefs(rebuilt)
           held == rebuilt.files[req.here] # None
           own == IF held /\ first.files[req.here].distrust THEN {req.here} ELSE {}
           done == ChecksOf(again \cup own, m)
           place == PlaceIn(done[req.here], req.here, req.target)
       IN  /\ model' = m
           /\ checked' = done
           /\ ix' = IF held THEN PutAll(first, own, m) ELSE rebuilt
           /\ req' = IF held /\ place # None
                     THEN [req EXCEPT !.stage = "pending", !.place = place]
                     ELSE Replied(req, NoPlace)
    /\ UNCHANGED FreeToMove

\* Server::refresh_refs: the files whose uses are not known ...
Pending ==
    /\ req.stage = "pending"
    /\ req' = [req EXCEPT !.stage = "fill", !.todo = {f \in Held : ix.files[f].refs = None}]
    /\ UNCHANGED <<FreeToMove, model, checked, ix>>

\* ... each from the last check of it, when that read the text on disk and is to be
\* trusted ...
FillFromCheck(f) ==
    /\ req.stage = "fill"
    /\ f \in req.todo
    /\ f \in opened /\ ~ix.files[f].distrust
    /\ checked[f] # None /\ checked[f].text = TextOf(f)
    /\ ix' = Fill(ix, f, TextOf(f), checked[f])
    /\ req' = [req EXCEPT !.todo = @ \ {f}]
    /\ UNCHANGED <<FreeToMove, model, checked>>

\* ... else from a check of its own, between two reads of its text.
FillReads(f) ==
    /\ req.stage = "fill"
    /\ f \in req.todo
    /\ ~(/\ f \in opened /\ ~ix.files[f].distrust
         /\ checked[f] # None /\ checked[f].text = TextOf(f))
    /\ req' = [req EXCEPT !.stage = "index", !.file = f, !.read = TextOf(f)]
    /\ UNCHANGED <<FreeToMove, model, checked, ix>>
FillChecks ==
    /\ req.stage = "index"
    /\ req' = [req EXCEPT !.stage = "keep",
                 !.made = IF OnDisk(req.file) THEN Check(req.file, model)
                          ELSE [text |-> 0, read |-> [g \in {} |-> 0], inputs |-> None]]
    /\ UNCHANGED <<FreeToMove, model, checked, ix>>
FillKeeps ==
    /\ req.stage = "keep"
    /\ ix' = IF TextOf(req.file) = req.read THEN Fill(ix, req.file, req.read, req.made) ELSE ix
    /\ req' = [req EXCEPT !.stage = "fill", !.todo = @ \ {req.file}, !.file = None,
                          !.read = None, !.made = None]
    /\ UNCHANGED <<FreeToMove, model, checked>>

Filled ==
    /\ req.stage = "fill"
    /\ req.todo = {}
    /\ req' = [req EXCEPT !.stage = "answer"]
    /\ UNCHANGED <<FreeToMove, model, checked, ix>>

\* What the answer would name: every symbol, or the uses of one place.
UsesOf(f) == IF ix.files[f].refs = None THEN {}
             ELSE LET u == ix.files[f].refs IN
                  IF PlaceIn(u, f, req.target) = req.place THEN {u} ELSE {}
Hits == IF req.kind = "symbols"
        THEN {[file |-> f, text |-> ix.files[f].text, inputs |-> None] : f \in Held}
        ELSE UNION {{[file |-> f, text |-> u.text, inputs |-> u.inputs] : u \in UsesOf(f)} :
                    f \in Held}

\* A hit in a file that is gone has the project walked again, once; else the request
\* is answered with the hits whose file is there.
Answer ==
    /\ req.stage = "answer"
    /\ \/ /\ \E h \in Hits : ~OnDisk(h.file)
          /\ req.round = 0
          /\ LET due == [ix EXCEPT !.relist = TRUE] IN
             /\ req' = [req EXCEPT !.stage = "stat", !.round = 1, !.all = TRUE, !.changed = {},
                          !.todo = There, !.first = Held = {},
                          !.structural = \E f \in Held : ~OnDisk(f)]
             /\ ix' = [due EXCEPT !.files = [f \in Files |-> IF OnDisk(f) THEN @[f] ELSE None]]
       \/ /\ (\A h \in Hits : OnDisk(h.file)) \/ req.round = 1
          /\ req' = Replied(req, Named({h \in Hits : OnDisk(h.file)}))
          /\ UNCHANGED ix
    /\ UNCHANGED <<FreeToMove, model, checked>>

-----------------------------------------------------------------------------
Init ==
    /\ disk = [f \in Files |-> 1]
    /\ stamp = [f \in Files |-> 1]
    /\ calm = [f \in Files |-> TRUE]
    /\ ext = 0
    /\ writes = 0
    /\ watching \in BOOLEAN
    /\ told = {}
    /\ model = None
    /\ checked = [f \in Files |-> None]
    /\ opened = {}
    /\ ix = NoIndex
    /\ req = Idle

Texts == 1..(MaxWrites + 1)

World ==
    \/ \E f \in Files, t \in Texts, same \in BOOLEAN : Write(f, t, same)
    \/ \E f \in Files, named \in BOOLEAN : Delete(f, named)
    \/ WriteInputs
    \/ \E f \in Files : Settle(f)
Client ==
    \/ \E f \in Files : Save(f) \/ FileEvent(f)
    \/ InputsEvent
    \/ \E kind \in {"symbols", "refs"}, f, g \in Files : Ask(kind, f, g)
Server ==
    \/ \E f \in Files : Stat(f) \/ FillFromCheck(f) \/ FillReads(f)
    \/ ReadText \/ Refreshed \/ Ready \/ Pending \/ FillChecks \/ FillKeeps \/ Filled \/ Answer

Next == World \/ Client \/ Server

Spec == Init /\ [][Next]_vars

-----------------------------------------------------------------------------
(* Properties                                                              *)

\* The uses an entry holds are of the text it holds, whatever was written while they
\* were made, so that their ranges fit the symbols they are answered with; and they are
\* held with the closure they hang on, unless the check that made them had none.
UsesFitTheirText ==
    \A f \in Held : LET e == ix.files[f] IN
        e.refs # None => e.refs.text = e.text /\ (e.refs.inputs # None => e.deps # None)

Expected ==
    IF req.kind = "symbols"
    THEN {[file |-> f, text |-> disk[f], inputs |-> None] : f \in There}
    ELSE {[file |-> f, text |-> disk[f], inputs |-> ext] :
          f \in {g \in Files : OnDisk(g) /\ req.target \in {g} \cup Closure(g)}}

Answered(kind) == req.stage = "idle" /\ req.kind = kind /\ req.reply # None /\ req.quiet

\* A symbols request the client made after everything was said names every symbol of
\* every file as the file is, whatever was written, deleted or asked before.
SymbolsAreCurrent == Answered("symbols") => req.reply = Named(Expected)

\* Whether the request was about a use there is: its file reads the file asked about.
Resolvable == OnDisk(req.here) /\ req.target \in {req.here} \cup Closure(req.here)
Resolved == Resolvable /\ req.place = disk[req.target]

\* A references request the client made after everything was said, whose position was
\* resolved against the files as they are, finds every use, where it is, and no other:
\* no file's uses outlive a change of a file its check read, by whatever way the server
\* learned of the change.
ReferencesAreCurrent == Answered("refs") /\ Resolved => req.reply = Named(Expected)

\* What the client is told is what an index made of the files as they are would say.
AnswersAreCurrent == SymbolsAreCurrent /\ ReferencesAreCurrent

\* The position of a references request is resolved against the files as they are
\* (lsp.rs 354: the file the request is made in is checked first).
PositionIsCurrent == Answered("refs") /\ Resolvable => Resolved
=============================================================================
