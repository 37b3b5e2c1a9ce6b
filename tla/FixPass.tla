------------------------------- MODULE FixPass -------------------------------
(***************************************************************************)
(* `htl fix` (htl-core/src/fix.rs, and cmd_fix of htl-cli/src/lib.rs): for  *)
(* each file, passes that apply the fixes its findings carry, write the    *)
(* file, check it again and keep the pass or put the file back.            *)
(*                                                                         *)
(* A text is the set of the findings it holds.  A fix takes its own        *)
(* finding out of the text, and may take others out and bring others in.   *)
(* A finding can also hang on what a required file's text holds; the first *)
(* check of a file is served from the store of checked modules, so it may  *)
(* have read a required file as it was before this run rewrote it, and     *)
(* every later one reads the disk.  Any check and any write may fail, which *)
(* ends the run.                                                           *)
(***************************************************************************)
EXTENDS Integers, Sequences, FiniteSets, SequencesExt

CONSTANTS
    Files,      \* the files of the walk
    Findings,   \* the findings a file can have, numbered in the order they are listed
    Programs,   \* what the findings are and what their fixes do
    MaxPasses,  \* MAX_PASSES: passes per file
    None        \* nothing: no file in hand, no result kept, no cause

ASSUME FindingsAssumption == Findings \subseteq Nat /\ IsFiniteSet(Findings)
ASSUME NoneAssumption == None \notin Files /\ None \notin Findings
ASSUME ProgramsAssumption ==
    Programs \subseteq
        [file : [Findings -> Files],           \* where a finding is
         kind : [Findings -> {"error", "lint", "syntax"}],
         fix : [Findings -> {"safe", "unsafe", "suggest", "none"}],
         clears : [Findings -> SUBSET Findings], \* what its fix takes out besides it
         leaves : [Findings -> SUBSET Findings], \* what its fix brings in
         overlap : SUBSET (Findings \X Findings),
         misfit : SUBSET Findings,             \* fixes whose edits are no place of the text
         cause : [Findings -> Findings \cup {None}], \* shown while another file holds this
         needs : [Files -> SUBSET Files],      \* what a file requires, directly or not
         own : SUBSET Files,                   \* the rest is checked and never rewritten
         dirty : SUBSET Files,                 \* git could not give these back
         text : [Files -> SUBSET Findings]]
ASSUME NoReportAssumption ==
    None \notin [changed : BOOLEAN, passes : Seq(SUBSET Findings), deferred : Int,
                 stopped : {"no", "cap", "syntax", "nothing", "oscillation", "unfit", "reverted"},
                 contents : SUBSET Findings, original : SUBSET Findings,
                 first : SUBSET Findings, fresh : BOOLEAN, left : SUBSET Findings,
                 capped : BOOLEAN]

VARIABLES
    program,  \* the project, chosen once
    opts,     \* the flags: --dry-run, --unsafe, --allow-dirty
    disk,     \* file -> its text
    kept,     \* file -> the checker's stored result, and the text it was made from
    at,       \* what the run is at
    out,      \* the outcome of the file in hand
    report    \* file -> what was said of it, None before

vars == <<program, opts, disk, kept, at, out, report>>

-----------------------------------------------------------------------------
(* Checks                                                                  *)

Kind(e) == program.kind[e]
ErrorsOf(found) == {e \in found : Kind(e) # "lint"}

\* What a check of file f with this text finds when it reads the others as in view.
FoundIn(f, text, view) ==
    text \cup {e \in Findings : /\ program.file[e] = f
                                /\ program.cause[e] # None
                                /\ program.cause[e] \in view[program.file[program.cause[e]]]}

\* check_written: nothing is served from the store and nothing is kept in it.
CheckWritten(f, text) == FoundIn(f, text, disk)

\* h.check: served from the store; what it walks is kept, but for the file asked about.
View == [f \in Files |-> IF kept[f] = None THEN disk[f] ELSE kept[f].text]
Checked(f) == IF kept[f] # None THEN kept[f].found ELSE FoundIn(f, disk[f], View)
KeptAfter(f) == [g \in Files |->
    IF kept[g] = None /\ kept[f] = None /\ g \in program.needs[f]
    THEN [text |-> disk[g], found |-> FoundIn(g, disk[g], View)] ELSE kept[g]]

-----------------------------------------------------------------------------
(* One pass                                                                *)

\* FixOptions::disposition: whether the options have the fix applied.
Applies(e) == \/ program.fix[e] = "safe"
              \/ program.fix[e] = "unsafe" /\ opts.unsafe

\* The findings of S in the order listed.
Listed(S) == CHOOSE s \in [1 .. Cardinality(S) -> S] :
                \A i, j \in 1 .. Cardinality(S) : i < j => s[i] < s[j]

\* candidates: errors before lints, each in the order listed.
Candidates(found) ==
    LET can == {e \in found : Applies(e)}
    IN  Listed(ErrorsOf(can)) \o Listed(can \ ErrorsOf(can))

\* apply_non_overlapping: a fix that overlaps an accepted one waits.
Fits(e, taken) == e \notin program.misfit /\ \A t \in taken : <<t, e>> \notin program.overlap
Accepted(cs) ==
    LET taken[n \in 0 .. Len(cs)] ==
          IF n = 0 THEN {}
          ELSE LET before == taken[n - 1]
               IN  IF Fits(cs[n], before) THEN before \cup {cs[n]} ELSE before
    IN  taken[Len(cs)]
Rewritten(text, fixes) == (text \ (fixes \cup UNION {program.clears[e] : e \in fixes}))
                              \cup UNION {program.leaves[e] : e \in fixes}

NoOutcome == [passes |-> <<>>, deferred |-> 0, stopped |-> "no", original |-> {}, current |-> {},
              check |-> {}, first |-> {}, last |-> None, fresh |-> FALSE]

-----------------------------------------------------------------------------
(* The run                                                                 *)

Begin ==
    /\ at.phase = "start"
    /\ IF ~opts.dry /\ program.dirty \cap program.own # {} /\ ~opts.allowDirty
       THEN at' = [at EXCEPT !.phase = "refused"]
       ELSE at' = [at EXCEPT !.phase = "files"]
    /\ UNCHANGED <<program, opts, disk, kept, out, report>>

Left == {f \in program.own : report[f] = None}

\* fix_file begins: the file is read, then checked.
OpenFile(f) ==
    /\ at.phase = "files"
    /\ f \in Left
    /\ at' = [phase |-> "pass", file |-> f, pass |-> 1, next |-> {}, taken |-> {}, wait |-> 0]
    /\ out' = [NoOutcome EXCEPT !.original = disk[f], !.current = disk[f], !.check = Checked(f),
                                !.first = CheckWritten(f, disk[f]),
                                !.fresh = Checked(f) = CheckWritten(f, disk[f])]
    /\ kept' = KeptAfter(f)
    /\ UNCHANGED <<program, opts, disk, report>>

\* The passes end without another write.
Stop(why, deferred) ==
    /\ out' = [out EXCEPT !.stopped = why, !.deferred = deferred]
    /\ at' = [at EXCEPT !.phase = "finish"]
    /\ UNCHANGED <<program, opts, disk, kept, report>>

InPass == at.phase = "pass" /\ at.pass <= MaxPasses
Parses == \A e \in out.check : Kind(e) # "syntax"
Batch == Candidates(out.check)

StopAtCap == at.phase = "pass" /\ at.pass > MaxPasses /\ Stop("cap", out.deferred)
StopAtSyntax == InPass /\ ~Parses /\ Stop("syntax", out.deferred)
StopWithNothing == InPass /\ Parses /\ Batch = <<>> /\ Stop("nothing", out.deferred)
StopOscillating ==
    /\ InPass /\ Parses /\ Batch # <<>>
    /\ out.last = ToSet(Batch)
    /\ Stop("oscillation", out.deferred)
StopUnfit ==
    /\ InPass /\ Parses /\ Batch # <<>>
    /\ out.last # ToSet(Batch)
    /\ Accepted(Batch) = {}
    /\ Stop("unfit", Len(Batch))

\* The pass's text is written, over the file or over a copy of it.
Target(text) == IF opts.dry THEN disk ELSE [disk EXCEPT ![at.file] = text]
Writes ==
    /\ InPass /\ Parses /\ Batch # <<>>
    /\ out.last # ToSet(Batch)
    /\ Accepted(Batch) # {}

WritePass ==
    /\ Writes
    /\ LET taken == Accepted(Batch)
           next == Rewritten(out.current, taken)
       IN  /\ disk' = Target(next)
           /\ at' = [at EXCEPT !.phase = "written", !.next = next, !.taken = taken,
                               !.wait = Len(Batch) - Cardinality(taken)]
    /\ out' = [out EXCEPT !.last = ToSet(Batch)]
    /\ UNCHANGED <<program, opts, kept, report>>

\* Mutated form: the check after a write is served from the store.
RecheckServed == IF kept[at.file] # None THEN kept[at.file].found
                 ELSE CheckWritten(at.file, at.next)

Recheck == CheckWritten(at.file, at.next)

\* Errors other than the ones just fixed must not have grown.
Worse == LET old == Cardinality(ErrorsOf(out.check))
             fixed == Cardinality(ErrorsOf(at.taken))
         IN  Cardinality(ErrorsOf(Recheck)) > (IF old < fixed THEN 0 ELSE old - fixed)

\* Mutated form: passes are not counted (the list of them is cut short, to stay finite).
KeepUncounted ==
    /\ at.phase = "written"
    /\ ~Worse
    /\ out' = [out EXCEPT !.passes = IF Len(@) < MaxPasses THEN Append(@, at.taken) ELSE @,
                          !.current = at.next, !.deferred = at.wait, !.check = Recheck]
    /\ at' = [at EXCEPT !.phase = IF at.wait = 0 THEN "finish" ELSE "pass"]
    /\ UNCHANGED <<program, opts, disk, kept, report>>

KeepPass ==
    /\ at.phase = "written"
    /\ ~Worse
    /\ out' = [out EXCEPT !.passes = Append(@, at.taken), !.current = at.next,
                          !.deferred = at.wait, !.check = Recheck]
    /\ at' = IF at.wait = 0 THEN [at EXCEPT !.phase = "finish"]
             ELSE [at EXCEPT !.phase = "pass", !.pass = @ + 1]
    /\ UNCHANGED <<program, opts, disk, kept, report>>

\* Mutated form: the file is put back as the run found it.
RevertRun ==
    /\ at.phase = "written"
    /\ Worse
    /\ disk' = Target(out.original)
    /\ out' = [out EXCEPT !.stopped = "reverted"]
    /\ at' = [at EXCEPT !.phase = "finish"]
    /\ UNCHANGED <<program, opts, kept, report>>

RevertPass ==
    /\ at.phase = "written"
    /\ Worse
    /\ disk' = Target(out.current)
    /\ out' = [out EXCEPT !.stopped = "reverted"]
    /\ at' = [at EXCEPT !.phase = "finish"]
    /\ UNCHANGED <<program, opts, kept, report>>

\* The end of fix_file, and what cmd_fix takes from it.
FinishFile ==
    /\ at.phase = "finish"
    /\ LET changed == out.current # out.original
           left == IF opts.dry /\ changed THEN out.check ELSE CheckWritten(at.file, disk[at.file])
       IN  report' = [report EXCEPT ![at.file] =
               [changed |-> changed, passes |-> out.passes, deferred |-> out.deferred,
                stopped |-> out.stopped, contents |-> out.current, original |-> out.original,
                first |-> out.first, fresh |-> out.fresh, left |-> left, capped |-> at.pass = MaxPasses]]
    /\ at' = [at EXCEPT !.phase = "files"]
    /\ out' = NoOutcome
    /\ UNCHANGED <<program, opts, disk, kept>>

\* A file that cannot be read, and a check that fails, ends the run where it is.
Fails ==
    /\ at.phase \in {"files", "written", "finish"}
    /\ at' = [at EXCEPT !.phase = "failed"]
    /\ UNCHANGED <<program, opts, disk, kept, out, report>>

\* Writing a pass, or putting the file back, fails: the file may be left with any
\* part of the text, and what a check would find in that is not told.
WriteFails ==
    /\ Writes \/ (at.phase = "written" /\ Worse)
    /\ \E text \in SUBSET {e \in Findings : program.file[e] = at.file} : disk' = Target(text)
    /\ at' = [at EXCEPT !.phase = "failed"]
    /\ UNCHANGED <<program, opts, kept, out, report>>

\* A patched copy of a dependency: checked when the files are done.
CheckOnly(f) ==
    /\ at.phase = "files"
    /\ Left = {}
    /\ f \notin program.own
    /\ report[f] = None
    /\ report' = [report EXCEPT ![f] =
           [changed |-> FALSE, passes |-> <<>>, deferred |-> 0, stopped |-> "no", contents |-> disk[f],
            original |-> disk[f], first |-> {}, fresh |-> FALSE, left |-> Checked(f),
            capped |-> FALSE]]
    /\ kept' = KeptAfter(f)
    /\ UNCHANGED <<program, opts, disk, at, out>>

Judge ==
    /\ at.phase = "files"
    /\ \A f \in Files : report[f] # None
    /\ at' = [at EXCEPT !.phase = "judged"]
    /\ UNCHANGED <<program, opts, disk, kept, out, report>>

-----------------------------------------------------------------------------
Init ==
    /\ program \in Programs
    /\ opts \in [dry : BOOLEAN, unsafe : BOOLEAN, allowDirty : BOOLEAN]
    /\ disk = program.text
    /\ kept = [f \in Files |-> None]
    /\ at = [phase |-> "start", file |-> None, pass |-> 1, next |-> {}, taken |-> {}, wait |-> 0]
    /\ out = NoOutcome
    /\ report = [f \in Files |-> None]

Next ==
    \/ Begin
    \/ \E f \in Files : OpenFile(f) \/ CheckOnly(f)
    \/ StopAtCap \/ StopAtSyntax \/ StopWithNothing \/ StopOscillating \/ StopUnfit
    \/ WritePass \/ KeepPass \/ RevertPass
    \/ FinishFile \/ Fails \/ WriteFails \/ Judge

Spec == Init /\ [][Next]_vars /\ WF_vars(Next)
-----------------------------------------------------------------------------
(* Properties                                                              *)

\* The passes of a report, applied again to what the file was.
Replayed(r) ==
    LET text[n \in 0 .. Len(r.passes)] ==
          IF n = 0 THEN r.original ELSE Rewritten(text[n - 1], r.passes[n])
    IN  text[Len(r.passes)]

\* The tree is what the run says it is.  A file that was reported holds what the fixes
\* listed for it make of what it was, and nothing of a pass that was put back; a file
\* that was not, a dependency's copy, which is only checked, and every file of a dry run
\* or a run that was refused, is as it was.
TreeIsAsReported ==
    \A f \in Files :
        /\ report[f] # None =>
              /\ report[f].contents = Replayed(report[f])
              /\ report[f].changed <=> report[f].contents # report[f].original
              /\ disk[f] = IF opts.dry THEN report[f].original ELSE report[f].contents
        /\ f \notin program.own => disk[f] = program.text[f]
        /\ report[f] = None /\ f # at.file => disk[f] = program.text[f]

\* A file whose first check read the files as they were is not left with more errors
\* than it had, whatever its passes applied, deferred and put back.
ErrorsNeverGrow ==
    \A f \in Files : report[f] # None /\ report[f].fresh =>
        Cardinality(ErrorsOf(report[f].left)) <= Cardinality(ErrorsOf(report[f].first))

\* A run ends, though fixes may undo each other two passes apart, which the comparison
\* with the last set of fixes does not see.
RunEnds == <>(at.phase \in {"refused", "failed", "judged"})

\* fix.rs 7: a fix that leaves the file with an error it did not have is reverted.
NoNewError ==
    \A f \in Files : report[f] # None /\ report[f].fresh /\ report[f].changed =>
        ErrorsOf(report[f].left) \subseteq ErrorsOf(report[f].first)

\* FileOutcome::deferred: edits deferred because they overlapped an applied one and the
\* pass cap hit.
DeferredAtCap == \A f \in Files : report[f] # None /\ report[f].deferred > 0 => report[f].capped

\* A run that could not go on leaves no file rewritten without saying so.
NothingUnreported ==
    at.phase = "failed" => \A f \in Files : report[f] = None => disk[f] = program.text[f]

\* What is left is judged as `htl check` judges it (fix.rs 30).
JudgedAsChecked ==
    at.phase = "judged" /\ ~opts.dry =>
        \A f \in Files : ErrorsOf(report[f].left) = ErrorsOf(CheckWritten(f, disk[f]))
=============================================================================
