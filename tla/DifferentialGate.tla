-------------------------- MODULE DifferentialGate --------------------------
(***************************************************************************)
(* The gate of quality/check_differential.py.  An entry of the corpus is   *)
(* compiled, decompiled, compiled again and, when its manifest asks for    *)
(* it, run and compared with the original; the rung it reaches is compared *)
(* with the baseline of the Python that runs the check.                    *)
(*                                                                         *)
(* What an entry does on a Python is an arbitrary member of Trials: what   *)
(* the worker processes came to, in the order check_entry() asks for it.   *)
(***************************************************************************)
EXTENDS Naturals, Sequences, FiniteSets

CONSTANTS Entries,      \* the ids of the corpus
          Pythons,      \* the interpreters, each with a baseline of its own
          DiagnosticKinds,
          Trials,       \* what may come of an entry
          Corpora,      \* the corpora to start from
          MaxChanges    \* bound on the changes since then

\* What the worker that decompiles can come to, and what it reports.
ASSUME TrialsAssumption ==
    \A t \in Trials : /\ t.decompiled \in {"timeout", "failed", "nothing", "not python", "python"}
                      /\ t.noise \in [DiagnosticKinds -> Nat]
ASSUME CorporaAssumption ==
    \A c \in Corpora : /\ DOMAIN c.manifest \subseteq Entries
                       /\ c.manifest \in [DOMAIN c.manifest -> [applies : SUBSET Pythons, run : BOOLEAN]]
                       /\ c.trial \in [Entries \X Pythons -> Trials]

VARIABLES manifest,     \* the entries there are: the Pythons each applies to, whether it is run
          trial,        \* what comes of each entry on each Python
          baselines,    \* the baseline file of each Python, NoFile if there is none
          written,      \* manifest and trial when it was written (of use to the properties only)
          result,       \* the exit code of the last run, if nothing has changed since
          changed

dvars == <<manifest, trial, baselines, written, result, changed>>

Rungs == <<"decompile_error", "syntax_error", "compiles", "mismatch", "equivalent">>
NotScored == "source_error"
FailingKinds == {"regressed", "new", "missing", "lost", "noisier"}

RungOf(status) == CHOOSE i \in 1..Len(Rungs) : Rungs[i] = status

NoFile == <<>>
NoResult == [code |-> 0, mode |-> "none", pythons |-> {}, named |-> {}]
Modes == {"none", "check", "update", "report", "refused"}

DTypeOK == /\ DOMAIN manifest \subseteq Entries
           /\ \A e \in DOMAIN manifest : manifest[e] \in [applies : SUBSET Pythons, run : BOOLEAN]
           /\ trial \in [Entries \X Pythons -> Trials]
           /\ \A p \in Pythons : baselines[p] # NoFile =>
                 /\ DOMAIN baselines[p].noise \subseteq DOMAIN baselines[p].status
                 /\ \A e \in DOMAIN baselines[p].status : baselines[p].status[e] \in {Rungs[i] : i \in 1..Len(Rungs)}
           /\ result \in [code : 0..2, mode : Modes, pythons : SUBSET Pythons, named : SUBSET Entries]
           /\ changed \in 0..MaxChanges

-----------------------------------------------------------------------------
(* check_entry() *)

\* observe(): a run that takes too long is an observation like any other, and its output is not kept.
Observed(run) == IF run.ended = "timeout" THEN [ended |-> "timeout", said |-> "nothing"] ELSE run

\* compare() leaves no field out: an exception, the two streams and RESULT are one value here.
Mismatch(t) == Observed(t.original) # Observed(t.rebuilt)

\* Whether there is something to judge: the source compiles, and the original runs if it is to be run.
CanScore(t, run) == t.compiles /\ (run => t.original.ended # "worker failure")

CheckEntry(e, p) ==
    LET t == trial[<<e, p>>]
        run == manifest[e].run
    IN  IF ~CanScore(t, run) THEN NotScored
        ELSE CASE t.decompiled \in {"timeout", "failed", "nothing"} -> "decompile_error"
               [] t.decompiled = "not python" -> "syntax_error"
               [] t.decompiled = "python" /\ ~run -> "compiles"
               [] t.decompiled = "python" /\ run -> IF Mismatch(t) THEN "mismatch" ELSE "equivalent"

\* The diagnostics are those of a worker that wrote a program.
Noise(e, p) == IF CheckEntry(e, p) \notin {NotScored, "decompile_error"}
                  THEN trial[<<e, p>>].noise ELSE [k \in DiagnosticKinds |-> 0]

Silent(noise) == \A k \in DiagnosticKinds : noise[k] = 0

\* select_entries(): a name that no entry has, or none that applies, is an error.
Applying(p) == {e \in DOMAIN manifest : p \in manifest[e].applies}
Selected(p, named) == IF named = {} THEN Applying(p) ELSE named \cap Applying(p)
CanSelect(p, named) == named \subseteq Applying(p) /\ Selected(p, named) # {}

\* to_baseline()
BaselineOf(p, results) ==
    LET scored == {e \in results : CheckEntry(e, p) # NotScored}
    IN  [status |-> [e \in scored |-> CheckEntry(e, p)],
         noise |-> [e \in {s \in scored : ~Silent(Noise(s, p))} |-> Noise(e, p)]]

-----------------------------------------------------------------------------
(* diff_baseline() *)

EntryKind(before, now) ==
    IF before = now THEN {}
    ELSE IF now = NotScored THEN {"lost"}
    ELSE IF RungOf(now) < RungOf(before) THEN {"regressed"} ELSE {"improved"}

\* A slip: an entry without recorded diagnostics is not held to any.
NoisierOfListed(e, p, file) ==
    e \in DOMAIN file.noise /\ \E k \in DiagnosticKinds : Noise(e, p)[k] > file.noise[e][k]

\* _noisier(): the baseline lists only entries that reported something.
Noisier(e, p, file) ==
    LET before == IF e \in DOMAIN file.noise THEN file.noise[e] ELSE [k \in DiagnosticKinds |-> 0]
    IN  \E k \in DiagnosticKinds : Noise(e, p)[k] > before[k]

\* A slip: an entry that never ran is a new one.
IsNewThoughNotScored(e, p, file) == e \notin DOMAIN file.status

IsNew(e, p, file) == e \notin DOMAIN file.status /\ CheckEntry(e, p) # NotScored

KindsOfChange(p, file, results) ==
    (UNION {EntryKind(file.status[e], CheckEntry(e, p)) : e \in results \cap DOMAIN file.status})
    \cup (IF \E e \in results : IsNew(e, p, file) THEN {"new"} ELSE {})
    \cup (IF DOMAIN file.status \subseteq results THEN {} ELSE {"missing"})
    \cup (IF \E e \in results \cap DOMAIN file.status : Noisier(e, p, file) THEN {"noisier"} ELSE {})

\* A slip: it misses the entries it was not asked for.
GatedAll(named, kinds) == kinds \cap FailingKinds

\* A run of some entries does not miss the others.
Gated(named, kinds) == (IF named = {} THEN kinds ELSE kinds \ {"missing"}) \cap FailingKinds

-----------------------------------------------------------------------------
(* main() *)

\* What one interpreter exits with, and the file it leaves.
CheckOn(p, named) ==
    IF ~CanSelect(p, named) \/ baselines[p] = NoFile THEN 2
    ELSE IF Gated(named, KindsOfChange(p, baselines[p], Selected(p, named))) = {} THEN 0 ELSE 1

UpdateOn(p) == IF CanSelect(p, {}) THEN BaselineOf(p, Applying(p)) ELSE baselines[p]

\* With several --python options the check runs under each in turn and the worst exit code is passed on.
Worst(codes) == CHOOSE c \in codes : \A d \in codes : d <= c

Finish(code, mode, pythons, named) ==
    /\ result' = [code |-> code, mode |-> mode, pythons |-> pythons, named |-> named]
    /\ UNCHANGED <<manifest, trial, changed>>

CheckEntries(pythons, named) ==
    /\ Finish(Worst({CheckOn(p, named) : p \in pythons}), "check", pythons, named)
    /\ UNCHANGED <<baselines, written>>

\* --no-baseline
ReportEntries(pythons, named) ==
    /\ Finish(Worst({IF CanSelect(p, named) THEN 0 ELSE 2 : p \in pythons}), "report", {}, {})
    /\ UNCHANGED <<baselines, written>>

\* --update-baseline records every entry that applies.
UpdateBaselines(pythons) ==
    /\ baselines' = [p \in Pythons |-> IF p \in pythons THEN UpdateOn(p) ELSE baselines[p]]
    /\ written' = [p \in Pythons |-> IF p \in pythons /\ CanSelect(p, {})
                                     THEN [manifest |-> manifest, trial |-> trial] ELSE written[p]]
    /\ Finish(Worst({IF CanSelect(p, {}) THEN 0 ELSE 2 : p \in pythons}), "update", {}, {})

\* --update-baseline with entries named, with --no-baseline, a bad manifest, or a file for several Pythons.
Refuse == /\ Finish(2, "refused", {}, {})
          /\ UNCHANGED <<baselines, written>>

-----------------------------------------------------------------------------
DInit == /\ \E c \in Corpora : manifest = c.manifest /\ trial = c.trial
         /\ baselines = [p \in Pythons |-> NoFile]
         /\ written = [p \in Pythons |-> NoFile]
         /\ result = NoResult
         /\ changed = 0

Changed == /\ changed < MaxChanges
           /\ changed' = changed + 1
           /\ result' = NoResult
           /\ UNCHANGED <<baselines, written>>

SetManifest(m) == /\ manifest' = m /\ m # manifest
                  /\ UNCHANGED trial
                  /\ Changed

AddEntry(e) == /\ e \notin DOMAIN manifest
               /\ \E run \in BOOLEAN :
                     SetManifest([f \in DOMAIN manifest \cup {e} |->
                                     IF f = e THEN [applies |-> Pythons, run |-> run] ELSE manifest[f]])

RemoveEntry(e) == SetManifest([f \in DOMAIN manifest \ {e} |-> manifest[f]])

SetEquivalence(e) == SetManifest([manifest EXCEPT ![e].run = ~@])

SetPythons(e) == \E applies \in SUBSET Pythons : SetManifest([manifest EXCEPT ![e].applies = applies])

\* A change of the decompiler, of the program or of the Python.
ChangeTrial(e, p) == \E t \in Trials : /\ t # trial[<<e, p>>]
                                       /\ trial' = [trial EXCEPT ![<<e, p>>] = t]
                                       /\ UNCHANGED manifest
                                       /\ Changed

DEdit == \/ \E e \in Entries : AddEntry(e)
         \/ \E e \in DOMAIN manifest : \/ RemoveEntry(e) \/ SetEquivalence(e) \/ SetPythons(e)
                                       \/ \E p \in Pythons : ChangeTrial(e, p)

DRun == \E pythons \in (SUBSET Pythons) \ {{}} :
           \/ UpdateBaselines(pythons)
           \/ \E named \in SUBSET Entries : CheckEntries(pythons, named) \/ ReportEntries(pythons, named)

DNext == DEdit \/ DRun \/ Refuse

DSpec == DInit /\ [][DNext]_dvars

-----------------------------------------------------------------------------
(* What it is for *)

Checked(code) == result.mode = "check" /\ result.named = {} /\ result.code = code

\* What the entry did on p when the baseline was written, and what it does now.
Before(e, p) == written[p].trial[<<e, p>>]

\* Both runs ended, and told the same.
Equivalent(t) == t.original = t.rebuilt /\ t.original.ended # "timeout"
BothTimeOut(t) == t.original.ended = "timeout" /\ t.rebuilt.ended = "timeout"

\* How far a trial gets, without a word about statuses.
Reach(t, run) == CASE t.decompiled # "python" /\ t.decompiled # "not python" -> 0
                   [] t.decompiled = "not python" -> 1
                   [] t.decompiled = "python" -> IF run /\ (Equivalent(t) \/ BothTimeOut(t)) THEN 3 ELSE 2

WasScored(e, p) == /\ e \in DOMAIN written[p].manifest /\ p \in written[p].manifest[e].applies
                   /\ CanScore(Before(e, p), written[p].manifest[e].run)

Reported(t) == IF t.decompiled \in {"python", "not python"} THEN t.noise ELSE [k \in DiagnosticKinds |-> 0]
Louder(now, then) == \E k \in DiagnosticKinds : now[k] > then[k]

\* What makes it worse on p: it is gone, does not apply, cannot be scored, gets less far, or says more.
EntryWorse(e, p) ==
    \/ e \notin Applying(p)
    \/ LET now == trial[<<e, p>>]  run == manifest[e].run
       IN  \/ ~CanScore(now, run)
           \/ Reach(now, run) < Reach(Before(e, p), run)
           \/ Louder(Reported(now), Reported(Before(e, p)))

\* "An entry that drops to a lower rung than its baseline is a regression and fails the run": when the check
\* passes, under however many Pythons, every entry whose behaviour the baselines recorded is still there, is
\* still run as it was, and gets as far as it did; no scored entry is without a record.
PassMeansAllRecorded ==
    Checked(0) =>
        \A p \in result.pythons :
            /\ \A e \in Entries :
                  WasScored(e, p) => \/ ~EntryWorse(e, p)
                                     \/ e \in Applying(p) /\ manifest[e].run # written[p].manifest[e].run
            /\ \A e \in Applying(p) : CheckEntry(e, p) # NotScored => WasScored(e, p)

\* "Improvements never fail": a check that fails has found something that is worse, or an entry without a record.
FailMeansWorse ==
    Checked(1) =>
        \E p \in result.pythons, e \in Entries :
            \/ WasScored(e, p) /\ (EntryWorse(e, p) \/ manifest[e].run # written[p].manifest[e].run)
            \/ ~WasScored(e, p) /\ e \in Applying(p) /\ CanScore(trial[<<e, p>>], manifest[e].run)

\* A run of some entries ("a few entries, by id or file name") never fails where the whole check would pass.
SomeAgreeWithAll ==
    result.mode = "check" /\ result.code = 1 =>
        \E p \in result.pythons : CheckOn(p, {}) = 1

=============================================================================
