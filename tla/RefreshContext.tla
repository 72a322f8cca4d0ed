-------------------------- MODULE RefreshContext --------------------------
(***************************************************************************)
(* tests/eval/refresh_context.py: one run reads a traces file and the      *)
(* dataset, pins the tool payloads of the traces as `context` of the       *)
(* matching cases, and writes the two files back one after the other, each *)
(* by truncating it and writing it anew.  The process may be killed at any *)
(* point and the script run again, over that traces file or another one.   *)
(* A payload is known by the number of the evaluation that produced it,    *)
(* and so is the traces file of that evaluation.                           *)
(***************************************************************************)
EXTENDS Naturals

CONSTANTS
    Case,      \* the cases of the dataset
    MaxEvals,  \* bound on the number of `eval generate` runs
    MaxRuns    \* bound on the number of runs of the script

ASSUME RefreshAssumption == MaxEvals \in Nat /\ MaxRuns \in Nat

VARIABLES
    evals,     \* how many evaluations were generated
    traces,    \* the cases of each traces file
    tracesOk,  \* that file is a whole JSON document
    dataset,   \* the context pinned in each case of the dataset, 0 if none
    datasetOk,
    runs,      \* how often the script was started
    pc,        \* where its current run stands
    patching,  \* that run patches the traces file (no --no-patch-traces)
    using,     \* the number of the traces file it loaded
    newest,    \* history: that file was the newest one when it was loaded
    traced,    \* its copy of the traces
    cases,     \* its copy of the dataset
    settled    \* history: the traces file that the last run, now complete, patched

files == <<traces, tracesOk, dataset, datasetOk>>
memory == <<patching, using, newest, traced, cases>>
vars == <<evals, traces, tracesOk, dataset, datasetOk, runs, pc, patching, using,
          newest, traced, cases, settled>>

Snapshot == 0 .. MaxEvals

File == 1 .. MaxEvals

\* What a traces file holds of a case: whether it is in it, the payload its
\* tools returned (0: no tool was called) and its context.
TracedCase == [there : BOOLEAN, payload : Snapshot, context : Snapshot]

Untraced == [there |-> FALSE, payload |-> 0, context |-> 0]

PC == {"idle", "loaded", "pinned", "tracesOpen", "patched", "datasetOpen"}

TypeOK ==
    /\ evals \in Snapshot
    /\ traces \in [File -> [Case -> TracedCase]]
    /\ dataset \in [Case -> Snapshot]
    /\ tracesOk \in [File -> BOOLEAN] /\ datasetOk \in BOOLEAN
    /\ runs \in 0 .. MaxRuns
    /\ pc \in PC
    /\ patching \in BOOLEAN /\ newest \in BOOLEAN /\ using \in Snapshot
    /\ traced \in [Case -> TracedCase]
    /\ cases \in [Case -> Snapshot]
    /\ settled \in Snapshot

\* No evaluation was generated yet; the dataset has no context.
Init ==
    /\ evals = 0
    /\ traces = [f \in File |-> [c \in Case |-> Untraced]]
    /\ dataset = [c \in Case |-> 0]
    /\ tracesOk = [f \in File |-> TRUE] /\ datasetOk = TRUE
    /\ runs = 0
    /\ pc = "idle"
    /\ patching = TRUE
    /\ using = 0
    /\ newest = FALSE
    /\ traced = [c \in Case |-> Untraced]
    /\ cases = dataset
    /\ settled = 0

-----------------------------------------------------------------------------
\* External: `agents-cli eval generate` writes a traces file of its own, with
\* some of the cases, some of which called no tool; the context of the dataset
\* may come along.
Generate ==
    /\ evals < MaxEvals /\ datasetOk
    /\ evals' = evals + 1
    /\ \E in \in SUBSET Case, keep \in BOOLEAN : \E tooled \in SUBSET in :
        traces' = [traces EXCEPT ![evals'] = [c \in Case |->
            [there |-> c \in in,
             payload |-> IF c \in tooled THEN evals' ELSE 0,
             context |-> IF c \in in /\ keep THEN dataset[c] ELSE 0]]]
    /\ UNCHANGED <<tracesOk, dataset, datasetOk, runs, pc, memory, settled>>

\* main() loads both files; a truncated one ends the run in json.load.  A file
\* named by --traces is taken as it is, be it the newest or not; of a directory
\* it is the file with the last name, which agents-cli chose.
Load ==
    /\ pc = "idle"
    /\ runs < MaxRuns /\ runs' = runs + 1
    /\ datasetOk
    /\ pc' = "loaded"
    /\ patching' \in BOOLEAN
    /\ \E f \in 1 .. evals :
        /\ tracesOk[f]
        /\ using' = f
        /\ newest' = (f = evals)
        /\ traced' = traces[f]
    /\ cases' = dataset
    /\ settled' = 0
    /\ UNCHANGED <<evals, files>>

\* Mutant of Pinned: `if not context: continue` is missing.
PinnedEmpty(c) == IF traced[c].there THEN traced[c].payload ELSE cases[c]

\* A case that is absent from the traces or has no payload keeps its context.
Pinned(c) ==
    IF traced[c].there /\ traced[c].payload # 0 THEN traced[c].payload ELSE cases[c]

Pin ==
    /\ pc = "loaded"
    /\ pc' = "pinned"
    /\ cases' = [c \in Case |-> Pinned(c)]
    /\ UNCHANGED <<evals, files, runs, patching, using, newest, traced, settled>>

\* Mutant of Patched: a context that came along from the dataset is kept.
PatchedOnce(c) ==
    IF traced[c].there /\ cases[c] # 0 /\ traced[c].context = 0
    THEN [traced[c] EXCEPT !.context = cases[c]] ELSE traced[c]

\* A traced case is given the context of its dataset case, if that has one.
Patched(c) ==
    IF traced[c].there /\ cases[c] # 0
    THEN [traced[c] EXCEPT !.context = cases[c]] ELSE traced[c]

\* Mutant of OpenTraces: both files are opened before either is written.
OpenBoth ==
    /\ pc = "pinned" /\ patching
    /\ pc' = "tracesOpen"
    /\ traced' = [c \in Case |-> Patched(c)]
    /\ tracesOk' = [tracesOk EXCEPT ![using] = FALSE]
    /\ datasetOk' = FALSE
    /\ UNCHANGED <<evals, traces, dataset, runs, patching, using, newest, cases, settled>>

\* open(traces_file, "w") truncates the file that was loaded.
OpenTraces ==
    /\ pc = "pinned" /\ patching
    /\ pc' = "tracesOpen"
    /\ traced' = [c \in Case |-> Patched(c)]
    /\ tracesOk' = [tracesOk EXCEPT ![using] = FALSE]
    /\ UNCHANGED <<evals, traces, dataset, datasetOk, runs, patching, using, newest, cases, settled>>

WriteTraces ==
    /\ pc = "tracesOpen"
    /\ pc' = "patched"
    /\ traces' = [traces EXCEPT ![using] = traced]
    /\ tracesOk' = [tracesOk EXCEPT ![using] = TRUE]
    /\ UNCHANGED <<evals, dataset, datasetOk, runs, memory, settled>>

OpenDataset ==
    /\ \/ pc = "patched"
       \/ pc = "pinned" /\ ~patching
    /\ pc' = "datasetOpen"
    /\ datasetOk' = FALSE
    /\ UNCHANGED <<evals, traces, tracesOk, dataset, runs, memory, settled>>

WriteDataset ==
    /\ pc = "datasetOpen"
    /\ pc' = "idle"
    /\ dataset' = cases
    /\ datasetOk' = TRUE
    /\ settled' = IF patching THEN using ELSE 0
    /\ UNCHANGED <<evals, traces, tracesOk, runs, memory>>

\* External: the process is killed, or the disk is full; what was truncated and
\* not written is lost.
Crash ==
    /\ pc # "idle"
    /\ pc' = "idle"
    /\ UNCHANGED <<evals, files, runs, memory, settled>>

Next ==
    \/ Generate \/ Load \/ Pin \/ OpenTraces \/ WriteTraces
    \/ OpenDataset \/ WriteDataset \/ Crash

Spec == Init /\ [][Next]_vars

-----------------------------------------------------------------------------
\* Pinning has happened in this run; and so has patching.
HasPinned == pc \in {"pinned", "tracesOpen", "patched", "datasetOpen"}

HasPatched == patching /\ pc \in {"tracesOpen", "patched", "datasetOpen"}

\* A traces file and a dataset that show one snapshot: the context of every
\* traced case is that of the dataset, and it is the case's own payload if it
\* has one.
Agree(f) ==
    \A c \in Case : traces[f][c].there =>
        /\ traces[f][c].context = dataset[c]
        /\ traces[f][c].payload # 0 => dataset[c] = traces[f][c].payload

\* After a run that patched its traces, `eval grade --traces` over that file and
\* the dataset see the same snapshot (refresh_context.py:133-135), whatever runs
\* were killed before and wherever, over this traces file or another one, and
\* whatever evaluations were generated meanwhile.
SameSnapshot == settled # 0 => Agree(settled)

\* A kill that leaves the dataset truncated leaves the traces file of that run
\* whole, and if the run patches traces, they hold every context that it was
\* about to write for their cases: a file is opened for writing only while the
\* other one is complete.  (The script itself does not start over from there:
\* its json.load stops at the truncated dataset, which is repaired by hand.)
NeverBothTorn ==
    ~datasetOk =>
        /\ tracesOk[using]
        /\ patching => \A c \in Case :
               traces[using][c].there => traces[using][c].context = cases[c]

\* A context of the dataset is replaced only by the payload that the traces file
\* of the run has for this very case, so that none is lost or taken over from
\* what a killed run left; and unless the script was told to use a traces file
\* that had a newer one beside it, the new payload is of a later evaluation.
ContextsOnlyAdvance ==
    [][\A c \in Case : dataset'[c] # dataset[c] =>
        /\ dataset'[c] # 0
        /\ dataset'[c] = traces[using][c].payload
        /\ newest => dataset'[c] > dataset[c]]_vars

\* Running the script again over a traces file and a dataset that agree changes
\* neither: what a run writes into them is what they held, with patching or
\* without, so that no context that is there is dropped or replaced.  (A file
\* that a killed run leaves truncated is the matter of NeverBothTorn.)
RerunChangesNothing ==
    [][pc # "idle" /\ Agree(using) => UNCHANGED <<traces[using], dataset>>]_vars

\* The inductive strengthening, part by part.
\* A payload is of the evaluation whose file it is in, and what a run has in its
\* copy of the dataset is the file's or of the traces it loaded.
AgeInv ==
    /\ \A c \in Case :
        /\ \A f \in File : traces[f][c].payload \in {0, f}
        /\ dataset[c] <= evals
    /\ pc # "idle" =>
        /\ using \in 1 .. evals
        /\ \A c \in Case :
            /\ traced[c].payload \in {0, using}
            /\ cases[c] \in {dataset[c], using}
            /\ newest => dataset[c] <= using

\* Which file a run may have left truncated, by how far it has come.
TornInv ==
    /\ NeverBothTorn
    /\ ~datasetOk => using \in 1 .. evals
    /\ pc \in {"loaded", "pinned", "tracesOpen", "patched"} => datasetOk
    /\ pc \in {"loaded", "pinned", "patched", "datasetOpen"} => tracesOk[using]

\* A context in the traces without one in the dataset is the case's own
\* payload, patched by a run that was killed before it wrote the dataset.
ContextInv ==
    \A c \in Case :
        /\ \A f \in File :
            /\ traces[f][c].context # 0 => dataset[c] # 0 \/ traces[f][c].payload # 0
            /\ traces[f][c].payload # 0 \/ traces[f][c].context # 0
                => traces[f][c].there
        /\ pc # "idle" =>
            /\ traced[c].context # 0 => cases[c] # 0 \/ traced[c].payload # 0
            /\ traced[c].payload # 0 \/ traced[c].context # 0 => traced[c].there

\* What a run has put into its copies, and into its traces file; the cases and
\* payloads of its copy are those of the file it will write.
RunInv ==
    /\ settled <= evals
    /\ pc # "idle" => settled = 0
    /\ pc \in {"tracesOpen", "patched"} => patching
    /\ pc # "idle" => \A c \in Case :
            /\ traced[c].there = traces[using][c].there
            /\ traced[c].payload = traces[using][c].payload
            /\ pc = "loaded" \/ traced[c].payload = 0 => cases[c] = dataset[c]
    /\ HasPinned => \A c \in Case :
            traced[c].payload # 0 => cases[c] = traced[c].payload
    /\ HasPatched => \A c \in Case :
            traced[c].there => traced[c].context = cases[c]
    /\ HasPatched /\ pc # "tracesOpen" => traces[using] = traced

RefreshInv ==
    TypeOK /\ AgeInv /\ TornInv /\ ContextInv /\ RunInv /\ SameSnapshot

\* refresh_context.py:26-28: the script is re-run lest the grounding metric
\* "scores the current answer against a stale snapshot": after a run over the
\* newest traces, no traced case has a context of an earlier evaluation.
NoStaleSnapshot ==
    settled # 0 /\ settled = evals => \A c \in Case :
        traces[settled][c].there =>
            traces[settled][c].context \in {0, traces[settled][c].payload}
=============================================================================
