----------------------- MODULE RefreshContextProofs -----------------------
(***************************************************************************)
(* Proofs about RefreshContext, for any set of cases and any number of     *)
(* evaluations, runs and crashes.  The invariant says of each stage of a   *)
(* run what its copies and the two files have in common; a crash keeps it  *)
(* because it speaks of the files alone once no run is under way.          *)
(***************************************************************************)
EXTENDS RefreshContext, TLAPS

USE RefreshAssumption

\* What an evaluation writes for a case, whatever it traces and keeps: a file of
\* its own, and nothing of the other ones.
LEMMA GeneratedFile ==
    ASSUME TypeOK, Generate
    PROVE  /\ evals' = evals + 1 /\ evals' \in File
           /\ traces' \in [File -> [Case -> TracedCase]]
           /\ \A f \in File : f # evals' => traces'[f] = traces[f]
           /\ \A c \in Case :
                /\ traces'[evals'][c].payload \in {0, evals'}
                /\ traces'[evals'][c].context \in {0, dataset[c]}
                /\ traces'[evals'][c].payload # 0 => traces'[evals'][c].there
                /\ traces'[evals'][c].context # 0 => traces'[evals'][c].there
<1>0. evals' = evals + 1 /\ evals' \in File /\ evals' \in Snapshot /\ 0 \in Snapshot
  BY DEF Generate, TypeOK, Snapshot, File
<1>1. PICK in \in SUBSET Case, keep \in BOOLEAN : \E tooled \in SUBSET in :
          traces' = [traces EXCEPT ![evals'] = [d \in Case |->
              [there |-> d \in in,
               payload |-> IF d \in tooled THEN evals' ELSE 0,
               context |-> IF d \in in /\ keep THEN dataset[d] ELSE 0]]]
  BY DEF Generate
<1>2. PICK tooled \in SUBSET in :
          traces' = [traces EXCEPT ![evals'] = [d \in Case |->
              [there |-> d \in in,
               payload |-> IF d \in tooled THEN evals' ELSE 0,
               context |-> IF d \in in /\ keep THEN dataset[d] ELSE 0]]]
  BY <1>1
<1> DEFINE New == [d \in Case |->
              [there |-> d \in in,
               payload |-> IF d \in tooled THEN evals' ELSE 0,
               context |-> IF d \in in /\ keep THEN dataset[d] ELSE 0]]
<1>3. \A d \in Case : dataset[d] \in Snapshot
  BY DEF TypeOK
<1>4. ASSUME NEW d \in Case
      PROVE  New[d] \in TracedCase
  BY <1>0, <1>3 DEF TracedCase
<1>5. New \in [Case -> TracedCase]
  BY <1>4
<1>6. traces' = [traces EXCEPT ![evals'] = New]
  BY <1>2
<1>7. \A c \in Case :
      /\ New[c].payload \in {0, evals'}
      /\ New[c].context \in {0, dataset[c]}
      /\ New[c].payload # 0 => New[c].there
      /\ New[c].context # 0 => New[c].there
  OBVIOUS
<1> HIDE DEF New
<1>8. traces \in [File -> [Case -> TracedCase]]
  BY DEF TypeOK
<1>9. traces'[evals'] = New
  BY <1>0, <1>6, <1>8
<1>10. \A f \in File : f # evals' => traces'[f] = traces[f]
  BY <1>6, <1>8
<1>11. traces' \in [File -> [Case -> TracedCase]]
  BY <1>0, <1>5, <1>6, <1>8
<1> QED
  BY <1>0, <1>7, <1>9, <1>10, <1>11

\* Every action but WriteDataset leaves the dataset as it is.
LEMMA DatasetKept == Next /\ ~WriteDataset => dataset' = dataset
  BY DEF Next, Generate, Load, Pin, OpenTraces, WriteTraces, OpenDataset, Crash, files

\* A run's file is one of the evaluations', also after the run was killed while
\* it wrote the dataset.
LEMMA UsingFile ==
    ASSUME TypeOK, AgeInv, TornInv, pc # "idle" \/ ~datasetOk
    PROVE  using \in File /\ traces[using] \in [Case -> TracedCase]
<1>1. using \in 1 .. evals
  BY DEF AgeInv, TornInv
<1>2. using \in File
  BY <1>1 DEF TypeOK, File, Snapshot
<1> QED
  BY <1>2 DEF TypeOK

LEMMA TypeStep == TypeOK /\ [Next]_vars => TypeOK'
<1> SUFFICES ASSUME TypeOK, [Next]_vars PROVE TypeOK'
  OBVIOUS
<1> USE DEF TypeOK, Snapshot, PC, files, memory
<1>1. CASE UNCHANGED vars
  BY <1>1 DEF vars
<1>2. CASE Generate
  <2>1. traces' \in [File -> [Case -> TracedCase]]
    BY <1>2, GeneratedFile
  <2>2. evals' \in Snapshot
    BY <1>2 DEF Generate
  <2>3. UNCHANGED <<tracesOk, dataset, datasetOk, runs, pc, memory, settled>>
    BY <1>2 DEF Generate
  <2> QED
    BY <2>1, <2>2, <2>3
<1>3. CASE Load
  <2>1. runs' \in 0 .. MaxRuns
    BY <1>3 DEF Load
  <2>2. patching' \in BOOLEAN /\ newest' \in BOOLEAN
    BY <1>3, Zenon DEF Load
  <2>3. UNCHANGED <<evals, traces, tracesOk, dataset, datasetOk>>
    BY <1>3, Zenon DEF Load, files
  <2>4. PICK f \in 1 .. evals : using' = f /\ traced' = traces[f]
    BY <1>3 DEF Load
  <2>5. using' \in Snapshot /\ traced' \in [Case -> TracedCase]
    BY <2>4 DEF File
  <2>6. settled' \in Snapshot /\ pc' \in PC /\ cases' \in [Case -> Snapshot]
    BY <1>3 DEF Load
  <2> QED
    BY <2>1, <2>2, <2>3, <2>5, <2>6, Zenon DEF TypeOK
<1>4. CASE Pin
  BY <1>4 DEF Pin, Pinned, TracedCase
<1>5. CASE OpenTraces
  BY <1>5 DEF OpenTraces, Patched, TracedCase
<1>6. CASE WriteTraces
  BY <1>6 DEF WriteTraces
<1>7. CASE OpenDataset
  BY <1>7 DEF OpenDataset
<1>8. CASE WriteDataset
  BY <1>8 DEF WriteDataset
<1>9. CASE Crash
  BY <1>9 DEF Crash
<1> QED
  BY <1>1, <1>2, <1>3, <1>4, <1>5, <1>6, <1>7, <1>8, <1>9 DEF Next

LEMMA RefreshStep == RefreshInv /\ [Next]_vars => RefreshInv'
<1> SUFFICES ASSUME RefreshInv, [Next]_vars PROVE RefreshInv'
  OBVIOUS
<1>t. TypeOK /\ TypeOK'
  BY TypeStep DEF RefreshInv
<1> USE DEF files, memory
<1>1. CASE UNCHANGED vars
  BY <1>1 DEF RefreshInv, TypeOK, AgeInv, TornInv, NeverBothTorn, ContextInv,
              RunInv, HasPinned, HasPatched, SameSnapshot, Agree, vars
<1>2. CASE Generate
  <2>0. /\ UNCHANGED <<tracesOk, dataset, datasetOk, runs, pc, settled>>
        /\ UNCHANGED <<patching, using, newest, traced, cases>>
    BY <1>2 DEF Generate
  <2>f. /\ evals \in Nat /\ evals' = evals + 1 /\ evals' \in File
        /\ \A f \in File : f # evals' => traces'[f] = traces[f]
        /\ \A c \in Case :
             /\ traces'[evals'][c].payload \in {0, evals'}
             /\ traces'[evals'][c].context \in {0, dataset[c]}
             /\ traces'[evals'][c].payload # 0 => traces'[evals'][c].there
             /\ traces'[evals'][c].context # 0 => traces'[evals'][c].there
    BY <1>2, <1>t, GeneratedFile DEF TypeOK, Snapshot
  <2>u. pc # "idle" => using \in 1 .. evals /\ traces'[using] = traces[using]
    <3>1. pc # "idle" => using \in 1 .. evals
      BY DEF RefreshInv, AgeInv
    <3>2. ASSUME using \in 1 .. evals PROVE using \in File /\ using # evals'
      BY <2>f, <3>2 DEF File
    <3> QED
      BY <2>f, <3>1, <3>2
  <2>1. AgeInv'
    <3>1. ASSUME NEW c \in Case, NEW f \in File PROVE traces'[f][c].payload \in {0, f}
      BY <2>f DEF RefreshInv, AgeInv
    <3>2. \A c \in Case : dataset'[c] <= evals'
      BY <2>0, <2>f, <1>t DEF RefreshInv, AgeInv, TypeOK, Snapshot
    <3>3. pc' # "idle" => using' \in 1 .. evals'
      BY <2>0, <2>f, <2>u
    <3> QED
      BY <2>0, <3>1, <3>2, <3>3 DEF RefreshInv, AgeInv
  <2>2. TornInv'
    BY <1>2, <2>0 DEF Generate, RefreshInv, TornInv, NeverBothTorn
  <2>3. ContextInv'
    <3>1. ASSUME NEW c \in Case, NEW f \in File
          PROVE  /\ traces'[f][c].context # 0
                      => dataset[c] # 0 \/ traces'[f][c].payload # 0
                 /\ traces'[f][c].payload # 0 \/ traces'[f][c].context # 0
                      => traces'[f][c].there
      BY <2>f DEF RefreshInv, ContextInv
    <3> QED
      BY <2>0, <3>1 DEF RefreshInv, ContextInv
  <2>4. RunInv'
    <3>1. settled' <= evals'
      BY <2>0, <2>f, <1>t DEF RefreshInv, RunInv, TypeOK, Snapshot
    <3> QED
      BY <2>0, <2>u, <3>1 DEF RefreshInv, RunInv, HasPinned, HasPatched
  <2>5. SameSnapshot'
    <3>1. settled # 0 => settled \in File /\ settled # evals'
      BY <2>f, <1>t DEF RefreshInv, RunInv, TypeOK, Snapshot, File
    <3> QED
      BY <2>0, <2>f, <3>1 DEF RefreshInv, SameSnapshot, Agree
  <2> QED
    BY <1>t, <2>1, <2>2, <2>3, <2>4, <2>5 DEF RefreshInv
<1>3. CASE Load
  <2>0. /\ UNCHANGED <<evals, traces, tracesOk, dataset, datasetOk>>
        /\ datasetOk /\ pc' = "loaded" /\ settled' = 0 /\ cases' = dataset
    BY <1>3 DEF Load
  <2>f. PICK f \in 1 .. evals : /\ tracesOk[f] /\ using' = f /\ newest' = (f = evals)
                                /\ traced' = traces[f]
    BY <1>3 DEF Load
  <2>u. f \in File /\ evals \in Nat /\ f <= evals
    BY <2>f, <1>t DEF TypeOK, Snapshot, File
  <2>1. AgeInv'
    BY <2>0, <2>f, <2>u DEF RefreshInv, AgeInv
  <2>2. TornInv'
    BY <2>0, <2>f DEF TornInv, NeverBothTorn
  <2>3. ContextInv'
    BY <2>0, <2>f, <2>u DEF RefreshInv, ContextInv
  <2>4. RunInv'
    BY <2>0, <2>f, <2>u DEF RunInv, HasPinned, HasPatched
  <2>5. SameSnapshot'
    BY <2>0 DEF SameSnapshot
  <2> QED
    BY <1>t, <2>1, <2>2, <2>3, <2>4, <2>5 DEF RefreshInv
<1>4. CASE Pin
  <2>0. \A c \in Case : cases'[c] = IF traced[c].payload # 0 THEN traced[c].payload
                                                              ELSE cases[c]
    BY <1>4 DEF Pin, Pinned, RefreshInv, ContextInv
  <2>1. AgeInv'
    BY <1>4, <2>0, <1>t DEF Pin, RefreshInv, AgeInv, TypeOK, Snapshot
  <2>2. TornInv'
    BY <1>4 DEF Pin, RefreshInv, TornInv, NeverBothTorn
  <2>3. ContextInv'
    BY <1>4, <2>0 DEF Pin, RefreshInv, ContextInv
  <2>4. RunInv'
    BY <1>4, <2>0 DEF Pin, RefreshInv, RunInv, HasPinned, HasPatched
  <2>5. SameSnapshot'
    BY <1>4 DEF Pin, RefreshInv, SameSnapshot, Agree
  <2> QED
    BY <1>t, <2>1, <2>2, <2>3, <2>4, <2>5 DEF RefreshInv
<1>5. CASE OpenTraces
  <2>0. ASSUME NEW c \in Case
        PROVE  /\ traced'[c].there = traced[c].there
               /\ traced'[c].payload = traced[c].payload
               /\ traced[c].there => traced'[c].context = cases[c]
               /\ ~traced[c].there => traced'[c].context = traced[c].context
    <3>1. /\ traced'[c] = Patched(c)
          /\ traced[c] \in TracedCase
      BY <1>5, <1>t DEF OpenTraces, TypeOK
    <3>2. traced[c].there /\ cases[c] = 0 => traced[c].context = 0
      BY <1>5 DEF OpenTraces, RefreshInv, ContextInv, RunInv, HasPinned
    <3> QED
      BY <3>1, <3>2 DEF Patched, TracedCase
  <2>1. AgeInv'
    BY <1>5, <2>0, <1>t DEF OpenTraces, RefreshInv, AgeInv, TypeOK, Snapshot
  <2>2. TornInv'
    BY <1>5 DEF OpenTraces, RefreshInv, TornInv, NeverBothTorn
  <2>3. ContextInv'
    BY <1>5, <2>0 DEF OpenTraces, RefreshInv, ContextInv
  <2>4. RunInv'
    BY <1>5, <2>0 DEF OpenTraces, RefreshInv, RunInv, HasPinned, HasPatched
  <2>5. SameSnapshot'
    BY <1>5 DEF OpenTraces, RefreshInv, SameSnapshot, Agree
  <2> QED
    BY <1>t, <2>1, <2>2, <2>3, <2>4, <2>5 DEF RefreshInv
<1>6. CASE WriteTraces
  <2>u. using \in File /\ pc = "tracesOpen"
    BY <1>6, <1>t, UsingFile DEF WriteTraces, RefreshInv
  <2>0. /\ traces'[using] = traced /\ tracesOk'[using] = TRUE
        /\ \A f \in File : f # using => traces'[f] = traces[f]
        /\ pc' = "patched" /\ UNCHANGED <<evals, dataset, datasetOk, settled>>
        /\ UNCHANGED <<patching, using, newest, traced, cases>>
    BY <1>6, <1>t, <2>u DEF WriteTraces, TypeOK
  <2>1. AgeInv'
    <3>1. ASSUME NEW c \in Case, NEW f \in File PROVE traces'[f][c].payload \in {0, f}
      BY <2>0, <2>u DEF RefreshInv, AgeInv
    <3> QED
      BY <2>0, <2>u, <3>1 DEF RefreshInv, AgeInv
  <2>2. TornInv'
    BY <2>0, <2>u DEF RefreshInv, TornInv, NeverBothTorn
  <2>3. ContextInv'
    <3>1. ASSUME NEW c \in Case, NEW f \in File
          PROVE  /\ traces'[f][c].context # 0
                      => dataset[c] # 0 \/ traces'[f][c].payload # 0
                 /\ traces'[f][c].payload # 0 \/ traces'[f][c].context # 0
                      => traces'[f][c].there
      <4>1. CASE f = using
        <5>1. traced[c].payload = 0 => cases[c] = dataset[c]
          BY <2>u DEF RefreshInv, RunInv
        <5> QED
          BY <2>0, <2>u, <4>1, <5>1 DEF RefreshInv, ContextInv
      <4>2. CASE f # using
        BY <2>0, <4>2 DEF RefreshInv, ContextInv
      <4> QED
        BY <4>1, <4>2
    <3> QED
      BY <2>0, <2>u, <3>1 DEF RefreshInv, ContextInv
  <2>4. RunInv'
    BY <2>0, <2>u DEF RefreshInv, RunInv, HasPinned, HasPatched
  <2>5. SameSnapshot'
    BY <2>0, <2>u DEF RefreshInv, RunInv, SameSnapshot
  <2> QED
    BY <1>t, <2>1, <2>2, <2>3, <2>4, <2>5 DEF RefreshInv
<1>7. CASE OpenDataset
  <2>1. AgeInv'
    BY <1>7 DEF OpenDataset, RefreshInv, AgeInv
  <2>2. TornInv'
    <3>0. /\ datasetOk' = FALSE /\ pc' = "datasetOpen" /\ pc \in {"patched", "pinned"}
          /\ UNCHANGED <<evals, traces, tracesOk, patching, using, traced, cases>>
          /\ pc = "pinned" => ~patching
      BY <1>7 DEF OpenDataset
    <3>1. using \in 1 .. evals /\ tracesOk[using]
      BY <3>0 DEF RefreshInv, AgeInv, TornInv
    <3>2. ASSUME patching, NEW c \in Case, traces[using][c].there
          PROVE  traces[using][c].context = cases[c]
      <4>1. HasPatched /\ pc # "tracesOpen"
        BY <3>0, <3>2 DEF HasPatched
      <4> QED
        BY <3>2, <4>1 DEF RefreshInv, RunInv
    <3> QED
      BY <3>0, <3>1, <3>2 DEF TornInv, NeverBothTorn
  <2>3. ContextInv'
    BY <1>7 DEF OpenDataset, RefreshInv, ContextInv
  <2>4. RunInv'
    BY <1>7 DEF OpenDataset, RefreshInv, RunInv, HasPinned, HasPatched
  <2>5. SameSnapshot'
    BY <1>7 DEF OpenDataset, RefreshInv, SameSnapshot, Agree
  <2> QED
    BY <1>t, <2>1, <2>2, <2>3, <2>4, <2>5 DEF RefreshInv
<1>8. CASE WriteDataset
  <2>1. AgeInv'
    BY <1>8, <1>t DEF WriteDataset, RefreshInv, AgeInv, TypeOK, Snapshot
  <2>2. TornInv'
    BY <1>8 DEF WriteDataset, RefreshInv, TornInv, NeverBothTorn
  <2>3. ContextInv'
    BY <1>8, <1>t DEF WriteDataset, RefreshInv, ContextInv, AgeInv, TypeOK, Snapshot
  <2>4. RunInv'
    <3>1. using \in 1 .. evals /\ evals \in Nat
      BY <1>8, <1>t DEF WriteDataset, RefreshInv, AgeInv, TypeOK, Snapshot
    <3> QED
      BY <1>8, <3>1 DEF WriteDataset, RunInv, HasPinned, HasPatched
  <2>5. SameSnapshot'
    <3>1. ASSUME patching, NEW c \in Case, traces[using][c].there
          PROVE  /\ traces[using][c].context = cases[c]
                 /\ traces[using][c].payload # 0 => cases[c] = traces[using][c].payload
      <4>1. HasPinned /\ HasPatched /\ pc # "tracesOpen"
        BY <1>8, <3>1 DEF WriteDataset, HasPinned, HasPatched
      <4> QED
        BY <3>1, <4>1 DEF RefreshInv, RunInv
    <3> QED
      BY <1>8, <3>1 DEF WriteDataset, SameSnapshot, Agree
  <2> QED
    BY <1>t, <2>1, <2>2, <2>3, <2>4, <2>5 DEF RefreshInv
<1>9. CASE Crash
  BY <1>9, <1>t DEF Crash, RefreshInv, AgeInv, TornInv, NeverBothTorn, ContextInv,
                    RunInv, HasPinned, HasPatched, SameSnapshot, Agree
<1> QED
  BY <1>1, <1>2, <1>3, <1>4, <1>5, <1>6, <1>7, <1>8, <1>9 DEF Next

\* The stages of a run, its copies, the traces files and the dataset stay
\* consistent through crashes, runs over any traces file and evaluations
\* generated in between (refresh_context.py:75-82, 117-181); in particular the
\* patched traces show the snapshot of the dataset.
THEOREM RefreshSafety == Spec => []RefreshInv
<1>1. Init => RefreshInv
  <2> SUFFICES ASSUME Init PROVE RefreshInv
    OBVIOUS
  <2>1. Untraced \in TracedCase
    BY DEF Untraced, TracedCase, Snapshot
  <2>2. TypeOK
    <3>1. evals \in Snapshot /\ using \in Snapshot /\ runs \in 0 .. MaxRuns
      BY DEF Init, Snapshot
    <3>2. dataset \in [Case -> Snapshot] /\ cases \in [Case -> Snapshot]
      BY DEF Init, Snapshot
    <3>3. /\ [c \in Case |-> Untraced] \in [Case -> TracedCase]
          /\ traced \in [Case -> TracedCase]
      BY <2>1 DEF Init
    <3>4. traces \in [File -> [Case -> TracedCase]]
      BY <3>3, Zenon DEF Init
    <3>5. tracesOk \in [File -> BOOLEAN] /\ settled \in Snapshot
      BY DEF Init, Snapshot
    <3> QED
      BY <3>1, <3>2, <3>3, <3>4, <3>5, Zenon DEF Init, TypeOK, PC
  <2>3. AgeInv /\ ContextInv
    BY DEF Init, AgeInv, ContextInv, Untraced
  <2>4. TornInv /\ RunInv /\ SameSnapshot
    BY DEF Init, TornInv, NeverBothTorn, RunInv, HasPinned, HasPatched, SameSnapshot, Agree
  <2> QED
    BY <2>2, <2>3, <2>4 DEF RefreshInv
<1> QED
  BY <1>1, RefreshStep, PTL DEF Spec

\* The traces file that the last run patched shows the very snapshot the dataset
\* pins, however many evaluations came since (refresh_context.py:133-135).
THEOREM PatchedSnapshot == Spec => []SameSnapshot
<1>1. RefreshInv => SameSnapshot
  BY DEF RefreshInv
<1> QED
  BY <1>1, RefreshSafety, PTL

\* A crash between open and dump costs at most one of the two files, and a
\* patched traces file still has the contexts of a truncated dataset.
THEOREM OneFileSurvives == Spec => []NeverBothTorn
<1>1. RefreshInv => NeverBothTorn
  BY DEF RefreshInv, TornInv
<1> QED
  BY <1>1, RefreshSafety, PTL

\* A run replaces a context only by the payload its traces file has for the case,
\* and takes it back to an earlier evaluation only over a file that had a newer
\* one beside it (refresh_context.py:77-78, 149-162).
THEOREM ContextsAdvance == Spec => ContextsOnlyAdvance
<1> DEFINE Advance == \A c \in Case : dataset'[c] # dataset[c] =>
                        /\ dataset'[c] # 0
                        /\ dataset'[c] = traces[using][c].payload
                        /\ newest => dataset'[c] > dataset[c]
<1>1. RefreshInv /\ [Next]_vars => [Advance]_vars
  <2> SUFFICES ASSUME RefreshInv, Next, NEW c \in Case, dataset'[c] # dataset[c]
               PROVE  /\ dataset'[c] # 0
                      /\ dataset'[c] = traces[using][c].payload
                      /\ newest => dataset'[c] > dataset[c]
    OBVIOUS
  <2>1. WriteDataset
    BY DatasetKept
  <2>2. pc = "datasetOpen" /\ dataset'[c] = cases[c]
    BY <2>1 DEF WriteDataset
  <2>3. /\ using \in 1 .. evals /\ evals \in Nat /\ dataset[c] \in Nat
        /\ cases[c] = using /\ newest => dataset[c] <= using
    BY <2>2 DEF RefreshInv, AgeInv, TypeOK, Snapshot
  <2>4. cases[c] = traces[using][c].payload
    <3>1. traced[c].payload # 0
      BY <2>2 DEF RefreshInv, RunInv
    <3> QED
      BY <2>2, <3>1 DEF RefreshInv, RunInv, HasPinned
  <2>5. cases[c] = using
    BY <2>2 DEF RefreshInv, AgeInv
  <2> QED
    BY <2>2, <2>3, <2>4, <2>5
<1> QED
  BY <1>1, RefreshSafety, PTL DEF Spec, ContextsOnlyAdvance

\* Running the script again over a traces file and a dataset that agree changes
\* neither, whichever evaluation, killed run or kept context made them what they
\* are: what a run pins is what the dataset has, and what it patches is what the
\* traces have.
THEOREM RerunSafe == Spec => RerunChangesNothing
<1> DEFINE Unchanged == pc # "idle" /\ Agree(using) => UNCHANGED <<traces[using], dataset>>
<1>1. RefreshInv /\ [Next]_vars => [Unchanged]_vars
  <2> SUFFICES ASSUME RefreshInv, Next, pc # "idle", Agree(using)
               PROVE  traces[using]' = traces[using] /\ dataset' = dataset
    OBVIOUS
  <2>0. TypeOK
    BY DEF RefreshInv
  <2>u. using \in File /\ traces[using] \in [Case -> TracedCase]
    BY UsingFile DEF RefreshInv
  <2>1. ASSUME pc \in {"tracesOpen", "datasetOpen"}, NEW c \in Case
        PROVE  cases[c] = dataset[c]
    <3>1. CASE traced[c].payload = 0
      BY <2>1, <3>1 DEF RefreshInv, RunInv
    <3>2. CASE traced[c].payload # 0
      <4>1. traces[using][c].there /\ traces[using][c].payload = traced[c].payload
        BY <2>1, <3>2 DEF RefreshInv, RunInv, ContextInv
      <4>2. cases[c] = traced[c].payload
        BY <2>1, <3>2 DEF RefreshInv, RunInv, HasPinned
      <4> QED
        BY <3>2, <4>1, <4>2 DEF Agree
    <3> QED
      BY <3>1, <3>2
  <2>2. CASE WriteDataset
    <3>1. dataset' = cases /\ traces' = traces /\ using' = using
      BY <2>2 DEF WriteDataset, memory
    <3>2. dataset = cases
      BY <2>0, <2>1, <2>2 DEF WriteDataset, TypeOK
    <3> QED
      BY <3>1, <3>2
  <2>3. CASE WriteTraces
    <3>1. /\ traces'[using] = traced /\ using' = using
          /\ dataset' = dataset /\ pc = "tracesOpen"
      BY <2>0, <2>3, <2>u DEF WriteTraces, memory, TypeOK
    <3>2. ASSUME NEW c \in Case PROVE traced[c] = traces[using][c]
      <4>1. /\ traced[c].there = traces[using][c].there
            /\ traced[c].payload = traces[using][c].payload
        BY <3>1 DEF RefreshInv, RunInv
      <4>2. traced[c].context = traces[using][c].context
        <5>1. CASE traces[using][c].there
          BY <2>1, <3>1, <4>1, <5>1 DEF Agree, RefreshInv, RunInv, HasPatched
        <5>2. CASE ~traces[using][c].there
          BY <2>u, <3>1, <4>1, <5>2 DEF RefreshInv, ContextInv
        <5> QED
          BY <5>1, <5>2
      <4> QED
        <5>1. traced[c] \in TracedCase /\ traces[using][c] \in TracedCase
          BY <2>0, <2>u DEF TypeOK
        <5> QED
          BY <4>1, <4>2, <5>1 DEF TracedCase
    <3> QED
      BY <2>0, <2>u, <3>1, <3>2 DEF TypeOK
  <2>4. CASE Generate
    <3>1. using \in 1 .. evals /\ evals \in Nat
      BY <2>0 DEF RefreshInv, AgeInv, TypeOK, Snapshot
    <3> QED
      BY <2>0, <2>4, <2>u, <3>1, GeneratedFile DEF Generate, memory
  <2>5. CASE ~WriteDataset /\ ~WriteTraces /\ ~Generate
    BY <2>5 DEF Next, Load, Pin, OpenTraces, OpenDataset, Crash, files, memory
  <2> QED
    BY <2>2, <2>3, <2>4, <2>5
<1> QED
  BY <1>1, RefreshSafety, PTL DEF Spec, RerunChangesNothing
=============================================================================
