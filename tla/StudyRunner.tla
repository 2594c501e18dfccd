----------------------------- MODULE StudyRunner -----------------------------
(***************************************************************************)
(* Repeated invocations of run_study (study/runner.py) over one output     *)
(* directory: which runs are taken over from the disk, how the others are  *)
(* executed serially or by worker processes, with retries, and how their   *)
(* outcomes and the study's own artifacts are written, file after file.    *)
(*                                                                         *)
(* An invocation may crash between any two steps, also in the middle of a  *)
(* file. A run is a black box that fails or succeeds; its metrics are      *)
(* determined by its plan (runs are seeded), so a record is its plan.      *)
(***************************************************************************)
EXTENDS Integers, Sequences, FiniteSets, SequencesExt

CONSTANTS
  Configs,     \* values of the configuration hash, which includes the git revision
  PlansOf,     \* [Configs -> Seq(plan)]: build_run_plan; a plan is the number of its
               \* record in the order of _record_sort_key, unique over all configs
  MaxRetries,  \* execution.max_retries
  WarmupRuns,  \* execution.warmup_runs
  Workers,     \* the values of --workers in use
  MaxInvocations,  \* bound on the number of invocations
  None         \* no configuration yet

ASSUME StudyAssumption ==
  /\ PlansOf \in [Configs -> Seq(Nat)]
  /\ \A c \in Configs : PlansOf[c] # <<>> /\ IsInjective(PlansOf[c])
  /\ \A c, d \in Configs : c # d => ToSet(PlansOf[c]) \cap ToSet(PlansOf[d]) = {}
  /\ MaxRetries \in Nat /\ WarmupRuns \in Nat
  /\ Workers \subseteq Nat \ {0}
  /\ MaxInvocations \in Nat
  /\ None \notin Configs

Plans == UNION {ToSet(PlansOf[c]) : c \in Configs}

\* Files of a run directory, and of the study itself in the order they are written.
\* environment.json and scenario-hashes.json belong to "manifest", summary.csv to
\* "summary".
Attempt(p, k) == <<"attempt", p, k>>  \* attempts/0k.json; k = 0 is warmup.json
Result(p)     == <<"result", p>>
Manifest(p)   == <<"manifest", p>>
StudyFiles == <<<<"manifest">>, <<"runs">>, <<"summary">>>>

Files ==
  {Attempt(p, k) : p \in Plans, k \in 0 .. MaxRetries + 1}
  \cup {Result(p) : p \in Plans} \cup {Manifest(p) : p \in Plans} \cup ToSet(StudyFiles)

\* What a file may hold besides its own contents.
Absent == <<>>
Torn   == <<"torn">>

VARIABLES
  disk,       \* [Files -> contents]
  invocations,  \* how many there were
  pc,         \* "idle" between invocations, "runs" or "study" for what is being written
  config,     \* configuration of the last invocation
  resume,     \* execution.resume
  workers,    \* worker processes, 0 for the serial loop
  todo,       \* plans this invocation has to run, which it does in the order of PlansOf
  outcome,    \* [executed plans -> outcome]
  persisted,  \* executed plans the writing loop has taken
  completed,  \* records of the study so far
  failure,    \* first_failure is set
  script,     \* file writes under way
  ended       \* how the last invocation ended

runVars == <<invocations, config, resume, workers, todo>>
vars == <<disk, pc, runVars, outcome, persisted, completed, failure, script, ended>>

-----------------------------------------------------------------------------
(* Outcomes and what is written for them.                                  *)

\* A deliberate mistake: one retry too many.
OutcomesOneMore ==
  [warm : {TRUE}, errors : 0 .. MaxRetries + 2]
  \cup (IF WarmupRuns > 0 THEN [warm : {FALSE}, errors : {0}] ELSE {})

\* A run whose warm-up failed was not attempted; one with more errors than retries
\* has no metrics.
Outcomes ==
  [warm : {TRUE}, errors : 0 .. MaxRetries + 1]
  \cup (IF WarmupRuns > 0 THEN [warm : {FALSE}, errors : {0}] ELSE {})

Succeeded(o) == o.warm /\ o.errors <= MaxRetries

Write(f, contents) == [file |-> f, contents |-> contents]

\* A deliberate mistake: the manifest of the run is written before all else.
ManifestFirst(p, o) ==
  <<Write(Manifest(p), IF Succeeded(o) THEN <<"complete", o.errors + 1>> ELSE <<"failed", o.errors>>)>>
  \o [k \in 1 .. o.errors |-> Write(Attempt(p, k), <<"error">>)]
  \o (IF Succeeded(o) THEN <<Write(Result(p), <<"record", p>>)>> ELSE <<>>)

\* The files _persist_study_outcomes writes for one outcome, in order.
OutcomeWrites(p, o) ==
  (IF o.warm THEN <<>> ELSE <<Write(Attempt(p, 0), <<"error">>)>>)
  \o [k \in 1 .. o.errors |-> Write(Attempt(p, k), <<"error">>)]
  \o IF Succeeded(o)
     THEN <<Write(Result(p), <<"record", p>>), Write(Manifest(p), <<"complete", o.errors + 1>>)>>
     ELSE <<Write(Manifest(p), <<"failed", o.errors>>)>>

\* The study's artifacts for a list of records.
StudyContents(c, records) ==
  <<<<c, Len(records)>>, <<"runs", records>>, <<"summary", records>>>>

StudyWrites(c, records) ==
  [i \in DOMAIN StudyFiles |-> Write(StudyFiles[i], StudyContents(c, records)[i])]

\* A deliberate mistake: the manifest alone decides.
LoadableByManifest(p) == disk[Manifest(p)] # Absent /\ disk[Manifest(p)][1] = "complete"

\* A deliberate mistake: a run that needed a retry does not count.
LoadableAtFirst(p) == disk[Result(p)] = <<"record", p>> /\ disk[Manifest(p)] = <<"complete", 1>>

\* _load_completed_run: both files parse and the manifest says complete.
Loadable(p) ==
  /\ disk[Result(p)] = <<"record", p>>
  /\ disk[Manifest(p)] # Absent /\ disk[Manifest(p)][1] = "complete"

\* The elements of S in the order that relation R gives them.
Ranked(S, R) ==
  [n \in 1 .. Cardinality(S) |->
     CHOOSE x \in S : Cardinality({y \in S : <<y, x>> \in R}) = n - 1]

\* Pairs of plans in the order of build_run_plan.
PlanOrder(c) ==
  {r \in ToSet(PlansOf[c]) \X ToSet(PlansOf[c]) :
     \E i, k \in DOMAIN PlansOf[c] : i < k /\ PlansOf[c][i] = r[1] /\ PlansOf[c][k] = r[2]}

\* A deliberate mistake: the records stay in the order the workers finished.
SortedAsFinished(records) == records

\* sorted() is stable.
SortOrder(records) ==
  {r \in (DOMAIN records) \X (DOMAIN records) :
     \/ records[r[1]] < records[r[2]]
     \/ records[r[1]] = records[r[2]] /\ r[1] < r[2]}

Sorted(records) ==
  LET order == Ranked(DOMAIN records, SortOrder(records))
  IN  [n \in DOMAIN records |-> records[order[n]]]

-----------------------------------------------------------------------------
Init ==
  /\ disk = [f \in Files |-> Absent]
  /\ pc = "idle"
  /\ invocations = 0
  /\ config = None /\ resume = TRUE /\ workers = 0
  /\ todo = {}
  /\ outcome = <<>>
  /\ persisted = {}
  /\ completed = <<>>
  /\ failure = FALSE
  /\ script = <<>>
  /\ ended = "never"

\* An invocation starts: it takes over the runs the disk holds if it may resume.
Begin(c, w, r) ==
  LET cached == {p \in ToSet(PlansOf[c]) : r /\ Loadable(p)}
      rest   == ToSet(PlansOf[c]) \ cached
      size   == Cardinality(rest)
  IN
  /\ pc = "idle" /\ invocations < MaxInvocations
  /\ pc' = "runs"
  /\ invocations' = invocations + 1
  /\ config' = c /\ resume' = r
  /\ todo' = rest
  /\ workers' = IF w = 1 \/ size <= 1 THEN 0 ELSE IF w < size THEN w ELSE size
  /\ completed' = Ranked(cached, PlanOrder(c))
  /\ outcome' = <<>>
  /\ persisted' = {}
  /\ failure' = FALSE
  /\ UNCHANGED <<disk, script, ended>>

Executed == DOMAIN outcome
Waiting == todo \ Executed

\* The plans of todo that come before p and are still being executed.
Ahead(p) == {q \in Waiting : <<q, p>> \in PlanOrder(config)}

Record(p, o) == outcome' = [q \in Executed \cup {p} |-> IF q = p THEN o ELSE outcome[q]]

\* run_study is left, and what it had in memory is lost.
End(how) ==
  /\ pc' = "idle"
  /\ ended' = how
  /\ resume' = TRUE /\ workers' = 0
  /\ todo' = {} /\ outcome' = <<>> /\ persisted' = {} /\ completed' = <<>>
  /\ failure' = FALSE /\ script' = <<>>
  /\ UNCHANGED <<invocations, config>>

\* The serial loop runs the next plan when the last outcome is on disk. A failing
\* warm-up is not caught and ends the invocation.
ExecuteSerially(p) ==
  /\ pc = "runs" /\ workers = 0 /\ script = <<>> /\ ~failure
  /\ p \in Waiting /\ Ahead(p) = {} /\ Executed \subseteq persisted
  /\ \/ /\ \E o \in {o \in Outcomes : o.warm} : Record(p, o)
        /\ UNCHANGED <<pc, runVars, persisted, completed, failure, script, ended>>
     \/ WarmupRuns > 0 /\ End("failed")
  /\ UNCHANGED disk

\* A worker process finishes a plan; the pool hands plans out in order.
ExecuteInPool(p) ==
  /\ pc = "runs" /\ workers > 0
  /\ p \in Waiting /\ Cardinality(Ahead(p)) < workers
  /\ \E o \in Outcomes : Record(p, o)
  /\ UNCHANGED <<disk, pc, runVars, persisted, completed, failure, script, ended>>

\* A deliberate mistake: the first failure ends the parallel loop as it ends the serial one.
PersistUntilFailure(p) ==
  /\ pc = "runs" /\ script = <<>> /\ ~failure
  /\ p \in Executed \ persisted
  /\ script' = OutcomeWrites(p, outcome[p])
  /\ persisted' = IF Succeeded(outcome[p]) THEN persisted \cup {p} ELSE todo
  /\ completed' = IF Succeeded(outcome[p]) THEN Append(completed, p) ELSE completed
  /\ failure' = ~Succeeded(outcome[p])
  /\ UNCHANGED <<disk, pc, runVars, outcome, ended>>

\* A deliberate mistake: a failed outcome is not counted as taken.
PersistSuccess(p) ==
  /\ pc = "runs" /\ script = <<>> /\ ~(failure /\ workers = 0)
  /\ p \in Executed \ persisted /\ Succeeded(outcome[p])
  /\ script' = OutcomeWrites(p, outcome[p])
  /\ persisted' = persisted \cup {p}
  /\ completed' = Append(completed, p)
  /\ UNCHANGED <<disk, pc, runVars, outcome, failure, ended>>

\* The loop of _persist_study_outcomes takes a finished outcome, in any order.
Persist(p) ==
  /\ pc = "runs" /\ script = <<>> /\ ~(failure /\ workers = 0)
  /\ p \in Executed \ persisted
  /\ script' = OutcomeWrites(p, outcome[p])
  /\ persisted' = persisted \cup {p}
  /\ completed' = IF Succeeded(outcome[p]) THEN Append(completed, p) ELSE completed
  /\ failure' = (failure \/ ~Succeeded(outcome[p]))
  /\ UNCHANGED <<disk, pc, runVars, outcome, ended>>

\* _write_json: one whole file.
WriteFile ==
  /\ script # <<>>
  /\ disk' = [disk EXCEPT ![Head(script).file] = Head(script).contents]
  /\ script' = Tail(script)
  /\ UNCHANGED <<pc, runVars, outcome, persisted, completed, failure, ended>>

\* The exception of a failed run leaves run_study: at once in the serial loop, when all
\* outcomes are on disk in the parallel one.
Raise ==
  /\ pc = "runs" /\ script = <<>> /\ failure
  /\ workers = 0 \/ todo \subseteq persisted
  /\ End("failed")
  /\ UNCHANGED disk

\* All runs are complete: the study's artifacts are next.
BeginStudy ==
  /\ pc = "runs" /\ script = <<>> /\ ~failure
  /\ todo \subseteq persisted
  /\ completed' = Sorted(completed)
  /\ script' = StudyWrites(config, Sorted(completed))
  /\ pc' = "study"
  /\ UNCHANGED <<disk, runVars, outcome, persisted, failure, ended>>

Return ==
  /\ pc = "study" /\ script = <<>>
  /\ End("returned")
  /\ UNCHANGED disk

\* A worker process dies: the pool breaks, and the loop meets a future without result.
BreakPool ==
  /\ pc = "runs" /\ workers > 0 /\ script = <<>>
  /\ Waiting # {}
  /\ End("broken")
  /\ UNCHANGED disk

\* What a crash may make of the file being written: nothing reads an attempt file, so
\* only its existence counts.
Remains(w) == IF w.file[1] = "attempt" THEN w.contents ELSE Torn

\* The process dies, perhaps in the middle of a file.
Crash ==
  /\ pc # "idle"
  /\ disk' \in {disk} \cup
       (IF script = <<>> THEN {} ELSE {[disk EXCEPT ![Head(script).file] = Remains(Head(script))]})
  /\ End("crashed")

Progress ==
  \/ \E p \in Plans : ExecuteSerially(p) \/ ExecuteInPool(p) \/ Persist(p)
  \/ WriteFile \/ Raise \/ BeginStudy \/ Return

Next ==
  \/ \E c \in Configs, w \in Workers, r \in BOOLEAN : Begin(c, w, r)
  \/ Progress
  \/ BreakPool
  \/ Crash

\* An invocation keeps working: every run returns or raises, and every write ends.
Spec == Init /\ [][Next]_vars /\ WF_vars(Progress)

-----------------------------------------------------------------------------
\* Every variable has its type.
TypeOK ==
  /\ DOMAIN disk = Files
  /\ \A p \in Plans :
       /\ disk[Result(p)] \in {Absent, Torn, <<"record", p>>}
       /\ disk[Manifest(p)] \in {Absent, Torn} \cup ({"complete"} \X (1 .. MaxRetries + 1))
                                              \cup ({"failed"} \X (0 .. MaxRetries + 1))
  /\ invocations \in 0 .. MaxInvocations
  /\ pc \in {"idle", "runs", "study"}
  /\ config \in Configs \cup {None} /\ resume \in BOOLEAN
  /\ workers \in 0 .. Cardinality(todo)
  /\ todo \subseteq Plans /\ completed \in Seq(Plans)
  /\ Executed \subseteq Plans /\ persisted \subseteq Executed
  /\ \A p \in Executed :
       outcome[p] \in [warm : BOOLEAN, errors : 0 .. MaxRetries + 1]
  /\ failure \in BOOLEAN
  /\ ended \in {"never", "returned", "failed", "broken", "crashed"}

\* Both files of the run are whole, and its last recorded outcome is a success.
OnDisk(p) ==
  /\ disk[Result(p)] = <<"record", p>>
  /\ \E n \in 1 .. MaxRetries + 1 : disk[Manifest(p)] = <<"complete", n>>

\* When run_study has returned, the study's artifacts list every run of its
\* configuration once, in an order that does not depend on workers, retries or
\* resumes, and each of the runs is whole on disk: earlier crashes have left no trace.
BundleConsistent ==
  pc = "idle" /\ ended = "returned" =>
    /\ \A p \in ToSet(PlansOf[config]) : OnDisk(p)
    /\ \E all \in [DOMAIN PlansOf[config] -> ToSet(PlansOf[config])] :
         /\ \A i, k \in DOMAIN all : i < k => all[i] < all[k]
         /\ \A i \in DOMAIN StudyFiles : disk[StudyFiles[i]] = StudyContents(config, all)[i]

\* A manifest never claims failed attempts whose error files are missing, whenever
\* the process died (docs/canonical-study-performance.md: retry counts).
AttemptsOnRecord ==
  \A p \in Plans :
    /\ \A n \in 1 .. MaxRetries + 1 :
         /\ disk[Manifest(p)] = <<"complete", n>> =>
              \A k \in 1 .. n - 1 : disk[Attempt(p, k)] # Absent
         /\ disk[Manifest(p)] = <<"failed", n>> =>
              \A k \in 1 .. n : disk[Attempt(p, k)] # Absent
    /\ disk[Manifest(p)] = <<"failed", 0>> => disk[Attempt(p, 0)] # Absent

\* A resuming invocation leaves the runs alone that are whole on disk when it begins:
\* it does not run them again, and neither its failure nor its crash damages them.
ResumeTrustsDisk ==
  [][/\ pc = "idle" /\ pc' = "runs" /\ resume' => \A p \in todo' : ~OnDisk(p)
     /\ \A p \in Plans : OnDisk(p) /\ p \notin todo => OnDisk(p)']_vars

\* When a failed run ends the invocation, every run that had succeeded is on disk for
\* the next one (tests/test_study_runner.py:222-245).
NoSuccessLost ==
  [][pc = "runs" /\ pc' = "idle" /\ ended' = "failed" =>
       \A p \in Executed : Succeeded(outcome[p]) => OnDisk(p)]_vars

\* Every invocation ends: the loop never waits for an outcome that does not come.
InvocationEnds == pc # "idle" ~> pc = "idle"
=============================================================================
