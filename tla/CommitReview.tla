---------------------------- MODULE CommitReview ----------------------------
(* The review of all the files of a commit, over the pipeline of one file:
   SemanticDiffer.diff_commit (differ.py), one file after the other ("list") or
   in a pool of threads ("pool"); CommitDiffer.diff_commit ("commit") and the
   stream of the live server ("stream"), which go on after a file that fails
   and then index the files of both commits (core/commit_differ.py). *)
EXTENDS ReviewPipeline

CONSTANT Main  \* the thread that reviews when there is no pool

ASSUME CommitReviewAssumption == Main \in Thread

VARIABLES
  entry,    \* which of the four
  phase,    \* "collect", "batch", "run", "index" or "over"
  outcome,  \* "none", "raised", "returned" or "cancelled"
  file,     \* file -> "waiting", "running", "done", "failed", "skipped", "cancelled"
  result,   \* file -> the kind of its review, or "none"
  indexed   \* files in the indexes of the old and the new commit

jobVars == <<entry, phase, outcome, file, result, indexed>>
vars == <<pipeVars, jobVars>>

Init ==
  /\ PipeInit
  /\ entry \in {"list", "pool", "commit", "stream"}
  /\ phase = "collect" /\ outcome = "none"
  /\ file = [f \in File |-> "waiting"]
  /\ result = [f \in File |-> "none"]
  /\ indexed = {}

End(how) == phase' = "over" /\ outcome' = how
Stays == UNCHANGED <<phase, outcome>>
Some(status) == {f \in File : file[f] = status}
Collects == entry \in {"commit", "stream"}

\* iter_changed_sources, or its failure.
Collect ==
  /\ phase = "collect"
  /\ \/ phase' = (IF Collects THEN "run" ELSE "batch") /\ UNCHANGED outcome
     \/ End("raised")
  /\ UNCHANGED <<pipeVars, entry, file, result, indexed>>

\* try_rust_core_batch_diffs on the Python files no guardrail may concern, when
\* the configuration allows it: each is complete or declined; anything but a
\* well-formed answer raises.
Batch ==
  /\ phase = "batch"
  /\ \/ \E served \in SUBSET (IF mode.core THEN Python ELSE {}) :
          /\ file' = [f \in File |-> IF f \in served THEN "done" ELSE file[f]]
          /\ result' = [f \in File |-> IF f \in served THEN "native" ELSE result[f]]
          /\ phase' = "run" /\ UNCHANGED outcome
     \/ mode.core /\ Python # {} /\ End("raised") /\ UNCHANGED <<file, result>>
  /\ UNCHANGED <<pipeVars, entry, indexed>>

\* A thread begins with a file.  The pool has its files from the start, and goes
\* on with them after the job is over.
Start(t, f) ==
  /\ IF entry = "pool" THEN phase \in {"run", "over"} ELSE phase = "run" /\ t = Main
  /\ At(t, "idle")
  /\ file[f] = "waiting"
  /\ th' = [th EXCEPT ![t] = [Idle EXCEPT !.pc = "detect", !.file = f]]
  /\ file' = [file EXCEPT ![f] = "running"]
  /\ UNCHANGED <<mode, disk, plug, cache, rules, faults>>
  /\ UNCHANGED <<entry, phase, outcome, result, indexed>>

\* iter_file_diffs passes over content that is no text.
Skip(f) ==
  /\ entry = "stream" /\ phase = "run"
  /\ At(Main, "idle") /\ file[f] = "waiting"
  /\ file' = [file EXCEPT ![f] = "skipped"]
  /\ UNCHANGED <<pipeVars, entry, phase, outcome, result, indexed>>

\* The review of a file is there.
Deliver(t) ==
  /\ At(t, "done") /\ th[t].goal = "review"
  /\ file' = [file EXCEPT ![th[t].file] = "done"]
  /\ result' = [result EXCEPT ![th[t].file] = th[t].result]
  /\ th' = [th EXCEPT ![t] = Idle]
  /\ UNCHANGED <<mode, disk, plug, cache, rules, faults, entry, phase, outcome, indexed>>

\* It fails: at once in a list, when the future is looked at in a pool, and
\* recorded in a commit, unless the exception is of another kind.
DeliverFailure(t) ==
  /\ At(t, "failed") /\ th[t].goal = "review"
  /\ file' = [file EXCEPT ![th[t].file] = "failed"]
  /\ th' = [th EXCEPT ![t] = Idle]
  /\ IF entry = "list" THEN End("raised")
     ELSE Stays \/ (Collects /\ End("raised"))
  /\ UNCHANGED <<mode, disk, plug, cache, rules, faults, entry, result, indexed>>

\* close(), or the end of the differ's life: what the pool has not begun is
\* cancelled.
Close ==
  /\ entry = "pool" /\ phase \in {"run", "over"} /\ Some("waiting") # {}
  /\ file' = [f \in File |-> IF file[f] = "waiting" THEN "cancelled" ELSE file[f]]
  /\ UNCHANGED <<pipeVars, entry, phase, outcome, result, indexed>>

\* A pool that looks only for failures.
BadPoolRaises ==
  /\ entry = "pool" /\ phase = "run"
  /\ Some("failed") # {}
  /\ End("raised")
  /\ UNCHANGED <<pipeVars, entry, file, result, indexed>>

\* as_completed gives a future that failed or was cancelled.
PoolRaises ==
  /\ entry = "pool" /\ phase = "run"
  /\ Some("failed") \cup Some("cancelled") # {}
  /\ End("raised")
  /\ UNCHANGED <<pipeVars, entry, file, result, indexed>>

\* A newer review cancels the stream between two files.
CancelStream ==
  /\ entry = "stream" /\ phase = "run" /\ At(Main, "idle")
  /\ End("cancelled")
  /\ UNCHANGED <<pipeVars, entry, file, result, indexed>>

\* A gathering that passes over the errors.
BadGather ==
  /\ phase = "run"
  /\ Some("waiting") \cup Some("running") \cup Some("cancelled") = {}
  /\ IF Collects THEN phase' = "index" /\ UNCHANGED outcome ELSE End("returned")
  /\ UNCHANGED <<pipeVars, entry, file, result, indexed>>

\* All files have ended: a list is returned when all are done; a commit with an
\* error is incomplete, and one without is indexed.
Gather ==
  /\ phase = "run"
  /\ Some("waiting") \cup Some("running") \cup Some("cancelled") = {}
  /\ IF Some("failed") # {} THEN End("raised")
     ELSE IF Collects THEN phase' = "index" /\ UNCHANGED outcome
     ELSE End("returned")
  /\ UNCHANGED <<pipeVars, entry, file, result, indexed>>

\* _build_index parses the two sides of each file again, through the cache.
StartIndex(f) ==
  /\ phase = "index" /\ At(Main, "idle")
  /\ file[f] = "done" /\ f \notin indexed
  /\ th' = [th EXCEPT ![Main] = [Idle EXCEPT !.pc = "detect", !.file = f, !.goal = "index"]]
  /\ UNCHANGED <<mode, disk, plug, cache, rules, faults, jobVars>>

AddToIndex ==
  /\ th[Main].goal = "index"
  /\ \/ At(Main, "done") /\ indexed' = indexed \cup {th[Main].file} /\ Stays
     \/ At(Main, "failed") /\ End("raised") /\ UNCHANGED indexed
  /\ th' = [th EXCEPT ![Main] = Idle]
  /\ UNCHANGED <<mode, disk, plug, cache, rules, faults, entry, file, result>>

\* The changes across files; the live server then refuses a review with a file
\* that fell back.
Conclude ==
  /\ phase = "index" /\ At(Main, "idle")
  /\ Some("done") \subseteq indexed
  /\ \/ End("raised")
     \/ /\ entry = "stream" => \A f \in File : result[f] \notin {"source", "token"}
        /\ End("returned")
  /\ UNCHANGED <<pipeVars, entry, file, result, indexed>>

Job ==
  \/ Collect \/ Batch \/ PoolRaises \/ Gather \/ AddToIndex \/ Conclude
  \/ \E f \in File : StartIndex(f)
  \/ \E t \in Thread : Deliver(t) \/ DeliverFailure(t) \/ \E f \in File : Start(t, f)

Next ==
  \/ Job
  \/ \E t \in Thread : Step(t) /\ UNCHANGED jobVars
  \/ World /\ UNCHANGED jobVars
  \/ Close \/ CancelStream \/ \E f \in File : Skip(f)

Spec == Init /\ [][Next]_vars

\* Threads run and calls return; nobody has to replace, edit, close or cancel.
Fairness ==
  /\ WF_vars(Job)
  /\ \A t \in Thread : WF_vars(Step(t) /\ UNCHANGED jobVars)

FairSpec == Spec /\ Fairness

-------------------------------------------------------------------------------
(* Properties *)

\* A review that is returned is of every changed file: a file that fails, whose
\* parser is missing or whose future is cancelled makes the whole fail, in each
\* of the four ways; and a commit's index has every file.
ReviewIsComplete ==
  outcome = "returned" =>
    /\ \A f \in File : file[f] = "done" \/ (entry = "stream" /\ file[f] = "skipped")
    /\ Collects => Some("done") \subseteq indexed

\* The job ends, whatever fails, is cancelled or is replaced.
ReviewEnds == <>(phase = "over")

===============================================================================
