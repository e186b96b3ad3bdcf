---------------------------- MODULE ReviewCommand ----------------------------
(* The commands that review (cli/_commands.py, cli/_shared.py): git, file, patch,
   string, and guardrails check.  Each configures a differ, has the review of
   NativeReview made, with the guardrail policies that apply (analysis/
   guardrails.py), renders it, writes the reports asked for, and exits by what the
   guardrails found.  Reviews that no command asked for, from the entries "bytes",
   "tree" and "live" of NativeReview, have the command "none".

   Policies are files: the one the command names, or those found above the places
   of the two sides of a file.  Here the last file may have moved, and only it can
   change something that is protected; the policies stay as they are while the
   command runs, the core reads the same rules in them each time, and an analyzer
   does not remove what the guardrails found. *)
EXTENDS NativeReview

VARIABLES
  command,    \* "git", "file", "patch", "string", "check" or "none"
  policy,     \* the policy named, and those of the old and the new place of the last file
  protected,  \* the last file changes what those with rules protect as immutable
  stage,      \* "start", "review", "show", "report", "record", "verdict", "over"
  ask,        \* what the arguments ask for, once they matter
  violations, \* files with an immutable violation in their review
  shown,      \* files in the document the user gets, or on his screen
  written,    \* reports that are written
  exit        \* "running", or the exit status: "success" 0, "error" 1, "refused" 2

commandVars == <<command, policy, protected>>
cliVars == <<commandVars, stage, ask, violations, shown, written, exit>>
allVars == <<vars, cliVars>>

FirstOf(files) == CHOOSE f \in files : \A g \in files : f <= g

\* The file that is under review, and the one that may have moved.
Current == FirstOf(todo)
Last == IF entry = "file" THEN 0 ELSE Files - 1

Reports == {"annotations", "json", "sarif"}
Unasked == [form |-> "unread", reports |-> {}, record |-> FALSE, strict |-> FALSE]

-------------------------------------------------------------------------------
(* Policies *)

\* _find_policy_path: the nearest policy above a place, if there is one.  It has
\* rules, or cannot be read or parsed.
Found == {"none", "rules", "broken"}

\* A named policy may also have no rules.
Policies ==
  [named : {"none"}, old : Found, new : Found]
  \cup [named : {"missing", "broken", "empty", "rules"}, old : {"none"}, new : {"none"}]

\* Only the policy of the new place is looked for: what moves away is released.
BadRelevant(f) ==
  IF policy.named # "none" THEN {policy.named}
  ELSE IF f = Last THEN {policy.new} ELSE {}

\* _load_relevant_guardrail_policies
Relevant(f) ==
  IF policy.named # "none" THEN {policy.named}
  ELSE IF f = Last THEN {policy.old, policy.new} ELSE {}

\* load_guardrail_policy raises.
Unusable(f) == Relevant(f) \cap {"missing", "broken"} # {}

\* guardrails_may_apply: the file is kept off the short routes.
MayApply(f) == "rules" \in Relevant(f)

-------------------------------------------------------------------------------
(* Commands *)

SideBySide == entry = "file" /\ command = "file"

\* The sides of a patch or of two strings are at one place.
OnePlace(name) == entry = "file" /\ command = name /\ policy.old = policy.new

Patch == OnePlace("patch")
Strings == OnePlace("string")

\* One file at a ref, staged or in the working tree; or all that changed.
Git == entry \in {"file", "commit"} /\ command = "git"

GuardrailsCheck == entry = "commit" /\ command = "check"

NoCommand ==
  /\ entry \in {"bytes", "tree", "live"} /\ command = "none"
  /\ policy = [named |-> "none", old |-> "none", new |-> "none"]

CommandInit ==
  /\ Init
  /\ command \in {"git", "file", "patch", "string", "check", "none"}
  /\ policy \in Policies
  /\ SideBySide \/ Patch \/ Strings \/ Git \/ GuardrailsCheck \/ NoCommand
  /\ protected \in BOOLEAN
  /\ stage = IF command = "check" THEN "start" ELSE "review"
  /\ ask = Unasked
  /\ violations = {} /\ shown = {} /\ written = {}
  /\ exit = "running"

Exit(status) == stage' = "over" /\ exit' = status

\* An exception, or a message and sys.exit(1).
Abort == Exit("error") /\ UNCHANGED <<vars, commandVars, ask, violations, shown, written>>

\* guardrails check reads a named policy before anything else.
CheckPolicy ==
  /\ stage = "start"
  /\ IF policy.named \in {"missing", "broken", "empty"} THEN Exit("refused")
     ELSE stage' = "review" /\ UNCHANGED exit
  /\ UNCHANGED <<vars, commandVars, ask, violations, shown, written>>

\* guardrails_may_apply holds a file off the batches; a policy it cannot load
\* fails the review; and any other route ends in apply_guardrails_to_diff.
Policed ==
  /\ pc = "batch" => \A f \in Pair : review'[f] = "native" => ~MayApply(f) /\ ~Unusable(f)
  /\ pc = "schema" /\ Unusable(Current) => pc' = "raised"
  /\ pc = "schema" /\ MayApply(Current) => pc' # "ask_certified"
  /\ pc = "dress" /\ MayApply(Current) => pc' = "guard"

Review ==
  /\ stage = "review"
  /\ Next /\ Policed
  /\ violations' = IF /\ pc = "guard" /\ pc' = "content"
                      /\ MayApply(Current) /\ protected /\ Current = Last
                   THEN violations \cup {Current} ELSE violations
  /\ UNCHANGED <<commandVars, stage, ask, shown, written, exit>>

ReviewFails == stage = "review" /\ pc = "raised" /\ command # "none" /\ Abort

\* The review is there, or nothing changed.  What is asked for matters from here:
\* the changes one by one (--stream), the files one after the other on a terminal,
\* or one document; reports; an entry in the diagnostics database.
Reviewed ==
  /\ stage = "review" /\ command # "none"
  /\ pc = "published" \/ (pc = "begin" /\ entry = "commit")
  /\ stage' = IF command = "check" THEN "report" ELSE "show"
  /\ \E form \in {"terminal", "document"}, reports \in SUBSET Reports, record, strict \in BOOLEAN :
       /\ command = "check" => ~record /\ form = "document"
       /\ ask' = [form |-> form, reports |-> reports, record |-> record, strict |-> strict]
  /\ UNCHANGED <<vars, commandVars, violations, shown, written, exit>>

ReviewedFiles == {f \in Pair : review[f] # "none"}

\* _render_terminal, of the next file, or the stream of its changes.
ShowFile ==
  /\ stage = "show" /\ ask.form = "terminal" /\ shown # ReviewedFiles
  /\ shown' = shown \cup {FirstOf(ReviewedFiles \ shown)}
  /\ UNCHANGED <<vars, commandVars, stage, ask, violations, written, exit>>

ShownAll ==
  /\ stage = "show" /\ ask.form = "terminal" /\ shown = ReviewedFiles
  /\ stage' = "report"
  /\ UNCHANGED <<vars, commandVars, ask, violations, shown, written, exit>>

\* _render_many_with_profile: every file is rendered, then one document written.
WriteDocument ==
  /\ stage = "show" /\ ask.form = "document"
  /\ shown' = ReviewedFiles
  /\ stage' = "report"
  /\ UNCHANGED <<vars, commandVars, ask, violations, written, exit>>

\* No renderer has the format, the renderer fails, or the file is not writable.
ShowFails == stage = "show" /\ Abort

\* _emit_guardrail_reports, in this order; guardrails check prints its own.
WriteReport(r) ==
  /\ stage = "report" /\ r \in ask.reports \ written
  /\ r = "json" => "annotations" \notin ask.reports \ written
  /\ r = "sarif" => ask.reports \ written = {"sarif"}
  /\ written' = written \cup {r}
  /\ UNCHANGED <<vars, commandVars, stage, ask, violations, shown, exit>>

ReportFails == stage = "report" /\ ask.reports \ written # {} /\ Abort

Reported ==
  /\ stage = "report" /\ ask.reports = written
  /\ stage' = IF ask.record THEN "record" ELSE "verdict"
  /\ UNCHANGED <<vars, commandVars, ask, violations, shown, written, exit>>

\* _record_diagnostics_db
Record ==
  /\ stage = "record"
  /\ stage' = "verdict"
  /\ UNCHANGED <<vars, commandVars, ask, violations, shown, written, exit>>

RecordFails == stage = "record" /\ Abort

\* _exit_if_guardrail_result_fails
ExitByGuardrails ==
  /\ stage = "verdict"
  /\ Exit(IF ask.strict /\ violations # {} THEN "refused" ELSE "success")
  /\ UNCHANGED <<vars, commandVars, ask, violations, shown, written>>

CommandNext ==
  \/ CheckPolicy \/ Review \/ ReviewFails \/ Reviewed
  \/ ShowFile \/ ShownAll \/ WriteDocument \/ ShowFails
  \/ \E r \in Reports : WriteReport(r)
  \/ ReportFails \/ Reported \/ Record \/ RecordFails \/ ExitByGuardrails

CommandSpec == CommandInit /\ [][CommandNext]_allVars

-------------------------------------------------------------------------------
(* Properties *)

\* Every file of the review is in what the user gets, and every report he asked for.
NothingIsLeftOut ==
  (command # "check" => shown = ReviewedFiles)
  /\ written = ask.reports

\* No policy that protects what changed was passed over: neither that of the old
\* place of a file that moved, nor by a route that is short.
ProtectionHolds ==
  (ReviewedFiles # {} => policy.old # "broken" /\ policy.new # "broken")
  /\ (command = "check" \/ ReviewedFiles # {} => policy.named \notin {"missing", "broken"})
  /\ (ask.strict /\ protected /\ Last \in ReviewedFiles =>
        "rules" \notin {policy.named, policy.old, policy.new})

\* A status of zero is the truth about the whole command (cli/_commands.py:447, "A
\* gate must verify it can do its job before reporting that it did"): nothing was
\* left out, and no strict guardrail let a protected change pass.
SuccessIsTrue == exit = "success" => NothingIsLeftOut /\ ProtectionHolds

===============================================================================
