------------------------------- MODULE LspServer -------------------------------
(***************************************************************************)
(* intentumdiff.lsp_server: the language server an editor talks to.  The   *)
(* document handlers, the diff task of each text (_compute_and_push), its  *)
(* job in the thread pool, the two caches, and what the editor has been    *)
(* given: diagnostics and code lenses.  An action is a stretch of code the *)
(* event loop runs without a break.                                        *)
(*                                                                         *)
(* A text (of a didOpen or a didChange) is named by its arrival number; it *)
(* is also the name of its diff task.  The library (pygls) is external: it *)
(* runs a plain handler when the message arrives and an async handler as a *)
(* task, in the order of arrival, so that a didClose can overtake a change.*)
(* intentumdiff/semanticDiff keeps no state and is left out.               *)
(***************************************************************************)
EXTENDS Naturals, Sequences

CONSTANTS Docs,      \* documents (their URIs)
          MaxTexts,  \* bound: texts sent by the editor
          MaxLenses, \* bound: code lens requests
          Faults     \* may publishing diagnostics, or asking for a refresh, raise?

ASSUME LspServerAssumption ==
  MaxTexts \in Nat /\ MaxLenses \in Nat /\ Faults \in BOOLEAN

Texts == 1..MaxTexts
Nothing == 0                 \* no task, an empty cache, no lenses
Failed == MaxTexts + 1       \* the diagnostic that says the review failed

\* Where a text stands.  arrived: its handler is a task that has not run.
\* sleeping: in the debounce.  computing: its job is in the thread pool.
\* computed, uncomputed: the job is over (uncomputed: _do_diff caught an
\* error), and its task about to go on.  At rest: cancelled, published, failed.
Active == {"sleeping", "computing", "computed", "uncomputed"}
Phases == {"none", "arrived", "cancelled", "published", "failed"} \cup Active

VARIABLES
  open,        \* documents open in the editor
  texts,       \* the document of each text, in arrival order
  handled,     \* how many of their handlers have run
  phase,       \* Texts -> Phases
  task,        \* state.pending_tasks: document -> task
  diffCache,   \* state.diff_cache: document -> the text of the diff
  sourceCache, \* state.source_cache
  canRefresh,  \* state.supports_codelens_refresh
  shown,       \* the diagnostics the editor was last sent, per document
  lenses,      \* the lenses the editor was last given, per document
  refreshing,  \* documents whose lenses the editor has been told to ask again
  asked,       \* code lens requests so far (for the bound)
  untold,      \* history: documents changed since, with nothing told to the editor
  withdrawn,   \* history: texts unsettled when their document was closed
  closeMark    \* history: handlers run when a document was last closed

vars == <<open, texts, handled, phase, task, diffCache, sourceCache, canRefresh,
          shown, lenses, refreshing, asked, untold, withdrawn, closeMark>>

editorVars == <<open, texts, asked, lenses>>
results == <<diffCache, sourceCache, shown, refreshing, untold>>

DocOf(t) == texts[t]
Scheduled == 1..handled
Unsettled == {t \in Scheduled : phase[t] \in Active}

\* (Operators named Bad... are mistaken variants of the operator that follows
\* them; README.md names the property each of them breaks.)

\* Cancelling a task has an effect until its last stretch has begun.
CancelTask(t) ==
  [x \in Texts |-> IF x = t /\ phase[x] \in Active THEN "cancelled" ELSE phase[x]]

Init ==
  /\ open = {}
  /\ texts = <<>>
  /\ handled = 0
  /\ phase = [t \in Texts |-> "none"]
  /\ task = [d \in Docs |-> Nothing]
  /\ diffCache = [d \in Docs |-> Nothing]
  /\ sourceCache = [d \in Docs |-> Nothing]
  /\ canRefresh \in BOOLEAN
  /\ shown = [d \in Docs |-> Nothing]
  /\ lenses = [d \in Docs |-> Nothing]
  /\ refreshing = {}
  /\ asked = 0
  /\ untold = {}
  /\ withdrawn = {}
  /\ closeMark = [d \in Docs |-> 0]

-------------------------------------------------------------------------------
(* Results *)

\* workspace/codeLens/refresh after a change of d's diff, if the editor supports
\* it.  It makes the editor ask for every document again.  An error of the
\* request is caught where it is made, and nothing tries it again.
Refresh(d) ==
  \/ /\ canRefresh
     /\ refreshing' = Docs
     /\ untold' = {}
  \/ /\ ~canRefresh \/ Faults
     /\ refreshing' = refreshing
     /\ untold' = untold \cup {d}

\* An invalidation that says so and keeps the caches.
BadInvalidate(d) ==
  /\ UNCHANGED <<diffCache, sourceCache>>
  /\ shown' = [shown EXCEPT ![d] = Failed]
  /\ Refresh(d)

\* An invalidation that does not tell the editor to ask for lenses again.
BadInvalidateQuietly(d) ==
  /\ diffCache' = [diffCache EXCEPT ![d] = Nothing]
  /\ sourceCache' = [sourceCache EXCEPT ![d] = Nothing]
  /\ shown' = [shown EXCEPT ![d] = Failed]
  /\ UNCHANGED <<refreshing, untold>>

\* _invalidate_failed_review: the caches first, then the diagnostic, and the
\* refresh if that did not raise.
Invalidate(d) ==
  /\ diffCache' = [diffCache EXCEPT ![d] = Nothing]
  /\ sourceCache' = [sourceCache EXCEPT ![d] = Nothing]
  /\ \/ /\ shown' = [shown EXCEPT ![d] = Failed]
        /\ Refresh(d)
     \/ /\ Faults
        /\ untold' = untold \cup {d}
        /\ UNCHANGED <<shown, refreshing>>

-------------------------------------------------------------------------------
(* Messages of the editor *)

\* textDocument/didOpen (of a document not open) and didChange (of an open
\* one): pygls makes a task of the handler.
TextArrives(d, opens) ==
  /\ Len(texts) < MaxTexts
  /\ opens <=> d \notin open
  /\ open' = open \cup {d}
  /\ texts' = Append(texts, d)
  /\ phase' = [phase EXCEPT ![Len(texts) + 1] = "arrived"]
  /\ UNCHANGED <<handled, task, canRefresh, lenses, asked, withdrawn, closeMark, results>>

\* A close that forgets the task and does not cancel it.
BadDidClose(d) ==
  /\ d \in open
  /\ open' = open \ {d}
  /\ diffCache' = [diffCache EXCEPT ![d] = Nothing]
  /\ sourceCache' = [sourceCache EXCEPT ![d] = Nothing]
  /\ task' = [task EXCEPT ![d] = Nothing]
  /\ lenses' = [lenses EXCEPT ![d] = Nothing]
  /\ withdrawn' = withdrawn \cup {t \in Unsettled : DocOf(t) = d}
  /\ closeMark' = [closeMark EXCEPT ![d] = handled]
  /\ UNCHANGED <<texts, handled, phase, canRefresh, shown, refreshing, asked, untold>>

\* textDocument/didClose: handled at once.  The editor drops its lenses; the
\* diagnostics it was sent are not withdrawn.
DidClose(d) ==
  /\ d \in open
  /\ open' = open \ {d}
  /\ diffCache' = [diffCache EXCEPT ![d] = Nothing]
  /\ sourceCache' = [sourceCache EXCEPT ![d] = Nothing]
  /\ task' = [task EXCEPT ![d] = Nothing]
  /\ phase' = CancelTask(task[d])
  /\ lenses' = [lenses EXCEPT ![d] = Nothing]
  /\ withdrawn' = withdrawn \cup {t \in Unsettled : DocOf(t) = d}
  /\ closeMark' = [closeMark EXCEPT ![d] = handled]
  /\ UNCHANGED <<texts, handled, canRefresh, shown, refreshing, asked, untold>>

\* textDocument/codeLens: answered from the caches.  Without a diff there are no
\* lenses; a diff whose sources are missing or that cannot be mapped is
\* invalidated, and the editor given no lenses (or an error).
CodeLens(d) ==
  /\ d \in open
  /\ asked < MaxLenses
  /\ asked' = asked + 1
  /\ \/ /\ diffCache[d] = Nothing \/ sourceCache[d] # Nothing
        /\ lenses' = [lenses EXCEPT ![d] = diffCache[d]]
        /\ refreshing' = refreshing \ {d}
        /\ untold' = untold \ {d}
        /\ UNCHANGED <<diffCache, sourceCache, shown>>
     \/ /\ diffCache[d] # Nothing
        /\ lenses' = [lenses EXCEPT ![d] = Nothing]
        /\ Invalidate(d)
  /\ UNCHANGED <<open, texts, handled, phase, task, canRefresh, withdrawn, closeMark>>

-------------------------------------------------------------------------------
(* The tasks of the event loop and the jobs of the thread pool *)

\* A schedule that cancels what is under way for any document, not this one's.
BadScheduleDiffCancelsAll ==
  LET t == handled + 1 IN
  /\ t \in DOMAIN texts
  /\ handled' = t
  /\ phase' = [x \in Texts |-> IF x = t THEN "sleeping"
                              ELSE IF phase[x] \in Active THEN "cancelled"
                              ELSE phase[x]]
  /\ task' = [task EXCEPT ![DocOf(t)] = t]
  /\ UNCHANGED <<editorVars, canRefresh, withdrawn, closeMark, results>>

\* schedule_diff, the whole of the next handler: the document's earlier task is
\* cancelled and a task for the text is created.  It does not look whether the
\* document is still open.
ScheduleDiff ==
  LET t == handled + 1 IN
  /\ t \in DOMAIN texts
  /\ handled' = t
  /\ phase' = [CancelTask(task[DocOf(t)]) EXCEPT ![t] = "sleeping"]
  /\ task' = [task EXCEPT ![DocOf(t)] = t]
  /\ UNCHANGED <<editorVars, canRefresh, withdrawn, closeMark, results>>

\* _compute_and_push: the debounce is over and the job handed to the pool.
Submit(t) ==
  /\ phase[t] = "sleeping"
  /\ phase' = [phase EXCEPT ![t] = "computing"]
  /\ UNCHANGED <<editorVars, handled, task, canRefresh, withdrawn, closeMark, results>>

\* _do_diff returns a diff with its sources, or None.  (The job of a cancelled
\* task goes on in its thread; nobody sees its result.)
DoDiff(t) ==
  /\ phase[t] = "computing"
  /\ \E end \in {"computed", "uncomputed"} : phase' = [phase EXCEPT ![t] = end]
  /\ UNCHANGED <<editorVars, handled, task, canRefresh, withdrawn, closeMark, results>>

\* A task that returns when its diff is None, and invalidates nothing.
BadPush(t) ==
  LET d == DocOf(t) IN
  /\ phase[t] \in {"computed", "uncomputed"}
  /\ \/ /\ phase[t] = "computed"
        /\ diffCache' = [diffCache EXCEPT ![d] = t]
        /\ sourceCache' = [sourceCache EXCEPT ![d] = t]
        /\ shown' = [shown EXCEPT ![d] = t]
        /\ Refresh(d)
        /\ phase' = [phase EXCEPT ![t] = "published"]
     \/ /\ phase[t] = "uncomputed"
        /\ phase' = [phase EXCEPT ![t] = "failed"]
        /\ UNCHANGED results
  /\ UNCHANGED <<editorVars, handled, task, canRefresh, withdrawn, closeMark>>

\* _compute_and_push, after the job: fill the caches, publish, refresh.  A diff
\* that is None, cannot be mapped to diagnostics or cannot be published
\* invalidates what was there.
Push(t) ==
  LET d == DocOf(t) IN
  /\ phase[t] \in {"computed", "uncomputed"}
  /\ \/ /\ phase[t] = "computed"
        /\ diffCache' = [diffCache EXCEPT ![d] = t]
        /\ sourceCache' = [sourceCache EXCEPT ![d] = t]
        /\ shown' = [shown EXCEPT ![d] = t]
        /\ Refresh(d)
        /\ phase' = [phase EXCEPT ![t] = "published"]
     \/ /\ Invalidate(d)
        /\ phase' = [phase EXCEPT ![t] = "failed"]
  /\ UNCHANGED <<editorVars, handled, task, canRefresh, withdrawn, closeMark>>

Task(t) == Submit(t) \/ DoDiff(t) \/ Push(t)

Next ==
  \/ \E d \in Docs : \/ \E opens \in BOOLEAN : TextArrives(d, opens)
                     \/ DidClose(d) \/ CodeLens(d)
  \/ ScheduleDiff
  \/ \E t \in Texts : Task(t)

Spec == Init /\ [][Next]_vars

\* The event loop runs its tasks and a diff ends; an editor need not do anything.
FairSpec == Spec /\ WF_vars(ScheduleDiff) /\ \A t \in Texts : WF_vars(Task(t))

-------------------------------------------------------------------------------
(* Properties *)

\* Type correctness.
TypeOK ==
  /\ open \subseteq Docs
  /\ texts \in Seq(Docs) /\ Len(texts) <= MaxTexts
  /\ handled \in 0..Len(texts)
  /\ phase \in [Texts -> Phases]
  /\ \A t \in Texts : /\ phase[t] = "none" <=> t > Len(texts)
                      /\ phase[t] = "arrived" <=> t \in (handled + 1)..Len(texts)
  /\ task \in [Docs -> Scheduled \cup {Nothing}]
  /\ diffCache \in [Docs -> Scheduled \cup {Nothing}]
  /\ sourceCache \in [Docs -> Scheduled \cup {Nothing}]
  /\ canRefresh \in BOOLEAN
  /\ shown \in [Docs -> Scheduled \cup {Nothing, Failed}]
  /\ lenses \in [Docs -> Scheduled \cup {Nothing}]
  /\ refreshing \subseteq Docs
  /\ asked \in 0..MaxLenses
  /\ untold \subseteq Docs
  /\ withdrawn \subseteq Scheduled
  /\ closeMark \in [Docs -> 0..handled]

Busy(d) == \E t \in Unsettled : DocOf(t) = d

Newest(d, t) == \A u \in Scheduled : DocOf(u) = d => u <= t

\* When no task of a document is under way, the caches answer for its newest
\* text: they hold the diff of that text, or nothing if it failed.
SettledCacheIsNewest ==
  \A d \in Docs : diffCache[d] # Nothing /\ ~Busy(d) =>
    /\ Newest(d, diffCache[d])
    /\ phase[diffCache[d]] = "published"

\* A failed review leaves nothing of an earlier one to be answered from: lenses
\* are given only for the text whose diagnostics the editor was last sent, with
\* sources of the same text.
CachesAgree ==
  \A d \in Docs : diffCache[d] # Nothing =>
    shown[d] = diffCache[d] /\ sourceCache[d] = diffCache[d]

\* A closed document holds results only if the handler of a change that arrived
\* before the close ran after it.
ClosedHoldsOnlyOvertaken ==
  \A d \in Docs \ open : diffCache[d] # Nothing => diffCache[d] > closeMark[d]

\* The editor's lenses are those of the cache, or it has been told to ask again,
\* or the last attempt to tell it of that document's change failed: an editor
\* that missed one change is made good by the next refresh, of any document.
LensesCatchUp ==
  canRefresh => \A d \in open \ untold :
                  lenses[d] = diffCache[d] \/ d \in refreshing

-------------------------------------------------------------------------------
(* The abstract promise *)

Outcome(t) ==
  CASE phase[t] \in {"none", "arrived"} -> "none"
    [] phase[t] \in Active -> "pending"
    [] phase[t] \in {"published", "failed"} -> "served"
    [] phase[t] = "cancelled" -> "shed"

Promise == INSTANCE Coalescing
             WITH Paths <- Docs,
                  MaxRequests <- MaxTexts,
                  log <- SubSeq(texts, 1, handled),
                  outcome <- [t \in Texts |-> Outcome(t)],
                  excused <- withdrawn

\* The server implements the promise of a debounced service: a text is given up
\* only for a newer one of its document or because that was closed, and every
\* other one is reviewed.
PromiseSpec == Promise!Spec
PromiseSafety == Promise!Safety

===============================================================================
