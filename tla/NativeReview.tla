---------------------------- MODULE NativeReview ----------------------------
(* What a review asks of the Rust core, in order, and what it does with each
   answer (rust_core.py and the stages of differ.py that call it).  The core is
   outside: it answers over a C ABI, and an answer is what the protocol says, an
   error, a refusal where the protocol has one, or damaged in some way.  Not every
   damage is noticed: how much of an answer is checked depends on who asked.

   A review begins at one of five entries: one file; a commit, whose Python files
   are offered to the core in one batch; the bytes of a certified commit, of two
   refs or of the working tree; and a commit of the live server. *)
EXTENDS Naturals, FiniteSets, Sequences

CONSTANT Files  \* how many files are changed

ASSUME NativeReviewAssumption == Files \in Nat \ {0}

VARIABLES
  entry,    \* "file", "commit", "bytes", "tree" or "live"
  config,   \* the core is enabled, RUST_ONLY is set, diagnostics are on
  pc,       \* the next thing the review does
  todo,     \* files without a review
  kind,     \* of the review of the first of them: "none", "native", "source", "token"
  review,   \* file -> the kind of its review
  failed,   \* the core has failed, or an answer was not what its reader requires
  damaged   \* something was missing from an answer, or wrong with it

vars == <<entry, config, pc, todo, kind, review, failed, damaged>>

Pair == 0 .. Files - 1
Asked == IF entry = "file" THEN {0} ELSE Pair

Init ==
  /\ entry \in {"file", "commit", "bytes", "tree", "live"}
  /\ config \in [core : BOOLEAN, strict : BOOLEAN, diagnostics : BOOLEAN]
  /\ pc = "begin"
  /\ todo = Asked
  /\ kind = "none"
  /\ review = [f \in Pair |-> "none"]
  /\ failed = FALSE /\ damaged = FALSE

-------------------------------------------------------------------------------
(* Answers *)

Transport == {"no_library", "null", "no_json", "no_ok", "no_result", "bad_error",
              "not_found", "internal", "value_error", "bad_request", "ok"}

\* _c_abi_call: the result, or the kind of the exception.
CAbi(x) ==
  CASE x = "ok" -> "result"
    [] x \in {"null", "no_json", "no_ok", "no_result", "bad_error"} -> "InvalidNativeCAbiEnvelope"
    [] x = "no_library" -> "RuntimeError"
    [] OTHER -> "NativeCAbiOperationFailure"

\* The answer of a stage that has to be done.  A thin one lacks what has a default
\* where it is read: the children of a node, the rows of a list.  A short one has
\* something else missing, or wrong.
Required == [transport : Transport, shape : {"whole", "thin", "short"}]

\* What the readers of these answers take.  Raw: whatever the C ABI returns.  Model:
\* what Pydantic can make a node or a diff of, once the fields that matter are
\* there.  Exact: a boolean, or the fields of a content type.
Raw == {"whole", "thin", "short"}
Model == {"whole", "thin"}
Exact == {"whole"}

Accepted(a, reader) == CAbi(a.transport) = "result" /\ a.shape \in reader

\* Where nothing is required of an answer, or of some: the lifecycle is passed on as
\* it comes, and so are the profiles of the schemas and the key of the parse cache.
Unchecked == {"infer", "again", "lifecycle", "schema", "parse"}
Sound(a, here) == a.transport = "ok" /\ (a.shape = "short" => here \in Unchecked)

\* supports_language: a null counts as a no.
Support == [transport : Transport, says : {"yes", "no", "null"}]

BatchStatus == {"complete", "candidate", "partial", "fallback"}
ItemStatus == {"complete", "candidate", "fallback"}

\* Items n of which must come, with an index beyond the files as a wrong one.
Item(n) == [index : 0 .. n, status : ItemStatus \cup {"unknown"},
            diff : {"whole", "short", "absent"}]
BatchAnswer(n) ==
  [transport : Transport \ {"ok"}, engine : {FALSE}, status : {"unknown"}, items : {<<>>}]
  \cup
  [transport : {"ok"}, engine : BOOLEAN, status : BatchStatus \cup {"unknown"},
   items : [1 .. n -> Item(n)] \cup [1 .. n - 1 -> Item(n)]]

\* The protocol: the core answers for each file once, whole where it says it is
\* complete, and the status of the batch agrees with those of its items.
SoundBatch(a, n) ==
  /\ a.transport = "ok" /\ a.engine /\ a.status \in BatchStatus
  /\ \A f \in 0 .. n - 1 : \E i \in DOMAIN a.items :
       \A j \in DOMAIN a.items : a.items[j].index = f <=> i = j
  /\ \A i \in DOMAIN a.items :
       /\ a.items[i].status \in ItemStatus
       /\ a.status \in ItemStatus \ {"candidate"} => a.items[i].status = a.status
       /\ a.items[i].status = "complete" => a.items[i].diff = "whole"

\* A check that does not mind an index that comes twice.
BadItemsAccepted(a, n) ==
  \A i \in DOMAIN a.items :
    /\ a.items[i].index < n
    /\ a.items[i].status \in ItemStatus
    /\ a.status = "complete" => a.items[i].status = "complete"
    /\ a.status = "fallback" => a.items[i].status = "fallback"
    /\ a.items[i].status = "complete" => a.items[i].diff = "whole"

\* _require_complete_batch_diff_dto: every array and flag that Pydantic would
\* fill in, the owner, and changes that are anchored in the source.
CompleteDto(item) == item.diff = "whole"

\* The loop of try_rust_core_batch_diffs over the items.
ItemsAccepted(a, n) ==
  \A i \in DOMAIN a.items :
    /\ a.items[i].index < n
    /\ \A j \in 1 .. i - 1 : a.items[j].index # a.items[i].index
    /\ a.items[i].status \in ItemStatus
    /\ a.status = "complete" => a.items[i].status = "complete"
    /\ a.status = "fallback" => a.items[i].status = "fallback"
    /\ a.items[i].status = "complete" => CompleteDto(a.items[i])

\* try_rust_core_batch_diffs: "raises", "invalid" (invalid_output) or "valid".
BatchAttempt(a, n) ==
  CASE CAbi(a.transport) = "RuntimeError" -> "raises"
    [] CAbi(a.transport) # "result" -> "invalid"
    [] /\ CAbi(a.transport) = "result"
       /\ a.engine /\ a.status \in BatchStatus
       /\ Len(a.items) = n /\ ItemsAccepted(a, n) -> "valid"
    [] OTHER -> "invalid"

Served(a) == {a.items[i].index : i \in {j \in DOMAIN a.items : a.items[j].status = "complete"}}

\* The status is absent when the answer has no control; the bytes may hold half of a
\* surrogate pair.
CommitAnswer ==
  [transport : Transport, status : {"complete", "fallback", "unknown", "absent"},
   certified : BOOLEAN, bytes : {"whole", "short", "absent", "unencodable"}, size : BOOLEAN]

SoundCommit(a) ==
  /\ a.transport = "ok" /\ a.status \in {"complete", "fallback"}
  /\ a.status = "complete" => a.certified /\ a.size /\ a.bytes = "whole"

\* _commit: a UnicodeEncodeError is a ValueError, which the adapters take for a
\* reason not to use the core.
Unencodable(a) ==
  CAbi(a.transport) = "result" /\ a.status # "absent" /\ a.bytes = "unencodable"

\* _decode_native_commit_control
ControlDecoded(a) == a.status \in {"complete", "fallback"}

\* _require_claimed_complete_commit_bytes, then _require_native_commit_diff_json
BytesClaimed(a) == a.certified /\ a.bytes # "absent" /\ a.size
BytesCertified(a) == BytesClaimed(a) /\ a.bytes = "whole"

FinalizeAnswer == [transport : Transport, used : {"yes", "no", "unknown"}, tooLarge : BOOLEAN,
                   arrays : BOOLEAN, fallback : {"absent", "whole", "short"}]

SoundFinalize(a) ==
  /\ a.transport = "ok"
  /\ \/ a.used = "no" /\ a.tooLarge
     \/ a.used = "yes" /\ a.arrays /\ a.fallback # "short"

\* try_rust_finalize_review: "raises", "declined", "draft" or "diff".
FinalizeAttempt(a) ==
  CASE CAbi(a.transport) # "result" \/ a.used = "unknown" -> "raises"
    [] CAbi(a.transport) = "result" /\ a.used = "no" ->
         IF a.tooLarge THEN "declined" ELSE "raises"
    [] OTHER -> IF ~a.arrays \/ a.fallback = "short" THEN "raises"
                ELSE IF a.fallback = "whole" THEN "diff" ELSE "draft"
-------------------------------------------------------------------------------
(* Steps *)

Goto(next) == pc' = next /\ UNCHANGED <<entry, config, todo, review>>
Heard(sound, whole) == failed' = (failed \/ ~sound) /\ damaged' = (damaged \/ ~whole)
Unheard == UNCHANGED <<failed, damaged>>

\* Something other than the core raises: a file system, a component, a check.
Raise == Goto("raised") /\ UNCHANGED kind /\ Unheard

\* A stage the core has to do, who reads the answer, and what may come after it.
Stage(here, reader, nexts) ==
  /\ pc = here
  /\ \E a \in Required, next \in nexts :
       /\ Heard(Sound(a, here), a.shape = "whole")
       /\ Goto(IF Accepted(a, reader) THEN next ELSE "raised")
  /\ UNCHANGED kind

\* changed_sources: the rows become a list; an empty object becomes an empty one.
Collect(nexts, none) ==
  /\ \E a \in Required :
       /\ Heard(Sound(a, "collect"), a.shape = "whole")
       /\ CASE Accepted(a, Exact) -> \E next \in nexts : Goto(next)
            [] Accepted(a, Model \ Exact) ->
                 pc' = none /\ todo' = {} /\ UNCHANGED <<entry, config, review>>
            [] OTHER -> Goto("raised")
  /\ UNCHANGED kind

\* A refusal or a missing core that is warned of and routed around.
BadGate(next) == next

\* _raise_rust_only_gate_error
Gate(next) == IF config.strict THEN "raised" ELSE next

\* The batch and the bytes want the core, no diagnostics, and nothing that needs
\* the long route: a policy, a trivia type, a grammar, an enricher, an analyzer.
ShortRoute == config.core /\ ~config.diagnostics

\* diff: the text of both sides is read.
BeginFile ==
  /\ pc = "begin" /\ entry = "file"
  /\ Goto("next") \/ Goto("raised")
  /\ UNCHANGED kind /\ Unheard

\* diff_commit: the sources are collected; there may be a batch.
BeginCommit ==
  /\ pc = "begin" /\ entry = "commit"
  /\ Collect({"next"} \cup IF ShortRoute THEN {"infer"} ELSE {}, "next") \/ Raise

\* _compute_review of the live server, with the core or with diff_commit's stages.
BeginLive ==
  /\ pc = "begin" /\ entry = "live"
  /\ \/ config.diagnostics /\ Collect({"next"}, "next")
     \/ ~config.diagnostics /\ Goto("live") /\ UNCHANGED kind /\ Unheard
     \/ Raise

\* _diff_commit_certified_json: a reason to skip is gated; the sources are
\* collected, of a working tree by the core itself, and all of them have to be
\* Python.  Where there are none nothing is said of it.
BeginBytes ==
  /\ pc = "begin" /\ entry \in {"bytes", "tree"}
  /\ \/ ShortRoute /\ entry = "bytes" /\ Collect({"infer", Gate("unused")}, "empty")
     \/ ShortRoute /\ entry = "tree" /\ Goto("certify") /\ UNCHANGED kind /\ Unheard
     \/ Goto(Gate("unused")) /\ UNCHANGED kind /\ Unheard
     \/ Raise

\* _infer_file_lifecycle, of every source, and again of those the batch completes.
Infer ==
  \/ Stage("infer", Raw, {IF entry = "bytes" THEN "ask_certify" ELSE "ask_batch"})
  \/ Stage("again", Raw, {"merge"})

\* supports_language("python"); without it the core is not used.
Supports(here, yes, no) ==
  /\ pc = here
  /\ \E a \in Support :
       /\ Heard(a.transport = "ok", a.says # "null")
       /\ Goto(IF CAbi(a.transport) # "result" THEN "raised"
               ELSE IF a.says = "yes" THEN yes ELSE no)
  /\ UNCHANGED kind

SupportsBatch == Supports("ask_batch", "batch", "next")
SupportsOne == Supports("ask_certified", "certified", "parse")
SupportsRefs == Supports("ask_certify", "certify", Gate("unused"))

\* Where the answer about a whole commit leads: a refusal, or bytes that cannot be
\* encoded, leave the core unused.
Verdict(a) ==
  IF Unencodable(a) THEN Gate("unused")
  ELSE IF CAbi(a.transport) # "result" \/ ~ControlDecoded(a) THEN "raised"
  ELSE IF a.status = "fallback" THEN Gate("unused")
  ELSE IF BytesCertified(a) THEN "bytes" ELSE "raised"

CertifyAs(who) ==
  /\ pc = "certify" /\ entry = who
  /\ \E a \in CommitAnswer :
       Heard(SoundCommit(a) \/ Unencodable(a), ~Unencodable(a)) /\ Goto(Verdict(a))
  /\ UNCHANGED kind

\* try_rust_core_commit_json, and the same of a working tree the core collects.
CertifyRefs == CertifyAs("bytes")
CertifyTree == CertifyAs("tree")

\* live_handle_review: a commit, or a refusal, which raises _RustLiveDecline.
Live == Stage("live", Model, {"bytes", "raised"})

\* The files the core declines are taken for reviewed.
BadBatch ==
  /\ pc = "batch"
  /\ \E n \in 1 .. Files : \E a \in BatchAnswer(n) :
       /\ Heard(SoundBatch(a, n), TRUE)
       /\ IF BatchAttempt(a, n) = "valid"
          THEN /\ review' = [f \in Pair |-> IF f \in Served(a) THEN "native" ELSE "none"]
               /\ todo' = Pair \ (0 .. n - 1)
               /\ pc' = IF Served(a) = {} THEN "next" ELSE "again"
          ELSE pc' = "raised" /\ UNCHANGED <<review, todo>>
  /\ UNCHANGED <<entry, config, kind>>

\* diff_commit offers the Python files no policy concerns, the first n.  Those
\* the core completes are reviewed; the others remain.
Batch ==
  /\ pc = "batch"
  /\ \E n \in 1 .. Files : \E a \in BatchAnswer(n) :
       /\ Heard(SoundBatch(a, n), TRUE)
       /\ IF BatchAttempt(a, n) = "valid"
          THEN /\ review' = [f \in Pair |-> IF f \in Served(a) THEN "native" ELSE "none"]
               /\ todo' = Pair \ Served(a)
               /\ pc' = IF Served(a) = {} THEN "next" ELSE "again"
          ELSE pc' = "raised" /\ UNCHANGED <<review, todo>>
  /\ UNCHANGED <<entry, config, kind>>

\* _apply_file_lifecycle_to_diff, of those.
Merge == Stage("merge", Model, {"next"})

\* The next file; when there is none the review is published.
NextFile ==
  /\ pc = "next"
  /\ Goto(IF todo = {} THEN "published" ELSE "lifecycle")
  /\ UNCHANGED kind /\ Unheard

\* The parser is found or not; the lifecycle; the schema, with the profiles of
\* the user; the policies, which may be unreadable; then the batch of one file,
\* or the parse.
Lifecycle == pc = "lifecycle" /\ (Stage("lifecycle", Raw, {"schema"}) \/ Raise)

AfterSchema == {"parse"} \cup IF ShortRoute THEN {"ask_certified"} ELSE {}

Schema == pc = "schema" /\ (Stage("schema", Raw, AfterSchema) \/ Raise)

\* resolve_schema: where a schema is fetched, any exception, the core's too, is only
\* noted in the resolution.
SchemaLost ==
  /\ pc = "schema"
  /\ \E next \in AfterSchema : Goto(next)
  /\ Heard(TRUE, FALSE) /\ UNCHANGED kind

\* try_rust_core_batch_diff and what _run_stages_1_to_11 does with its attempt.
Certified ==
  /\ pc = "certified"
  /\ \E a \in BatchAnswer(1) :
       /\ Heard(SoundBatch(a, 1), TRUE)
       /\ IF BatchAttempt(a, 1) = "valid" /\ Served(a) # {}
          THEN kind' = "native" /\ Goto("dress")
          ELSE Goto(IF BatchAttempt(a, 1) = "valid" THEN "parse" ELSE "raised")
               /\ UNCHANGED kind

\* The component parses, and enriches; a side that is absent is an empty tree.
Parse == pc = "parse" /\ (Stage("parse", Raw, {"labels"}) \/ Raise)
LiteralLabels == Stage("labels", Model, {"facts"})
NodeFacts == Stage("facts", Model, {"profile", "ids"})
ProfileLabels == Stage("profile", Model, {"ids"})

\* _validate_tree_ids
TreeIds == pc = "ids" /\ (Goto("errors") \/ Goto("raised")) /\ UNCHANGED kind /\ Unheard

\* _has_error_node, then the source is compared, if the configuration says so;
\* the finalization wants the core, and a language it knows.
Errors ==
  Stage("errors", Exact, {"source", Gate("token")} \cup IF config.core THEN {"finalize"} ELSE {})

Compared(as) == kind' = as /\ Goto("dress")

\* try_rust_finalize_review
Finalize ==
  /\ pc = "finalize"
  /\ \E a \in FinalizeAnswer :
       /\ Heard(SoundFinalize(a), TRUE)
       /\ CASE FinalizeAttempt(a) = "diff" -> Compared("source")
            [] FinalizeAttempt(a) = "draft" -> Goto("complete") /\ UNCHANGED kind
            [] FinalizeAttempt(a) = "declined" -> Goto(Gate("token")) /\ UNCHANGED kind
            [] OTHER -> Goto("raised") /\ UNCHANGED kind

\* The last word of a route: source_fallback_diff or complete_routed_review.
LastWord(here, as) ==
  /\ pc = here
  /\ \E a \in Required : /\ Heard(Sound(a, here), a.shape = "whole")
                          /\ IF Accepted(a, Model) THEN Compared(as)
                             ELSE Goto("raised") /\ UNCHANGED kind

Complete == LastWord("complete", "native")
SourceFallback == LastWord("source", "source") \/ LastWord("token", "token")

\* finalize_file_lifecycle; the policies, once more; the analyzers; the type of the
\* content.
Dress == Stage("dress", Model, {"guard", "content"})
Guard == pc = "guard" /\ (Stage("guard", Model, {"content"}) \/ Raise)

Content ==
  /\ pc = "content"
  /\ \E a \in Required :
       /\ Heard(Sound(a, "content"), a.shape = "whole")
       /\ IF Accepted(a, Exact)
          THEN \E f \in todo :
                 /\ \A g \in todo : f <= g
                 /\ review' = [review EXCEPT ![f] = kind]
                 /\ todo' = todo \ {f} /\ kind' = "none" /\ pc' = "next"
          ELSE pc' = "raised" /\ UNCHANGED <<review, todo, kind>>
  /\ UNCHANGED <<entry, config>>

Next ==
  \/ BeginFile \/ BeginCommit \/ BeginLive \/ BeginBytes
  \/ Infer \/ SupportsBatch \/ SupportsOne \/ SupportsRefs \/ CertifyRefs \/ CertifyTree \/ Live
  \/ Batch \/ Merge \/ NextFile
  \/ Lifecycle \/ Schema \/ SchemaLost \/ Certified
  \/ Parse \/ LiteralLabels \/ NodeFacts \/ ProfileLabels \/ TreeIds
  \/ Errors \/ Finalize \/ Complete \/ SourceFallback
  \/ Dress \/ Guard \/ Content

Spec == Init /\ [][Next]_vars

-------------------------------------------------------------------------------
(* Properties *)

\* What the caller gets and may go on with: a review, or a refusal.
Outcome == {"published", "bytes", "unused", "empty"}

\* rust_core.py:1876: "Rust failures cannot be treated as successful alternate
\* routes."  Where the core fails, or answers something else than its reader
\* requires, the caller gets nothing, neither a review nor a refusal he may route
\* around; whatever the route, and however the batch and the stages of single files
\* are mixed in it.  What no reader requires, and the failure that is put by where a
\* schema is fetched, are the matter of NoDamageIsPublished.
FailureIsNeverPublished == pc \in Outcome => ~failed

\* CHANGELOG.md:41: "When the engine's answer is incomplete or malformed, IntentumDiff
\* now reports an error rather than a partial or silently simplified review".
NoDamageIsPublished == pc \in {"published", "bytes"} => ~damaged

\* With RUST_ONLY set no published review fell back for want of the core, and no
\* refusal is given in its place.
NoTokensUnderTheGate ==
  config.strict => pc # "unused" /\ \A f \in Pair : review[f] # "token"

\* In a published review every file that was asked about has its own, however the
\* batch and the routes of single files shared them out; unless a damaged answer
\* left no files at all (changed_sources).
EveryFileIsReviewed ==
  pc = "published" =>
    \/ \A f \in Asked : review[f] # "none"
    \/ damaged /\ \A f \in Pair : review[f] = "none"

TypeOK ==
  /\ entry \in {"file", "commit", "bytes", "tree", "live"}
  /\ config \in [core : BOOLEAN, strict : BOOLEAN, diagnostics : BOOLEAN]
  /\ todo \subseteq Pair
  /\ kind \in {"none", "native", "source", "token"}
  /\ review \in [Pair -> {"none", "native", "source", "token"}]
  /\ failed \in BOOLEAN /\ damaged \in BOOLEAN

===============================================================================
