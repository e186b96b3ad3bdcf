--------------------------- MODULE ReviewPipeline ---------------------------
(* The pipeline that reviews one file (differ.py, _run_pipeline), as threads run
   it: the registration of the user's XML dialects in the Rust core, the
   certified batch call, the parse of both sides through the parse cache, and the
   end, where the review is finalized by the Rust core or falls back.

   Each thread has a differ, and so an instance of the parser's component, of
   its own; the files of the components, the cache and the Rust core are
   everybody's.  One component stands for all the parsers: the files differ in
   the routes they take.  An answer of the Rust core is complete, declines,
   or is refused by the checks of rust_core.py, which raise.  The parse cache is
   configured; its key also has the content, the grammar, the language and the
   name of the file, which are those of its file and side.  A side that is absent
   is an empty tree in the code and parsed like the other one here. *)
EXTENDS Naturals, FiniteSets

CONSTANTS File,      \* changed files
          Python,    \* those the certified batch may serve
          Xml,       \* those whose review uses the XML dialects
          Thread,
          Version,   \* contents of the component's file
          Dialects,  \* contents of the user's profiles
          Unread,    \* no version and no dialects
          MaxFaults  \* traps, replacements of the component, edits of the profiles

ASSUME ReviewPipelineAssumption ==
  /\ Python \subseteq File /\ Xml \subseteq File
  /\ Unread \notin Version \cup Dialects
  /\ MaxFaults \in Nat

Side == {"old", "new"}

VARIABLES
  mode,   \* the Rust core is enabled; RUST_ONLY is set
  disk,   \* the component's file
  plug,   \* thread -> the version it has compiled, the flag _tainted
  cache,  \* parse cache: trees of a side, stored under a version, made by one
  rules,  \* the profiles on disk, the dialects of the Rust core, the
          \* fingerprint of what was registered last
  th,     \* thread -> where it is, and on what
  faults  \* how many so far

pipeVars == <<mode, disk, plug, cache, rules, th, faults>>

Idle == [pc |-> "idle", goal |-> "review", file |-> Unread, dialects |-> Unread,
         side |-> "old", key |-> Unread, tree |-> [s \in Side |-> Unread],
         result |-> "none"]

\* The cache is empty or has what an earlier run left, under any version.
PipeInit ==
  /\ mode \in [core : BOOLEAN, strict : BOOLEAN]
  /\ disk \in Version
  /\ plug = [t \in Thread |-> [by |-> Unread, tainted |-> FALSE]]
  /\ \E vs \in SUBSET Version :
       cache = {[file |-> f, side |-> s, key |-> v, by |-> v] : f \in File, s \in Side, v \in vs}
  /\ \E d \in Dialects : rules = [profiles |-> d, native |-> Unread, stamp |-> Unread]
  /\ th = [t \in Thread |-> Idle]
  /\ faults = 0

At(t, pc) == th[t].pc = pc
Goto(t, pc) == th' = [th EXCEPT ![t].pc = pc]
Done(t, result) == th' = [th EXCEPT ![t].pc = "done", ![t].result = result]
Raise(t) == Goto(t, "failed")
Fault == faults < MaxFaults /\ faults' = faults + 1

-------------------------------------------------------------------------------
(* Before the parse *)

\* The parser is selected, and loaded if this thread has not used it.
Detect(t) ==
  /\ At(t, "detect")
  /\ plug' = [plug EXCEPT ![t].by = IF @ = Unread THEN disk ELSE @]
  /\ Goto(t, CASE th[t].goal = "index" -> "key"
               [] th[t].file \in Xml -> "profiles"
               [] th[t].file \in Python /\ mode.core -> "certified"
               [] OTHER -> "key")
  /\ UNCHANGED <<mode, disk, cache, rules, faults>>

\* No parser takes the file, or it cannot be loaded, or has no full-parse mode.
DetectFails(t) ==
  /\ At(t, "detect")
  /\ Raise(t)
  /\ UNCHANGED <<mode, disk, plug, cache, rules, faults>>

ReadProfiles(t) ==
  /\ At(t, "profiles")
  /\ th' = [th EXCEPT ![t].pc = "compare", ![t].dialects = rules.profiles]
  /\ UNCHANGED <<mode, disk, plug, cache, rules, faults>>

\* try_register_user_xml_dialects: what was registered last need not be again.
Compare(t) ==
  /\ At(t, "compare")
  /\ Goto(t, IF rules.stamp = th[t].dialects THEN "key" ELSE "register")
  /\ UNCHANGED <<mode, disk, plug, cache, rules, faults>>

Register(t) ==
  /\ At(t, "register")
  /\ \/ rules' = [rules EXCEPT !.native = th[t].dialects] /\ Goto(t, "stamp")
     \/ Raise(t) /\ UNCHANGED rules
  /\ UNCHANGED <<mode, disk, plug, cache, faults>>

Stamp(t) ==
  /\ At(t, "stamp")
  /\ rules' = [rules EXCEPT !.stamp = th[t].dialects]
  /\ Goto(t, "key")
  /\ UNCHANGED <<mode, disk, plug, cache, faults>>

\* try_rust_core_batch_diff: a complete answer is the review; an answer that is
\* not what the protocol allows raises; only an answer that says so declines.
Certified(t) ==
  /\ At(t, "certified")
  /\ Done(t, "native") \/ Goto(t, "key") \/ Raise(t)
  /\ UNCHANGED <<mode, disk, plug, cache, rules, faults>>

-------------------------------------------------------------------------------
(* _cached_process: the parse of th[t].side *)

Entries(t) == {e \in cache : /\ e.file = th[t].file /\ e.side = th[t].side
                             /\ e.key = th[t].key}

\* This side is parsed: the other one follows, or the rest of the review.
NextSide(t, tree) ==
  th' = [th EXCEPT ![t].pc = IF th[t].side = "old" THEN "key" ELSE "finish",
                   ![t].side = "new", ![t].tree = tree]

\* A fingerprint of the file alone, whatever the thread has compiled.
BadFingerprint(t) == disk

\* _wasm_hash_for: the version on disk, which must be the compiled one; Unread
\* stands for the exception.
Fingerprint(t) == IF plug[t].by = disk THEN disk ELSE Unread

MakeKey(t) ==
  /\ At(t, "key")
  /\ th' = [th EXCEPT ![t].key = Fingerprint(t),
                      ![t].pc = IF Fingerprint(t) = Unread THEN "failed" ELSE "look"]
  /\ UNCHANGED <<mode, disk, plug, cache, rules, faults>>

Look(t) ==
  /\ At(t, "look")
  /\ IF Entries(t) = {}
     THEN Goto(t, "parse")
     ELSE \E e \in Entries(t) : NextSide(t, [th[t].tree EXCEPT ![th[t].side] = e.by])
  /\ UNCHANGED <<mode, disk, plug, cache, rules, faults>>

\* A tainted instance is loaded anew, from what is on disk now; that may fail.
Reload(t) ==
  /\ At(t, "parse") /\ plug[t].tainted
  /\ \/ plug' = [plug EXCEPT ![t] = [by |-> disk, tainted |-> FALSE]] /\ UNCHANGED th
     \/ Raise(t) /\ UNCHANGED plug
  /\ UNCHANGED <<mode, disk, cache, rules, faults>>

Parse(t) ==
  /\ At(t, "parse") /\ ~plug[t].tainted
  /\ th' = [th EXCEPT ![t].pc = "store", ![t].tree = [@ EXCEPT ![th[t].side] = plug[t].by]]
  /\ UNCHANGED <<mode, disk, plug, cache, rules, faults>>

\* The call traps, here or in a probe of the content: the instance is tainted.
Trap(t) ==
  /\ At(t, "parse") /\ ~plug[t].tainted
  /\ Fault
  /\ plug' = [plug EXCEPT ![t].tainted = TRUE]
  /\ Raise(t)
  /\ UNCHANGED <<mode, disk, cache, rules>>

Entry(t) == [file |-> th[t].file, side |-> th[t].side, key |-> th[t].key,
             by |-> th[t].tree[th[t].side]]

\* A store that trusts the key it made before the parse.
BadStore(t) ==
  /\ At(t, "store")
  /\ cache' = cache \cup {Entry(t)}
  /\ NextSide(t, th[t].tree)
  /\ UNCHANGED <<mode, disk, plug, rules, faults>>

\* The tree is stored when the fingerprint is still the one of the key.
Store(t) ==
  /\ At(t, "store")
  /\ IF Fingerprint(t) # th[t].key
     THEN Raise(t) /\ UNCHANGED cache
     ELSE cache' = cache \cup {Entry(t)} /\ NextSide(t, th[t].tree)
  /\ UNCHANGED <<mode, disk, plug, rules, faults>>

-------------------------------------------------------------------------------
(* After the parse *)

\* The review degrades to the text of the source, unless RUST_ONLY is set.
TokenFallback(t) == IF mode.strict THEN Raise(t) ELSE Done(t, "token")

\* Enrichers, node facts, labels and the check of the identifiers; then, when a
\* tree has errors, the comparison of the sources; else the finalization, which
\* the core completes, or declines for a tree too large.  Guardrails and
\* analyzers follow.  Any of them may raise.  An index only wants the trees.
Finish(t) ==
  /\ At(t, "finish")
  /\ IF th[t].goal = "index"
     THEN Done(t, "indexed")
     ELSE \/ Raise(t)
          \/ Done(t, "source")
          \/ mode.core /\ Done(t, "native")
          \/ TokenFallback(t)
  /\ UNCHANGED <<mode, disk, plug, cache, rules, faults>>

-------------------------------------------------------------------------------
(* The world *)

\* Another process installs a version of the parser, or goes back to one.
Replace ==
  /\ \E v \in Version \ {disk} : disk' = v
  /\ Fault
  /\ UNCHANGED <<mode, plug, cache, rules, th>>

EditProfiles ==
  /\ \E d \in Dialects \ {rules.profiles} : rules' = [rules EXCEPT !.profiles = d]
  /\ Fault
  /\ UNCHANGED <<mode, disk, plug, cache, th>>

Step(t) ==
  \/ Detect(t) \/ DetectFails(t)
  \/ ReadProfiles(t) \/ Compare(t) \/ Register(t) \/ Stamp(t)
  \/ Certified(t)
  \/ MakeKey(t) \/ Look(t) \/ Reload(t) \/ Parse(t) \/ Trap(t) \/ Store(t)
  \/ Finish(t)

World == Replace \/ EditProfiles

-------------------------------------------------------------------------------
(* Properties *)

\* A cached tree was made by the version it is stored under, though the file may
\* be replaced, and the component loaded anew, while it is parsed.
CacheNeverLies == \A e \in cache : e.by = e.key

\* The two trees of a review come from the same version of the parser: a new
\* parser never shows as a change of the file.
OneParserPerReview ==
  \A t \in Thread : th[t].pc = "done" =>
    \A s, r \in Side : Unread \notin {th[t].tree[s], th[t].tree[r]} => th[t].tree[s] = th[t].tree[r]

\* rust_core.py:1461: "configured matching rules must never be silently ignored".
\* While no thread registers, the dialects whose fingerprint is kept are those
\* of the Rust core: else a review with them is served by other rules.  This does
\* not hold with two threads; no configuration lists it.
RulesAreNotIgnored ==
  (\A t \in Thread : th[t].pc \notin {"register", "stamp"}) => rules.native = rules.stamp

===============================================================================
