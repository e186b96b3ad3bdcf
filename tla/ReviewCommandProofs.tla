------------------------ MODULE ReviewCommandProofs ------------------------
(* Theorems about NativeReview and ReviewCommand, for every number of changed
   files.

   Of the review: where the Rust core fails, or answers something else than its
   reader requires, nothing is published or given to the caller as a refusal; the
   gate holds; a published review has every file.  The first inductive invariant
   says where a failure is: the review that met it has been abandoned.  It does not
   speak of damage that no reader minds, which is published (NoDamageIsPublished).
   Each stage keeps it because its reader takes nothing short, unless it is one of
   those where nothing is required; for the batch this is an argument of counting,
   since the code only checks that there are as many items as files, that each
   index is one of a file, and that none comes twice.  The second follows the
   files: each is still to do or has a review, unless none was collected, and a
   review has its kind before it is dressed.

   Of the commands: they make their reviews by the steps of NativeReview, so that
   its theorems hold of them; and a command that exits 0 tells the truth.  The
   invariant follows a protected file through its review: no route leads past the
   policies (PolicyRead), and what they find is among the violations before the
   file has its review (PolicyApplied), whence both hold of all files with a
   review (Policy).  The rest follows the command: what is finished at each stage. *)
EXTENDS ReviewCommand, FiniteSetTheorems, TLAPS

Failed == failed => pc = "raised"

IInv == TypeOK /\ Failed

-------------------------------------------------------------------------------
(* What the code accepts is sound. *)

LEMMA TransportSound ==
  ASSUME NEW x \in Transport
  PROVE  (CAbi(x) = "result") <=> (x = "ok")
  BY DEF Transport, CAbi

\* A reader that takes nothing short, or from whom nothing is required.
Suits(reader, here) == "short" \in reader => here \in Unchecked

LEMMA AcceptedSound ==
  ASSUME NEW a \in Required, NEW reader, NEW here, Suits(reader, here), Accepted(a, reader)
  PROVE  Sound(a, here)
  BY TransportSound DEF Required, Accepted, Sound, Suits

\* n items whose indexes are those of files and come once answer for n files.
LEMMA EveryFileOnce ==
  ASSUME NEW n \in Nat \ {0}, NEW items \in [1 .. n -> Item(n)],
         \A i \in 1 .. n : items[i].index < n,
         \A i, j \in 1 .. n : j < i => items[j].index # items[i].index
  PROVE  \A f \in 0 .. n - 1 : \E i \in 1 .. n :
           \A j \in 1 .. n : items[j].index = f <=> i = j
<1> DEFINE g == [i \in 1 .. n |-> items[i].index]
<1>1. \A i \in 1 .. n : items[i].index \in 0 .. n - 1
  BY DEF Item
<1>2. g \in Injection(1 .. n, 0 .. n - 1)
  BY <1>1 DEF Injection, IsInjective
<1>3. Cardinality(1 .. n) = Cardinality(0 .. n - 1) /\ IsFiniteSet(0 .. n - 1)
  BY FS_Interval
<1>4. g \in Surjection(1 .. n, 0 .. n - 1)
  BY <1>2, <1>3, FS_Injection
<1>5. ASSUME NEW f \in 0 .. n - 1
      PROVE  \E i \in 1 .. n : items[i].index = f
  <2>1. \A t \in 0 .. n - 1 : \E i \in 1 .. n : g[i] = t
    BY <1>4 DEF Surjection
  <2> QED
    BY <2>1
<1>6. \A i, j \in 1 .. n : items[i].index = items[j].index => i = j
  OBVIOUS
<1>7. ASSUME NEW f \in 0 .. n - 1
      PROVE  \E i \in 1 .. n : \A j \in 1 .. n : items[j].index = f <=> i = j
  <2>1. PICK i \in 1 .. n : items[i].index = f
    BY <1>5
  <2> QED
    BY <2>1, <1>6
<1> QED
  BY <1>7

LEMMA BatchSound ==
  ASSUME NEW n \in Nat \ {0}, NEW a \in BatchAnswer(n), BatchAttempt(a, n) = "valid"
  PROVE  SoundBatch(a, n)
<1>1. a.transport \in Transport /\ CAbi(a.transport) = "result"
  <2>1. a.transport \in Transport
    BY DEF BatchAnswer, Transport
  <2> QED
    BY <2>1 DEF BatchAttempt, CAbi
<1>2. /\ a.engine /\ a.status \in BatchStatus
      /\ Len(a.items) = n /\ ItemsAccepted(a, n)
  BY <1>1 DEF BatchAttempt
<1>3. a.items \in [1 .. n -> Item(n)]
  <2>1. CASE a.items \in [1 .. n - 1 -> Item(n)]
    <3>1. a.items \in Seq(Item(n)) /\ Len(a.items) = n - 1
      BY <2>1
    <3> QED
      BY <3>1, <1>2
  <2>2. a.transport = "ok"
    BY <1>1, TransportSound
  <2> QED
    BY <2>1, <2>2 DEF BatchAnswer
<1>4. DOMAIN a.items = 1 .. n
  BY <1>3
<1>5. /\ \A i \in 1 .. n : a.items[i].index < n
      /\ \A i, j \in 1 .. n : j < i => a.items[j].index # a.items[i].index
  BY <1>2, <1>4 DEF ItemsAccepted, CompleteDto
<1>6. \A f \in 0 .. n - 1 : \E i \in 1 .. n :
        \A j \in 1 .. n : a.items[j].index = f <=> i = j
  BY <1>3, <1>5, EveryFileOnce
<1>7. ASSUME NEW f \in 0 .. n - 1
      PROVE  \E i \in DOMAIN a.items :
               \A j \in DOMAIN a.items : a.items[j].index = f <=> i = j
  <2>1. PICK i \in 1 .. n : \A j \in 1 .. n : a.items[j].index = f <=> i = j
    BY <1>6
  <2>2. \A j \in DOMAIN a.items : a.items[j].index = f <=> i = j
    BY <2>1, <1>4
  <2>3. i \in DOMAIN a.items
    BY <1>4
  <2> QED
    BY <2>2, <2>3
<1>8. ASSUME NEW i \in DOMAIN a.items
      PROVE  /\ a.items[i].status \in ItemStatus
             /\ a.status \in ItemStatus \ {"candidate"} => a.items[i].status = a.status
             /\ a.items[i].status = "complete" => a.items[i].diff = "whole"
  BY <1>2 DEF ItemsAccepted, CompleteDto, ItemStatus
<1>9. a.transport = "ok"
  BY <1>1, TransportSound
<1> QED
  BY <1>2, <1>7, <1>8, <1>9 DEF SoundBatch

LEMMA CommitSound ==
  ASSUME NEW a \in CommitAnswer, CAbi(a.transport) = "result", ControlDecoded(a),
         a.status = "fallback" \/ BytesCertified(a)
  PROVE  SoundCommit(a)
  BY TransportSound DEF CommitAnswer, ControlDecoded, BytesCertified, BytesClaimed, SoundCommit

LEMMA FinalizeSound ==
  ASSUME NEW a \in FinalizeAnswer, FinalizeAttempt(a) # "raises"
  PROVE  SoundFinalize(a)
<1>1. a.transport \in Transport /\ CAbi(a.transport) = "result" /\ a.used # "unknown"
  BY DEF FinalizeAnswer, FinalizeAttempt
<1>2. CASE a.used = "no"
  BY <1>1, <1>2, TransportSound DEF FinalizeAttempt, SoundFinalize
<1>3. CASE a.used = "yes"
  BY <1>1, <1>3, TransportSound DEF FinalizeAttempt, SoundFinalize
<1> QED
  BY <1>1, <1>2, <1>3 DEF FinalizeAnswer

-------------------------------------------------------------------------------
(* Every step keeps the invariant. *)

LEMMA InitIInv == Init => IInv
<1> SUFFICES ASSUME Init
             PROVE  IInv
  OBVIOUS
<1>1. todo \subseteq Pair
  BY NativeReviewAssumption DEF Init, Asked, Pair
<1>2. review \in [Pair -> {"none", "native", "source", "token"}]
  BY DEF Init
<1>3. TypeOK
  BY <1>1, <1>2 DEF Init, TypeOK
<1>4. Failed
  BY DEF Init, Failed
<1> QED
  BY <1>3, <1>4 DEF IInv

\* Whatever is heard, the two flags stay flags.
LEMMA HeardTypes ==
  ASSUME TypeOK, NEW sound, NEW whole, Heard(sound, whole)
  PROVE  failed' \in BOOLEAN /\ damaged' \in BOOLEAN
  BY DEF Heard, TypeOK

\* A stage ends in an exception, or has not failed.
LEMMA StageKeeps ==
  ASSUME IInv, NEW here, NEW reader, NEW nexts, here # "raised", Suits(reader, here),
         Stage(here, reader, nexts)
  PROVE  IInv'
<1>1. PICK a \in Required :
        /\ Heard(Sound(a, here), a.shape = "whole")
        /\ \E next \in nexts : Goto(IF Accepted(a, reader) THEN next ELSE "raised")
  BY DEF Stage
<1>2. TypeOK'
  BY <1>1, HeardTypes DEF Stage, IInv, TypeOK, Goto, Pair
<1>3. ~failed
  BY DEF IInv, Failed, Stage
<1>4. Failed'
  BY <1>1, <1>3, AcceptedSound DEF Failed, Heard, Goto
<1> QED
  BY <1>2, <1>4 DEF IInv

\* A step that hears nothing from the core.
LEMMA QuietKeeps ==
  ASSUME IInv, pc # "raised", NEW next, Goto(next), UNCHANGED kind, Unheard
  PROVE  IInv'
  BY DEF IInv, TypeOK, Failed, Goto, Unheard, Pair

\* What the core says of a language and of its schemas is no failure of its own.
LEMMA HarmlessKeeps ==
  ASSUME IInv, pc # "raised", NEW next, Goto(next), UNCHANGED kind,
         NEW sound, NEW whole, Heard(sound, whole), sound \/ next = "raised"
  PROVE  IInv'
<1>1. TypeOK'
  BY HeardTypes DEF IInv, TypeOK, Goto, Pair
<1>2. Failed'
  BY DEF IInv, Failed, Goto, Heard
<1> QED
  BY <1>1, <1>2 DEF IInv

LEMMA SupportsKeeps ==
  ASSUME IInv, NEW here, NEW yes, NEW no, here # "raised", Supports(here, yes, no)
  PROVE  IInv'
<1>1. PICK a \in Support :
        /\ Heard(a.transport = "ok", a.says # "null")
        /\ Goto(IF CAbi(a.transport) # "result" THEN "raised"
                ELSE IF a.says = "yes" THEN yes ELSE no)
  BY DEF Supports
<1>2. a.transport = "ok" \/ CAbi(a.transport) # "result"
  BY TransportSound DEF Support
<1>3. CASE CAbi(a.transport) # "result"
  BY <1>1, <1>3, HarmlessKeeps DEF Supports
<1>4. CASE CAbi(a.transport) = "result"
  BY <1>1, <1>2, <1>4, HarmlessKeeps DEF Supports
<1> QED
  BY <1>3, <1>4

\* No rows, or rows that are rows.
LEMMA CollectKeeps ==
  ASSUME IInv, NEW nexts, NEW none, pc = "begin", Collect(nexts, none)
  PROVE  IInv'
<1>1. PICK a \in Required :
        /\ Heard(Sound(a, "collect"), a.shape = "whole")
        /\ CASE Accepted(a, Exact) -> \E next \in nexts : Goto(next)
             [] Accepted(a, Model \ Exact) ->
                  pc' = none /\ todo' = {} /\ UNCHANGED <<entry, config, review>>
             [] OTHER -> Goto("raised")
  BY DEF Collect
<1>2. /\ todo' \in {todo, {}} /\ UNCHANGED <<entry, config, kind, review>>
      /\ Accepted(a, Exact) \/ Accepted(a, Model \ Exact) \/ pc' = "raised"
  BY <1>1 DEF Collect, Goto
<1>3. TypeOK'
  BY <1>1, <1>2, HeardTypes DEF IInv, TypeOK, Pair
<1>4. CASE Accepted(a, Exact) \/ Accepted(a, Model \ Exact)
  <2>1. Sound(a, "collect")
    BY <1>4, AcceptedSound DEF Suits, Exact, Model
  <2> QED
    BY <1>1, <1>3, <2>1 DEF IInv, Failed, Heard
<1>5. CASE pc' = "raised"
  BY <1>3, <1>5 DEF IInv, Failed
<1> QED
  BY <1>2, <1>4, <1>5

LEMMA RaiseKeeps ==
  ASSUME IInv, pc # "raised", Raise
  PROVE  IInv'
  BY QuietKeeps DEF Raise

LEMMA BatchKeeps ==
  ASSUME IInv, Batch
  PROVE  IInv'
<1>1. ~failed
  BY DEF IInv, Failed, Batch
<1>2. PICK n \in 1 .. Files : \E a \in BatchAnswer(n) :
        /\ Heard(SoundBatch(a, n), TRUE)
        /\ IF BatchAttempt(a, n) = "valid"
           THEN /\ review' = [f \in Pair |-> IF f \in Served(a) THEN "native" ELSE "none"]
                /\ todo' = Pair \ Served(a)
                /\ pc' = IF Served(a) = {} THEN "next" ELSE "again"
           ELSE pc' = "raised" /\ UNCHANGED <<review, todo>>
  BY DEF Batch
<1>3. PICK a \in BatchAnswer(n) :
        /\ Heard(SoundBatch(a, n), TRUE)
        /\ IF BatchAttempt(a, n) = "valid"
           THEN /\ review' = [f \in Pair |-> IF f \in Served(a) THEN "native" ELSE "none"]
                /\ todo' = Pair \ Served(a)
                /\ pc' = IF Served(a) = {} THEN "next" ELSE "again"
           ELSE pc' = "raised" /\ UNCHANGED <<review, todo>>
  BY <1>2
<1>4. n \in Nat \ {0}
  BY NativeReviewAssumption
<1>5. CASE BatchAttempt(a, n) = "valid"
  <2>1. SoundBatch(a, n)
    BY <1>4, <1>5, BatchSound
  <2>2. failed' = FALSE /\ damaged' \in BOOLEAN
    BY <1>1, <1>3, <2>1 DEF Heard, IInv, TypeOK
  <2>3. /\ todo' \subseteq Pair
        /\ review' \in [Pair -> {"none", "native", "source", "token"}]
    BY <1>3, <1>5
  <2> QED
    BY <2>2, <2>3 DEF IInv, TypeOK, Failed, Batch, Pair
<1>6. CASE BatchAttempt(a, n) # "valid"
  <2>1. pc' = "raised" /\ UNCHANGED <<review, todo>>
    BY <1>3, <1>6
  <2>2. failed' \in BOOLEAN /\ damaged' \in BOOLEAN
    BY <1>3, HeardTypes DEF IInv
  <2> QED
    BY <2>1, <2>2 DEF IInv, TypeOK, Failed, Batch, Pair
<1> QED
  BY <1>5, <1>6

LEMMA CertifiedKeeps ==
  ASSUME IInv, Certified
  PROVE  IInv'
<1>1. ~failed
  BY DEF IInv, Failed, Certified
<1>2. PICK a \in BatchAnswer(1) :
        /\ Heard(SoundBatch(a, 1), TRUE)
        /\ IF BatchAttempt(a, 1) = "valid" /\ Served(a) # {}
           THEN kind' = "native" /\ Goto("dress")
           ELSE /\ Goto(IF BatchAttempt(a, 1) = "valid" THEN "parse" ELSE "raised")
                /\ UNCHANGED kind
  BY DEF Certified
<1>3. TypeOK'
  <2>1. failed' \in BOOLEAN /\ damaged' \in BOOLEAN
    BY <1>2, HeardTypes DEF IInv
  <2>2. kind' \in {"none", "native", "source", "token"} /\ UNCHANGED <<entry, config, todo, review>>
    BY <1>2 DEF Goto, IInv, TypeOK
  <2> QED
    BY <2>1, <2>2 DEF IInv, TypeOK, Pair
<1>4. CASE BatchAttempt(a, 1) = "valid"
  <2>1. SoundBatch(a, 1)
    BY <1>4, BatchSound
  <2>2. ~failed'
    BY <1>1, <1>2, <2>1 DEF Heard
  <2> QED
    BY <1>3, <2>2 DEF IInv, Failed
<1>5. CASE BatchAttempt(a, 1) # "valid"
  BY <1>2, <1>3, <1>5 DEF IInv, Failed, Goto
<1> QED
  BY <1>4, <1>5

LEMMA CertifyKeeps ==
  ASSUME IInv, NEW who \in {"bytes", "tree"}, CertifyAs(who)
  PROVE  IInv'
<1>1. ~failed
  BY DEF IInv, Failed, CertifyAs
<1>2. PICK a \in CommitAnswer :
        /\ Heard(SoundCommit(a) \/ Unencodable(a), ~Unencodable(a)) /\ Goto(Verdict(a))
  BY DEF CertifyAs
<1>3. TypeOK'
  BY <1>2, HeardTypes DEF CertifyAs, IInv, TypeOK, Goto, Pair
<1>4. CASE /\ CAbi(a.transport) = "result" /\ ControlDecoded(a)
           /\ a.status = "fallback" \/ BytesCertified(a)
  BY <1>1, <1>2, <1>3, <1>4, CommitSound DEF IInv, Failed, Heard
<1>5. CASE Unencodable(a)
  BY <1>1, <1>2, <1>3, <1>5 DEF IInv, Failed, Heard
<1>6. CASE /\ ~Unencodable(a)
           /\ ~ /\ CAbi(a.transport) = "result" /\ ControlDecoded(a)
                /\ a.status = "fallback" \/ BytesCertified(a)
  BY <1>2, <1>3, <1>6 DEF IInv, Failed, Goto, Verdict
<1> QED
  BY <1>4, <1>5, <1>6

LEMMA FinalizeKeeps ==
  ASSUME IInv, Finalize
  PROVE  IInv'
<1>1. ~failed
  BY DEF IInv, Failed, Finalize
<1>2. PICK a \in FinalizeAnswer :
        /\ Heard(SoundFinalize(a), TRUE)
        /\ CASE FinalizeAttempt(a) = "diff" -> Compared("source")
             [] FinalizeAttempt(a) = "draft" -> Goto("complete") /\ UNCHANGED kind
             [] FinalizeAttempt(a) = "declined" -> Goto(Gate("token")) /\ UNCHANGED kind
             [] OTHER -> Goto("raised") /\ UNCHANGED kind
  BY DEF Finalize
<1>3. FinalizeAttempt(a) \in {"raises", "declined", "draft", "diff"}
  BY DEF FinalizeAttempt
<1>4. /\ kind' \in {kind, "source"}
      /\ UNCHANGED <<entry, config, todo, review>>
      /\ FinalizeAttempt(a) = "raises" => pc' = "raised"
  BY <1>2, <1>3 DEF Compared, Goto
<1>5. TypeOK'
  BY <1>2, <1>4, HeardTypes DEF IInv, TypeOK, Pair
<1>6. failed' => pc' = "raised"
  BY <1>1, <1>2, <1>4, FinalizeSound DEF Heard
<1> QED
  BY <1>5, <1>6 DEF IInv, Failed

LEMMA LastWordKeeps ==
  ASSUME IInv, NEW here, NEW as \in {"native", "source", "token"}, here # "raised",
         LastWord(here, as)
  PROVE  IInv'
<1>1. ~failed
  BY DEF IInv, Failed, LastWord
<1>2. PICK a \in Required : /\ Heard(Sound(a, here), a.shape = "whole")
                            /\ IF Accepted(a, Model) THEN Compared(as)
                               ELSE Goto("raised") /\ UNCHANGED kind
  BY DEF LastWord
<1>3. TypeOK'
  BY <1>2, HeardTypes DEF IInv, TypeOK, Compared, Goto, Pair
<1>4. failed' => pc' = "raised"
  BY <1>1, <1>2, AcceptedSound DEF Heard, Compared, Goto, Suits, Model
<1> QED
  BY <1>3, <1>4 DEF IInv, Failed

LEMMA ContentKeeps ==
  ASSUME IInv, Content
  PROVE  IInv'
<1>1. ~failed
  BY DEF IInv, Failed, Content
<1>2. PICK a \in Required :
        /\ Heard(Sound(a, "content"), a.shape = "whole")
        /\ IF Accepted(a, Exact)
           THEN \E f \in todo :
                  /\ \A g \in todo : f <= g
                  /\ review' = [review EXCEPT ![f] = kind]
                  /\ todo' = todo \ {f} /\ kind' = "none" /\ pc' = "next"
           ELSE pc' = "raised" /\ UNCHANGED <<review, todo, kind>>
  BY DEF Content
<1>3. TypeOK'
  BY <1>2, HeardTypes DEF Content, IInv, TypeOK, Pair
<1>4. failed' => pc' = "raised"
  BY <1>1, <1>2, AcceptedSound DEF Heard, Suits, Exact
<1> QED
  BY <1>3, <1>4 DEF IInv, Failed

LEMMA Readers ==
  /\ \A here \in Unchecked : Suits(Raw, here)
  /\ \A here : Suits(Model, here) /\ Suits(Exact, here)
  BY DEF Suits, Raw, Model, Exact

LEMMA NextIInv == IInv /\ [Next]_vars => IInv'
<1> SUFFICES ASSUME IInv, [Next]_vars
             PROVE  IInv'
  OBVIOUS
<1>1. CASE BeginFile \/ BeginCommit \/ BeginLive
  BY <1>1, QuietKeeps, RaiseKeeps, CollectKeeps DEF BeginFile, BeginCommit, BeginLive
<1>2. CASE BeginBytes
  BY <1>2, QuietKeeps, RaiseKeeps, CollectKeeps DEF BeginBytes
<1>3. CASE Infer
  BY <1>3, StageKeeps, Readers DEF Infer, Unchecked
<1>22. CASE SupportsBatch \/ SupportsOne \/ SupportsRefs
  BY <1>22, SupportsKeeps DEF SupportsBatch, SupportsOne, SupportsRefs
<1>23. CASE SchemaLost
  BY <1>23, HarmlessKeeps DEF SchemaLost
<1>4. CASE CertifyRefs \/ CertifyTree
  BY <1>4, CertifyKeeps DEF CertifyRefs, CertifyTree
<1>5. CASE Live
  BY <1>5, StageKeeps, Readers DEF Live
<1>6. CASE Batch
  BY <1>6, BatchKeeps
<1>7. CASE Merge
  BY <1>7, StageKeeps, Readers DEF Merge
<1>8. CASE NextFile
  BY <1>8, QuietKeeps DEF NextFile
<1>9. CASE Lifecycle
  BY <1>9, StageKeeps, RaiseKeeps, Readers DEF Lifecycle, Unchecked
<1>10. CASE Schema
  BY <1>10, StageKeeps, RaiseKeeps, Readers DEF Schema, Unchecked
<1>11. CASE Certified
  BY <1>11, CertifiedKeeps
<1>12. CASE Parse
  BY <1>12, StageKeeps, RaiseKeeps, Readers DEF Parse, Unchecked
<1>13. CASE LiteralLabels \/ NodeFacts \/ ProfileLabels
  BY <1>13, StageKeeps, Readers DEF LiteralLabels, NodeFacts, ProfileLabels
<1>14. CASE TreeIds
  BY <1>14, QuietKeeps DEF TreeIds
<1>15. CASE Errors
  BY <1>15, StageKeeps, Readers DEF Errors
<1>16. CASE Finalize
  BY <1>16, FinalizeKeeps
<1>17. CASE Complete \/ SourceFallback
  BY <1>17, LastWordKeeps DEF Complete, SourceFallback
<1>18. CASE Dress
  BY <1>18, StageKeeps, Readers DEF Dress
<1>19. CASE Guard
  BY <1>19, StageKeeps, RaiseKeeps, Readers DEF Guard
<1>20. CASE Content
  BY <1>20, ContentKeeps
<1>21. CASE UNCHANGED vars
  BY <1>21 DEF vars, IInv, TypeOK, Failed, Pair
<1> QED
  BY <1>1, <1>2, <1>3, <1>4, <1>5, <1>6, <1>7, <1>8, <1>9, <1>10, <1>11, <1>12,
     <1>13, <1>14, <1>15, <1>16, <1>17, <1>18, <1>19, <1>20, <1>21,
     <1>22, <1>23 DEF Next

\* Where the core fails, or answers something else than its reader requires, on
\* whatever route and with however many files, no review is published and no
\* refusal is given: "Rust failures cannot be treated as successful alternate
\* routes" (rust_core.py:1876).  It does not promise that all damage is noticed, nor
\* a failure in fetching a schema (SchemaLost): NoDamageIsPublished does not hold.
THEOREM NothingFailedIsPublished == Spec => []FailureIsNeverPublished
<1>1. IInv => FailureIsNeverPublished
  BY DEF IInv, Failed, Outcome, FailureIsNeverPublished
<1> QED
  BY <1>1, InitIInv, NextIInv, PTL DEF Spec

-------------------------------------------------------------------------------
(* What is published: every file, and nothing the gate forbids. *)

\* No files were collected, because the answer was damaged.
NoneCollected == damaged /\ todo = {} /\ \A f \in Pair : review[f] = "none"

\* A review is finished by the stages that dress it, files without one are in
\* todo, and nothing is published before todo is empty.
Accounted ==
  /\ pc \in {"dress", "guard", "content"} => kind # "none"
  /\ pc = "published" => todo = {}
  /\ NoneCollected \/ \A f \in Asked : f \in todo \/ review[f] # "none"
  /\ pc = "begin" => \A f \in Pair : review[f] = "none"
  /\ pc \in {"infer", "ask_batch", "batch"} => entry # "file"

Gated ==
  config.strict => /\ pc \notin {"token", "unused"} /\ kind # "token"
                   /\ \A f \in Pair : review[f] # "token"

OInv == Accounted /\ Gated

LEMMA InitOInv == Init => OInv
  BY DEF Init, OInv, Accounted, Gated, Asked, Pair

\* What was missing once has been missing from then on.
Lasts == damaged => damaged'

LEMMA HeardLasts ==
  ASSUME NEW sound, NEW whole, Heard(sound, whole)
  PROVE  Lasts
  BY DEF Heard, Lasts

LEMMA UnheardLasts ==
  ASSUME Unheard
  PROVE  Lasts
  BY DEF Unheard, Lasts

\* Most steps only move on: not past the end, and not where the gate forbids.
LEMMA MoveKeeps ==
  ASSUME OInv, NEW next, Goto(next), UNCHANGED kind, Lasts,
         next \notin {"dress", "published", "begin"},
         next \in {"guard", "content"} => pc \in {"dress", "guard"},
         next \in {"infer", "ask_batch", "batch"} =>
           entry # "file" \/ pc \in {"infer", "ask_batch"},
         config.strict => next \notin {"token", "unused"}
  PROVE  OInv'
  BY DEF OInv, Accounted, Gated, Goto, Lasts, NoneCollected, Asked, Pair

LEMMA StageMoves ==
  ASSUME OInv, NEW here, NEW reader, NEW nexts, Stage(here, reader, nexts),
         \A next \in nexts :
           /\ next \notin {"dress", "published", "begin"}
           /\ next \in {"guard", "content"} => here \in {"dress", "guard"}
           /\ next \in {"infer", "ask_batch", "batch"} => here \in {"infer", "ask_batch"}
           /\ config.strict => next \notin {"token", "unused"}
  PROVE  OInv'
<1>1. PICK a \in Required, next \in nexts :
        /\ Heard(Sound(a, here), a.shape = "whole")
        /\ Goto(IF Accepted(a, reader) THEN next ELSE "raised")
  BY DEF Stage
<1>2. CASE Accepted(a, reader)
  BY <1>1, <1>2, MoveKeeps, HeardLasts DEF Stage
<1>3. CASE ~Accepted(a, reader)
  BY <1>1, <1>3, MoveKeeps, HeardLasts DEF Stage
<1> QED
  BY <1>2, <1>3

LEMMA SupportsMoves ==
  ASSUME OInv, NEW here, NEW yes, NEW no, Supports(here, yes, no),
         \A next \in {yes, no} :
           /\ next \notin {"dress", "published", "begin", "guard", "content"}
           /\ next \in {"infer", "ask_batch", "batch"} => here \in {"infer", "ask_batch"}
           /\ config.strict => next \notin {"token", "unused"}
  PROVE  OInv'
<1>1. Lasts
  BY HeardLasts DEF Supports
<1>2. \E next \in {yes, no, "raised"} : Goto(next)
  BY DEF Supports
<1> QED
  BY <1>1, <1>2, MoveKeeps DEF Supports

\* Files are collected at the beginning: those that were asked about, or none.
LEMMA CollectMoves ==
  ASSUME TypeOK, OInv, NEW nexts, NEW none, pc = "begin", entry # "file",
         Collect(nexts, none), none \in {"next", "empty"},
         \A next \in nexts :
           /\ next \in {"next", "infer", "unused", "raised"}
           /\ config.strict => next # "unused"
  PROVE  OInv'
<1>1. PICK a \in Required :
        /\ Heard(Sound(a, "collect"), a.shape = "whole")
        /\ CASE Accepted(a, Exact) -> \E next \in nexts : Goto(next)
             [] Accepted(a, Model \ Exact) ->
                  pc' = none /\ todo' = {} /\ UNCHANGED <<entry, config, review>>
             [] OTHER -> Goto("raised")
  BY DEF Collect
<1>2. CASE Goto("raised") \/ \E next \in nexts : Goto(next)
  BY <1>1, <1>2, MoveKeeps, HeardLasts DEF Collect
<1>3. CASE /\ Accepted(a, Model \ Exact)
           /\ pc' = none /\ todo' = {} /\ UNCHANGED <<entry, config, review>>
  <2>1. damaged'
    BY <1>1, <1>3 DEF Heard, Accepted, Model, Exact, TypeOK
  <2>2. NoneCollected'
    BY <1>3, <2>1 DEF OInv, Accounted, NoneCollected, Pair
  <2> QED
    BY <1>3, <2>2 DEF Collect, OInv, Accounted, Gated, Pair
<1> QED
  BY <1>1, <1>2, <1>3

LEMMA BatchServes ==
  ASSUME OInv, Batch
  PROVE  OInv'
<1>1. Lasts
  BY HeardLasts DEF Batch
<1>2. CASE UNCHANGED <<review, todo>>
  BY <1>1, <1>2 DEF Batch, Lasts, NoneCollected, OInv, Accounted, Gated, Asked, Pair
<1>3. ASSUME NEW S, review' = [f \in Pair |-> IF f \in S THEN "native" ELSE "none"],
             todo' = Pair \ S
      PROVE  OInv'
  <2>1. entry # "file" /\ UNCHANGED <<entry, config, kind>> /\ pc' \in {"next", "again", "raised"}
    BY DEF Batch, OInv, Accounted
  <2>2. \A f \in Pair : f \in todo' \/ review'[f] # "none"
    BY <1>3
  <2>3. \A f \in Pair : review'[f] # "token"
    BY <1>3
  <2> QED
    BY <2>1, <2>2, <2>3 DEF OInv, Accounted, Gated, Asked, Pair
<1> QED
  BY <1>2, <1>3 DEF Batch

LEMMA DressedServes ==
  ASSUME TypeOK, OInv, Content
  PROVE  OInv'
<1>1. CASE pc' = "raised" /\ UNCHANGED <<review, todo, kind>>
  <2>1. Lasts
    BY HeardLasts DEF Content
  <2> QED
    BY <1>1, <2>1 DEF Content, Lasts, NoneCollected, OInv, Accounted, Gated, Asked, Pair
<1>2. CASE \E f \in todo : /\ review' = [review EXCEPT ![f] = kind]
                           /\ todo' = todo \ {f} /\ kind' = "none" /\ pc' = "next"
  BY <1>2 DEF Content, TypeOK, NoneCollected, OInv, Accounted, Gated, Asked, Pair
<1> QED
  BY <1>1, <1>2 DEF Content

LEMMA ComparedKeeps ==
  ASSUME OInv, NEW as, Compared(as), Lasts, as # "none", config.strict => as # "token"
  PROVE  OInv'
  BY DEF Compared, Lasts, NoneCollected, OInv, Accounted, Gated, Goto, Asked, Pair

LEMMA LastWordMoves ==
  ASSUME OInv, NEW here, NEW as, LastWord(here, as), as # "none",
         config.strict => as # "token"
  PROVE  OInv'
<1> USE HeardLasts
<1>1. CASE Compared(as)
  BY <1>1, ComparedKeeps DEF LastWord
<1>2. CASE Goto("raised") /\ UNCHANGED kind
  BY <1>2, MoveKeeps DEF LastWord
<1> QED
  BY <1>1, <1>2 DEF LastWord

LEMMA FinalizeMoves ==
  ASSUME OInv, Finalize
  PROVE  OInv'
<1>4. Lasts
  BY HeardLasts DEF Finalize
<1>1. CASE Compared("source")
  BY <1>1, <1>4, ComparedKeeps
<1>2. CASE UNCHANGED kind /\ (Goto("complete") \/ Goto("raised") \/ Goto(Gate("token")))
  BY <1>2, <1>4, MoveKeeps DEF Gate
<1>3. \E a \in FinalizeAnswer :
        CASE FinalizeAttempt(a) = "diff" -> Compared("source")
          [] FinalizeAttempt(a) = "draft" -> Goto("complete") /\ UNCHANGED kind
          [] FinalizeAttempt(a) = "declined" -> Goto(Gate("token")) /\ UNCHANGED kind
          [] OTHER -> Goto("raised") /\ UNCHANGED kind
  BY DEF Finalize
<1> QED
  BY <1>1, <1>2, <1>3

LEMMA CertifiedMoves ==
  ASSUME OInv, Certified
  PROVE  OInv'
<1>3. Lasts
  BY HeardLasts DEF Certified
<1>1. CASE kind' = "native" /\ Goto("dress")
  BY <1>1, <1>3, ComparedKeeps DEF Compared
<1>2. CASE UNCHANGED kind /\ (Goto("parse") \/ Goto("raised"))
  BY <1>2, <1>3, MoveKeeps
<1> QED
  BY <1>1, <1>2 DEF Certified

LEMMA NextOInv == TypeOK /\ OInv /\ [Next]_vars => OInv'
<1> SUFFICES ASSUME TypeOK, OInv, [Next]_vars
             PROVE  OInv'
  OBVIOUS
<1>1. CASE BeginFile \/ BeginCommit \/ BeginLive
  BY <1>1, MoveKeeps, CollectMoves, UnheardLasts DEF BeginFile, BeginCommit, BeginLive, Raise
<1>2. CASE BeginBytes
  BY <1>2, MoveKeeps, CollectMoves, UnheardLasts DEF BeginBytes, Gate, Raise
<1>20. CASE SupportsBatch \/ SupportsOne \/ SupportsRefs
  BY <1>20, SupportsMoves DEF SupportsBatch, SupportsOne, SupportsRefs, Gate
<1>21. CASE SchemaLost
  BY <1>21, MoveKeeps, HeardLasts DEF SchemaLost, AfterSchema
<1>3. CASE Infer
  BY <1>3, StageMoves DEF Infer
<1>4. CASE CertifyRefs \/ CertifyTree
  <2>1. UNCHANGED kind /\ (Goto("raised") \/ Goto("bytes") \/ Goto(Gate("unused")))
    BY <1>4 DEF CertifyRefs, CertifyTree, CertifyAs, Verdict
  <2>2. Lasts
    BY <1>4, HeardLasts DEF CertifyRefs, CertifyTree, CertifyAs
  <2> QED
    BY <2>1, <2>2, MoveKeeps DEF Gate
<1>5. CASE Live
  BY <1>5, StageMoves DEF Live
<1>6. CASE Batch
  BY <1>6, BatchServes
<1>7. CASE Merge
  BY <1>7, StageMoves DEF Merge
<1>8. CASE NextFile
  BY <1>8 DEF NextFile, Unheard, NoneCollected, OInv, Accounted, Gated, Goto, Asked, Pair
<1>9. CASE Lifecycle \/ Schema
  BY <1>9, StageMoves, MoveKeeps, UnheardLasts DEF Lifecycle, Schema, AfterSchema, Raise
<1>10. CASE Certified
  BY <1>10, CertifiedMoves
<1>11. CASE Parse \/ LiteralLabels \/ NodeFacts \/ ProfileLabels
  BY <1>11, StageMoves, MoveKeeps, UnheardLasts DEF Parse, LiteralLabels, NodeFacts, ProfileLabels, Raise
<1>12. CASE TreeIds
  BY <1>12, MoveKeeps, UnheardLasts DEF TreeIds
<1>13. CASE Errors
  BY <1>13, StageMoves DEF Errors, Gate
<1>14. CASE Finalize
  BY <1>14, FinalizeMoves
<1>15. CASE Complete
  BY <1>15, LastWordMoves DEF Complete
<1>16. CASE SourceFallback
  <2>1. CASE LastWord("source", "source")
    BY <2>1, LastWordMoves
  <2>2. CASE LastWord("token", "token")
    BY <2>2, LastWordMoves DEF LastWord, OInv, Gated
  <2> QED
    BY <1>16, <2>1, <2>2 DEF SourceFallback
<1>17. CASE Dress \/ Guard
  BY <1>17, StageMoves, MoveKeeps, UnheardLasts DEF Dress, Guard, Raise
<1>18. CASE Content
  BY <1>18, DressedServes
<1>19. CASE UNCHANGED vars
  BY <1>19 DEF vars, NoneCollected, OInv, Accounted, Gated, Asked, Pair
<1> QED
  BY <1>1, <1>2, <1>3, <1>4, <1>5, <1>6, <1>7, <1>8, <1>9, <1>10, <1>11, <1>12,
     <1>13, <1>14, <1>15, <1>16, <1>17, <1>18, <1>19, <1>20, <1>21 DEF Next

\* With RUST_ONLY set no published review fell back for want of the core, and no
\* refusal is given in its place (_raise_rust_only_gate_error), for any number
\* of changed files.
THEOREM GateHolds == Spec => []NoTokensUnderTheGate
<1>1. IInv /\ OInv => NoTokensUnderTheGate
  BY DEF OInv, Gated, NoTokensUnderTheGate
<1>2. IInv /\ OInv /\ [Next]_vars => (IInv /\ OInv)'
  BY NextIInv, NextOInv DEF IInv
<1> QED
  BY <1>1, <1>2, InitIInv, InitOInv, PTL DEF Spec

\* A published review has a review of every file that was asked about, however the
\* batch and the routes of single files shared them out (diff_commit), unless a
\* damaged answer left no files at all.
THEOREM AllAreReviewed == Spec => []EveryFileIsReviewed
<1>1. IInv /\ OInv => EveryFileIsReviewed
  BY DEF OInv, Accounted, NoneCollected, EveryFileIsReviewed
<1>2. IInv /\ OInv /\ [Next]_vars => (IInv /\ OInv)'
  BY NextIInv, NextOInv DEF IInv
<1> QED
  BY <1>1, <1>2, InitIInv, InitOInv, PTL DEF Spec

-------------------------------------------------------------------------------
(* The commands. *)

LEMMA CommandNextReviews == CommandInit => Init
  BY DEF CommandInit

\* A step of a command is one of its review, or leaves it alone.
LEMMA StepReviews == [CommandNext]_allVars => [Next]_vars
<1> SUFFICES ASSUME [CommandNext]_allVars
             PROVE  [Next]_vars
  OBVIOUS
<1>1. CASE Review
  BY <1>1 DEF Review
<1>2. CASE CheckPolicy \/ ReviewFails \/ ShowFails \/ ReportFails \/ RecordFails
  BY <1>2 DEF CheckPolicy, ReviewFails, ShowFails, ReportFails, RecordFails, Abort
<1>3. CASE Reviewed \/ ShowFile \/ ShownAll \/ WriteDocument \/ Reported \/ Record
  BY <1>3 DEF Reviewed, ShowFile, ShownAll, WriteDocument, Reported, Record
<1>4. CASE (\E r \in Reports : WriteReport(r)) \/ ExitByGuardrails
  BY <1>4 DEF WriteReport, ExitByGuardrails
<1>5. CASE UNCHANGED allVars
  BY <1>5 DEF allVars
<1> QED
  BY <1>1, <1>2, <1>3, <1>4, <1>5 DEF CommandNext

\* Every command makes its review as NativeReview says, and so with its promises:
\* no failure of the Rust core is published by a command either.
THEOREM CommandsReview == CommandSpec => Spec
  BY CommandNextReviews, StepReviews, PTL DEF CommandSpec, Spec

-------------------------------------------------------------------------------
(* The review of a command *)

\* Where the policies have been looked at.
Late == {"ask_certified", "certified", "parse", "labels", "facts", "profile", "ids", "errors", "source",
         "token", "finalize", "complete", "dress", "guard", "content"}

\* The file has a protected change that its review has to tell.
Tells(f) == MayApply(f) /\ protected /\ f = Last

PolicyRead == pc \in Late => ~Unusable(Current)

PolicyApplied == pc = "content" /\ Tells(Current) => Current \in violations

Policy ==
  \A f \in Pair : review[f] # "none" => ~Unusable(f) /\ (Tells(f) => f \in violations)

\* One file is reviewed alone, and outside the batch.
OneFile ==
  entry = "file" => /\ todo \subseteq {0} /\ pc \notin {"infer", "ask_batch", "batch"}
                    /\ \A f \in Pair : review[f] # "none" => f = 0

Begun == pc = "begin" => \A f \in Pair : review[f] = "none"

RInv == PolicyRead /\ PolicyApplied /\ Policy /\ OneFile /\ Begun

LEMMA FirstIs ==
  ASSUME NEW S \in SUBSET Int, NEW f \in S, \A g \in S : f <= g
  PROVE  FirstOf(S) = f
<1>1. \E h \in S : \A g \in S : h <= g
  OBVIOUS
<1>2. FirstOf(S) \in S /\ \A g \in S : FirstOf(S) <= g
  BY <1>1, Zenon DEF FirstOf
<1>3. FirstOf(S) <= f /\ f <= FirstOf(S)
  BY <1>2
<1>4. FirstOf(S) \in Int /\ f \in Int
  BY <1>2
<1> QED
  BY <1>3, <1>4

\* What the policies say of a file depends on the arguments alone.
LEMMA PoliciesStay ==
  ASSUME UNCHANGED <<commandVars, entry>>, NEW f
  PROVE  (Unusable(f)' <=> Unusable(f)) /\ (Tells(f)' <=> Tells(f)) /\ (MayApply(f)' <=> MayApply(f))
  BY DEF commandVars, Unusable, Tells, MayApply, Relevant, Last

\* Collecting the files leads on, or to no file, or to an exception.
LEMMA Collected ==
  ASSUME NEW nexts, NEW none, Collect(nexts, none)
  PROVE  \/ \E next \in nexts \cup {"raised"} : Goto(next)
         \/ pc' = none /\ todo' = {} /\ UNCHANGED <<entry, config, review>>
  BY DEF Collect

\* The steps but Batch and Content: where they lead.
LEMMA Moves ==
  ASSUME Next, ~Batch, ~Content
  PROVE  /\ UNCHANGED <<entry, review>> /\ pc' # "begin"
         /\ UNCHANGED todo \/ (todo' = {} /\ pc' \in {"next", "empty"})
         /\ pc' \in Late => pc \in Late \cup {"schema"}
         /\ pc' = "content" => pc \in {"dress", "guard"}
         /\ pc' \in {"infer", "ask_batch", "batch"} /\ pc \notin {"infer", "ask_batch"} =>
              entry # "file"
<1>1. CASE BeginFile
  BY <1>1 DEF BeginFile, Goto, Late
<1>2. CASE BeginCommit \/ BeginLive \/ BeginBytes
  <2>1. /\ pc = "begin" /\ entry # "file" /\ UNCHANGED <<entry, review>>
        /\ pc' \in {"next", "infer", "unused", "empty", "live", "certify", "raised"}
        /\ UNCHANGED todo \/ (todo' = {} /\ pc' \in {"next", "empty"})
    BY <1>2, Collected DEF BeginCommit, BeginLive, BeginBytes, Raise, Goto, Gate
  <2> QED
    BY <2>1 DEF Late
<1>15. CASE SupportsBatch \/ SupportsOne \/ SupportsRefs
  BY <1>15 DEF SupportsBatch, SupportsOne, SupportsRefs, Supports, Goto, Gate, Late
<1>16. CASE SchemaLost
  BY <1>16 DEF SchemaLost, AfterSchema, Goto, Late
<1>3. CASE Infer \/ Live \/ Merge
  BY <1>3 DEF Infer, Live, Merge, Stage, Goto, Late
<1>4. CASE CertifyRefs \/ CertifyTree
  BY <1>4 DEF CertifyRefs, CertifyTree, CertifyAs, Verdict, Gate, Goto, Late
<1>5. CASE NextFile
  BY <1>5 DEF NextFile, Goto, Late
<1>6. CASE Lifecycle
  BY <1>6 DEF Lifecycle, Stage, Raise, Goto, Late
<1>7. CASE Schema \/ Parse
  BY <1>7 DEF Schema, AfterSchema, Parse, Stage, Raise, Goto, Late
<1>8. CASE Certified
  BY <1>8 DEF Certified, Goto, Late
<1>9. CASE LiteralLabels \/ NodeFacts \/ ProfileLabels
  BY <1>9 DEF LiteralLabels, NodeFacts, ProfileLabels, Stage, Goto, Late
<1>10. CASE TreeIds
  BY <1>10 DEF TreeIds, Goto, Late
<1>11. CASE Errors
  BY <1>11 DEF Errors, Stage, Gate, Goto, Late
<1>12. CASE Finalize
  <2>1. /\ pc = "finalize"
        /\ \E next \in {"dress", "complete", "raised", Gate("token")} : Goto(next)
    BY <1>12 DEF Finalize, Compared
  <2> QED
    BY <2>1 DEF Goto, Gate, Late
<1>13. CASE Complete \/ SourceFallback
  BY <1>13 DEF Complete, SourceFallback, LastWord, Compared, Goto, Late
<1>14. CASE Dress \/ Guard
  BY <1>14 DEF Dress, Guard, Stage, Raise, Goto, Late
<1> QED
  BY <1>1, <1>2, <1>3, <1>4, <1>5, <1>6, <1>7, <1>8, <1>9, <1>10, <1>11, <1>12,
     <1>13, <1>14, <1>15, <1>16 DEF Next

LEMMA MoveKeepsPolicy ==
  ASSUME RInv, Review, ~Batch, ~Content
  PROVE  RInv'
<1>1. /\ Next /\ Policed /\ UNCHANGED commandVars
      /\ violations' = IF /\ pc = "guard" /\ pc' = "content"
                         /\ MayApply(Current) /\ protected /\ Current = Last
                      THEN violations \cup {Current} ELSE violations
  BY DEF Review
<1>2. UNCHANGED <<entry, review>> /\ UNCHANGED <<commandVars, entry>>
  BY <1>1, Moves
<1>3. pc' \in Late => Current' = Current
  BY <1>1, Moves DEF Current, Late
<1>4. violations \subseteq violations'
  BY <1>1
<1>5. \A f : (Unusable(f)' <=> Unusable(f)) /\ (Tells(f)' <=> Tells(f))
  BY <1>2, PoliciesStay
<1>6. PolicyRead'
  <2> SUFFICES ASSUME pc' \in Late
               PROVE  ~Unusable(Current)
    BY <1>3, <1>5 DEF PolicyRead
  <2>1. CASE pc = "schema" /\ Unusable(Current)
    BY <1>1, <2>1 DEF Policed, PolicyRead, Late
  <2>2. CASE pc = "schema" /\ ~Unusable(Current)
    BY <2>2
  <2>3. CASE pc # "schema"
    BY <1>1, <2>3, Moves DEF RInv, PolicyRead
  <2> QED
    BY <2>1, <2>2, <2>3
<1>7. PolicyApplied'
  <2> SUFFICES ASSUME pc' = "content", Tells(Current)
               PROVE  Current \in violations'
    BY <1>3, <1>5 DEF PolicyApplied, Late
  <2>1. pc = "guard"
    BY <1>1, Moves DEF Policed, Tells
  <2> QED
    BY <1>1, <2>1 DEF Tells
<1>8. Policy'
  BY <1>2, <1>4, <1>5 DEF RInv, Policy, Pair
<1>9. OneFile'
  BY <1>1, <1>2, Moves DEF RInv, OneFile, Pair
<1>10. Begun'
  BY <1>1, Moves DEF Begun
<1> QED
  BY <1>6, <1>7, <1>8, <1>9, <1>10 DEF RInv

\* The batch reviews no file that a policy concerns.
LEMMA BatchKeepsPolicy ==
  ASSUME RInv, Review, Batch
  PROVE  RInv'
<1>1. /\ Policed /\ UNCHANGED commandVars /\ violations' = violations
      /\ pc = "batch" /\ pc' \in {"next", "again", "raised"} /\ UNCHANGED entry
      /\ \A f \in Pair : review'[f] \in {"native", "none", review[f]}
  BY DEF Review, Batch
<1>2. \A f : /\ Unusable(f)' <=> Unusable(f)
             /\ Tells(f)' <=> Tells(f)
  BY <1>1, PoliciesStay
<1>3. ASSUME NEW f \in Pair, review'[f] # "none"
      PROVE  ~Unusable(f) /\ (Tells(f) => f \in violations)
  <2>1. CASE review'[f] = "native"
    BY <1>1, <2>1 DEF Policed, Tells
  <2>2. CASE review'[f] = review[f]
    BY <1>3, <2>2 DEF RInv, Policy
  <2> QED
    BY <1>1, <1>3, <2>1, <2>2
<1>4. Policy'
  BY <1>1, <1>2, <1>3 DEF Policy, Pair
<1> QED
  BY <1>1, <1>4 DEF RInv, PolicyRead, PolicyApplied, OneFile, Begun, Late

\* The file under review gets it, with what the policies found.
LEMMA ContentKeepsPolicy ==
  ASSUME TypeOK, RInv, Review, Content
  PROVE  RInv'
<1>1. /\ UNCHANGED commandVars /\ violations' = violations /\ UNCHANGED entry
      /\ pc = "content" /\ pc' \in {"next", "raised"}
  BY DEF Review, Content
<1>2. \A f : /\ Unusable(f)' <=> Unusable(f)
             /\ Tells(f)' <=> Tells(f)
  BY <1>1, PoliciesStay
<1>3. CASE UNCHANGED <<review, todo>>
  BY <1>1, <1>2, <1>3 DEF RInv, PolicyRead, PolicyApplied, Policy, OneFile, Begun, Late, Pair
<1>4. ASSUME NEW f \in todo, \A g \in todo : f <= g,
             review' = [review EXCEPT ![f] = kind], todo' = todo \ {f}
      PROVE  RInv'
  <2>1. todo \in SUBSET Int /\ f \in Pair
    BY DEF TypeOK, Pair
  <2>2. Current = f
    BY <1>4, <2>1, FirstIs DEF Current
  <2>3. ~Unusable(f) /\ (Tells(f) => f \in violations)
    BY <1>1, <2>2 DEF RInv, PolicyRead, PolicyApplied, Late
  <2>4. \A g \in Pair : review'[g] = IF g = f THEN kind ELSE review[g]
    BY <1>4 DEF TypeOK
  <2>5. Policy'
    BY <1>1, <1>2, <2>3, <2>4 DEF RInv, Policy, Pair
  <2>6. OneFile'
    BY <1>1, <1>4, <2>4 DEF RInv, OneFile, Pair
  <2> QED
    BY <1>1, <2>5, <2>6 DEF RInv, PolicyRead, PolicyApplied, Begun, Late
<1> QED
  BY <1>3, <1>4 DEF Content

LEMMA ReviewKeepsPolicy ==
  ASSUME TypeOK, RInv, Review
  PROVE  RInv'
  BY MoveKeepsPolicy, BatchKeepsPolicy, ContentKeepsPolicy

\* What is no step of the review leaves all of it alone.
LEMMA RestKeepsPolicy ==
  ASSUME RInv, UNCHANGED <<vars, commandVars, violations>>
  PROVE  RInv'
<1>1. UNCHANGED <<pc, todo, review, entry>> /\ UNCHANGED <<commandVars, entry>>
  BY DEF vars
<1>2. Current' = Current
  BY <1>1 DEF Current
<1>3. \A f : /\ Unusable(f)' <=> Unusable(f)
             /\ Tells(f)' <=> Tells(f)
  BY <1>1, PoliciesStay
<1> QED
  BY <1>1, <1>2, <1>3 DEF RInv, PolicyRead, PolicyApplied, Policy, OneFile, Begun, Pair

-------------------------------------------------------------------------------
(* The command *)

Passed(stages) == stage \in stages \/ exit = "success"

\* What a command is sure of at each stage.
Sure ==
  /\ exit = "success" => stage = "over" /\ (ask.strict => violations = {})
  /\ Passed({"show", "report", "record", "verdict"}) =>
       pc = "published" \/ (pc = "begin" /\ entry = "commit")
  /\ Passed({"report", "record", "verdict"}) /\ command # "check" => shown = ReviewedFiles
  /\ Passed({"record", "verdict"}) => ask.reports = written
  /\ Passed({"review", "show", "report", "record", "verdict"}) /\ command = "check" =>
       policy.named \notin {"missing", "broken"}
  /\ policy \in Policies

CInv == IInv /\ OInv /\ RInv /\ Sure

LEMMA InitCInv == CommandInit => CInv
<1> SUFFICES ASSUME CommandInit
             PROVE  CInv
  OBVIOUS
<1>1. IInv /\ OInv
  BY CommandNextReviews, InitIInv, InitOInv
<1>2. /\ pc = "begin" /\ todo = (IF entry = "file" THEN {0} ELSE Pair)
      /\ review = [f \in Pair |-> "none"]
  BY DEF CommandInit, Init, Asked
<1>3. RInv
  BY <1>2 DEF RInv, PolicyRead, PolicyApplied, Policy, OneFile, Begun, Late
<1>4. Sure
  BY DEF CommandInit, Sure, Passed
<1> QED
  BY <1>1, <1>3, <1>4 DEF CInv

\* The review goes on, and nothing is finished yet.
LEMMA ReviewKeepsSure ==
  ASSUME Sure, Review
  PROVE  Sure'
  BY DEF Review, Sure, Passed, commandVars

\* The review is over: its files stay.
LEMMA FilesStay ==
  ASSUME UNCHANGED vars
  PROVE  ReviewedFiles' = ReviewedFiles
  BY DEF vars, ReviewedFiles, Pair

LEMMA StageKeepsSure ==
  ASSUME Sure, UNCHANGED <<vars, commandVars>>,
         \/ CheckPolicy \/ ReviewFails \/ Reviewed
         \/ ShowFile \/ ShownAll \/ WriteDocument \/ ShowFails
         \/ \E r \in Reports : WriteReport(r)
         \/ ReportFails \/ Reported \/ Record \/ RecordFails \/ ExitByGuardrails
  PROVE  Sure' /\ UNCHANGED violations
<1>1. UNCHANGED <<pc, entry, command, policy, ReviewedFiles>>
  BY FilesStay DEF vars, commandVars
<1>2. CASE CheckPolicy
  BY <1>1, <1>2 DEF CheckPolicy, Exit, Sure, Passed
<1>3. CASE ReviewFails \/ ShowFails \/ ReportFails \/ RecordFails
  BY <1>1, <1>3 DEF ReviewFails, ShowFails, ReportFails, RecordFails, Abort, Exit, Sure, Passed
<1>4. CASE Reviewed
  BY <1>1, <1>4 DEF Reviewed, Sure, Passed
<1>5. CASE ShowFile \/ ShownAll \/ WriteDocument
  BY <1>1, <1>5 DEF ShowFile, ShownAll, WriteDocument, Sure, Passed
<1>6. CASE \E r \in Reports : WriteReport(r)
  BY <1>1, <1>6 DEF WriteReport, Sure, Passed
<1>7. CASE Reported \/ Record
  BY <1>1, <1>7 DEF Reported, Record, Sure, Passed
<1>8. CASE ExitByGuardrails
  BY <1>1, <1>8 DEF ExitByGuardrails, Exit, Sure, Passed
<1> QED
  BY <1>2, <1>3, <1>4, <1>5, <1>6, <1>7, <1>8

LEMMA NextCInv == CInv /\ [CommandNext]_allVars => CInv'
<1> SUFFICES ASSUME CInv, [CommandNext]_allVars
             PROVE  CInv'
  OBVIOUS
<1>1. TypeOK /\ IInv' /\ OInv'
  BY StepReviews, NextIInv, NextOInv DEF CInv, IInv
<1>2. CASE Review
  BY <1>1, <1>2, ReviewKeepsPolicy, ReviewKeepsSure DEF CInv
<1>3. CASE UNCHANGED allVars
  <2>1. UNCHANGED <<vars, commandVars, violations>> /\ UNCHANGED <<pc, entry, ReviewedFiles>>
    BY <1>3, FilesStay DEF allVars, cliVars, vars
  <2>2. Sure'
    BY <1>3, <2>1 DEF allVars, cliVars, commandVars, CInv, Sure, Passed
  <2> QED
    BY <1>1, <2>1, <2>2, RestKeepsPolicy DEF CInv
<1>4. CASE ~Review /\ CommandNext
  <2>1. UNCHANGED <<vars, commandVars>>
    BY <1>4 DEF CommandNext, CheckPolicy, ReviewFails, Reviewed, ShowFile, ShownAll, WriteDocument,
                ShowFails, WriteReport, ReportFails, Reported, Record, RecordFails,
                ExitByGuardrails, Abort
  <2>2. Sure' /\ UNCHANGED violations
    BY <1>4, <2>1, StageKeepsSure DEF CInv, CommandNext
  <2> QED
    BY <1>1, <2>1, <2>2, RestKeepsPolicy DEF CInv
<1> QED
  BY <1>2, <1>3, <1>4

\* If anything was reviewed, the file that may have moved was.
LEMMA LastReviewed ==
  ASSUME CInv, exit = "success", ReviewedFiles # {}
  PROVE  Last \in ReviewedFiles
<1>1. pc = "published"
  BY DEF CInv, RInv, Begun, Sure, Passed, ReviewedFiles
<1>2. CASE entry = "file"
  BY <1>2 DEF CInv, RInv, OneFile, ReviewedFiles, Last
<1>3. CASE entry # "file"
  <2>1. todo = {} /\ \A f \in Pair : review[f] # "none"
    BY <1>1, <1>3 DEF CInv, OInv, Accounted, NoneCollected, Asked, ReviewedFiles
  <2>2. Last \in Pair
    BY <1>3, NativeReviewAssumption DEF Last, Pair
  <2> QED
    BY <2>1, <2>2 DEF ReviewedFiles
<1> QED
  BY <1>2, <1>3

LEMMA CInvTrue == CInv => SuccessIsTrue
<1> SUFFICES ASSUME CInv, exit = "success"
             PROVE  NothingIsLeftOut /\ ProtectionHolds
  BY DEF SuccessIsTrue
<1>1. NothingIsLeftOut
  BY DEF CInv, Sure, Passed, NothingIsLeftOut
<1>2. command = "check" => policy.named \notin {"missing", "broken"}
  BY DEF CInv, Sure, Passed
<1>3. CASE ReviewedFiles = {}
  <2>1. Last \notin ReviewedFiles
    BY <1>3
  <2> QED
    BY <1>1, <1>2, <1>3, <2>1 DEF ProtectionHolds
<1>4. CASE ReviewedFiles # {}
  <2>1. ~Unusable(Last) /\ (Tells(Last) => Last \in violations)
    BY <1>4, LastReviewed DEF CInv, RInv, Policy, ReviewedFiles
  <2>2. policy \in Policies /\ (ask.strict => violations = {})
    BY DEF CInv, Sure
  <2>3. Relevant(Last) = IF policy.named # "none" THEN {policy.named} ELSE {policy.old, policy.new}
    BY DEF Relevant
  <2>4. "missing" \notin Relevant(Last) /\ "broken" \notin Relevant(Last)
    BY <2>1 DEF Unusable
  <2>5. policy.named # "none" => policy.old = "none" /\ policy.new = "none"
    BY <2>2 DEF Policies
  <2>6. policy.old # "broken" /\ policy.new # "broken" /\ policy.named \notin {"missing", "broken"}
    BY <2>3, <2>4, <2>5
  <2>7. "rules" \in {policy.named, policy.old, policy.new} => MayApply(Last)
    BY <2>3, <2>5 DEF MayApply
  <2>8. ~(ask.strict /\ protected /\ MayApply(Last))
    BY <2>1, <2>2 DEF Tells
  <2>9. ask.strict /\ protected /\ Last \in ReviewedFiles =>
          "rules" \notin {policy.named, policy.old, policy.new}
    BY <2>7, <2>8
  <2> QED
    BY <1>1, <2>6, <2>9 DEF ProtectionHolds
<1> QED
  BY <1>3, <1>4

\* A command that exits 0 has shown a review of every file and written every
\* report it was asked for, and no strict guardrail let a protected change pass:
\* for any number of changed files, and whatever fails on the way
\* (cli/_commands.py:447, "A gate must verify it can do its job before reporting
\* that it did").
THEOREM SuccessTold == CommandSpec => []SuccessIsTrue
  BY InitCInv, NextCInv, CInvTrue, PTL DEF CommandSpec

===============================================================================
