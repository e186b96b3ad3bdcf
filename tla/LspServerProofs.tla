--------------------------- MODULE LspServerProofs ---------------------------
(* Theorems about LspServer, for any documents, texts and lens requests, with and
   without faults: what the caches hold, what the editor is shown, and that the
   server gives up no text without a reason.

   A text under way is the task of its document (OneTask), and a task is of the
   newest text (TaskIsNewest): so a text is cancelled only for a newer one or with
   its document, and what is published last is newest (CacheInv).  A task of a
   closed document came after the close (ClosedInv). *)
EXTENDS LspServer, SequenceTheorems, TLAPS

\* A text under way is the task that its document knows.
OneTask == \A t \in Scheduled : phase[t] \in Active => task[DocOf(t)] = t

TaskIsNewest ==
  \A d \in Docs : task[d] # Nothing => DocOf(task[d]) = d /\ Newest(d, task[d])

CacheInv ==
  \A d \in Docs : diffCache[d] # Nothing =>
    phase[diffCache[d]] = "published" /\ (Newest(d, diffCache[d]) \/ Busy(d))

ClosedInv ==
  /\ \A t \in Scheduled : phase[t] \in Active /\ DocOf(t) \notin open => t > closeMark[DocOf(t)]
  /\ ClosedHoldsOnlyOvertaken

\* Lenses follow the caches, of closed documents too.
LensInv ==
  canRefresh => \A d \in Docs \ untold : lenses[d] = diffCache[d] \/ d \in refreshing

Inv == TypeOK /\ OneTask /\ TaskIsNewest /\ CacheInv /\ ClosedInv /\ CachesAgree /\ LensInv

-------------------------------------------------------------------------------
(* Types *)

LEMMA TextFacts ==
  ASSUME TypeOK
  PROVE  /\ Len(texts) \in Nat /\ Len(texts) <= MaxTexts /\ handled \in 0..Len(texts)
         /\ DOMAIN texts = 1..Len(texts) /\ DOMAIN texts \subseteq Texts
         /\ Scheduled \subseteq DOMAIN texts /\ Nothing \notin Scheduled
         /\ \A t \in DOMAIN texts : DocOf(t) \in Docs
  BY LspServerAssumption DEF TypeOK, Texts, Scheduled, DocOf, Nothing

LEMMA TextsAppend ==
  ASSUME TypeOK, NEW d \in Docs, texts' = Append(texts, d)
  PROVE  /\ texts' \in Seq(Docs) /\ Len(texts') = Len(texts) + 1
         /\ DOMAIN texts' = 1..Len(texts) + 1
         /\ texts'[Len(texts) + 1] = d
         /\ \A t \in DOMAIN texts : texts'[t] = texts[t]
  BY AppendProperties DEF TypeOK

LEMMA InitInv == Init => Inv
<1> SUFFICES ASSUME Init
             PROVE  Inv
  OBVIOUS
<1>1. handled = 0 /\ Scheduled = {} /\ Len(texts) = 0 /\ texts \in Seq(Docs)
  BY DEF Init, Scheduled
<1>2. TypeOK
  BY <1>1, LspServerAssumption DEF Init, TypeOK, Phases, Texts, Nothing
<1> QED
  BY <1>1, <1>2 DEF Init, Inv, OneTask, TaskIsNewest, CacheInv, ClosedInv,
                    ClosedHoldsOnlyOvertaken, CachesAgree, LensInv

\* What a task or a cancellation does to phases keeps their types.
LEMMA CancelTaskIs ==
  ASSUME TypeOK, NEW t
  PROVE  /\ CancelTask(t) \in [Texts -> Phases]
         /\ \A x \in Texts : CancelTask(t)[x] = IF x = t /\ phase[x] \in Active THEN "cancelled"
                                                ELSE phase[x]
         /\ \A x \in Texts : /\ CancelTask(t)[x] = "none" <=> phase[x] = "none"
                             /\ CancelTask(t)[x] = "arrived" <=> phase[x] = "arrived"
  BY DEF TypeOK, CancelTask, Phases, Active

LEMMA ArrivesType ==
  ASSUME TypeOK, NEW d \in Docs, NEW opens \in BOOLEAN, TextArrives(d, opens)
  PROVE  TypeOK'
<1> DEFINE n == Len(texts) + 1
<1>1. n \in Texts /\ Len(texts') = n /\ texts' \in Seq(Docs) /\ n <= MaxTexts
  BY TextFacts, TextsAppend, LspServerAssumption DEF TextArrives, Texts
<1>2. /\ phase' \in [Texts -> Phases]
      /\ \A t \in Texts : phase'[t] = IF t = n THEN "arrived" ELSE phase[t]
  BY <1>1 DEF TextArrives, TypeOK, Phases
<1>3. Len(texts) \in Nat /\ handled \in 0..Len(texts) /\ handled' = handled
  BY TextFacts DEF TextArrives
<1>4. \A t \in Texts : /\ phase'[t] = "none" <=> t > n
                       /\ phase'[t] = "arrived" <=> t \in (handled + 1)..n
  BY <1>1, <1>2, <1>3 DEF TypeOK, Texts
<1>5. open' \subseteq Docs
  BY DEF TextArrives, TypeOK
<1>6. Scheduled' = Scheduled /\ UNCHANGED <<task, canRefresh, lenses, asked, withdrawn, closeMark, results>>
  BY DEF TextArrives, Scheduled
<1>7. handled' \in 0..Len(texts') /\ Len(texts') <= MaxTexts
  BY <1>1, <1>3
<1>8. \A t \in Texts : /\ phase'[t] = "none" <=> t > Len(texts')
                       /\ phase'[t] = "arrived" <=> t \in (handled' + 1)..Len(texts')
  BY <1>1, <1>3, <1>4
<1>9. /\ task' \in [Docs -> Scheduled' \cup {Nothing}]
      /\ diffCache' \in [Docs -> Scheduled' \cup {Nothing}]
      /\ sourceCache' \in [Docs -> Scheduled' \cup {Nothing}]
      /\ canRefresh' \in BOOLEAN
      /\ shown' \in [Docs -> Scheduled' \cup {Nothing, Failed}]
      /\ lenses' \in [Docs -> Scheduled' \cup {Nothing}]
      /\ refreshing' \subseteq Docs /\ asked' \in 0..MaxLenses /\ untold' \subseteq Docs
      /\ withdrawn' \subseteq Scheduled' /\ closeMark' \in [Docs -> 0..handled']
  BY <1>3, <1>6 DEF TypeOK, results
<1> HIDE DEF n
<1> QED
  BY <1>1, <1>2, <1>5, <1>7, <1>8, <1>9 DEF TypeOK

LEMMA InvalidateType ==
  ASSUME TypeOK, NEW d \in Docs, Invalidate(d)
  PROVE  /\ diffCache' \in [Docs -> Scheduled \cup {Nothing}]
         /\ sourceCache' \in [Docs -> Scheduled \cup {Nothing}]
         /\ shown' \in [Docs -> Scheduled \cup {Nothing, Failed}]
         /\ refreshing' \subseteq Docs /\ untold' \subseteq Docs
  BY DEF TypeOK, Invalidate, Refresh

\* Texts that neither arrive nor are taken up keep the shape of phase.
LEMMA SettlesType ==
  ASSUME TypeOK, phase' \in [Texts -> Phases],
         UNCHANGED <<texts, handled>>,
         \A x \in Texts : \/ phase'[x] = phase[x]
                          \/ phase[x] \in Active /\ phase'[x] \notin {"none", "arrived"}
  PROVE  \A x \in Texts : /\ phase'[x] = "none" <=> x > Len(texts')
                          /\ phase'[x] = "arrived" <=> x \in (handled' + 1)..Len(texts')
  BY DEF TypeOK, Active

LEMMA CloseType ==
  ASSUME TypeOK, NEW d \in Docs, DidClose(d)
  PROVE  TypeOK'
<1>1. Scheduled' = Scheduled /\ UNCHANGED <<texts, handled>>
  BY DEF DidClose, Scheduled
<1>2. phase' \in [Texts -> Phases]
  BY CancelTaskIs DEF DidClose
<1>3. \A x \in Texts : \/ phase'[x] = phase[x]
                       \/ phase[x] \in Active /\ phase'[x] \notin {"none", "arrived"}
  BY CancelTaskIs DEF DidClose
<1>4. \A x \in Texts : /\ phase'[x] = "none" <=> x > Len(texts')
                       /\ phase'[x] = "arrived" <=> x \in (handled' + 1)..Len(texts')
  BY <1>1, <1>2, <1>3, SettlesType
<1>5. closeMark' \in [Docs -> 0..handled]
  BY TextFacts DEF DidClose, TypeOK
<1>6. withdrawn' \subseteq Scheduled /\ open' \subseteq Docs
  BY DEF DidClose, TypeOK, Unsettled
<1>7. /\ task' \in [Docs -> Scheduled \cup {Nothing}]
      /\ diffCache' \in [Docs -> Scheduled \cup {Nothing}]
      /\ sourceCache' \in [Docs -> Scheduled \cup {Nothing}]
      /\ lenses' \in [Docs -> Scheduled \cup {Nothing}]
  BY DEF DidClose, TypeOK
<1> QED
  BY <1>1, <1>2, <1>4, <1>5, <1>6, <1>7 DEF DidClose, TypeOK

LEMMA LensType ==
  ASSUME TypeOK, NEW d \in Docs, CodeLens(d)
  PROVE  TypeOK'
<1>1. /\ UNCHANGED <<open, texts, handled, phase, task, canRefresh, withdrawn, closeMark>>
      /\ Scheduled' = Scheduled
  BY DEF CodeLens, Scheduled
<1>2. asked' \in 0..MaxLenses
  BY LspServerAssumption DEF CodeLens, TypeOK
<1>3. /\ diffCache' \in [Docs -> Scheduled \cup {Nothing}]
      /\ sourceCache' \in [Docs -> Scheduled \cup {Nothing}]
      /\ shown' \in [Docs -> Scheduled \cup {Nothing, Failed}]
      /\ refreshing' \subseteq Docs /\ untold' \subseteq Docs
      /\ lenses' \in [Docs -> Scheduled \cup {Nothing}]
  <2>1. CASE Invalidate(d) /\ lenses' = [lenses EXCEPT ![d] = Nothing]
    BY <2>1, InvalidateType DEF TypeOK
  <2>2. CASE /\ lenses' = [lenses EXCEPT ![d] = diffCache[d]]
             /\ refreshing' = refreshing \ {d}
             /\ untold' = untold \ {d}
             /\ UNCHANGED <<diffCache, sourceCache, shown>>
    BY <2>2 DEF TypeOK
  <2> QED
    BY <2>1, <2>2 DEF CodeLens
<1> QED
  BY <1>1, <1>2, <1>3 DEF TypeOK

LEMMA ScheduleType ==
  ASSUME TypeOK, ScheduleDiff
  PROVE  TypeOK'
<1> DEFINE t == handled + 1
<1>1. /\ t \in DOMAIN texts /\ t \in Texts /\ handled' = t /\ handled \in Nat
      /\ t \in 0..Len(texts) /\ Scheduled' = Scheduled \cup {t} /\ DocOf(t) \in Docs
      /\ UNCHANGED <<editorVars, canRefresh, withdrawn, closeMark, results>>
  BY TextFacts DEF ScheduleDiff, Scheduled
<1>2. /\ phase' \in [Texts -> Phases]
      /\ \A x \in Texts : phase'[x] = IF x = t THEN "sleeping" ELSE CancelTask(task[DocOf(t)])[x]
  BY <1>1, CancelTaskIs DEF ScheduleDiff, Phases, Active
<1>3. \A x \in Texts : /\ phase'[x] = "none" <=> x > Len(texts)
                       /\ phase'[x] = "arrived" <=> x \in (handled' + 1)..Len(texts)
  <2>1. \A x \in Texts : x # t => /\ phase'[x] = "none" <=> phase[x] = "none"
                                  /\ phase'[x] = "arrived" <=> phase[x] = "arrived"
    BY <1>2, CancelTaskIs
  <2>2. \A x \in Texts : /\ phase[x] = "none" <=> x > Len(texts)
                         /\ phase[x] = "arrived" <=> x \in (handled + 1)..Len(texts)
    BY DEF TypeOK
  <2>3. \A x \in Texts : x # t => /\ phase'[x] = "none" <=> x > Len(texts)
                                  /\ phase'[x] = "arrived" <=> x \in (handled' + 1)..Len(texts)
    BY <1>1, <2>1, <2>2, TextFacts DEF Texts
  <2>4. /\ phase'[t] # "none" /\ ~(t > Len(texts))
        /\ phase'[t] # "arrived" /\ ~(t \in (handled' + 1)..Len(texts))
    BY <1>1, <1>2, TextFacts
  <2>5. ASSUME NEW x \in Texts
        PROVE  /\ phase'[x] = "none" <=> x > Len(texts)
               /\ phase'[x] = "arrived" <=> x \in (handled' + 1)..Len(texts)
    <3>1. CASE x = t
      BY <3>1, <2>4, Zenon
    <3>2. CASE x # t
      BY <3>2, <2>3
    <3> QED
      BY <3>1, <3>2
  <2> QED
    BY <2>5
<1>4. task' \in [Docs -> Scheduled' \cup {Nothing}]
  BY <1>1 DEF ScheduleDiff, TypeOK
<1>5. closeMark \in [Docs -> 0..handled']
  BY <1>1 DEF TypeOK
<1> HIDE DEF t
<1> QED
  BY <1>1, <1>2, <1>3, <1>4, <1>5 DEF TypeOK, editorVars, results

LEMMA TaskType ==
  ASSUME TypeOK, NEW t \in Texts, Task(t)
  PROVE  /\ TypeOK' /\ t \in Scheduled /\ phase[t] \in Active
         /\ \A x \in Texts : x # t => phase'[x] = phase[x]
         /\ UNCHANGED <<editorVars, handled, task, canRefresh, withdrawn, closeMark>>
<1>1. /\ UNCHANGED <<editorVars, handled, task, canRefresh, withdrawn, closeMark>>
      /\ Scheduled' = Scheduled
      /\ phase[t] \in Active
  BY DEF Task, Submit, DoDiff, Push, Scheduled, Active
<1>2. \E f \in {"computing", "computed", "uncomputed", "published", "failed"} :
        phase' = [phase EXCEPT ![t] = f]
  BY DEF Task, Submit, DoDiff, Push
<1>3. /\ phase' \in [Texts -> Phases]
      /\ \A x \in Texts : x # t => phase'[x] = phase[x]
      /\ phase'[t] \notin {"none", "arrived"}
  BY <1>2 DEF TypeOK, Phases, Active
<1>4. t \in Scheduled /\ DocOf(t) \in Docs
  <2>1. phase[t] # "none" /\ phase[t] # "arrived"
    BY <1>1 DEF Active
  <2>2. t <= Len(texts) /\ ~(t \in (handled + 1)..Len(texts))
    BY <2>1, TextFacts DEF TypeOK, Texts
  <2>3. t \in Scheduled
    BY <2>2, TextFacts DEF Scheduled, Texts
  <2> QED
    BY <2>3, TextFacts
<1>5. \A x \in Texts : /\ phase'[x] = "none" <=> x > Len(texts')
                       /\ phase'[x] = "arrived" <=> x \in (handled' + 1)..Len(texts')
  BY <1>1, <1>3, SettlesType DEF editorVars
<1>6. /\ diffCache' \in [Docs -> Scheduled \cup {Nothing}]
      /\ sourceCache' \in [Docs -> Scheduled \cup {Nothing}]
      /\ shown' \in [Docs -> Scheduled \cup {Nothing, Failed}]
      /\ refreshing' \subseteq Docs /\ untold' \subseteq Docs
  <2>1. CASE Invalidate(DocOf(t))
    BY <2>1, <1>4, InvalidateType
  <2>2. CASE /\ diffCache' = [diffCache EXCEPT ![DocOf(t)] = t]
             /\ sourceCache' = [sourceCache EXCEPT ![DocOf(t)] = t]
             /\ shown' = [shown EXCEPT ![DocOf(t)] = t]
             /\ Refresh(DocOf(t))
    BY <2>2, <1>4 DEF TypeOK, Refresh
  <2>3. CASE UNCHANGED results
    BY <2>3 DEF TypeOK, results
  <2> QED
    BY <2>1, <2>2, <2>3 DEF Task, Submit, DoDiff, Push
<1>7. TypeOK'
  BY <1>1, <1>3, <1>5, <1>6 DEF TypeOK, editorVars
<1> QED
  BY <1>1, <1>3, <1>4, <1>7

-------------------------------------------------------------------------------
(* Tasks, caches and closes *)

TInv == OneTask /\ TaskIsNewest /\ CacheInv /\ ClosedInv

\* A text that arrives is not scheduled yet.
LEMMA ArrivesKeeps ==
  ASSUME TypeOK, TInv, NEW d \in Docs, NEW opens \in BOOLEAN, TextArrives(d, opens)
  PROVE  TInv'
<1>1. /\ Scheduled' = Scheduled /\ open \subseteq open'
      /\ UNCHANGED <<task, diffCache, closeMark>>
  BY DEF TextArrives, Scheduled, results
<1>2. /\ \A t \in Scheduled : texts'[t] = texts[t] /\ phase'[t] = phase[t]
  <2>1. \A t \in Scheduled : t \in DOMAIN texts /\ t \in Texts /\ t # Len(texts) + 1
    BY TextFacts
  <2> QED
    BY <2>1, TextsAppend DEF TextArrives, TypeOK
<1>3. \A e \in Docs : task[e] # Nothing => task[e] \in Scheduled
  BY DEF TypeOK
<1>4. \A e \in Docs : diffCache[e] # Nothing => diffCache[e] \in Scheduled
  BY DEF TypeOK
<1>5. Unsettled' = Unsettled /\ \A t \in Scheduled : DocOf(t)' = DocOf(t) /\ DocOf(t) \in Docs
  BY <1>1, <1>2, TextFacts DEF Unsettled, DocOf
<1>6. \A e \in Docs : Busy(e)' = Busy(e) /\ \A t : Newest(e, t)' = Newest(e, t)
  BY <1>1, <1>5 DEF Busy, Newest, Unsettled
<1>7. OneTask' /\ TaskIsNewest'
  BY <1>1, <1>2, <1>3, <1>5, <1>6 DEF TInv, OneTask, TaskIsNewest
<1>8. CacheInv'
  BY <1>1, <1>2, <1>4, <1>6 DEF TInv, CacheInv
<1>9. ClosedInv'
  BY <1>1, <1>2, <1>5 DEF TInv, ClosedInv, ClosedHoldsOnlyOvertaken
<1> QED
  BY <1>7, <1>8, <1>9 DEF TInv

\* A close cancels what is under way for its document, and nothing else.
LEMMA CloseKeeps ==
  ASSUME TypeOK, TInv, NEW d \in Docs, DidClose(d)
  PROVE  TInv'
<1>1. /\ UNCHANGED <<texts, handled>> /\ Scheduled' = Scheduled
      /\ task' = [task EXCEPT ![d] = Nothing]
      /\ diffCache' = [diffCache EXCEPT ![d] = Nothing]
      /\ open' = open \ {d} /\ closeMark' = [closeMark EXCEPT ![d] = handled]
  BY DEF DidClose, Scheduled
<1>2. \A t \in Scheduled : DocOf(t)' = DocOf(t) /\ DocOf(t) \in Docs /\ t \in Texts
  BY <1>1, TextFacts DEF DocOf
<1>3. \A t \in Scheduled :
        phase'[t] = IF t = task[d] /\ phase[t] \in Active THEN "cancelled" ELSE phase[t]
  BY <1>2, CancelTaskIs DEF DidClose
<1>4. \A t \in Scheduled : phase'[t] \in Active <=> phase[t] \in Active /\ DocOf(t) # d
  <2>1. \A t \in Scheduled : phase[t] \in Active /\ DocOf(t) = d => t = task[d]
    BY DEF TInv, OneTask
  <2>2. \A t \in Scheduled : t = task[d] => DocOf(t) = d
    BY TextFacts DEF TInv, TaskIsNewest
  <2> QED
    BY <1>3, <2>1, <2>2 DEF Active
<1>5. OneTask'
  BY <1>1, <1>2, <1>4 DEF TInv, OneTask, TypeOK
<1>6. \A e \in Docs : \A t : Newest(e, t)' = Newest(e, t)
  BY <1>1, <1>2 DEF Newest
<1>7. TaskIsNewest'
  BY <1>1, <1>2, <1>6 DEF TInv, TaskIsNewest, TypeOK
<1>8. CacheInv'
  <2>1. \A e \in Docs : e # d => Busy(e)' = Busy(e)
    BY <1>1, <1>2, <1>4 DEF Busy, Unsettled
  <2>2. \A e \in Docs : diffCache'[e] # Nothing =>
          e # d /\ diffCache'[e] = diffCache[e] /\ diffCache[e] \in Scheduled
    BY <1>1 DEF TypeOK
  <2> QED
    BY <1>3, <1>6, <2>1, <2>2 DEF TInv, CacheInv, Active
<1>9. ClosedInv'
  BY <1>1, <1>2, <1>4 DEF TInv, ClosedInv, ClosedHoldsOnlyOvertaken, TypeOK
<1> QED
  BY <1>5, <1>7, <1>8, <1>9 DEF TInv

\* Lenses are asked for open documents, and may empty the cache.
LEMMA LensKeeps ==
  ASSUME TypeOK, TInv, NEW d \in Docs, CodeLens(d)
  PROVE  TInv'
<1>1. /\ UNCHANGED <<open, texts, handled, phase, task, closeMark>>
      /\ Scheduled' = Scheduled /\ Unsettled' = Unsettled
  BY DEF CodeLens, Scheduled, Unsettled
<1>2. \A e \in Docs : diffCache'[e] # Nothing => diffCache'[e] = diffCache[e]
  BY DEF CodeLens, Invalidate, TypeOK
<1>3. OneTask' /\ TaskIsNewest'
  BY <1>1 DEF TInv, OneTask, TaskIsNewest, DocOf, Newest
<1>4. CacheInv'
  BY <1>1, <1>2 DEF TInv, CacheInv, Busy, Newest, DocOf
<1>5. ClosedInv'
  BY <1>1, <1>2 DEF TInv, ClosedInv, ClosedHoldsOnlyOvertaken, DocOf
<1> QED
  BY <1>3, <1>4, <1>5 DEF TInv

\* The task of a new text takes the place of its document's.
LEMMA ScheduleKeeps ==
  ASSUME TypeOK, TInv, ScheduleDiff
  PROVE  TInv'
<1>0. PICK t \in Texts, d \in Docs : t = handled + 1 /\ t \in DOMAIN texts /\ d = DocOf(t)
  BY TextFacts DEF ScheduleDiff
<1>1. /\ t \in Nat /\ handled' = t /\ handled \in Nat
      /\ Scheduled' = Scheduled \cup {t} /\ t \notin Scheduled
      /\ UNCHANGED <<texts, open, diffCache, closeMark>>
      /\ task' = [task EXCEPT ![d] = t]
  BY <1>0, TextFacts DEF ScheduleDiff, Scheduled, editorVars, results
<1>2. \A x \in Scheduled : DocOf(x) \in Docs /\ x \in Texts /\ x \in Nat /\ x < t
  BY <1>0, TextFacts DEF Scheduled
<1>3. /\ phase'[t] = "sleeping"
      /\ \A x \in Scheduled :
           phase'[x] = IF x = task[d] /\ phase[x] \in Active THEN "cancelled" ELSE phase[x]
  BY <1>0, <1>1, <1>2, CancelTaskIs DEF ScheduleDiff
<1>4. \A x \in Scheduled : phase'[x] \in Active <=> phase[x] \in Active /\ DocOf(x) # d
  <2>1. \A x \in Scheduled : phase[x] \in Active /\ DocOf(x) = d => x = task[d]
    BY DEF TInv, OneTask
  <2>2. \A x \in Scheduled : x = task[d] => DocOf(x) = d
    BY <1>1, TextFacts DEF TInv, TaskIsNewest
  <2> QED
    BY <1>3, <2>1, <2>2 DEF Active
<1>5. \A x : DocOf(x)' = DocOf(x)
  BY <1>1 DEF DocOf
<1>6. OneTask'
  BY <1>0, <1>1, <1>2, <1>4, <1>5 DEF TInv, OneTask, TypeOK
<1>7. \A x \in Scheduled' : x <= t /\ DocOf(x)' = DocOf(x)
  BY <1>1, <1>2, <1>5
<1>8. /\ Newest(d, t)'
      /\ \A e \in Docs : e # d => \A x : Newest(e, x)' = Newest(e, x)
  <2>1. Newest(d, t)'
    BY <1>7 DEF Newest
  <2>2. \A e \in Docs : e # d => \A x : Newest(e, x)' = Newest(e, x)
    BY <1>0, <1>1, <1>5 DEF Newest
  <2> QED
    BY <2>1, <2>2
<1>9. TaskIsNewest'
  BY <1>0, <1>1, <1>5, <1>8 DEF TInv, TaskIsNewest, TypeOK
<1>10. CacheInv'
  <2>1. Busy(d)'
    BY <1>0, <1>1, <1>3, <1>5 DEF Busy, Unsettled, Active
  <2>2. \A e \in Docs : e # d => Busy(e)' = Busy(e)
    BY <1>0, <1>1, <1>2, <1>4, <1>5 DEF Busy, Unsettled
  <2>3. \A e \in Docs : diffCache[e] # Nothing => diffCache[e] \in Scheduled
    BY DEF TypeOK
  <2> QED
    BY <1>1, <1>3, <1>8, <2>1, <2>2, <2>3 DEF TInv, CacheInv, Active
<1>11. ClosedInv'
  <2>1. closeMark[d] < t
    BY <1>0, <1>1 DEF TypeOK
  <2> QED
    BY <1>0, <1>1, <1>2, <1>4, <1>5, <2>1 DEF TInv, ClosedInv, ClosedHoldsOnlyOvertaken
<1> QED
  BY <1>6, <1>9, <1>10, <1>11 DEF TInv


\* A task is of its document's newest text, so what it publishes is newest.
LEMMA TaskKeeps ==
  ASSUME TypeOK, TInv, NEW t \in Texts, Task(t)
  PROVE  TInv'
<1>0. PICK d \in Docs : d = DocOf(t)
  BY TaskType, TextFacts
<1>1. /\ UNCHANGED <<texts, open, handled, task, closeMark>>
      /\ Scheduled' = Scheduled /\ t \in Scheduled /\ phase[t] \in Active /\ t \in Nat /\ t # Nothing
      /\ \A x \in Texts : x # t => phase'[x] = phase[x]
  BY TaskType, TextFacts DEF editorVars, Scheduled, Texts
<1>2. \A x : DocOf(x)' = DocOf(x)
  BY <1>1 DEF DocOf
<1>3. \A x \in Scheduled : x \in Texts /\ DocOf(x) \in Docs
  BY TextFacts
<1>4. task[d] = t /\ Newest(d, t)
  BY <1>0, <1>1 DEF TInv, OneTask, TaskIsNewest
<1>5. \A x \in Scheduled : phase'[x] \in Active => phase[x] \in Active
  BY <1>1, <1>3
<1>6. OneTask'
  BY <1>1, <1>2, <1>5 DEF TInv, OneTask
<1>7. \A e \in Docs : \A x : Newest(e, x)' = Newest(e, x)
  BY <1>1, <1>2 DEF Newest
<1>8. TaskIsNewest'
  BY <1>1, <1>2, <1>7 DEF TInv, TaskIsNewest
<1>9. \/ diffCache' = diffCache /\ phase'[t] \in Active
      \/ diffCache' = [diffCache EXCEPT ![d] = t] /\ phase'[t] = "published"
      \/ diffCache' = [diffCache EXCEPT ![d] = Nothing] /\ phase'[t] = "failed"
  BY <1>0, <1>1 DEF Task, Submit, DoDiff, Push, Invalidate, results, Active, TypeOK
<1>10. \A e \in Docs : e # d => Busy(e)' = Busy(e)
  BY <1>0, <1>1, <1>2, <1>3 DEF Busy, Unsettled
<1>11. \A e \in Docs : diffCache[e] # Nothing =>
         diffCache[e] \in Scheduled /\ phase[diffCache[e]] = "published" /\ diffCache[e] # t
  BY <1>1 DEF TypeOK, TInv, CacheInv, Active
<1>12. CacheInv'
  <2>1. \A e \in Docs : e # d => diffCache'[e] = diffCache[e]
    BY <1>9 DEF TypeOK
  <2>2. \A e \in Docs : e # d /\ diffCache'[e] # Nothing =>
          phase'[diffCache'[e]] = "published" /\ (Newest(e, diffCache'[e]) \/ Busy(e)')
    BY <1>1, <1>3, <1>7, <1>10, <1>11, <2>1 DEF TInv, CacheInv
  <2>3. diffCache'[d] # Nothing =>
          phase'[diffCache'[d]] = "published" /\ (Newest(d, diffCache'[d]) \/ Busy(d)')
    <3>1. CASE diffCache' = diffCache /\ phase'[t] \in Active
      <4>1. Busy(d)'
        BY <1>0, <1>1, <1>2, <3>1 DEF Busy, Unsettled
      <4> QED
        BY <1>1, <1>3, <1>11, <3>1, <4>1
    <3>2. CASE diffCache' = [diffCache EXCEPT ![d] = t] /\ phase'[t] = "published"
      BY <1>1, <1>2, <1>4, <3>2 DEF Newest, TypeOK
    <3>3. CASE diffCache' = [diffCache EXCEPT ![d] = Nothing]
      BY <3>3 DEF TypeOK
    <3> QED
      BY <1>9, <3>1, <3>2, <3>3
  <2>4. \A e \in Docs : diffCache'[e] # Nothing =>
          phase'[diffCache'[e]] = "published" /\ (Newest(e, diffCache'[e]) \/ Busy(e)')
    BY <2>2, <2>3
  <2> QED
    BY <1>7, <2>4 DEF CacheInv
<1>13. ClosedInv'
  <2>1. d \notin open => t > closeMark[d]
    BY <1>0, <1>1 DEF TInv, ClosedInv
  <2>2. \A e \in Docs : diffCache'[e] # Nothing =>
          diffCache'[e] = diffCache[e] \/ (e = d /\ diffCache'[e] = t)
    BY <1>9 DEF TypeOK
  <2> QED
    BY <1>1, <1>2, <1>5, <2>1, <2>2 DEF TInv, ClosedInv, ClosedHoldsOnlyOvertaken
<1> QED
  BY <1>6, <1>8, <1>12, <1>13 DEF TInv

-------------------------------------------------------------------------------
(* What the editor has been given *)

EInv == CachesAgree /\ LensInv

\* Only a close, code lenses and the end of a task change what the editor sees.
LEMMA EditorKeeps ==
  ASSUME TypeOK, EInv, UNCHANGED <<lenses, canRefresh, results>>
  PROVE  EInv'
  BY DEF EInv, CachesAgree, LensInv, results

LEMMA InvalidateKeeps ==
  ASSUME TypeOK, EInv, NEW d \in Docs, Invalidate(d), canRefresh' = canRefresh,
         \A e \in Docs \ {d} : lenses'[e] = lenses[e]
  PROVE  EInv'
<1>1. \A e \in Docs : IF e = d THEN diffCache'[e] = Nothing
                      ELSE diffCache'[e] = diffCache[e] /\ sourceCache'[e] = sourceCache[e]
                           /\ shown'[e] = shown[e]
  BY DEF Invalidate, TypeOK
<1>2. CachesAgree'
  BY <1>1 DEF EInv, CachesAgree
<1>3. LensInv'
  <2>1. CASE Refresh(d)
    BY <1>1, <2>1 DEF EInv, LensInv, Refresh
  <2>2. CASE untold' = untold \cup {d} /\ UNCHANGED refreshing
    BY <1>1, <2>2 DEF EInv, LensInv
  <2> QED
    BY <2>1, <2>2 DEF Invalidate
<1> QED
  BY <1>2, <1>3 DEF EInv

LEMMA ShownKeeps ==
  ASSUME TypeOK, EInv, [Next]_vars
  PROVE  EInv'
<1>1. ASSUME NEW d \in Docs, DidClose(d)
      PROVE  EInv'
  <2>1. \A e \in Docs : IF e = d THEN diffCache'[e] = Nothing /\ lenses'[e] = Nothing
                        ELSE /\ diffCache'[e] = diffCache[e] /\ sourceCache'[e] = sourceCache[e]
                             /\ lenses'[e] = lenses[e]
    BY <1>1 DEF DidClose, TypeOK
  <2> QED
    BY <1>1, <2>1 DEF DidClose, EInv, CachesAgree, LensInv
<1>2. ASSUME NEW d \in Docs, CodeLens(d)
      PROVE  EInv'
  <2>1. CASE Invalidate(d) /\ lenses' = [lenses EXCEPT ![d] = Nothing]
    BY <1>2, <2>1, InvalidateKeeps DEF CodeLens, TypeOK
  <2>2. CASE /\ lenses' = [lenses EXCEPT ![d] = diffCache[d]]
             /\ refreshing' = refreshing \ {d}
             /\ untold' = untold \ {d}
             /\ UNCHANGED <<diffCache, sourceCache, shown>>
    BY <1>2, <2>2 DEF CodeLens, TypeOK, EInv, CachesAgree, LensInv
  <2> QED
    BY <1>2, <2>1, <2>2 DEF CodeLens
<1>3. ASSUME NEW t \in Texts, Task(t)
      PROVE  EInv'
  <2>1. PICK d \in Docs : d = DocOf(t)
    BY <1>3, TaskType, TextFacts
  <2>2. UNCHANGED <<lenses, canRefresh>>
    BY <1>3, TaskType DEF editorVars
  <2>3. CASE UNCHANGED results
    BY <2>2, <2>3, EditorKeeps
  <2>4. CASE Invalidate(d)
    BY <2>2, <2>4, InvalidateKeeps
  <2>5. CASE /\ diffCache' = [diffCache EXCEPT ![d] = t]
             /\ sourceCache' = [sourceCache EXCEPT ![d] = t]
             /\ shown' = [shown EXCEPT ![d] = t]
             /\ Refresh(d)
    BY <2>2, <2>5 DEF Refresh, EInv, CachesAgree, LensInv, TypeOK
  <2> QED
    BY <1>3, <2>1, <2>3, <2>4, <2>5 DEF Task, Submit, DoDiff, Push
<1>4. CASE ScheduleDiff \/ \E d \in Docs, opens \in BOOLEAN : TextArrives(d, opens)
  BY <1>4, EditorKeeps DEF ScheduleDiff, TextArrives, editorVars
<1>5. CASE UNCHANGED vars
  BY <1>5, EditorKeeps DEF vars, results
<1> QED
  BY <1>1, <1>2, <1>3, <1>4, <1>5 DEF Next

-------------------------------------------------------------------------------
(* The invariant *)

LEMMA NextInv ==
  ASSUME Inv, [Next]_vars
  PROVE  Inv'
<1> USE DEF Inv
<1>1. TypeOK' /\ TInv'
  <2> USE DEF TInv
  <2>1. ASSUME NEW d \in Docs, NEW opens \in BOOLEAN, TextArrives(d, opens)
        PROVE  TypeOK' /\ TInv'
    BY <2>1, ArrivesType, ArrivesKeeps
  <2>2. ASSUME NEW d \in Docs, DidClose(d) \/ CodeLens(d)
        PROVE  TypeOK' /\ TInv'
    BY <2>2, CloseType, CloseKeeps, LensType, LensKeeps
  <2>3. CASE ScheduleDiff
    BY <2>3, ScheduleType, ScheduleKeeps
  <2>4. ASSUME NEW t \in Texts, Task(t)
        PROVE  TypeOK' /\ TInv'
    BY <2>4, TaskType, TaskKeeps
  <2>5. CASE UNCHANGED vars
    <3>1. Scheduled' = Scheduled /\ Unsettled' = Unsettled
      BY <2>5 DEF vars, Scheduled, Unsettled
    <3> QED
      BY <2>5, <3>1 DEF vars, TypeOK, OneTask, TaskIsNewest, CacheInv, ClosedInv,
                        ClosedHoldsOnlyOvertaken, DocOf, Newest, Busy
  <2> QED
    BY <2>1, <2>2, <2>3, <2>4, <2>5 DEF Next
<1>2. EInv'
  BY ShownKeeps DEF EInv
<1> QED
  BY <1>1, <1>2 DEF TInv, EInv

LEMMA InvHolds == Spec => []Inv
  BY InitInv, NextInv, PTL DEF Spec


-------------------------------------------------------------------------------
(* Theorems *)

\* No action takes the server out of its types, whatever the editor sends.
THEOREM TypeCorrect == Spec => []TypeOK
<1> Inv => TypeOK
  BY DEF Inv
<1> QED
  BY InvHolds, PTL

\* Once nothing is under way for a document, diff_cache holds the diff of its
\* newest text or nothing: an older task never has the last word.
THEOREM SettledNewest == Spec => []SettledCacheIsNewest
<1>1. Inv => SettledCacheIsNewest
  BY DEF Inv, CacheInv, SettledCacheIsNewest
<1> QED
  BY <1>1, InvHolds, PTL

\* _invalidate_failed_review clears the caches before it publishes anything: what
\* lenses are computed from is what the editor was last told, even when
\* publishing raises.
THEOREM CachesAlwaysAgree == Spec => []CachesAgree
<1>1. Inv => CachesAgree
  BY DEF Inv
<1> QED
  BY <1>1, InvHolds, PTL

\* didClose cancels the task and empties the caches: only a change whose handler
\* runs after the close can fill them again.
THEOREM ClosedOvertaken == Spec => []ClosedHoldsOnlyOvertaken
<1>1. Inv => ClosedHoldsOnlyOvertaken
  BY DEF Inv, ClosedInv
<1> QED
  BY <1>1, InvHolds, PTL

\* Every change of the caches is followed, in the same stretch of code, by a
\* request that the editor ask for its lenses again.  When publishing before it or
\* the request itself raises, the editor keeps what it had, of that document, and
\* the next request that gets through makes it good.
THEOREM LensesFollow == Spec => []LensesCatchUp
<1>1. Inv => LensesCatchUp
  BY DEF Inv, TypeOK, LensInv, LensesCatchUp
<1> QED
  BY <1>1, InvHolds, PTL

-------------------------------------------------------------------------------
(* The server implements Coalescing *)

Log == SubSeq(texts, 1, handled)
Outcomes == [t \in Texts |-> Outcome(t)]

LogMatches ==
  /\ Log \in Seq(Docs) /\ Len(Log) = handled /\ DOMAIN Log = Scheduled
  /\ \A t \in Scheduled : Log[t] = DocOf(t)

LEMMA LogIs == TypeOK => LogMatches
<1> SUFFICES ASSUME TypeOK PROVE LogMatches
  OBVIOUS
<1>1. texts \in Seq(Docs) /\ handled \in 0..Len(texts) /\ Len(texts) \in Nat
  BY DEF TypeOK
<1>2. /\ Log \in Seq(Docs) /\ Len(Log) = handled
      /\ \A t \in 1..handled : Log[t] = texts[t]
  <2>1. \A i \in 1..handled : texts[i] \in Docs
    BY <1>1
  <2>2. /\ SubSeq(texts, 1, handled) \in Seq(Docs)
        /\ Len(SubSeq(texts, 1, handled)) = IF 1 <= handled THEN handled - 1 + 1 ELSE 0
        /\ \A i \in 1..(handled - 1 + 1) : SubSeq(texts, 1, handled)[i] = texts[1 + i - 1]
    BY <1>1, <2>1, SubSeqProperties
  <2> QED
    BY <1>1, <2>2 DEF Log
<1> QED
  BY <1>1, <1>2 DEF LogMatches, Scheduled, DocOf

\* What is under way has been scheduled: it is what the promise calls pending.
LEMMA PendingIsUnsettled ==
  ASSUME TypeOK
  PROVE  /\ \A t \in Texts : phase[t] \in Active => t \in Scheduled
         /\ Unsettled = {t \in DOMAIN Log : Outcomes[t] = "pending"}
<1>1. \A t \in Texts : phase[t] \in Active => t \in Scheduled
  <2> SUFFICES ASSUME NEW t \in Texts, phase[t] \in Active
               PROVE  t \in Scheduled
    OBVIOUS
  <2>1. phase[t] # "none" /\ phase[t] # "arrived"
    BY DEF Active
  <2>2. t <= Len(texts) /\ ~(t \in (handled + 1)..Len(texts))
    BY <2>1, TextFacts DEF TypeOK, Texts
  <2> QED
    BY <2>2, TextFacts DEF Scheduled, Texts
<1>2. \A t \in Scheduled : t \in Texts
  BY TextFacts
<1>3. \A t \in Scheduled : Outcomes[t] = "pending" <=> phase[t] \in Active
  BY <1>2 DEF Outcomes, Outcome, TypeOK, Phases, Active
<1> QED
  BY <1>1, <1>3, LogIs DEF LogMatches, Unsettled

\* What the phase of a text says about its outcome, before and after a step.
LEMMA OutcomeValues ==
  ASSUME NEW t
  PROVE  /\ phase[t] \in {"none", "arrived"} => Outcome(t) = "none"
         /\ phase'[t] \in {"none", "arrived"} => Outcome(t)' = "none"
         /\ phase[t] \in Active => Outcome(t) = "pending"
         /\ phase'[t] \in Active => Outcome(t)' = "pending"
         /\ phase'[t] \in {"published", "failed"} => Outcome(t)' = "served"
         /\ phase'[t] = "cancelled" => Outcome(t)' = "shed"
         /\ phase'[t] = phase[t] => Outcome(t)' = Outcome(t)
  BY DEF Outcome, Active

LEMMA OutcomesNext ==
  /\ \A t \in Texts : Outcomes[t] = Outcome(t)
  /\ Outcomes' = [t \in Texts |-> Outcome(t)']
  BY DEF Outcomes

LEMMA PromiseInit == Init => Promise!Init
<1> SUFFICES ASSUME Init PROVE Promise!Init
  OBVIOUS
<1>1. Log \in Seq(Docs) /\ Len(Log) = 0
  BY InitInv, LogIs DEF LogMatches, Init, Inv
<1>2. Log = <<>>
  BY <1>1, 0 \notin Nat \ {0}, EmptySeq, Zenon
<1>3. Outcomes = [t \in Texts |-> "none"]
  <2>1. \A t \in Texts : Outcome(t) = "none"
    BY OutcomeValues DEF Init
  <2> QED
    BY <2>1 DEF Outcomes
<1> QED
  BY <1>2, <1>3 DEF Init, Promise!Init, Promise!Ids, Texts, Log, Outcomes


\* A handler that schedules a text is a Submit, which pushes out the document's
\* task if that was under way.
LEMMA SubmitStep ==
  ASSUME TypeOK, TypeOK', TaskIsNewest, ScheduleDiff
  PROVE  Promise!Next
<1>1. PICK t \in Texts, d \in Docs : t = handled + 1 /\ t \in DOMAIN texts /\ d = DocOf(t)
  BY TextFacts DEF ScheduleDiff
<1>2. PICK pushed : pushed = {q \in Unsettled : q = task[d]}
  OBVIOUS
<1>3. /\ t \in Nat /\ handled' = t /\ handled \in Nat /\ t <= MaxTexts
      /\ Scheduled' = Scheduled \cup {t} /\ t \notin Scheduled /\ Scheduled' = 1..t
      /\ UNCHANGED <<texts, withdrawn>>
      /\ \A x : DocOf(x)' = DocOf(x)
  <2>1. /\ t \in Nat /\ handled' = t /\ handled \in Nat /\ t <= MaxTexts
        /\ UNCHANGED <<texts, withdrawn>>
    BY <1>1, TextFacts, LspServerAssumption DEF ScheduleDiff, editorVars, Texts
  <2>2. Scheduled = 1..handled /\ Scheduled' = 1..t
    BY <2>1 DEF Scheduled
  <2>3. Scheduled' = Scheduled \cup {t} /\ t \notin Scheduled
    BY <1>1, <2>1, <2>2
  <2> QED
    BY <2>1, <2>2, <2>3 DEF DocOf
<1>4. Log' = Append(Log, d)
  <2>1. /\ Log \in Seq(Docs) /\ Len(Log) = handled /\ DOMAIN Log = Scheduled
        /\ \A x \in Scheduled : Log[x] = DocOf(x)
    BY LogIs DEF LogMatches
  <2>2. /\ Log' \in Seq(Docs) /\ Len(Log') = t /\ DOMAIN Log' = Scheduled'
        /\ \A x \in Scheduled' : Log'[x] = DocOf(x)
    <3>1. LogMatches'
      BY LogIs, PTL
    <3> QED
      BY <1>3, <3>1 DEF LogMatches
  <2>3. /\ Append(Log, d) \in Seq(Docs)
        /\ Len(Append(Log, d)) = t
        /\ \A x \in Scheduled : Append(Log, d)[x] = Log[x]
        /\ Append(Log, d)[t] = d
    BY <1>1, <1>3, <2>1, AppendProperties DEF Scheduled
  <2>4. \A x \in 1..t : Log'[x] = Append(Log, d)[x]
    BY <1>1, <1>3, <2>1, <2>2, <2>3
  <2> QED
    BY <2>2, <2>3, <2>4, SeqEqual
<1>5. \A x \in Texts : phase'[x] = IF x = t THEN "sleeping"
                                   ELSE IF x \in pushed THEN "cancelled" ELSE phase[x]
  <2>1. \A x \in Texts : x \in pushed <=> x = task[d] /\ phase[x] \in Active
    BY <1>2, PendingIsUnsettled DEF Unsettled
  <2> QED
    BY <1>1, <2>1, CancelTaskIs DEF ScheduleDiff
<1>6. Outcomes' = [x \in Texts |-> IF x = t THEN "pending"
                                   ELSE IF x \in pushed THEN "shed" ELSE Outcomes[x]]
  <2>1. "sleeping" \in Active
    BY DEF Active
  <2> QED
    BY <1>5, <2>1, OutcomeValues, OutcomesNext
<1>7. pushed \in SUBSET {q \in {x \in DOMAIN Log : Outcomes[x] = "pending"} : Log[q] = d}
  <2>1. \A q \in pushed : q \in Unsettled /\ q \in Scheduled /\ q # Nothing /\ q = task[d]
    BY <1>2, TextFacts DEF Unsettled
  <2>2. \A q \in pushed : Log[q] = d
    BY <2>1, LogIs DEF LogMatches, TaskIsNewest
  <2> QED
    BY <2>1, <2>2, PendingIsUnsettled
<1>8. Len(Log) + 1 = t /\ Len(Log) < MaxTexts
  BY <1>1, <1>3, LogIs, LspServerAssumption DEF LogMatches
<1>9. Promise!Submit(d)
  BY <1>3, <1>4, <1>6, <1>7, <1>8
  DEF Promise!Submit, Promise!Pending, Promise!Ids, Texts, Log, Outcomes
<1> QED
  BY <1>9 DEF Promise!Next

\* A close is a GiveUp of what is unsettled for its document; its task is given
\* up at once.
LEMMA GiveUpStep ==
  ASSUME TypeOK, TaskIsNewest, NEW d \in Docs, DidClose(d)
  PROVE  Promise!GiveUp
<1>1. PICK given : given = {t \in Unsettled : DocOf(t) = d}
  OBVIOUS
<1>2. PICK dropped : dropped = {t \in Unsettled : t = task[d]}
  OBVIOUS
<1>3. dropped \in SUBSET given
  <2>1. \A t \in dropped : t \in Scheduled /\ t # Nothing /\ t = task[d] /\ t \in Unsettled
    BY <1>2, TextFacts DEF Unsettled
  <2> QED
    BY <1>1, <2>1 DEF TaskIsNewest
<1>4. \A t \in Texts : phase'[t] = IF t \in dropped THEN "cancelled" ELSE phase[t]
  BY <1>2, PendingIsUnsettled, CancelTaskIs DEF DidClose, Unsettled
<1>5. Outcomes' = [t \in Texts |-> IF t \in dropped THEN "shed" ELSE Outcomes[t]]
  BY <1>4, OutcomeValues, OutcomesNext
<1>6. Log' = Log /\ withdrawn' = withdrawn \cup given
  BY <1>1 DEF DidClose, Log
<1>7. given \in SUBSET {t \in DOMAIN Log : Outcomes[t] = "pending"}
  BY <1>1, PendingIsUnsettled
<1> QED
  BY <1>3, <1>5, <1>6, <1>7
  DEF Promise!GiveUp, Promise!Pending, Promise!Ids, Texts, Log, Outcomes

\* A step that settles no scheduled text is invisible.
LEMMA InvisibleStep ==
  ASSUME Log' = Log, withdrawn' = withdrawn,
         \A t \in Texts : \/ phase'[t] = phase[t]
                          \/ phase[t] \in Active /\ phase'[t] \in Active
                          \/ phase[t] \in {"none", "arrived"} /\ phase'[t] \in {"none", "arrived"}
  PROVE  UNCHANGED Promise!coalescingVars
<1>1. \A t \in Texts : Outcome(t)' = Outcome(t)
  BY OutcomeValues
<1>2. Outcomes' = Outcomes
  BY <1>1, OutcomesNext DEF Outcomes
<1> QED
  BY <1>2 DEF Promise!coalescingVars, Log, Outcomes

\* Every step of the server is a step of the promise, or leaves it alone.
LEMMA PromiseStep ==
  ASSUME TypeOK, TypeOK', TaskIsNewest, [Next]_vars
  PROVE  [Promise!Next]_(Promise!coalescingVars)
<1>1. ASSUME NEW d \in Docs, NEW opens \in BOOLEAN, TextArrives(d, opens)
      PROVE  UNCHANGED Promise!coalescingVars
  <2>1. Log' = Log
    <3>1. /\ Log \in Seq(Docs) /\ Len(Log) = handled
          /\ \A x \in Scheduled : Log[x] = DocOf(x)
      BY LogIs DEF LogMatches
    <3>2. /\ Log' \in Seq(Docs) /\ Len(Log') = handled'
          /\ \A x \in Scheduled' : Log'[x] = DocOf(x)'
      <4>1. LogMatches'
        BY LogIs, PTL
      <4> QED
        BY <4>1 DEF LogMatches
    <3>3. /\ handled' = handled /\ Scheduled' = Scheduled
          /\ \A x \in Scheduled : DocOf(x)' = DocOf(x)
      BY <1>1, TextFacts, TextsAppend DEF TextArrives, Scheduled, DocOf
    <3>4. \A x \in 1..Len(Log) : Log'[x] = Log[x]
      BY <3>1, <3>2, <3>3 DEF Scheduled
    <3> QED
      BY <3>1, <3>2, <3>3, <3>4, SeqEqual
  <2>2. \A t \in Texts : phase'[t] = phase[t] \/ (phase[t] = "none" /\ phase'[t] = "arrived")
    BY <1>1, TextFacts DEF TextArrives, TypeOK
  <2>3. withdrawn' = withdrawn
    BY <1>1 DEF TextArrives
  <2> QED
    BY <2>1, <2>2, <2>3, InvisibleStep
<1>2. ASSUME NEW d \in Docs, DidClose(d)
      PROVE  Promise!Next
  BY <1>2, GiveUpStep DEF Promise!Next
<1>3. ASSUME UNCHANGED <<texts, handled, phase, withdrawn>>
      PROVE  UNCHANGED Promise!coalescingVars
  BY <1>3, InvisibleStep DEF Log
<1>4. ASSUME NEW t \in Texts, Submit(t) \/ DoDiff(t)
      PROVE  UNCHANGED Promise!coalescingVars
  <2>1. /\ Log' = Log /\ withdrawn' = withdrawn
        /\ phase[t] \in Active
        /\ \E f \in Active : phase' = [phase EXCEPT ![t] = f]
    BY <1>4 DEF Submit, DoDiff, editorVars, Log, Active
  <2> QED
    BY <2>1, InvisibleStep DEF TypeOK
<1>5. ASSUME NEW t \in Texts, Push(t)
      PROVE  Promise!Next
  <2>1. PICK f \in {"published", "failed"} : phase' = [phase EXCEPT ![t] = f]
    BY <1>5 DEF Push
  <2>2. /\ Log' = Log /\ withdrawn' = withdrawn
        /\ phase[t] \in Active
    BY <1>5 DEF Push, editorVars, Log, Active
  <2>3. t \in {q \in DOMAIN Log : Outcomes[q] = "pending"}
    BY <2>2, PendingIsUnsettled DEF Unsettled
  <2>4. \A q \in Texts : phase'[q] = IF q = t THEN f ELSE phase[q]
    BY <2>1 DEF TypeOK
  <2>5. Outcomes' = [q \in Texts |-> IF q = t THEN "served" ELSE Outcomes[q]]
    BY <2>4, OutcomeValues, OutcomesNext
  <2>6. Outcomes' = [Outcomes EXCEPT ![t] = "served"]
    BY <2>5 DEF Outcomes
  <2>7. Promise!Serve(t)
    BY <2>2, <2>3, <2>6 DEF Promise!Serve, Promise!Pending, Log, Outcomes
  <2> QED
    BY <2>7 DEF Promise!Next, Promise!Ids, Texts
<1>6. CASE ScheduleDiff
  BY <1>6, SubmitStep
<1>7. ASSUME NEW d \in Docs, CodeLens(d)
      PROVE  UNCHANGED Promise!coalescingVars
  BY <1>3, <1>7 DEF CodeLens
<1>8. CASE UNCHANGED vars
  BY <1>3, <1>8 DEF vars
<1> QED
  BY <1>1, <1>2, <1>4, <1>5, <1>6, <1>7, <1>8 DEF Next, Task

\* The server implements the safety half of Coalescing: it gives up a scheduled
\* text only for a newer one of its document, or because that was closed.
THEOREM ImplementsPromise == Spec => PromiseSafety
<1>1. Inv => TypeOK /\ TaskIsNewest
  BY DEF Inv
<1> QED
  BY <1>1, InvHolds, PromiseInit, PromiseStep, PTL DEF Spec, PromiseSafety, Promise!Safety

===============================================================================
