---------------------------- MODULE FrontEndProofs ----------------------------
(* Theorems about the two parts that stand between an editor and the diffs.

   FileWatcher, for any files and any number of disk operations: no save is lost
   while the watcher is on, what is still armed when stop() has returned, and
   that a request is given up only for a newer one of its file or at a stop.
   What _schedule_diff cancels is a request of the same file, and what the table
   names is the newest one (TrackedIsNewest), so nothing is cancelled without
   another coming.  An armed timer that the table does not name has lost its
   entry to the run of an older request (ArmedIsKnown).

   LiveSessions, for any number of connections and lines: the count of clients
   is the slots held, at most one late result leaves a stale review, and only
   what another connection sent silences one.  The last needs the order in
   which a connection's lines are read and taken (Fifo), that its thread is
   busy with one line at a time (Alone), and where the latest number comes from
   (Raised): a line of the same connection that could make the review stale
   would have been taken before it, with a smaller number. *)
EXTENDS FileWatcher, LiveSessions, SequenceTheorems, FiniteSetTheorems, TLAPS

-------------------------------------------------------------------------------
(* The file watcher. *)

TrackedIsNewest ==
  \A f \in Files : tracked[f] # NoTimer =>
    /\ requests[tracked[f]] = f
    /\ \A r \in Submitted : requests[r] = f => r <= tracked[f]

MarkIsPast == stopMark <= Len(requests)

\* stop() runs once, and only on a watcher that was started.
StopIsFirst == watching \in {"new", "on"} => abandoned = {}

NewIsUntouched == watching = "new" => \A f \in Files : content[f] = 0

\* The run of an older request for the file has taken the entry of r.
Escaped(r) ==
  \E q \in Submitted : /\ q < r /\ requests[q] = requests[r]
                       /\ phase[q] \in Running \cup Served

ArmedIsKnown ==
  \A r \in Submitted : phase[r] = "armed" =>
    \/ Escaped(r)
    \/ watching \in {"new", "on"} /\ tracked[requests[r]] = r
    \/ watching \in {"stopping", "off"} /\ r > stopMark

-------------------------------------------------------------------------------
(* Types *)

LEMMA RequestFacts ==
  ASSUME TypeOK
  PROVE  /\ Len(requests) \in Nat /\ Submitted = 1..Len(requests) /\ Submitted \subseteq Ids
         /\ NoTimer \notin Ids /\ Len(events) \in Nat /\ ops \in Nat
         /\ \A r \in Submitted : requests[r] \in Files
         /\ \A r \in Ids : phase[r] # "none" <=> r \in Submitted
<1> USE FileWatcherAssumption
<1>1. /\ Len(requests) \in Nat /\ Submitted = 1..Len(requests) /\ Len(events) \in Nat
      /\ \A r \in Submitted : requests[r] \in Files
  BY DEF TypeOK, Submitted
<1>2. Len(requests) <= MaxOps /\ ops \in Nat
  BY <1>1 DEF TypeOK
<1> QED
  BY <1>1, <1>2 DEF TypeOK, Ids, NoTimer

\* Timer.cancel on any set of timers moves a request only from armed to cancelled.
LEMMA CancelTimersIs ==
  ASSUME TypeOK, NEW S
  PROVE  /\ CancelTimers(S) \in [Ids -> Phases]
         /\ \A r \in Ids : CancelTimers(S)[r] = IF r \in S /\ phase[r] = "armed"
                                                THEN "cancelled" ELSE phase[r]
  BY DEF CancelTimers, TypeOK, Phases

LEMMA RequestAppended ==
  ASSUME TypeOK, NEW f \in Files, requests' = Append(requests, f)
  PROVE  /\ requests' \in Seq(Files) /\ Len(requests') = Len(requests) + 1
         /\ Submitted' = Submitted \cup {Len(requests) + 1}
         /\ requests'[Len(requests) + 1] = f
         /\ \A r \in Submitted : requests'[r] = requests[r]
  BY AppendProperties DEF TypeOK, Submitted

\* What the observer's queue holds after an event is added or taken.
LEMMA EventsFacts ==
  ASSUME events \in Seq(EventPaths)
  PROVE  /\ \A e \in EventPaths : /\ events \o <<e>> \in Seq(EventPaths)
                                  /\ Len(events \o <<e>>) = Len(events) + 1
                                  /\ (events \o <<e>>)[Len(events) + 1] = e
                                  /\ \A i \in DOMAIN events : (events \o <<e>>)[i] = events[i]
         /\ events \o <<>> = events
         /\ events # <<>> =>
              /\ Head(events) \in EventPaths /\ Head(events) = events[1]
              /\ Tail(events) \in Seq(EventPaths) /\ Len(Tail(events)) = Len(events) - 1
              /\ Len(events) \in Nat \ {0}
              /\ \A i \in DOMAIN events :
                   i = 1 \/ (i - 1 \in DOMAIN Tail(events) /\ Tail(events)[i - 1] = events[i])
<1>1. ASSUME NEW e \in EventPaths
      PROVE  /\ events \o <<e>> \in Seq(EventPaths)
             /\ Len(events \o <<e>>) = Len(events) + 1
             /\ (events \o <<e>>)[Len(events) + 1] = e
             /\ \A i \in DOMAIN events : (events \o <<e>>)[i] = events[i]
  <2>1. <<e>> \in Seq(EventPaths) /\ Len(<<e>>) = 1 /\ <<e>>[1] = e
    OBVIOUS
  <2>2. Len(events) \in Nat /\ DOMAIN events = 1..Len(events)
    OBVIOUS
  <2> QED
    BY <2>1, <2>2, ConcatProperties
<1>2. events \o <<>> = events
  BY ConcatEmptySeq
<1>3. ASSUME events # <<>>
      PROVE  /\ Head(events) \in EventPaths /\ Head(events) = events[1]
             /\ Tail(events) \in Seq(EventPaths) /\ Len(Tail(events)) = Len(events) - 1
             /\ Len(events) \in Nat \ {0}
             /\ \A i \in DOMAIN events :
                  i = 1 \/ (i - 1 \in DOMAIN Tail(events) /\ Tail(events)[i - 1] = events[i])
  <2>1. Len(events) \in Nat \ {0} /\ DOMAIN events = 1..Len(events)
    BY <1>3, EmptySeq
  <2>2. /\ Head(events) \in EventPaths /\ Head(events) = events[1]
        /\ Tail(events) \in Seq(EventPaths) /\ Len(Tail(events)) = Len(events) - 1
        /\ \A i \in 1..Len(Tail(events)) : Tail(events)[i] = events[i + 1]
        /\ DOMAIN Tail(events) = 1..Len(Tail(events))
    BY <1>3, HeadTailProperties
  <2>3. ASSUME NEW i \in DOMAIN events, i # 1
        PROVE  i - 1 \in DOMAIN Tail(events) /\ Tail(events)[i - 1] = events[i]
    BY <2>1, <2>2, <2>3
  <2> QED
    BY <2>1, <2>2, <2>3
<1> QED
  BY <1>1, <1>2, <1>3

LEMMA InitType == Init => TypeOK
<1> SUFFICES ASSUME Init PROVE TypeOK
  OBVIOUS
<1>1. /\ requests \in Seq(Files) /\ Len(requests) = 0 /\ Submitted = {}
      /\ events \in Seq(EventPaths) /\ Len(events) = 0
  BY DEF Init, Submitted
<1> QED
  BY <1>1, FileWatcherAssumption DEF Init, TypeOK, Phases, Versions

LEMMA OperationType ==
  ASSUME TypeOK, NEW f \in Files, NEW v \in Versions \cup {Gone}, NEW reported,
         reported \in {<<e>> : e \in EventPaths} \cup {<<>>}, Operation(f, v, reported)
  PROVE  TypeOK'
<1>1. content' \in [Files -> Versions \cup {Gone}] /\ ops' \in 0..MaxOps /\ ops' = ops + 1
  BY FileWatcherAssumption DEF Operation, TypeOK
<1>2. events' \in Seq(EventPaths) /\ Len(events') <= Len(events) + 1
  <2>1. CASE \E e \in EventPaths : reported = <<e>>
    BY <2>1, EventsFacts, RequestFacts DEF Operation, TypeOK
  <2>2. CASE reported = <<>>
    BY <2>2, EventsFacts, RequestFacts DEF Operation, TypeOK
  <2> QED
    BY <2>1, <2>2
<1>3. Len(requests') + Len(events') <= ops'
  <2>1. Len(events') \in Nat
    BY <1>2
  <2> QED
    BY <1>1, <1>2, <2>1, RequestFacts DEF Operation, TypeOK
<1>4. Submitted' = Submitted
  BY DEF Operation, Submitted
<1> QED
  BY <1>1, <1>2, <1>3, <1>4 DEF Operation, TypeOK

\* The disk operations, by what they do to a file and to the queue.
LEMMA DiskIs ==
  ASSUME TypeOK, NEW f \in Files, Save(f) \/ Touch(f) \/ Remove(f)
  PROVE  \E v \in Versions \cup {Gone}, reported \in {<<e>> : e \in EventPaths} \cup {<<>>} :
           /\ Operation(f, v, reported)
           /\ reported = <<f>> \/ v = Gone
<1>1. f \in EventPaths /\ Ignored \in EventPaths
  BY DEF EventPaths
<1>2. CASE Save(f)
  <2>1. ops + 1 \in Versions
    BY <1>2, FileWatcherAssumption DEF Save, Operation, TypeOK, Versions
  <2> QED
    BY <1>1, <1>2, <2>1 DEF Save
<1>3. CASE Touch(f)
  BY <1>1, <1>3 DEF Touch, TypeOK
<1>4. CASE Remove(f)
  BY <1>1, <1>4 DEF Remove
<1> QED
  BY <1>2, <1>3, <1>4

LEMMA DispatchType ==
  ASSUME TypeOK, Dispatch
  PROVE  TypeOK'
<1>1. /\ events # <<>> /\ Head(events) \in EventPaths /\ events' \in Seq(EventPaths)
      /\ Len(events) \in Nat \ {0} /\ Len(events') = Len(events) - 1
  BY EventsFacts DEF Dispatch, TypeOK
<1>2. CASE Head(events) = Ignored /\ UNCHANGED <<requests, phase, tracked>>
  <2>1. Submitted' = Submitted /\ Len(requests') + Len(events') <= ops'
    BY <1>1, <1>2, RequestFacts DEF Dispatch, Submitted, TypeOK, disk
  <2> QED
    BY <1>1, <1>2, <2>1 DEF Dispatch, TypeOK, disk
<1>3. CASE Head(events) \in Files /\ ScheduleDiff(Head(events))
  <2>1. PICK f \in Files, n \in {Len(requests) + 1} : f = Head(events) /\ n = Len(requests) + 1
    BY <1>3
  <2>2. /\ requests' \in Seq(Files) /\ Len(requests') = n /\ n \in Ids
        /\ Submitted' = Submitted \cup {n} /\ Len(requests') + Len(events') <= ops'
    <3>1. requests' \in Seq(Files) /\ Len(requests') = n /\ Submitted' = Submitted \cup {n}
      BY <1>3, <2>1, RequestAppended DEF ScheduleDiff
    <3>2. Len(requests') + Len(events') <= ops
      BY <1>1, <2>1, <3>1, RequestFacts DEF TypeOK
    <3>3. n \in Ids
      BY <1>1, <2>1, RequestFacts, FileWatcherAssumption DEF Ids, TypeOK
    <3> QED
      BY <3>1, <3>2, <3>3 DEF Dispatch, disk
  <2>3. /\ phase' \in [Ids -> Phases]
        /\ \A r \in Ids : phase'[r] = "none" <=> r \notin Submitted'
    <3>1. \A r \in Ids : phase'[r] = IF r = n THEN "armed" ELSE CancelTimers({tracked[f]})[r]
      BY <1>3, <2>1, <2>2, CancelTimersIs DEF ScheduleDiff
    <3>2. phase' \in [Ids -> Phases]
      BY <1>3, <2>1, <2>2, CancelTimersIs DEF ScheduleDiff, Phases, Waiting
    <3> QED
      BY <2>2, <3>1, <3>2, CancelTimersIs, RequestFacts
  <2>4. tracked' \in [Files -> Submitted' \cup {NoTimer}]
    BY <1>3, <2>1, <2>2 DEF ScheduleDiff, TypeOK
  <2> QED
    BY <1>1, <2>2, <2>3, <2>4 DEF Dispatch, TypeOK, disk
<1> QED
  BY <1>2, <1>3 DEF Dispatch

\* What the thread of a timer does to its own request; the rest stays as it is.
LEMMA TimerIs ==
  ASSUME TypeOK, NEW r \in Ids, TimerThread(r)
  PROVE  /\ r \in Submitted /\ Quiet
         /\ \E to \in {"fired", "loading", "diffed"} \cup Served : phase' = [phase EXCEPT ![r] = to]
         /\ \/ phase[r] = "armed" /\ phase'[r] = "fired" /\ UNCHANGED <<tracked, read>>
            \/ /\ phase[r] = "fired" /\ phase'[r] = "loading" /\ UNCHANGED read
               /\ tracked' = [tracked EXCEPT ![requests[r]] = NoTimer]
            \/ /\ phase[r] = "loading" /\ phase'[r] \in {"diffed"} \cup Served /\ UNCHANGED tracked
               /\ IF requests[r] \in InRepo
                  THEN read' = [read EXCEPT ![r] = content[requests[r]]]
                  ELSE UNCHANGED read
            \/ phase[r] = "diffed" /\ phase'[r] = "rendered" /\ UNCHANGED <<tracked, read>>
<1>1. phase[r] # "none" => r \in Submitted
  BY RequestFacts
<1>2. CASE Fire(r)
  BY <1>1, <1>2 DEF Fire, TypeOK
<1>3. CASE RunDiff(r)
  BY <1>1, <1>3 DEF RunDiff, TypeOK
<1>4. CASE LoadAndDiff(r)
  BY <1>1, <1>4 DEF LoadAndDiff, TypeOK, Served
<1>5. CASE Render(r)
  BY <1>1, <1>5 DEF Render, TypeOK, Served
<1> QED
  BY <1>2, <1>3, <1>4, <1>5 DEF TimerThread

LEMMA TimerType ==
  ASSUME TypeOK, NEW r \in Ids, TimerThread(r)
  PROVE  TypeOK'
<1>1. Submitted' = Submitted /\ Quiet /\ r \in Submitted
  BY TimerIs DEF Quiet, Submitted
<1>2. /\ phase' \in [Ids -> Phases]
      /\ \A q \in Ids : phase'[q] = "none" <=> q \notin Submitted
  <2>1. PICK to \in {"fired", "loading", "diffed"} \cup Served : phase' = [phase EXCEPT ![r] = to]
    BY TimerIs
  <2> QED
    BY <1>1, <2>1 DEF TypeOK, Phases, Waiting, Running, Served
<1>3. requests[r] \in Files
  BY <1>1, RequestFacts
<1>4. tracked' \in [Files -> Submitted \cup {NoTimer}]
  BY <1>3, TimerIs DEF TypeOK
<1>5. read' \in [Ids -> Versions \cup {Gone, Unread}]
  BY <1>3, TimerIs DEF TypeOK
<1> QED
  BY <1>1, <1>2, <1>4, <1>5 DEF Quiet, TypeOK, disk

LEMMA StepType == TypeOK /\ [Next]_vars => TypeOK'
<1> SUFFICES ASSUME TypeOK, [Next]_vars PROVE TypeOK'
  OBVIOUS
<1>1. ASSUME NEW f \in Files, Save(f) \/ Touch(f) \/ Remove(f)
      PROVE  TypeOK'
  BY <1>1, DiskIs, OperationType
<1>2. CASE Start \/ StopObserver
  BY <1>2 DEF Start, StopObserver, TypeOK, Submitted, disk
<1>3. CASE StopTimers
  <2>1. Submitted' = Submitted /\ UNCHANGED requests /\ stopMark' \in Nat
    BY <1>3, RequestFacts DEF StopTimers, Submitted
  <2>2. /\ phase' \in [Ids -> Phases]
        /\ \A r \in Ids : phase'[r] = "none" <=> r \notin Submitted
    <3>1. PICK S : phase' = CancelTimers(S)
      BY <1>3 DEF StopTimers
    <3> QED
      BY <3>1, CancelTimersIs, RequestFacts
  <2>3. abandoned' \subseteq Submitted /\ tracked' \in [Files -> Submitted \cup {NoTimer}]
    BY <1>3 DEF StopTimers, Unsettled
  <2> QED
    BY <1>3, <2>1, <2>2, <2>3 DEF StopTimers, TypeOK, disk
<1>4. CASE Dispatch
  BY <1>4, DispatchType
<1>5. ASSUME NEW r \in Ids, TimerThread(r)
      PROVE  TypeOK'
  BY <1>5, TimerType
<1>6. CASE UNCHANGED vars
  BY <1>6 DEF vars, TypeOK, Submitted
<1> QED
  BY <1>1, <1>2, <1>3, <1>4, <1>5, <1>6 DEF Next


-------------------------------------------------------------------------------
(* No save is lost, and what outlives a stop *)

\* An event of a file becomes a request, and takes the place of the one the table
\* has for the file.
LEMMA ScheduledIs ==
  ASSUME TypeOK, Dispatch, Head(events) \in Files
  PROVE  \E f \in Files, n \in Ids :
           /\ f = Head(events) /\ n = Len(requests) + 1 /\ n \notin Submitted
           /\ requests' = Append(requests, f)
           /\ Submitted' = Submitted \cup {n} /\ requests'[n] = f /\ phase'[n] = "armed"
           /\ \A r \in Submitted :
                /\ r < n /\ requests'[r] = requests[r]
                /\ phase'[r] = IF r = tracked[f] /\ phase[r] = "armed" THEN "cancelled" ELSE phase[r]
           /\ tracked' = [tracked EXCEPT ![f] = n]
<1>1. PICK f \in Files, n \in {Len(requests) + 1} : f = Head(events) /\ n = Len(requests) + 1
  OBVIOUS
<1>2. ScheduleDiff(f) /\ events # <<>>
  BY <1>1, FileWatcherAssumption DEF Dispatch
<1>3. Len(requests) + 1 <= MaxOps
  <2>1. Len(events) \in Nat \ {0}
    BY <1>2, EventsFacts DEF TypeOK
  <2> QED
    BY <2>1, RequestFacts, FileWatcherAssumption DEF TypeOK
<1>4. n \in Ids /\ n \notin Submitted /\ \A r \in Submitted : r < n /\ r \in Ids
  BY <1>1, <1>3, RequestFacts, FileWatcherAssumption DEF Ids
<1>5. /\ requests' = Append(requests, f)
      /\ Submitted' = Submitted \cup {n} /\ requests'[n] = f
      /\ \A r \in Submitted : requests'[r] = requests[r]
  BY <1>1, <1>2, RequestAppended DEF ScheduleDiff
<1>6. /\ phase'[n] = "armed"
      /\ \A r \in Submitted :
           phase'[r] = IF r = tracked[f] /\ phase[r] = "armed" THEN "cancelled" ELSE phase[r]
  BY <1>1, <1>2, <1>4, CancelTimersIs DEF ScheduleDiff
<1> QED
  BY <1>1, <1>2, <1>4, <1>5, <1>6 DEF ScheduleDiff

LEMMA TrackedStep == TypeOK /\ TrackedIsNewest /\ [Next]_vars => TrackedIsNewest'
<1> SUFFICES ASSUME TypeOK, TrackedIsNewest, [Next]_vars PROVE TrackedIsNewest'
  OBVIOUS
<1>1. ASSUME UNCHANGED requests,
             \A f \in Files : tracked'[f] # NoTimer => tracked'[f] = tracked[f]
      PROVE  TrackedIsNewest'
  BY <1>1 DEF TrackedIsNewest, Submitted
<1>2. ASSUME NEW f \in Files, Save(f) \/ Touch(f) \/ Remove(f)
      PROVE  TrackedIsNewest'
  BY <1>1, <1>2 DEF Save, Touch, Remove, Operation
<1>3. CASE Start \/ StopObserver \/ StopTimers \/ UNCHANGED vars
  BY <1>1, <1>3 DEF Start, StopObserver, StopTimers, vars
<1>4. CASE Dispatch
  <2>1. CASE Head(events) \notin Files
    BY <1>1, <1>4, <2>1 DEF Dispatch
  <2>2. CASE Head(events) \in Files
    <3>1. PICK f \in Files, n \in Ids :
             /\ Submitted' = Submitted \cup {n} /\ requests'[n] = f
             /\ \A r \in Submitted : r < n /\ requests'[r] = requests[r]
             /\ tracked' = [tracked EXCEPT ![f] = n]
      BY <1>4, <2>2, ScheduledIs
    <3>2. \A e \in Files : tracked[e] # NoTimer => tracked[e] \in Submitted
      BY DEF TypeOK
    <3>3. \A r \in Submitted : r <= n
      BY <3>1, RequestFacts DEF Ids
    <3>4. n <= n
      BY DEF Ids
    <3>5. \A e \in Files : tracked'[e] = IF e = f THEN n ELSE tracked[e]
      BY <3>1 DEF TypeOK
    <3> QED
      BY <3>1, <3>2, <3>3, <3>4, <3>5 DEF TrackedIsNewest
  <2> QED
    BY <2>1, <2>2
<1>5. ASSUME NEW r \in Ids, TimerThread(r)
      PROVE  TrackedIsNewest'
  <2>1. UNCHANGED requests /\ \A f \in Files : tracked'[f] # NoTimer => tracked'[f] = tracked[f]
    BY <1>5, TimerIs DEF Quiet, TypeOK
  <2> QED
    BY <1>1, <2>1
<1> QED
  BY <1>2, <1>3, <1>4, <1>5 DEF Next

LEMMA UntouchedStep == TypeOK /\ NewIsUntouched /\ [Next]_vars => NewIsUntouched'
<1> SUFFICES ASSUME TypeOK, NewIsUntouched, [Next]_vars PROVE NewIsUntouched'
  OBVIOUS
<1>1. ASSUME NEW f \in Files, Save(f) \/ Touch(f) \/ Remove(f)
      PROVE  NewIsUntouched'
  BY <1>1 DEF Save, Touch, Remove, Operation, NewIsUntouched
<1>2. ASSUME NEW r \in Ids, TimerThread(r)
      PROVE  NewIsUntouched'
  BY <1>2, TimerIs DEF Quiet, disk, NewIsUntouched
<1>3. CASE Start \/ StopObserver \/ StopTimers \/ Dispatch \/ UNCHANGED vars
  BY <1>3 DEF Start, StopObserver, StopTimers, Dispatch, vars, disk, NewIsUntouched
<1> QED
  BY <1>1, <1>2, <1>3 DEF Next

LEMMA FirstStep == TypeOK /\ StopIsFirst /\ [Next]_vars => StopIsFirst'
<1> SUFFICES ASSUME TypeOK, StopIsFirst, [Next]_vars PROVE StopIsFirst'
  OBVIOUS
<1>1. ASSUME NEW f \in Files, Save(f) \/ Touch(f) \/ Remove(f)
      PROVE  StopIsFirst'
  BY <1>1 DEF Save, Touch, Remove, Operation, StopIsFirst
<1>2. ASSUME NEW r \in Ids, TimerThread(r)
      PROVE  StopIsFirst'
  BY <1>2, TimerIs DEF Quiet, StopIsFirst
<1>3. CASE Start \/ StopObserver \/ StopTimers \/ Dispatch \/ UNCHANGED vars
  BY <1>3 DEF Start, StopObserver, StopTimers, Dispatch, vars, StopIsFirst
<1> QED
  BY <1>1, <1>2, <1>3 DEF Next

\* A step that takes nothing from a file, unless it has another event or request
\* for it, loses no save of it.
LEMMA SavesStep ==
  TypeOK /\ TrackedIsNewest /\ NewIsUntouched /\ NoSaveLost /\ [Next]_vars => NoSaveLost'
<1> SUFFICES ASSUME TypeOK, TrackedIsNewest, NewIsUntouched, NoSaveLost, [Next]_vars,
                    NEW f \in InRepo, watching' = "on", content'[f] > 0
             PROVE  Seen(f)' \/ Coming(f)'
  BY DEF NoSaveLost
<1>0. f \in Files
  BY FileWatcherAssumption
<1>1. ASSUME NEW g \in Files, Save(g) \/ Touch(g) \/ Remove(g)
      PROVE  Seen(f)' \/ Coming(f)'
  <2>1. PICK v \in Versions \cup {Gone}, reported \in {<<e>> : e \in EventPaths} \cup {<<>>} :
          Operation(g, v, reported) /\ (reported = <<g>> \/ v = Gone)
    BY <1>1, DiskIs
  <2>2. /\ watching = "on" /\ events' = events \o reported
        /\ content'[f] = IF f = g THEN v ELSE content[f]
        /\ UNCHANGED <<requests, phase, read>> /\ Submitted' = Submitted
    BY <1>0, <2>1 DEF Operation, TypeOK, Submitted
  <2>3. \A i \in DOMAIN events : i \in DOMAIN events' /\ events'[i] = events[i]
    <3>1. DOMAIN events = 1..Len(events) /\ Len(events) \in Nat /\ events \in Seq(EventPaths)
      BY DEF TypeOK
    <3>2. CASE \E e \in EventPaths : reported = <<e>>
      BY <2>2, <3>1, <3>2, EventsFacts
    <3>3. CASE reported = <<>>
      BY <2>2, <3>1, <3>3, EventsFacts
    <3> QED
      BY <3>2, <3>3
  <2>4. CASE f = g
    <3>1. reported = <<f>>
      BY <2>1, <2>2, <2>4 DEF Gone
    <3>2. /\ events \in Seq(EventPaths) /\ f \in EventPaths
          /\ Len(events') = Len(events) + 1 /\ events'[Len(events) + 1] = f
          /\ events' \in Seq(EventPaths)
      BY <1>0, <2>2, <3>1, EventsFacts DEF TypeOK, EventPaths
    <3>3. Len(events) + 1 \in DOMAIN events'
      BY <3>2, RequestFacts
    <3> QED
      BY <3>2, <3>3 DEF Coming
  <2>5. CASE f # g
    <3>1. Seen(f) \/ Coming(f)
      BY <2>2, <2>5 DEF NoSaveLost
    <3> QED
      BY <2>2, <2>3, <2>5, <3>1 DEF Seen, Coming
  <2> QED
    BY <2>4, <2>5
<1>2. CASE Start
  BY <1>0, <1>2 DEF Start, disk, NewIsUntouched
<1>3. CASE StopTimers \/ StopObserver
  BY <1>3 DEF StopTimers, StopObserver
<1>4. CASE Dispatch
  <2>1. /\ watching = "on" /\ UNCHANGED <<content, read>> /\ events' = Tail(events)
        /\ events # <<>> /\ events \in Seq(EventPaths)
    BY <1>4 DEF Dispatch, disk, TypeOK
  <2>2. Seen(f) \/ Coming(f)
    BY <2>1 DEF NoSaveLost
  <2>3. \A i \in DOMAIN events : events[i] = f /\ f # Head(events) => Coming(f)'
    <3> SUFFICES ASSUME NEW i \in DOMAIN events, events[i] = f, f # Head(events)
                 PROVE  Coming(f)'
      OBVIOUS
    <3>1. i - 1 \in DOMAIN events' /\ events'[i - 1] = f
      BY <2>1, EventsFacts
    <3> QED
      BY <3>1 DEF Coming
  <2>4. CASE Head(events) \notin Files
    <3>1. UNCHANGED <<requests, phase, tracked>> /\ Submitted' = Submitted
      BY <1>4, <2>4 DEF Dispatch, Submitted
    <3> QED
      BY <1>0, <2>1, <2>2, <2>3, <2>4, <3>1 DEF Seen, Coming
  <2>5. CASE Head(events) \in Files
    <3>1. PICK g \in Files, n \in Ids :
           /\ g = Head(events) /\ n \notin Submitted
           /\ Submitted' = Submitted \cup {n} /\ requests'[n] = g /\ phase'[n] = "armed"
           /\ \A r \in Submitted :
                /\ requests'[r] = requests[r]
                /\ phase'[r] = IF r = tracked[g] /\ phase[r] = "armed" THEN "cancelled" ELSE phase[r]
      BY <1>4, <2>5, ScheduledIs
    <3>2. CASE f = g
      BY <3>1, <3>2 DEF Coming, Waiting
    <3>3. CASE f # g
      <4>1. tracked[g] \in Submitted => requests[tracked[g]] = g
        BY RequestFacts DEF TrackedIsNewest
      <4>2. \A r \in Submitted : requests[r] = f => phase'[r] = phase[r]
        BY <3>1, <3>3, <4>1
      <4> QED
        BY <2>1, <2>2, <2>3, <3>1, <3>3, <4>2 DEF Seen, Coming
    <3> QED
      BY <3>2, <3>3
  <2> QED
    BY <2>4, <2>5
<1>5. ASSUME NEW r \in Ids, TimerThread(r)
      PROVE  Seen(f)' \/ Coming(f)'
  <2>1. /\ UNCHANGED <<content, events, watching, requests>> /\ Submitted' = Submitted
        /\ r \in Submitted
        /\ \A q \in Ids : q # r => phase'[q] = phase[q]
    BY <1>5, TimerIs DEF Quiet, disk, Submitted, TypeOK
  <2>2. Seen(f) \/ Coming(f)
    BY <2>1 DEF NoSaveLost
  <2>3. \A q \in Submitted : q \in Ids
    BY RequestFacts
  <2>4. CASE phase[r] = "loading" /\ requests[r] \in InRepo
    <3>1. read' = [read EXCEPT ![r] = content[requests[r]]]
      BY <1>5, <2>4, TimerIs
    <3>2. \A q \in Submitted : read'[q] = IF q = r THEN content[requests[r]] ELSE read[q]
      BY <2>3, <3>1 DEF TypeOK
    <3> QED
      BY <2>1, <2>2, <2>3, <2>4, <3>2 DEF Seen, Coming
  <2>5. CASE phase[r] = "loading" /\ requests[r] \notin InRepo
    <3>1. UNCHANGED read /\ requests[r] # f
      BY <1>5, <2>5, TimerIs
    <3> QED
      BY <2>1, <2>2, <2>3, <3>1 DEF Seen, Coming
  <2>6. CASE phase[r] # "loading"
    <3>1. UNCHANGED read
      BY <1>5, <2>6, TimerIs
    <3>2. phase[r] \in Waiting => phase'[r] \in Waiting \cup {"loading"}
      BY <1>5, <2>6, TimerIs DEF Waiting
    <3> QED
      BY <2>1, <2>2, <2>3, <2>6, <3>1, <3>2 DEF Seen, Coming
  <2> QED
    BY <2>4, <2>5, <2>6
<1>6. CASE UNCHANGED vars
  BY <1>6 DEF vars, NoSaveLost, Seen, Coming, Submitted
<1> QED
  BY <1>1, <1>2, <1>3, <1>4, <1>5, <1>6 DEF Next


LEMMA MarkStep == TypeOK /\ MarkIsPast /\ [Next]_vars => MarkIsPast'
<1> SUFFICES ASSUME TypeOK, MarkIsPast, [Next]_vars PROVE MarkIsPast'
  OBVIOUS
<1>1. Len(requests) \in Nat /\ stopMark \in Nat
  BY RequestFacts DEF TypeOK
<1>2. CASE StopTimers
  BY <1>1, <1>2 DEF StopTimers, MarkIsPast
<1>3. CASE Dispatch
  <2>1. Len(requests') = Len(requests) \/ Len(requests') = Len(requests) + 1
    <3>1. CASE Head(events) \in Files
      <4>1. PICK f \in Files : requests' = Append(requests, f)
        BY <1>3, <3>1, ScheduledIs
      <4> QED
        BY <4>1, RequestAppended
    <3>2. CASE Head(events) \notin Files
      BY <1>3, <3>2 DEF Dispatch
    <3> QED
      BY <3>1, <3>2
  <2> QED
    BY <1>1, <1>3, <2>1 DEF Dispatch, MarkIsPast
<1>4. ASSUME UNCHANGED <<requests, stopMark>>
      PROVE  MarkIsPast'
  BY <1>4 DEF MarkIsPast
<1>5. ASSUME NEW r \in Ids, TimerThread(r)
      PROVE  MarkIsPast'
  BY <1>4, <1>5, TimerIs DEF Quiet
<1>6. ASSUME NEW f \in Files, Save(f) \/ Touch(f) \/ Remove(f)
      PROVE  MarkIsPast'
  BY <1>4, <1>6 DEF Save, Touch, Remove, Operation
<1>7. CASE Start \/ StopObserver \/ UNCHANGED vars
  BY <1>4, <1>7 DEF Start, StopObserver, vars
<1> QED
  BY <1>2, <1>3, <1>5, <1>6, <1>7 DEF Next

\* A run that has taken its timer out of the table has done so for good.
LEMMA EscapeIsForGood ==
  ASSUME TypeOK, Submitted \subseteq Submitted',
         \A r \in Submitted : /\ requests'[r] = requests[r]
                              /\ phase[r] \in Running \cup Served => phase'[r] \in Running \cup Served
  PROVE  \A r \in Submitted : Escaped(r) => Escaped(r)'
  BY DEF Escaped

LEMMA ArmedStep ==
  TypeOK /\ TrackedIsNewest /\ MarkIsPast /\ ArmedIsKnown /\ [Next]_vars => ArmedIsKnown'
<1> SUFFICES ASSUME TypeOK, TrackedIsNewest, MarkIsPast, ArmedIsKnown, [Next]_vars
             PROVE  ArmedIsKnown'
  OBVIOUS
<1> \A r \in Submitted : r \in Ids /\ r # NoTimer /\ requests[r] \in Files
  BY RequestFacts
<1>1. ASSUME UNCHANGED <<requests, phase, tracked, stopMark>>,
             watching' = watching \/ (watching = "new" /\ watching' = "on")
                                  \/ (watching = "stopping" /\ watching' = "off")
      PROVE  ArmedIsKnown'
  BY <1>1 DEF ArmedIsKnown, Escaped, Submitted
<1>2. ASSUME NEW f \in Files, Save(f) \/ Touch(f) \/ Remove(f)
      PROVE  ArmedIsKnown'
  BY <1>1, <1>2 DEF Save, Touch, Remove, Operation
<1>3. CASE Start \/ StopObserver \/ UNCHANGED vars
  BY <1>1, <1>3 DEF Start, StopObserver, vars
<1>4. CASE StopTimers
  <2>1. /\ Submitted' = Submitted /\ UNCHANGED requests
        /\ watching = "on" /\ watching' = "stopping"
        /\ \A r \in Submitted : phase'[r] = IF r \in {tracked[f] : f \in Files} /\ phase[r] = "armed"
                                            THEN "cancelled" ELSE phase[r]
    BY <1>4, CancelTimersIs DEF StopTimers, Submitted
  <2>2. \A r \in Submitted : Escaped(r) => Escaped(r)'
    BY <2>1, EscapeIsForGood DEF Running, Served
  <2> QED
    BY <2>1, <2>2 DEF ArmedIsKnown
<1>5. CASE Dispatch
  <2>1. watching' = watching /\ watching \in {"on", "stopping"} /\ UNCHANGED stopMark
    BY <1>5 DEF Dispatch
  <2>2. CASE Head(events) \notin Files
    BY <1>1, <1>5, <2>1, <2>2 DEF Dispatch
  <2>3. CASE Head(events) \in Files
    <3>1. PICK f \in Files, n \in Ids :
           /\ n = Len(requests) + 1 /\ n \notin Submitted
           /\ Submitted' = Submitted \cup {n} /\ requests'[n] = f
           /\ \A r \in Submitted :
                /\ requests'[r] = requests[r]
                /\ phase'[r] = IF r = tracked[f] /\ phase[r] = "armed" THEN "cancelled" ELSE phase[r]
           /\ tracked' = [tracked EXCEPT ![f] = n]
      BY <1>5, <2>3, ScheduledIs
    <3>2. n > stopMark
      BY <3>1, RequestFacts DEF MarkIsPast, TypeOK
    <3>3. tracked'[f] = n /\ \A g \in Files : g # f => tracked'[g] = tracked[g]
      BY <3>1 DEF TypeOK
    <3>4. \A r \in Submitted : Escaped(r) => Escaped(r)'
      BY <3>1, EscapeIsForGood DEF Running, Served
    <3>5. ASSUME NEW r \in Submitted, phase'[r] = "armed"
          PROVE  \/ Escaped(r)'
                 \/ watching' \in {"new", "on"} /\ tracked'[requests'[r]] = r
                 \/ watching' \in {"stopping", "off"} /\ r > stopMark'
      <4>1. phase[r] = "armed" /\ r # tracked[f] /\ requests'[r] = requests[r]
        BY <3>1, <3>5
      <4> QED
        BY <2>1, <3>3, <3>4, <4>1 DEF ArmedIsKnown
    <3> QED
      BY <2>1, <3>1, <3>2, <3>3, <3>5 DEF ArmedIsKnown
  <2> QED
    BY <2>2, <2>3
<1>6. ASSUME NEW q \in Ids, TimerThread(q)
      PROVE  ArmedIsKnown'
  <2>1. /\ q \in Submitted /\ UNCHANGED <<requests, watching, stopMark>> /\ Submitted' = Submitted
        /\ \A r \in Submitted : r # q => phase'[r] = phase[r]
        /\ phase'[q] # "armed"
    BY <1>6, TimerIs DEF Quiet, Submitted, TypeOK, Served
  <2>2. phase[q] \in Running \cup Served => phase'[q] \in Running \cup Served
    BY <1>6, TimerIs DEF Running, Served
  <2>3. \A r \in Submitted : Escaped(r) => Escaped(r)'
    BY <2>1, <2>2, EscapeIsForGood
  <2>4. CASE UNCHANGED tracked
    BY <2>1, <2>3, <2>4 DEF ArmedIsKnown
  <2>5. CASE phase[q] = "fired" /\ phase'[q] = "loading" /\ tracked' = [tracked EXCEPT ![requests[q]] = NoTimer]
    <3>1. \A f \in Files : tracked'[f] = IF f = requests[q] THEN NoTimer ELSE tracked[f]
      BY <2>5 DEF TypeOK
    <3>2. ASSUME NEW r \in Submitted, phase[r] = "armed", tracked[requests[r]] = r, requests[r] = requests[q]
          PROVE  Escaped(r)'
      <4>1. q <= r /\ q # r
        BY <2>1, <2>5, <3>2 DEF TrackedIsNewest
      <4>2. q < r
        BY <4>1 DEF Ids
      <4> QED
        BY <2>1, <2>5, <3>2, <4>2 DEF Escaped, Running
    <3> QED
      BY <2>1, <2>3, <3>1, <3>2 DEF ArmedIsKnown
  <2> QED
    BY <1>6, <2>4, <2>5, TimerIs
<1> QED
  BY <1>2, <1>3, <1>4, <1>5, <1>6 DEF Next

Inv == TypeOK /\ TrackedIsNewest /\ MarkIsPast /\ NewIsUntouched /\ StopIsFirst /\ ArmedIsKnown

LEMMA InitInv == Init => Inv /\ NoSaveLost
<1> SUFFICES ASSUME Init PROVE Inv /\ NoSaveLost
  OBVIOUS
<1>1. TypeOK /\ Submitted = {} /\ Len(requests) = 0
  BY InitType DEF Init, Submitted
<1> QED
  BY <1>1 DEF Init, Inv, TrackedIsNewest, MarkIsPast, NewIsUntouched, StopIsFirst, ArmedIsKnown,
       NoSaveLost

LEMMA InvStep == Inv /\ [Next]_vars => Inv'
  BY StepType, TrackedStep, MarkStep, UntouchedStep, FirstStep, ArmedStep DEF Inv

LEMMA InvHolds == Spec => []Inv
  BY InitInv, InvStep, PTL DEF Spec

\* Every reachable state has its type; a request is named by its arrival number,
\* and the events waiting and the requests made are no more than the operations
\* on the disk.
THEOREM TypeCorrect == Spec => []TypeOK
<1>1. Inv => TypeOK
  BY DEF Inv
<1> QED
  BY <1>1, InvHolds, PTL

\* While the watcher is on, the newest content of every file in a repository has
\* been read by a run or is going to be: _schedule_diff cancels a timer only with
\* a newer one for the same file armed.
THEOREM SavesAreNotLost == Spec => []NoSaveLost
<1>1. Inv /\ NoSaveLost /\ [Next]_vars => NoSaveLost'
  BY SavesStep DEF Inv
<1> QED
  BY <1>1, InitInv, InvStep, PTL DEF Spec

\* A timer that is armed after stop() has returned escaped in one of two ways: its
\* event was handled between the halves of stop(), or the run of an older request
\* for its file had taken its entry out of the table.
THEOREM OnlyEscapeesRemain == Spec => []OnlyEscapeesOutliveStop
<1>1. Inv => OnlyEscapeesOutliveStop
  BY DEF Inv, ArmedIsKnown, Escaped, OnlyEscapeesOutliveStop
<1> QED
  BY <1>1, InvHolds, PTL

-------------------------------------------------------------------------------
(* The watcher implements Coalescing *)

Outcomes == [r \in Ids |-> Outcome(r)]

\* What the phase of a request says about its outcome, before and after a step.
LEMMA OutcomeValues ==
  ASSUME NEW r
  PROVE  /\ phase[r] = "none" => Outcome(r) = "none"
         /\ phase[r] \in Waiting \cup Running => Outcome(r) = "pending"
         /\ phase'[r] \in Waiting \cup Running => Outcome(r)' = "pending"
         /\ phase'[r] \in Served => Outcome(r)' = "served"
         /\ phase'[r] = "cancelled" => Outcome(r)' = "shed"
         /\ phase'[r] = phase[r] => Outcome(r)' = Outcome(r)
  BY DEF Outcome, Waiting, Running, Served

LEMMA OutcomesNext ==
  /\ \A r \in Ids : Outcomes[r] = Outcome(r)
  /\ Outcomes' = [r \in Ids |-> Outcome(r)']
  BY DEF Outcomes

\* A request under way is what the promise calls pending.
LEMMA PendingIsUnsettled ==
  ASSUME TypeOK
  PROVE  Unsettled = {r \in Submitted : Outcomes[r] = "pending"}
<1>1. \A r \in Submitted : Outcomes[r] = "pending" <=> phase[r] \in Waiting \cup Running
  BY RequestFacts DEF Outcomes, Outcome, TypeOK, Phases, Waiting, Running, Served
<1> QED
  BY <1>1 DEF Unsettled

LEMMA PromiseInit == Init => Promise!Init
<1> SUFFICES ASSUME Init PROVE Promise!Init
  OBVIOUS
<1>1. Outcomes = [r \in Ids |-> "none"]
  <2>1. \A r \in Ids : Outcome(r) = "none"
    BY OutcomeValues DEF Init
  <2> QED
    BY <2>1 DEF Outcomes
<1> QED
  BY <1>1 DEF Init, Promise!Init, Promise!Ids, Ids, Outcomes

\* An event that becomes a request is a Submit; it pushes out the request whose
\* timer the table has for the file, when that is still armed.
LEMMA SubmitStep ==
  ASSUME TypeOK, TrackedIsNewest, Dispatch, Head(events) \in Files
  PROVE  Promise!Next
<1>1. PICK f \in Files, n \in Ids :
        /\ n = Len(requests) + 1 /\ n \notin Submitted
        /\ requests' = Append(requests, f) /\ phase'[n] = "armed"
        /\ \A r \in Submitted :
             phase'[r] = IF r = tracked[f] /\ phase[r] = "armed" THEN "cancelled" ELSE phase[r]
  BY ScheduledIs
<1>2. PICK pushed : pushed = {r \in Submitted : r = tracked[f] /\ phase[r] = "armed"}
  OBVIOUS
<1>3. \A r \in Ids : phase'[r] = IF r = n THEN "armed"
                                 ELSE IF r \in pushed THEN "cancelled" ELSE phase[r]
  <2>1. \A r \in Ids \ Submitted : r # n => phase'[r] = phase[r]
    <3>1. PICK g : ScheduleDiff(g)
      BY FileWatcherAssumption DEF Dispatch
    <3>2. \A r \in Ids \ Submitted : phase[r] # "armed"
      BY RequestFacts
    <3> QED
      BY <1>1, <3>1, <3>2, CancelTimersIs DEF ScheduleDiff
  <2> QED
    BY <1>1, <1>2, <2>1
<1>4. Outcomes' = [r \in Ids |-> IF r = n THEN "pending"
                                 ELSE IF r \in pushed THEN "shed" ELSE Outcomes[r]]
  <2>1. "armed" \in Waiting
    BY DEF Waiting
  <2> QED
    BY <1>3, <2>1, OutcomeValues, OutcomesNext
<1>5. pushed \in SUBSET {q \in {r \in Submitted : Outcomes[r] = "pending"} : requests[q] = f}
  <2>1. \A q \in pushed : q \in Unsettled /\ q # NoTimer /\ q = tracked[f]
    BY <1>2, RequestFacts DEF Unsettled, Waiting
  <2> QED
    BY <2>1, PendingIsUnsettled DEF TrackedIsNewest
<1>6. Len(requests) < MaxOps
  BY <1>1, RequestFacts, FileWatcherAssumption DEF Ids
<1>7. abandoned' = abandoned
  BY DEF Dispatch
<1>8. Promise!Submit(f)
  BY <1>1, <1>4, <1>5, <1>6, <1>7
  DEF Promise!Submit, Promise!Pending, Promise!Ids, Ids, Outcomes, Submitted
<1> QED
  BY <1>8 DEF Promise!Next

\* The first half of stop() gives up what is unsettled, and at once what it sees
\* in the table that is still armed.
LEMMA GiveUpStep ==
  ASSUME TypeOK, StopIsFirst, StopTimers
  PROVE  Promise!GiveUp
<1>1. PICK dropped : dropped = {r \in Submitted : r \in {tracked[f] : f \in Files} /\ phase[r] = "armed"}
  OBVIOUS
<1>2. \A r \in Ids : phase'[r] = IF r \in dropped THEN "cancelled" ELSE phase[r]
  BY <1>1, RequestFacts, CancelTimersIs DEF StopTimers
<1>3. Outcomes' = [r \in Ids |-> IF r \in dropped THEN "shed" ELSE Outcomes[r]]
  BY <1>2, OutcomeValues, OutcomesNext
<1>4. dropped \in SUBSET Unsettled
  BY <1>1 DEF Unsettled, Waiting
<1>5. requests' = requests /\ abandoned' = Unsettled
  BY DEF StopTimers
<1>6. abandoned = {}
  BY DEF StopTimers, StopIsFirst
<1> QED
  BY <1>3, <1>4, <1>5, <1>6, PendingIsUnsettled
  DEF Promise!GiveUp, Promise!Pending, Promise!Ids, Ids, Outcomes, Submitted

\* A step that settles no request is invisible.
LEMMA InvisibleStep ==
  ASSUME requests' = requests, abandoned' = abandoned,
         \A r \in Ids : \/ phase'[r] = phase[r]
                        \/ phase[r] \in Waiting \cup Running /\ phase'[r] \in Waiting \cup Running
  PROVE  UNCHANGED Promise!coalescingVars
<1>1. \A r \in Ids : Outcome(r)' = Outcome(r)
  BY OutcomeValues
<1>2. Outcomes' = Outcomes
  BY <1>1, OutcomesNext DEF Outcomes
<1> QED
  BY <1>2 DEF Promise!coalescingVars, Outcomes

\* Every step of the watcher is a step of the promise, or leaves it alone.
LEMMA PromiseStep ==
  ASSUME TypeOK, TrackedIsNewest, StopIsFirst, [Next]_vars
  PROVE  [Promise!Next]_(Promise!coalescingVars)
<1>1. ASSUME UNCHANGED <<requests, phase, abandoned>>
      PROVE  UNCHANGED Promise!coalescingVars
  BY <1>1, InvisibleStep
<1>2. ASSUME NEW f \in Files, Save(f) \/ Touch(f) \/ Remove(f)
      PROVE  UNCHANGED Promise!coalescingVars
  BY <1>1, <1>2 DEF Save, Touch, Remove, Operation
<1>3. CASE Start \/ StopObserver \/ UNCHANGED vars
  BY <1>1, <1>3 DEF Start, StopObserver, vars
<1>4. CASE StopTimers
  BY <1>4, GiveUpStep DEF Promise!Next
<1>5. CASE Dispatch /\ Head(events) \notin Files
  BY <1>1, <1>5 DEF Dispatch
<1>6. CASE Dispatch /\ Head(events) \in Files
  BY <1>6, SubmitStep
<1>7. ASSUME NEW r \in Ids, TimerThread(r)
      PROVE  Promise!Next \/ UNCHANGED Promise!coalescingVars
  <2>1. PICK to : phase' = [phase EXCEPT ![r] = to]
    BY <1>7, TimerIs
  <2>2. /\ r \in Submitted /\ requests' = requests /\ abandoned' = abandoned
        /\ phase[r] \in Waiting \cup Running
        /\ phase'[r] \in Waiting \cup Running \cup Served
        /\ \A q \in Ids : q # r => phase'[q] = phase[q]
    BY <1>7, <2>1, TimerIs DEF Quiet, Waiting, Running, Served, TypeOK
  <2>3. CASE phase'[r] \in Waiting \cup Running
    BY <2>2, <2>3, InvisibleStep
  <2>4. CASE phase'[r] \in Served
    <3>1. Outcomes' = [q \in Ids |-> IF q = r THEN "served" ELSE Outcomes[q]]
      BY <2>2, <2>4, OutcomeValues, OutcomesNext
    <3>2. Outcomes' = [Outcomes EXCEPT ![r] = "served"]
      BY <3>1 DEF Outcomes
    <3>3. r \in {q \in Submitted : Outcomes[q] = "pending"}
      BY <2>2, PendingIsUnsettled DEF Unsettled
    <3>4. Promise!Serve(r)
      BY <2>2, <3>2, <3>3 DEF Promise!Serve, Promise!Pending, Outcomes, Ids, Submitted
    <3> QED
      BY <1>7, <3>4 DEF Promise!Next, Promise!Ids, Ids
  <2> QED
    BY <2>2, <2>3, <2>4
<1> QED
  BY <1>2, <1>3, <1>4, <1>5, <1>6, <1>7 DEF Next

\* The watcher implements the safety half of Coalescing: it cancels a request only
\* for a newer one of its file, or because the watcher is being stopped.
THEOREM ImplementsPromise == Spec => PromiseSafety
<1>1. Inv => TypeOK /\ TrackedIsNewest /\ StopIsFirst
  BY DEF Inv
<1> QED
  BY <1>1, InvHolds, PromiseInit, PromiseStep, PTL DEF Spec, PromiseSafety, Promise!Safety

-------------------------------------------------------------------------------
(* The sessions of the live server. *)

OneAdmitted == \A c, d \in Conns : conn[c] = "admitted" /\ conn[d] = "admitted" => c = d

\* A line that is taken has left the buffer, and a line with the debounce, with
\* its thread or with a message to send was taken.
TakenUp ==
  /\ \A l \in taken : at[l] \notin {"none", "sent", "buffered"}
  /\ \A l \in DOMAIN lines : at[l] \in {"debounced"} \cup InThread \cup Writing => l \in taken
  /\ \A l \in DOMAIN lines : at[l] = "debounced" => lines[l].op = "diff"

\* A connection's lines are read, and taken, in the order they were sent.
Fifo ==
  \A k, l \in DOMAIN lines : k < l /\ ConnOf(k) = ConnOf(l) =>
    /\ at[l] # "sent" => at[k] # "sent"
    /\ l \in taken => at[k] \notin {"sent", "buffered"}

\* While the thread of a connection is busy with a line it has taken no later one.
Alone ==
  \A k, l \in taken :
    ConnOf(k) = ConnOf(l) /\ at[l] \in InThread \cup Writing /\ lines[l].op # "diff" => k <= l

\* An editor's reviews have larger numbers than what it sent before.
Numbered ==
  \A k, l \in DOMAIN lines :
    k < l /\ ConnOf(k) = ConnOf(l) /\ lines[l].op = "review" => lines[k].seq < lines[l].seq

\* The latest number is that of a review, or one past that of a cancel.
Raised ==
  latestReview > 0 =>
    \E k \in taken : \/ lines[k].op = "review" /\ lines[k].seq = latestReview
                     \/ lines[k].op = "cancel" /\ lines[k].seq + 1 = latestReview

\* A review that has sent a late result sends nothing more but an error.
LateOnce ==
  \A l \in Lines : late[l] # 0 =>
    /\ late[l] = 1 /\ l \in DOMAIN lines /\ Superseded(l)
    /\ \/ at[l] \in {"halfway"} \cup InThread \cup AtRest
       \/ at[l] = "replying" /\ what[l] = "error"

SessionsInv ==
  /\ SessionsTypeOK /\ OneAdmitted /\ SlotsAreHeld /\ TakenUp /\ Fifo /\ Alone /\ Numbered
  /\ Raised /\ LateOnce /\ OnlyOthersSilenceReviews

LEMMA LinesType ==
  ASSUME SessionsTypeOK
  PROVE  /\ Len(lines) \in 0..MaxLines /\ DOMAIN lines = 1..Len(lines) /\ DOMAIN lines \subseteq Lines
         /\ \A l \in DOMAIN lines :
              /\ lines[l] \in Line /\ ConnOf(l) \in Conns
              /\ lines[l].op \in AllOps /\ lines[l].seq \in 0..MaxSeq
<1>1. lines \in Seq(Line) /\ Len(lines) <= MaxLines
  BY DEF SessionsTypeOK
<1>2. Len(lines) \in Nat /\ DOMAIN lines = 1..Len(lines) /\ \A l \in DOMAIN lines : lines[l] \in Line
  BY <1>1, LenProperties, ElementOfSeq
<1> QED
  BY <1>1, <1>2, LiveSessionsAssumption DEF Lines, Line, ConnOf

\* One more line; those before it are as they were.
LEMMA Sent ==
  ASSUME SessionsTypeOK, NEW c \in Conns, NEW op \in Ops, SendLine(c, op)
  PROVE  \E s \in SeqsFor(c, op) :
           /\ lines' \in Seq(Line) /\ Len(lines') = Len(lines) + 1 /\ Len(lines) < MaxLines
           /\ DOMAIN lines' = DOMAIN lines \cup {Len(lines) + 1} /\ Len(lines) + 1 \in Lines
           /\ Len(lines) + 1 \notin DOMAIN lines
           /\ \A l \in DOMAIN lines : lines'[l] = lines[l] /\ ConnOf(l)' = ConnOf(l) /\ l < Len(lines) + 1
           /\ lines'[Len(lines) + 1] = [conn |-> c, op |-> op, seq |-> s] /\ s \in 0..MaxSeq
           /\ at' = [at EXCEPT ![Len(lines) + 1] = "sent"]
           /\ UNCHANGED <<serverVars, conn, reviewVars>>
<1>1. PICK s \in SeqsFor(c, op) : lines' = Append(lines, [conn |-> c, op |-> op, seq |-> s])
  BY DEF SendLine
<1>2. s \in 0..MaxSeq
  <2>1. \A l \in OfConn(c) : lines[l].seq \in 0..MaxSeq
    BY LinesType DEF OfConn
  <2>2. SeqsFor(c, op) \subseteq {0} \cup (1..MaxSeq) \cup {lines[l].seq : l \in OfConn(c)}
    BY DEF SeqsFor
  <2> QED
    BY <1>1, <2>1, <2>2, LiveSessionsAssumption
<1>3. PICK line : line = [conn |-> c, op |-> op, seq |-> s]
  OBVIOUS
<1>4. line \in Line
  BY <1>2, <1>3, LiveSessionsAssumption DEF Line
<1>5. PICK n : n = Len(lines)
  OBVIOUS
<1>6. /\ lines' \in Seq(Line) /\ Len(lines') = n + 1 /\ lines'[n + 1] = line /\ n \in Nat
      /\ \A l \in 1..n : lines'[l] = lines[l]
  BY <1>1, <1>3, <1>4, <1>5, AppendProperties, LinesType DEF SessionsTypeOK
<1>7. n < MaxLines /\ DOMAIN lines = 1..n /\ DOMAIN lines' = 1..(n + 1)
  BY <1>5, <1>6, LinesType, LenProperties DEF SendLine
<1>8. /\ DOMAIN lines' = DOMAIN lines \cup {n + 1} /\ n + 1 \in Lines /\ n + 1 \notin DOMAIN lines
      /\ \A l \in DOMAIN lines : l < n + 1
  BY <1>6, <1>7, LiveSessionsAssumption DEF Lines
<1>9. \A l \in DOMAIN lines : lines'[l] = lines[l] /\ ConnOf(l)' = ConnOf(l)
  BY <1>3, <1>6, <1>7 DEF ConnOf
<1>10. at' = [at EXCEPT ![n + 1] = "sent"] /\ UNCHANGED <<serverVars, conn, reviewVars>>
  BY <1>5 DEF SendLine
<1> WITNESS s \in SeqsFor(c, op)
<1>11. /\ lines' \in Seq(Line) /\ Len(lines') = Len(lines) + 1 /\ Len(lines) < MaxLines
       /\ lines'[Len(lines) + 1] = [conn |-> c, op |-> op, seq |-> s] /\ s \in 0..MaxSeq
  BY <1>2, <1>3, <1>5, <1>6, <1>7
<1>12. /\ DOMAIN lines' = DOMAIN lines \cup {Len(lines) + 1} /\ Len(lines) + 1 \in Lines
       /\ Len(lines) + 1 \notin DOMAIN lines /\ \A l \in DOMAIN lines : l < Len(lines) + 1
  BY <1>5, <1>8
<1>14. at' = [at EXCEPT ![Len(lines) + 1] = "sent"]
  BY <1>5, <1>10
<1> QED
  BY <1>9, <1>10, <1>11, <1>12, <1>14

LEMMA SessionsInitTypeOK == SessionsInit => SessionsTypeOK
<1> SUFFICES ASSUME SessionsInit
             PROVE  SessionsTypeOK
  OBVIOUS
<1>1. lines \in Seq(Line) /\ Len(lines) = 0 /\ DOMAIN lines = {}
  BY EmptySeq, LenProperties DEF SessionsInit
<1>2. /\ 0 \in 0..MaxFiles /\ 0 \in 0..(MaxSeq + 1) /\ 0 \in Nat /\ 0 <= MaxLines
  BY LiveSessionsAssumption
<1>3. /\ conn \in [Conns -> ConnStates] /\ at \in [Lines -> Places]
      /\ what \in [Lines -> {"answer", "file", "error"}] /\ left \in [Lines -> 0..MaxFiles]
      /\ late \in [Lines -> Nat] /\ count \in Nat /\ latestReview \in 0..(MaxSeq + 1)
  BY <1>2 DEF SessionsInit, ConnStates, Places
<1>4. /\ acceptor \in AcceptorStates /\ acceptor # "starting"
      /\ \A c \in Conns : conn[c] # "admitted"
      /\ \A l \in Lines : at[l] = "none"
  BY DEF SessionsInit, AcceptorStates
<1>5. /\ stopped \in BOOLEAN /\ transport \in {"socket", "pipe"} /\ taken \subseteq DOMAIN lines
  BY DEF SessionsInit
<1> QED
  BY <1>1, <1>2, <1>3, <1>4, <1>5 DEF SessionsTypeOK

\* What all steps of a client's thread, of a review and of the debounce have in common.
LEMMA LinesKeepTypes ==
  ASSUME SessionsTypeOK, UNCHANGED <<transport, stopped, acceptor, lines>>,
         conn' \in [Conns -> ConnStates],
         \A c \in Conns : conn'[c] = "admitted" <=> conn[c] = "admitted",
         count' \in Nat,
         at' \in [Lines -> Places], \A l \in Lines : at'[l] = "none" <=> at[l] = "none",
         what' \in [Lines -> {"answer", "file", "error"}],
         left' \in [Lines -> 0..MaxFiles], latestReview' \in 0..(MaxSeq + 1),
         taken' \subseteq DOMAIN lines, late' \in [Lines -> Nat]
  PROVE  SessionsTypeOK'
BY DEF SessionsTypeOK

LEMMA SessionsNextTypeOK == SessionsTypeOK /\ OneAdmitted /\ [SessionsNext]_sessionVars => SessionsTypeOK'
<1> SUFFICES ASSUME SessionsTypeOK, OneAdmitted, [SessionsNext]_sessionVars
             PROVE  SessionsTypeOK'
  OBVIOUS
<1> USE DEF serverVars, reviewVars
<1>1. ASSUME NEW c \in Conns, Accept(c)
      PROVE  SessionsTypeOK'
  <2>1. /\ acceptor # "starting" /\ conn[c] = "none" /\ count \in Nat
        /\ \A d \in Conns : conn[d] # "admitted"
        /\ UNCHANGED <<transport, stopped, lines, at, what, left, latestReview, taken, late>>
    BY <1>1 DEF Accept, Connects, Listening, SessionsTypeOK
  <2>2. \/ conn' = [conn EXCEPT ![c] = "rejected"] /\ acceptor' = "accepting" /\ count' = count
        \/ conn' = [conn EXCEPT ![c] = "admitted"] /\ acceptor' = "starting" /\ count' = count + 1
    BY <1>1 DEF Accept
  <2>3. /\ conn' \in [Conns -> ConnStates] /\ acceptor' \in AcceptorStates /\ count' \in Nat
    <3>1. conn \in [Conns -> ConnStates] /\ "rejected" \in ConnStates /\ "admitted" \in ConnStates
      BY DEF SessionsTypeOK, ConnStates, Held
    <3>2. "accepting" \in AcceptorStates /\ "starting" \in AcceptorStates
      BY DEF AcceptorStates
    <3> QED
      BY <2>1, <2>2, <3>1, <3>2
  <2>4. acceptor' = "starting" <=> \E d \in Conns : conn'[d] = "admitted"
    BY <2>1, <2>2 DEF SessionsTypeOK
  <2> QED
    BY <2>1, <2>3, <2>4 DEF SessionsTypeOK
<1>2. ASSUME NEW c \in Conns, StartThread(c)
      PROVE  SessionsTypeOK'
  BY <1>2 DEF StartThread, OneAdmitted, SessionsTypeOK, AcceptorStates, ConnStates, Held
<1>3. ASSUME NEW c \in Conns, NEW op \in Ops, SendLine(c, op)
      PROVE  SessionsTypeOK'
  <2>1. PICK s \in SeqsFor(c, op) :
           /\ lines' \in Seq(Line) /\ Len(lines') = Len(lines) + 1 /\ Len(lines) < MaxLines
           /\ DOMAIN lines' = DOMAIN lines \cup {Len(lines) + 1} /\ Len(lines) + 1 \in Lines
           /\ at' = [at EXCEPT ![Len(lines) + 1] = "sent"]
           /\ UNCHANGED <<serverVars, conn, reviewVars>>
    BY <1>3, Sent
  <2>2. at' \in [Lines -> Places] /\ \A l \in Lines : at'[l] = "none" <=> l \notin DOMAIN lines'
    BY <2>1 DEF SessionsTypeOK, Places
  <2>3. Len(lines') <= MaxLines
    BY <2>1, LinesType, LiveSessionsAssumption
  <2> QED
    BY <2>1, <2>2, <2>3 DEF SessionsTypeOK
<1>4. ASSUME StartServer \/ CreatePipe \/ Stop \/ AcceptorEnds \/ Nudge
      PROVE  SessionsTypeOK'
  BY <1>4 DEF StartServer, CreatePipe, Stop, AcceptorEnds, Nudge, SessionsTypeOK, AcceptorStates
<1>5. ASSUME NEW c \in Conns, Recv(c)
      PROVE  SessionsTypeOK'
  <2>1. at' \in [Lines -> Places] /\ \A l \in Lines : at'[l] = "none" <=> at[l] = "none"
    BY <1>5 DEF Recv, UnreadOf, SessionsTypeOK, Places
  <2> QED
    BY <1>5, <2>1, LinesKeepTypes DEF Recv, SessionsTypeOK
<1>6. ASSUME NEW c \in Conns, EndSession(c)
      PROVE  SessionsTypeOK'
  <2>1. at' \in [Lines -> Places] /\ \A l \in Lines : at'[l] = "none" <=> at[l] = "none"
    BY <1>6 DEF EndSession, Close, UnreadOf, SessionsTypeOK, Places, AtRest
  <2>2. /\ conn' \in [Conns -> ConnStates]
        /\ \A d \in Conns : conn'[d] = "admitted" <=> conn[d] = "admitted"
    BY <1>6 DEF EndSession, Close, SessionsTypeOK, ConnStates, Held
  <2> QED
    BY <1>6, <2>1, <2>2, LinesKeepTypes DEF EndSession, SessionsTypeOK
<1>7. ASSUME NEW c \in Conns, ReleaseSlot(c)
      PROVE  SessionsTypeOK'
  <2>1. /\ conn' \in [Conns -> ConnStates]
        /\ \A d \in Conns : conn'[d] = "admitted" <=> conn[d] = "admitted"
        /\ count' \in Nat
    BY <1>7 DEF ReleaseSlot, SessionsTypeOK, ConnStates
  <2> QED
    BY <1>7, <2>1, LinesKeepTypes DEF ReleaseSlot, SessionsTypeOK
<1>8. ASSUME NEW c \in Conns, NEW l \in Lines, TakeRefused(c, l)
      PROVE  SessionsTypeOK'
  <2>1. at' \in [Lines -> Places] /\ \A k \in Lines : at'[k] = "none" <=> at[k] = "none"
    BY <1>8 DEF TakeRefused, NextLine, Is, SessionsTypeOK, Places, Writing, AtRest
  <2>2. what' \in [Lines -> {"answer", "file", "error"}] /\ taken' \subseteq DOMAIN lines
    BY <1>8 DEF TakeRefused, NextLine, Is, SessionsTypeOK
  <2> QED
    BY <1>8, <2>1, <2>2, LinesKeepTypes DEF TakeRefused, SessionsTypeOK
<1>9. ASSUME NEW c \in Conns, NEW l \in Lines, TakeControl(c, l)
      PROVE  SessionsTypeOK'
  <2>1. at' \in [Lines -> Places] /\ \A k \in Lines : at'[k] = "none" <=> at[k] = "none"
    BY <1>9 DEF TakeControl, NextLine, Is, SessionsTypeOK, Places, Writing, AtRest
  <2>2. taken' \subseteq DOMAIN lines /\ lines[l].seq \in 0..MaxSeq
    BY <1>9, LinesType DEF TakeControl, NextLine, Is, SessionsTypeOK
  <2>3. latestReview' \in 0..(MaxSeq + 1)
    BY <1>9, <2>2, LiveSessionsAssumption DEF TakeControl, AfterControl, Raise, SessionsTypeOK
  <2> QED
    BY <1>9, <2>1, <2>2, <2>3, LinesKeepTypes DEF TakeControl, SessionsTypeOK
<1>10. ASSUME NEW c \in Conns, NEW l \in Lines, TakeDiff(c, l)
       PROVE  SessionsTypeOK'
  <2>1. at' \in [Lines -> Places] /\ \A k \in Lines : at'[k] = "none" <=> at[k] = "none"
    BY <1>10 DEF TakeDiff, NextLine, Is, SessionsTypeOK, Places, Writing, AtRest
  <2>2. taken' \subseteq DOMAIN lines
    BY <1>10 DEF TakeDiff, NextLine, Is, SessionsTypeOK
  <2> QED
    BY <1>10, <2>1, <2>2, LinesKeepTypes DEF TakeDiff, SessionsTypeOK
<1>11. ASSUME NEW c \in Conns, NEW l \in Lines, TakeReview(c, l)
       PROVE  SessionsTypeOK'
  <2>1. at' \in [Lines -> Places] /\ \A k \in Lines : at'[k] = "none" <=> at[k] = "none"
    BY <1>11 DEF TakeReview, NextLine, Is, SessionsTypeOK, Places, InThread
  <2>2. taken' \subseteq DOMAIN lines /\ lines[l].seq \in 0..MaxSeq
    BY <1>11, LinesType DEF TakeReview, NextLine, Is, SessionsTypeOK
  <2>3. latestReview' \in 0..(MaxSeq + 1) /\ left' \in [Lines -> 0..MaxFiles]
    BY <1>11, <2>2, LiveSessionsAssumption DEF TakeReview, Raise, SessionsTypeOK
  <2> QED
    BY <1>11, <2>1, <2>2, <2>3, LinesKeepTypes DEF TakeReview, SessionsTypeOK
<1>12. ASSUME NEW l \in Lines, Review(l) \/ CheckReview(l) \/ SettleDiff(l) \/ BeginSend(l) \/ EndSend(l)
       PROVE  SessionsTypeOK'
  <2>1. at' \in [Lines -> Places] /\ \A k \in Lines : at'[k] = "none" <=> at[k] = "none"
    <3>1. ASSUME Review(l) \/ SettleDiff(l) \/ BeginSend(l)
          PROVE  at' \in [Lines -> Places] /\ \A k \in Lines : at'[k] = "none" <=> at[k] = "none"
      BY <3>1 DEF Review, SettleDiff, BeginSend, Is, SessionsTypeOK, Places, InThread, Writing, AtRest
    <3>2. ASSUME CheckReview(l)
          PROVE  at' \in [Lines -> Places] /\ \A k \in Lines : at'[k] = "none" <=> at[k] = "none"
      <4>1. /\ at[l] = "checking"
            /\ \E x \in {"silent", "replying", "reviewing"} : at' = [at EXCEPT ![l] = x]
        BY <3>2 DEF CheckReview, Is
      <4> QED
        BY <4>1 DEF SessionsTypeOK, Places, InThread, Writing, AtRest
    <3>3. ASSUME EndSend(l)
          PROVE  at' \in [Lines -> Places] /\ \A k \in Lines : at'[k] = "none" <=> at[k] = "none"
      <4>1. at[l] = "halfway"
        BY <3>3 DEF EndSend, Is
      <4>2. \/ \E x \in {"lost", "reviewing", "done"} : at' = [at EXCEPT ![l] = x]
            \/ at' = [k \in Lines |-> IF k = l THEN "done"
                                     ELSE IF Is(k, {"sent", "buffered"}) /\ ConnOf(k) = ConnOf(l)
                                     THEN "lost" ELSE at[k]]
        BY <3>3 DEF EndSend
      <4> QED
        <5>0. /\ at \in [Lines -> Places]
              /\ {"lost", "reviewing", "done"} \subseteq Places \ {"none"}
          BY DEF SessionsTypeOK, Places, InThread, AtRest
        <5>1. ASSUME NEW x \in {"lost", "reviewing", "done"}, at' = [at EXCEPT ![l] = x]
              PROVE  at' \in [Lines -> Places] /\ \A k \in Lines : at'[k] = "none" <=> at[k] = "none"
          BY <4>1, <5>0, <5>1
        <5>2. CASE at' = [k \in Lines |-> IF k = l THEN "done"
                                     ELSE IF Is(k, {"sent", "buffered"}) /\ ConnOf(k) = ConnOf(l)
                                     THEN "lost" ELSE at[k]]
          <6>1. \A k \in Lines : at'[k] = at[k] \/ (at'[k] = "done" /\ k = l)
                                \/ (at'[k] = "lost" /\ at[k] \in {"sent", "buffered"})
            BY <5>2 DEF Is
          <6> QED
            BY <4>1, <5>0, <5>2, <6>1
        <5> QED
          BY <4>2, <5>1, <5>2
    <3> QED
      BY <1>12, <3>1, <3>2, <3>3
  <2>2. /\ what' \in [Lines -> {"answer", "file", "error"}] /\ left' \in [Lines -> 0..MaxFiles]
        /\ late' \in [Lines -> Nat]
    <3>1. CASE Review(l) \/ SettleDiff(l)
      BY <3>1 DEF Review, SettleDiff, LineQuiet, SessionsTypeOK
    <3>2. CASE CheckReview(l)
      <4>1. /\ left[l] \in 0..MaxFiles /\ late' = late
            /\ left' = left \/ (left[l] > 0 /\ left' = [left EXCEPT ![l] = @ - 1])
            /\ what' = what \/ \E x \in {"file", "answer"} : what' = [what EXCEPT ![l] = x]
        BY <3>2 DEF CheckReview, SessionsTypeOK
      <4>2. what' \in [Lines -> {"answer", "file", "error"}]
        BY <4>1 DEF SessionsTypeOK
      <4>3. left' \in [Lines -> 0..MaxFiles]
        <5>1. left[l] > 0 => left[l] - 1 \in 0..MaxFiles
          BY <4>1, LiveSessionsAssumption
        <5> QED
          BY <4>1, <5>1 DEF SessionsTypeOK
      <4> QED
        BY <4>1, <4>2, <4>3 DEF SessionsTypeOK
    <3>3. CASE BeginSend(l)
      <4>1. /\ UNCHANGED <<what, left>>
            /\ late' = late \/ late' = [late EXCEPT ![l] = @ + 1] \/ late' = [late EXCEPT ![l] = @]
        BY <3>3 DEF BeginSend
      <4>2. late \in [Lines -> Nat] /\ late[l] + 1 \in Nat
        BY DEF SessionsTypeOK
      <4>3. late' \in [Lines -> Nat]
        BY <4>1, <4>2
      <4> QED
        BY <4>1, <4>3 DEF SessionsTypeOK
    <3>4. CASE EndSend(l)
      <4>1. UNCHANGED <<left, late>> /\ what' = [what EXCEPT ![l] = "answer"]
        BY <3>4 DEF EndSend
      <4> QED
        BY <4>1 DEF SessionsTypeOK
    <3> QED
      BY <1>12, <3>1, <3>2, <3>3, <3>4
  <2>3. /\ conn' \in [Conns -> ConnStates]
        /\ \A d \in Conns : conn'[d] = "admitted" <=> conn[d] = "admitted"
    BY <1>12 DEF Review, CheckReview, SettleDiff, BeginSend, EndSend, LineQuiet, SessionsTypeOK, ConnStates, Held
  <2>4. UNCHANGED <<transport, stopped, acceptor, count, lines, latestReview, taken>>
    BY <1>12 DEF Review, CheckReview, SettleDiff, BeginSend, EndSend, LineQuiet
  <2> QED
    BY <2>1, <2>2, <2>3, <2>4, LinesKeepTypes DEF SessionsTypeOK
<1>13. CASE UNCHANGED sessionVars
  BY <1>13 DEF sessionVars, SessionsTypeOK
<1> QED
  BY <1>1, <1>2, <1>3, <1>4, <1>5, <1>6, <1>7, <1>8, <1>9, <1>10, <1>11, <1>12, <1>13
  DEF SessionsNext, ClientThread, Takes, Work

-------------------------------------------------------------------------------
(* Slots. *)

LEMMA NextOneAdmitted ==
  SessionsTypeOK /\ OneAdmitted /\ [SessionsNext]_sessionVars => OneAdmitted'
<1> SUFFICES ASSUME SessionsTypeOK, OneAdmitted, [SessionsNext]_sessionVars
             PROVE  OneAdmitted'
  OBVIOUS
<1>1. ASSUME NEW c \in Conns, Accept(c)
      PROVE  OneAdmitted'
  <2>1. \A d \in Conns : conn[d] # "admitted"
    BY <1>1 DEF Accept, Connects, Listening, SessionsTypeOK
  <2> QED
    BY <1>1, <2>1 DEF Accept, OneAdmitted, SessionsTypeOK
<1>2. ASSUME \A d \in Conns : conn'[d] = "admitted" => conn[d] = "admitted"
      PROVE  OneAdmitted'
  BY <1>2 DEF OneAdmitted
<1>3. ASSUME NEW c \in Conns,
             \/ \E x \in {"serving", "closing", "closed"} : conn' = [conn EXCEPT ![c] = x]
             \/ conn' = conn
      PROVE  OneAdmitted'
  BY <1>2, <1>3 DEF SessionsTypeOK
<1>4. ASSUME NEW c \in Conns, StartThread(c) \/ ClientThread(c)
      PROVE  OneAdmitted'
  <2>1. \/ \E x \in {"serving", "closing", "closed"} : conn' = [conn EXCEPT ![c] = x]
        \/ conn' = conn
    BY <1>4 DEF StartThread, ClientThread, Recv, EndSession, Close, ReleaseSlot, Takes,
      TakeRefused, TakeControl, TakeDiff, TakeReview
  <2> QED
    BY <1>3, <2>1
<1>5. ASSUME NEW l \in Lines, Work(l)
      PROVE  OneAdmitted'
  <2>1. \/ conn' = conn
        \/ l \in DOMAIN lines /\ conn' = [conn EXCEPT ![ConnOf(l)] = "closing"]
    BY <1>5 DEF Work, Review, CheckReview, SettleDiff, BeginSend, EndSend, LineQuiet, Is
  <2> QED
    BY <1>2, <1>3, <2>1, LinesType
<1>6. CASE UNCHANGED conn
  BY <1>2, <1>6
<1> QED
  BY <1>1, <1>4, <1>5, <1>6 DEF SessionsNext, SendLine, StartServer, CreatePipe, Stop, AcceptorEnds,
    Nudge, sessionVars

Holders == {c \in Conns : conn[c] \in Held}

LEMMA HoldersFinite == IsFiniteSet(Holders) /\ Cardinality(Holders) \in Nat
<1>1. IsFiniteSet(Conns)
  BY LiveSessionsAssumption, FS_Interval DEF Conns
<1>2. Holders \subseteq Conns
  BY DEF Holders
<1> QED
  BY <1>1, <1>2, FS_Subset, FS_CardinalityType

LEMMA NextSlotsAreHeld ==
  SessionsTypeOK /\ SlotsAreHeld /\ [SessionsNext]_sessionVars => SlotsAreHeld'
<1> SUFFICES ASSUME SessionsTypeOK, SlotsAreHeld, [SessionsNext]_sessionVars
             PROVE  SlotsAreHeld'
  OBVIOUS
<1>0. count = Cardinality(Holders) /\ count <= MaxClients /\ count \in Nat
  BY DEF SlotsAreHeld, Holders, SessionsTypeOK
<1>a. ASSUME count' = count, Holders' = Holders
      PROVE  SlotsAreHeld'
  BY <1>0, <1>a DEF SlotsAreHeld, Holders
<1>b. ASSUME count' = count, NEW c \in Conns, conn[c] \in Held, NEW x \in Held,
             conn' = [conn EXCEPT ![c] = x]
      PROVE  SlotsAreHeld'
  BY <1>a, <1>b DEF Holders, SessionsTypeOK
<1>1. ASSUME NEW c \in Conns, Accept(c)
      PROVE  SlotsAreHeld'
  <2>0. conn[c] = "none"
    BY <1>1 DEF Accept, Connects
  <2>1. CASE count >= MaxClients
    <3>1. count' = count /\ conn' = [conn EXCEPT ![c] = "rejected"]
      BY <1>1, <2>1 DEF Accept
    <3>2. Holders' = Holders
      BY <2>0, <3>1 DEF Holders, Held, SessionsTypeOK
    <3> QED
      BY <1>a, <3>1, <3>2
  <2>2. CASE ~(count >= MaxClients)
    <3>1. count' = count + 1 /\ conn' = [conn EXCEPT ![c] = "admitted"]
      BY <1>1, <2>2 DEF Accept
    <3>2. PICK H : H = Holders
      OBVIOUS
    <3>3. c \notin H /\ Holders' = H \cup {c}
      BY <2>0, <3>1, <3>2 DEF Holders, Held, SessionsTypeOK
    <3>4. Cardinality(H \cup {c}) = Cardinality(H) + 1
      BY <3>2, <3>3, HoldersFinite, FS_AddElement
    <3>5. count' = Cardinality(Holders') /\ count' <= MaxClients
      BY <1>0, <2>2, <3>1, <3>2, <3>3, <3>4, LiveSessionsAssumption
    <3> QED
      BY <3>5 DEF SlotsAreHeld, Holders
  <2> QED
    BY <2>1, <2>2
<1>2. ASSUME NEW c \in Conns, StartThread(c)
      PROVE  SlotsAreHeld'
  BY <1>2, <1>b DEF StartThread, Held
<1>3. ASSUME NEW c \in Conns, EndSession(c)
      PROVE  SlotsAreHeld'
  BY <1>3, <1>b DEF EndSession, Close, serverVars, Held
<1>4. ASSUME NEW c \in Conns, ReleaseSlot(c)
      PROVE  SlotsAreHeld'
  <2>1. conn[c] = "closing" /\ conn' = [conn EXCEPT ![c] = "closed"]
    BY <1>4 DEF ReleaseSlot
  <2>2. PICK H : H = Holders
    OBVIOUS
  <2>3. c \in H /\ Holders' = H \ {c}
    BY <2>1, <2>2 DEF Holders, Held, SessionsTypeOK
  <2>4. Cardinality(H \ {c}) = Cardinality(H) - 1 /\ Cardinality(H \ {c}) \in Nat
    <3>1. IsFiniteSet(H \ {c})
      BY <2>2, HoldersFinite, FS_RemoveElement
    <3> QED
      BY <2>2, <2>3, <3>1, HoldersFinite, FS_RemoveElement, FS_CardinalityType
  <2>5. count > 0 /\ count' = count - 1
    BY <1>0, <1>4, <2>2, <2>4 DEF ReleaseSlot
  <2>6. count' = Cardinality(Holders') /\ count' <= MaxClients
    BY <1>0, <2>2, <2>3, <2>4, <2>5, LiveSessionsAssumption
  <2> QED
    BY <2>6 DEF SlotsAreHeld, Holders
<1>5. ASSUME NEW c \in Conns, Recv(c) \/ Takes(c)
      PROVE  SlotsAreHeld'
  <2>1. UNCHANGED <<conn, count>>
    BY <1>5 DEF Recv, Takes, TakeRefused, TakeControl, TakeDiff, TakeReview, serverVars
  <2> QED
    BY <1>a, <2>1 DEF Holders
<1>6. ASSUME NEW l \in Lines, Work(l)
      PROVE  SlotsAreHeld'
  <2>1. /\ count' = count
        /\ \/ conn' = conn
           \/ /\ l \in DOMAIN lines /\ conn[ConnOf(l)] = "serving"
              /\ conn' = [conn EXCEPT ![ConnOf(l)] = "closing"]
    BY <1>6 DEF Work, Review, CheckReview, SettleDiff, BeginSend, EndSend, LineQuiet, Is, serverVars
  <2>2. CASE conn' = conn
    BY <1>a, <2>1, <2>2 DEF Holders
  <2>3. CASE /\ l \in DOMAIN lines /\ conn[ConnOf(l)] = "serving"
             /\ conn' = [conn EXCEPT ![ConnOf(l)] = "closing"]
    BY <1>b, <2>1, <2>3, LinesType DEF Held
  <2> QED
    BY <2>1, <2>2, <2>3
<1>7. CASE UNCHANGED <<conn, count>>
  BY <1>a, <1>7 DEF Holders
<1> QED
  BY <1>1, <1>2, <1>3, <1>4, <1>5, <1>6, <1>7 DEF SessionsNext, ClientThread, SendLine, StartServer,
    CreatePipe, Stop, AcceptorEnds, Nudge, sessionVars, serverVars

-------------------------------------------------------------------------------
(* What the steps do to lines. *)

\* A thread takes the next line of its buffer.
Take(c, l) == TakeRefused(c, l) \/ TakeControl(c, l) \/ TakeDiff(c, l) \/ TakeReview(c, l)

\* What no line sees.
Aside == UNCHANGED <<lines, at, what, latestReview, taken, late>>

LEMMA TakeStep ==
  ASSUME SessionsTypeOK, NEW c \in Conns, NEW l \in Lines, Take(c, l)
  PROVE  /\ l \in DOMAIN lines /\ at[l] = "buffered" /\ ConnOf(l) = c
         /\ UNCHANGED <<lines, late>> /\ taken' = taken \cup {l}
         /\ \A k \in DOMAIN lines : ConnOf(k) = c =>
              /\ k < l => at[k] # "buffered"
              /\ at[k] \notin InThread /\ (at[k] \in Writing => lines[k].op = "diff")
         /\ at'[l] \in {"replying", "debounced", "reviewing"}
         /\ at'[l] = "debounced" => lines[l].op = "diff"
         /\ \A k \in Lines : k # l =>
              /\ at'[k] = at[k] \/ (at[k] = "buffered" /\ at'[k] = "lost")
              /\ what'[k] = what[k]
         /\ \/ latestReview' = latestReview
            \/ /\ lines[l].op = "review" /\ lines[l].seq > latestReview
               /\ latestReview' = lines[l].seq
            \/ /\ lines[l].op = "cancel" /\ lines[l].seq + 1 > latestReview
               /\ latestReview' = lines[l].seq + 1
<1>1. NextLine(c, l)
  BY DEF Take, TakeRefused, TakeControl, TakeDiff, TakeReview
<1>2. /\ l \in DOMAIN lines /\ at[l] = "buffered" /\ ConnOf(l) = c
      /\ \A k \in DOMAIN lines : ConnOf(k) = c =>
           /\ k < l => at[k] # "buffered"
           /\ at[k] \notin InThread /\ (at[k] \in Writing => lines[k].op = "diff")
  BY <1>1 DEF NextLine, Is, OfConn
<1>3. UNCHANGED <<lines, late>> /\ taken' = taken \cup {l}
  BY DEF Take, TakeRefused, TakeControl, TakeDiff, TakeReview
<1>4. at \in [Lines -> Places] /\ what \in [Lines -> {"answer", "file", "error"}]
  BY DEF SessionsTypeOK
<1>5. CASE TakeRefused(c, l)
  <2>1. \A k \in Lines : k # l => at'[k] = at[k] \/ (at[k] = "buffered" /\ at'[k] = "lost")
    BY <1>5 DEF TakeRefused, Is
  <2>2. at'[l] = "replying" /\ latestReview' = latestReview /\ what' = [what EXCEPT ![l] = "error"]
    BY <1>5 DEF TakeRefused
  <2> QED
    BY <1>2, <1>3, <1>4, <2>1, <2>2
<1>6. CASE TakeControl(c, l)
  <2>1. at' = [at EXCEPT ![l] = "replying"] /\ what' = what
    BY <1>6 DEF TakeControl
  <2>2. \/ latestReview' = latestReview
        \/ /\ lines[l].op = "cancel" /\ lines[l].seq + 1 > latestReview
           /\ latestReview' = lines[l].seq + 1
    BY <1>6 DEF TakeControl, AfterControl, Raise
  <2> QED
    BY <1>2, <1>3, <1>4, <2>1, <2>2
<1>7. CASE TakeDiff(c, l)
  <2>1. /\ at' = [at EXCEPT ![l] = "debounced"] /\ what' = what /\ latestReview' = latestReview
        /\ lines[l].op = "diff"
    BY <1>7 DEF TakeDiff
  <2> QED
    BY <1>2, <1>3, <1>4, <2>1
<1>8. CASE TakeReview(c, l)
  <2>1. at' = [at EXCEPT ![l] = "reviewing"] /\ what' = what
    BY <1>8 DEF TakeReview
  <2>2. \/ latestReview' = latestReview
        \/ /\ lines[l].op = "review" /\ lines[l].seq > latestReview
           /\ latestReview' = lines[l].seq
    BY <1>8 DEF TakeReview, Raise
  <2> QED
    BY <1>2, <1>3, <1>4, <2>1, <2>2
<1> QED
  BY <1>5, <1>6, <1>7, <1>8 DEF Take

LEMMA WorkStep ==
  ASSUME SessionsTypeOK, NEW l \in Lines, Work(l)
  PROVE  /\ l \in DOMAIN lines /\ UNCHANGED <<lines, taken, latestReview>>
         /\ at[l] \in {"debounced"} \cup InThread \cup Writing
         /\ at'[l] \in InThread \cup Writing \cup AtRest
         /\ at'[l] = "silent" => at[l] = "checking" /\ Superseded(l)
         /\ \A k \in Lines : k # l =>
              /\ at'[k] = at[k] \/ (at[k] \in {"sent", "buffered"} /\ at'[k] = "lost")
              /\ what'[k] = what[k] /\ late'[k] = late[k]
         /\ \A k \in DOMAIN lines : k # l /\ at'[k] # at[k] =>
              /\ ConnOf(k) = ConnOf(l)
              /\ \A j \in DOMAIN lines : ConnOf(j) = ConnOf(l) => at'[j] # "sent"
<1>0. /\ at \in [Lines -> Places] /\ what \in [Lines -> {"answer", "file", "error"}]
      /\ late \in [Lines -> Nat]
  BY DEF SessionsTypeOK
<1>1. l \in DOMAIN lines /\ UNCHANGED <<lines, taken, latestReview>>
  BY DEF Work, Review, CheckReview, SettleDiff, BeginSend, EndSend, LineQuiet, Is
<1>2. at[l] \in {"debounced"} \cup InThread \cup Writing
  BY DEF Work, Review, CheckReview, SettleDiff, BeginSend, EndSend, Is, InThread, Writing
<1>3. \A k \in Lines : k # l => what'[k] = what[k] /\ late'[k] = late[k]
  BY <1>0 DEF Work, Review, CheckReview, SettleDiff, BeginSend, EndSend, LineQuiet
<1>4. \/ \E x \in {"checking", "replying"} : at' = [at EXCEPT ![l] = x]
      \/ at[l] = "checking" /\ Superseded(l) /\ at' = [at EXCEPT ![l] = "silent"]
      \/ \E x \in {"reviewing", "replying", "shed", "halfway", "lost", "done"} :
           at' = [at EXCEPT ![l] = x]
      \/ at' = [k \in Lines |->
             IF k = l THEN "done"
             ELSE IF Is(k, {"sent", "buffered"}) /\ ConnOf(k) = ConnOf(l) THEN "lost"
             ELSE at[k]]
  <2>1. CASE Review(l) \/ SettleDiff(l) \/ BeginSend(l)
    BY <2>1 DEF Review, SettleDiff, BeginSend
  <2>2. CASE CheckReview(l)
    BY <2>2 DEF CheckReview, Is
  <2>3. CASE EndSend(l)
    BY <2>3 DEF EndSend
  <2> QED
    BY <2>1, <2>2, <2>3 DEF Work
<1>5. ASSUME NEW x \in {"checking", "replying", "reviewing", "shed", "halfway", "lost", "done", "silent"},
             at' = [at EXCEPT ![l] = x],
             x = "silent" => at[l] = "checking" /\ Superseded(l)
      PROVE  /\ at'[l] \in InThread \cup Writing \cup AtRest
             /\ at'[l] = "silent" => at[l] = "checking" /\ Superseded(l)
             /\ \A k \in Lines : k # l => at'[k] = at[k]
  BY <1>0, <1>5 DEF InThread, Writing, AtRest
<1>6. ASSUME at' = [k \in Lines |->
             IF k = l THEN "done"
             ELSE IF Is(k, {"sent", "buffered"}) /\ ConnOf(k) = ConnOf(l) THEN "lost"
             ELSE at[k]]
      PROVE  /\ at'[l] = "done"
             /\ \A k \in Lines : k # l =>
                  at'[k] = at[k] \/ (at[k] \in {"sent", "buffered"} /\ at'[k] = "lost")
             /\ \A k \in DOMAIN lines : k # l /\ at'[k] # at[k] =>
                  /\ ConnOf(k) = ConnOf(l)
                  /\ \A j \in DOMAIN lines : ConnOf(j) = ConnOf(l) => at'[j] # "sent"
  <2>1. at'[l] = "done" /\ \A k \in Lines : k # l =>
          IF k \in DOMAIN lines /\ at[k] \in {"sent", "buffered"} /\ ConnOf(k) = ConnOf(l)
          THEN at'[k] = "lost" ELSE at'[k] = at[k]
    BY <1>6 DEF Is
  <2> QED
    BY <2>1, LinesType
<1>7. CASE at' = [k \in Lines |->
             IF k = l THEN "done"
             ELSE IF Is(k, {"sent", "buffered"}) /\ ConnOf(k) = ConnOf(l) THEN "lost"
             ELSE at[k]]
  <2>1. at'[l] \in InThread \cup Writing \cup AtRest /\ at'[l] # "silent"
    BY <1>6, <1>7 DEF AtRest
  <2> QED
    BY <1>1, <1>2, <1>3, <1>6, <1>7, <2>1
<1>8. CASE ~(at' = [k \in Lines |->
             IF k = l THEN "done"
             ELSE IF Is(k, {"sent", "buffered"}) /\ ConnOf(k) = ConnOf(l) THEN "lost"
             ELSE at[k]])
  <2>1. /\ at'[l] \in InThread \cup Writing \cup AtRest
        /\ at'[l] = "silent" => at[l] = "checking" /\ Superseded(l)
        /\ \A k \in Lines : k # l => at'[k] = at[k]
    BY <1>4, <1>5, <1>8
  <2> QED
    BY <1>1, <1>2, <1>3, <2>1, LinesType
<1> QED
  BY <1>7, <1>8

\* A thread reads, or its session ends.
LEMMA ReadStep ==
  ASSUME SessionsTypeOK, NEW c \in Conns, Recv(c) \/ EndSession(c)
  PROVE  /\ UNCHANGED <<lines, what, latestReview, taken, late>>
         /\ \A k \in Lines :
              \/ at'[k] = at[k]
              \/ k \in DOMAIN lines /\ ConnOf(k) = c /\ at[k] = "sent" /\ at'[k] \in {"buffered", "lost"}
         /\ \A k, l \in DOMAIN lines :
              k < l /\ ConnOf(k) = ConnOf(l) /\ at[l] = "sent" /\ at'[l] # "sent" => at'[k] # "sent"
<1>1. UNCHANGED <<lines, what, latestReview, taken, late>>
  BY DEF Recv, EndSession, reviewVars
<1>2. CASE Recv(c)
  <2>1. PICK last \in UnreadOf(c) :
          at' = [l \in Lines |-> IF l \in UnreadOf(c) /\ l <= last THEN "buffered" ELSE at[l]]
    BY <1>2 DEF Recv
  <2>2. last \in Nat /\ \A k \in DOMAIN lines : k \in Nat /\ k \in Lines
    BY LinesType DEF UnreadOf, OfConn
  <2>3. \A k \in Lines :
          IF k \in DOMAIN lines /\ ConnOf(k) = c /\ at[k] = "sent" /\ k <= last
          THEN at'[k] = "buffered" ELSE at'[k] = at[k]
    BY <2>1 DEF UnreadOf, OfConn
  <2> QED
    BY <1>1, <2>2, <2>3
<1>3. CASE EndSession(c)
  <2>1. at' = [l \in Lines |-> IF l \in UnreadOf(c) THEN "lost" ELSE at[l]]
    BY <1>3 DEF EndSession, Close
  <2>2. \A k \in DOMAIN lines : k \in Nat /\ k \in Lines
    BY LinesType
  <2>3. \A k \in Lines :
          IF k \in DOMAIN lines /\ ConnOf(k) = c /\ at[k] = "sent"
          THEN at'[k] = "lost" ELSE at'[k] = at[k]
    BY <2>1 DEF UnreadOf, OfConn
  <2> QED
    BY <1>1, <2>2, <2>3
<1> QED
  BY <1>2, <1>3

\* Every step is one of these.
LEMMA StepKinds ==
  ASSUME [SessionsNext]_sessionVars
  PROVE  \/ Aside
         \/ \E c \in Conns, op \in Ops : SendLine(c, op)
         \/ \E c \in Conns : Recv(c) \/ EndSession(c)
         \/ \E c \in Conns, l \in Lines : Take(c, l)
         \/ \E l \in Lines : Work(l)
<1>1. ASSUME NEW c \in Conns, Accept(c) \/ StartThread(c) \/ ReleaseSlot(c)
      PROVE  Aside
  BY <1>1 DEF Accept, StartThread, ReleaseSlot, reviewVars, Aside
<1>2. ASSUME StartServer \/ CreatePipe \/ Stop \/ AcceptorEnds \/ Nudge
      PROVE  Aside
  BY <1>2 DEF StartServer, CreatePipe, Stop, AcceptorEnds, Nudge, reviewVars, Aside
<1>3. CASE UNCHANGED sessionVars
  BY <1>3 DEF sessionVars, Aside
<1> QED
  BY <1>1, <1>2, <1>3 DEF SessionsNext, ClientThread, Takes, Take

-------------------------------------------------------------------------------
(* The order of lines. *)

LEMMA NextTakenUp == SessionsTypeOK /\ TakenUp /\ [SessionsNext]_sessionVars => TakenUp'
<1> SUFFICES ASSUME SessionsTypeOK, TakenUp, [SessionsNext]_sessionVars
             PROVE  TakenUp'
  OBVIOUS
<1>0. taken \subseteq DOMAIN lines /\ DOMAIN lines \subseteq Lines /\ at \in [Lines -> Places]
  BY LinesType DEF SessionsTypeOK
<1>1. CASE Aside
  BY <1>1 DEF Aside, TakenUp
<1>2. ASSUME NEW c \in Conns, NEW op \in Ops, SendLine(c, op)
      PROVE  TakenUp'
  <2>1. PICK n : n = Len(lines) + 1
    OBVIOUS
  <2>2. /\ DOMAIN lines' = DOMAIN lines \cup {n} /\ n \in Lines /\ n \notin DOMAIN lines
        /\ \A l \in DOMAIN lines : lines'[l] = lines[l]
        /\ at' = [at EXCEPT ![n] = "sent"] /\ UNCHANGED taken
    BY <1>2, <2>1, Sent DEF reviewVars
  <2>3. at'[n] = "sent" /\ \A l \in DOMAIN lines : at'[l] = at[l]
    BY <1>0, <2>2
  <2> QED
    BY <1>0, <2>2, <2>3 DEF TakenUp, InThread, Writing
<1>3. ASSUME NEW c \in Conns, Recv(c) \/ EndSession(c)
      PROVE  TakenUp'
  BY <1>0, <1>3, ReadStep DEF TakenUp, InThread, Writing
<1>4. ASSUME NEW c \in Conns, NEW l \in Lines, Take(c, l)
      PROVE  TakenUp'
  BY <1>0, <1>4, TakeStep DEF TakenUp, InThread, Writing
<1>5. ASSUME NEW l \in Lines, Work(l)
      PROVE  TakenUp'
  BY <1>0, <1>5, WorkStep DEF TakenUp, InThread, Writing, AtRest
<1> QED
  BY <1>1, <1>2, <1>3, <1>4, <1>5, StepKinds

LEMMA NextFifo == SessionsTypeOK /\ TakenUp /\ Fifo /\ [SessionsNext]_sessionVars => Fifo'
<1> SUFFICES ASSUME SessionsTypeOK, TakenUp, Fifo, [SessionsNext]_sessionVars
             PROVE  Fifo'
  OBVIOUS
<1>0. /\ taken \subseteq DOMAIN lines /\ DOMAIN lines \subseteq Lines /\ at \in [Lines -> Places]
      /\ \A l \in DOMAIN lines : l \in Nat
  BY LinesType DEF SessionsTypeOK
<1>1. CASE Aside
  BY <1>1 DEF Aside, Fifo, ConnOf
<1>2. ASSUME NEW c \in Conns, NEW op \in Ops, SendLine(c, op)
      PROVE  Fifo'
  <2>1. PICK n : n = Len(lines) + 1
    OBVIOUS
  <2>2. /\ DOMAIN lines' = DOMAIN lines \cup {n} /\ n \in Lines /\ n \notin DOMAIN lines
        /\ \A l \in DOMAIN lines : lines'[l] = lines[l] /\ ConnOf(l)' = ConnOf(l) /\ l < n
        /\ at' = [at EXCEPT ![n] = "sent"] /\ UNCHANGED taken
    BY <1>2, <2>1, Sent DEF reviewVars
  <2>3. at'[n] = "sent" /\ \A l \in DOMAIN lines : at'[l] = at[l]
    BY <1>0, <2>2
  <2>4. n \in Nat
    BY <2>2 DEF Lines
  <2> QED
    BY <1>0, <2>2, <2>3, <2>4 DEF Fifo
<1>3. ASSUME UNCHANGED lines,
             \A k, l \in DOMAIN lines : k < l /\ ConnOf(k) = ConnOf(l) =>
               /\ at'[l] # "sent" => at'[k] # "sent"
               /\ l \in taken' => at'[k] \notin {"sent", "buffered"}
      PROVE  Fifo'
  BY <1>3 DEF Fifo, ConnOf
<1>4. ASSUME NEW c \in Conns, Recv(c) \/ EndSession(c)
      PROVE  Fifo'
  <2>1. /\ UNCHANGED <<lines, taken>>
        /\ \A k \in Lines : at'[k] = at[k] \/ (at[k] = "sent" /\ at'[k] \in {"buffered", "lost"})
        /\ \A k, l \in DOMAIN lines :
             k < l /\ ConnOf(k) = ConnOf(l) /\ at[l] = "sent" /\ at'[l] # "sent" => at'[k] # "sent"
    BY <1>4, ReadStep
  <2> QED
    BY <1>0, <1>3, <2>1 DEF Fifo
<1>5. ASSUME NEW c \in Conns, NEW l \in Lines, Take(c, l)
      PROVE  Fifo'
  <2>1. /\ l \in DOMAIN lines /\ at[l] = "buffered" /\ ConnOf(l) = c
        /\ UNCHANGED lines /\ taken' = taken \cup {l}
        /\ \A k \in DOMAIN lines : ConnOf(k) = c /\ k < l => at[k] # "buffered"
        /\ at'[l] \notin {"sent", "buffered"}
        /\ \A k \in Lines : k # l => at'[k] = at[k] \/ (at[k] = "buffered" /\ at'[k] = "lost")
    BY <1>5, TakeStep
  <2>2. ASSUME NEW k \in DOMAIN lines, NEW m \in DOMAIN lines, k < m, ConnOf(k) = ConnOf(m)
        PROVE  /\ at'[m] # "sent" => at'[k] # "sent"
               /\ m \in taken' => at'[k] \notin {"sent", "buffered"}
    <3>1. at'[m] # "sent" => at[m] # "sent"
      BY <1>0, <2>1
    <3>2. at'[k] \in {"sent", "buffered"} => at'[k] = at[k] /\ k # l
      BY <1>0, <2>1
    <3>3. CASE m = l
      BY <1>0, <2>1, <2>2, <3>1, <3>2, <3>3 DEF Fifo
    <3>4. CASE m # l
      BY <1>0, <2>1, <2>2, <3>1, <3>2, <3>4 DEF Fifo
    <3> QED
      BY <3>3, <3>4
  <2> QED
    BY <1>3, <2>1, <2>2
<1>6. ASSUME NEW l \in Lines, Work(l)
      PROVE  Fifo'
  <2>1. /\ l \in DOMAIN lines /\ UNCHANGED <<lines, taken>> /\ at[l] # "sent"
        /\ at'[l] \notin {"sent", "buffered"}
        /\ \A k \in Lines : k # l =>
             at'[k] = at[k] \/ (at[k] \in {"sent", "buffered"} /\ at'[k] = "lost")
        /\ \A k \in DOMAIN lines : k # l /\ at'[k] # at[k] =>
             \A j \in DOMAIN lines : ConnOf(j) = ConnOf(k) => at'[j] # "sent"
    BY <1>6, WorkStep DEF InThread, Writing, AtRest
  <2>2. ASSUME NEW k \in DOMAIN lines, NEW m \in DOMAIN lines, k < m, ConnOf(k) = ConnOf(m)
        PROVE  /\ at'[m] # "sent" => at'[k] # "sent"
               /\ m \in taken' => at'[k] \notin {"sent", "buffered"}
    <3>1. at'[k] \in {"sent", "buffered"} => at'[k] = at[k] /\ k # l
      BY <1>0, <2>1
    <3>2. at[m] = "sent" /\ at'[m] # "sent" => at'[k] # "sent"
      BY <1>0, <2>1, <2>2
    <3> QED
      BY <1>0, <2>1, <2>2, <3>1, <3>2 DEF Fifo
  <2> QED
    BY <1>3, <2>1, <2>2
<1> QED
  BY <1>1, <1>2, <1>4, <1>5, <1>6, StepKinds

LEMMA NextAlone ==
  SessionsTypeOK /\ TakenUp /\ Fifo /\ Alone /\ [SessionsNext]_sessionVars => Alone'
<1> SUFFICES ASSUME SessionsTypeOK, TakenUp, Fifo, Alone, [SessionsNext]_sessionVars
             PROVE  Alone'
  OBVIOUS
<1>0. /\ taken \subseteq DOMAIN lines /\ DOMAIN lines \subseteq Lines /\ at \in [Lines -> Places]
      /\ \A l \in DOMAIN lines : l \in Nat
  BY LinesType DEF SessionsTypeOK
<1>1. CASE Aside
  BY <1>1 DEF Aside, Alone, ConnOf
<1>2. ASSUME NEW c \in Conns, NEW op \in Ops, SendLine(c, op)
      PROVE  Alone'
  <2>1. PICK n : n = Len(lines) + 1
    OBVIOUS
  <2>2. /\ n \notin DOMAIN lines
        /\ \A l \in DOMAIN lines : lines'[l] = lines[l] /\ ConnOf(l)' = ConnOf(l)
        /\ at' = [at EXCEPT ![n] = "sent"] /\ UNCHANGED taken
    BY <1>2, <2>1, Sent DEF reviewVars
  <2>3. \A l \in taken : at'[l] = at[l] /\ lines'[l] = lines[l] /\ ConnOf(l)' = ConnOf(l)
    BY <1>0, <2>2
  <2> QED
    BY <2>2, <2>3 DEF Alone
<1>3. ASSUME UNCHANGED lines,
             \A k, l \in taken' :
               /\ ConnOf(k) = ConnOf(l) /\ at'[l] \in InThread \cup Writing
               /\ lines[l].op # "diff"
               => k <= l
      PROVE  Alone'
  BY <1>3 DEF Alone, ConnOf
<1>4. ASSUME NEW c \in Conns, Recv(c) \/ EndSession(c)
      PROVE  Alone'
  <2>1. UNCHANGED <<lines, taken>> /\ \A k \in taken : at'[k] = at[k]
    BY <1>0, <1>4, ReadStep DEF TakenUp
  <2> QED
    BY <1>3, <2>1 DEF Alone
<1>5. ASSUME NEW c \in Conns, NEW l \in Lines, Take(c, l)
      PROVE  Alone'
  <2>1. /\ l \in DOMAIN lines /\ at[l] = "buffered" /\ ConnOf(l) = c
        /\ UNCHANGED lines /\ taken' = taken \cup {l} /\ l \notin taken
        /\ \A k \in DOMAIN lines : ConnOf(k) = c =>
             at[k] \notin InThread /\ (at[k] \in Writing => lines[k].op = "diff")
        /\ \A k \in taken : at'[k] = at[k]
    BY <1>0, <1>5, TakeStep DEF TakenUp
  <2>2. ASSUME NEW k \in taken', NEW m \in taken', ConnOf(k) = ConnOf(m),
               at'[m] \in InThread \cup Writing, lines[m].op # "diff"
        PROVE  k <= m
    <3>1. CASE m = l
      <4>1. ASSUME l < k
            PROVE  FALSE
        <5>1. k \in taken
          BY <1>0, <2>1, <2>2, <4>1
        <5> QED
          BY <1>0, <2>1, <2>2, <3>1, <4>1, <5>1 DEF Fifo
      <4> QED
        BY <1>0, <2>1, <3>1, <4>1
    <3>2. CASE m # l
      <4>1. m \in taken /\ at[m] \in InThread \cup Writing
        BY <2>1, <2>2, <3>2
      <4>2. ConnOf(m) # c
        BY <1>0, <2>1, <2>2, <4>1
      <4>3. k \in taken
        BY <2>1, <2>2, <4>2
      <4> QED
        BY <2>2, <4>1, <4>3 DEF Alone
    <3> QED
      BY <3>1, <3>2
  <2> QED
    BY <1>3, <2>1, <2>2
<1>6. ASSUME NEW l \in Lines, Work(l)
      PROVE  Alone'
  <2>1. /\ l \in DOMAIN lines /\ UNCHANGED <<lines, taken>>
        /\ at[l] = "debounced" \/ at[l] \in InThread \cup Writing
        /\ \A k \in Lines : k # l =>
             at'[k] = at[k] \/ (at[k] \in {"sent", "buffered"} /\ at'[k] = "lost")
    BY <1>6, WorkStep
  <2>2. ASSUME NEW k \in taken, NEW m \in taken, ConnOf(k) = ConnOf(m),
               at'[m] \in InThread \cup Writing, lines[m].op # "diff"
        PROVE  k <= m
    <3>1. at[m] \in InThread \cup Writing
      <4>1. CASE m = l
        BY <2>1, <2>2, <4>1 DEF TakenUp
      <4>2. CASE m # l
        BY <1>0, <2>1, <2>2, <4>2 DEF TakenUp
      <4> QED
        BY <4>1, <4>2
    <3> QED
      BY <2>2, <3>1 DEF Alone
  <2> QED
    BY <1>3, <2>1, <2>2
<1> QED
  BY <1>1, <1>2, <1>4, <1>5, <1>6, StepKinds

-------------------------------------------------------------------------------
(* Reviews and what makes them stale. *)

LEMMA NextNumbered == SessionsTypeOK /\ Numbered /\ [SessionsNext]_sessionVars => Numbered'
<1> SUFFICES ASSUME SessionsTypeOK, Numbered, [SessionsNext]_sessionVars
             PROVE  Numbered'
  OBVIOUS
<1>1. ASSUME UNCHANGED lines
      PROVE  Numbered'
  BY <1>1 DEF Numbered, ConnOf
<1>2. ASSUME NEW c \in Conns, NEW op \in Ops, SendLine(c, op)
      PROVE  Numbered'
  <2>1. PICK n : n = Len(lines) + 1
    OBVIOUS
  <2>2. PICK s \in SeqsFor(c, op) :
          /\ DOMAIN lines' = DOMAIN lines \cup {n} /\ n \notin DOMAIN lines /\ n \in Lines
          /\ \A l \in DOMAIN lines : lines'[l] = lines[l] /\ ConnOf(l)' = ConnOf(l) /\ l < n
          /\ lines'[n] = [conn |-> c, op |-> op, seq |-> s]
    BY <1>2, <2>1, Sent
  <2>3. ASSUME op = "review", NEW k \in DOMAIN lines, ConnOf(k) = c
        PROVE  lines[k].seq < s
    BY <2>2, <2>3 DEF SeqsFor, OfConn
  <2>4. \A k \in DOMAIN lines : k \in Nat
    BY LinesType DEF Lines
  <2>5. lines'[n].op = op /\ lines'[n].seq = s /\ lines'[n].conn = c /\ n \in Nat
    BY <2>2 DEF Lines
  <2>6. ASSUME NEW k \in DOMAIN lines', NEW l \in DOMAIN lines', k < l,
               lines'[k].conn = lines'[l].conn, lines'[l].op = "review"
        PROVE  lines'[k].seq < lines'[l].seq
    <3>1. k \in DOMAIN lines
      BY <2>2, <2>4, <2>5, <2>6
    <3>2. CASE l = n
      BY <2>2, <2>3, <2>5, <2>6, <3>1, <3>2 DEF ConnOf
    <3>3. CASE l # n
      BY <2>2, <2>6, <3>1, <3>3 DEF Numbered, ConnOf
    <3> QED
      BY <3>2, <3>3
  <2> QED
    BY <2>6 DEF Numbered, ConnOf
<1> QED
  BY <1>1, <1>2, StepKinds, TakeStep, WorkStep, ReadStep DEF Aside

LEMMA NextRaised == SessionsTypeOK /\ Raised /\ [SessionsNext]_sessionVars => Raised'
<1> SUFFICES ASSUME SessionsTypeOK, Raised, [SessionsNext]_sessionVars
             PROVE  Raised'
  OBVIOUS
<1>1. ASSUME UNCHANGED latestReview, taken \subseteq taken', \A l \in taken : lines'[l] = lines[l]
      PROVE  Raised'
  BY <1>1 DEF Raised
<1>2. ASSUME NEW c \in Conns, NEW op \in Ops, SendLine(c, op)
      PROVE  Raised'
  <2>1. /\ \A l \in DOMAIN lines : lines'[l] = lines[l]
        /\ UNCHANGED <<latestReview, taken>> /\ taken \subseteq DOMAIN lines
    BY <1>2, Sent DEF reviewVars, SessionsTypeOK
  <2> QED
    BY <1>1, <2>1
<1>3. ASSUME NEW c \in Conns, NEW l \in Lines, Take(c, l)
      PROVE  Raised'
  <2>1. /\ UNCHANGED lines /\ taken' = taken \cup {l}
        /\ \/ latestReview' = latestReview
           \/ lines[l].op = "review" /\ latestReview' = lines[l].seq
           \/ lines[l].op = "cancel" /\ latestReview' = lines[l].seq + 1
    BY <1>3, TakeStep
  <2> QED
    BY <1>1, <2>1 DEF Raised
<1> QED
  BY <1>1, <1>2, <1>3, StepKinds, WorkStep, ReadStep DEF Aside

\* What is stale stays so.
LEMMA StaysStale ==
  ASSUME SessionsTypeOK, [SessionsNext]_sessionVars, NEW l \in DOMAIN lines, Superseded(l)
  PROVE  l \in DOMAIN lines' /\ Superseded(l)'
<1>0. lines[l].seq \in Nat /\ latestReview \in Nat
  BY LinesType, LiveSessionsAssumption DEF SessionsTypeOK
<1>1. l \in DOMAIN lines' /\ lines'[l] = lines[l]
  <2>1. ASSUME NEW c \in Conns, NEW op \in Ops, SendLine(c, op)
        PROVE  l \in DOMAIN lines' /\ lines'[l] = lines[l]
    BY <2>1, Sent
  <2> QED
    BY <2>1, StepKinds, TakeStep, WorkStep, ReadStep DEF Aside
<1>2. latestReview' \in Nat /\ latestReview' >= latestReview
  <2>1. ASSUME NEW c \in Conns, NEW op \in Ops, SendLine(c, op)
        PROVE  latestReview' = latestReview
    BY <2>1, Sent DEF reviewVars
  <2>2. ASSUME NEW c \in Conns, NEW k \in Lines, Take(c, k)
        PROVE  latestReview' \in Nat /\ latestReview' >= latestReview
    <3>1. k \in DOMAIN lines
      BY <2>2, TakeStep
    <3>2. lines[k].seq \in Nat
      BY <3>1, LinesType, LiveSessionsAssumption
    <3>3. \/ latestReview' = latestReview
          \/ lines[k].seq > latestReview /\ latestReview' = lines[k].seq
          \/ lines[k].seq + 1 > latestReview /\ latestReview' = lines[k].seq + 1
      BY <2>2, TakeStep
    <3> QED
      BY <1>0, <3>2, <3>3
  <2> QED
    BY <1>0, <2>1, <2>2, StepKinds, WorkStep, ReadStep DEF Aside
<1> QED
  BY <1>0, <1>1, <1>2 DEF Superseded

LEMMA NextLateOnce ==
  SessionsTypeOK /\ LateOnce /\ [SessionsNext]_sessionVars => LateOnce'
<1> SUFFICES ASSUME SessionsTypeOK, LateOnce, [SessionsNext]_sessionVars
             PROVE  LateOnce'
  OBVIOUS
<1> DEFINE Place(l) == \/ at[l] \in {"halfway"} \cup InThread \cup AtRest
                       \/ at[l] = "replying" /\ what[l] = "error"
<1>0. /\ at \in [Lines -> Places] /\ what \in [Lines -> {"answer", "file", "error"}]
      /\ late \in [Lines -> Nat] /\ DOMAIN lines \subseteq Lines
  BY LinesType DEF SessionsTypeOK
<1>1. \A l \in Lines : late[l] # 0 =>
        /\ late[l] = 1 /\ l \in DOMAIN lines /\ Place(l)
        /\ Superseded(l) /\ l \in DOMAIN lines' /\ Superseded(l)'
  BY StaysStale DEF LateOnce
<1>2. ASSUME NEW l \in Lines, late'[l] = late[l], late[l] # 0 => Place(l)'
      PROVE  late'[l] # 0 => /\ late'[l] = 1 /\ l \in DOMAIN lines' /\ Superseded(l)'
                             /\ Place(l)'
  BY <1>1, <1>2
<1>3. ASSUME UNCHANGED late,
             \A l \in Lines : Place(l) => at'[l] = at[l] /\ what'[l] = what[l]
      PROVE  LateOnce'
  <2>1. \A l \in Lines : Place(l) => Place(l)'
    BY <1>3
  <2> QED
    BY <1>1, <1>2, <1>3, <2>1 DEF LateOnce
<1>4. ASSUME NEW c \in Conns, NEW op \in Ops, SendLine(c, op)
      PROVE  LateOnce'
  <2>1. PICK n : n = Len(lines) + 1
    OBVIOUS
  <2>2. /\ n \in Lines /\ n \notin DOMAIN lines
        /\ at' = [at EXCEPT ![n] = "sent"] /\ UNCHANGED <<what, late>>
    BY <1>4, <2>1, Sent DEF reviewVars
  <2>3. at[n] = "none"
    BY <2>2 DEF SessionsTypeOK
  <2> QED
    BY <1>0, <1>3, <2>2, <2>3 DEF InThread, AtRest
<1>5. ASSUME NEW c \in Conns, Recv(c) \/ EndSession(c)
      PROVE  LateOnce'
  BY <1>0, <1>3, <1>5, ReadStep DEF InThread, AtRest
<1>6. ASSUME NEW c \in Conns, NEW l \in Lines, Take(c, l)
      PROVE  LateOnce'
  BY <1>0, <1>3, <1>6, TakeStep DEF InThread, AtRest
<1>7. ASSUME NEW l \in Lines, Work(l)
      PROVE  LateOnce'
  <2>1. /\ l \in DOMAIN lines
        /\ \A k \in Lines : k # l =>
             /\ at'[k] = at[k] \/ (at[k] \in {"sent", "buffered"} /\ at'[k] = "lost")
             /\ what'[k] = what[k] /\ late'[k] = late[k]
    BY <1>7, WorkStep
  <2>2. ASSUME NEW k \in Lines, k # l
        PROVE  late'[k] # 0 => /\ late'[k] = 1 /\ k \in DOMAIN lines' /\ Superseded(k)'
                               /\ Place(k)'
    <3>1. Place(k) => at'[k] = at[k] /\ what'[k] = what[k]
      BY <1>0, <2>1, <2>2 DEF InThread, AtRest
    <3> QED
      BY <1>1, <1>2, <2>1, <2>2, <3>1
  <2>3. late'[l] # 0 => /\ late'[l] = 1 /\ l \in DOMAIN lines' /\ Superseded(l)' /\ Place(l)'
    <3>1. CASE Review(l)
      <4>1. late' = late
        BY <3>1 DEF Review
      <4>2. at'[l] = "checking" \/ (at'[l] = "replying" /\ what'[l] = "error")
        BY <1>0, <3>1 DEF Review
      <4> QED
        BY <1>2, <4>1, <4>2 DEF InThread
    <3>2. CASE CheckReview(l)
      <4>1. late' = late
        BY <3>2 DEF CheckReview
      <4>2. Superseded(l) => at'[l] = "silent"
        BY <1>0, <3>2 DEF CheckReview
      <4> QED
        BY <1>1, <1>2, <4>1, <4>2 DEF AtRest
    <3>3. CASE SettleDiff(l)
      <4>1. late' = late /\ at[l] = "debounced"
        BY <3>3 DEF SettleDiff, Is
      <4> QED
        BY <1>1, <1>2, <4>1 DEF InThread, AtRest
    <3>4. CASE BeginSend(l)
      <4>1. at[l] = "replying" /\ (at'[l] = "halfway" \/ at'[l] = "lost")
        BY <1>0, <3>4 DEF BeginSend, Is
      <4>2. CASE late'[l] = late[l]
        BY <1>2, <4>1, <4>2 DEF AtRest
      <4>3. CASE late'[l] # late[l]
        <5>1. Superseded(l) /\ what[l] # "error" /\ late'[l] = late[l] + 1
          BY <1>0, <3>4, <4>3 DEF BeginSend
        <5>2. late[l] = 0
          BY <1>1, <4>1, <5>1 DEF InThread, AtRest
        <5>3. l \in DOMAIN lines' /\ Superseded(l)'
          BY <2>1, <5>1, StaysStale
        <5>4. at'[l] = "halfway"
          BY <1>0, <3>4, <4>3 DEF BeginSend
        <5> QED
          BY <5>1, <5>2, <5>3, <5>4
      <4> QED
        BY <4>2, <4>3
    <3>5. CASE EndSend(l)
      <4>1. late' = late
        BY <3>5 DEF EndSend
      <4>2. at'[l] \in {"lost", "reviewing", "done"}
        BY <1>0, <3>5 DEF EndSend
      <4> QED
        BY <1>2, <4>1, <4>2 DEF InThread, AtRest
    <3> QED
      BY <1>7, <3>1, <3>2, <3>3, <3>4, <3>5 DEF Work
  <2> QED
    BY <2>2, <2>3 DEF LateOnce
<1>8. CASE Aside
  BY <1>3, <1>8 DEF Aside
<1> QED
  BY <1>4, <1>5, <1>6, <1>7, <1>8, StepKinds

\* A review that is found stale met its match on another connection: what its own
\* connection has had taken came before it, with smaller numbers.
LEMMA StaleByOther ==
  ASSUME SessionsTypeOK, TakenUp, Alone, Numbered, Raised,
         NEW l \in DOMAIN lines, at[l] = "checking", Superseded(l)
  PROVE  \E k \in taken :
           /\ ConnOf(k) # ConnOf(l)
           /\ \/ lines[k].op = "review" /\ lines[k].seq > lines[l].seq
              \/ lines[k].op = "cancel" /\ lines[k].seq >= lines[l].seq
<1>0. /\ taken \subseteq DOMAIN lines /\ l \in taken /\ latestReview \in Nat
      /\ \A k \in DOMAIN lines : k \in Nat /\ lines[k].seq \in Nat
  BY LinesType, LiveSessionsAssumption DEF SessionsTypeOK, TakenUp, InThread, Lines
<1>1. lines[l].op = "review" /\ lines[l].seq < latestReview
  BY DEF Superseded
<1>2. PICK k \in taken : \/ lines[k].op = "review" /\ lines[k].seq = latestReview
                         \/ lines[k].op = "cancel" /\ lines[k].seq + 1 = latestReview
  BY <1>0, <1>1 DEF Raised
<1>3. \/ lines[k].op = "review" /\ lines[k].seq > lines[l].seq
      \/ lines[k].op = "cancel" /\ lines[k].seq >= lines[l].seq
  BY <1>0, <1>1, <1>2
<1>4. ConnOf(k) # ConnOf(l)
  <2> SUFFICES ASSUME ConnOf(k) = ConnOf(l)
               PROVE  FALSE
    OBVIOUS
  <2>1. k <= l
    BY <1>0, <1>1 DEF Alone, InThread
  <2>2. k # l
    BY <1>0, <1>1, <1>2
  <2>3. lines[k].seq < lines[l].seq
    BY <1>0, <1>1, <2>1, <2>2 DEF Numbered
  <2> QED
    BY <1>0, <1>3, <2>3
<1> QED
  BY <1>3, <1>4

LEMMA NextOnlyOthers ==
  /\ SessionsTypeOK /\ TakenUp /\ Alone /\ Numbered /\ Raised
  /\ OnlyOthersSilenceReviews /\ [SessionsNext]_sessionVars
  => OnlyOthersSilenceReviews'
<1> SUFFICES ASSUME SessionsTypeOK, TakenUp, Alone, Numbered, Raised, OnlyOthersSilenceReviews,
                    [SessionsNext]_sessionVars
             PROVE  OnlyOthersSilenceReviews'
  OBVIOUS
<1> DEFINE Covers(k, l) ==
             /\ ConnOf(k) # ConnOf(l)
             /\ \/ lines[k].op = "review" /\ lines[k].seq > lines[l].seq
                \/ lines[k].op = "cancel" /\ lines[k].seq >= lines[l].seq
<1>0. /\ taken \subseteq DOMAIN lines /\ DOMAIN lines \subseteq Lines /\ at \in [Lines -> Places]
  BY LinesType DEF SessionsTypeOK
<1>1. ASSUME taken \subseteq taken',
             \A l \in DOMAIN lines : lines'[l] = lines[l],
             \A l \in DOMAIN lines' : at'[l] = "silent" =>
               /\ l \in DOMAIN lines
               /\ at[l] = "silent" \/ \E k \in taken : Covers(k, l)
      PROVE  OnlyOthersSilenceReviews'
  <2> SUFFICES ASSUME NEW l \in DOMAIN lines', at'[l] = "silent"
               PROVE  \E k \in taken' : Covers(k, l)'
    BY DEF OnlyOthersSilenceReviews
  <2>1. l \in DOMAIN lines
    BY <1>1
  <2>2. PICK k \in taken : Covers(k, l)
    BY <1>1, <2>1 DEF OnlyOthersSilenceReviews
  <2>3. k \in taken' /\ lines'[k] = lines[k] /\ lines'[l] = lines[l]
    BY <1>0, <1>1, <2>1
  <2> QED
    BY <2>2, <2>3 DEF ConnOf
<1>2. ASSUME NEW c \in Conns, NEW op \in Ops, SendLine(c, op)
      PROVE  OnlyOthersSilenceReviews'
  <2>1. PICK n : n = Len(lines) + 1
    OBVIOUS
  <2>2. /\ DOMAIN lines' = DOMAIN lines \cup {n} /\ n \in Lines /\ n \notin DOMAIN lines
        /\ \A l \in DOMAIN lines : lines'[l] = lines[l]
        /\ at' = [at EXCEPT ![n] = "sent"] /\ UNCHANGED taken
    BY <1>2, <2>1, Sent DEF reviewVars
  <2> QED
    BY <1>0, <1>1, <2>2
<1>3. ASSUME NEW c \in Conns, Recv(c) \/ EndSession(c)
      PROVE  OnlyOthersSilenceReviews'
  <2>1. /\ UNCHANGED <<lines, taken>>
        /\ \A k \in Lines : at'[k] = at[k] \/ at'[k] \in {"buffered", "lost"}
    BY <1>3, ReadStep
  <2> QED
    BY <1>0, <1>1, <2>1
<1>4. ASSUME NEW c \in Conns, NEW l \in Lines, Take(c, l)
      PROVE  OnlyOthersSilenceReviews'
  <2>1. /\ UNCHANGED lines /\ taken' = taken \cup {l}
        /\ at'[l] \in {"replying", "debounced", "reviewing"}
        /\ \A k \in Lines : k # l => at'[k] = at[k] \/ at'[k] = "lost"
    BY <1>4, TakeStep
  <2> QED
    BY <1>0, <1>1, <2>1
<1>5. ASSUME NEW l \in Lines, Work(l)
      PROVE  OnlyOthersSilenceReviews'
  <2>1. /\ l \in DOMAIN lines /\ UNCHANGED <<lines, taken>>
        /\ at'[l] = "silent" => at[l] = "checking" /\ Superseded(l)
        /\ \A k \in Lines : k # l => at'[k] = at[k] \/ at'[k] = "lost"
    BY <1>5, WorkStep
  <2>2. at'[l] = "silent" => \E k \in taken : Covers(k, l)
    BY <2>1, StaleByOther
  <2> QED
    BY <1>0, <1>1, <2>1, <2>2
<1>6. CASE Aside
  BY <1>1, <1>6 DEF Aside
<1> QED
  BY <1>2, <1>3, <1>4, <1>5, <1>6, StepKinds

LEMMA InitSessionsInv == SessionsInit => SessionsInv
<1> SUFFICES ASSUME SessionsInit
             PROVE  SessionsInv
  OBVIOUS
<1>1. SessionsTypeOK
  BY SessionsInitTypeOK
<1>2. DOMAIN lines = {} /\ taken = {} /\ latestReview = 0 /\ \A l \in Lines : late[l] = 0
  BY LenProperties, EmptySeq DEF SessionsInit
<1>3. TakenUp /\ Fifo /\ Alone /\ Numbered /\ Raised /\ LateOnce /\ OnlyOthersSilenceReviews
  BY <1>2 DEF TakenUp, Fifo, Alone, Numbered, Raised, LateOnce, OnlyOthersSilenceReviews
<1>4. OneAdmitted
  BY DEF SessionsInit, OneAdmitted
<1>5. SlotsAreHeld
  <2>1. Holders = {} /\ count = 0
    BY DEF SessionsInit, Holders, Held
  <2> QED
    BY <2>1, FS_EmptySet, LiveSessionsAssumption DEF SlotsAreHeld, Holders
<1> QED
  BY <1>1, <1>3, <1>4, <1>5 DEF SessionsInv

LEMMA NextSessionsInv == SessionsInv /\ [SessionsNext]_sessionVars => SessionsInv'
BY SessionsNextTypeOK, NextOneAdmitted, NextSlotsAreHeld, NextTakenUp, NextFifo, NextAlone,
   NextNumbered, NextRaised, NextLateOnce, NextOnlyOthers DEF SessionsInv

\* Every variable of the live server's sessions keeps its type (LiveServer).
THEOREM SessionsTypeCorrect == SessionsSpec => []SessionsTypeOK
<1>1. SessionsInv => SessionsTypeOK
  BY DEF SessionsInv
<1> QED
  BY InitSessionsInv, NextSessionsInv, <1>1, PTL DEF SessionsSpec

\* However many editors connect, the count of clients is the number of slots that
\* are held, and within the limit: no slot leaks and none is freed twice
\* (_accept_loop, _handle_client).
THEOREM SlotsHeld == SessionsSpec => []SlotsAreHeld
<1>1. SessionsInv => SlotsAreHeld
  BY DEF SessionsInv
<1> QED
  BY InitSessionsInv, NextSessionsInv, <1>1, PTL DEF SessionsSpec

\* However large the review and however many lines are sent, at most one more of
\* its results goes out once it is stale (_process_review_request).
THEOREM LateResultBound == SessionsSpec => []AtMostOneLateResult
<1>1. SessionsInv => AtMostOneLateResult
  BY DEF SessionsInv, LateOnce, AtMostOneLateResult
<1> QED
  BY InitSessionsInv, NextSessionsInv, <1>1, PTL DEF SessionsSpec

\* A review falls silent only for what another connection sent, whatever the
\* numbers editors choose (_cancel_request, _process_review_request).
THEOREM SilencedByOthers == SessionsSpec => []OnlyOthersSilenceReviews
<1>1. SessionsInv => OnlyOthersSilenceReviews
  BY DEF SessionsInv
<1> QED
  BY InitSessionsInv, NextSessionsInv, <1>1, PTL DEF SessionsSpec

===============================================================================
