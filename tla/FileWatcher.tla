------------------------------ MODULE FileWatcher ------------------------------
(***************************************************************************)
(* intentumdiff.watcher.FileWatcher: the observer thread that turns file   *)
(* system events into debounced diff requests, the threading.Timer of each *)
(* request, its run (read the file, diff it, render the result) and        *)
(* stop(), whose two halves other threads can come between.                *)
(*                                                                         *)
(* A request is named by its arrival number; it is also the name of its    *)
(* timer.  A content of a file is the number of the disk operation that    *)
(* wrote it.  The diff is abstracted to how its run can end.               *)
(***************************************************************************)
EXTENDS Integers, Sequences, FiniteSets

CONSTANTS Files,     \* files under a watched directory
          InRepo,    \* those inside a git repository
          MaxOps     \* bound: operations on the disk in one behaviour


Ids == 1..MaxOps     \* an operation causes at most one request
NoTimer == 0
Gone == -1
Unread == -2
Versions == 0..MaxOps

\* An event is about a watched file, or about something the handler ignores
\* (a directory, an editor's temporary or backup file).
Ignored == "ignored"
EventPaths == Files \cup {Ignored}

ASSUME FileWatcherAssumption ==
  InRepo \subseteq Files /\ MaxOps \in Nat /\ Ignored \notin Files

\* Where a request stands.  armed, fired: its timer's interval is running, is
\* over.  loading: _run_diff has taken the timer out of the table.  diffed: the
\* diff is there to be rendered.  At rest: cancelled, rendered, warned (a
\* message instead of a diff), silent (file gone, or no parser for it).
Waiting == {"armed", "fired"}
Running == {"loading", "diffed"}
Served == {"rendered", "warned", "silent"}
Phases == {"none", "cancelled"} \cup Waiting \cup Running \cup Served

VARIABLES
  content,    \* what each file holds on disk: a version, or Gone
  ops,        \* disk operations so far
  events,     \* the observer's queue of events
  watching,   \* "new", "on", "stopping" (timers cancelled), "off"
  requests,   \* the file of each request, in arrival order
  phase,      \* Ids -> Phases
  read,       \* the version the run of a request has read
  tracked,    \* self._timers: file -> timer
  abandoned,  \* history: requests pending when stop() cancelled the timers
  stopMark    \* history: how many requests there were at that time

vars == <<content, ops, events, watching, requests, phase, read, tracked,
          abandoned, stopMark>>

disk == <<content, ops>>

Submitted == DOMAIN requests
Unsettled == {r \in Submitted : phase[r] \in Waiting \cup Running}

\* Timer.cancel() has an effect only while the timer is waiting.
CancelTimers(S) ==
  [r \in Ids |-> IF r \in S /\ phase[r] = "armed" THEN "cancelled" ELSE phase[r]]

Init ==
  /\ content = [f \in Files |-> 0]
  /\ ops = 0
  /\ events = <<>>
  /\ watching = "new"
  /\ requests = <<>>
  /\ phase = [r \in Ids |-> "none"]
  /\ read = [r \in Ids |-> Unread]
  /\ tracked = [f \in Files |-> NoTimer]
  /\ abandoned = {}
  /\ stopMark = 0

-------------------------------------------------------------------------------
(* The disk and the operating system *)

\* An operation that leaves value v in file f and reports path e, if any.
Operation(f, v, reported) ==
  /\ watching # "new"
  /\ ops < MaxOps
  /\ ops' = ops + 1
  /\ content' = [content EXCEPT ![f] = v]
  /\ events' = events \o reported
  /\ UNCHANGED <<watching, requests, phase, read, tracked, abandoned, stopMark>>

\* The file is written in place, created, or renamed into place.
Save(f) == Operation(f, ops + 1, <<f>>)

\* One save can be reported twice, and an attribute change is reported too.
Touch(f) == Operation(f, content[f], <<f>>)

\* The file is deleted, or renamed to a backup name the handler ignores.
Remove(f) == Operation(f, Gone, <<>>) \/ Operation(f, Gone, <<Ignored>>)

-------------------------------------------------------------------------------
(* The main thread *)

Start ==
  /\ watching = "new"
  /\ watching' = "on"
  /\ UNCHANGED <<disk, events, requests, phase, read, tracked, abandoned, stopMark>>

\* A stop that empties the table before it cancels what is in it.
BadStopTimers ==
  /\ watching = "on"
  /\ watching' = "stopping"
  /\ tracked' = [f \in Files |-> NoTimer]
  /\ abandoned' = Unsettled
  /\ stopMark' = Len(requests)
  /\ UNCHANGED <<disk, events, requests, phase, read>>

\* stop(), first half: the critical section that cancels the timers it sees.
StopTimers ==
  /\ watching = "on"
  /\ watching' = "stopping"
  /\ phase' = CancelTimers({tracked[f] : f \in Files})
  /\ tracked' = [f \in Files |-> NoTimer]
  /\ abandoned' = Unsettled
  /\ stopMark' = Len(requests)
  /\ UNCHANGED <<disk, events, requests, read>>

\* stop(), second half: the observer thread is told to stop, and joined.
StopObserver ==
  /\ watching = "stopping"
  /\ watching' = "off"
  /\ UNCHANGED <<disk, events, requests, phase, read, tracked, abandoned, stopMark>>

-------------------------------------------------------------------------------
(* The observer thread *)

\* _schedule_diff: its critical section.
ScheduleDiff(f) ==
  LET r == Len(requests) + 1 IN
  /\ requests' = Append(requests, f)
  /\ phase' = [CancelTimers({tracked[f]}) EXCEPT ![r] = "armed"]
  /\ tracked' = [tracked EXCEPT ![f] = r]

\* A handler that skips a file whose run is under way.
BadDispatch ==
  /\ events # <<>>
  /\ watching \in {"on", "stopping"}
  /\ events' = Tail(events)
  /\ IF Head(events) \in Files
        /\ \A r \in Submitted : requests[r] = Head(events) => phase[r] \notin Running
     THEN ScheduleDiff(Head(events))
     ELSE UNCHANGED <<requests, phase, tracked>>
  /\ UNCHANGED <<disk, watching, read, abandoned, stopMark>>

\* on_modified, on_created, on_moved: the next event is ignored or scheduled.
Dispatch ==
  /\ events # <<>>
  /\ watching \in {"on", "stopping"}
  /\ events' = Tail(events)
  /\ \/ /\ Head(events) = Ignored
        /\ UNCHANGED <<requests, phase, tracked>>
     \/ /\ Head(events) \in Files
        /\ ScheduleDiff(Head(events))
  /\ UNCHANGED <<disk, watching, read, abandoned, stopMark>>

-------------------------------------------------------------------------------
(* Timer threads *)

Quiet == UNCHANGED <<disk, events, watching, requests, abandoned, stopMark>>

\* threading.Timer.run: the interval is over and cancel() was not called.
Fire(r) ==
  /\ phase[r] = "armed"
  /\ phase' = [phase EXCEPT ![r] = "fired"]
  /\ Quiet
  /\ UNCHANGED <<read, tracked>>

\* A run that cancels the timer it removes.
BadRunDiffCancels(r) ==
  /\ phase[r] = "fired"
  /\ phase' = [CancelTimers({tracked[requests[r]]}) EXCEPT ![r] = "loading"]
  /\ tracked' = [tracked EXCEPT ![requests[r]] = NoTimer]
  /\ Quiet
  /\ UNCHANGED read

\* _run_diff: its critical section removes whatever timer the file has now.
RunDiff(r) ==
  /\ phase[r] = "fired"
  /\ phase' = [phase EXCEPT ![r] = "loading"]
  /\ tracked' = [tracked EXCEPT ![requests[r]] = NoTimer]
  /\ Quiet
  /\ UNCHANGED read

\* _run_diff: outside a repository there is only a warning; otherwise the file
\* is read.  A missing file ends the run, and so do a missing committed version,
\* a missing parser and an error; anything else yields a diff of what was read.
LoadAndDiff(r) ==
  LET f == requests[r] IN
  /\ phase[r] = "loading"
  /\ \/ /\ f \notin InRepo
        /\ phase' = [phase EXCEPT ![r] = "warned"]
        /\ UNCHANGED read
     \/ /\ f \in InRepo
        /\ read' = [read EXCEPT ![r] = content[f]]
        /\ \E end \in {"warned", "silent"} \cup (IF content[f] = Gone THEN {} ELSE {"diffed"}) :
             phase' = [phase EXCEPT ![r] = end]
  /\ Quiet
  /\ UNCHANGED tracked

\* _run_diff: print the result (the diff, or that there is nothing to show).
Render(r) ==
  /\ phase[r] = "diffed"
  /\ phase' = [phase EXCEPT ![r] = "rendered"]
  /\ Quiet
  /\ UNCHANGED <<read, tracked>>

TimerThread(r) == Fire(r) \/ RunDiff(r) \/ LoadAndDiff(r) \/ Render(r)

Next ==
  \/ \E f \in Files : Save(f) \/ Touch(f) \/ Remove(f)
  \/ Start \/ StopTimers \/ StopObserver
  \/ Dispatch
  \/ \E r \in Ids : TimerThread(r)

Spec == Init /\ [][Next]_vars

\* Started threads keep being scheduled; nothing makes a user save or stop.
FairSpec ==
  /\ Spec
  /\ WF_vars(Dispatch)
  /\ WF_vars(StopObserver)
  /\ \A r \in Ids : WF_vars(TimerThread(r))

-------------------------------------------------------------------------------
(* Properties *)

\* Type correctness.
TypeOK ==
  /\ content \in [Files -> Versions \cup {Gone}]
  /\ ops \in 0..MaxOps
  /\ events \in Seq(EventPaths)
  /\ watching \in {"new", "on", "stopping", "off"}
  /\ requests \in Seq(Files) /\ Len(requests) + Len(events) <= ops
  /\ phase \in [Ids -> Phases]
  /\ \A r \in Ids : phase[r] = "none" <=> r \notin Submitted
  /\ read \in [Ids -> Versions \cup {Gone, Unread}]
  /\ tracked \in [Files -> Submitted \cup {NoTimer}]
  /\ abandoned \subseteq Submitted
  /\ stopMark \in Nat

\* Some run has read the content that file f has now.
Seen(f) == \E r \in Submitted : requests[r] = f /\ read[r] = content[f]

\* Something is under way that will read file f: an event not yet handled, or a
\* request whose run has not read the file yet.
Coming(f) ==
  \/ \E i \in DOMAIN events : events[i] = f
  \/ \E r \in Submitted : requests[r] = f /\ phase[r] \in Waiting \cup {"loading"}

\* No save is lost: while the watcher is on, the newest content of every file
\* in a repository has been read by a run, or will be (_schedule_diff may cancel
\* a timer only because another one takes its place).
NoSaveLost ==
  \A f \in InRepo :
    watching = "on" /\ content[f] > 0 => Seen(f) \/ Coming(f)

\* When stop() has returned, a timer is still armed only if it escaped: its
\* event was handled between the two halves of stop(), or the run of an older
\* request for its file had removed its entry from the table.
OnlyEscapeesOutliveStop ==
  watching = "off" =>
    \A r \in Submitted : phase[r] = "armed" =>
      \/ r > stopMark
      \/ \E q \in Submitted : /\ q < r /\ requests[q] = requests[r]
                              /\ phase[q] \in Running \cup Served

-------------------------------------------------------------------------------
(* The abstract promise *)

Outcome(r) ==
  CASE phase[r] = "none" -> "none"
    [] phase[r] \in Waiting \cup Running -> "pending"
    [] phase[r] \in Served -> "served"
    [] phase[r] = "cancelled" -> "shed"

Promise == INSTANCE Coalescing
             WITH Paths <- Files,
                  MaxRequests <- MaxOps,
                  log <- requests,
                  outcome <- [r \in Ids |-> Outcome(r)],
                  excused <- abandoned

\* The watcher implements the promise of a debounced service: it cancels a
\* request only for a newer one of the same file or at a stop, and every other
\* request is served.
PromiseSpec == Promise!Spec
PromiseSafety == Promise!Safety

===============================================================================
