----------------------------- MODULE LiveDebounce -----------------------------
(***************************************************************************)
(* The debounce core of intentumdiff.live_server.LiveServer: the threads   *)
(* that accept diff requests, the threading.Timer each request starts, the *)
(* run of a timer (stale check, diff, stale check, send), cancel requests  *)
(* and stop().  One action per critical section of self._lock, or per      *)
(* stretch of code between two of them.                                    *)
(*                                                                         *)
(* A request is named by its arrival number; it is also the name of the    *)
(* timer started for it.  The diff itself, the contents and the JSON are   *)
(* abstracted: a diff succeeds with some number of changes or fails.       *)
(***************************************************************************)
EXTENDS Naturals, Sequences

CONSTANTS Paths,         \* repository-relative paths
          Clients,       \* connected editors
          MaxRequests,   \* bound: diff requests in one behaviour
          MaxSeq,        \* bound: largest sequence number a client uses
          MaxCancels,    \* bound: cancel requests in one behaviour
          MaxEvents,     \* bound: changes streamed for one request
          Streams,       \* the values of stream (or of its default) in use
          CancelReuses   \* may a cancel carry a sequence number already used?

ASSUME LiveDebounceAssumption ==
  /\ MaxRequests \in Nat
  /\ MaxSeq \in Nat
  /\ MaxCancels \in Nat
  /\ MaxEvents \in Nat
  /\ Streams \subseteq BOOLEAN
  /\ CancelReuses \in BOOLEAN

Ids == 1..MaxRequests
Seqs == 0..MaxSeq
NoTimer == 0

\* Where the timer of a request stands.
\*   armed      Timer started, its interval has not elapsed (cancel() works)
\*   fired      interval elapsed, _run_diff about to take the lock
\*   computing  passed the first stale check, the diff is being computed
\*   ready      has a message to send, the stale check before it is next
\*   sending    passed that check, the message is not on the wire yet
\*   failed     the diff raised, the error response is not on the wire yet
\* and, at rest: none (not submitted), cancelled (Timer.cancel), dropped (a
\* stale check), answered and refused (final response, error response sent).
Waiting == {"armed", "fired"}
Running == {"computing", "ready", "sending", "failed"}
AtRest  == {"cancelled", "dropped", "answered", "refused"}
Phases  == {"none"} \cup Waiting \cup Running \cup AtRest

Request == [path: Paths, seq: Seqs, client: Clients, stream: BOOLEAN]
Message == [req: Ids, kind: {"event", "done", "diff", "error"}]

VARIABLES
  req,        \* the requests accepted so far, in arrival order
  phase,      \* Ids -> Phases
  left,       \* changes a streaming run still has to send
  tracked,    \* self._timers and self._timer_requests: path -> timer
  latest,     \* self._latest_seq: path -> sequence number (absent: 0)
  stopped,    \* stop() has cancelled the timers
  clientSeq,  \* the last sequence number each client has used
  cancels,    \* cancel requests so far (for the bound)
  wire,       \* what each connection has carried to its client
  acked,      \* history: timers a cancel response counted as cancelled
  withdrawn,  \* history: requests unsettled when a cancel or stop covered them
  late        \* history: messages a request sent after it became stale

vars == <<req, phase, left, tracked, latest, stopped, clientSeq, cancels,
          wire, acked, withdrawn, late>>

Later(a, b) == IF a > b THEN a ELSE b

PathOf(r) == req[r].path
SeqOf(r) == req[r].seq

Submitted == DOMAIN req
Unsettled == {r \in Submitted : phase[r] \in Waiting \cup Running}

\* (Operators named Bad... are mistaken variants of the operator that follows
\* them; README.md names the property each of them breaks.)

\* A stale check that is off by one.
BadStale(r) == SeqOf(r) <= latest[PathOf(r)]

\* The test of _is_stale and of _run_diff.
Stale(r) == SeqOf(r) < latest[PathOf(r)]

\* Timer.cancel() has an effect only while the timer is waiting.
CancelTimers(S) ==
  [r \in Ids |-> IF r \in S /\ phase[r] = "armed" THEN "cancelled" ELSE phase[r]]

Init ==
  /\ req = <<>>
  /\ phase = [r \in Ids |-> "none"]
  /\ left = [r \in Ids |-> 0]
  /\ tracked = [p \in Paths |-> NoTimer]
  /\ latest = [p \in Paths |-> 0]
  /\ stopped = FALSE
  /\ clientSeq = [c \in Clients |-> 0]
  /\ cancels = 0
  /\ wire = [c \in Clients |-> <<>>]
  /\ acked = {}
  /\ withdrawn = {}
  /\ late = [r \in Ids |-> 0]

-------------------------------------------------------------------------------
(* Client threads *)

\* _schedule_request: the critical section for a valid diff request.  A client
\* numbers its own requests upwards, as the protocol asks.  The section does
\* not look at the stop event: a client thread that already holds a buffered
\* line schedules it after stop().
ScheduleRequest(c, p, s, stream) ==
  LET r == Len(req) + 1 IN
  /\ r \in Ids
  /\ s > clientSeq[c]
  /\ clientSeq' = [clientSeq EXCEPT ![c] = s]
  /\ req' = Append(req, [path |-> p, seq |-> s, client |-> c, stream |-> stream])
  /\ latest' = [latest EXCEPT ![p] = Later(@, s)]
  /\ phase' = [CancelTimers({tracked[p]}) EXCEPT ![r] = "armed"]
  /\ tracked' = [tracked EXCEPT ![p] = r]
  /\ UNCHANGED <<left, stopped, cancels, wire, acked, withdrawn, late>>

\* The numbers a client may put in a cancel: none (0), a fresh one, or (when
\* CancelReuses) one of those it has used.
CancelSeqs(c) ==
  {s \in Seqs : s = 0 \/ s > clientSeq[c] \/ CancelReuses}

CancelBy(c, s) ==
  /\ cancels < MaxCancels
  /\ cancels' = cancels + 1
  /\ clientSeq' = [clientSeq EXCEPT ![c] = Later(@, s)]
  /\ UNCHANGED <<req, left, stopped, wire, late>>

\* A cancel that makes the pending request's own number the latest.
BadStaleAfter(p, s) ==
  IF s # 0 THEN s
  ELSE IF tracked[p] # NoTimer THEN SeqOf(tracked[p]) ELSE 1

\* _cancel_request with a path: the number below which requests are stale.
StaleAfter(p, s) ==
  IF s # 0 THEN s
  ELSE IF tracked[p] # NoTimer THEN SeqOf(tracked[p]) + 1 ELSE 1

\* _cancel_request with a path.
CancelPath(c, p, s) ==
  /\ CancelBy(c, s)
  /\ s \in CancelSeqs(c)
  /\ phase' = CancelTimers({tracked[p]})
  /\ tracked' = [tracked EXCEPT ![p] = NoTimer]
  /\ latest' = [latest EXCEPT ![p] = Later(@, StaleAfter(p, s))]
  /\ acked' = acked \cup ({tracked[p]} \ {NoTimer})
  /\ withdrawn' = withdrawn \cup {r \in Unsettled : PathOf(r) = p}

\* The pending requests a cancel without a path covers.
CoveredPaths(s) == {p \in Paths : tracked[p] # NoTimer /\ SeqOf(tracked[p]) <= s}

\* _cancel_request without a path (its effect on reviews is in LiveSessions).
CancelAll(c, s) ==
  /\ CancelBy(c, s)
  /\ s \in CancelSeqs(c) \ {0}
  /\ phase' = CancelTimers({tracked[p] : p \in CoveredPaths(s)})
  /\ tracked' = [p \in Paths |-> IF p \in CoveredPaths(s) THEN NoTimer ELSE tracked[p]]
  /\ latest' = [p \in Paths |->
       IF p \in CoveredPaths(s) THEN Later(latest[p], s + 1) ELSE latest[p]]
  /\ acked' = acked \cup {tracked[p] : p \in CoveredPaths(s)}
  /\ withdrawn' = withdrawn \cup {r \in Unsettled : SeqOf(r) <= s}

\* stop(): the critical section that cancels the timers it can see.
Stop ==
  /\ ~stopped
  /\ stopped' = TRUE
  /\ phase' = CancelTimers({tracked[p] : p \in Paths})
  /\ tracked' = [p \in Paths |-> NoTimer]
  /\ withdrawn' = withdrawn \cup Unsettled
  /\ UNCHANGED <<req, left, latest, clientSeq, cancels, wire, acked, late>>

-------------------------------------------------------------------------------
(* Timer threads *)

Quiet == UNCHANGED <<req, latest, stopped, clientSeq, cancels, acked, withdrawn>>

\* threading.Timer.run: the interval is over and cancel() was not called.
Fire(r) ==
  /\ phase[r] = "armed"
  /\ phase' = [phase EXCEPT ![r] = "fired"]
  /\ Quiet
  /\ UNCHANGED <<left, tracked, wire, late>>

\* A run that leaves its timer in the table.
BadRunDiff(r) ==
  /\ phase[r] = "fired"
  /\ phase' = [phase EXCEPT ![r] = IF Stale(r) THEN "dropped" ELSE "computing"]
  /\ Quiet
  /\ UNCHANGED <<left, tracked, wire, late>>

\* _run_diff: the critical section removes whatever timer the path has now,
\* and the request goes on unless it is stale.
RunDiff(r) ==
  /\ phase[r] = "fired"
  /\ tracked' = [tracked EXCEPT ![PathOf(r)] = NoTimer]
  /\ phase' = [phase EXCEPT ![r] = IF Stale(r) THEN "dropped" ELSE "computing"]
  /\ Quiet
  /\ UNCHANGED <<left, wire, late>>

\* _process_request_with_source: the diff returns some changes, or raises.
ComputeDiff(r) ==
  /\ phase[r] = "computing"
  /\ \/ /\ phase' = [phase EXCEPT ![r] = "failed"]
        /\ UNCHANGED left
     \/ /\ phase' = [phase EXCEPT ![r] = "ready"]
        /\ \E n \in 0..(IF req[r].stream THEN MaxEvents ELSE 0) :
             left' = [left EXCEPT ![r] = n]
  /\ Quiet
  /\ UNCHANGED <<tracked, wire, late>>

\* No stale check before a message.
BadCheckStale(r) ==
  /\ phase[r] = "ready"
  /\ phase' = [phase EXCEPT ![r] = "sending"]
  /\ Quiet
  /\ UNCHANGED <<left, tracked, wire, late>>

\* A stale check that waits for the request to be the latest.
BadCheckStaleWaits(r) ==
  /\ phase[r] = "ready"
  /\ ~Stale(r)
  /\ phase' = [phase EXCEPT ![r] = "sending"]
  /\ Quiet
  /\ UNCHANGED <<left, tracked, wire, late>>

\* The stale check before each message of a successful diff.
CheckStale(r) ==
  /\ phase[r] = "ready"
  /\ phase' = [phase EXCEPT ![r] = IF Stale(r) THEN "dropped" ELSE "sending"]
  /\ Quiet
  /\ UNCHANGED <<left, tracked, wire, late>>

\* send_fn: a message goes out, with no lock held.
Put(r, kind) ==
  /\ wire' = [wire EXCEPT ![req[r].client] = Append(@, [req |-> r, kind |-> kind])]
  /\ late' = [late EXCEPT ![r] = IF Stale(r) THEN @ + 1 ELSE @]
  /\ Quiet
  /\ UNCHANGED tracked

\* The next streamed change.
SendEvent(r) ==
  /\ phase[r] = "sending"
  /\ left[r] > 0
  /\ Put(r, "event")
  /\ left' = [left EXCEPT ![r] = @ - 1]
  /\ phase' = [phase EXCEPT ![r] = "ready"]

\* The final response: the done sentinel of a stream, or the diff.
SendFinal(r) ==
  /\ phase[r] = "sending"
  /\ left[r] = 0
  /\ Put(r, IF req[r].stream THEN "done" ELSE "diff")
  /\ phase' = [phase EXCEPT ![r] = "answered"]
  /\ UNCHANGED left

\* The except clauses: an error response, sent without a stale check.
SendError(r) ==
  /\ phase[r] = "failed"
  /\ Put(r, "error")
  /\ phase' = [phase EXCEPT ![r] = "refused"]
  /\ UNCHANGED left

TimerThread(r) ==
  \/ Fire(r) \/ RunDiff(r) \/ ComputeDiff(r) \/ CheckStale(r)
  \/ SendEvent(r) \/ SendFinal(r) \/ SendError(r)

Next ==
  \/ \E c \in Clients, p \in Paths, s \in Seqs :
       \/ \E stream \in Streams : ScheduleRequest(c, p, s, stream)
       \/ CancelPath(c, p, s)
  \/ \E c \in Clients, s \in Seqs : CancelAll(c, s)
  \/ Stop
  \/ \E r \in Ids : TimerThread(r)

Spec == Init /\ [][Next]_vars

\* A started thread keeps being scheduled; nothing makes a client send more.
FairSpec == Spec /\ \A r \in Ids : WF_vars(TimerThread(r))

-------------------------------------------------------------------------------
(* Properties *)

\* Type correctness.
TypeOK ==
  /\ req \in Seq(Request) /\ Len(req) <= MaxRequests
  /\ phase \in [Ids -> Phases]
  /\ \A r \in Ids : phase[r] = "none" <=> r \notin Submitted
  /\ left \in [Ids -> 0..MaxEvents]
  /\ tracked \in [Paths -> Submitted \cup {NoTimer}]
  /\ latest \in [Paths -> Nat]
  /\ stopped \in BOOLEAN
  /\ clientSeq \in [Clients -> Seqs]
  /\ cancels \in 0..MaxCancels
  /\ wire \in [Clients -> Seq(Message)]
  /\ acked \subseteq Submitted
  /\ withdrawn \subseteq Submitted
  /\ late \in [Ids -> Nat]

\* A later request for the same path has been accepted.
Superseded(r) == \E q \in Submitted : q > r /\ PathOf(q) = PathOf(r)

\* The timer table names, for each path, the request accepted last, and one
\* whose run has not begun: the table never offers a dead or an outdated timer
\* to be cancelled in place of the live one (_schedule_request, _run_diff).
TrackedIsNewest ==
  \A p \in Paths : tracked[p] # NoTimer =>
    /\ PathOf(tracked[p]) = p
    /\ phase[tracked[p]] \in Waiting
    /\ ~Superseded(tracked[p])

\* Once a request is stale, at most one more message of it goes out: every
\* further one is caught by a check (_is_stale before each send).
AtMostOneLateMessage == \A r \in Ids : late[r] <= 1

\* A request is given up only if a later one for its path was accepted, or a
\* cancel or stop() covered it: the last edit of a file is not lost.  This is
\* proved for one client (LiveDebounceProofs) and does not hold for two.
NoRequestLost ==
  \A r \in Submitted : phase[r] \in {"cancelled", "dropped"} =>
    Superseded(r) \/ r \in withdrawn

\* A request that a cancel response counted as cancelled sends nothing.
CancelledIsSilent ==
  \A c \in Clients : \A i \in DOMAIN wire[c] : wire[c][i].req \notin acked

\* Bursts of requests for a path are coalesced into a diff: when every request
\* for a path is settled and none was withdrawn, one of them was answered.  This is
\* proved for one client and does not hold with two: no configuration lists it.
BurstIsAnswered ==
  \A p \in Paths :
    LET burst == {r \in Submitted : PathOf(r) = p} IN
    burst # {} /\ burst \cap (Unsettled \cup withdrawn) = {} =>
      \E r \in burst : phase[r] \in {"answered", "refused"}

\* Message m of a connection's wire is about a newer request than message n.
Newer(m, n) == PathOf(m.req) = PathOf(n.req) /\ SeqOf(m.req) > SeqOf(n.req)

\* Older responses are dropped: no message follows one for the same path with a
\* larger sequence number (_is_stale before a send; none before an error).  This
\* does not hold, two requests are enough; no configuration lists it.
OlderResponsesDropped ==
  \A c \in Clients : \A i, j \in DOMAIN wire[c] :
    i < j => ~Newer(wire[c][i], wire[c][j])

\* Every accepted request is settled.
EveryRequestSettles ==
  \A r \in Ids : phase[r] = "armed" ~> phase[r] \in AtRest

-------------------------------------------------------------------------------
(* The abstract promise *)

Outcome(r) ==
  CASE phase[r] = "none" -> "none"
    [] phase[r] \in Waiting \cup Running -> "pending"
    [] phase[r] \in {"answered", "refused"} -> "served"
    [] phase[r] \in {"cancelled", "dropped"} -> "shed"

Promise == INSTANCE Coalescing
             WITH log <- [r \in Submitted |-> PathOf(r)],
                  outcome <- [r \in Ids |-> Outcome(r)],
                  excused <- withdrawn

\* With one client, the debounce implements the promise: no step sheds a
\* request that nothing excuses, and every request is settled.
PromiseSpec == Promise!Spec
PromiseSafety == Promise!Safety

===============================================================================
