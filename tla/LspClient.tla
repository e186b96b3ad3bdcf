------------------------------- MODULE LspClient -------------------------------
(***************************************************************************)
(* intentumdiff.lsp.client.AsyncLspClient: one connection to a language    *)
(* server, from start() to shutdown().  The coroutines of one event loop   *)
(* are the actors: the callers of hover(), the one that starts and shuts   *)
(* down the client, the reader task and the stderr task.  An action is a   *)
(* stretch of code between two awaits.  The server is external: it answers *)
(* in any order or never, sends requests of its own, and may go away.      *)
(*                                                                         *)
(* A call is named by the id of its request.  What a message says is       *)
(* abstracted to whether it carries a result, an error, or an error that   *)
(* is no object (null, a string).                                          *)
(***************************************************************************)
EXTENDS Naturals, Sequences

CONSTANTS MaxCalls,     \* bound: requests sent on the connection
          MaxServer,    \* bound: requests of the server's own
          ServerIds,    \* the ids the server's own requests may carry
          Transports    \* the kinds of connection: stdio (a subprocess), tcp

ASSUME LspClientAssumption ==
  /\ MaxCalls \in Nat \ {0}
  /\ MaxServer \in Nat
  /\ ServerIds \subseteq Nat
  /\ Transports \subseteq {"stdio", "tcp"}

Ids == 1..MaxCalls
Handshake == 1                \* start() sends the first request, initialize

\* Where the caller of a request stands in _send_request.
InFlight == {"draining", "waiting"}
Ended == {"returned", "failed", "timedout", "cancelled"}

\* Where the coroutine that owns the client stands.  In start(): idle,
\* handshake, failed (raised, cleaned up), startAborted (its clean-up was
\* interrupted).  Then up.  In shutdown(): leaving, closed, exitAborted (a
\* cancellation ended it before its clean-up).
Lives == {"idle", "handshake", "failed", "startAborted",
          "up", "leaving", "closed", "exitAborted"}

Message == [id: Ids \cup ServerIds, kind: {"result", "error", "malformed", "request"}]

VARIABLES
  transport,   \* how the client is configured to connect
  life,        \* see Lives
  started,     \* self._started
  calls,       \* requests sent so far: self._next_id - 1
  exitCall,    \* the request of shutdown(), 0 before
  call,        \* Ids -> where its caller stands
  fut,         \* Ids -> its future: waiting, result, error, cancelled
  pending,     \* self._pending: the ids a response is expected for
  reader,      \* the reader task: none, reading, done
  stderrTask,  \* the stderr task: none, running, done
  writer,      \* the connection's write side: none, open, closed
  server,      \* the language server: absent, up, down
  owed,        \* requests the server has not answered
  inbox,       \* messages on their way to the reader
  asked,       \* requests of the server's own so far
  stray,       \* history: calls a message that is no response has ended
  endMark,     \* history: requests sent when the reader task ended
  broke        \* history: the call whose answer ended the reader task, or 0

vars == <<transport, life, started, calls, exitCall, call, fut, pending, reader,
          stderrTask, writer, server, owed, inbox, asked, stray, endMark, broke>>

callVars == <<calls, call, fut, pending, owed>>
ownerVars == <<transport, life, started, exitCall>>
taskVars == <<reader, stderrTask, writer, server, inbox, asked, stray, endMark,
             broke>>

Init ==
  /\ transport \in Transports
  /\ life = "idle"
  /\ started = FALSE
  /\ calls = 0
  /\ exitCall = 0
  /\ call = [r \in Ids |-> "none"]
  /\ fut = [r \in Ids |-> "none"]
  /\ pending = {}
  /\ reader = "none"
  /\ stderrTask = "none"
  /\ writer = "none"
  /\ server = "absent"
  /\ owed = {}
  /\ inbox = <<>>
  /\ asked = 0
  /\ stray = {}
  /\ endMark = 0
  /\ broke = 0

-------------------------------------------------------------------------------
(* A request: _send_request *)

\* (Operators named Bad... are mistaken variants of the operator that follows
\* them; README.md names the property each of them breaks.)

\* Up to its first await: take an id, register a future, write.
SendRequest ==
  LET r == calls + 1 IN
  /\ r \in Ids
  /\ calls' = r
  /\ call' = [call EXCEPT ![r] = "draining"]
  /\ fut' = [fut EXCEPT ![r] = "waiting"]
  /\ pending' = pending \cup {r}
  /\ owed' = owed \cup {r}

\* hover() by any coroutine that holds the client.
Hover ==
  /\ life \in {"up", "leaving"}
  /\ SendRequest
  /\ UNCHANGED <<ownerVars, taskVars>>

\* The write buffer is drained, takes too long, or the connection is gone
\* (an error no clause of _send_request handles).
Drained(r) ==
  /\ call[r] = "draining"
  /\ \/ /\ call' = [call EXCEPT ![r] = "waiting"]
        /\ UNCHANGED pending
     \/ /\ call' = [call EXCEPT ![r] = "timedout"]
        /\ pending' = pending \ {r}
     \/ /\ server = "down" \/ writer = "closed"
        /\ call' = [call EXCEPT ![r] = "failed"]
        /\ UNCHANGED pending
  /\ UNCHANGED <<ownerVars, taskVars, calls, fut, owed>>

\* The future is done, and its caller sees how.
Resume(r) ==
  /\ call[r] = "waiting"
  /\ fut[r] # "waiting"
  /\ call' = [call EXCEPT ![r] = CASE fut[r] = "result" -> "returned"
                                   [] fut[r] = "error" -> "failed"
                                   [] fut[r] = "cancelled" -> "cancelled"]
  /\ UNCHANGED <<ownerVars, taskVars, calls, fut, pending, owed>>

\* A timeout that leaves the request registered.
BadTimeout(r) ==
  /\ call[r] = "waiting"
  /\ call' = [call EXCEPT ![r] = "timedout"]
  /\ UNCHANGED <<ownerVars, taskVars, calls, fut, pending, owed>>

\* A timeout that counts on the reader task.
BadTimeoutWhileReading(r) ==
  /\ call[r] = "waiting"
  /\ reader = "reading"
  /\ call' = [call EXCEPT ![r] = "timedout"]
  /\ pending' = pending \ {r}
  /\ UNCHANGED <<ownerVars, taskVars, calls, fut, owed>>

\* wait_for gives up; it may do so although the future has just been done.
Timeout(r) ==
  /\ call[r] = "waiting"
  /\ call' = [call EXCEPT ![r] = "timedout"]
  /\ pending' = pending \ {r}
  /\ UNCHANGED <<ownerVars, taskVars, calls, fut, owed>>

\* The task that called hover() is cancelled; the future is shielded.
CancelCaller(r) ==
  /\ r \notin {Handshake, exitCall}
  /\ call[r] \in InFlight
  /\ call' = [call EXCEPT ![r] = "cancelled"]
  /\ UNCHANGED <<ownerVars, taskVars, calls, fut, pending, owed>>

-------------------------------------------------------------------------------
(* The server (external) *)

ServerQuiet ==
  UNCHANGED <<ownerVars, calls, call, fut, pending, reader, stderrTask, writer,
              stray, endMark, broke>>

Respond(r) ==
  /\ server = "up"
  /\ r \in owed
  /\ owed' = owed \ {r}
  /\ \E kind \in {"result", "error", "malformed"} :
       inbox' = Append(inbox, [id |-> r, kind |-> kind])
  /\ UNCHANGED <<server, asked>>
  /\ ServerQuiet

\* A request of the server's own, with ids of its own.
Ask(i) ==
  /\ server = "up"
  /\ asked < MaxServer
  /\ asked' = asked + 1
  /\ inbox' = Append(inbox, [id |-> i, kind |-> "request"])
  /\ UNCHANGED <<server, owed>>
  /\ ServerQuiet

\* The server closes the connection, or its process ends.
GoAway ==
  /\ server = "up"
  /\ server' = "down"
  /\ UNCHANGED <<owed, inbox, asked>>
  /\ ServerQuiet

-------------------------------------------------------------------------------
(* The reader task and the stderr task *)

\* A reader that drops the registered requests and does not cancel them.
BadReaderExit(outstanding) ==
  /\ reader' = "done"
  /\ pending' = {}
  /\ endMark' = calls
  /\ UNCHANGED fut

\* _read_loop, finally: the futures still registered are cancelled.
ReaderExit(outstanding) ==
  /\ reader' = "done"
  /\ fut' = [r \in Ids |-> IF r \in outstanding /\ fut[r] = "waiting"
                           THEN "cancelled" ELSE fut[r]]
  /\ pending' = {}
  /\ endMark' = calls

\* _read_loop: the next message.  Any message with an expected id ends the call,
\* whether it is a response or not; without an error it counts as a result.  An
\* error that is no object raises when its code is read: its call is registered
\* no more, its future is not done, and the reader task is over.
Read ==
  /\ reader = "reading"
  /\ inbox # <<>>
  /\ LET m == Head(inbox)
         expected == m.id \in pending /\ fut[m.id] = "waiting" IN
     \/ /\ expected /\ m.kind = "malformed"
        /\ ReaderExit(pending \ {m.id})
        /\ broke' = m.id
        /\ UNCHANGED stray
     \/ /\ ~expected \/ m.kind # "malformed"
        /\ pending' = pending \ {m.id}
        /\ fut' = IF expected
                  THEN [fut EXCEPT ![m.id] = IF m.kind = "error" THEN "error" ELSE "result"]
                  ELSE fut
        /\ stray' = IF expected /\ m.kind = "request" THEN stray \cup {m.id} ELSE stray
        /\ UNCHANGED <<reader, endMark, broke>>
  /\ inbox' = Tail(inbox)
  /\ UNCHANGED <<ownerVars, calls, call, owed, stderrTask, writer, server, asked>>

\* End of file, or a frame that ends the reader task: a header too long, a body
\* too large or not UTF-8, a message that is no object.
StopReading ==
  /\ reader = "reading"
  /\ ReaderExit(pending)
  /\ UNCHANGED <<ownerVars, calls, call, owed, stderrTask, writer, server, inbox,
                 asked, stray, broke>>

\* _drain_stderr: end of file.
StderrEnds ==
  /\ stderrTask = "running"
  /\ server = "down"
  /\ stderrTask' = "done"
  /\ UNCHANGED <<ownerVars, callVars, reader, writer, server, inbox, asked, stray,
                 endMark, broke>>

-------------------------------------------------------------------------------
(* The owner of the client: start() and shutdown() *)

\* start(): connect, create the tasks, and send initialize; or fail to connect.
Start ==
  /\ life = "idle"
  /\ \/ /\ life' = "handshake"
        /\ server' = "up"
        /\ writer' = "open"
        /\ reader' = "reading"
        /\ stderrTask' = IF transport = "stdio" THEN "running" ELSE "none"
        /\ SendRequest
     \/ /\ life' = "failed"
        /\ UNCHANGED <<callVars, server, writer, reader, stderrTask>>
  /\ UNCHANGED <<transport, started, exitCall, inbox, asked, stray, endMark, broke>>

\* Cancelling the reader task, if there is one to cancel.
CancelReader ==
  \/ reader = "reading" /\ ReaderExit(pending)
  \/ reader # "reading" /\ UNCHANGED <<reader, fut, pending, endMark>>

\* _cleanup_start_failure.  Awaiting the stderr task it has just cancelled
\* raises CancelledError, which suppress(Exception) lets through: if that task
\* was running, nothing further is cleaned up.
CleanUpStart ==
  /\ \/ /\ stderrTask = "running"
        /\ stderrTask' = "done"
        /\ life' = "startAborted"
        /\ UNCHANGED <<reader, fut, pending, endMark, writer, server>>
     \/ /\ stderrTask # "running"
        /\ UNCHANGED stderrTask
        /\ life' = "failed"
        /\ CancelReader
        /\ writer' = "closed"
        /\ server' = IF transport = "stdio" THEN "down" ELSE server
  /\ UNCHANGED <<transport, started, exitCall, calls, call, owed, inbox, asked, stray, broke>>

\* start(), after the handshake: a valid answer, or a failure of any kind.
FinishStart ==
  /\ life = "handshake"
  /\ \/ /\ call[Handshake] = "returned"
        /\ life' = "up"
        /\ started' = TRUE
        /\ UNCHANGED <<transport, exitCall, callVars, taskVars>>
     \/ /\ call[Handshake] \in Ended
        /\ CleanUpStart

Shutdown ==
  /\ life = "up"
  /\ life' = "leaving"
  /\ SendRequest
  /\ exitCall' = calls + 1
  /\ UNCHANGED <<transport, started, taskVars>>

\* A shutdown that leaves the tasks alone.
BadFinishShutdown ==
  /\ life = "leaving"
  /\ call[exitCall] \in Ended \ {"cancelled"}
  /\ life' = "closed"
  /\ started' = FALSE
  /\ server' = IF transport = "stdio" THEN "down" ELSE server
  /\ writer' = IF transport = "tcp" THEN "closed" ELSE writer
  /\ UNCHANGED <<transport, exitCall, callVars, reader, stderrTask, inbox, asked,
                 stray, endMark, broke>>

\* shutdown(), after its request: a failure or a timeout is ignored, and the
\* tasks, the process or the connection are released; a cancellation is not an
\* Exception and ends shutdown() here.
FinishShutdown ==
  /\ life = "leaving"
  /\ \/ /\ call[exitCall] \in Ended \ {"cancelled"}
        /\ life' = "closed"
        /\ started' = FALSE
        /\ stderrTask' = IF stderrTask = "running" THEN "done" ELSE stderrTask
        /\ CancelReader
        /\ server' = IF transport = "stdio" THEN "down" ELSE server
        /\ writer' = IF transport = "tcp" THEN "closed" ELSE writer
     \/ /\ call[exitCall] = "cancelled"
        /\ life' = "exitAborted"
        /\ UNCHANGED <<started, stderrTask, reader, fut, pending, endMark, server, writer>>
  /\ UNCHANGED <<transport, exitCall, calls, call, owed, inbox, asked, stray, broke>>

Caller(r) == Drained(r) \/ Resume(r) \/ Timeout(r)

Next ==
  \/ Hover
  \/ \E r \in Ids : Caller(r) \/ CancelCaller(r) \/ Respond(r)
  \/ \E i \in ServerIds : Ask(i)
  \/ GoAway
  \/ Read \/ StopReading \/ StderrEnds
  \/ Start \/ FinishStart \/ Shutdown \/ FinishShutdown

Spec == Init /\ [][Next]_vars

\* The event loop runs what is ready, and its timers go off; the server may
\* stay silent, and nobody has to call hover() or shutdown().
FairSpec ==
  /\ Spec
  /\ \A r \in Ids : WF_vars(Caller(r))
  /\ WF_vars(Read) /\ WF_vars(StderrEnds)
  /\ WF_vars(FinishStart) /\ WF_vars(FinishShutdown)

-------------------------------------------------------------------------------
(* Properties *)

\* Type correctness.
TypeOK ==
  /\ transport \in Transports
  /\ life \in Lives
  /\ started \in BOOLEAN
  /\ calls \in 0..MaxCalls
  /\ exitCall \in 0..calls
  /\ call \in [Ids -> {"none"} \cup InFlight \cup Ended]
  /\ fut \in [Ids -> {"none", "waiting", "result", "error", "cancelled"}]
  /\ \A r \in Ids : (call[r] = "none" <=> r > calls) /\ (fut[r] = "none" <=> r > calls)
  /\ pending \subseteq 1..calls
  /\ reader \in {"none", "reading", "done"}
  /\ stderrTask \in {"none", "running", "done"}
  /\ writer \in {"none", "open", "closed"}
  /\ server \in {"absent", "up", "down"}
  /\ owed \subseteq 1..calls
  /\ inbox \in Seq(Message)
  /\ asked \in 0..MaxServer
  /\ stray \subseteq 1..calls
  /\ endMark \in 0..calls
  /\ broke \in 0..calls

\* A registered request is one whose answer can still be used: its future is
\* not done and its caller waits, or was cancelled, or lost the connection while
\* draining.  An answered or timed out request is never left registered, so a
\* late answer finds nothing to end (_send_request, _read_loop).
RegisteredIsAwaited ==
  \A r \in pending : /\ fut[r] = "waiting"
                     /\ call[r] \in InFlight \cup {"cancelled", "failed"}

\* When the reader task has ended, no caller that was waiting then is left with
\* a future nobody will ever complete, but for the one whose own answer ended it:
\* only that one and later requests have to time out.
ReaderLeavesNoWaiter ==
  reader = "done" =>
    \A r \in Ids : call[r] \in InFlight /\ fut[r] = "waiting" => r > endMark \/ r = broke

\* The end of the reader task cancels all outstanding futures, as the comment at
\* its finally clause says.  The code leaves out the one it had just popped.
OutstandingIsCancelled ==
  reader = "done" =>
    \A r \in Ids : call[r] \in InFlight /\ fut[r] = "waiting" => r > endMark

\* Tasks, process and connection are released.
Released ==
  /\ reader # "reading"
  /\ stderrTask # "running"
  /\ transport = "stdio" => server # "up"
  /\ transport = "tcp" => writer # "open"

\* A client whose shutdown() or failed start() has cleaned up holds nothing.
CleanedUpIsReleased == life \in {"closed", "failed"} => Released

\* start() that fails and shutdown() release what they hold, however they end:
\* a clean-up is not left half done by a cancellation that reaches it.
ReleasedHoweverItEnds ==
  life \in {"failed", "startAborted", "closed", "exitAborted"} => Released

\* Server-initiated requests are discarded: none ends a call of ours.  This does
\* not hold when their ids may be ours; no configuration lists it.
ServerRequestsDiscarded == stray = {}

\* Every call ends, whatever the server does.
EveryCallEnds == \A r \in Ids : call[r] = "draining" ~> call[r] \in Ended

===============================================================================
