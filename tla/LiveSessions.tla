----------------------------- MODULE LiveSessions -----------------------------
(***************************************************************************)
(* The sessions of intentumdiff.live_server.LiveServer: the accept loops   *)
(* of its two transports, a Unix socket and a Windows named pipe, and      *)
(* their limit on clients, the thread of each client (read, take a line,   *)
(* answer it), reviews, and stop().  Diff requests are handed to the       *)
(* debounce of LiveDebounce, which answers them from timer threads or      *)
(* gives them up; the threads of a connection write to it without a lock,  *)
(* so a message goes out in two steps, its beginning and its end.          *)
(***************************************************************************)
EXTENDS Naturals, Sequences, FiniteSets

CONSTANTS MaxConns,    \* bound: connections editors open
          MaxClients,  \* _MAX_CLIENTS
          MaxLines,    \* bound: request lines sent
          MaxPipeLines, \* bound: those sent over pipes
          MaxSeq,      \* bound: sequence numbers in reviews and cancels
          MaxFiles,    \* bound: files of a streamed review
          Ops          \* the kinds of lines in use

AllOps == {"ask", "diff", "review", "cancel", "overlong", "flood"}

ASSUME LiveSessionsAssumption ==
  /\ MaxConns \in Nat /\ MaxClients \in Nat /\ MaxLines \in Nat /\ MaxPipeLines \in Nat /\ MaxSeq \in Nat
  /\ MaxFiles \in Nat
  /\ Ops \subseteq AllOps

Conns == 1..MaxConns   \* a connection is named by its order of arrival

\* A request line.  ask: whatever is answered at once (hello, asset_diff, an
\* unknown op, a malformed line).  overlong: a complete line over the limit.
\* flood: so many bytes without a newline that the client is dropped.  seq is 0
\* in a line that needs none.
Lines == 1..MaxLines
Line == [conn: Conns, op: AllOps, seq: 0..MaxSeq]

\* Where a line stands.
\*   sent, buffered       in the socket, in buf
\*   debounced            a diff request with the debounce
\*   reviewing, checking  a review: computing, before the stale check
\*   replying, halfway    has a message to send, has sent its beginning
\* and, at rest: done, shed (given up by the debounce), silent (a review found
\* stale), lost (discarded unread, or its answer not deliverable).
InThread == {"reviewing", "checking"}
Writing == {"replying", "halfway"}
AtRest == {"done", "shed", "silent", "lost"}
Places == {"none", "sent", "buffered", "debounced"} \cup InThread \cup Writing \cup AtRest

VARIABLES
  transport,  \* "socket", or "pipe" on Windows
  stopped,    \* stop() has set _stop_event and closed the listener
  acceptor,   \* where the accept thread stands
  conn,       \* Conns -> where the connection stands
  count,      \* self._client_count
  lines,      \* the lines sent so far
  at,         \* Lines -> Places
  what,       \* Lines -> the message at hand: "answer", "file", "error"
  left,       \* files a streamed review has still to produce
  latestReview, \* self._latest_review_seq
  taken,      \* history: lines a client thread has taken up
  late        \* history: messages a review sent after it became stale, errors apart

sessionVars ==
  <<transport, stopped, acceptor, conn, count, lines, at, what, left, latestReview, taken, late>>

serverVars == <<transport, stopped, acceptor, count>>
reviewVars == <<what, left, latestReview, taken, late>>

\* "waiting": the pipe is there, and a client that opens it is let in.
\* "starting": a client has been counted, its thread is about to start.
AcceptorStates == {"off", "accepting", "waiting", "starting", "ended"}

Held == {"admitted", "serving", "closing"}
ConnStates == {"none", "rejected", "closed"} \cup Held

ConnOf(l) == lines[l].conn
OfConn(c) == {l \in DOMAIN lines : ConnOf(l) = c}
Is(l, places) == l \in DOMAIN lines /\ at[l] \in places

\* The client thread of c is busy with a line, or has more in its buffer.
Busy(c) ==
  \E l \in OfConn(c) :
    at[l] \in {"buffered"} \cup InThread \/ (at[l] \in Writing /\ lines[l].op # "diff")

Superseded(l) == lines[l].op = "review" /\ lines[l].seq < latestReview

SessionsInit ==
  /\ transport \in {"socket", "pipe"}
  /\ stopped = FALSE
  /\ acceptor = "off"
  /\ conn = [c \in Conns |-> "none"]
  /\ count = 0
  /\ lines = <<>>
  /\ at = [l \in Lines |-> "none"]
  /\ what = [l \in Lines |-> "answer"]
  /\ left = [l \in Lines |-> 0]
  /\ latestReview = 0
  /\ taken = {}
  /\ late = [l \in Lines |-> 0]

-------------------------------------------------------------------------------
(* Editors *)

\* An editor numbers its reviews and cancels upwards; a cancel names a number
\* of its own.
SeqsFor(c, op) ==
  LET used == {0} \cup {lines[l].seq : l \in OfConn(c)} IN
  CASE op = "review" -> {s \in 1..MaxSeq : \A u \in used : u < s}
    [] op = "cancel" -> used \ {0}
    [] OTHER -> {0}

\* (What an editor sends before its thread runs is read by it just the same.)
SendLine(c, op) ==
  /\ Len(lines) < MaxLines
  /\ transport = "pipe" => Len(lines) < MaxPipeLines
  /\ conn[c] = "serving"
  /\ \E s \in SeqsFor(c, op) : lines' = Append(lines, [conn |-> c, op |-> op, seq |-> s])
  /\ at' = [at EXCEPT ![Len(lines) + 1] = "sent"]
  /\ UNCHANGED <<serverVars, conn, reviewVars>>

-------------------------------------------------------------------------------
(* The accept thread and stop() *)

\* start_socket: the accept thread is started.
StartServer ==
  /\ acceptor = "off"
  /\ acceptor' = "accepting"
  /\ UNCHANGED <<transport, stopped, conn, count, lines, at, reviewVars>>

\* _named_pipe_accept_loop: another instance of the pipe, if the server has not
\* been stopped; an instance that cannot be made ends the thread.  (A stop() between
\* the two is one that finds the instance just made.)
CreatePipe ==
  /\ transport = "pipe" /\ acceptor = "accepting" /\ ~stopped
  /\ acceptor' \in {"waiting", "ended"}
  /\ UNCHANGED <<transport, stopped, conn, count, lines, at, reviewVars>>

\* (Operators named Bad... are mistaken variants of the operator that follows
\* them; README.md names the property each of them breaks.)

\* The next editor to connect.
Listening == acceptor = IF transport = "socket" THEN "accepting" ELSE "waiting"
Connects(c) ==
  /\ Listening /\ ~stopped
  /\ conn[c] = "none"
  /\ \A d \in 1..(c - 1) : conn[d] # "none"

\* An accept that counts the client it turns away.
BadAccept(c) ==
  /\ Connects(c)
  /\ count' = count + 1
  /\ IF count >= MaxClients
     THEN /\ conn' = [conn EXCEPT ![c] = "rejected"]
          /\ acceptor' = "accepting"
     ELSE /\ conn' = [conn EXCEPT ![c] = "admitted"]
          /\ acceptor' = "starting"
  /\ UNCHANGED <<transport, stopped, lines, at, reviewVars>>

\* An editor has connected; under the lock, it is turned away or counted in.
Accept(c) ==
  /\ Connects(c)
  /\ IF count >= MaxClients
     THEN /\ conn' = [conn EXCEPT ![c] = "rejected"]
          /\ acceptor' = "accepting"
          /\ UNCHANGED count
     ELSE /\ conn' = [conn EXCEPT ![c] = "admitted"]
          /\ acceptor' = "starting"
          /\ count' = count + 1
  /\ UNCHANGED <<transport, stopped, lines, at, reviewVars>>

\* The client's thread is started, after the lock.
StartThread(c) ==
  /\ acceptor = "starting"
  /\ conn[c] = "admitted"
  /\ conn' = [conn EXCEPT ![c] = "serving"]
  /\ acceptor' = "accepting"
  /\ UNCHANGED <<transport, stopped, count, lines, at, reviewVars>>

\* The loop's condition, or the error of a closed socket.
AcceptorEnds ==
  /\ acceptor = "accepting"
  /\ stopped
  /\ acceptor' = "ended"
  /\ UNCHANGED <<transport, stopped, conn, count, lines, at, reviewVars>>

\* stop(): the event is set and the listening socket closed.
Stop ==
  /\ ~stopped
  /\ stopped' = TRUE
  /\ UNCHANGED <<transport, acceptor, conn, count, lines, at, reviewVars>>

\* A thread that waits for a client of the pipe does not see the event: stop()
\* opens the pipe itself, again and again while the thread lives.  (It does so
\* for ten seconds, which are taken to be enough for an instance to appear.)
Nudge ==
  /\ stopped /\ transport = "pipe" /\ acceptor = "waiting"
  /\ acceptor' = "ended"
  /\ UNCHANGED <<transport, stopped, conn, count, lines, at, reviewVars>>

-------------------------------------------------------------------------------
(* The thread of a client: _handle_client *)

UnreadOf(c) == {l \in OfConn(c) : at[l] = "sent"}

\* recv: some of what has been sent, in order.  (A thread that was waiting in
\* recv when the server stopped still gets what arrives.)
Recv(c) ==
  /\ conn[c] = "serving"
  /\ ~Busy(c)
  /\ \E last \in UnreadOf(c) :
       at' = [l \in Lines |-> IF l \in UnreadOf(c) /\ l <= last THEN "buffered" ELSE at[l]]
  /\ UNCHANGED <<serverVars, conn, lines, reviewVars>>

\* The connection is closed; what was not read is lost.
Close(c) ==
  /\ conn' = [conn EXCEPT ![c] = "closing"]
  /\ at' = [l \in Lines |-> IF l \in UnreadOf(c) THEN "lost" ELSE at[l]]

\* A session that goes on reading when there is nothing to read.
BadEndSession(c) ==
  /\ conn[c] = "serving"
  /\ ~Busy(c)
  /\ stopped
  /\ Close(c)
  /\ UNCHANGED <<serverVars, lines, reviewVars>>

\* The loop ends: the server stops; or there is nothing to read, because the
\* editor has hung up or has been silent for the idle timeout.
EndSession(c) ==
  /\ conn[c] = "serving"
  /\ ~Busy(c)
  /\ stopped \/ UnreadOf(c) = {}
  /\ Close(c)
  /\ UNCHANGED <<serverVars, lines, reviewVars>>

\* The finally clause.
ReleaseSlot(c) ==
  /\ conn[c] = "closing"
  /\ conn' = [conn EXCEPT ![c] = "closed"]
  /\ count' = IF count > 0 THEN count - 1 ELSE 0
  /\ UNCHANGED <<transport, stopped, acceptor, lines, at, reviewVars>>

\* Line l is the next of the buffer of c, and its thread is free to take it.
NextLine(c, l) ==
  /\ Is(l, {"buffered"})
  /\ ConnOf(l) = c
  /\ \A k \in OfConn(c) :
       /\ k < l => at[k] # "buffered"
       /\ ~(at[k] \in InThread)
       /\ at[k] \in Writing => lines[k].op = "diff"

Raise(n) == IF n > latestReview THEN n ELSE latestReview

\* _handle_client refuses what it cannot take for a request.  A line that is too
\* long takes the rest of the buffer with it.
TakeRefused(c, l) ==
  /\ NextLine(c, l)
  /\ lines[l].op \in {"overlong", "flood"}
  /\ at' = [k \in Lines |->
       IF k = l THEN "replying"
       ELSE IF lines[l].op = "overlong" /\ Is(k, {"buffered"}) /\ ConnOf(k) = c
            THEN "lost" ELSE at[k]]
  /\ what' = [what EXCEPT ![l] = "error"]
  /\ taken' = taken \cup {l}
  /\ UNCHANGED <<serverVars, conn, lines, left, latestReview, late>>

\* _cancel_request without a path, its effect on reviews.
AfterControl(l) ==
  IF lines[l].op = "cancel" THEN Raise(lines[l].seq + 1) ELSE latestReview

\* _handle_control_request: what is answered at once, by a result or an error.
TakeControl(c, l) ==
  /\ NextLine(c, l)
  /\ lines[l].op \in {"ask", "cancel"}
  /\ latestReview' = AfterControl(l)
  /\ at' = [at EXCEPT ![l] = "replying"]
  /\ taken' = taken \cup {l}
  /\ UNCHANGED <<serverVars, conn, lines, what, left, late>>

\* _schedule_request: the debounce has it.
TakeDiff(c, l) ==
  /\ NextLine(c, l)
  /\ lines[l].op = "diff"
  /\ at' = [at EXCEPT ![l] = "debounced"]
  /\ taken' = taken \cup {l}
  /\ UNCHANGED <<serverVars, conn, lines, what, left, latestReview, late>>

\* A review whose own number makes it stale.
BadTakeReview(c, l) ==
  /\ NextLine(c, l)
  /\ lines[l].op = "review"
  /\ latestReview' = Raise(lines[l].seq + 1)
  /\ \E n \in 0..MaxFiles : left' = [left EXCEPT ![l] = n]
  /\ at' = [at EXCEPT ![l] = "reviewing"]
  /\ taken' = taken \cup {l}
  /\ UNCHANGED <<serverVars, conn, lines, what, late>>

\* _process_review_request: the review becomes the latest, if its number is the
\* largest, and starts in the client's thread.  One that is not streamed has no
\* files to send.
TakeReview(c, l) ==
  /\ NextLine(c, l)
  /\ lines[l].op = "review"
  /\ latestReview' = Raise(lines[l].seq)
  /\ \E n \in 0..MaxFiles : left' = [left EXCEPT ![l] = n]
  /\ at' = [at EXCEPT ![l] = "reviewing"]
  /\ taken' = taken \cup {l}
  /\ UNCHANGED <<serverVars, conn, lines, what, late>>

-------------------------------------------------------------------------------
(* Reviews and debounced diffs *)

LineQuiet == UNCHANGED <<serverVars, conn, lines, latestReview, taken>>

\* The next file, or the whole commit, has been computed; or the review failed
\* or was declined, and an error is sent without a stale check.
Review(l) ==
  /\ Is(l, {"reviewing"})
  /\ \/ /\ at' = [at EXCEPT ![l] = "checking"]
        /\ UNCHANGED what
     \/ /\ at' = [at EXCEPT ![l] = "replying"]
        /\ what' = [what EXCEPT ![l] = "error"]
  /\ LineQuiet
  /\ UNCHANGED <<left, late>>

\* A check before each file, and none before the final response.
BadCheckReview(l) ==
  /\ Is(l, {"checking"})
  /\ IF Superseded(l) /\ left[l] > 0
     THEN at' = [at EXCEPT ![l] = "silent"] /\ UNCHANGED <<what, left>>
     ELSE /\ at' = [at EXCEPT ![l] = "replying"]
          /\ what' = [what EXCEPT ![l] = IF left[l] > 0 THEN "file" ELSE "answer"]
          /\ left' = [left EXCEPT ![l] = IF @ > 0 THEN @ - 1 ELSE 0]
  /\ LineQuiet
  /\ UNCHANGED late

\* The stale check: before each file, and before the final response.  A file
\* that could not be diffed is not sent.
CheckReview(l) ==
  /\ Is(l, {"checking"})
  /\ \/ /\ Superseded(l)
        /\ at' = [at EXCEPT ![l] = "silent"]
        /\ UNCHANGED <<what, left>>
     \/ /\ ~Superseded(l)
        /\ left[l] > 0
        /\ left' = [left EXCEPT ![l] = @ - 1]
        /\ \/ /\ at' = [at EXCEPT ![l] = "replying"]
              /\ what' = [what EXCEPT ![l] = "file"]
           \/ /\ at' = [at EXCEPT ![l] = "reviewing"]
              /\ UNCHANGED what
     \/ /\ ~Superseded(l)
        /\ left[l] = 0
        /\ at' = [at EXCEPT ![l] = "replying"]
        /\ what' = [what EXCEPT ![l] = "answer"]
        /\ UNCHANGED left
  /\ LineQuiet
  /\ UNCHANGED late

\* The debounce answers a diff request, or gives it up (LiveDebounce).
SettleDiff(l) ==
  /\ Is(l, {"debounced"})
  /\ \E end \in {"replying", "shed"} : at' = [at EXCEPT ![l] = end]
  /\ LineQuiet
  /\ UNCHANGED <<what, left, late>>

\* _write_line_bytes: sendall has written a part.  On a connection that has been
\* closed it fails, and the error is ignored.
BeginSend(l) ==
  /\ Is(l, {"replying"})
  /\ IF conn[ConnOf(l)] = "serving"
     THEN /\ at' = [at EXCEPT ![l] = "halfway"]
          /\ late' = [late EXCEPT ![l] =
               IF Superseded(l) /\ what[l] # "error" THEN @ + 1 ELSE @]
     ELSE /\ at' = [at EXCEPT ![l] = "lost"]
          /\ UNCHANGED late
  /\ LineQuiet
  /\ UNCHANGED <<what, left>>

\* sendall has written the rest.  After a file the review goes on; after a flood
\* the session ends.
EndSend(l) ==
  /\ Is(l, {"halfway"})
  /\ \/ /\ conn[ConnOf(l)] # "serving"
        /\ at' = [at EXCEPT ![l] = "lost"]
        /\ UNCHANGED conn
     \/ /\ conn[ConnOf(l)] = "serving"
        /\ lines[l].op # "flood"
        /\ at' = [at EXCEPT ![l] = IF what[l] = "file" THEN "reviewing" ELSE "done"]
        /\ UNCHANGED conn
     \/ /\ conn[ConnOf(l)] = "serving"
        /\ lines[l].op = "flood"
        /\ conn' = [conn EXCEPT ![ConnOf(l)] = "closing"]
        /\ at' = [k \in Lines |->
             IF k = l THEN "done"
             ELSE IF Is(k, {"sent", "buffered"}) /\ ConnOf(k) = ConnOf(l) THEN "lost"
             ELSE at[k]]
  /\ what' = [what EXCEPT ![l] = "answer"]
  /\ UNCHANGED <<serverVars, lines, left, latestReview, taken, late>>

Takes(c) ==
  \E l \in Lines : \/ TakeRefused(c, l) \/ TakeControl(c, l)
                  \/ TakeDiff(c, l) \/ TakeReview(c, l)

ClientThread(c) == Recv(c) \/ EndSession(c) \/ ReleaseSlot(c) \/ Takes(c)

Work(l) ==
  Review(l) \/ CheckReview(l) \/ SettleDiff(l) \/ BeginSend(l) \/ EndSend(l)

SessionsNext ==
  \/ \E c \in Conns : \/ Accept(c) \/ StartThread(c)
                      \/ \E op \in Ops : SendLine(c, op)
                      \/ ClientThread(c)
  \/ StartServer \/ CreatePipe \/ Stop \/ AcceptorEnds \/ Nudge
  \/ \E l \in Lines : Work(l)

SessionsSpec == SessionsInit /\ [][SessionsNext]_sessionVars

\* A socket times out, a pipe does not (_NamedPipeConn.settimeout): there, a
\* session surely ends only after stop().
Expires(c) == (transport = "socket" \/ stopped) /\ EndSession(c)

\* Started threads keep being scheduled; an editor need not send anything, hang
\* up, or read what it is sent, except that a socket times out; and nobody has
\* to stop the server.
Goes(l) ==
  \/ Review(l) \/ CheckReview(l) \/ SettleDiff(l) \/ BeginSend(l)
  \/ transport = "socket" /\ EndSend(l)
Thread(c) == StartThread(c) \/ Recv(c) \/ Takes(c) \/ Expires(c) \/ ReleaseSlot(c)
FairSessionsSpec ==
  /\ SessionsSpec
  /\ WF_sessionVars(CreatePipe \/ AcceptorEnds \/ Nudge)
  /\ \A c \in Conns : WF_sessionVars(Thread(c))
  /\ \A l \in Lines : WF_sessionVars(Goes(l))

-------------------------------------------------------------------------------
(* Properties *)

\* Type correctness.
SessionsTypeOK ==
  /\ stopped \in BOOLEAN
  /\ transport \in {"socket", "pipe"} /\ acceptor \in AcceptorStates
  /\ acceptor = "starting" <=> \E c \in Conns : conn[c] = "admitted"
  /\ conn \in [Conns -> ConnStates]
  /\ count \in Nat
  /\ lines \in Seq(Line) /\ Len(lines) <= MaxLines
  /\ at \in [Lines -> Places]
  /\ \A l \in Lines : at[l] = "none" <=> l \notin DOMAIN lines
  /\ what \in [Lines -> {"answer", "file", "error"}]
  /\ left \in [Lines -> 0..MaxFiles]
  /\ latestReview \in 0..(MaxSeq + 1)
  /\ taken \subseteq DOMAIN lines
  /\ late \in [Lines -> Nat]

\* The count is the number of connections that hold a slot, from their admission
\* to the end of their thread, and never more than the limit: no slot leaks and
\* none is freed twice (_accept_loop, _handle_client).
SlotsAreHeld ==
  /\ count = Cardinality({c \in Conns : conn[c] \in Held})
  /\ count <= MaxClients

\* Once a newer review or a cancel has made a review stale, at most one more of
\* its results goes out: the check before each message catches the next one.
AtMostOneLateResult == \A l \in Lines : late[l] <= 1

\* A review ends without any answer only because of a line that another
\* connection sent: a newer review or a cancel that covers it.  (A cancel on the
\* connection of the review is read when the review is over.)
OnlyOthersSilenceReviews ==
  \A l \in DOMAIN lines : at[l] = "silent" =>
    \E k \in taken :
      /\ ConnOf(k) # ConnOf(l)
      /\ \/ lines[k].op = "review" /\ lines[k].seq > lines[l].seq
         \/ lines[k].op = "cancel" /\ lines[k].seq >= lines[l].seq

\* Every response is a line of its own: no message begins inside another.  This
\* does not hold, as nothing serializes the threads that write to a connection
\* (_write_line_bytes); no configuration lists it.
LinesAreWhole ==
  \A c \in Conns : Cardinality({l \in OfConn(c) : at[l] = "halfway"}) <= 1

\* Over a socket the slots come back, all of them (as editors open no more than
\* MaxConns connections), even from clients that fall silent without hanging up;
\* and over either transport the accept thread of a server that is stopped ends,
\* wherever it was.
SlotIsFreed ==
  /\ transport = "socket" ~> count = 0
  /\ stopped /\ acceptor # "off" ~> acceptor = "ended"

===============================================================================
