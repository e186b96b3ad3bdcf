-------------------------- MODULE LspEnrichmentProofs --------------------------
(* Theorems about the client side of the language server protocol: LspClient, one
   connection, and LspIndexer, the command that opens and lets go of them.  They
   hold for any number of calls and any ids the server gives its own requests; and
   for any files, languages, hovers, slots and CancelledErrors.

   Of a connection: what is registered waits, and what waits is registered as long
   as the reader task runs (AwaitedIsRegistered), so that the reader's last act
   reaches every caller that waits for an answer, but for one that _read_loop has
   deregistered in the same stretch of code.

   Of the command: what is held is held by a client, by the launcher of a connected
   language, by the language that is being connected, or is stranded (HeldIsKnown);
   once the command is over, only what is stranded is left (HeldByPhase); and a file
   goes from step to step together with its hovers (HoversFollow). *)
EXTENDS LspClient, LspIndexer, SequenceTheorems, TLAPS

\* Nothing has happened to a client before start().
IdleIsFresh ==
  life = "idle" => /\ calls = 0 /\ reader = "none" /\ stderrTask = "none"
                   /\ writer = "none" /\ server = "absent"

NoReaderYet == reader = "none" => life \in {"idle", "failed"}

AwaitedIsRegistered ==
  reader = "reading" =>
    \A r \in Ids : call[r] \in InFlight /\ fut[r] = "waiting" => r \in pending

Inv ==
  /\ TypeOK /\ IdleIsFresh /\ NoReaderYet
  /\ AwaitedIsRegistered /\ RegisteredIsAwaited /\ ReaderLeavesNoWaiter /\ CleanedUpIsReleased

Calls == [Ids -> {"none"} \cup InFlight \cup Ended]
Futures == [Ids -> {"none", "waiting", "result", "error", "cancelled"}]

-------------------------------------------------------------------------------
(* What the parts of the steps do *)

LEMMA CallFacts ==
  ASSUME TypeOK
  PROVE  /\ MaxCalls \in Nat \ {0} /\ calls \in Nat /\ Handshake \in Ids
         /\ pending \subseteq Ids /\ 1..calls \subseteq Ids /\ 0 \notin Ids
         /\ \A r \in Ids : /\ r \in Nat
                           /\ call[r] # "none" => r \in 1..calls
                           /\ fut[r] # "none" => r \in 1..calls
                           /\ r \in 1..calls => call[r] # "none" /\ fut[r] # "none"
  BY LspClientAssumption DEF TypeOK, Ids, Handshake

\* Sending a request names it by the next number.
LEMMA SendIs ==
  ASSUME TypeOK, SendRequest
  PROVE  \E n \in Ids :
           /\ n = calls + 1 /\ calls' = n /\ n \notin 1..calls /\ 1..calls' = 1..calls \cup {n}
           /\ call' \in Calls /\ fut' \in Futures
           /\ pending' = pending \cup {n} /\ owed' = owed \cup {n}
           /\ call[n] = "none" /\ call'[n] = "draining" /\ fut'[n] = "waiting"
           /\ \A r \in Ids : r # n => call'[r] = call[r] /\ fut'[r] = fut[r]
<1>1. PICK n \in Ids : n = calls + 1 /\ calls' = n
  BY DEF SendRequest
<1>2. /\ n \notin 1..calls /\ 1..calls' = 1..calls \cup {n}
  BY <1>1, CallFacts
<1> QED
  BY <1>1, <1>2, CallFacts DEF SendRequest, TypeOK, Calls, Futures, InFlight

LEMMA SendType ==
  ASSUME TypeOK, SendRequest
  PROVE  /\ calls' \in 0..MaxCalls /\ call' \in Calls /\ fut' \in Futures
         /\ \A r \in Ids : (call'[r] = "none" <=> r > calls') /\ (fut'[r] = "none" <=> r > calls')
         /\ pending' \subseteq 1..calls' /\ owed' \subseteq 1..calls'
         /\ 1..calls \subseteq 1..calls' /\ 0..calls \subseteq 0..calls' /\ calls' \in 0..calls'
<1>1. PICK n \in Ids :
           /\ n = calls + 1 /\ calls' = n /\ 1..calls' = 1..calls \cup {n}
           /\ call' \in Calls /\ fut' \in Futures
           /\ pending' = pending \cup {n} /\ owed' = owed \cup {n}
           /\ call[n] = "none" /\ call'[n] = "draining" /\ fut'[n] = "waiting"
           /\ \A r \in Ids : r # n => call'[r] = call[r] /\ fut'[r] = fut[r]
  BY SendIs
<1>2. n \in Nat /\ n <= MaxCalls /\ calls \in Nat
  BY <1>1, CallFacts DEF Ids
<1>3. \A r \in Ids : (r > n <=> r > calls /\ r # n)
  BY <1>1, <1>2, CallFacts
<1>4. \A r \in Ids : (call'[r] = "none" <=> r > calls') /\ (fut'[r] = "none" <=> r > calls')
  BY <1>1, <1>3 DEF TypeOK
<1> QED
  BY <1>1, <1>2, <1>4 DEF TypeOK

LEMMA InboxFacts ==
  ASSUME inbox \in Seq(Message)
  PROVE  /\ \A m \in Message : /\ Append(inbox, m) \in Seq(Message)
                               /\ Len(Append(inbox, m)) = Len(inbox) + 1
                               /\ Append(inbox, m)[Len(inbox) + 1] = m
                               /\ \A i \in 1..Len(inbox) : Append(inbox, m)[i] = inbox[i]
         /\ inbox # <<>> =>
              /\ Head(inbox) \in Message /\ Head(inbox) = inbox[1] /\ Len(inbox) \in Nat \ {0}
              /\ Tail(inbox) \in Seq(Message) /\ Len(Tail(inbox)) = Len(inbox) - 1
              /\ \A i \in 1..Len(Tail(inbox)) : Tail(inbox)[i] = inbox[i + 1]
  BY AppendProperties, HeadTailProperties, EmptySeq

\* The reader's last act: it cancels what it is given, out of what is registered.
LEMMA ReaderExitIs ==
  ASSUME TypeOK, NEW outstanding, ReaderExit(outstanding)
  PROVE  /\ reader' = "done" /\ pending' = {} /\ endMark' = calls /\ fut' \in Futures
         /\ \A r \in Ids : fut'[r] = IF r \in outstanding /\ fut[r] = "waiting"
                                     THEN "cancelled" ELSE fut[r]
  BY DEF ReaderExit, TypeOK, Futures

\* An answer with an error that is no object ends the reader.
Breaks(m) == m.id \in pending /\ fut[m.id] = "waiting" /\ m.kind = "malformed"

\* The next message ends at most the call it names, or the reader.
LEMMA ReadIs ==
  ASSUME TypeOK, Read
  PROVE  \E m \in Message :
           /\ m = Head(inbox)
           /\ \/ /\ Breaks(m) /\ ReaderExit(pending \ {m.id})
                 /\ broke' = m.id /\ stray' = stray
              \/ /\ pending' = pending \ {m.id} /\ fut' \in Futures
                 /\ \A r \in Ids : \/ fut'[r] = fut[r]
                                   \/ r = m.id /\ r \in pending /\ fut[r] = "waiting"
                                      /\ fut'[r] \in {"error", "result"}
                 /\ m.id \in pending /\ fut[m.id] = "waiting" => fut'[m.id] # "waiting"
                 /\ \/ stray' = stray
                    \/ m.id \in pending /\ m.kind = "request" /\ stray' = stray \cup {m.id}
                 /\ UNCHANGED <<reader, endMark, broke>>
<1>1. PICK m \in Message : m = Head(inbox) /\ inbox # <<>>
  BY InboxFacts DEF Read, TypeOK
<1>2. CASE Breaks(m)
  BY <1>1, <1>2 DEF Read, Breaks
<1>3. CASE m.id \in pending /\ fut[m.id] = "waiting" /\ m.kind # "malformed"
  <2>1. PICK end \in {"error", "result"} : fut' = [fut EXCEPT ![m.id] = end]
    BY <1>1, <1>3 DEF Read
  <2>2. m.id \in Ids
    BY <1>3, CallFacts
  <2> QED
    BY <1>1, <1>3, <2>1, <2>2 DEF Read, TypeOK, Futures
<1>4. CASE ~(m.id \in pending /\ fut[m.id] = "waiting")
  BY <1>1, <1>4 DEF Read, TypeOK, Futures
<1> QED
  BY <1>2, <1>3, <1>4 DEF Breaks

-------------------------------------------------------------------------------
(* Types *)

LEMMA InitType == Init => TypeOK
<1> SUFFICES ASSUME Init PROVE TypeOK
  OBVIOUS
<1>1. calls = 0 /\ \A r \in Ids : r > calls /\ call[r] = "none" /\ fut[r] = "none"
  BY LspClientAssumption DEF Init, Ids
<1>2. 0 \in 0..MaxCalls /\ 0 \in 0..MaxServer /\ 0 \in 0..0 /\ inbox \in Seq(Message)
  BY LspClientAssumption DEF Init
<1>3. call \in Calls /\ fut \in Futures
  BY DEF Init, Calls, Futures
<1> QED
  BY <1>1, <1>2, <1>3 DEF Init, TypeOK, Lives, Calls, Futures

\* The steps of the callers move one call, and deregister at most that one.
LEMMA CallerIs ==
  ASSUME TypeOK, NEW r \in Ids, Caller(r) \/ CancelCaller(r)
  PROVE  /\ call[r] \in InFlight
         /\ \E to \in {"waiting"} \cup Ended : call' = [call EXCEPT ![r] = to]
         /\ pending' = pending \ {r} \/ pending' = pending
         /\ call'[r] \in {"returned", "timedout"} /\ fut[r] = "waiting" => pending' = pending \ {r}
         /\ call'[r] = "waiting" => pending' = pending
         /\ UNCHANGED <<ownerVars, taskVars, calls, fut, owed>>
<1>1. CASE Drained(r)
  BY <1>1 DEF Drained, InFlight, Ended, TypeOK
<1>2. CASE Resume(r)
  <2>1. fut[r] \in {"result", "error", "cancelled"}
    BY <1>2, CallFacts DEF Resume, TypeOK
  <2> QED
    BY <1>2, <2>1 DEF Resume, InFlight, Ended, TypeOK
<1>3. CASE Timeout(r)
  BY <1>3 DEF Timeout, InFlight, Ended, TypeOK
<1>4. CASE CancelCaller(r)
  BY <1>4 DEF CancelCaller, InFlight, Ended, TypeOK
<1> QED
  BY <1>1, <1>2, <1>3, <1>4 DEF Caller

\* The steps of the server change only what is on its way to the reader.
LEMMA ServerIs ==
  ASSUME TypeOK,
         \/ \E r \in Ids : Respond(r)
         \/ \E i \in ServerIds : Ask(i)
         \/ GoAway
  PROVE  /\ ServerQuiet /\ owed' \subseteq owed /\ asked' \in 0..MaxServer
         /\ server = "up" /\ server' \in {"up", "down"}
         /\ \/ inbox' = inbox
            \/ \E m \in Message : /\ inbox' = Append(inbox, m)
                                  /\ m.kind = "request" => m.id \in ServerIds
<1>1. ASSUME NEW r \in Ids, Respond(r)
      PROVE  \E m \in Message : inbox' = Append(inbox, m) /\ m.kind # "request"
  <2>1. PICK kind \in {"result", "error", "malformed"} : inbox' = Append(inbox, [id |-> r, kind |-> kind])
    BY <1>1 DEF Respond
  <2> QED
    BY <2>1 DEF Message
<1>2. ASSUME NEW i \in ServerIds, Ask(i)
      PROVE  \E m \in Message : inbox' = Append(inbox, m) /\ m.id \in ServerIds
  BY <1>2 DEF Ask, Message
<1>3. ASSUME NEW i \in ServerIds, Ask(i)
      PROVE  asked' \in 0..MaxServer
  BY <1>3, LspClientAssumption DEF Ask, TypeOK
<1> QED
  BY <1>1, <1>2, <1>3 DEF Respond, Ask, GoAway, TypeOK

\* The steps that release what the client holds.
LEMMA CleanUpStartIs ==
  ASSUME TypeOK, CleanUpStart
  PROVE  /\ UNCHANGED <<transport, started, exitCall, calls, call, owed, inbox, asked, stray, broke>>
         /\ life' \in {"startAborted", "failed"}
         /\ \/ UNCHANGED <<reader, fut, pending, endMark>>
            \/ reader = "reading" /\ ReaderExit(pending)
         /\ stderrTask' \in {stderrTask, "done"}
         /\ writer' \in {writer, "closed"} /\ server' \in {server, "down"}
         /\ life' = "failed" => Released'
<1>1. \/ UNCHANGED <<reader, fut, pending, endMark>>
      \/ reader = "reading" /\ ReaderExit(pending)
  BY DEF CleanUpStart, CancelReader
<1> QED
  BY <1>1 DEF CleanUpStart, CancelReader, Released, ReaderExit

LEMMA FinishShutdownIs ==
  ASSUME TypeOK, FinishShutdown
  PROVE  /\ UNCHANGED <<transport, exitCall, calls, call, owed, inbox, asked, stray, broke>>
         /\ life = "leaving" /\ life' \in {"closed", "exitAborted"} /\ started' \in BOOLEAN
         /\ \/ UNCHANGED <<reader, fut, pending, endMark>>
            \/ reader = "reading" /\ ReaderExit(pending)
         /\ stderrTask' \in {stderrTask, "done"}
         /\ writer' \in {writer, "closed"} /\ server' \in {server, "down"}
         /\ life' = "closed" => Released'
<1>1. \/ UNCHANGED <<reader, fut, pending, endMark>>
      \/ reader = "reading" /\ ReaderExit(pending)
  BY DEF FinishShutdown, CancelReader
<1> QED
  BY <1>1 DEF FinishShutdown, CancelReader, Released, ReaderExit, TypeOK

LEMMA ExitType ==
  ASSUME TypeOK, NEW outstanding, ReaderExit(outstanding)
  PROVE  /\ reader' \in {"none", "reading", "done"} /\ fut' \in Futures
         /\ \A r \in Ids : fut'[r] = "none" <=> fut[r] = "none"
         /\ pending' \subseteq 1..calls /\ endMark' \in 0..calls
<1>1. \A r \in Ids : fut'[r] = IF r \in outstanding /\ fut[r] = "waiting" THEN "cancelled" ELSE fut[r]
  BY ReaderExitIs
<1> QED
  BY <1>1, ReaderExitIs, CallFacts

LEMMA StepType == TypeOK /\ [Next]_vars => TypeOK'
<1> SUFFICES ASSUME TypeOK, [Next]_vars PROVE TypeOK'
  OBVIOUS
<1> USE DEF Calls, Futures
<1>1. CASE Hover
  BY <1>1, SendType DEF Hover, TypeOK, ownerVars, taskVars
<1>2. ASSUME NEW r \in Ids, Caller(r) \/ CancelCaller(r)
      PROVE  TypeOK'
  <2>1. PICK to \in {"waiting"} \cup Ended : call' = [call EXCEPT ![r] = to]
    BY <1>2, CallerIs
  <2>2. /\ call[r] \in InFlight /\ pending' \subseteq pending
        /\ UNCHANGED <<ownerVars, taskVars, calls, fut, owed>>
    BY <1>2, CallerIs
  <2>3. call' \in Calls /\ \A q \in Ids : call'[q] = "none" <=> call[q] = "none"
    BY <2>1, <2>2 DEF TypeOK, InFlight, Ended
  <2> QED
    BY <2>2, <2>3 DEF TypeOK, ownerVars, taskVars
<1>3. CASE \/ \E r \in Ids : Respond(r)
           \/ \E i \in ServerIds : Ask(i)
           \/ GoAway
  <2>1. inbox' \in Seq(Message)
    BY <1>3, ServerIs, InboxFacts DEF TypeOK
  <2> QED
    BY <1>3, <2>1, ServerIs DEF ServerQuiet, TypeOK, ownerVars
<1>4. CASE Read
  <2>1. PICK m \in Message :
           \/ Breaks(m) /\ ReaderExit(pending \ {m.id}) /\ broke' = m.id /\ stray' = stray
           \/ /\ pending' = pending \ {m.id} /\ fut' \in Futures
              /\ \A r \in Ids : fut'[r] = fut[r] \/ (fut[r] = "waiting" /\ fut'[r] \in {"error", "result"})
              /\ stray' = stray \/ (m.id \in pending /\ stray' = stray \cup {m.id})
              /\ UNCHANGED <<reader, endMark, broke>>
    BY <1>4, ReadIs
  <2>2. inbox' \in Seq(Message)
    BY <1>4, InboxFacts DEF Read, TypeOK
  <2>3. UNCHANGED <<ownerVars, calls, call, owed, stderrTask, writer, server, asked>>
    BY <1>4 DEF Read
  <2>4. CASE Breaks(m) /\ ReaderExit(pending \ {m.id}) /\ broke' = m.id /\ stray' = stray
    <3>1. broke' \in 0..calls
      <4>1. m.id \in 1..calls
        BY <2>4 DEF Breaks, TypeOK
      <4> QED
        BY <2>4, <4>1, CallFacts
    <3>2. /\ reader' \in {"none", "reading", "done"} /\ fut' \in Futures
          /\ \A r \in Ids : fut'[r] = "none" <=> fut[r] = "none"
          /\ pending' \subseteq 1..calls /\ endMark' \in 0..calls
      BY <2>4, ExitType
    <3> QED
      BY <2>2, <2>3, <2>4, <3>1, <3>2 DEF TypeOK, ownerVars
  <2>5. CASE /\ pending' = pending \ {m.id} /\ fut' \in Futures
             /\ \A r \in Ids : fut'[r] = fut[r] \/ (fut[r] = "waiting" /\ fut'[r] \in {"error", "result"})
             /\ stray' = stray \/ (m.id \in pending /\ stray' = stray \cup {m.id})
             /\ UNCHANGED <<reader, endMark, broke>>
    <3>1. \A r \in Ids : fut'[r] = "none" <=> fut[r] = "none"
      BY <2>5
    <3>2. pending' \subseteq 1..calls /\ stray' \subseteq 1..calls
      BY <2>5 DEF TypeOK
    <3> QED
      BY <2>2, <2>3, <2>5, <3>1, <3>2 DEF TypeOK, ownerVars
  <2> QED
    BY <2>1, <2>4, <2>5
<1>5. CASE StopReading
  BY <1>5, ExitType DEF StopReading, TypeOK, ownerVars
<1>6. CASE StderrEnds
  BY <1>6 DEF StderrEnds, TypeOK, ownerVars, callVars
<1>7. CASE Start
  <2>1. CASE SendRequest
    BY <1>7, <2>1, SendType DEF Start, TypeOK, Lives
  <2>2. CASE UNCHANGED <<callVars, server, writer, reader, stderrTask>>
    BY <1>7, <2>2 DEF Start, TypeOK, Lives, callVars
  <2> QED
    BY <1>7, <2>1, <2>2 DEF Start
<1>8. CASE FinishStart
  <2>1. CASE CleanUpStart
    <3>1. /\ UNCHANGED <<transport, started, exitCall, calls, call, owed, inbox, asked, stray, broke>>
          /\ life' \in Lives /\ stderrTask' \in {stderrTask, "done"}
          /\ writer' \in {writer, "closed"} /\ server' \in {server, "down"}
      BY <2>1, CleanUpStartIs DEF Lives
    <3>2. CASE ReaderExit(pending)
      BY <3>1, <3>2, ExitType DEF TypeOK
    <3>3. CASE UNCHANGED <<reader, fut, pending, endMark>>
      BY <3>1, <3>3 DEF TypeOK
    <3> QED
      BY <2>1, <3>2, <3>3, CleanUpStartIs
  <2>2. CASE life' = "up" /\ started' = TRUE /\ UNCHANGED <<transport, exitCall, callVars, taskVars>>
    BY <1>8, <2>2 DEF TypeOK, Lives, callVars, taskVars
  <2> QED
    BY <1>8, <2>1, <2>2 DEF FinishStart
<1>9. CASE Shutdown
  <2>1. exitCall' \in 0..calls' /\ life' \in Lives
    BY <1>9, CallFacts, SendType DEF Shutdown, SendRequest, Lives
  <2> QED
    BY <1>9, <2>1, SendType DEF Shutdown, TypeOK, taskVars
<1>10. CASE FinishShutdown
  BY <1>10, FinishShutdownIs, ExitType DEF TypeOK, Lives
<1>11. CASE UNCHANGED vars
  BY <1>11 DEF vars, TypeOK
<1> QED
  BY <1>1, <1>2, <1>3, <1>4, <1>5, <1>6, <1>7, <1>8, <1>9, <1>10, <1>11 DEF Next


-------------------------------------------------------------------------------
(* What a client is before start(), and without a reader *)

LEMMA FreshStep ==
  TypeOK /\ IdleIsFresh /\ NoReaderYet /\ [Next]_vars => IdleIsFresh' /\ NoReaderYet'
<1> SUFFICES ASSUME TypeOK, IdleIsFresh, NoReaderYet, [Next]_vars
             PROVE  IdleIsFresh' /\ NoReaderYet'
  OBVIOUS
<1> USE DEF IdleIsFresh, NoReaderYet
<1>1. CASE Hover \/ Shutdown
  BY <1>1 DEF Hover, Shutdown, ownerVars, taskVars
<1>2. ASSUME NEW r \in Ids, Caller(r) \/ CancelCaller(r)
      PROVE  IdleIsFresh' /\ NoReaderYet'
  BY <1>2, CallerIs DEF ownerVars, taskVars
<1>3. CASE \/ \E r \in Ids : Respond(r)
           \/ \E i \in ServerIds : Ask(i)
           \/ GoAway
  BY <1>3, ServerIs DEF ServerQuiet, ownerVars
<1>4. CASE Read \/ StopReading \/ StderrEnds
  BY <1>4 DEF Read, StopReading, StderrEnds, ReaderExit, ownerVars, callVars
<1>5. CASE Start
  BY <1>5 DEF Start
<1>6. CASE FinishStart
  BY <1>6, CleanUpStartIs DEF FinishStart, ReaderExit, callVars, taskVars
<1>7. CASE FinishShutdown
  BY <1>7, FinishShutdownIs DEF ReaderExit
<1>8. CASE UNCHANGED vars
  BY <1>8 DEF vars
<1> QED
  BY <1>1, <1>2, <1>3, <1>4, <1>5, <1>6, <1>7, <1>8 DEF Next

-------------------------------------------------------------------------------
(* Who waits, and for what *)

\* All that is said of the requests and the reader, together.
Awaiting == AwaitedIsRegistered /\ RegisteredIsAwaited /\ ReaderLeavesNoWaiter

LEMMA SendAwaiting ==
  ASSUME TypeOK, Awaiting, SendRequest, endMark' = endMark, broke' = broke,
         reader' = reader \/ (calls = 0 /\ reader' = "reading")
  PROVE  Awaiting'
<1>1. PICK n \in Ids :
           /\ n = calls + 1 /\ pending' = pending \cup {n}
           /\ call[n] = "none" /\ call'[n] = "draining" /\ fut'[n] = "waiting"
           /\ \A r \in Ids : r # n => call'[r] = call[r] /\ fut'[r] = fut[r]
  BY SendIs
<1>2. n > endMark /\ pending \subseteq Ids
  BY <1>1, CallFacts DEF TypeOK
<1>3. calls = 0 => \A r \in Ids : call[r] \notin InFlight
  BY CallFacts DEF InFlight
<1>4. n \notin pending
  BY <1>1 DEF Awaiting, RegisteredIsAwaited, InFlight
<1>5. RegisteredIsAwaited'
  BY <1>1, <1>2, <1>4 DEF Awaiting, RegisteredIsAwaited, InFlight
<1>6. AwaitedIsRegistered'
  BY <1>1, <1>3 DEF Awaiting, AwaitedIsRegistered
<1>7. ReaderLeavesNoWaiter'
  BY <1>1, <1>2 DEF Awaiting, ReaderLeavesNoWaiter
<1> QED
  BY <1>5, <1>6, <1>7 DEF Awaiting

\* The reader ends every wait there is, but for the call that ended it.
LEMMA ExitAwaiting ==
  ASSUME TypeOK, Awaiting, reader = "reading", NEW outstanding, ReaderExit(outstanding),
         outstanding = pending \/ outstanding = pending \ {broke'}, call' = call
  PROVE  Awaiting'
<1>1. /\ reader' = "done" /\ pending' = {} /\ endMark' = calls
      /\ \A r \in Ids : fut'[r] = IF r \in outstanding /\ fut[r] = "waiting" THEN "cancelled" ELSE fut[r]
  BY ReaderExitIs
<1>2. ASSUME NEW r \in Ids, call[r] \in InFlight, fut'[r] = "waiting"
      PROVE  r = broke'
  <2>1. fut[r] = "waiting" /\ r \notin outstanding
    BY <1>1, <1>2
  <2>2. r \in pending
    BY <1>2, <2>1 DEF Awaiting, AwaitedIsRegistered
  <2> QED
    BY <2>1, <2>2
<1> QED
  BY <1>1, <1>2 DEF Awaiting, RegisteredIsAwaited, AwaitedIsRegistered, ReaderLeavesNoWaiter

LEMMA AwaitingStep == TypeOK /\ IdleIsFresh /\ NoReaderYet /\ Awaiting /\ [Next]_vars => Awaiting'
<1> SUFFICES ASSUME TypeOK, IdleIsFresh, NoReaderYet, Awaiting, [Next]_vars
             PROVE  Awaiting'
  OBVIOUS
<1>1. ASSUME UNCHANGED <<call, fut, pending, reader, endMark, broke>>
      PROVE  Awaiting'
  BY <1>1 DEF Awaiting, RegisteredIsAwaited, AwaitedIsRegistered, ReaderLeavesNoWaiter
<1>2. CASE Hover \/ Shutdown
  BY <1>2, SendAwaiting DEF Hover, Shutdown, taskVars
<1>3. ASSUME NEW r \in Ids, Caller(r) \/ CancelCaller(r)
      PROVE  Awaiting'
  <2>1. PICK to \in {"waiting"} \cup Ended : call' = [call EXCEPT ![r] = to]
    BY <1>3, CallerIs
  <2>2. /\ call'[r] = to /\ \A q \in Ids : q # r => call'[q] = call[q]
        /\ call[r] \in InFlight
        /\ pending' = pending \ {r} \/ pending' = pending
        /\ UNCHANGED <<fut, reader, endMark, broke>>
    BY <1>3, <2>1, CallerIs DEF TypeOK, taskVars
  <2>3. /\ call[r] \in InFlight
        /\ to \in {"returned", "timedout"} /\ fut[r] = "waiting" => pending' = pending \ {r}
        /\ to = "waiting" => pending' = pending
    BY <1>3, <2>2, CallerIs
  <2>4. pending \subseteq Ids
    BY CallFacts
  <2>5. RegisteredIsAwaited'
    BY <2>2, <2>3, <2>4 DEF Awaiting, RegisteredIsAwaited, InFlight, Ended
  <2>6. AwaitedIsRegistered'
    BY <2>2, <2>3 DEF Awaiting, AwaitedIsRegistered, InFlight, Ended
  <2>7. ReaderLeavesNoWaiter'
    BY <2>2, <2>3 DEF Awaiting, ReaderLeavesNoWaiter, InFlight, Ended
  <2> QED
    BY <2>5, <2>6, <2>7 DEF Awaiting
<1>4. CASE \/ \E r \in Ids : Respond(r)
           \/ \E i \in ServerIds : Ask(i)
           \/ GoAway
  BY <1>1, <1>4, ServerIs DEF ServerQuiet
<1>5. CASE Read
  <2>1. PICK m \in Message :
           \/ ReaderExit(pending \ {m.id}) /\ broke' = m.id
           \/ /\ pending' = pending \ {m.id}
              /\ \A r \in Ids : fut'[r] = fut[r] \/ (r = m.id /\ fut[r] = "waiting" /\ fut'[r] \in {"error", "result"})
              /\ m.id \in pending /\ fut[m.id] = "waiting" => fut'[m.id] # "waiting"
              /\ UNCHANGED <<reader, endMark, broke>>
    BY <1>5, ReadIs
  <2>2. reader = "reading" /\ UNCHANGED call /\ pending \subseteq Ids
    BY <1>5, CallFacts DEF Read
  <2>3. CASE ReaderExit(pending \ {m.id}) /\ broke' = m.id
    BY <2>2, <2>3, ExitAwaiting
  <2>4. CASE /\ pending' = pending \ {m.id}
             /\ \A r \in Ids : fut'[r] = fut[r] \/ (r = m.id /\ fut[r] = "waiting" /\ fut'[r] \in {"error", "result"})
             /\ m.id \in pending /\ fut[m.id] = "waiting" => fut'[m.id] # "waiting"
             /\ UNCHANGED <<reader, endMark, broke>>
    <3>1. RegisteredIsAwaited'
      BY <2>2, <2>4 DEF Awaiting, RegisteredIsAwaited
    <3>2. ASSUME NEW r \in Ids, call[r] \in InFlight, fut'[r] = "waiting"
          PROVE  r \in pending'
      <4>1. fut[r] = "waiting" /\ r \in pending
        BY <2>2, <2>4, <3>2 DEF Awaiting, AwaitedIsRegistered
      <4> QED
        BY <2>4, <3>2, <4>1
    <3> QED
      BY <2>2, <2>4, <3>1, <3>2 DEF Awaiting, AwaitedIsRegistered, ReaderLeavesNoWaiter
  <2> QED
    BY <2>1, <2>3, <2>4
<1>6. CASE StopReading
  BY <1>6, ExitAwaiting DEF StopReading
<1>7. CASE StderrEnds
  BY <1>1, <1>7 DEF StderrEnds, callVars
<1>8. CASE Start
  BY <1>1, <1>8, SendAwaiting DEF Start, IdleIsFresh, callVars
<1>9. CASE FinishStart
  <2>1. CASE CleanUpStart
    BY <1>1, <2>1, CleanUpStartIs, ExitAwaiting
  <2> QED
    BY <1>1, <1>9, <2>1 DEF FinishStart, callVars, taskVars
<1>10. CASE FinishShutdown
  BY <1>1, <1>10, FinishShutdownIs, ExitAwaiting
<1>11. CASE UNCHANGED vars
  BY <1>1, <1>11 DEF vars
<1> QED
  BY <1>2, <1>3, <1>4, <1>5, <1>6, <1>7, <1>8, <1>9, <1>10, <1>11 DEF Next

-------------------------------------------------------------------------------
(* What is held after a clean-up *)

LEMMA ReleasedStep ==
  TypeOK /\ IdleIsFresh /\ CleanedUpIsReleased /\ [Next]_vars => CleanedUpIsReleased'
<1> SUFFICES ASSUME TypeOK, IdleIsFresh, CleanedUpIsReleased, [Next]_vars
             PROVE  CleanedUpIsReleased'
  OBVIOUS
<1>1. ASSUME life' = life, transport' = transport, reader' \in {reader, "done"},
             stderrTask' \in {stderrTask, "done"}, writer' = writer, server' \in {server, "down"}
      PROVE  CleanedUpIsReleased'
  BY <1>1 DEF CleanedUpIsReleased, Released
<1>2. CASE Hover
  BY <1>1, <1>2 DEF Hover, ownerVars, taskVars
<1>3. ASSUME NEW r \in Ids, Caller(r) \/ CancelCaller(r)
      PROVE  CleanedUpIsReleased'
  BY <1>1, <1>3, CallerIs DEF ownerVars, taskVars
<1>4. CASE \/ \E r \in Ids : Respond(r)
           \/ \E i \in ServerIds : Ask(i)
           \/ GoAway
  BY <1>1, <1>4, ServerIs DEF ServerQuiet, ownerVars
<1>5. CASE Read \/ StopReading \/ StderrEnds
  BY <1>1, <1>5 DEF Read, StopReading, StderrEnds, ReaderExit, ownerVars
<1>6. CASE Start
  BY <1>6 DEF Start, IdleIsFresh, CleanedUpIsReleased, Released
<1>7. CASE FinishStart
  BY <1>7, CleanUpStartIs DEF FinishStart, CleanedUpIsReleased
<1>8. CASE Shutdown
  BY <1>8 DEF Shutdown, CleanedUpIsReleased
<1>9. CASE FinishShutdown
  BY <1>9, FinishShutdownIs DEF CleanedUpIsReleased
<1>10. CASE UNCHANGED vars
  BY <1>1, <1>10 DEF vars
<1> QED
  BY <1>2, <1>3, <1>4, <1>5, <1>6, <1>7, <1>8, <1>9, <1>10 DEF Next

-------------------------------------------------------------------------------
(* The theorems *)

LEMMA InitInv == Init => Inv
  BY InitType
  DEF Init, Inv, IdleIsFresh, NoReaderYet, AwaitedIsRegistered, RegisteredIsAwaited,
      ReaderLeavesNoWaiter, CleanedUpIsReleased

LEMMA InvStep == Inv /\ [Next]_vars => Inv'
  BY StepType, FreshStep, AwaitingStep, ReleasedStep DEF Inv, Awaiting

LEMMA InvHolds == Spec => []Inv
  BY InitInv, InvStep, PTL DEF Spec

\* Every reachable state has its type; a call and its future exist from the moment
\* its request is sent.
THEOREM TypeCorrect == Spec => []TypeOK
<1>1. Inv => TypeOK
  BY DEF Inv
<1> QED
  BY <1>1, InvHolds, PTL

\* What is registered may still be answered: _send_request deregisters a request
\* that times out, and _read_loop one that is answered, so that a late answer
\* finds nothing to end.
THEOREM RegisteredAwaited == Spec => []RegisteredIsAwaited
<1>1. Inv => RegisteredIsAwaited
  BY DEF Inv
<1> QED
  BY <1>1, InvHolds, PTL

\* Whoever waits for an answer when the reader task ends is told so by _read_loop:
\* only the one whose own answer ended it, which _read_loop has already popped, and
\* requests sent later have to wait for their timeout.
THEOREM ReaderLeavesNone == Spec => []ReaderLeavesNoWaiter
<1>1. Inv => ReaderLeavesNoWaiter
  BY DEF Inv
<1> QED
  BY <1>1, InvHolds, PTL

\* A shutdown() that has closed the client, and a start() that has cleaned up after
\* its failure, have ended both tasks and the process or the connection.
THEOREM CleanedUp == Spec => []CleanedUpIsReleased
<1>1. Inv => CleanedUpIsReleased
  BY DEF Inv
<1> QED
  BY <1>1, InvHolds, PTL

-------------------------------------------------------------------------------
(* Requests of the server's own *)

AskedIsTheirs ==
  \A i \in 1..Len(inbox) : inbox[i].kind = "request" => inbox[i].id \in ServerIds

Apart == ServerIds \cap Ids = {}

LEMMA AskedStep == TypeOK /\ AskedIsTheirs /\ [Next]_vars => AskedIsTheirs'
<1> SUFFICES ASSUME TypeOK, AskedIsTheirs, [Next]_vars PROVE AskedIsTheirs'
  OBVIOUS
<1>1. ASSUME inbox' = inbox
      PROVE  AskedIsTheirs'
  BY <1>1 DEF AskedIsTheirs
<1>2. ASSUME NEW r \in Ids, Caller(r) \/ CancelCaller(r)
      PROVE  AskedIsTheirs'
  BY <1>1, <1>2, CallerIs DEF taskVars
<1>3. CASE \/ \E r \in Ids : Respond(r)
           \/ \E i \in ServerIds : Ask(i)
           \/ GoAway
  <2>1. ASSUME NEW m \in Message, inbox' = Append(inbox, m),
               m.kind = "request" => m.id \in ServerIds
        PROVE  AskedIsTheirs'
    <3>1. inbox \in Seq(Message) /\ Len(inbox) \in Nat
      BY DEF TypeOK
    <3> QED
      BY <2>1, <3>1, InboxFacts DEF AskedIsTheirs
  <2> QED
    BY <1>1, <1>3, <2>1, ServerIs
<1>4. CASE Read
  <2>1. /\ inbox' = Tail(inbox) /\ Len(inbox) \in Nat \ {0} /\ Len(inbox') = Len(inbox) - 1
        /\ \A i \in 1..Len(inbox') : inbox'[i] = inbox[i + 1]
    BY <1>4, InboxFacts DEF Read, TypeOK
  <2> QED
    BY <2>1 DEF AskedIsTheirs
<1>5. CASE Hover \/ Start \/ FinishStart \/ Shutdown \/ FinishShutdown \/ StopReading \/ StderrEnds
  BY <1>1, <1>5, CleanUpStartIs, FinishShutdownIs
  DEF Hover, Start, FinishStart, Shutdown, StopReading, StderrEnds, taskVars
<1>6. CASE UNCHANGED vars
  BY <1>1, <1>6 DEF vars
<1> QED
  BY <1>2, <1>3, <1>4, <1>5, <1>6 DEF Next

LEMMA StrayStep ==
  TypeOK /\ AskedIsTheirs /\ Apart /\ ServerRequestsDiscarded /\ [Next]_vars
    => ServerRequestsDiscarded'
<1> SUFFICES ASSUME TypeOK, AskedIsTheirs, Apart, ServerRequestsDiscarded, [Next]_vars
             PROVE  ServerRequestsDiscarded'
  OBVIOUS
<1>1. ASSUME NEW r \in Ids, Caller(r) \/ CancelCaller(r)
      PROVE  ServerRequestsDiscarded'
  BY <1>1, CallerIs DEF taskVars, ServerRequestsDiscarded
<1>2. CASE \/ \E r \in Ids : Respond(r)
           \/ \E i \in ServerIds : Ask(i)
           \/ GoAway
  BY <1>2, ServerIs DEF ServerQuiet, ServerRequestsDiscarded
<1>3. CASE Read
  <2>1. PICK m \in Message :
           /\ m = Head(inbox)
           /\ stray' = stray \/ (m.id \in pending /\ m.kind = "request")
    BY <1>3, ReadIs DEF Breaks
  <2>2. Head(inbox) = inbox[1] /\ 1 \in 1..Len(inbox)
    BY <1>3, InboxFacts DEF Read, TypeOK
  <2>3. m.kind = "request" => m.id \in ServerIds
    BY <2>1, <2>2 DEF AskedIsTheirs
  <2> QED
    BY <2>1, <2>3, CallFacts DEF Apart, ServerRequestsDiscarded
<1>4. CASE Hover \/ Start \/ FinishStart \/ Shutdown \/ FinishShutdown \/ StopReading \/ StderrEnds
  BY <1>4, CleanUpStartIs, FinishShutdownIs
  DEF Hover, Start, FinishStart, Shutdown, StopReading, StderrEnds, taskVars,
      ServerRequestsDiscarded
<1>5. CASE UNCHANGED vars
  BY <1>5 DEF vars, ServerRequestsDiscarded
<1> QED
  BY <1>1, <1>2, <1>3, <1>4, <1>5 DEF Next

\* No request of the server's own ends a call of ours, if their ids are never ours:
\* that, which _read_loop does not check, is all it takes.
THEOREM DiscardedWhenApart == Apart => (Spec => []ServerRequestsDiscarded)
<1> SUFFICES ASSUME Apart PROVE Spec => []ServerRequestsDiscarded
  OBVIOUS
<1>1. Init => AskedIsTheirs /\ ServerRequestsDiscarded
  BY DEF Init, AskedIsTheirs, ServerRequestsDiscarded
<1>2. /\ AskedIsTheirs /\ ServerRequestsDiscarded /\ TypeOK /\ [Next]_vars
      => AskedIsTheirs' /\ ServerRequestsDiscarded'
  BY AskedStep, StrayStep
<1> QED
  BY <1>1, <1>2, TypeCorrect, PTL DEF Spec

-------------------------------------------------------------------------------
(* The command: what each step leaves alone *)

HeldIsKnown ==
  \A l \in Lang : /\ process[l] => \/ l \in clients \/ l = starting
                                   \/ IF l \in Stdio THEN l \in failed ELSE l \notin failed
                  /\ socket[l] => l \in clients

\* A language is waiting, being connected, connected, or failed.
LanguagesApart ==
  /\ clients \cap failed = {} /\ todo \cap clients = {} /\ todo \cap failed = {}
  /\ starting \notin todo \cup clients \cup failed

\* What may still be held in a phase.
HeldByPhase ==
  /\ starting # "none" => phase \in {"connect", "over"}
  /\ phase = "detect" => /\ clients = {} /\ starting = "none" /\ failed = {}
                         /\ \A l \in Lang : ~process[l]
  /\ phase = "over" /\ ~escaped =>
       /\ clients = {} /\ starting = "none"
       /\ \A l \in Lang : process[l] => l \in failed

Unbegun ==
  \A f \in File : /\ file[f] = "waiting" /\ index[f] = "out"
                  /\ \A h \in Hovers : hover[f][h] = "unasked"

\* Files are begun after the servers, and a failed server fails the command.
FilesComeLast ==
  /\ phase \in {"detect", "connect"} => lsp
  /\ phase \in {"detect", "connect", "collect"} => Unbegun
  /\ ~lsp => clients = {}
  /\ phase \in {"collect", "index"} => failed = {}
  /\ result = "printed" => phase \in {"release", "over"} /\ failed = {}

Early == {"absent", "waiting", "queued", "parsing", "open"}

Answered(f) == \A h \in Hovers : hover[f][h] = "answered"

HoversFollow ==
  \A f \in File :
    /\ file[f] \in Early => \A h \in Hovers : hover[f][h] = "unasked"
    /\ file[f] = "hovering" => \A h \in Hovers : hover[f][h] # "failed"
    /\ file[f] = "typed" \/ index[f] = "typed" => Answered(f)

BareHasNoClient ==
  \A f \in File : file[f] = "bare" \/ index[f] = "bare" => LangOf[f] \notin clients

Finished == {"absent", "indexed", "skipped"}

PrintedIsFinished == result = "printed" => \A f \in File : file[f] \in Finished

IndexInv ==
  /\ IndexTypeOK /\ LanguagesApart /\ HeldIsKnown /\ HeldByPhase /\ FilesComeLast
  /\ HoversFollow /\ BareHasNoClient /\ PrintedIsFinished

\* The steps of a file's task leave the servers alone, and end the indexing at
\* most by a failure.
LEMMA TaskIs ==
  ASSUME IndexTypeOK, NEW f \in File, FileTask(f)
  PROVE  /\ UNCHANGED <<lsp, connVars>>
         /\ \/ UNCHANGED <<phase, result>>
            \/ phase = "index" /\ phase' = "release" /\ result' = "failed"
         /\ cancels' \in Nat /\ cancels' >= cancels
         /\ cancels' \in 0..MaxCancels /\ escaped' = escaped
<1> cancels \in Nat /\ cancels \in 0..MaxCancels
  BY LspIndexerAssumption DEF IndexTypeOK
<1>1. ASSUME NEW h \in Hovers, HoverCancelled(f, h)
      PROVE  /\ UNCHANGED <<lsp, connVars>>
             /\ \/ UNCHANGED <<phase, result>>
                \/ phase = "index" /\ phase' = "release" /\ result' = "failed"
             /\ cancels' = cancels + 1 /\ cancels < MaxCancels /\ escaped' = escaped
  BY <1>1 DEF HoverCancelled, Indexing
<1>2. ASSUME NEW h \in Hovers, AskAbout(f, h) \/ Answer(f, h) \/ HoverFails(f, h)
      PROVE  UNCHANGED <<lsp, connVars, phase, result, cancels, escaped>>
  BY <1>2 DEF AskAbout, Answer, HoverFails
<1>3. CASE TakeSlot(f) \/ BeginParse(f) \/ EndParse(f) \/ Open(f) \/ Attach(f) \/ Merge(f)
  BY <1>3 DEF TakeSlot, BeginParse, EndParse, Open, Attach, Merge
<1>4. ASSUME NEW h \in Hovers, HoverCancelled(f, h)
      PROVE  cancels' \in 0..MaxCancels
  BY <1>1, <1>4, LspIndexerAssumption
<1> QED
  BY <1>1, <1>2, <1>3, <1>4 DEF FileTask

\* What the task of a file does to it: the others stay as they are.
LEMMA FileIs ==
  ASSUME IndexTypeOK, NEW f \in File, FileTask(f)
  PROVE  /\ \E to \in {"queued", "parsing", "open", "bare", "skipped", "error", "hovering",
                       "typed", "indexed", file[f]} : file' = [file EXCEPT ![f] = to]
         /\ parser' \in File \cup {"idle"}
         /\ index' = index \/ index' = [index EXCEPT ![f] = file[f]]
         /\ hover' = hover \/ \E h \in Hovers, a \in {"asked", "answered", "failed"} :
                                hover' = [hover EXCEPT ![f][h] = a]
<1>1. CASE TakeSlot(f) \/ BeginParse(f) \/ Open(f) \/ Attach(f)
  BY <1>1 DEF TakeSlot, BeginParse, Open, Attach, IndexTypeOK
<1>2. CASE EndParse(f)
  <2>1. \E to \in {"open", "bare", "skipped", "error"} : file' = [file EXCEPT ![f] = to]
    BY <1>2 DEF EndParse
  <2> QED
    BY <1>2, <2>1 DEF EndParse
<1>3. CASE Merge(f)
  BY <1>3 DEF Merge, IndexTypeOK
<1>4. ASSUME NEW h \in Hovers, AskAbout(f, h) \/ Answer(f, h) \/ HoverFails(f, h) \/ HoverCancelled(f, h)
      PROVE  /\ file' = [file EXCEPT ![f] = file[f]] \/ file' = [file EXCEPT ![f] = "error"]
             /\ UNCHANGED <<parser, index>>
             /\ \E a \in {"asked", "answered", "failed"} : hover' = [hover EXCEPT ![f][h] = a]
  BY <1>4 DEF AskAbout, Answer, HoverFails, HoverCancelled, IndexTypeOK
<1> QED
  BY <1>1, <1>2, <1>3, <1>4 DEF FileTask, IndexTypeOK

LEMMA OthersStay ==
  ASSUME IndexTypeOK, NEW f \in File, FileTask(f)
  PROVE  \A g \in File \ {f} : file'[g] = file[g] /\ index'[g] = index[g] /\ hover'[g] = hover[g]
  BY FileIs DEF IndexTypeOK

LEMMA TaskFollows ==
  ASSUME IndexTypeOK, HoversFollow, NEW f \in File, FileTask(f)
  PROVE  HoversFollow'
<1>0. /\ file \in [File -> {"absent", "waiting", "queued", "parsing", "open", "hovering", "bare",
                            "typed", "skipped", "error", "indexed"}]
      /\ hover \in [File -> [Hovers -> {"unasked", "asked", "answered", "failed"}]]
      /\ index \in [File -> {"out", "bare", "typed"}]
  BY DEF IndexTypeOK
<1>1. SUFFICES /\ file'[f] \in Early => \A h \in Hovers : hover'[f][h] = "unasked"
               /\ file'[f] = "hovering" => \A h \in Hovers : hover'[f][h] # "failed"
               /\ file'[f] = "typed" \/ index'[f] = "typed" => \A h \in Hovers : hover'[f][h] = "answered"
  BY OthersStay DEF HoversFollow, Answered
<1>2. /\ file[f] \in Early => \A h \in Hovers : hover[f][h] = "unasked"
      /\ file[f] = "hovering" => \A h \in Hovers : hover[f][h] # "failed"
      /\ file[f] = "typed" \/ index[f] = "typed" => \A h \in Hovers : hover[f][h] = "answered"
  BY DEF HoversFollow, Answered
<1>3. CASE TakeSlot(f) \/ BeginParse(f)
  BY <1>0, <1>2, <1>3 DEF TakeSlot, BeginParse, Early
<1>4. CASE EndParse(f)
  <2>1. \E to \in {"open", "bare", "skipped", "error"} : file' = [file EXCEPT ![f] = to]
    BY <1>4 DEF EndParse
  <2> QED
    BY <1>0, <1>2, <1>4, <2>1 DEF EndParse, Early
<1>5. CASE Open(f)
  BY <1>0, <1>2, <1>5 DEF Open, Early
<1>6. CASE Attach(f)
  BY <1>0, <1>2, <1>6 DEF Attach, Early
<1>7. CASE Merge(f)
  BY <1>0, <1>2, <1>7 DEF Merge, Early
<1>8. ASSUME NEW h \in Hovers, AskAbout(f, h)
      PROVE  /\ file'[f] \notin Early
             /\ file'[f] = "hovering" => \A i \in Hovers : hover'[f][i] # "failed"
             /\ file'[f] # "typed" /\ index'[f] # "typed"
  BY <1>0, <1>2, <1>8 DEF AskAbout, Early
<1>9. ASSUME NEW h \in Hovers, Answer(f, h)
      PROVE  /\ file'[f] \notin Early
             /\ file'[f] = "hovering" => \A i \in Hovers : hover'[f][i] # "failed"
             /\ file'[f] # "typed" /\ index'[f] # "typed"
  BY <1>0, <1>2, <1>9 DEF Answer, Early
<1>10. ASSUME NEW h \in Hovers, HoverFails(f, h) \/ HoverCancelled(f, h)
      PROVE  file'[f] \notin Early \cup {"hovering", "typed"} /\ index'[f] # "typed"
  <2>1. /\ hover[f][h] = "asked" /\ UNCHANGED index
        /\ file' = [file EXCEPT ![f] = IF file[f] = "hovering" THEN "error" ELSE file[f]]
    BY <1>10 DEF HoverFails, HoverCancelled
  <2> QED
    BY <1>0, <1>2, <2>1 DEF Early
<1> QED
  BY <1>3, <1>4, <1>5, <1>6, <1>7, <1>8, <1>9, <1>10 DEF FileTask

LEMMA TaskType ==
  ASSUME IndexTypeOK, NEW f \in File, FileTask(f)
  PROVE  IndexTypeOK'
<1>1. file' \in [File -> {"absent", "waiting", "queued", "parsing", "open", "hovering", "bare",
                          "typed", "skipped", "error", "indexed"}]
  <2>1. PICK to \in {"queued", "parsing", "open", "bare", "skipped", "error", "hovering",
                     "typed", "indexed", file[f]} : file' = [file EXCEPT ![f] = to]
    BY FileIs
  <2> QED
    BY <2>1 DEF IndexTypeOK
<1>2. index' \in [File -> {"out", "bare", "typed"}]
  <2>1. CASE Merge(f)
    BY <2>1 DEF Merge, IndexTypeOK
  <2>2. CASE ~Merge(f)
    BY <2>2 DEF IndexTypeOK, FileTask, TakeSlot, BeginParse, EndParse, Open, Attach,
                AskAbout, Answer, HoverFails, HoverCancelled
  <2> QED
    BY <2>1, <2>2
<1>3. hover' \in [File -> [Hovers -> {"unasked", "asked", "answered", "failed"}]]
  <2>1. ASSUME NEW h \in Hovers, NEW a \in {"asked", "answered", "failed"},
               hover' = [hover EXCEPT ![f][h] = a]
        PROVE  hover' \in [File -> [Hovers -> {"unasked", "asked", "answered", "failed"}]]
    BY <2>1 DEF IndexTypeOK
  <2> QED
    BY <2>1, FileIs DEF IndexTypeOK
<1> QED
  BY <1>1, <1>2, <1>3, TaskIs, FileIs DEF IndexTypeOK, connVars

\* The steps that concern the servers leave the files alone.
LEMMA ServersAre ==
  ASSUME IndexTypeOK, Servers
  PROVE  /\ UNCHANGED <<lsp, fileVars>>
         /\ phase \in {"detect", "connect", "abandon", "release"}
         /\ phase' \in {"detect", "connect", "abandon", "release", "collect", "over"}
         /\ result' \in {result, "failed"}
         /\ cancels' \in 0..MaxCancels /\ escaped' \in BOOLEAN
<1> cancels \in Nat /\ MaxCancels \in Nat /\ cancels \in 0..MaxCancels /\ escaped \in BOOLEAN
  BY LspIndexerAssumption DEF IndexTypeOK
<1>1. CASE Detect \/ DetectFails \/ Connect \/ ConnectFails \/ HandshakeStrands \/ Connected \/ AllReleased
  BY <1>1 DEF Detect, DetectFails, Connect, ConnectFails, HandshakeStrands, Connected, AllReleased, Fail
<1>3. ASSUME NEW l \in Lang, Launch(l) \/ Release(l)
      PROVE  /\ UNCHANGED <<lsp, fileVars, result, cancels, escaped, phase>>
             /\ phase \in {"connect", "abandon", "release"}
  BY <1>3 DEF Launch, Release
<1>4. ASSUME NEW l \in Lang, ReleaseCancelled(l)
      PROVE  /\ UNCHANGED <<lsp, fileVars>> /\ cancels' = cancels + 1 /\ cancels < MaxCancels
             /\ escaped' = TRUE /\ phase \in {"abandon", "release"} /\ phase' = "over" /\ result' = "failed"
  BY <1>4 DEF ReleaseCancelled, Fail
<1>5. ASSUME NEW l \in Lang, ReleaseCancelled(l)
      PROVE  cancels' \in 0..MaxCancels
  BY <1>5 DEF ReleaseCancelled
<1>6. ASSUME NEW l \in Lang, ReleaseCancelled(l)
      PROVE  escaped' \in BOOLEAN
  BY <1>6 DEF ReleaseCancelled
<1> QED
  BY <1>1, <1>3, <1>4, <1>5, <1>6 DEF Servers

LEMMA ServersType ==
  ASSUME IndexTypeOK, Servers
  PROVE  IndexTypeOK'
<1>1. /\ starting' \in Lang \cup {"none"} /\ todo' \subseteq Lang /\ clients' \subseteq Lang
      /\ failed' \subseteq Lang /\ process' \in [Lang -> BOOLEAN] /\ socket' \in [Lang -> BOOLEAN]
  <2>1. CASE Detect \/ DetectFails
    BY <2>1 DEF Detect, DetectFails, Found, connVars, IndexTypeOK
  <2>2. CASE Connect \/ ConnectFails \/ HandshakeStrands \/ Connected
    BY <2>2, LspIndexerAssumption
    DEF Connect, ConnectFails, HandshakeStrands, Connected, connVars, IndexTypeOK
  <2>4. CASE AllReleased
    BY <2>4 DEF AllReleased, IndexTypeOK
  <2>3. ASSUME NEW l \in Lang, Launch(l) \/ Release(l) \/ ReleaseCancelled(l)
        PROVE  /\ starting' \in Lang \cup {"none"} /\ todo' \subseteq Lang /\ clients' \subseteq Lang
               /\ failed' \subseteq Lang /\ process' \in [Lang -> BOOLEAN] /\ socket' \in [Lang -> BOOLEAN]
    BY <2>3 DEF Launch, Release, ReleaseCancelled, connVars, IndexTypeOK
  <2> QED
    BY <2>1, <2>2, <2>3, <2>4 DEF Servers
<1> QED
  BY <1>1, ServersAre DEF IndexTypeOK, fileVars

\* The other steps: the files are collected, indexed without a server, or the
\* index is printed.
Rest == Collect \/ CollectFails \/ (~lsp /\ \E f \in File : IndexFile(f)) \/ PrintIndex

LEMMA RestIs ==
  ASSUME IndexTypeOK, Rest
  PROVE  /\ UNCHANGED <<lsp, connVars, cancels, escaped, hover, parser>>
         /\ phase \in {"collect", "index"} /\ phase' \in {"index", "release"}
         /\ result' = result \/ result' = "failed" \/ (result' = "printed" /\ phase' = "release" /\ UNCHANGED fileVars
                                       /\ \A f \in File : file[f] \in Finished)
<1>1. CASE Collect \/ CollectFails
  BY <1>1 DEF Collect, CollectFails, fileVars
<1>2. ASSUME NEW f \in File, IndexFile(f)
      PROVE  UNCHANGED <<lsp, connVars, cancels, escaped, hover, parser, phase, result>> /\ phase = "index"
  BY <1>2 DEF IndexFile, Indexing
<1>3. CASE PrintIndex
  <2>1. result' \in {"failed"} \cup (IF \A f \in File : file[f] # "error" THEN {"printed"} ELSE {})
    BY <1>3 DEF PrintIndex
  <2> QED
    BY <1>3, <2>1 DEF PrintIndex, Indexing, fileVars, Finished
<1> QED
  BY <1>1, <1>2, <1>3 DEF Rest

LEMMA RestType ==
  ASSUME IndexTypeOK, Rest
  PROVE  IndexTypeOK'
<1>1. CASE Collect
  BY <1>1, RestIs DEF Collect, IndexTypeOK, connVars
<1>2. CASE CollectFails \/ PrintIndex
  BY <1>2, RestIs DEF CollectFails, PrintIndex, IndexTypeOK, connVars, fileVars
<1>3. ASSUME NEW f \in File, IndexFile(f)
      PROVE  IndexTypeOK'
  <2>1. PICK end \in {"skipped", "error", "indexed"} :
          /\ file' = [file EXCEPT ![f] = end]
          /\ index' = [index EXCEPT ![f] = IF end = "indexed" THEN "bare" ELSE @]
    BY <1>3 DEF IndexFile
  <2> QED
    BY <1>3, <2>1 DEF IndexFile, IndexTypeOK, connVars
<1> QED
  BY <1>1, <1>2, <1>3 DEF Rest

LEMMA NextIs ==
  ASSUME IndexNext
  PROVE  /\ phase # "over"
         /\ Servers \/ Rest \/ (lsp /\ \E f \in File : FileTask(f))
  BY DEF IndexNext, IndexRepo, IndexRepoLsp, Rest

LEMMA IndexTypeStep == IndexTypeOK /\ [IndexNext]_indexVars => IndexTypeOK'
<1> SUFFICES ASSUME IndexTypeOK, [IndexNext]_indexVars PROVE IndexTypeOK'
  OBVIOUS
<1>1. CASE UNCHANGED indexVars
  BY <1>1 DEF indexVars, connVars, fileVars, IndexTypeOK
<1> QED
  BY <1>1, NextIs, ServersType, RestType, TaskType

LEMMA ApartStep ==
  IndexTypeOK /\ LanguagesApart /\ HeldByPhase /\ [IndexNext]_indexVars => LanguagesApart'
<1> SUFFICES ASSUME IndexTypeOK, LanguagesApart, HeldByPhase, [IndexNext]_indexVars
             PROVE  LanguagesApart'
  OBVIOUS
<1> USE DEF LanguagesApart, connVars
<1>1. CASE Detect \/ DetectFails
  BY <1>1, LspIndexerAssumption DEF Detect, DetectFails, Fail, HeldByPhase, Found
<1>2. CASE Connect \/ ConnectFails \/ HandshakeStrands \/ Connected \/ AllReleased
  BY <1>2, LspIndexerAssumption
  DEF Connect, ConnectFails, HandshakeStrands, Connected, AllReleased, IndexTypeOK
<1>3. ASSUME NEW l \in Lang, Launch(l) \/ Release(l) \/ ReleaseCancelled(l)
      PROVE  LanguagesApart'
  BY <1>3 DEF Launch, Release, ReleaseCancelled
<1>4. CASE Rest
  BY <1>4, RestIs
<1>5. CASE \E f \in File : FileTask(f)
  BY <1>5, TaskIs
<1>6. CASE UNCHANGED indexVars
  BY <1>6 DEF indexVars
<1> QED
  BY <1>1, <1>2, <1>3, <1>4, <1>5, <1>6, NextIs DEF Servers

LEMMA HeldStep ==
  IndexTypeOK /\ LanguagesApart /\ HeldIsKnown /\ HeldByPhase /\ [IndexNext]_indexVars
    => HeldIsKnown' /\ HeldByPhase'
<1> SUFFICES ASSUME IndexTypeOK, LanguagesApart, HeldIsKnown, HeldByPhase, [IndexNext]_indexVars
             PROVE  HeldIsKnown' /\ HeldByPhase'
  OBVIOUS
<1> cancels \in Nat
  BY DEF IndexTypeOK
<1> USE DEF HeldIsKnown, HeldByPhase, connVars
<1>1. CASE Servers
  <2>1. CASE Detect \/ DetectFails
    BY <2>1 DEF Detect, DetectFails, Fail
  <2>2. CASE Connect
    BY <2>2 DEF Connect, IndexTypeOK
  <2>3. CASE ConnectFails
    BY <2>3 DEF ConnectFails, IndexTypeOK
  <2>4. CASE HandshakeStrands
    BY <2>4 DEF HandshakeStrands, IndexTypeOK
  <2>5. CASE Connected
    BY <2>5 DEF Connected
  <2>6. CASE AllReleased
    BY <2>6 DEF AllReleased, IndexTypeOK
  <2>7. ASSUME NEW l \in Lang, Launch(l)
        PROVE  HeldIsKnown' /\ HeldByPhase'
    BY <2>7, LspIndexerAssumption DEF Launch, IndexTypeOK
  <2>8. ASSUME NEW l \in Lang, Release(l)
        PROVE  HeldIsKnown' /\ HeldByPhase'
    <3>1. process' \in [Lang -> BOOLEAN]
      BY <2>8 DEF Release, IndexTypeOK
    <3>2. \A k \in Lang : process'[k] => process[k] /\ (k = l => k \notin Stdio)
      BY <2>8 DEF Release, IndexTypeOK
    <3>3. /\ clients' = clients \ {l} /\ UNCHANGED <<phase, starting, failed, escaped>>
          /\ \A k \in Lang : socket'[k] => socket[k] /\ k # l
          /\ phase \in {"abandon", "release"}
      BY <2>8 DEF Release, IndexTypeOK
    <3>4. l \notin failed
      BY <2>8 DEF Release, LanguagesApart
    <3> QED
      BY <3>2, <3>3, <3>4
  <2>9. ASSUME NEW l \in Lang, ReleaseCancelled(l)
        PROVE  HeldIsKnown' /\ HeldByPhase'
    BY <2>9 DEF ReleaseCancelled, Fail
  <2> QED
    BY <1>1, <2>1, <2>2, <2>3, <2>4, <2>5, <2>6, <2>7, <2>8, <2>9 DEF Servers
<1>2. CASE Rest
  BY <1>2, RestIs
<1>3. CASE phase # "over" /\ \E f \in File : FileTask(f)
  BY <1>3, TaskIs
<1>4. CASE UNCHANGED indexVars
  BY <1>4 DEF indexVars
<1> QED
  BY <1>1, <1>2, <1>3, <1>4, NextIs

LEMMA FilesStep ==
  IndexTypeOK /\ HeldByPhase /\ FilesComeLast /\ [IndexNext]_indexVars => FilesComeLast'
<1> SUFFICES ASSUME IndexTypeOK, HeldByPhase, FilesComeLast, [IndexNext]_indexVars
             PROVE  FilesComeLast'
  OBVIOUS
<1> USE DEF HeldByPhase, FilesComeLast, connVars, fileVars
<1>1. CASE Servers
  <2>1. UNCHANGED <<lsp, fileVars>> /\ Unbegun' = Unbegun
    BY <1>1, ServersAre DEF Unbegun
  <2>2. CASE Detect \/ DetectFails
    BY <2>1, <2>2 DEF Detect, DetectFails, Fail
  <2>3. CASE Connect \/ ConnectFails \/ HandshakeStrands
    BY <2>1, <2>3 DEF Connect, ConnectFails, HandshakeStrands
  <2>4. CASE Connected \/ AllReleased
    BY <2>1, <2>4 DEF Connected, AllReleased
  <2>5. ASSUME NEW l \in Lang, Launch(l) \/ Release(l) \/ ReleaseCancelled(l)
        PROVE  FilesComeLast'
    BY <2>1, <2>5 DEF Launch, Release, ReleaseCancelled, Fail
  <2> QED
    BY <1>1, <2>2, <2>3, <2>4, <2>5 DEF Servers
<1>2. CASE Rest
  BY <1>2, RestIs
<1>3. CASE phase # "over" /\ lsp /\ \E f \in File : FileTask(f)
  <2>1. PICK f \in File : FileTask(f)
    BY <1>3
  <2>2. phase \notin {"detect", "connect", "collect"}
    <3>1. Unbegun => file[f] = "waiting" /\ \A h \in Hovers : hover[f][h] = "unasked"
      BY DEF Unbegun
    <3>2. CASE TakeSlot(f)
      BY <3>2 DEF TakeSlot, Indexing
    <3>3. CASE BeginParse(f) \/ EndParse(f) \/ Open(f) \/ Attach(f) \/ Merge(f)
      BY <3>1, <3>3 DEF BeginParse, EndParse, Open, Attach, Merge
    <3>4. ASSUME NEW h \in Hovers,
                 AskAbout(f, h) \/ Answer(f, h) \/ HoverFails(f, h) \/ HoverCancelled(f, h)
          PROVE  ~Unbegun
      BY <3>1, <3>4 DEF AskAbout, Answer, HoverFails, HoverCancelled
    <3> QED
      BY <2>1, <3>2, <3>3, <3>4 DEF FileTask
  <2> QED
    BY <2>1, <2>2, TaskIs
<1>4. CASE UNCHANGED indexVars
  BY <1>4 DEF indexVars, Unbegun
<1> QED
  BY <1>1, <1>2, <1>3, <1>4, NextIs

LEMMA HoversStep ==
  IndexTypeOK /\ FilesComeLast /\ HoversFollow /\ [IndexNext]_indexVars => HoversFollow'
<1> SUFFICES ASSUME IndexTypeOK, FilesComeLast, HoversFollow, [IndexNext]_indexVars
             PROVE  HoversFollow'
  OBVIOUS
<1>1. ASSUME UNCHANGED fileVars
      PROVE  HoversFollow'
  BY <1>1 DEF fileVars, HoversFollow, Answered
<1>2. CASE Rest
  <2>1. CASE Collect
    BY <2>1 DEF Collect, HoversFollow, Early, FilesComeLast, Unbegun, Answered
  <2>2. ASSUME NEW f \in File, IndexFile(f)
        PROVE  HoversFollow'
    <3>1. PICK end \in {"skipped", "error", "indexed"} :
            /\ file' = [file EXCEPT ![f] = end]
            /\ index' = [index EXCEPT ![f] = IF end = "indexed" THEN "bare" ELSE @]
            /\ hover' = hover
      BY <2>2 DEF IndexFile
    <3> QED
      BY <3>1 DEF HoversFollow, Early, Answered, IndexTypeOK
  <2> QED
    BY <1>1, <1>2, <2>1, <2>2 DEF Rest, CollectFails, PrintIndex
<1>3. CASE Servers
  BY <1>1, <1>3, ServersAre
<1>4. CASE UNCHANGED indexVars
  BY <1>1, <1>4 DEF indexVars
<1> QED
  BY <1>2, <1>3, <1>4, NextIs, TaskFollows

LEMMA BareStep ==
  IndexTypeOK /\ FilesComeLast /\ BareHasNoClient /\ [IndexNext]_indexVars => BareHasNoClient'
<1> SUFFICES ASSUME IndexTypeOK, FilesComeLast, BareHasNoClient, [IndexNext]_indexVars
             PROVE  BareHasNoClient'
  OBVIOUS
<1>1. CASE Servers
  <2>1. UNCHANGED fileVars
    BY <1>1, ServersAre
  <2>2. clients' \subseteq clients \/ Unbegun
    BY <1>1 DEF Servers, Detect, DetectFails, Connect, ConnectFails, HandshakeStrands, Connected,
                AllReleased, Launch, Release, ReleaseCancelled, connVars, FilesComeLast
  <2> QED
    BY <2>1, <2>2 DEF BareHasNoClient, fileVars, Unbegun
<1>2. CASE Rest
  <2>1. clients' = clients
    BY <1>2, RestIs DEF connVars
  <2>2. CASE Collect
    BY <2>1, <2>2 DEF Collect, BareHasNoClient, FilesComeLast, Unbegun
  <2>3. ASSUME NEW f \in File, ~lsp, IndexFile(f)
        PROVE  BareHasNoClient'
    BY <2>1, <2>3 DEF BareHasNoClient, FilesComeLast
  <2> QED
    BY <1>2, <2>1, <2>2, <2>3 DEF Rest, CollectFails, PrintIndex, fileVars, BareHasNoClient
<1>3. ASSUME NEW f \in File, FileTask(f)
      PROVE  BareHasNoClient'
  <2>1. clients' = clients
    BY <1>3, TaskIs DEF connVars
  <2>2. file'[f] = "bare" => LangOf[f] \notin clients
    <3>1. CASE EndParse(f)
      <4>1. PICK end \in {"skipped", "error", IF LangOf[f] \in clients THEN "open" ELSE "bare"} :
              file' = [file EXCEPT ![f] = end]
        BY <3>1 DEF EndParse
      <4> QED
        BY <4>1 DEF IndexTypeOK
    <3>2. CASE ~EndParse(f)
      BY <1>3, <3>2
      DEF FileTask, TakeSlot, BeginParse, Open, Attach, Merge, AskAbout, Answer, HoverFails,
          HoverCancelled, IndexTypeOK, BareHasNoClient
    <3> QED
      BY <3>1, <3>2
  <2>3. index'[f] = "bare" => LangOf[f] \notin clients
    <3>1. index' = index \/ index' = [index EXCEPT ![f] = file[f]]
      BY <1>3, FileIs
    <3> QED
      BY <3>1 DEF IndexTypeOK, BareHasNoClient
  <2> QED
    BY <1>3, <2>1, <2>2, <2>3, OthersStay DEF BareHasNoClient
<1>4. CASE UNCHANGED indexVars
  BY <1>4 DEF indexVars, connVars, fileVars, BareHasNoClient
<1> QED
  BY <1>1, <1>2, <1>3, <1>4, NextIs

LEMMA PrintedStep ==
  IndexTypeOK /\ FilesComeLast /\ PrintedIsFinished /\ [IndexNext]_indexVars => PrintedIsFinished'
<1> SUFFICES ASSUME IndexTypeOK, FilesComeLast, PrintedIsFinished, [IndexNext]_indexVars
             PROVE  PrintedIsFinished'
  OBVIOUS
<1>1. CASE Servers
  BY <1>1, ServersAre DEF PrintedIsFinished, fileVars
<1>2. CASE Rest
  BY <1>2, RestIs DEF PrintedIsFinished, FilesComeLast, fileVars
<1>3. ASSUME NEW f \in File, FileTask(f)
      PROVE  PrintedIsFinished'
  <2>1. result' = "printed" => result = "printed"
    BY <1>3, TaskIs
  <2>2. file[f] \in Finished => file'[f] = file[f] \/ phase = "index"
    BY <1>3 DEF FileTask, TakeSlot, BeginParse, EndParse, Open, Attach, Merge, AskAbout, Answer,
                HoverFails, HoverCancelled, Finished, Indexing, IndexTypeOK
  <2> QED
    BY <1>3, <2>1, <2>2, OthersStay DEF PrintedIsFinished, FilesComeLast
<1>4. CASE UNCHANGED indexVars
  BY <1>4 DEF indexVars, fileVars, PrintedIsFinished
<1> QED
  BY <1>1, <1>2, <1>3, <1>4, NextIs

LEMMA IndexInitInv == IndexInit => IndexInv
<1> SUFFICES ASSUME IndexInit PROVE IndexInv
  OBVIOUS
<1>1. IndexTypeOK
  <2>1. cancels \in 0..MaxCancels
    BY LspIndexerAssumption DEF IndexInit
  <2>2. lsp \in BOOLEAN /\ escaped \in BOOLEAN
    BY DEF IndexInit
  <2>3. phase \in {"detect", "connect", "abandon", "collect", "index", "release", "over"}
    BY DEF IndexInit
  <2> QED
    BY <2>1, <2>2, <2>3 DEF IndexInit, IndexTypeOK
<1>2. HeldIsKnown /\ Unbegun
  BY DEF IndexInit, HeldIsKnown, Unbegun
<1>5. HeldByPhase /\ LanguagesApart
  BY DEF IndexInit, HeldByPhase, LanguagesApart
<1>3. FilesComeLast /\ BareHasNoClient /\ PrintedIsFinished
  BY <1>2 DEF IndexInit, FilesComeLast, BareHasNoClient, PrintedIsFinished
<1>4. HoversFollow
  BY <1>2 DEF HoversFollow, Unbegun, Early
<1> QED
  BY <1>1, <1>2, <1>3, <1>4, <1>5 DEF IndexInv

LEMMA IndexInvStep == IndexInv /\ [IndexNext]_indexVars => IndexInv'
  BY IndexTypeStep, ApartStep, HeldStep, FilesStep, HoversStep, BareStep, PrintedStep DEF IndexInv

LEMMA IndexInvHolds == IndexSpec => []IndexInv
  BY IndexInitInv, IndexInvStep, PTL DEF IndexSpec

\* Every reachable state of the command has its type.
THEOREM IndexTypeCorrect == IndexSpec => []IndexTypeOK
<1>1. IndexInv => IndexTypeOK
  BY DEF IndexInv
<1> QED
  BY <1>1, IndexInvHolds, PTL

\* A command that is over, and in which no shutdown() raised a CancelledError, has
\* closed every connection, and let every server go that it started but for those
\* that failed over stdio: also when a server failed, the user declined, or the
\* files could not be read.
THEOREM NothingIsLeft == IndexSpec => []NothingLeftRunning
<1>1. IndexInv => NothingLeftRunning
  BY LspIndexerAssumption DEF IndexInv, HeldIsKnown, HeldByPhase, NothingLeftRunning
<1> QED
  BY <1>1, IndexInvHolds, PTL

\* An index that is printed is whole: each file at the ref is in it or has no parser,
\* and a file in a language with a server has types that no failed hover left out.
THEOREM PrintedCertified == IndexSpec => []PrintedIsCertified
<1>1. IndexInv => PrintedIsCertified
  BY DEF IndexInv, FilesComeLast, HoversFollow, Answered, BareHasNoClient, PrintedIsFinished,
         Finished, PrintedIsCertified
<1> QED
  BY <1>1, IndexInvHolds, PTL

===============================================================================
