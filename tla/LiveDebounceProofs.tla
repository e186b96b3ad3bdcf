-------------------------- MODULE LiveDebounceProofs --------------------------
(***************************************************************************)
(* Proofs about LiveDebounce, for every set of paths and every value of    *)
(* the bounds.  First, for any number of clients, what the timer table     *)
(* names and how much a stale request can still send.  Then, for a single  *)
(* client ed: no request is lost, a cancelled request is silent, and the   *)
(* debounce implements Coalescing.  Two clients that number their requests *)
(* apart can lose a request, as BurstIsAnswered says.                      *)
(***************************************************************************)
EXTENDS LiveDebounce, SequenceTheorems, TLAPS

\* Timer.cancel on any set of timers leaves a phase for every request, and
\* moves a request only from "armed" to "cancelled".
LEMMA CancelTimersPhases ==
  ASSUME TypeOK, NEW S
  PROVE  /\ CancelTimers(S) \in [Ids -> Phases]
         /\ \A r \in Ids : \/ CancelTimers(S)[r] = phase[r]
                           \/ /\ r \in S
                              /\ phase[r] = "armed"
                              /\ CancelTimers(S)[r] = "cancelled"
BY DEF CancelTimers, TypeOK, Phases, AtRest

\* What appending a request does to the requests accepted so far.
LEMMA AppendRequest ==
  ASSUME req \in Seq(Request), NEW e \in Request, req' = Append(req, e)
  PROVE  /\ req' \in Seq(Request)
         /\ Len(req') = Len(req) + 1
         /\ Submitted' = Submitted \cup {Len(req) + 1}
         /\ Submitted = 1..Len(req)
         /\ Len(req) \in Nat
         /\ req'[Len(req) + 1] = e
         /\ \A r \in Submitted : req'[r] = req[r]
BY DEF Submitted

\* What type correctness says about a submitted request.
LEMMA SubmittedFacts ==
  ASSUME TypeOK
  PROVE  /\ Len(req) \in Nat
         /\ Submitted = 1..Len(req)
         /\ Submitted \subseteq Ids
         /\ \A r \in Ids : phase[r] # "none" <=> r \in Submitted
         /\ \A r \in Submitted : /\ req[r] \in Request
                                 /\ PathOf(r) \in Paths
                                 /\ SeqOf(r) \in Seqs
                                 /\ SeqOf(r) \in Nat
                                 /\ req[r].client \in Clients
<1> USE LiveDebounceAssumption
<1>1. Len(req) \in Nat /\ Submitted = 1..Len(req) /\ Len(req) <= MaxRequests
  BY DEF TypeOK, Submitted
<1>2. Submitted \subseteq Ids
  BY <1>1 DEF Ids
<1>3. \A r \in Submitted : req[r] \in Request
  BY DEF TypeOK, Submitted
<1>4. \A r \in Ids : phase[r] # "none" <=> r \in Submitted
  BY DEF TypeOK
<1> QED
  BY <1>1, <1>2, <1>3, <1>4 DEF Request, PathOf, SeqOf, Seqs

LEMMA InitType == Init => TypeOK
<1> SUFFICES ASSUME Init PROVE TypeOK
  OBVIOUS
<1> USE LiveDebounceAssumption DEF Init
<1>1. req \in Seq(Request) /\ Len(req) = 0 /\ Submitted = {}
  BY DEF Submitted
<1>2. wire \in [Clients -> Seq(Message)]
  OBVIOUS
<1>3. phase \in [Ids -> Phases] /\ \A r \in Ids : phase[r] = "none" <=> r \notin Submitted
  BY <1>1 DEF Phases
<1>4. tracked \in [Paths -> Submitted \cup {NoTimer}] /\ latest \in [Paths -> Nat]
  BY <1>1
<1>6. clientSeq \in [Clients -> Seqs]
  <2>1. 0 \in Seqs
    BY DEF Seqs
  <2> QED
    BY <2>1
<1>7. left \in [Ids -> 0..MaxEvents] /\ late \in [Ids -> Nat]
  <2>1. 0 \in 0..MaxEvents
    OBVIOUS
  <2> QED
    BY <2>1
<1>5. Len(req) <= MaxRequests /\ cancels \in 0..MaxCancels
  BY <1>1
<1>8. stopped \in BOOLEAN /\ acked \subseteq Submitted /\ withdrawn \subseteq Submitted
  BY <1>1
<1> QED
  BY <1>1, <1>2, <1>3, <1>4, <1>5, <1>6, <1>7, <1>8 DEF TypeOK

LEMMA StepType == TypeOK /\ [Next]_vars => TypeOK'
<1> SUFFICES ASSUME TypeOK, [Next]_vars PROVE TypeOK'
  OBVIOUS
<1> USE LiveDebounceAssumption
<1>1. ASSUME NEW c \in Clients, NEW p \in Paths, NEW s \in Seqs, NEW stream \in Streams,
             ScheduleRequest(c, p, s, stream)
      PROVE  TypeOK'
  <2> DEFINE e == [path |-> p, seq |-> s, client |-> c, stream |-> stream]
  <2>1. e \in Request
    BY DEF Request
  <2>2. /\ req' \in Seq(Request)
        /\ Len(req') = Len(req) + 1
        /\ Submitted' = Submitted \cup {Len(req) + 1}
        /\ Submitted = 1..Len(req)
        /\ Len(req) \in Nat
    BY <1>1, <2>1, AppendRequest DEF ScheduleRequest, TypeOK
  <2>3. Len(req) + 1 \in Ids
    BY <1>1 DEF ScheduleRequest
  <2>4. Len(req') <= MaxRequests
    BY <2>2, <2>3 DEF Ids
  <2>5. /\ phase' \in [Ids -> Phases]
        /\ \A r \in Ids : phase'[r] = "none" <=> r \notin Submitted'
    <3>1. phase' = [CancelTimers({tracked[p]}) EXCEPT ![Len(req) + 1] = "armed"]
      BY <1>1 DEF ScheduleRequest
    <3>2. \A r \in Ids : phase[r] = "none" <=> r \notin Submitted
      BY DEF TypeOK
    <3> QED
      BY <2>2, <2>3, <3>1, <3>2, CancelTimersPhases DEF Phases, Waiting
  <2>6. /\ tracked' \in [Paths -> Submitted' \cup {NoTimer}]
        /\ latest' \in [Paths -> Nat]
        /\ clientSeq' \in [Clients -> Seqs]
    BY <1>1, <2>2 DEF ScheduleRequest, TypeOK, Later, Seqs
  <2>7. /\ left' \in [Ids -> 0..MaxEvents]
        /\ stopped' \in BOOLEAN
        /\ cancels' \in 0..MaxCancels
        /\ wire' \in [Clients -> Seq(Message)]
        /\ acked' \subseteq Submitted'
        /\ withdrawn' \subseteq Submitted'
        /\ late' \in [Ids -> Nat]
    BY <1>1, <2>2 DEF ScheduleRequest, TypeOK
  <2> QED
    BY <2>2, <2>4, <2>5, <2>6, <2>7 DEF TypeOK
<1>2. ASSUME NEW c \in Clients, NEW p \in Paths, NEW s \in Seqs, CancelPath(c, p, s)
      PROVE  TypeOK'
  <2>1. /\ phase' \in [Ids -> Phases]
        /\ \A r \in Ids : phase'[r] = "none" <=> phase[r] = "none"
    BY <1>2, CancelTimersPhases DEF CancelPath
  <2>2. StaleAfter(p, s) \in Nat
    <3>1. tracked[p] # NoTimer => SeqOf(tracked[p]) \in Nat
      <4> SUFFICES ASSUME tracked[p] # NoTimer PROVE SeqOf(tracked[p]) \in Nat
        OBVIOUS
      <4>1. req[tracked[p]] \in Request
        BY DEF TypeOK, Submitted
      <4> QED
        BY <4>1 DEF SeqOf, Request, Seqs
    <3> QED BY <3>1 DEF StaleAfter, Seqs
  <2>3. latest' \in [Paths -> Nat] /\ tracked' \in [Paths -> Submitted' \cup {NoTimer}]
    BY <1>2, <2>2 DEF CancelPath, CancelBy, TypeOK, Later, Submitted
  <2>4. /\ clientSeq' \in [Clients -> Seqs]
        /\ cancels' \in 0..MaxCancels
    BY <1>2 DEF CancelPath, CancelBy, TypeOK, Later, Seqs
  <2>5. acked' \subseteq Submitted' /\ withdrawn' \subseteq Submitted'
    BY <1>2 DEF CancelPath, CancelBy, TypeOK, Unsettled, Submitted
  <2> QED
    BY <1>2, <2>1, <2>3, <2>4, <2>5 DEF CancelPath, CancelBy, TypeOK, Submitted
<1>3. ASSUME NEW c \in Clients, NEW s \in Seqs, CancelAll(c, s)
      PROVE  TypeOK'
  <2>1. /\ phase' \in [Ids -> Phases]
        /\ \A r \in Ids : phase'[r] = "none" <=> phase[r] = "none"
    BY <1>3, CancelTimersPhases DEF CancelAll
  <2>2. latest' \in [Paths -> Nat] /\ tracked' \in [Paths -> Submitted' \cup {NoTimer}]
    BY <1>3 DEF CancelAll, CancelBy, TypeOK, Later, Submitted, Seqs
  <2>3. /\ clientSeq' \in [Clients -> Seqs]
        /\ cancels' \in 0..MaxCancels
    BY <1>3 DEF CancelAll, CancelBy, TypeOK, Later, Seqs
  <2>4. acked' \subseteq Submitted' /\ withdrawn' \subseteq Submitted'
    BY <1>3 DEF CancelAll, CancelBy, TypeOK, Unsettled, Submitted, CoveredPaths
  <2> QED
    BY <1>3, <2>1, <2>2, <2>3, <2>4 DEF CancelAll, CancelBy, TypeOK, Submitted
<1>4. ASSUME Stop PROVE TypeOK'
  <2>1. /\ phase' \in [Ids -> Phases]
        /\ \A r \in Ids : phase'[r] = "none" <=> phase[r] = "none"
    BY <1>4, CancelTimersPhases DEF Stop
  <2> QED
    BY <1>4, <2>1 DEF Stop, TypeOK, Submitted, Unsettled
<1>5. ASSUME NEW r \in Ids, TimerThread(r) PROVE TypeOK'
  <2> USE DEF TypeOK, Submitted, Phases, Waiting, Running, AtRest, Quiet
  <2>1. CASE Fire(r)
    BY <2>1 DEF Fire
  <2>2. CASE RunDiff(r)
    BY <2>2 DEF RunDiff
  <2>3. CASE ComputeDiff(r)
    <3>1. phase' \in [Ids -> Phases] /\ \A q \in Ids : phase'[q] = "none" <=> phase[q] = "none"
      BY <2>3 DEF ComputeDiff
    <3>2. (IF req[r].stream THEN MaxEvents ELSE 0) \in 0..MaxEvents
      BY LiveDebounceAssumption
    <3>3. left' = left \/ \E n \in 0..MaxEvents : left' = [left EXCEPT ![r] = n]
      <4> DEFINE k == IF req[r].stream THEN MaxEvents ELSE 0
      <4>1. k \in 0..MaxEvents
        BY <3>2
      <4>2. left' = left \/ \E n \in 0..k : left' = [left EXCEPT ![r] = n]
        BY <2>3 DEF ComputeDiff
      <4> HIDE DEF k
      <4> QED
        BY <4>1, <4>2
    <3>4. left' \in [Ids -> 0..MaxEvents]
      BY <3>3
    <3> QED
      BY <2>3, <3>1, <3>4 DEF ComputeDiff
  <2>4. CASE CheckStale(r)
    BY <2>4 DEF CheckStale
  <2>5. ASSUME NEW k \in {"event", "done", "diff", "error"}, phase[r] # "none", Put(r, k)
        PROVE  wire' \in [Clients -> Seq(Message)] /\ late' \in [Ids -> Nat]
    <3>1. [req |-> r, kind |-> k] \in Message
      BY <2>5 DEF Message
    <3>2. req[r].client \in Clients
      BY <2>5, SubmittedFacts
    <3> QED
      BY <2>5, <3>1, <3>2 DEF Put
  <2>6. CASE SendEvent(r)
    BY <2>5, <2>6 DEF SendEvent, Put
  <2>7. CASE SendFinal(r)
    BY <2>5, <2>7 DEF SendFinal, Put
  <2>8. CASE SendError(r)
    BY <2>5, <2>8 DEF SendError, Put
  <2> QED
    BY <1>5, <2>1, <2>2, <2>3, <2>4, <2>6, <2>7, <2>8 DEF TimerThread
<1>6. CASE UNCHANGED vars
  BY <1>6 DEF vars, TypeOK, Submitted
<1> QED
  BY <1>1, <1>2, <1>3, <1>4, <1>5, <1>6 DEF Next

\* Type correctness: every behaviour keeps the variables in their types.
THEOREM TypeCorrect == Spec => []TypeOK
<1> QED BY InitType, StepType, PTL DEF Spec

-------------------------------------------------------------------------------
(* What no step undoes *)

\* A new request has a new name, and old requests keep their contents.
LEMMA RequestsAreFixed ==
  ASSUME TypeOK, [Next]_vars
  PROVE  /\ Submitted \subseteq Submitted'
         /\ \A r \in Submitted : req'[r] = req[r]
<1>1. CASE req' = req
  BY <1>1 DEF Submitted
<1>2. ASSUME NEW c \in Clients, NEW p \in Paths, NEW s \in Seqs, NEW stream \in Streams,
             ScheduleRequest(c, p, s, stream)
      PROVE  /\ Submitted \subseteq Submitted'
             /\ \A r \in Submitted : req'[r] = req[r]
  <2> DEFINE e == [path |-> p, seq |-> s, client |-> c, stream |-> stream]
  <2>1. e \in Request
    BY LiveDebounceAssumption DEF Request
  <2> QED
    BY <1>2, <2>1, AppendRequest DEF ScheduleRequest, TypeOK
<1> QED
  BY <1>1, <1>2 DEF Next, vars, CancelPath, CancelAll, CancelBy, Stop, TimerThread,
       Fire, RunDiff, ComputeDiff, CheckStale, SendEvent, SendFinal, SendError, Put, Quiet

\* self._latest_seq never decreases, so a stale request stays stale.
LEMMA LatestGrows ==
  ASSUME TypeOK, [Next]_vars
  PROVE  \A p \in Paths : latest'[p] >= latest[p]
<1> SUFFICES ASSUME NEW p \in Paths PROVE latest'[p] >= latest[p]
  OBVIOUS
<1>0. latest \in [Paths -> Nat] /\ latest' \in [Paths -> Nat]
  BY StepType DEF TypeOK
<1>1. CASE latest' = latest
  BY <1>0, <1>1
<1>2. ASSUME NEW c \in Clients, NEW q \in Paths, NEW s \in Seqs, NEW stream \in Streams,
             ScheduleRequest(c, q, s, stream)
      PROVE  latest'[p] >= latest[p]
  BY <1>0, <1>2 DEF ScheduleRequest, Later, Seqs
<1>3. ASSUME NEW c \in Clients, NEW q \in Paths, NEW s \in Seqs, CancelPath(c, q, s)
      PROVE  latest'[p] >= latest[p]
  <2>1. latest' = [latest EXCEPT ![q] = Later(@, StaleAfter(q, s))]
    BY <1>3 DEF CancelPath
  <2>2. latest'[q] = Later(latest[q], StaleAfter(q, s))
    BY <1>0, <2>1
  <2>3. p # q => latest'[p] = latest[p]
    BY <1>0, <2>1
  <2> QED
    BY <1>0, <2>2, <2>3 DEF Later
<1>4. ASSUME NEW c \in Clients, NEW s \in Seqs, CancelAll(c, s)
      PROVE  latest'[p] >= latest[p]
  BY <1>0, <1>4, LiveDebounceAssumption DEF CancelAll, Later, Seqs
<1> QED
  BY <1>1, <1>2, <1>3, <1>4 DEF Next, vars, Stop, TimerThread, Fire, RunDiff,
       ComputeDiff, CheckStale, SendEvent, SendFinal, SendError, Put, Quiet

LEMMA StaleForever ==
  ASSUME TypeOK, [Next]_vars, NEW r \in Submitted, Stale(r)
  PROVE  Stale(r)'
<1>2. PathOf(r) \in Paths /\ SeqOf(r) \in Nat
  BY SubmittedFacts
<1>3. PathOf(r)' = PathOf(r) /\ SeqOf(r)' = SeqOf(r)
  BY RequestsAreFixed DEF PathOf, SeqOf
<1>4. latest \in [Paths -> Nat] /\ latest' \in [Paths -> Nat]
  BY StepType DEF TypeOK
<1> QED
  BY <1>2, <1>3, <1>4, LatestGrows DEF Stale

-------------------------------------------------------------------------------
(* At most one late message *)

\* A request that has sent a message after it became stale is past the send:
\* what is left for it is a stale check, which will stop it, or nothing.
LateInv ==
  \A r \in Ids : late[r] # 0 =>
    /\ late[r] = 1
    /\ r \in Submitted
    /\ Stale(r)
    /\ phase[r] \in {"ready", "dropped", "answered", "refused"}

LEMMA LateStep == TypeOK /\ LateInv /\ [Next]_vars => LateInv'
<1> DEFINE Past == {"ready", "dropped", "answered", "refused"}
           Fine(r) == late'[r] = 1 /\ r \in Submitted' /\ Stale(r)' /\ phase'[r] \in Past
<1> SUFFICES ASSUME TypeOK, LateInv, [Next]_vars, NEW r \in Ids, late'[r] # 0
             PROVE  Fine(r)
  BY DEF LateInv
<1>1. ASSUME late'[r] = late[r], late[r] # 0 => phase'[r] \in Past
      PROVE  Fine(r)
  \* Nothing is sent for r.
  BY <1>1, StaleForever, RequestsAreFixed DEF LateInv
<1>2. ASSUME late' = late, phase[r] \in Past => phase'[r] = phase[r]
      PROVE  Fine(r)
  BY <1>1, <1>2 DEF LateInv
<1>3. ASSUME NEW c \in Clients, NEW p \in Paths, NEW s \in Seqs, NEW stream \in Streams,
             ScheduleRequest(c, p, s, stream)
      PROVE  Fine(r)
  <2>1. Len(req) + 1 \notin Submitted
    BY SubmittedFacts
  <2>2. r # Len(req) + 1 => phase'[r] = CancelTimers({tracked[p]})[r]
    BY <1>3, CancelTimersPhases DEF ScheduleRequest
  <2>3. late' = late
    BY <1>3 DEF ScheduleRequest
  <2>4. late[r] # 0 => r # Len(req) + 1
    BY <2>1 DEF LateInv
  <2> QED
    BY <1>1, <2>2, <2>3, <2>4, CancelTimersPhases DEF LateInv
<1>4. ASSUME NEW c \in Clients, NEW p \in Paths, NEW s \in Seqs, CancelPath(c, p, s)
      PROVE  Fine(r)
  BY <1>2, <1>4, CancelTimersPhases DEF CancelPath, CancelBy
<1>5. ASSUME NEW c \in Clients, NEW s \in Seqs, CancelAll(c, s)
      PROVE  Fine(r)
  BY <1>2, <1>5, CancelTimersPhases DEF CancelAll, CancelBy
<1>6. CASE Stop
  BY <1>2, <1>6, CancelTimersPhases DEF Stop
<1>7. ASSUME NEW q \in Ids, Fire(q) \/ RunDiff(q) \/ ComputeDiff(q)
      PROVE  Fine(r)
  BY <1>2, <1>7 DEF Fire, RunDiff, ComputeDiff, TypeOK
<1>8. ASSUME NEW q \in Ids, CheckStale(q)
      PROVE  Fine(r)
  BY <1>1, <1>8 DEF CheckStale, LateInv, TypeOK
<1>9. ASSUME NEW q \in Ids, NEW k, Put(q, k), phase[q] \in {"sending", "failed"},
             phase' = [phase EXCEPT ![q] = phase'[q]], phase'[q] \in Past
      PROVE  Fine(r)
  <2>1. CASE r # q
    <3>1. late'[r] = late[r] /\ phase'[r] = phase[r]
      BY <1>9, <2>1 DEF Put, TypeOK
    <3> QED
      BY <1>1, <3>1 DEF LateInv
  <2>2. CASE r = q
    \* Before the send r was not late; it is now only if it was stale.
    <3>1. late[r] = 0
      BY <1>9, <2>2 DEF LateInv, TypeOK
    <3>2. Stale(r) /\ late'[r] = 1
      BY <1>9, <2>2, <3>1 DEF Put, TypeOK
    <3>3. r \in Submitted
      BY <1>9, <2>2, SubmittedFacts
    <3> QED
      BY <1>9, <2>2, <3>2, <3>3, StaleForever, RequestsAreFixed
  <2> QED
    BY <2>1, <2>2
<1>10. ASSUME NEW q \in Ids, SendEvent(q) \/ SendFinal(q) \/ SendError(q)
       PROVE  Fine(r)
  <2>1. /\ \E k : Put(q, k)
        /\ phase[q] \in {"sending", "failed"}
        /\ phase' = [phase EXCEPT ![q] = phase'[q]]
        /\ phase'[q] \in Past
    BY <1>10 DEF SendEvent, SendFinal, SendError, TypeOK
  <2> QED
    BY <1>9, <2>1
<1>11. CASE UNCHANGED vars
  BY <1>2, <1>11 DEF vars
<1> QED
  BY <1>3, <1>4, <1>5, <1>6, <1>7, <1>8, <1>10, <1>11 DEF Next, TimerThread

\* A stale request sends at most one more message, however its thread, the
\* other threads and the clients are interleaved.
THEOREM LateBound == Spec => []AtMostOneLateMessage
<1>1. Init => LateInv
  BY DEF Init, LateInv
<1>2. LateInv => AtMostOneLateMessage
  <2> SUFFICES ASSUME LateInv, NEW r \in Ids PROVE late[r] <= 1
    BY DEF AtMostOneLateMessage
  <2>1. late[r] = 0 \/ late[r] = 1
    BY DEF LateInv
  <2> QED
    BY <2>1
<1> QED
  BY <1>1, <1>2, LateStep, TypeCorrect, PTL DEF Spec

-------------------------------------------------------------------------------
(* The timer table *)

LEMMA TrackedStep == TypeOK /\ TrackedIsNewest /\ [Next]_vars => TrackedIsNewest'
<1> DEFINE Good(p) == /\ PathOf(tracked[p]) = p
                      /\ phase[tracked[p]] \in Waiting
                      /\ ~Superseded(tracked[p])
<1> SUFFICES ASSUME TypeOK, TrackedIsNewest, [Next]_vars,
                    NEW p \in Paths, tracked'[p] # NoTimer
             PROVE  Good(p)'
  BY DEF TrackedIsNewest
<1>0. tracked[p] # NoTimer => tracked[p] \in Submitted /\ tracked[p] \in Ids /\ Good(p)
  BY SubmittedFacts DEF TypeOK, TrackedIsNewest
\* A step that accepts no request and leaves the entry and its phase alone.
<1>1. ASSUME req' = req, tracked'[p] = tracked[p],
             phase'[tracked[p]] \in Waiting
      PROVE  Good(p)'
  BY <1>0, <1>1 DEF PathOf, Superseded, Submitted
<1>2. ASSUME NEW c \in Clients, NEW q \in Paths, NEW s \in Seqs, NEW stream \in Streams,
             ScheduleRequest(c, q, s, stream)
      PROVE  Good(p)'
  <2> DEFINE e == [path |-> q, seq |-> s, client |-> c, stream |-> stream]
  <2>0. PICK n \in Nat : n = Len(req) + 1
    BY SubmittedFacts
  <2>1. e \in Request
    BY LiveDebounceAssumption DEF Request
  <2>2. /\ Submitted' = Submitted \cup {n}
        /\ req'[n] = e
        /\ \A r \in Submitted : req'[r] = req[r]
    BY <1>2, <2>0, <2>1, AppendRequest DEF ScheduleRequest, TypeOK
  <2>3. n \in Ids /\ n \in Nat /\ \A r \in Submitted : r < n
    BY <1>2, <2>0, SubmittedFacts DEF ScheduleRequest, Ids
  <2>4. /\ phase' = [CancelTimers({tracked[q]}) EXCEPT ![n] = "armed"]
        /\ tracked' = [tracked EXCEPT ![q] = n]
    BY <1>2, <2>0 DEF ScheduleRequest
  <2>5. CASE p = q
    <3>1. tracked'[p] = n /\ phase'[n] = "armed"
      BY <2>3, <2>4, <2>5, CancelTimersPhases DEF TypeOK
    <3>2. PathOf(n)' = p
      BY <2>2, <2>5 DEF PathOf
    <3>3. ~Superseded(n)'
      <4>1. \A r \in Submitted' : ~(r > n)
        BY <2>2, <2>3, SubmittedFacts
      <4> QED
        BY <4>1 DEF Superseded
    <3> QED
      BY <3>1, <3>2, <3>3 DEF Waiting, Superseded, PathOf
  <2>6. CASE p # q
    <3>0. PICK t \in Submitted \cup {NoTimer} : t = tracked[p]
      BY DEF TypeOK
    <3>1. tracked'[p] = t /\ t # NoTimer
      BY <2>4, <2>6, <3>0 DEF TypeOK
    <3>2. t \in Submitted /\ t \in Ids /\ t # n
         /\ PathOf(t) = p /\ phase[t] \in Waiting /\ ~Superseded(t)
      BY <1>0, <2>3, <3>0, <3>1
    <3>3. t # tracked[q]
      BY <2>6, <3>0, <3>1, <3>2 DEF TrackedIsNewest
    <3>4. phase'[t] = phase[t]
      BY <2>4, <3>2, <3>3, CancelTimersPhases
    <3>5. PathOf(t)' = p /\ PathOf(n)' = q /\ \A r \in Submitted : PathOf(r)' = PathOf(r)
      BY <2>2, <3>2 DEF PathOf
    <3>6. ~Superseded(t)'
      BY <2>2, <2>6, <3>2, <3>5 DEF Superseded
    <3> QED
      BY <3>1, <3>2, <3>4, <3>5, <3>6 DEF Superseded, PathOf
  <2> QED
    BY <2>5, <2>6
\* The three that cancel timers: an entry they leave keeps its phase.
<1>3. ASSUME NEW S, NEW C \in SUBSET Paths, req' = req,
             tracked' = [q \in Paths |-> IF q \in C THEN NoTimer ELSE tracked[q]],
             phase' = CancelTimers({tracked[q] : q \in C})
      PROVE  Good(p)'
  <2>1. p \notin C /\ tracked'[p] = tracked[p] /\ tracked[p] # NoTimer
    BY <1>3
  <2>2. tracked[p] \notin {tracked[q] : q \in C}
    BY <2>1 DEF TrackedIsNewest
  <2>3. phase'[tracked[p]] = phase[tracked[p]]
    BY <1>0, <1>3, <2>1, <2>2, CancelTimersPhases
  <2> QED
    BY <1>0, <1>1, <1>3, <2>1, <2>3
<1>4. ASSUME NEW c \in Clients, NEW q \in Paths, NEW s \in Seqs, CancelPath(c, q, s)
      PROVE  Good(p)'
  <2>1. {tracked[x] : x \in {q}} = {tracked[q]}
    OBVIOUS
  <2>2. tracked' = [x \in Paths |-> IF x \in {q} THEN NoTimer ELSE tracked[x]]
    BY <1>4 DEF CancelPath, TypeOK
  <2> QED
    BY <1>3, <1>4, <2>1, <2>2 DEF CancelPath, CancelBy
<1>5. ASSUME NEW c \in Clients, NEW s \in Seqs, CancelAll(c, s)
      PROVE  Good(p)'
  <2>1. CoveredPaths(s) \in SUBSET Paths
    BY DEF CoveredPaths
  <2> QED
    BY <1>3, <1>5, <2>1 DEF CancelAll, CancelBy
<1>6. CASE Stop
  BY <1>6 DEF Stop
<1>7. ASSUME NEW r \in Ids, Fire(r)
      PROVE  Good(p)'
  BY <1>0, <1>1, <1>7 DEF Fire, Quiet, Waiting, TypeOK
<1>8. ASSUME NEW r \in Ids, RunDiff(r)
      PROVE  Good(p)'
  <2>1. tracked'[p] = tracked[p] /\ p # PathOf(r)
    BY <1>8 DEF RunDiff, TypeOK
  <2>2. tracked[p] # r
    BY <1>0, <2>1
  <2>3. phase'[tracked[p]] = phase[tracked[p]]
    BY <1>0, <1>8, <2>1, <2>2 DEF RunDiff, TypeOK
  <2> QED
    BY <1>0, <1>1, <1>8, <2>1, <2>3 DEF RunDiff, Quiet
<1>9. ASSUME NEW r \in Ids, phase[r] \in Running, req' = req, tracked' = tracked,
             phase' = [phase EXCEPT ![r] = phase'[r]]
      PROVE  Good(p)'
  <2>1. tracked[p] # r
    BY <1>0, <1>9 DEF Waiting, Running
  <2> QED
    BY <1>0, <1>1, <1>9, <2>1 DEF TypeOK
<1>10. ASSUME NEW r \in Ids,
              \/ ComputeDiff(r) \/ CheckStale(r)
              \/ SendEvent(r) \/ SendFinal(r) \/ SendError(r)
       PROVE  Good(p)'
  <2>1. /\ phase[r] \in Running /\ req' = req /\ tracked' = tracked
        /\ phase' = [phase EXCEPT ![r] = phase'[r]]
    BY <1>10 DEF ComputeDiff, CheckStale, SendEvent, SendFinal, SendError,
                 Put, Quiet, Running, TypeOK
  <2> QED
    BY <1>9, <2>1
<1>11. CASE UNCHANGED vars
  BY <1>0, <1>1, <1>11 DEF vars
<1> QED
  BY <1>2, <1>4, <1>5, <1>6, <1>7, <1>8, <1>10, <1>11 DEF Next, TimerThread

\* The entry of a path in the timer table is its newest request, not yet run.
THEOREM TrackedNewest == Spec => []TrackedIsNewest
<1>1. Init => TrackedIsNewest
  BY DEF Init, TrackedIsNewest, NoTimer
<1> QED
  BY <1>1, TrackedStep, TypeCorrect, PTL DEF Spec

-------------------------------------------------------------------------------
(* A single client. *)

\* The last number used bounds the requests' numbers and, but for the one
\* added by a cancel, those of the latest table; a request that is stale and
\* not yet settled has been superseded or withdrawn.
Numbered(ed) ==
  /\ \A r \in Submitted : SeqOf(r) <= clientSeq[ed]
  /\ \A p \in Paths : latest[p] <= clientSeq[ed] + 1

StaleIsExcused ==
  \A r \in Unsettled : Stale(r) => Superseded(r) \/ r \in withdrawn

LossInv(ed) == Numbered(ed) /\ StaleIsExcused /\ NoRequestLost

\* A timer a cancel counted is dead, or has fired and will find itself stale;
\* nothing has been sent for a request whose run has not begun.
AckedIsDoomed ==
  \A r \in acked : \/ phase[r] \in {"cancelled", "dropped"}
                   \/ phase[r] = "fired" /\ Stale(r)

UnstartedIsSilent ==
  \A c \in Clients : \A i \in DOMAIN wire[c] :
    phase[wire[c][i].req] \notin Waiting \cup {"none", "cancelled"}

SilentInv == AckedIsDoomed /\ UnstartedIsSilent /\ CancelledIsSilent

-------------------------------------------------------------------------------
(* No request is lost *)

Excused(r) == Superseded(r) \/ r \in withdrawn

LEMMA ExcusedForever ==
  ASSUME TypeOK, [Next]_vars, NEW r \in Submitted, Excused(r)
  PROVE  Excused(r)'
<1>1. withdrawn \subseteq withdrawn'
  BY DEF Next, vars, ScheduleRequest, CancelPath, CancelAll, CancelBy, Stop, TimerThread,
         Fire, RunDiff, ComputeDiff, CheckStale, SendEvent, SendFinal, SendError, Put, Quiet
<1>2. Superseded(r) => Superseded(r)'
  BY RequestsAreFixed DEF Superseded, PathOf
<1> QED
  BY <1>1, <1>2 DEF Excused

\* A step in which no request appears and no number changes keeps LossInv if
\* every request it settles unanswered is excused, or was stale.
LEMMA LossQuietStep ==
  ASSUME NEW ed, TypeOK, LossInv(ed), [Next]_vars,
         req' = req, clientSeq' = clientSeq, latest' = latest,
         \A r \in Submitted :
           \/ phase'[r] = phase[r]
           \/ /\ r \in Unsettled
              /\ phase'[r] \in {"cancelled", "dropped"} => Stale(r) \/ Excused(r)'
  PROVE  LossInv(ed)'
<1>1. /\ Submitted' = Submitted
      /\ \A r \in Submitted : Stale(r)' = Stale(r) /\ PathOf(r)' = PathOf(r) /\ SeqOf(r)' = SeqOf(r)
  BY DEF Submitted, Stale, PathOf, SeqOf
<1>2. Numbered(ed)'
  BY <1>1 DEF LossInv, Numbered
<1>3. \A r \in Submitted : Excused(r) => Excused(r)'
  BY ExcusedForever
<1>4. Unsettled' \subseteq Unsettled
  BY <1>1 DEF Unsettled, Waiting, Running
<1>5. StaleIsExcused'
  BY <1>1, <1>3, <1>4 DEF LossInv, StaleIsExcused, Excused, Unsettled
<1>6. NoRequestLost'
  <2> SUFFICES ASSUME NEW r \in Submitted, phase'[r] \in {"cancelled", "dropped"}
               PROVE  Excused(r)'
    BY <1>1 DEF NoRequestLost, Excused
  <2>1. CASE phase'[r] = phase[r]
    BY <1>3, <2>1 DEF LossInv, NoRequestLost, Excused
  <2>2. CASE r \in Unsettled /\ Stale(r)
    BY <1>3, <2>2 DEF LossInv, StaleIsExcused, Excused
  <2> QED
    BY <2>1, <2>2
<1> QED
  BY <1>2, <1>5, <1>6 DEF LossInv

\* Accepting a request: it is the newest of its path and not stale, and it
\* supersedes every other request for the path.
LEMMA LossScheduleStep ==
  ASSUME NEW ed \in Clients, TypeOK, TrackedIsNewest, LossInv(ed), [Next]_vars,
         NEW p \in Paths, NEW s \in Seqs, NEW stream \in Streams,
         ScheduleRequest(ed, p, s, stream)
  PROVE  LossInv(ed)'
<1> DEFINE e == [path |-> p, seq |-> s, client |-> ed, stream |-> stream]
<1>0. PICK n \in Nat : n = Len(req) + 1
  BY SubmittedFacts
<1>1. e \in Request /\ s \in Nat
  BY LiveDebounceAssumption DEF Request, Seqs
<1>2. /\ Submitted' = Submitted \cup {n}
      /\ req'[n] = e
      /\ \A r \in Submitted : req'[r] = req[r]
  BY <1>0, <1>1, AppendRequest DEF ScheduleRequest, TypeOK
<1>3. n \in Ids /\ \A r \in Submitted : r < n /\ r \in Ids
  BY <1>0, SubmittedFacts DEF ScheduleRequest, Ids
<1>4. /\ clientSeq[ed] \in Nat /\ clientSeq[ed] < s /\ clientSeq'[ed] = s
      /\ latest[p] \in Nat /\ latest[p] <= s
  BY LiveDebounceAssumption DEF ScheduleRequest, TypeOK, Seqs, LossInv, Numbered
<1>5. latest'[p] = s /\ \A q \in Paths : q # p => latest'[q] = latest[q]
  <2>1. latest' = [latest EXCEPT ![p] = Later(@, s)] /\ latest \in [Paths -> Nat]
    BY DEF ScheduleRequest, TypeOK
  <2>2. latest'[p] = Later(latest[p], s) /\ \A q \in Paths : q # p => latest'[q] = latest[q]
    BY <2>1
  <2> QED
    BY <1>1, <1>4, <2>2 DEF Later
<1>6. /\ PathOf(n)' = p /\ SeqOf(n)' = s
      /\ \A r \in Submitted : PathOf(r)' = PathOf(r) /\ SeqOf(r)' = SeqOf(r)
  BY <1>2 DEF PathOf, SeqOf
<1>7. \A r \in Submitted : PathOf(r) = p => Superseded(r)'
  BY <1>2, <1>3, <1>6 DEF Superseded, PathOf
<1>8. Numbered(ed)'
  <2>1. \A r \in Submitted : SeqOf(r) \in Nat /\ SeqOf(r) <= s
    <3>1. \A r \in Submitted : SeqOf(r) <= clientSeq[ed]
      BY DEF LossInv, Numbered
    <3>2. \A r \in Submitted : SeqOf(r) \in Nat
      BY SubmittedFacts
    <3> QED
      BY <1>1, <1>4, <3>1, <3>2
  <2>2. \A q \in Paths : latest[q] \in Nat /\ latest[q] <= s + 1
    BY <1>1, <1>4 DEF LossInv, Numbered, TypeOK
  <2> QED
    BY <1>1, <1>2, <1>4, <1>5, <1>6, <2>1, <2>2 DEF Numbered
<1>9. \A r \in Submitted : Excused(r) => Excused(r)'
  BY ExcusedForever
<1>10. \A r \in Submitted : PathOf(r) # p => phase'[r] = phase[r]
  <2> SUFFICES ASSUME NEW r \in Submitted, PathOf(r) # p PROVE phase'[r] = phase[r]
    OBVIOUS
  <2>1. r # tracked[p] /\ r # n
    BY <1>3, SubmittedFacts DEF TrackedIsNewest, NoTimer
  <2>2. phase' = [CancelTimers({tracked[p]}) EXCEPT ![n] = "armed"] /\ r \in Ids
    BY <1>0, <1>3 DEF ScheduleRequest
  <2> QED
    BY <2>1, <2>2, CancelTimersPhases
<1>11. phase'[n] = "armed"
  BY <1>0, <1>3, CancelTimersPhases DEF ScheduleRequest
<1>12. StaleIsExcused'
  <2> SUFFICES ASSUME NEW r \in Unsettled', Stale(r)'
               PROVE  Excused(r)'
    BY DEF StaleIsExcused, Excused
  <2>1. r # n
    BY <1>1, <1>5, <1>6 DEF Stale
  <2>2. r \in Submitted
    BY <1>2, <2>1 DEF Unsettled
  <2>3. CASE PathOf(r) = p
    BY <1>7, <2>2, <2>3 DEF Excused
  <2>4. CASE PathOf(r) # p
    <3>1. r \in Unsettled /\ Stale(r)
      BY <1>5, <1>6, <1>10, <2>2, <2>4, SubmittedFacts DEF Unsettled, Stale
    <3> QED
      BY <1>9, <2>2, <3>1 DEF LossInv, StaleIsExcused, Excused
  <2> QED
    BY <2>3, <2>4
<1>13. NoRequestLost'
  <2> SUFFICES ASSUME NEW r \in Submitted', phase'[r] \in {"cancelled", "dropped"}
               PROVE  Excused(r)'
    BY DEF NoRequestLost, Excused
  <2>1. r \in Submitted
    BY <1>2, <1>11
  <2> QED
    BY <1>7, <1>9, <1>10, <2>1 DEF LossInv, NoRequestLost, Excused
<1> QED
  BY <1>8, <1>12, <1>13 DEF LossInv

\* Cancelling: the numbers stay bounded, and whatever the cancel makes stale
\* or stops is withdrawn, or was excused before.
LEMMA LossCancelStep ==
  ASSUME NEW ed \in Clients, TypeOK, LossInv(ed), [Next]_vars, NEW s \in Seqs,
         req' = req,
         clientSeq' = [clientSeq EXCEPT ![ed] = Later(@, s)],
         \A p \in Paths : latest'[p] <= Later(clientSeq[ed], s) + 1,
         \A r \in Unsettled : Stale(r)' => Stale(r) \/ r \in withdrawn',
         \A r \in Submitted :
           \/ phase'[r] = phase[r]
           \/ r \in Unsettled /\ phase'[r] = "cancelled" /\ r \in withdrawn'
  PROVE  LossInv(ed)'
<1>1. /\ Submitted' = Submitted
      /\ \A r \in Submitted : PathOf(r)' = PathOf(r) /\ SeqOf(r)' = SeqOf(r)
  BY DEF Submitted, PathOf, SeqOf
<1>2. Numbered(ed)'
  <2>1. clientSeq'[ed] = Later(clientSeq[ed], s)
    BY DEF TypeOK
  <2>2. /\ clientSeq[ed] \in Nat /\ s \in Nat
        /\ \A r \in Submitted : SeqOf(r) \in Nat /\ SeqOf(r) <= clientSeq[ed]
    BY LiveDebounceAssumption, SubmittedFacts DEF TypeOK, Seqs, LossInv, Numbered
  <2>3. \A r \in Submitted : SeqOf(r) <= Later(clientSeq[ed], s)
    BY <2>2 DEF Later
  <2> QED
    BY <1>1, <2>1, <2>3 DEF Numbered
<1>3. \A r \in Submitted : Excused(r) => Excused(r)'
  BY ExcusedForever
<1>4. Unsettled' \subseteq Unsettled /\ Unsettled \subseteq Submitted
  BY <1>1 DEF Unsettled, Waiting, Running
<1>5. StaleIsExcused'
  <2> SUFFICES ASSUME NEW r \in Unsettled', Stale(r)'
               PROVE  Excused(r)'
    BY DEF StaleIsExcused, Excused
  <2>1. r \in Unsettled /\ r \in Submitted
    BY <1>4
  <2>2. CASE Stale(r)
    BY <1>3, <2>1, <2>2 DEF LossInv, StaleIsExcused, Excused
  <2> QED
    BY <2>1, <2>2 DEF Excused
<1>6. NoRequestLost'
  BY <1>1, <1>3 DEF LossInv, NoRequestLost, Excused
<1> QED
  BY <1>2, <1>5, <1>6 DEF LossInv

LEMMA LossStep ==
  ASSUME NEW ed, Clients = {ed}
  PROVE  TypeOK /\ TrackedIsNewest /\ LossInv(ed) /\ [Next]_vars => LossInv(ed)'
<1> SUFFICES ASSUME TypeOK, TrackedIsNewest, LossInv(ed), [Next]_vars
             PROVE  LossInv(ed)'
  OBVIOUS
<1>0. /\ ed \in Clients
      /\ clientSeq[ed] \in Nat
      /\ \A p \in Paths : latest[p] \in Nat /\ latest[p] <= clientSeq[ed] + 1
      /\ \A r \in Submitted : /\ SeqOf(r) \in Nat /\ SeqOf(r) <= clientSeq[ed]
                              /\ PathOf(r) \in Paths /\ r \in Ids
      /\ \A s \in Seqs : s \in Nat
  BY LiveDebounceAssumption, SubmittedFacts DEF TypeOK, Seqs, LossInv, Numbered
<1>1. ASSUME NEW c \in Clients, NEW p \in Paths, NEW s \in Seqs, NEW stream \in Streams,
             ScheduleRequest(c, p, s, stream)
      PROVE  LossInv(ed)'
  BY <1>0, <1>1, LossScheduleStep
<1>2. ASSUME NEW S, NEW r \in Submitted, CancelTimers(S)[r] # phase[r]
      PROVE  r \in S /\ r \in Unsettled /\ CancelTimers(S)[r] = "cancelled"
  BY <1>0, <1>2, CancelTimersPhases DEF Unsettled, Waiting
<1>3. ASSUME NEW c \in Clients, NEW p \in Paths, NEW s \in Seqs, CancelPath(c, p, s)
      PROVE  LossInv(ed)'
  <2>1. /\ req' = req /\ clientSeq' = [clientSeq EXCEPT ![ed] = Later(@, s)]
        /\ phase' = CancelTimers({tracked[p]})
        /\ latest' = [latest EXCEPT ![p] = Later(@, StaleAfter(p, s))]
        /\ withdrawn' = withdrawn \cup {r \in Unsettled : PathOf(r) = p}
    BY <1>3 DEF CancelPath, CancelBy
  <2>2. /\ latest'[p] = Later(latest[p], StaleAfter(p, s))
        /\ \A q \in Paths : q # p => latest'[q] = latest[q]
    BY <2>1 DEF TypeOK
  <2>3. StaleAfter(p, s) \in Nat /\ StaleAfter(p, s) <= Later(clientSeq[ed], s) + 1
    <3>1. tracked[p] # NoTimer => tracked[p] \in Submitted
      BY DEF TypeOK
    <3> QED
      BY <1>0, <3>1 DEF StaleAfter, Later
  <2>4. \A q \in Paths : latest'[q] <= Later(clientSeq[ed], s) + 1
    BY <1>0, <2>2, <2>3 DEF Later
  <2>5. \A r \in Unsettled : Stale(r)' => Stale(r) \/ r \in withdrawn'
    BY <1>0, <2>1, <2>2 DEF Stale, PathOf, SeqOf, Unsettled
  <2>6. \A r \in Submitted :
          \/ phase'[r] = phase[r]
          \/ r \in Unsettled /\ phase'[r] = "cancelled" /\ r \in withdrawn'
    <3> SUFFICES ASSUME NEW r \in Submitted, phase'[r] # phase[r]
                 PROVE  r \in Unsettled /\ phase'[r] = "cancelled" /\ r \in withdrawn'
      OBVIOUS
    <3>1. r = tracked[p] /\ r \in Unsettled /\ phase'[r] = "cancelled"
      BY <1>2, <2>1
    <3>2. r # NoTimer
      BY SubmittedFacts DEF NoTimer
    <3>3. PathOf(r) = p
      BY <3>1, <3>2 DEF TrackedIsNewest
    <3> QED
      BY <2>1, <3>1, <3>3
  <2> QED
    BY <1>0, <2>1, <2>4, <2>5, <2>6, LossCancelStep
<1>4. ASSUME NEW c \in Clients, NEW s \in Seqs, CancelAll(c, s)
      PROVE  LossInv(ed)'
  <2>1. /\ req' = req /\ clientSeq' = [clientSeq EXCEPT ![ed] = Later(@, s)]
        /\ phase' = CancelTimers({tracked[p] : p \in CoveredPaths(s)})
        /\ latest' = [p \in Paths |->
             IF p \in CoveredPaths(s) THEN Later(latest[p], s + 1) ELSE latest[p]]
        /\ withdrawn' = withdrawn \cup {r \in Unsettled : SeqOf(r) <= s}
    BY <1>4 DEF CancelAll, CancelBy
  <2>2. \A q \in Paths : latest'[q] <= Later(clientSeq[ed], s) + 1
    BY <1>0, <2>1 DEF Later
  <2>3. \A r \in Unsettled : Stale(r)' => Stale(r) \/ r \in withdrawn'
    <3> SUFFICES ASSUME NEW r \in Unsettled, Stale(r)', ~(SeqOf(r) <= s)
                 PROVE  Stale(r)
      BY <2>1
    <3>1. r \in Submitted /\ PathOf(r) \in Paths /\ SeqOf(r) \in Nat /\ s \in Nat
      BY <1>0 DEF Unsettled
    <3>2. SeqOf(r) < latest'[PathOf(r)]
      BY <2>1 DEF Stale, PathOf, SeqOf
    <3>3. latest[PathOf(r)] \in Nat /\ SeqOf(r) >= s + 1
      BY <1>0, <3>1
    <3>4. \/ latest'[PathOf(r)] = latest[PathOf(r)]
          \/ latest'[PathOf(r)] = Later(latest[PathOf(r)], s + 1)
      BY <2>1, <3>1
    <3> QED
      BY <3>1, <3>2, <3>3, <3>4 DEF Stale, Later
  <2>4. \A r \in Submitted :
          \/ phase'[r] = phase[r]
          \/ r \in Unsettled /\ phase'[r] = "cancelled" /\ r \in withdrawn'
    BY <1>2, <2>1 DEF CoveredPaths
  <2> QED
    BY <1>0, <2>1, <2>2, <2>3, <2>4, LossCancelStep
<1>5. CASE Stop
  <2>1. /\ req' = req /\ clientSeq' = clientSeq /\ latest' = latest
        /\ phase' = CancelTimers({tracked[p] : p \in Paths})
        /\ Unsettled \subseteq withdrawn'
    BY <1>5 DEF Stop
  <2>2. withdrawn' = withdrawn \cup Unsettled
    BY <1>5 DEF Stop
  <2>3. \A r \in Submitted : \/ phase'[r] = phase[r]
                             \/ r \in Unsettled /\ Excused(r)'
    BY <1>2, <2>1 DEF Excused
  <2> QED
    BY <1>0, <2>1, <2>3, LossQuietStep
<1>6. ASSUME NEW r \in Ids, TimerThread(r)
      PROVE  LossInv(ed)'
  <2>1. req' = req /\ clientSeq' = clientSeq /\ latest' = latest
    BY <1>6 DEF TimerThread, Fire, RunDiff, ComputeDiff, CheckStale,
                SendEvent, SendFinal, SendError, Put, Quiet
  <2>2. /\ phase[r] \in Waiting \cup Running
        /\ \A q \in Ids : q # r => phase'[q] = phase[q]
        /\ phase'[r] \in {"cancelled", "dropped"} => Stale(r)
    BY <1>6 DEF TimerThread, Fire, RunDiff, ComputeDiff, CheckStale,
                SendEvent, SendFinal, SendError, Waiting, Running, TypeOK
  <2>3. \A q \in Submitted :
          \/ phase'[q] = phase[q]
          \/ /\ q \in Unsettled
             /\ phase'[q] \in {"cancelled", "dropped"} => Stale(q) \/ Excused(q)'
    BY <1>0, <2>2 DEF Unsettled
  <2> QED
    BY <1>0, <2>1, <2>3, LossQuietStep
<1>7. CASE UNCHANGED vars
  BY <1>0, <1>7, LossQuietStep DEF vars
<1> QED
  BY <1>1, <1>3, <1>4, <1>5, <1>6, <1>7 DEF Next

\* With one client, a request is given up only if a later one for its path
\* was accepted or a cancel or stop() covered it.
THEOREM NothingLost ==
  ASSUME NEW ed, Clients = {ed}
  PROVE  Spec => []NoRequestLost
<1>1. Init => LossInv(ed)
  BY DEF Init, LossInv, Numbered, StaleIsExcused, NoRequestLost, Unsettled, Submitted
<1>2. LossInv(ed) => NoRequestLost
  BY DEF LossInv
<1> QED
  BY <1>1, <1>2, LossStep, TypeCorrect, TrackedNewest, PTL DEF Spec

\* Every path that was asked for has a request that no later one supersedes.
HasNewest ==
  \A r \in Submitted : \E q \in Submitted : PathOf(q) = PathOf(r) /\ ~Superseded(q)

LEMMA NewestStep == TypeOK /\ HasNewest /\ [Next]_vars => HasNewest'
<1> SUFFICES ASSUME TypeOK, HasNewest, [Next]_vars
             PROVE  HasNewest'
  OBVIOUS
<1>1. ASSUME req' = req
      PROVE  HasNewest'
  BY <1>1 DEF HasNewest, Superseded, PathOf, Submitted
<1>2. ASSUME NEW c \in Clients, NEW p \in Paths, NEW s \in Seqs, NEW stream \in Streams,
             ScheduleRequest(c, p, s, stream)
      PROVE  HasNewest'
  <2>1. PICK n \in {Len(req) + 1} : TRUE
    OBVIOUS
  <2>2. PICK e \in Request : e.path = p /\ req' = Append(req, e)
    BY <1>2, LiveDebounceAssumption DEF ScheduleRequest, Request
  <2>3. /\ Submitted' = Submitted \cup {n} /\ n \in Nat
        /\ \A r \in Submitted : r \in Nat /\ r < n
        /\ req'[n].path = p /\ \A r \in Submitted : req'[r] = req[r]
    BY <2>1, <2>2, AppendRequest, AppendProperties DEF TypeOK
  <2>4. ~Superseded(n)'
    BY <2>3 DEF Superseded
  <2>5. ASSUME NEW r \in Submitted', req'[r].path # p
        PROVE  \E q \in Submitted' : req'[q].path = req'[r].path /\ ~Superseded(q)'
    <3>1. r \in Submitted /\ req'[r] = req[r]
      BY <2>3, <2>5
    <3>2. PICK q \in Submitted : PathOf(q) = PathOf(r) /\ ~Superseded(q)
      BY <3>1 DEF HasNewest
    <3>3. req'[q].path # p
      BY <2>3, <2>5, <3>1, <3>2 DEF PathOf
    <3>4. ~Superseded(q)'
      BY <2>3, <3>2, <3>3 DEF Superseded, PathOf
    <3> QED
      BY <2>3, <3>1, <3>2, <3>4 DEF PathOf
  <2> QED
    BY <2>3, <2>4, <2>5 DEF HasNewest, PathOf
<1>3. ASSUME NEW r \in Ids, TimerThread(r)
      PROVE  req' = req
  BY <1>3 DEF TimerThread, Fire, RunDiff, ComputeDiff, CheckStale,
              SendEvent, SendFinal, SendError, Put, Quiet
<1>4. ASSUME NEW c \in Clients, NEW s \in Seqs,
             CancelAll(c, s) \/ \E p \in Paths : CancelPath(c, p, s)
      PROVE  req' = req
  BY <1>4 DEF CancelAll, CancelPath, CancelBy
<1>5. Stop \/ UNCHANGED vars => req' = req
  BY DEF Stop, vars
<1> QED
  BY <1>1, <1>2, <1>3, <1>4, <1>5 DEF Next

\* With one client a burst of requests is answered (_schedule_request): when all
\* requests for a path are settled and nothing withdrew one, the newest was not
\* given up.
THEOREM BurstAnswered ==
  ASSUME NEW ed, Clients = {ed}
  PROVE  Spec => []BurstIsAnswered
<1>1. Init => HasNewest
  <2>1. Init => Submitted = {}
    BY DEF Init, Submitted
  <2> QED
    BY <2>1 DEF HasNewest
<1>2. TypeOK /\ HasNewest /\ NoRequestLost => BurstIsAnswered
  <2> SUFFICES ASSUME TypeOK, HasNewest, NoRequestLost, NEW p \in Paths,
                      NEW burst, burst = {r \in Submitted : PathOf(r) = p}, burst # {},
                      burst \cap (Unsettled \cup withdrawn) = {}
               PROVE  \E r \in burst : phase[r] \in {"answered", "refused"}
    BY DEF BurstIsAnswered
  <2>1. PICK r \in burst : ~Superseded(r)
    BY DEF HasNewest
  <2>2. /\ r \in Submitted /\ r \in Ids /\ r \notin withdrawn
        /\ phase[r] \notin Waiting \cup Running
    BY <2>1, SubmittedFacts DEF Unsettled
  <2>3. phase[r] \notin {"cancelled", "dropped"}
    BY <2>1, <2>2 DEF NoRequestLost
  <2>4. phase[r] \in Phases /\ phase[r] # "none"
    BY <2>2 DEF TypeOK
  <2> QED
    BY <2>2, <2>3, <2>4 DEF Phases, AtRest
<1>3. Spec => []HasNewest
  BY <1>1, NewestStep, TypeCorrect, PTL DEF Spec
<1> QED
  BY <1>2, <1>3, TypeCorrect, NothingLost, PTL

-------------------------------------------------------------------------------
(* A cancelled request is silent *)

\* A step that sends nothing, settles no running request anew as cancelled and
\* counts only waiting timers that are stale after it, or cancelled by it.
LEMMA SilentQuietStep ==
  ASSUME TypeOK, SilentInv, [Next]_vars, wire' = wire,
         \A r \in Submitted :
           \/ phase'[r] = phase[r]
           \/ phase[r] = "armed" /\ phase'[r] = "cancelled"
           \/ phase[r] = "armed" /\ phase'[r] = "fired" /\ r \notin acked
           \/ phase[r] = "fired" /\ phase'[r] = "dropped"
           \/ phase[r] = "fired" /\ phase'[r] = "computing" /\ ~Stale(r)
           \/ /\ phase[r] \in Running
              /\ phase'[r] \notin Waiting \cup {"none", "cancelled"},
         \A r \in acked' \ acked :
           /\ phase[r] \in Waiting
           /\ phase'[r] = "cancelled" \/ (phase'[r] = "fired" /\ Stale(r)')
  PROVE  SilentInv'
<1> USE DEF Waiting, Running
<1>1. acked \subseteq Submitted
  BY DEF TypeOK
<1>2. \A c \in Clients : \A i \in DOMAIN wire[c] :
        /\ wire[c][i].req \in Ids
        /\ phase[wire[c][i].req] \notin Waiting \cup {"none", "cancelled"}
        /\ wire[c][i].req \in Submitted
  <2> SUFFICES ASSUME NEW c \in Clients, NEW i \in DOMAIN wire[c]
               PROVE  /\ wire[c][i].req \in Ids
                      /\ phase[wire[c][i].req] \notin Waiting \cup {"none", "cancelled"}
                      /\ wire[c][i].req \in Submitted
    OBVIOUS
  <2>1. wire[c][i] \in Message
    BY DEF TypeOK
  <2>2. wire[c][i].req \in Ids
    BY <2>1 DEF Message
  <2>3. phase[wire[c][i].req] \notin Waiting \cup {"none", "cancelled"}
    BY DEF SilentInv, UnstartedIsSilent
  <2> QED
    BY <2>2, <2>3, SubmittedFacts
<1>3. AckedIsDoomed'
  <2> SUFFICES ASSUME NEW r \in acked'
               PROVE  \/ phase'[r] \in {"cancelled", "dropped"}
                      \/ phase'[r] = "fired" /\ Stale(r)'
    BY DEF AckedIsDoomed
  <2>1. CASE r \in acked
    <3>1. r \in Submitted
      BY <1>1, <2>1
    <3>2. Stale(r) => Stale(r)'
      BY <3>1, StaleForever
    <3>3. \/ phase[r] \in {"cancelled", "dropped"}
          \/ phase[r] = "fired" /\ Stale(r)
      BY <2>1 DEF SilentInv, AckedIsDoomed
    <3> QED
      BY <2>1, <3>1, <3>2, <3>3
  <2>2. CASE r \notin acked
    BY <2>2
  <2> QED
    BY <2>1, <2>2
<1>4. UnstartedIsSilent'
  BY <1>2 DEF UnstartedIsSilent
<1>5. CancelledIsSilent'
  BY <1>2 DEF CancelledIsSilent, SilentInv
<1> QED
  BY <1>3, <1>4, <1>5 DEF SilentInv

\* What is found in a sequence after an append.
LEMMA AppendLookup ==
  ASSUME NEW S, NEW w \in Seq(S), NEW e \in S, NEW i \in DOMAIN Append(w, e)
  PROVE  Append(w, e)[i] = e \/ (i \in DOMAIN w /\ Append(w, e)[i] = w[i])
<1>1. Len(w) \in Nat /\ DOMAIN w = 1..Len(w) /\ DOMAIN Append(w, e) = 1..(Len(w) + 1)
  OBVIOUS
<1>2. CASE i = Len(w) + 1
  BY <1>2, AppendProperties
<1>3. CASE i # Len(w) + 1
  BY <1>1, <1>3, AppendProperties
<1> QED
  BY <1>2, <1>3

\* Sending: only a request that is running, so not a cancelled one, sends.
LEMMA SilentSendStep ==
  ASSUME TypeOK, SilentInv, [Next]_vars, NEW q \in Ids,
         NEW k \in {"event", "done", "diff", "error"}, Put(q, k),
         phase[q] \in {"sending", "failed"},
         phase' = [phase EXCEPT ![q] = phase'[q]],
         phase'[q] \in {"ready", "answered", "refused"}
  PROVE  SilentInv'
<1>1. q \in Submitted /\ q \notin acked /\ req[q].client \in Clients
  BY SubmittedFacts DEF SilentInv, AckedIsDoomed
<1>2. \A r \in Ids : r # q => phase'[r] = phase[r]
  BY DEF TypeOK
<1>3. acked' = acked /\ acked \subseteq Ids
  BY SubmittedFacts DEF Put, Quiet, TypeOK
<1>4. AckedIsDoomed'
  <2> SUFFICES ASSUME NEW r \in acked
               PROVE  \/ phase'[r] \in {"cancelled", "dropped"}
                      \/ phase'[r] = "fired" /\ Stale(r)'
    BY <1>3 DEF AckedIsDoomed
  <2>1. r \in Submitted /\ phase'[r] = phase[r]
    BY <1>1, <1>2, <1>3 DEF TypeOK
  <2>2. Stale(r) => Stale(r)'
    BY <2>1, StaleForever
  <2> QED
    BY <2>1, <2>2 DEF SilentInv, AckedIsDoomed
<1>5. ASSUME NEW c \in Clients, NEW i \in DOMAIN wire'[c]
      PROVE  /\ phase'[wire'[c][i].req] \notin Waiting \cup {"none", "cancelled"}
             /\ wire'[c][i].req \notin acked
  <2> DEFINE m == [req |-> q, kind |-> k]
  <2>0. wire[c] \in Seq(Message) /\ wire'[c] \in Seq(Message)
    BY StepType DEF TypeOK
  <2>1. wire'[c] = wire[c] \/ wire'[c] = Append(wire[c], m)
    BY DEF Put, TypeOK
  <2>2. wire'[c][i] = m \/ (i \in DOMAIN wire[c] /\ wire'[c][i] = wire[c][i])
    <3>1. m \in Message
      BY DEF Message
    <3> HIDE DEF m
    <3>2. CASE wire'[c] = wire[c]
      BY <3>2
    <3>3. CASE wire'[c] = Append(wire[c], m)
      BY <2>0, <3>1, <3>3, AppendLookup
    <3> QED
      BY <2>1, <3>2, <3>3
  <2>3. CASE wire'[c][i] = m
    BY <1>1, <2>3 DEF Waiting
  <2>4. CASE i \in DOMAIN wire[c] /\ wire'[c][i] = wire[c][i]
    <3>1. wire[c][i] \in Message
      BY <2>0, <2>4
    <3>2. wire[c][i].req \in Ids
      BY <3>1 DEF Message
    <3>3. /\ phase[wire[c][i].req] \notin Waiting \cup {"none", "cancelled"}
          /\ wire[c][i].req \notin acked
      BY <2>4 DEF SilentInv, UnstartedIsSilent, CancelledIsSilent
    <3>4. phase'[wire[c][i].req] \notin Waiting \cup {"none", "cancelled"}
      BY <1>2, <3>2, <3>3 DEF Waiting
    <3> QED
      BY <2>4, <3>3, <3>4
  <2> QED
    BY <2>2, <2>3, <2>4
<1> QED
  BY <1>3, <1>4, <1>5 DEF SilentInv, UnstartedIsSilent, CancelledIsSilent

LEMMA SilentStep ==
  ASSUME NEW ed, Clients = {ed}, ~CancelReuses
  PROVE  /\ TypeOK /\ TrackedIsNewest /\ LossInv(ed) /\ SilentInv
         /\ [Next]_vars
         => SilentInv'
<1> SUFFICES ASSUME TypeOK, TrackedIsNewest, LossInv(ed), SilentInv, [Next]_vars
             PROVE  SilentInv'
  OBVIOUS
<1>0. /\ clientSeq[ed] \in Nat
      /\ latest \in [Paths -> Nat]
      /\ \A r \in Submitted : /\ SeqOf(r) \in Nat /\ SeqOf(r) <= clientSeq[ed]
                              /\ PathOf(r) \in Paths /\ r \in Ids
      /\ \A s \in Seqs : s \in Nat
      /\ \A r \in Submitted : phase[r] \in Phases /\ phase[r] # "none"
  BY LiveDebounceAssumption, SubmittedFacts DEF TypeOK, Seqs, LossInv, Numbered
<1>1. ASSUME NEW c \in Clients, NEW p \in Paths, NEW s \in Seqs, NEW stream \in Streams,
             ScheduleRequest(c, p, s, stream)
      PROVE  SilentInv'
  <2>1. \A r \in Submitted : \/ phase'[r] = phase[r]
                             \/ phase[r] = "armed" /\ phase'[r] = "cancelled"
    <3>1. \A r \in Submitted : r # Len(req) + 1
      BY SubmittedFacts
    <3> QED
      BY <1>0, <1>1, <3>1, CancelTimersPhases DEF ScheduleRequest
  <2> QED
    BY <1>1, <2>1, SilentQuietStep DEF ScheduleRequest
\* What the two cancels share: S are the entries they remove and count.
<1>2. ASSUME NEW S \in SUBSET Submitted, \A r \in S : phase[r] \in Waiting /\ Stale(r)',
             phase' \in {CancelTimers(S), CancelTimers(S \cup {NoTimer})},
             acked' = acked \cup S, wire' = wire
      PROVE  SilentInv'
  <2>1. \A r \in Submitted :
          \/ phase'[r] = phase[r]
          \/ phase[r] = "armed" /\ phase'[r] = "cancelled"
    BY <1>0, <1>2, CancelTimersPhases
  <2>2. \A r \in S : phase[r] = "armed" => phase'[r] = "cancelled"
    BY <1>0, <1>2 DEF CancelTimers
  <2>3. \A r \in acked' \ acked :
           /\ phase[r] \in Waiting
           /\ phase'[r] = "cancelled" \/ (phase'[r] = "fired" /\ Stale(r)')
    BY <1>2, <2>1, <2>2 DEF Waiting
  <2> QED
    BY <1>2, <2>1, <2>3, SilentQuietStep
<1>3. ASSUME NEW c \in Clients, NEW p \in Paths, NEW s \in Seqs, CancelPath(c, p, s)
      PROVE  SilentInv'
  <2>1. /\ req' = req /\ wire' = wire
        /\ phase' = CancelTimers({tracked[p]})
        /\ latest' = [latest EXCEPT ![p] = Later(@, StaleAfter(p, s))]
        /\ acked' = acked \cup ({tracked[p]} \ {NoTimer})
        /\ s = 0 \/ s > clientSeq[ed]
    BY <1>3 DEF CancelPath, CancelBy, CancelSeqs
  <2>2. CASE tracked[p] = NoTimer
    <3>1. {} \in SUBSET Submitted /\ {} \cup {NoTimer} = {tracked[p]}
      BY <2>2
    <3>2. acked' = acked \cup {} /\ phase' = CancelTimers({} \cup {NoTimer})
      BY <2>1, <2>2, <3>1
    <3> QED
      BY <1>2, <2>1, <3>1, <3>2
  <2>3. CASE tracked[p] # NoTimer
    <3>1. /\ tracked[p] \in Submitted
          /\ phase[tracked[p]] \in Waiting
          /\ PathOf(tracked[p]) = p
      BY <2>3 DEF TypeOK, TrackedIsNewest
    <3>2. PICK t \in Submitted : t = tracked[p]
      BY <3>1
    <3>3. SeqOf(t) < StaleAfter(p, s) /\ StaleAfter(p, s) \in Nat
      BY <1>0, <2>1, <2>3, <3>2 DEF StaleAfter
    <3>4. latest'[p] = Later(latest[p], StaleAfter(p, s))
      BY <1>0, <2>1
    <3>5. SeqOf(t) < latest'[p]
      BY <1>0, <3>2, <3>3, <3>4 DEF Later
    <3>6. Stale(t)'
      BY <2>1, <3>1, <3>2, <3>5 DEF Stale, PathOf, SeqOf
    <3>7. acked' = acked \cup {t} /\ phase' = CancelTimers({t})
      BY <2>1, <2>3, <3>2
    <3> QED
      BY <1>2, <2>1, <3>1, <3>2, <3>6, <3>7
  <2> QED
    BY <2>2, <2>3
<1>4. ASSUME NEW c \in Clients, NEW s \in Seqs, CancelAll(c, s)
      PROVE  SilentInv'
  <2> DEFINE S == {tracked[p] : p \in CoveredPaths(s)}
  <2>1. /\ req' = req /\ wire' = wire
        /\ phase' = CancelTimers(S)
        /\ latest' = [p \in Paths |->
             IF p \in CoveredPaths(s) THEN Later(latest[p], s + 1) ELSE latest[p]]
        /\ acked' = acked \cup S
    BY <1>4 DEF CancelAll, CancelBy
  <2>2. ASSUME NEW p \in CoveredPaths(s)
        PROVE  /\ tracked[p] \in Submitted /\ phase[tracked[p]] \in Waiting
               /\ \A t \in Submitted : t = tracked[p] => Stale(t)'
    <3>1. /\ p \in Paths /\ tracked[p] # NoTimer /\ SeqOf(tracked[p]) <= s
          /\ tracked[p] \in Submitted
          /\ phase[tracked[p]] \in Waiting /\ PathOf(tracked[p]) = p
      BY DEF CoveredPaths, TypeOK, TrackedIsNewest
    <3>2. latest'[p] >= s + 1
      BY <1>0, <2>1, <3>1 DEF Later
    <3>3. SeqOf(tracked[p]) < latest'[p]
      BY <1>0, <2>1, <3>1, <3>2 DEF Later
    <3> QED
      BY <2>1, <3>1, <3>3 DEF Stale, PathOf, SeqOf
  <2>3. S \in SUBSET Submitted /\ \A t \in S : phase[t] \in Waiting /\ Stale(t)'
    BY <2>2
  <2> QED
    BY <1>2, <2>1, <2>3
<1>5. CASE Stop
  <2>1. \A r \in Submitted : \/ phase'[r] = phase[r]
                             \/ phase[r] = "armed" /\ phase'[r] = "cancelled"
    BY <1>0, <1>5, CancelTimersPhases DEF Stop
  <2> QED
    BY <1>5, <2>1, SilentQuietStep DEF Stop
<1>6. ASSUME NEW r \in Ids, Fire(r) \/ RunDiff(r) \/ ComputeDiff(r) \/ CheckStale(r)
      PROVE  SilentInv'
  <2>1. acked' = acked /\ wire' = wire
    BY <1>6 DEF Fire, RunDiff, ComputeDiff, CheckStale, Quiet
  <2>2. r \in acked => phase[r] # "armed"
    BY DEF SilentInv, AckedIsDoomed
  <2>3. \A q \in Submitted :
           \/ phase'[q] = phase[q]
           \/ phase[q] = "armed" /\ phase'[q] = "cancelled"
           \/ phase[q] = "armed" /\ phase'[q] = "fired" /\ q \notin acked
           \/ phase[q] = "fired" /\ phase'[q] = "dropped"
           \/ phase[q] = "fired" /\ phase'[q] = "computing" /\ ~Stale(q)
           \/ /\ phase[q] \in Running
              /\ phase'[q] \notin Waiting \cup {"none", "cancelled"}
    BY <1>0, <1>6, <2>2 DEF Fire, RunDiff, ComputeDiff, CheckStale, TypeOK, Running, Waiting
  <2> QED
    BY <2>1, <2>3, SilentQuietStep
<1>7. ASSUME NEW r \in Ids, SendEvent(r) \/ SendFinal(r) \/ SendError(r)
      PROVE  SilentInv'
  <2>1. /\ \E k \in {"event", "done", "diff", "error"} : Put(r, k)
        /\ phase[r] \in {"sending", "failed"}
        /\ phase' = [phase EXCEPT ![r] = phase'[r]]
        /\ phase'[r] \in {"ready", "answered", "refused"}
    BY <1>7 DEF SendEvent, SendFinal, SendError, TypeOK
  <2> QED
    BY <2>1, SilentSendStep
<1>8. CASE UNCHANGED vars
  BY <1>8, SilentQuietStep DEF vars
<1> QED
  BY <1>1, <1>3, <1>4, <1>5, <1>6, <1>7, <1>8 DEF Next, TimerThread

\* With one client that gives its cancels numbers of their own, a request that
\* a cancel response counted as cancelled is never answered.
THEOREM CancelledSilent ==
  ASSUME NEW ed, Clients = {ed}, ~CancelReuses
  PROVE  Spec => []CancelledIsSilent
<1>1. Init => LossInv(ed)
  BY DEF Init, LossInv, Numbered, StaleIsExcused, NoRequestLost, Unsettled, Submitted
<1>2. Init => SilentInv
  BY DEF Init, SilentInv, AckedIsDoomed, UnstartedIsSilent, CancelledIsSilent
<1>3. SilentInv => CancelledIsSilent
  BY DEF SilentInv
<1> QED
  BY <1>1, <1>2, <1>3, LossStep, SilentStep, TypeCorrect, TrackedNewest, PTL DEF Spec

-------------------------------------------------------------------------------
(* The debounce implements Coalescing *)

Log == [r \in Submitted |-> PathOf(r)]
Outcomes == [r \in Ids |-> Outcome(r)]

LEMMA LogIsSequence ==
  TypeOK => Log \in Seq(Paths) /\ DOMAIN Log = Submitted /\ Len(Log) = Len(req)
<1> SUFFICES ASSUME TypeOK
             PROVE  Log \in Seq(Paths) /\ DOMAIN Log = Submitted /\ Len(Log) = Len(req)
  OBVIOUS
<1>1. DOMAIN Log = 1..Len(req) /\ Len(req) \in Nat
  BY SubmittedFacts DEF Log
<1>2. \A r \in 1..Len(req) : Log[r] \in Paths
  BY SubmittedFacts DEF Log
<1>3. Log \in [1..Len(req) -> Paths]
  BY <1>1, <1>2, SubmittedFacts DEF Log
<1>4. Log \in Seq(Paths)
  BY <1>1, <1>3
<1> QED
  BY <1>1, <1>4, SubmittedFacts

\* The abstract pending requests are the unsettled ones.
LEMMA PendingIsUnsettled ==
  ASSUME TypeOK
  PROVE  Unsettled = {r \in DOMAIN Log : Outcomes[r] = "pending"}
<1>1. DOMAIN Log = Submitted /\ Submitted \subseteq Ids
  BY SubmittedFacts, LogIsSequence
<1>2. \A r \in Submitted : Outcomes[r] = "pending" <=> phase[r] \in Waiting \cup Running
  <2> SUFFICES ASSUME NEW r \in Submitted
               PROVE  Outcomes[r] = "pending" <=> phase[r] \in Waiting \cup Running
    OBVIOUS
  <2>1. Outcomes[r] = Outcome(r) /\ phase[r] \in Phases
    BY <1>1 DEF Outcomes, TypeOK
  <2> QED
    BY <2>1 DEF Outcome, Phases, Waiting, Running, AtRest
<1> QED
  BY <1>1, <1>2 DEF Unsettled

\* What the phase of a request says about its outcome, before and after a step.
LEMMA OutcomeValues ==
  ASSUME NEW r
  PROVE  /\ phase[r] \in Waiting \cup Running => Outcome(r) = "pending"
         /\ phase'[r] \in Waiting \cup Running => Outcome(r)' = "pending"
         /\ phase'[r] \in {"answered", "refused"} => Outcome(r)' = "served"
         /\ phase'[r] \in {"cancelled", "dropped"} => Outcome(r)' = "shed"
         /\ phase'[r] = phase[r] => Outcome(r)' = Outcome(r)
BY DEF Outcome, Waiting, Running

LEMMA OutcomesNext ==
  /\ \A r \in Ids : Outcomes[r] = Outcome(r)
  /\ Outcomes' = [r \in Ids |-> Outcome(r)']
BY DEF Outcomes

LEMMA PromiseInit == Init => Promise!Init
<1> SUFFICES ASSUME Init PROVE Promise!Init
  OBVIOUS
<1>1. TypeOK /\ Len(req) = 0
  BY InitType DEF Init
<1>2. Log \in Seq(Paths) /\ Len(Log) = 0
  BY <1>1, LogIsSequence
<1>3. Log = <<>>
  <2>1. <<>> \in Seq(Paths) /\ Len(<<>>) = 0 /\ \A i \in 1..0 : Log[i] = <<>>[i]
    OBVIOUS
  <2> QED
    BY <1>2, <2>1, SeqEqual
<1>4. Outcomes = [r \in Ids |-> "none"]
  <2>1. \A r \in Ids : Outcome(r) = "none"
    BY DEF Init, Outcome, Waiting, Running
  <2> QED
    BY <2>1 DEF Outcomes
<1> QED
  BY <1>3, <1>4 DEF Init, Promise!Init, Promise!Ids, Ids, Log, Outcomes

\* Accepting a request is a Submit, which pushes out the timer it cancels.
LEMMA SubmitStep ==
  ASSUME TypeOK, TypeOK', TrackedIsNewest,
         NEW c \in Clients, NEW p \in Paths, NEW s \in Seqs, NEW stream \in Streams,
         ScheduleRequest(c, p, s, stream)
  PROVE  Promise!Submit(p)
<1> DEFINE e == [path |-> p, seq |-> s, client |-> c, stream |-> stream]
           n == Len(req) + 1
           pushed == {q \in Submitted : q = tracked[p] /\ phase[q] = "armed"}
<1>1. /\ e \in Request /\ n \in Nat /\ n \in Ids
      /\ Submitted = 1..Len(req) /\ Submitted \subseteq Ids
      /\ \A q \in Submitted : q # n
  BY LiveDebounceAssumption, SubmittedFacts DEF Request, ScheduleRequest
<1>2. /\ Len(req') = n
      /\ Submitted' = Submitted \cup {n}
      /\ req'[n] = e
      /\ \A q \in Submitted : req'[q] = req[q]
  BY <1>1, AppendRequest DEF ScheduleRequest, TypeOK
<1>3. Log' = Append(Log, p)
  <2>1. Log \in Seq(Paths) /\ Len(Log) = Len(req) /\ DOMAIN Log = Submitted
    BY LogIsSequence
  <2>2. Log' \in Seq(Paths) /\ Len(Log') = n /\ DOMAIN Log' = Submitted'
    <3>1. (Log \in Seq(Paths) /\ DOMAIN Log = Submitted /\ Len(Log) = Len(req))'
      BY LogIsSequence, PTL
    <3> QED
      BY <1>2, <3>1
  <2>3. /\ \A q \in Submitted : Log'[q] = Log[q]
        /\ Log'[n] = p
    BY <1>2 DEF Log, PathOf
  <2>4. /\ Append(Log, p) \in Seq(Paths)
        /\ Len(Append(Log, p)) = n
        /\ \A q \in Submitted : Append(Log, p)[q] = Log[q]
        /\ Append(Log, p)[n] = p
    BY <1>1, <2>1, AppendProperties
  <2>5. \A q \in 1..n : Log'[q] = Append(Log, p)[q]
    BY <1>1, <2>3, <2>4
  <2> HIDE DEF n
  <2> QED
    BY <2>2, <2>4, <2>5, SeqEqual
<1>4. pushed \in SUBSET {q \in Unsettled : Log[q] = p}
  <2>1. \A q \in pushed : q \in Submitted /\ q # NoTimer /\ q = tracked[p] /\ phase[q] = "armed"
    BY <1>1 DEF NoTimer, Ids
  <2>2. \A q \in pushed : PathOf(q) = p
    BY <2>1 DEF TrackedIsNewest
  <2> QED
    BY <2>1, <2>2 DEF Unsettled, Waiting, Log
<1>5. phase' = [CancelTimers({tracked[p]}) EXCEPT ![n] = "armed"]
  BY DEF ScheduleRequest
<1>6. \A r \in Ids : phase'[r] = IF r = n THEN "armed"
                                 ELSE IF r \in pushed THEN "cancelled" ELSE phase[r]
  BY <1>1, <1>5, SubmittedFacts DEF CancelTimers
<1>7. Outcomes' = [r \in Ids |-> IF r = n THEN "pending"
                                 ELSE IF r \in pushed THEN "shed" ELSE Outcomes[r]]
  <2>1. "armed" \in Waiting
    BY DEF Waiting
  <2> QED
    BY <1>6, <2>1, OutcomeValues, OutcomesNext
<1>8. Len(Log) + 1 = n /\ Len(Log) < MaxRequests
  BY <1>1, LogIsSequence, SubmittedFacts, LiveDebounceAssumption DEF Ids
<1>9. withdrawn' = withdrawn
  BY DEF ScheduleRequest
<1>10. pushed \in SUBSET {q \in {r \in DOMAIN Log : Outcomes[r] = "pending"} : Log[q] = p}
  BY <1>4, PendingIsUnsettled
<1> HIDE DEF pushed, n
<1> QED
  BY <1>3, <1>7, <1>8, <1>9, <1>10
  DEF Promise!Submit, Promise!Pending, Promise!Ids, Ids, Log, Outcomes

\* A cancel or a stop is a GiveUp: what it withdraws is given up, the timers
\* it cancels at once.
LEMMA GiveUpStep ==
  ASSUME TypeOK, req' = req, NEW S, phase' = CancelTimers(S),
         NEW given \in SUBSET Unsettled, withdrawn' = withdrawn \cup given,
         \A r \in S \cap Ids : phase[r] = "armed" => r \in given
  PROVE  Promise!GiveUp
<1> DEFINE dropped == {r \in S \cap Ids : phase[r] = "armed"}
<1>1. dropped \in SUBSET given
  OBVIOUS
<1>2. \A r \in Ids : phase'[r] = IF r \in dropped THEN "cancelled" ELSE phase[r]
  BY DEF CancelTimers
<1>3. Outcomes' = [r \in Ids |-> IF r \in dropped THEN "shed" ELSE Outcomes[r]]
  BY <1>2, OutcomeValues, OutcomesNext
<1>4. Log' = Log
  BY DEF Log, Submitted, PathOf
<1>5. given \in SUBSET {r \in DOMAIN Log : Outcomes[r] = "pending"}
  BY PendingIsUnsettled
<1> HIDE DEF dropped
<1> QED
  BY <1>1, <1>3, <1>4, <1>5 DEF Promise!GiveUp, Promise!Pending, Promise!Ids, Ids, Log, Outcomes

\* Every step of the debounce is a step of the promise, or leaves it alone.
LEMMA PromiseStep ==
  ASSUME NEW ed, Clients = {ed}, TypeOK, TypeOK', TrackedIsNewest, LossInv(ed), [Next]_vars
  PROVE  [Promise!Next]_(Promise!coalescingVars)
<1>0. /\ Submitted \subseteq Ids /\ Log \in Seq(Paths) /\ DOMAIN Log = Submitted
      /\ Promise!Ids = Ids
  BY SubmittedFacts, LogIsSequence DEF Promise!Ids, Ids
<1>1. ASSUME NEW c \in Clients, NEW p \in Paths, NEW s \in Seqs, NEW stream \in Streams,
             ScheduleRequest(c, p, s, stream)
      PROVE  Promise!Next
  BY <1>1, SubmitStep DEF Promise!Next
<1>2. ASSUME NEW c \in Clients, NEW p \in Paths, NEW s \in Seqs, CancelPath(c, p, s)
      PROVE  Promise!Next
  <2> DEFINE S == {tracked[p]}
             given == {r \in Unsettled : PathOf(r) = p}
  <2>1. /\ req' = req /\ phase' = CancelTimers(S)
        /\ withdrawn' = withdrawn \cup given
        /\ given \in SUBSET Unsettled
    BY <1>2 DEF CancelPath, CancelBy
  <2>2. \A r \in S \cap Ids : phase[r] = "armed" => r \in given
    BY SubmittedFacts DEF TrackedIsNewest, Unsettled, Waiting, NoTimer, Ids
  <2> HIDE DEF S, given
  <2> QED
    BY <2>1, <2>2, GiveUpStep DEF Promise!Next
<1>3. ASSUME NEW c \in Clients, NEW s \in Seqs, CancelAll(c, s)
      PROVE  Promise!Next
  <2> DEFINE S == {tracked[p] : p \in CoveredPaths(s)}
  <2>1. /\ req' = req /\ phase' = CancelTimers(S)
        /\ withdrawn' = withdrawn \cup {r \in Unsettled : SeqOf(r) <= s}
    BY <1>3 DEF CancelAll, CancelBy
  <2>2. \A r \in S \cap Ids :
          phase[r] = "armed" => r \in {q \in Unsettled : SeqOf(q) <= s}
    BY SubmittedFacts DEF Unsettled, Waiting, CoveredPaths
  <2> HIDE DEF S
  <2> QED
    BY <2>1, <2>2, GiveUpStep DEF Promise!Next
<1>4. ASSUME Stop PROVE Promise!Next
  <2> DEFINE S == {tracked[p] : p \in Paths}
  <2>1. /\ req' = req /\ phase' = CancelTimers(S)
        /\ withdrawn' = withdrawn \cup Unsettled
    BY <1>4 DEF Stop
  <2>2. \A r \in S \cap Ids : phase[r] = "armed" => r \in Unsettled
    BY SubmittedFacts DEF Unsettled, Waiting
  <2> HIDE DEF S
  <2> QED
    BY <2>1, <2>2, GiveUpStep DEF Promise!Next
<1>5. ASSUME NEW r \in Ids, phase[r] \in Waiting \cup Running,
             phase' = [phase EXCEPT ![r] = "dropped"], req' = req, withdrawn' = withdrawn,
             Stale(r)
      PROVE  Promise!Next
  <2>1. r \in Unsettled
    BY <1>5, SubmittedFacts DEF Unsettled, Waiting, Running
  <2>2. Excused(r)
    BY <1>5, <2>1 DEF LossInv, StaleIsExcused, Excused
  <2>3. \A q \in Ids : phase'[q] = IF q = r THEN "dropped" ELSE phase[q]
    BY <1>5 DEF TypeOK
  <2>4. Outcomes' = [Outcomes EXCEPT ![r] = "shed"] /\ Log' = Log
    <3>1. Outcomes' = [q \in Ids |-> IF q = r THEN "shed" ELSE Outcomes[q]]
      BY <2>3, OutcomeValues, OutcomesNext
    <3> QED
      BY <1>5, <3>1 DEF Log, Submitted, PathOf, Outcomes
  <2>5. r \in {q \in DOMAIN Log : Outcomes[q] = "pending"}
    BY <2>1, PendingIsUnsettled
  <2>6. (\E q \in DOMAIN Log : q > r /\ Log[q] = Log[r]) \/ r \in withdrawn
    BY <1>0, <2>1, <2>2 DEF Excused, Superseded, Log, Unsettled
  <2>7. Promise!Shed(r)
    BY <1>5, <2>4, <2>5, <2>6
    DEF Promise!Shed, Promise!Pending, Promise!Overtaken, Log, Outcomes
  <2> QED
    BY <1>0, <2>7 DEF Promise!Next
<1>6. ASSUME NEW r \in Ids, phase[r] \in Running, NEW f \in {"answered", "refused"},
             phase' = [phase EXCEPT ![r] = f], req' = req, withdrawn' = withdrawn
      PROVE  Promise!Next
  <2>1. r \in Unsettled
    BY <1>6, SubmittedFacts DEF Unsettled, Waiting, Running
  <2>2. \A q \in Ids : phase'[q] = IF q = r THEN f ELSE phase[q]
    BY <1>6 DEF TypeOK
  <2>3. Outcomes' = [Outcomes EXCEPT ![r] = "served"] /\ Log' = Log
    <3>1. Outcomes' = [q \in Ids |-> IF q = r THEN "served" ELSE Outcomes[q]]
      BY <1>6, <2>2, OutcomeValues, OutcomesNext
    <3> QED
      BY <1>6, <3>1 DEF Log, Submitted, PathOf, Outcomes
  <2>4. r \in {q \in DOMAIN Log : Outcomes[q] = "pending"}
    BY <2>1, PendingIsUnsettled
  <2>5. Promise!Serve(r)
    BY <1>6, <2>3, <2>4 DEF Promise!Serve, Promise!Pending, Log, Outcomes
  <2> QED
    BY <1>0, <2>5 DEF Promise!Next
<1>7. ASSUME req' = req, withdrawn' = withdrawn,
             \A q \in Ids : \/ phase'[q] = phase[q]
                            \/ phase[q] \in Waiting \cup Running /\ phase'[q] \in Waiting \cup Running
      PROVE  UNCHANGED Promise!coalescingVars
  <2>1. Outcomes' = Outcomes /\ Log' = Log
    <3>1. \A q \in Ids : Outcome(q)' = Outcome(q)
      BY <1>7, OutcomeValues
    <3> QED
      BY <1>7, <3>1, OutcomesNext DEF Outcomes, Log, Submitted, PathOf
  <2> QED
    BY <1>7, <2>1 DEF Promise!coalescingVars, Log, Outcomes
<1>8. ASSUME NEW r \in Ids, TimerThread(r)
      PROVE  [Promise!Next]_(Promise!coalescingVars)
  <2>1. req' = req /\ withdrawn' = withdrawn
    BY <1>8 DEF TimerThread, Fire, RunDiff, ComputeDiff, CheckStale, SendEvent, SendFinal,
                SendError, Put, Quiet
  <2>2. CASE (RunDiff(r) \/ CheckStale(r)) /\ Stale(r)
    <3>1. phase[r] \in Waiting \cup Running /\ phase' = [phase EXCEPT ![r] = "dropped"]
      BY <2>2 DEF RunDiff, CheckStale, Waiting, Running
    <3> QED
      BY <1>5, <2>1, <2>2, <3>1
  <2>3. CASE SendFinal(r) \/ SendError(r)
    <3>1. /\ phase[r] \in Running
          /\ \/ phase' = [phase EXCEPT ![r] = "answered"]
             \/ phase' = [phase EXCEPT ![r] = "refused"]
      BY <2>3 DEF SendFinal, SendError, Running
    <3> QED
      BY <1>6, <2>1, <3>1
  <2>4. CASE Fire(r) \/ ComputeDiff(r) \/ SendEvent(r)
             \/ ((RunDiff(r) \/ CheckStale(r)) /\ ~Stale(r))
    <3>1. /\ phase[r] \in Waiting \cup Running
          /\ \E f \in Waiting \cup Running : phase' = [phase EXCEPT ![r] = f]
      BY <2>4 DEF Fire, ComputeDiff, SendEvent, RunDiff, CheckStale, Waiting, Running
    <3>2. \A q \in Ids : \/ phase'[q] = phase[q]
                         \/ phase[q] \in Waiting \cup Running /\ phase'[q] \in Waiting \cup Running
      BY <3>1 DEF TypeOK
    <3> QED
      BY <1>7, <2>1, <3>2
  <2> QED
    BY <1>8, <2>2, <2>3, <2>4 DEF TimerThread
<1>9. ASSUME UNCHANGED vars PROVE UNCHANGED Promise!coalescingVars
  BY <1>7, <1>9 DEF vars
<1> QED
  BY <1>1, <1>2, <1>3, <1>4, <1>8, <1>9 DEF Next

\* With one client the debounce implements the safety half of Coalescing: it
\* gives up a request only for a newer one of the same path, or when asked to.
THEOREM ImplementsPromise ==
  ASSUME NEW ed, Clients = {ed}
  PROVE  Spec => PromiseSafety
<1>1. Init => LossInv(ed)
  BY DEF Init, LossInv, Numbered, StaleIsExcused, NoRequestLost, Unsettled, Submitted
<1> QED
  BY <1>1, PromiseInit, PromiseStep, LossStep, TypeCorrect, TrackedNewest, PTL
  DEF Spec, PromiseSafety, Promise!Safety

===============================================================================
