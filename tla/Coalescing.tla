------------------------------ MODULE Coalescing ------------------------------
(***************************************************************************)
(* What a debounced service promises, independently of timers, sequence    *)
(* numbers and threads.  Requests for a path arrive one after another.     *)
(* Each one is eventually settled: it is served, or it is shed, and it is  *)
(* shed only if a later request for the same path has arrived or somebody  *)
(* asked for it to be given up (a cancel, a stop).  In particular the last *)
(* request for a path is never lost.                                       *)
(*                                                                         *)
(* LiveDebounce (the live server's debounce), FileWatcher (the file        *)
(* watcher's) and LspServer (the diff tasks of the language server) are    *)
(* shown to implement this module.                                         *)
(***************************************************************************)
EXTENDS Naturals, Sequences

CONSTANTS Paths,        \* the paths requests are about
          MaxRequests   \* bound: requests in one behaviour

Ids == 1..MaxRequests   \* a request is named by its arrival number

VARIABLES log,          \* the path of each request, in arrival order
          outcome,      \* "none", "pending", "served" or "shed", per request
          excused       \* requests somebody asked to give up

coalescingVars == <<log, outcome, excused>>

Pending == {r \in DOMAIN log : outcome[r] = "pending"}

\* A later request for the same path has arrived.
Overtaken(r) == \E q \in DOMAIN log : q > r /\ log[q] = log[r]

Init ==
  /\ log = <<>>
  /\ outcome = [r \in Ids |-> "none"]
  /\ excused = {}

\* A request arrives; it may push out waiting requests for the same path.
Submit(p) ==
  /\ Len(log) < MaxRequests
  /\ log' = Append(log, p)
  /\ \E pushed \in SUBSET {q \in Pending : log[q] = p} :
       outcome' = [r \in Ids |->
         IF r = Len(log) + 1 THEN "pending"
         ELSE IF r \in pushed THEN "shed" ELSE outcome[r]]
  /\ UNCHANGED excused

\* Some waiting requests are given up; some of them at once.
GiveUp ==
  \E given \in SUBSET Pending : \E dropped \in SUBSET given :
    /\ excused' = excused \cup given
    /\ outcome' = [r \in Ids |-> IF r \in dropped THEN "shed" ELSE outcome[r]]
    /\ UNCHANGED log

Serve(r) ==
  /\ r \in Pending
  /\ outcome' = [outcome EXCEPT ![r] = "served"]
  /\ UNCHANGED <<log, excused>>

Shed(r) ==
  /\ r \in Pending
  /\ Overtaken(r) \/ r \in excused
  /\ outcome' = [outcome EXCEPT ![r] = "shed"]
  /\ UNCHANGED <<log, excused>>

Next ==
  \/ \E p \in Paths : Submit(p)
  \/ GiveUp
  \/ \E r \in Ids : Serve(r) \/ Shed(r)

\* The safety half of the promise, and the whole of it.
Safety == Init /\ [][Next]_coalescingVars

Spec == Safety /\ \A r \in Ids : WF_coalescingVars(Serve(r) \/ Shed(r))

===============================================================================
