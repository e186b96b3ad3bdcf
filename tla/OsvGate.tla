------------------------------- MODULE OsvGate -------------------------------
(* The advisory gate in front of every plugin load (plugins/loader.py).  A
   stamp file says when advisories were last asked for, a cache file holds the
   answer; both are shared by all processes of a user.  A load reads them and
   is refused or passes; the first load of a process also starts, at most once
   in that process, a daemon thread that asks the OSV service.  The command
   security-check asks at once.  A process may end at any moment, and its
   thread with it.

   A stamp that is absent, unreadable or a day old is "stale".  A cache that is
   absent or cut off in writing is "none"; otherwise it is what the service said
   of the installed runtime, "clean" or "listed".  Each is written in two steps,
   opening it, which empties it, and filling it; either may fail, which the code
   swallows.  A load is of a "third" party, of a "first" party, or under the
   environment's "override". *)
EXTENDS Naturals, FiniteSets

CONSTANTS Proc,       \* processes
          MaxLoads,   \* loads of one process, over all its lives
          MaxDays     \* how often the stamp may age

ASSUME OsvGateAssumption == MaxLoads \in Nat /\ MaxDays \in Nat /\ IsFiniteSet(Proc)

Kinds == {"third", "first", "override"}
Answers == {"clean", "listed"}

VARIABLES
  stamp,     \* osv_last_fetch.stamp: "fresh" or "stale"
  cache,     \* osv_cache.json: "none" or an answer
  osv,       \* what the service would answer
  main,      \* process -> where its main thread is
  kind,      \* process -> the kind of its load
  verdict,   \* process -> the outcome of its last load
  started,   \* process -> _osv_thread_started
  fetch,     \* process -> where its fetch is, in a thread or in the command
  answer,    \* process -> the answer being saved
  loads,     \* process -> loads begun
  days,      \* how often the stamp has aged
  fetches,   \* history: background fetches since the stamp aged or was removed
  torn,      \* history: since then a stamp was not kept, or missed while written
  knownBad   \* history: loads during all of which a fresh cache lists the runtime

files == <<stamp, cache>>
procVars == <<main, kind, verdict, started, fetch, answer, loads>>
history == <<fetches, torn, knownBad>>
vars == <<files, osv, procVars, days, history>>

Init ==
  /\ stamp \in {"stale", "fresh"}
  /\ cache \in {"none"} \cup Answers
  /\ osv \in Answers
  /\ main = [p \in Proc |-> "off"]
  /\ kind = [p \in Proc |-> "third"]
  /\ verdict = [p \in Proc |-> "none"]
  /\ started = [p \in Proc |-> FALSE]
  /\ fetch = [p \in Proc |-> "none"]
  /\ answer = [p \in Proc |-> "clean"]
  /\ loads = [p \in Proc |-> 0]
  /\ days = 0
  /\ fetches = 0
  /\ torn = FALSE
  /\ knownBad = {}

\* The files say, and today's cache, that the runtime has an advisory.
Listed == stamp = "fresh" /\ cache = "listed"

\* Somebody has emptied the stamp and not filled it.
Stamping == \E q \in Proc : fetch[q] = "write"

-------------------------------------------------------------------------------
(* Processes *)

Start(p) ==
  /\ main[p] = "off"
  /\ main' = [main EXCEPT ![p] = "idle"]
  /\ started' = [started EXCEPT ![p] = FALSE]
  /\ verdict' = [verdict EXCEPT ![p] = "none"]
  /\ UNCHANGED <<files, osv, kind, fetch, answer, loads, days, history>>

\* The process ends, its daemon thread wherever it is: a stamp stays empty.
Exit(p) ==
  /\ main[p] # "off"
  /\ main' = [main EXCEPT ![p] = "off"]
  /\ fetch' = [fetch EXCEPT ![p] = "none"]
  /\ knownBad' = knownBad \ {p}
  /\ answer' = [answer EXCEPT ![p] = "clean"]
  /\ kind' = [kind EXCEPT ![p] = "third"]
  /\ verdict' = [verdict EXCEPT ![p] = "none"]
  /\ torn' = (torn \/ fetch[p] = "write")
  /\ UNCHANGED <<files, osv, started, loads, days, fetches>>

\* load_plugin begins.
Load(p, k) ==
  /\ main[p] = "idle"
  /\ loads[p] < MaxLoads
  /\ loads' = [loads EXCEPT ![p] = @ + 1]
  /\ kind' = [kind EXCEPT ![p] = k]
  /\ main' = [main EXCEPT ![p] = "gate"]
  /\ verdict' = [verdict EXCEPT ![p] = "none"]
  /\ knownBad' = IF Listed THEN knownBad \cup {p} ELSE knownBad
  /\ UNCHANGED <<files, osv, started, fetch, answer, days, fetches, torn>>

\* A gate that is asked once in the life of a process.
BadReadStamp(p) ==
  /\ main[p] = "gate"
  /\ main' = [main EXCEPT ![p] =
                IF stamp = "fresh" /\ ~started[p] THEN "cache" ELSE "start"]
  /\ UNCHANGED <<files, osv, kind, verdict, started, fetch, answer, loads, days, history>>

\* _check_osv_cache_or_block, first half: a stale stamp lets every load pass.
ReadStamp(p) ==
  /\ main[p] = "gate"
  /\ main' = [main EXCEPT ![p] = IF stamp = "fresh" THEN "cache" ELSE "start"]
  /\ UNCHANGED <<files, osv, kind, verdict, started, fetch, answer, loads, days, history>>

\* What the cache allows a load of a kind to do.
Passes(k) ==
  CASE cache = "clean" -> TRUE
    [] cache = "none" -> k \in {"first", "override"}
    [] cache = "listed" -> k = "override"

\* Second half: the cache is read, and may have changed in between.
ReadCache(p) ==
  /\ main[p] = "cache"
  /\ IF Passes(kind[p])
     THEN /\ main' = [main EXCEPT ![p] = "start"]
          /\ UNCHANGED <<verdict, knownBad>>
     ELSE /\ main' = [main EXCEPT ![p] = "idle"]
          /\ verdict' = [verdict EXCEPT ![p] = IF cache = "none" THEN "unanswered" ELSE "listed"]
          /\ knownBad' = knownBad \ {p}
  /\ UNCHANGED <<files, osv, kind, started, fetch, answer, loads, days, fetches, torn>>

\* _maybe_start_osv_check, under its lock, and the rest of the load.  The stamp
\* may be one that another process is writing.
MaybeStart(p) ==
  /\ main[p] = "start"
  /\ fetch' = [fetch EXCEPT ![p] = IF ~started[p] /\ stamp = "stale" THEN "stamp" ELSE @]
  /\ started' = [started EXCEPT ![p] = TRUE]
  /\ main' = [main EXCEPT ![p] = "idle"]
  /\ verdict' = [verdict EXCEPT ![p] = "loaded"]
  /\ torn' = (torn \/ (~started[p] /\ stamp = "stale" /\ Stamping))
  /\ UNCHANGED <<files, osv, kind, answer, loads, days, fetches, knownBad>>

\* security-check, in a process that loads nothing: it fetches when told to
\* (--refresh), when the stamp is stale and when there is no cache; otherwise
\* it shows the cache and ends.  Then refresh_osv_cache removes the stamp.
Refresh(p) ==
  /\ main[p] = "idle" /\ ~started[p]
  /\ main' = [main EXCEPT ![p] = "refresh"]
  /\ fetch' = [fetch EXCEPT ![p] = "stamp"]
  /\ stamp' = "stale"
  /\ fetches' = 0
  /\ torn' = FALSE
  /\ knownBad' = {}
  /\ UNCHANGED <<cache, osv, kind, verdict, started, answer, loads, days>>

-------------------------------------------------------------------------------
(* A fetch: _osv_check_worker and refresh_osv_cache *)

\* With the stamp behind it, kept or not, the fetch asks the service.
Asks(p) ==
  /\ fetch' = [fetch EXCEPT ![p] = "ask"]
  /\ fetches' = IF main[p] = "refresh" THEN fetches ELSE fetches + 1

\* A fetch that stamps when it has its answer, and not before it asks.
BadWriteStamp(p) ==
  /\ fetch[p] = "stamp"
  /\ Asks(p)
  /\ UNCHANGED <<files, osv, main, kind, verdict, started, answer, loads, days, torn, knownBad>>

\* _write_stamp, before the service is asked, so that a failure counts: the file
\* is opened, or it cannot be, and the fetch asks under the stamp that was there.
WriteStamp(p) ==
  /\ fetch[p] = "stamp"
  /\ \/ /\ fetch' = [fetch EXCEPT ![p] = "write"]
        /\ stamp' = "stale"
        /\ knownBad' = {}
        /\ UNCHANGED <<fetches, torn>>
     \/ /\ Asks(p)
        /\ torn' = TRUE
        /\ UNCHANGED <<stamp, knownBad>>
  /\ UNCHANGED <<cache, osv, main, kind, verdict, started, answer, loads, days>>

\* The time is written, or is not: the disk is full, the file has been removed.
FillStamp(p) ==
  /\ fetch[p] = "write"
  /\ Asks(p)
  /\ \/ stamp' = "fresh" /\ UNCHANGED torn
     \/ torn' = TRUE /\ UNCHANGED stamp
  /\ UNCHANGED <<cache, osv, main, kind, verdict, started, answer, loads, days, knownBad>>

\* The end of a fetch; the command ends with it.
Ends(p) ==
  /\ fetch' = [fetch EXCEPT ![p] = "done"]
  /\ main' = [main EXCEPT ![p] = IF @ = "refresh" THEN "off" ELSE @]

\* query_osv raises: nothing is written.
AskFails(p) ==
  /\ fetch[p] = "ask"
  /\ Ends(p)
  /\ UNCHANGED <<files, osv, kind, verdict, started, answer, loads, days, history>>

\* query_osv answers and _save_osv_cache opens the file, which empties it; or it
\* cannot be opened, and the fetch ends with the cache that was there.
AskAnswers(p) ==
  /\ fetch[p] = "ask"
  /\ \/ /\ fetch' = [fetch EXCEPT ![p] = "save"]
        /\ answer' = [answer EXCEPT ![p] = osv]
        /\ cache' = "none"
        /\ knownBad' = {}
        /\ UNCHANGED main
     \/ Ends(p) /\ UNCHANGED <<cache, answer, knownBad>>
  /\ UNCHANGED <<stamp, osv, kind, verdict, started, loads, days, fetches, torn>>

\* The answer is written, or cut short, which no reader takes for an answer.
SaveCache(p) ==
  /\ fetch[p] = "save"
  /\ Ends(p)
  /\ cache' \in {answer[p], "none"}
  /\ answer' = [answer EXCEPT ![p] = "clean"]
  /\ knownBad' = IF cache' = "listed" THEN knownBad ELSE {}
  /\ UNCHANGED <<stamp, osv, kind, verdict, started, loads, days, fetches, torn>>

-------------------------------------------------------------------------------
(* Time and the service *)

DayPasses ==
  /\ stamp = "fresh" /\ days < MaxDays
  /\ stamp' = "stale"
  /\ days' = days + 1
  /\ fetches' = 0
  /\ torn' = FALSE
  /\ knownBad' = {}
  /\ UNCHANGED <<cache, osv, procVars>>

Disclose ==
  /\ osv = "clean"
  /\ osv' = "listed"
  /\ UNCHANGED <<files, procVars, days, history>>

Gate(p) == ReadStamp(p) \/ ReadCache(p) \/ MaybeStart(p)
Fetch(p) == WriteStamp(p) \/ FillStamp(p) \/ AskFails(p) \/ AskAnswers(p) \/ SaveCache(p)

Next ==
  \/ \E p \in Proc : \/ Start(p) \/ Exit(p) \/ Refresh(p)
                     \/ \E k \in Kinds : Load(p, k)
                     \/ Gate(p) \/ Fetch(p)
  \/ DayPasses \/ Disclose

Spec == Init /\ [][Next]_vars

-------------------------------------------------------------------------------
(* Properties *)

\* Type correctness.
TypeOK ==
  /\ stamp \in {"stale", "fresh"}
  /\ cache \in {"none"} \cup Answers
  /\ osv \in Answers
  /\ main \in [Proc -> {"off", "idle", "gate", "cache", "start", "refresh"}]
  /\ kind \in [Proc -> Kinds]
  /\ verdict \in [Proc -> {"none", "loaded", "listed", "unanswered"}]
  /\ started \in [Proc -> BOOLEAN]
  /\ fetch \in [Proc -> {"none", "stamp", "write", "ask", "save", "done"}]
  /\ answer \in [Proc -> Answers]
  /\ loads \in [Proc -> 0..MaxLoads]
  /\ days \in 0..MaxDays
  /\ fetches \in Nat
  /\ torn \in BOOLEAN
  /\ knownBad \subseteq Proc

\* A load during all of which the files said "asked today, and the runtime is
\* listed" is refused, unless the environment overrides the gate: whatever the
\* other processes do, and however many loads came before it.
ListedIsRefused ==
  \A p \in knownBad : verdict[p] = "loaded" => kind[p] = "override"

\* Between two agings of the stamp the service is asked in the background at most
\* once by each process there is, however often processes end and start and asking
\* fails: as long as every stamp was kept and none was read while being written.
FetchBudget == torn \/ fetches <= Cardinality(Proc)

\* The code's own claim (loader.py, "one fetch per day", "even a failed/timed-out
\* call counts against the budget").  It fails for one process that starts again
\* where the stamp cannot be written.
OneFetchADay == fetches <= 1

\* The code's own claim (loader.py, "Stamp is fresh but no cache file: the last
\* fetch failed."): no load is refused for want of an answer while one is asked
\* for.  It fails for the second load of a process, whose first began the fetch.
RefusedForFailure ==
  [][\A p \in Proc : verdict[p] # "unanswered" /\ verdict'[p] = "unanswered" =>
       \A q \in Proc : fetch[q] \notin {"ask", "save"}]_vars

===============================================================================
