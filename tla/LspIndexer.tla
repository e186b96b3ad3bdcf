----------------------------- MODULE LspIndexer -----------------------------
(* The command `index` (cli/_commands.py).  Without --lsp the files at the ref
   are collected, parsed one after the other and put into an index
   (core/indexer.py).  With --lsp languages are detected first, a language server
   is started or connected for each (lsp/launcher.py), the files are parsed one
   at a time and enriched by hovers, several files and several hovers at a time
   (lsp/enricher.py), and in the end the servers are let go.  The ref is read
   once to detect the languages and again to collect the files: it may have moved.

   Everything runs in one event loop; a step is what runs between two awaits.
   LspClient models a connection in detail.  Here a client starts or fails, a
   hover answers, fails, or ends by the CancelledError of a reader that goes
   away, and shutdown() releases all it has, fails harmlessly, or raises a
   CancelledError, which suppress(Exception) lets through.  On a client that did
   not start, shutdown() does nothing. *)
EXTENDS Naturals, FiniteSets

CONSTANTS File,       \* files the ref can have
          Lang,       \* languages that have a server
          LangOf,     \* file -> its language, or one that has no server, or "none"
          Manual,     \* languages whose server runs already
          Stdio,      \* languages whose server is a subprocess of the client
          Hovers,     \* names to ask about in each file
          FileSlots,  \* _FILE_CONCURRENCY
          HoverSlots, \* _MAX_CONCURRENT
          MaxCancels  \* CancelledErrors that come out of a client

ASSUME LspIndexerAssumption ==
  /\ Manual \subseteq Lang /\ Stdio \subseteq Lang \ Manual /\ "none" \notin Lang /\ FileSlots \in Nat \ {0} /\ HoverSlots \in Nat \ {0}
  /\ MaxCancels \in Nat

VARIABLES
  lsp,      \* --lsp
  phase,    \* where the command is
  todo,     \* languages still to connect
  starting, \* the language whose server is being connected, or "none"
  process,  \* language -> a server process runs for it
  socket,   \* language -> a connection to its server is open
  clients,  \* languages with a connected client
  failed,   \* languages that could not be connected
  file,     \* file -> where its task is
  parser,   \* the file in the one parsing thread, or "idle"
  hover,    \* file -> name -> where its hover is
  index,    \* file -> "bare" or "typed", once in the index
  result,   \* "none", "printed" or "failed"
  cancels,  \* CancelledErrors so far
  escaped   \* history: one came out of a shutdown()

connVars == <<todo, starting, process, socket, clients, failed>>
fileVars == <<file, parser, hover, index>>
indexVars == <<lsp, phase, connVars, fileVars, result, cancels, escaped>>

IndexInit ==
  /\ lsp \in BOOLEAN
  /\ phase = IF lsp THEN "detect" ELSE "collect"
  /\ starting = "none"
  /\ todo = {} /\ clients = {} /\ failed = {}
  /\ process = [l \in Lang |-> FALSE] /\ socket = [l \in Lang |-> FALSE]
  /\ file = [f \in File |-> "waiting"]
  /\ parser = "idle"
  /\ hover = [f \in File |-> [h \in Hovers |-> "unasked"]]
  /\ index = [f \in File |-> "out"]
  /\ result = "none"
  /\ cancels = 0
  /\ escaped = FALSE

Fail == phase' = "over" /\ result' = "failed"

-------------------------------------------------------------------------------
(* Servers *)

\* detect_languages: those of the files that have a server.
Found(there) == Lang \cap {LangOf[f] : f \in there}

\* Nothing is launched when no language has a server.  The user may decline the
\* servers that would be started.
Detect ==
  /\ phase = "detect"
  /\ \E there \in SUBSET File, approved \in BOOLEAN :
       /\ todo' = IF approved THEN Found(there) ELSE Found(there) \cap Manual
       /\ IF Found(there) = {} THEN Fail ELSE phase' = "connect" /\ UNCHANGED result
  /\ UNCHANGED <<lsp, starting, process, socket, clients, failed, fileVars, cancels, escaped>>

\* git fails, or a parser's detection does.
DetectFails ==
  /\ phase = "detect"
  /\ Fail
  /\ UNCHANGED <<lsp, connVars, fileVars, cancels, escaped>>

\* The next language: servers that run come first, the others are spawned.
Launch(l) ==
  /\ phase = "connect" /\ starting = "none"
  /\ l \in todo /\ (l \in Manual \/ todo \cap Manual = {})
  /\ todo' = todo \ {l}
  /\ starting' = l
  /\ process' = [process EXCEPT ![l] = l \notin Manual]
  /\ UNCHANGED <<lsp, phase, socket, clients, failed, fileVars, result, cancels, escaped>>

Connect ==
  /\ phase = "connect" /\ starting # "none"
  /\ starting' = "none"
  /\ socket' = [socket EXCEPT ![starting] = TRUE]
  /\ clients' = clients \cup {starting}
  /\ UNCHANGED <<lsp, phase, todo, process, failed, fileVars, result, cancels, escaped>>

\* A failure that leaves what was started to its launcher.
BadConnectFails ==
  /\ phase = "connect" /\ starting # "none"
  /\ starting' = "none"
  /\ failed' = failed \cup {starting}
  /\ UNCHANGED <<lsp, phase, todo, process, socket, clients, fileVars, result, cancels, escaped>>

\* The program is not found, the port is not reached or the handshake fails: the
\* client cleans up after itself and the launcher is stopped.
ConnectFails ==
  /\ phase = "connect" /\ starting # "none"
  /\ starting' = "none"
  /\ failed' = failed \cup {starting}
  /\ process' = [process EXCEPT ![starting] = FALSE]
  /\ UNCHANGED <<lsp, phase, todo, socket, clients, fileVars, result, cancels, escaped>>

\* The handshake fails over stdio while the stderr task runs: start() ends by the
\* CancelledError of its own clean-up (LspClient, startAborted) and leaves the
\* subprocess.  The error is caught; a client that has not started shuts nothing
\* down, and the launcher of a stdio server owns nothing.
HandshakeStrands ==
  /\ phase = "connect" /\ starting \in Stdio
  /\ starting' = "none"
  /\ failed' = failed \cup {starting}
  /\ UNCHANGED <<lsp, phase, todo, process, socket, clients, fileVars, result, cancels, escaped>>

\* All asked: a failed language fails the command, and so does having no client.
Connected ==
  /\ phase = "connect" /\ todo = {} /\ starting = "none"
  /\ phase' = IF failed # {} THEN "abandon" ELSE IF clients = {} THEN "release" ELSE "collect"
  /\ UNCHANGED <<lsp, connVars, fileVars, result, cancels, escaped>>

\* Shutting one client down, after a failure or in the finally clause: its
\* connection is closed, and its subprocess ended if it has one.
Release(l) ==
  /\ phase \in {"abandon", "release"}
  /\ l \in clients
  /\ clients' = clients \ {l}
  /\ process' = [process EXCEPT ![l] = @ /\ l \notin Stdio]
  /\ socket' = [socket EXCEPT ![l] = FALSE]
  /\ UNCHANGED <<lsp, phase, todo, starting, failed, fileVars, result, cancels, escaped>>

\* shutdown() raises a CancelledError: the other clients and all launchers are left.
ReleaseCancelled(l) ==
  /\ phase \in {"abandon", "release"} /\ cancels < MaxCancels
  /\ l \in clients
  /\ cancels' = cancels + 1
  /\ escaped' = TRUE
  /\ Fail
  /\ UNCHANGED <<lsp, connVars, fileVars>>

\* When all clients are down the launchers are stopped: those of the languages
\* that were connected, for a failed one is not among them.
AllReleased ==
  /\ phase \in {"abandon", "release"} /\ clients = {}
  /\ process' = [l \in Lang |-> process[l] /\ l \in failed]
  /\ phase' = "over"
  /\ result' = IF result = "none" THEN "failed" ELSE result
  /\ UNCHANGED <<lsp, todo, starting, socket, clients, failed, fileVars, cancels, escaped>>

-------------------------------------------------------------------------------
(* Files: those at the ref, read by git; then index_repo, or _process_one under a
   semaphore and with one thread that parses *)

Collect ==
  /\ phase = "collect"
  /\ \E there \in SUBSET File :
       file' = [f \in File |-> IF f \in there THEN "waiting" ELSE "absent"]
  /\ phase' = "index"
  /\ UNCHANGED <<lsp, connVars, parser, hover, index, result, cancels, escaped>>

\* An answer of git that is cut short, or names or holds what is no UTF-8: no
\* file is dropped silently.
CollectFails ==
  /\ phase = "collect"
  /\ phase' = "release" /\ result' = "failed"
  /\ UNCHANGED <<lsp, connVars, fileVars, cancels, escaped>>

Indexing == phase = "index"
Started(f) == file[f] \notin {"absent", "waiting", "skipped", "error", "indexed"}

\* Without --lsp: one file after the other, nothing in between.
IndexFile(f) ==
  /\ Indexing /\ file[f] = "waiting"
  /\ \E end \in IF LangOf[f] = "none" THEN {"skipped"} ELSE {"error", "indexed"} :
       /\ file' = [file EXCEPT ![f] = end]
       /\ index' = [index EXCEPT ![f] = IF end = "indexed" THEN "bare" ELSE @]
  /\ UNCHANGED <<lsp, phase, connVars, parser, hover, result, cancels, escaped>>

TakeSlot(f) ==
  /\ Indexing /\ file[f] = "waiting"
  /\ Cardinality({g \in File : Started(g)}) < FileSlots
  /\ file' = [file EXCEPT ![f] = "queued"]
  /\ UNCHANGED <<lsp, phase, connVars, parser, hover, index, result, cancels, escaped>>

BeginParse(f) ==
  /\ Indexing /\ file[f] = "queued" /\ parser = "idle"
  /\ parser' = f
  /\ file' = [file EXCEPT ![f] = "parsing"]
  /\ UNCHANGED <<lsp, phase, connVars, hover, index, result, cancels, escaped>>

\* A parser that raises and keeps the thread.
BadEndParse(f) ==
  /\ file[f] = "parsing"
  /\ \E end \in IF LangOf[f] = "none" THEN {"skipped"}
                ELSE {"error", IF LangOf[f] \in clients THEN "open" ELSE "bare"} :
       /\ parser' = IF end = "error" THEN parser ELSE "idle"
       /\ file' = [file EXCEPT ![f] = end]
  /\ UNCHANGED <<lsp, phase, connVars, hover, index, result, cancels, escaped>>

\* No parser, an error, or a tree; a tree without an enricher is done.  A task
\* that has ended is merged when the loop comes round to it.
EndParse(f) ==
  /\ file[f] = "parsing"
  /\ parser' = "idle"
  /\ \E end \in IF LangOf[f] = "none" THEN {"skipped"}
                ELSE {"error", IF LangOf[f] \in clients THEN "open" ELSE "bare"} :
       file' = [file EXCEPT ![f] = end]
  /\ UNCHANGED <<lsp, phase, connVars, hover, index, result, cancels, escaped>>

\* didOpen, or its failure.
Open(f) ==
  /\ Indexing /\ file[f] = "open"
  /\ \E end \in {"hovering", "error"} : file' = [file EXCEPT ![f] = end]
  /\ UNCHANGED <<lsp, phase, connVars, parser, hover, index, result, cancels, escaped>>

\* The hovers of a file are tasks of their own, and stay so when it is closed.
AskAbout(f, h) ==
  /\ file[f] \notin {"absent", "waiting", "queued", "parsing", "open"}
  /\ file[f] = "hovering" \/ \E g \in Hovers : hover[f][g] # "unasked"
  /\ hover[f][h] = "unasked"
  /\ Cardinality({g \in Hovers : hover[f][g] = "asked"}) < HoverSlots
  /\ hover' = [hover EXCEPT ![f][h] = "asked"]
  /\ UNCHANGED <<lsp, phase, connVars, file, parser, index, result, cancels, escaped>>

Answer(f, h) ==
  /\ hover[f][h] = "asked"
  /\ hover' = [hover EXCEPT ![f][h] = "answered"]
  /\ UNCHANGED <<lsp, phase, connVars, file, parser, index, result, cancels, escaped>>

\* A failed hover that is taken for a name without a type.
BadHoverFails(f, h) ==
  /\ hover[f][h] = "asked"
  /\ hover' = [hover EXCEPT ![f][h] = "failed"]
  /\ UNCHANGED <<lsp, phase, connVars, file, parser, index, result, cancels, escaped>>

\* The first failure is gather's; didClose follows and the file is an error.
HoverFails(f, h) ==
  /\ hover[f][h] = "asked"
  /\ hover' = [hover EXCEPT ![f][h] = "failed"]
  /\ file' = [file EXCEPT ![f] = IF @ = "hovering" THEN "error" ELSE @]
  /\ UNCHANGED <<lsp, phase, connVars, parser, index, result, cancels, escaped>>

\* A CancelledError is no Exception: it comes out of the file's task, and ends
\* the indexing while the other tasks go on; the finally clause still runs.
HoverCancelled(f, h) ==
  /\ hover[f][h] = "asked" /\ cancels < MaxCancels
  /\ cancels' = cancels + 1
  /\ hover' = [hover EXCEPT ![f][h] = "failed"]
  /\ file' = [file EXCEPT ![f] = IF @ = "hovering" THEN "error" ELSE @]
  /\ IF Indexing /\ file[f] = "hovering"
     THEN phase' = "release" /\ result' = "failed"
     ELSE UNCHANGED <<phase, result>>
  /\ UNCHANGED <<lsp, connVars, parser, index, escaped>>

\* All hovers have ended: didClose, and the types are attached.
Attach(f) ==
  /\ Indexing /\ file[f] = "hovering"
  /\ \A h \in Hovers : hover[f][h] \in {"answered", "failed"}
  /\ file' = [file EXCEPT ![f] = "typed"]
  /\ UNCHANGED <<lsp, phase, connVars, parser, hover, index, result, cancels, escaped>>

Merge(f) ==
  /\ Indexing /\ file[f] \in {"bare", "typed"}
  /\ index' = [index EXCEPT ![f] = file[f]]
  /\ file' = [file EXCEPT ![f] = "indexed"]
  /\ UNCHANGED <<lsp, phase, connVars, parser, hover, result, cancels, escaped>>

\* The index is built and printed; an error among the files fails the command,
\* and so does the building of the index.
PrintIndex ==
  /\ Indexing
  /\ \A f \in File : file[f] \in {"absent", "skipped", "error", "indexed"}
  /\ phase' = "release"
  /\ result' \in {"failed"} \cup
       (IF \A f \in File : file[f] # "error" THEN {"printed"} ELSE {})
  /\ UNCHANGED <<lsp, connVars, fileVars, cancels, escaped>>

-------------------------------------------------------------------------------
Servers ==
  \/ Detect \/ DetectFails
  \/ Connect \/ ConnectFails \/ HandshakeStrands \/ Connected \/ AllReleased
  \/ \E l \in Lang : Launch(l) \/ Release(l) \/ ReleaseCancelled(l)
FileTask(f) ==
  \/ TakeSlot(f) \/ BeginParse(f) \/ EndParse(f) \/ Open(f) \/ Attach(f) \/ Merge(f)
  \/ \E h \in Hovers : AskAbout(f, h) \/ Answer(f, h) \/ HoverFails(f, h) \/ HoverCancelled(f, h)

\* index_repo, and index_repo_lsp: the files are collected, then indexed.
IndexRepo == ~lsp /\ (Collect \/ CollectFails \/ \E f \in File : IndexFile(f))
IndexRepoLsp == lsp /\ (Collect \/ CollectFails \/ \E f \in File : FileTask(f))

IndexNext == phase # "over" /\ (Servers \/ IndexRepo \/ IndexRepoLsp \/ PrintIndex)

IndexSpec == IndexInit /\ [][IndexNext]_indexVars

\* The event loop runs what is ready; a hover ends by its timeout at the latest.
FairIndexSpec == IndexSpec /\ WF_indexVars(IndexNext)

-------------------------------------------------------------------------------
(* Properties *)

\* Type correctness.
IndexTypeOK ==
  /\ lsp \in BOOLEAN /\ starting \in Lang \cup {"none"}
  /\ phase \in {"detect", "connect", "abandon", "collect", "index", "release", "over"}
  /\ todo \subseteq Lang /\ clients \subseteq Lang /\ failed \subseteq Lang
  /\ process \in [Lang -> BOOLEAN] /\ socket \in [Lang -> BOOLEAN]
  /\ file \in [File -> {"absent", "waiting", "queued", "parsing", "open", "hovering", "bare",
                        "typed", "skipped", "error", "indexed"}]
  /\ parser \in File \cup {"idle"}
  /\ hover \in [File -> [Hovers -> {"unasked", "asked", "answered", "failed"}]]
  /\ index \in [File -> {"out", "bare", "typed"}]
  /\ result \in {"none", "printed", "failed"}
  /\ cancels \in 0..MaxCancels /\ escaped \in BOOLEAN

\* When the command is over nothing it opened is open and no server it started
\* runs, however it ended, unless a CancelledError came out of a shutdown(), but
\* for the subprocess of a server that could not be connected over stdio.
NothingLeftRunning ==
  phase = "over" /\ ~escaped =>
    \A l \in Lang : ~socket[l] /\ (process[l] => l \in failed \cap Stdio)

\* A client that failed before it was registered is not stranded, as the comment
\* at the clean-up after a failed connection says.
FailedIsNotStranded ==
  phase = "over" => \A l \in failed : ~process[l]

\* A result that is printed certifies every file at the ref: each one is in the
\* index or has no parser, a file in a language with a connected server has its
\* types, and no hover about it failed.
PrintedIsCertified ==
  result = "printed" =>
    /\ failed = {}
    /\ \A f \in File :
         /\ file[f] \in {"absent", "indexed", "skipped"}
         /\ index[f] = "bare" => LangOf[f] \notin clients
         /\ index[f] = "typed" => \A h \in Hovers : hover[f][h] = "answered"

\* The command ends: no slot, thread or hover is waited for in vain.
CommandEnds == <>(phase = "over")

===============================================================================
