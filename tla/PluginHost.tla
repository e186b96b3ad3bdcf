----------------------------- MODULE PluginHost -----------------------------
(* The plugin registry (plugins/registry.py) and the sandbox of each plugin
   (plugins/loader.py), used by several threads at once.

   Parsers are found in two ways.  detect_parser discovers a catalog of entry
   points, under the registry's lock, and loads single entries as the selection
   policy of the Rust core asks for them, each under its entry's lock; the
   content detection and the inventories read the property parsers, which loads
   every entry at its first use, under the registry's lock.  Each of the two
   makes its own instance of a component: an instance is <<"entry", e>> or
   <<"list", e>>.  An instance runs one guest call at a time, under its own
   lock, and is loaded anew before the next call when a call has trapped.

   load_plugin compiles the bytes it has checked: those of a bundled component
   against the manifest that ships with it, those of a guarded one against the
   Rust core's policy, though the file may be replaced between the two.  Its other
   gates (OsvGate) and the instantiation succeed or fail. *)
EXTENDS Naturals, FiniteSets

CONSTANTS Thread,   \* threads that use the registry
          Entry,    \* parser entry points, each with a component of its own
          Excluded, \* those the Rust core keeps from this platform
          Trusted,  \* bundled with the package
          Guarded,  \* those whose bytes the Rust core wants to see
          MaxReplacements, \* component files replaced
          MaxOps,   \* operations of one thread
          MaxTraps, \* guest calls that trap
          Nobody    \* the holder of a free lock

ASSUME PluginHostAssumption ==
  /\ MaxOps \in Nat /\ MaxTraps \in Nat /\ MaxReplacements \in Nat
  /\ Nobody \notin Thread /\ Entry # {}
  /\ Excluded \subseteq Entry /\ Trusted \subseteq Entry /\ Guarded \subseteq Entry

Inst == {"entry", "list"} \X Entry

\* arch_incompatible_reason leaves these.
Offered == Entry \ Excluded

\* The bytes of a component: those the manifest and the policy know, or others.
Bytes == {"shipped", "other"}

VARIABLES
  reg,    \* the registry: catalog made, its entries, list made, parsers, load
          \* errors, the list of enrichers (or of analyzers, or renderers) made, lock
  ent,    \* entry -> has an adapter, lock
  plug,   \* instance -> its store, the bytes compiled, the flag _tainted, lock
  disk,   \* entry -> the bytes in its file
  th,     \* thread -> where it is, what it works on, and what it has met
  traps,  \* guest calls that have trapped
  news    \* replacements of files

vars == <<reg, ent, plug, th, traps, disk, news>>
files == <<disk, news>>

Idle == [pc |-> "idle", inst |-> <<"entry", CHOOSE e \in Entry : TRUE>>,
         buf |-> "none", tried |-> {}, got |-> {}, inside |-> FALSE, saw |-> "nothing", ops |-> 0]

Init ==
  /\ reg = [catalog |-> FALSE, entries |-> {}, listed |-> FALSE, parsers |-> {}, errors |-> {},
            extras |-> FALSE, lock |-> Nobody]
  /\ ent = [e \in Entry |-> [adapter |-> FALSE, lock |-> Nobody]]
  /\ plug = [i \in Inst |-> [store |-> "absent", bytes |-> "other", tainted |-> FALSE, lock |-> Nobody]]
  /\ disk = [e \in Entry |-> "shipped"]
  /\ news = 0
  /\ th = [t \in Thread |-> Idle]
  /\ traps = 0

At(t, pc) == th[t].pc = pc
Goto(t, pc) == th' = [th EXCEPT ![t].pc = pc]
Return(t) == th' = [th EXCEPT ![t] = [Idle EXCEPT !.ops = th[t].ops]]

\* The thread starts an operation.
Begin(t, pc) ==
  /\ At(t, "idle") /\ th[t].ops < MaxOps
  /\ th' = [th EXCEPT ![t].pc = pc, ![t].ops = @ + 1]
  /\ UNCHANGED <<reg, ent, plug, traps, files>>

-------------------------------------------------------------------------------
(* The catalog and the list, both made once under the registry's lock: the
   value is published first, its load errors after it. *)

\* A look without the lock: is the value there?
Look(t, value, there, ready, wait) ==
  /\ At(t, value)
  /\ Goto(t, IF there THEN ready ELSE wait)
  /\ UNCHANGED <<reg, ent, plug, traps, files>>

CheckCatalog(t) == Look(t, "catalog", reg.catalog, "select", "lock catalog")
CheckParsers(t) == Look(t, "parsers", reg.listed, "inventory", "lock parsers")
CheckExtras(t) == Look(t, "extras", reg.extras, "returns", "lock extras")

\* The lock is taken and the value looked for again.
Lock(t, wait, there, ready, make) ==
  /\ At(t, wait)
  /\ reg.lock = Nobody
  /\ IF there
     THEN Goto(t, ready) /\ UNCHANGED reg
     ELSE Goto(t, make) /\ reg' = [reg EXCEPT !.lock = t]
  /\ UNCHANGED <<ent, plug, traps, files>>

LockForCatalog(t) == Lock(t, "lock catalog", reg.catalog, "select", "discover")
LockForParsers(t) ==
  Lock(t, "lock parsers", reg.listed, "inventory", "load parsers")
LockForExtras(t) == Lock(t, "lock extras", reg.extras, "returns", "load extras")

\* _wasm_path_from_ep finds the component of an entry, or raises.
Catalogs == SUBSET Offered

\* _discover_parser_catalog, which resolves paths and loads nothing.
Discover(t) ==
  /\ At(t, "discover")
  /\ \E found \in Catalogs : reg' = [reg EXCEPT !.catalog = TRUE, !.entries = found]
  /\ Goto(t, "publish catalog")
  /\ UNCHANGED <<ent, plug, traps, files>>

\* The errors of the catalog join the others; an excluded entry is none.
PublishCatalogErrors(t) ==
  /\ At(t, "publish catalog")
  /\ reg' = [reg EXCEPT !.errors = @ \cup (Offered \ reg.entries), !.lock = Nobody]
  /\ Goto(t, "select")
  /\ UNCHANGED <<ent, plug, traps, files>>

\* load_plugin in one piece: what may be loaded, and what it makes.
Loadable(e) == e \in Trusted \cup Guarded => disk[e] = "shipped"
Fresh(bytes) == [store |-> "sound", bytes |-> bytes, tainted |-> FALSE, lock |-> Nobody]

\* _load_parsers keeps the entries that load and the messages of the others.
LoadParsers(t) ==
  /\ At(t, "load parsers")
  /\ \E good \in Catalogs :
       /\ \A e \in good : Loadable(e)
       /\ reg' = [reg EXCEPT !.listed = TRUE, !.parsers = good]
       /\ plug' = [i \in Inst |-> IF i[1] = "list" /\ i[2] \in good
                              THEN Fresh(disk[i[2]]) ELSE plug[i]]
       /\ th' = [th EXCEPT ![t].pc = "publish", ![t].got = good]
  /\ UNCHANGED <<ent, traps, files>>

\* A list whose failures are logged and not recorded.
BadPublishErrors(t) ==
  /\ At(t, "publish")
  /\ reg' = [reg EXCEPT !.errors = {}, !.lock = Nobody]
  /\ Goto(t, "inventory")
  /\ UNCHANGED <<ent, plug, traps, files>>

\* The errors of the list replace what was recorded before.
PublishErrors(t) ==
  /\ At(t, "publish")
  /\ reg' = [reg EXCEPT !.errors = Offered \ reg.parsers, !.lock = Nobody]
  /\ Goto(t, "inventory")
  /\ UNCHANGED <<ent, plug, traps, files>>

\* A renderer that fails to load is left out of the list.
LoadExtras(t) ==
  /\ At(t, "load extras")
  /\ reg' = [reg EXCEPT !.extras = TRUE, !.lock = Nobody]
  /\ Goto(t, "returns")
  /\ UNCHANGED <<ent, plug, traps, files>>

\* An enricher or an analyzer that fails to load (or a renderer, where all are
\* required) ends the operation; there is still no list.
LoadExtrasFails(t) ==
  /\ At(t, "load extras")
  /\ reg' = [reg EXCEPT !.lock = Nobody]
  /\ Goto(t, "fails")
  /\ UNCHANGED <<ent, plug, traps, files>>

\* parser_load_failure_summary: silent when the list has a parser, or an entry
\* its adapter, or when there is no list and no error; otherwise it names the
\* causes it knows, or says that no parser is installed.
Summary(t) ==
  /\ At(t, "summary")
  /\ th' = [th EXCEPT ![t].pc = "returns",
       ![t].saw = IF \/ reg.parsers # {}
                     \/ reg.catalog /\ \E e \in Entry : ent[e].adapter
                     \/ reg.errors = {} /\ ~reg.listed
                  THEN "silent"
                  ELSE IF reg.errors = {} THEN "uninstalled" ELSE "causes"]
  /\ UNCHANGED <<reg, ent, plug, traps, files>>

Returns(t) ==
  /\ At(t, "returns")
  /\ Return(t)
  /\ UNCHANGED <<reg, ent, plug, traps, files>>

-------------------------------------------------------------------------------
(* detect_parser: what the selection policy may ask for, and how it ends *)

AskLoad(t, e) ==
  /\ At(t, "select")
  /\ e \in reg.entries \ th[t].tried
  /\ th' = [th EXCEPT ![t].pc = "entry", ![t].inst = <<"entry", e>>, ![t].tried = @ \cup {e}]
  /\ UNCHANGED <<reg, ent, plug, traps, files>>

AskProbe(t, e) ==
  /\ At(t, "select")
  /\ e \in th[t].got
  /\ th' = [th EXCEPT ![t].pc = "probe", ![t].inst = <<"entry", e>>, ![t].got = @ \ {e}]
  /\ UNCHANGED <<reg, ent, plug, traps, files>>

\* Selected, a failure to raise again, or not found.
Decide(t) ==
  /\ At(t, "select")
  /\ Return(t)
  /\ UNCHANGED <<reg, ent, plug, traps, files>>

\* _load_catalog_entry, before the lock.
CheckEntry(t) ==
  /\ At(t, "entry")
  /\ Goto(t, IF ent[th[t].inst[2]].adapter THEN "meta" ELSE "lock entry")
  /\ UNCHANGED <<reg, ent, plug, traps, files>>

\* A lock behind which nothing is looked at again.
BadLockEntry(t) ==
  LET e == th[t].inst[2] IN
  /\ At(t, "lock entry")
  /\ ent[e].lock = Nobody
  /\ Goto(t, "load")
  /\ ent' = [ent EXCEPT ![e].lock = t]
  /\ UNCHANGED <<reg, plug, traps, files>>

LockEntry(t) ==
  LET e == th[t].inst[2] IN
  /\ At(t, "lock entry")
  /\ ent[e].lock = Nobody
  /\ IF ent[e].adapter
     THEN Goto(t, "meta") /\ UNCHANGED ent
     ELSE Goto(t, "load") /\ ent' = [ent EXCEPT ![e].lock = t]
  /\ UNCHANGED <<reg, plug, traps, files>>

\* _verify_builtin_provenance reads a bundled component and hands on the bytes.
VerifyBytes(t) ==
  LET e == th[t].inst[2] IN
  /\ At(t, "load")
  /\ e \in Trusted => disk[e] = "shipped"
  /\ th' = [th EXCEPT ![t].pc = "approve", ![t].buf = IF e \in Trusted THEN disk[e] ELSE "none"]
  /\ UNCHANGED <<reg, ent, plug, traps, files>>

\* _check_rust_component_load_policy reads a guarded one, which has to be what
\* was verified.
ApproveBytes(t) ==
  LET e == th[t].inst[2] IN
  /\ At(t, "approve")
  /\ e \in Guarded => disk[e] = "shipped" /\ th[t].buf \in {"none", disk[e]}
  /\ th' = [th EXCEPT ![t].pc = "compile", ![t].buf = IF e \in Guarded THEN disk[e] ELSE @]
  /\ UNCHANGED <<reg, ent, plug, traps, files>>

\* The bytes that were checked are compiled; others are read now.
LoadEntry(t) ==
  LET e == th[t].inst[2] IN
  /\ At(t, "compile")
  /\ ent' = [ent EXCEPT ![e] = [adapter |-> TRUE, lock |-> Nobody]]
  /\ plug' = [plug EXCEPT ![<<"entry", e>>] =
                 Fresh(IF th[t].buf = "none" THEN disk[e] ELSE th[t].buf)]
  /\ th' = [th EXCEPT ![t].pc = "meta", ![t].buf = "none"]
  /\ UNCHANGED <<reg, traps, files>>

Opening == {"load", "approve", "compile"}

\* A failure that leaves through the handler with the lock taken.
BadLoadEntryFails(t) ==
  LET e == th[t].inst[2] IN
  /\ th[t].pc \in Opening
  /\ reg' = [reg EXCEPT !.errors = @ \cup {e}]
  /\ th' = [th EXCEPT ![t].pc = "select", ![t].buf = "none"]
  /\ UNCHANGED <<ent, plug, traps, files>>

\* The message is recorded without the registry's lock; the event goes back to
\* the policy.
LoadEntryFails(t) ==
  LET e == th[t].inst[2] IN
  /\ th[t].pc \in Opening
  /\ ent' = [ent EXCEPT ![e].lock = Nobody]
  /\ reg' = [reg EXCEPT !.errors = @ \cup {e}]
  /\ th' = [th EXCEPT ![t].pc = "select", ![t].buf = "none"]
  /\ UNCHANGED <<plug, traps, files>>

-------------------------------------------------------------------------------
(* Content detection and the inventories go through the list *)

\* A parser is asked for its languages, or to look at a text; or, with its
\* failures taken for silence (_load_language_info), for what it says of itself.
UseListed(t, e, pc) ==
  /\ At(t, "inventory") /\ pc \in {"listed", "info"}
  /\ e \in reg.parsers /\ e \notin th[t].tried
  /\ th' = [th EXCEPT ![t].pc = pc, ![t].inst = <<"list", e>>, ![t].tried = @ \cup {e}]
  /\ UNCHANGED <<reg, ent, plug, traps, files>>

FinishList(t) ==
  /\ At(t, "inventory")
  /\ Return(t)
  /\ UNCHANGED <<reg, ent, plug, traps, files>>

-------------------------------------------------------------------------------
(* LoadedPlugin: a call from detect_parser ("meta", "probe") or from a user of
   the list ("listed", "info"); its lock is held from the look at _tainted to the end. *)

Calling == {"meta", "probe", "listed", "info"}

\* Where the caller goes with a result, and with an exception.
AfterCall(t, pc, ok) ==
  th' = [th EXCEPT
    ![t].inside = FALSE,
    ![t].pc = CASE pc \in {"meta", "probe"} -> "select"
                [] pc = "info" \/ ok -> "inventory"
                [] OTHER -> "fails",
    ![t].got = IF pc = "meta" /\ ok THEN @ \cup {th[t].inst[2]} ELSE @]

\* The exception leaves the operation.
Fails(t) ==
  /\ At(t, "fails")
  /\ Return(t)
  /\ UNCHANGED <<reg, ent, plug, traps, files>>

\* A look for an export that trusts the store it finds.
BadEnterCall(t) ==
  LET i == th[t].inst IN
  /\ th[t].pc \in Calling /\ ~th[t].inside
  /\ plug[i].lock = Nobody
  /\ plug' = [plug EXCEPT ![i].lock = t]
  /\ th' = [th EXCEPT ![t].inside = TRUE]
  /\ UNCHANGED <<reg, ent, traps, files>>

\* _call and _has_export: a tainted plugin is loaded anew, store and all, from
\* what its file now holds.
EnterCall(t) ==
  LET i == th[t].inst IN
  /\ th[t].pc \in Calling /\ ~th[t].inside
  /\ plug[i].lock = Nobody
  /\ plug[i].tainted => Loadable(i[2])
  /\ plug' = [plug EXCEPT ![i] = IF @.tainted THEN [Fresh(disk[i[2]]) EXCEPT !.lock = t]
                                 ELSE [@ EXCEPT !.lock = t]]
  /\ th' = [th EXCEPT ![t].inside = TRUE]
  /\ UNCHANGED <<reg, ent, traps, files>>

\* _reload raises, for load_plugin may be refused this time: still tainted.
ReloadFails(t) ==
  /\ th[t].pc \in Calling /\ ~th[t].inside
  /\ plug[th[t].inst].lock = Nobody
  /\ plug[th[t].inst].tainted
  /\ AfterCall(t, th[t].pc, FALSE)
  /\ UNCHANGED <<reg, ent, plug, traps, files>>

Within(t, pc) == At(t, pc) /\ th[t].inside

\* The fuel cannot be set: the guest is not called and the store given up.
NoFuel(t, pc) ==
  /\ Within(t, pc) /\ traps < MaxTraps
  /\ traps' = traps + 1
  /\ plug' = [plug EXCEPT ![th[t].inst].tainted = TRUE, ![th[t].inst].lock = Nobody]
  /\ AfterCall(t, pc, FALSE)
  /\ UNCHANGED <<reg, ent, files>>

\* The guest returns.
GuestReturns(t, pc) ==
  /\ Within(t, pc)
  /\ plug' = [plug EXCEPT ![th[t].inst].lock = Nobody]
  /\ AfterCall(t, pc, TRUE)
  /\ UNCHANGED <<reg, ent, traps, files>>

\* The guest traps, runs out of fuel or memory, or its result cannot be
\* lifted: the store may be in any state.
GuestTraps(t, pc) ==
  /\ Within(t, pc) /\ traps < MaxTraps
  /\ traps' = traps + 1
  /\ plug' = [plug EXCEPT ![th[t].inst] = [@ EXCEPT !.store = "broken", !.tainted = TRUE,
                                                    !.lock = Nobody]]
  /\ AfterCall(t, pc, FALSE)
  /\ UNCHANGED <<reg, ent, files>>

-------------------------------------------------------------------------------
\* A file is replaced: an update, a development build.
Replace(e) ==
  /\ news < MaxReplacements
  /\ news' = news + 1
  /\ disk' = [disk EXCEPT ![e] = IF @ = "shipped" THEN "other" ELSE "shipped"]
  /\ UNCHANGED <<reg, ent, plug, th, traps>>

Discovery(t) ==
  \/ CheckCatalog(t) \/ LockForCatalog(t) \/ Discover(t) \/ PublishCatalogErrors(t)
  \/ CheckParsers(t) \/ LockForParsers(t) \/ LoadParsers(t) \/ PublishErrors(t)
  \/ CheckExtras(t) \/ LockForExtras(t) \/ LoadExtras(t) \/ LoadExtrasFails(t)
  \/ Summary(t) \/ Returns(t)
Loading(t) ==
  \/ CheckEntry(t) \/ LockEntry(t)
  \/ VerifyBytes(t) \/ ApproveBytes(t) \/ LoadEntry(t) \/ LoadEntryFails(t)
Selection(t) ==
  \/ \E e \in Entry : AskLoad(t, e) \/ AskProbe(t, e) \/ \E pc \in Calling : UseListed(t, e, pc)
  \/ Decide(t) \/ FinishList(t) \/ Fails(t)
Call(t) ==
  \/ EnterCall(t) \/ ReloadFails(t)
  \/ \E pc \in Calling : NoFuel(t, pc) \/ GuestReturns(t, pc) \/ GuestTraps(t, pc)

Work(t) == Discovery(t) \/ Loading(t) \/ Selection(t) \/ Call(t)

Next ==
  \/ \E t \in Thread :
       \/ \E pc \in {"catalog", "parsers", "extras", "summary"} : Begin(t, pc)
       \/ Work(t)
  \/ \E e \in Offered : Replace(e)

Spec == Init /\ [][Next]_vars

\* A thread that can go on does: guest calls end because they are metered, and
\* no thread returns for ever to a lock another one waits for.
FairSpec == Spec /\ \A t \in Thread : WF_vars(Work(t))

-------------------------------------------------------------------------------
(* Properties *)

\* Type correctness.
TypeOK ==
  /\ reg.catalog \in BOOLEAN /\ reg.entries \subseteq Offered
  /\ reg.listed \in BOOLEAN /\ reg.parsers \subseteq Entry
  /\ reg.errors \subseteq Offered
  /\ reg.extras \in BOOLEAN
  /\ reg.lock \in Thread \cup {Nobody}
  /\ ent \in [Entry -> [adapter : BOOLEAN, lock : Thread \cup {Nobody}]]
  /\ plug \in [Inst -> [store : {"absent", "sound", "broken"}, bytes : Bytes, tainted : BOOLEAN,
                        lock : Thread \cup {Nobody}]]
  /\ \A t \in Thread : th[t].inst \in Inst /\ th[t].tried \subseteq Entry
                       /\ th[t].got \subseteq Entry /\ th[t].ops \in 0..MaxOps
  /\ \A t \in Thread : th[t].buf \in Bytes \cup {"none"}
  /\ disk \in [Entry -> Bytes]
  /\ traps \in 0..MaxTraps /\ news \in 0..MaxReplacements

\* A guest runs on a store that has not trapped since it was made, and alone on
\* it, though threads share adapters and the file may refuse to load again; and
\* what runs of a bundled or guarded component are the bytes that were checked,
\* though the file may be replaced while it is loaded.
GuestsRunSafely ==
  \A t \in Thread : \A pc \in Calling : Within(t, pc) =>
    LET i == th[t].inst IN
    /\ plug[i].store = "sound"
    /\ plug[i].lock = t
    /\ i[2] \in Trusted \cup Guarded => plug[i].bytes = "shipped"

\* An entry, and the list, is loaded by a thread that holds its lock and only
\* while nobody has loaded it: no thread keeps an adapter the others have lost.
LoadedOnce ==
  \A t \in Thread :
    /\ th[t].pc \in Opening => ~ent[th[t].inst[2]].adapter
    /\ At(t, "load parsers") => ~reg.listed
    /\ At(t, "discover") => ~reg.catalog
    /\ At(t, "load extras") => ~reg.extras

\* With the registry's lock free, every parser missing from the list has its
\* cause on record, so that "no parser plugins are installed" is not said of
\* entries that failed to load.  Missing quietly are those of other platforms, one that is
\* disabled (registry.py:913), and a built-in without a file (registry.py:993), which
\* is not installed.
EmptyListHasCauses ==
  reg.lock = Nobody /\ reg.listed => Offered \ reg.parsers \subseteq reg.errors

\* Every detection, inventory and summary ends, whatever fails on the way.
EveryOperationEnds == \A t \in Thread : ~At(t, "idle") ~> At(t, "idle")

===============================================================================
