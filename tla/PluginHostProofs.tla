-------------------------- MODULE PluginHostProofs --------------------------
(* Theorems about PluginHost, for any threads, entry points, files that are
   replaced and calls that trap.

   The invariant says of each thread what it holds and may rely on (ThreadInv), and
   of each instance what was loaded into it (PlugInv).  A step of one thread leaves
   the facts of another alone when it touches no lock that one holds and takes
   nothing back that was loaded (Considerate). *)
EXTENDS PluginHost, TLAPS

Places == {"idle", "catalog", "lock catalog", "discover", "publish catalog", "select", "entry",
           "lock entry", "load", "approve", "compile", "meta", "probe", "parsers",
           "lock parsers", "load parsers", "publish", "inventory", "listed", "info", "extras",
           "lock extras", "load extras", "returns", "fails", "summary"}

Thinking == [pc : Places, inst : Inst, buf : Bytes \cup {"none"}, tried : SUBSET Entry,
             got : SUBSET Entry, inside : BOOLEAN,
             saw : {"nothing", "silent", "uninstalled", "causes"}, ops : 0..MaxOps]

Registries == [catalog : BOOLEAN, entries : SUBSET Entry, listed : BOOLEAN,
               parsers : SUBSET Entry, errors : SUBSET Entry, extras : BOOLEAN,
               lock : Thread \cup {Nobody}]
Entries == [adapter : BOOLEAN, lock : Thread \cup {Nobody}]
Plugs == [store : {"absent", "sound", "broken"}, bytes : Bytes, tainted : BOOLEAN,
          lock : Thread \cup {Nobody}]

Types ==
  /\ reg \in Registries
  /\ ent \in [Entry -> Entries]
  /\ plug \in [Inst -> Plugs]
  /\ disk \in [Entry -> Bytes]
  /\ th \in [Thread -> Thinking]

\* An instance has been made.
Loaded(i) == IF i[1] = "entry" THEN ent[i[2]].adapter ELSE i[2] \in reg.parsers

PlugInv ==
  /\ \A i \in Inst :
       /\ Loaded(i) => plug[i].store # "absent"
       /\ plug[i].store = "broken" => plug[i].tainted
       /\ plug[i].store # "absent" /\ i[2] \in Trusted \cup Guarded => plug[i].bytes = "shipped"
  /\ ~reg.listed => reg.parsers = {}

Making == {"discover", "publish catalog", "load parsers", "publish", "load extras"}
Single == {"entry", "lock entry", "load", "approve", "compile", "meta", "probe"}
Selecting == {"idle", "catalog", "lock catalog", "discover", "publish catalog", "select"} \cup Single

HoldsRegistry(t) ==
  /\ th[t].pc \in Making => reg.lock = t
  /\ th[t].pc = "discover" => ~reg.catalog
  /\ th[t].pc = "load parsers" => ~reg.listed
  /\ th[t].pc = "load extras" => ~reg.extras

HoldsEntry(t) ==
  /\ th[t].pc \in Single => th[t].inst[1] = "entry"
  /\ th[t].pc \in Opening => ent[th[t].inst[2]].lock = t /\ ~ent[th[t].inst[2]].adapter
  /\ th[t].pc \in Selecting => \A e \in th[t].got : ent[e].adapter

HasChecked(t) ==
  /\ th[t].pc = "approve" =>
       th[t].buf = IF th[t].inst[2] \in Trusted THEN "shipped" ELSE "none"
  /\ th[t].pc = "compile" /\ th[t].inst[2] \in Trusted \cup Guarded => th[t].buf = "shipped"

HoldsPlug(t) ==
  /\ th[t].pc \in {"listed", "info"} => th[t].inst[1] = "list"
  /\ th[t].pc \in Calling => Loaded(th[t].inst)
  /\ th[t].inside => /\ th[t].pc \in Calling
                     /\ plug[th[t].inst].lock = t /\ ~plug[th[t].inst].tainted

ThreadInv(t) == HoldsRegistry(t) /\ HoldsEntry(t) /\ HasChecked(t) /\ HoldsPlug(t)

Causes ==
  reg.listed /\ (\A t \in Thread : th[t].pc # "publish") => Offered \ reg.parsers \subseteq reg.errors

Inv == Types /\ PlugInv /\ Causes /\ \A t \in Thread : ThreadInv(t)

-------------------------------------------------------------------------------

LEMMA IdleType ==
  /\ Idle \in Thinking /\ Idle.pc = "idle" /\ Idle.got = {} /\ ~Idle.inside
  BY PluginHostAssumption DEF Idle, Thinking, Places, Inst

LEMMA InitInv == Init => Inv
<1> SUFFICES ASSUME Init
             PROVE  Inv
  OBVIOUS
<1>1. Types
  BY IdleType DEF Init, Types, Registries, Entries, Plugs, Bytes
<1>2. PlugInv
  BY DEF Init, PlugInv, Loaded, Inst
<1>3. Causes
  BY DEF Init, Causes
<1>4. ASSUME NEW t \in Thread
      PROVE  ThreadInv(t)
  BY IdleType DEF Init, ThreadInv, HoldsRegistry, HoldsEntry, HasChecked, HoldsPlug, Making, Single,
                  Selecting, Opening, Calling
<1> QED
  BY <1>1, <1>2, <1>3, <1>4 DEF Inv

-------------------------------------------------------------------------------
(* Steps of one thread, and the others *)

Considerate(t) ==
  /\ \A u \in Thread \ {t} : th'[u] = th[u]
  /\ reg.lock \in Thread \ {t} => /\ reg'.lock = reg.lock /\ reg'.catalog = reg.catalog
                                  /\ reg'.listed = reg.listed /\ reg'.extras = reg.extras
  /\ \A e \in Entry : /\ ent[e].lock \in Thread \ {t} => ent'[e] = ent[e]
                      /\ ent[e].adapter => ent'[e].adapter
  /\ reg.parsers \subseteq reg'.parsers
  /\ \A i \in Inst : plug[i].lock \in Thread \ {t} /\ Loaded(i) =>
       plug'[i].lock = plug[i].lock /\ plug'[i].tainted = plug[i].tainted

LEMMA OthersKeep ==
  ASSUME Inv, NEW t \in Thread, Considerate(t), NEW u \in Thread \ {t}
  PROVE  ThreadInv(u)'
<1>1. th'[u] = th[u] /\ ThreadInv(u) /\ th[u] \in Thinking
  BY DEF Considerate, Inv, Types
<1>2. HoldsRegistry(u)'
  BY <1>1 DEF Considerate, ThreadInv, HoldsRegistry, Making
<1>3. th[u].inst[2] \in Entry /\ th[u].inst \in Inst /\ \A e \in th[u].got : e \in Entry
  BY <1>1 DEF Thinking, Inst
<1>4. HoldsEntry(u)'
  BY <1>1, <1>3 DEF Considerate, ThreadInv, HoldsEntry
<1>5. HasChecked(u)'
  BY <1>1 DEF ThreadInv, HasChecked
<1>6. Loaded(th[u].inst) => Loaded(th[u].inst)'
  BY <1>3 DEF Considerate, Loaded
<1>7. HoldsPlug(u)'
  BY <1>1, <1>3, <1>6 DEF Considerate, ThreadInv, HoldsPlug, Loaded
<1> QED
  BY <1>2, <1>4, <1>5, <1>7 DEF ThreadInv

LEMMA StepKeeps ==
  ASSUME Inv, NEW t \in Thread, Considerate(t), Types', PlugInv', Causes', ThreadInv(t)'
  PROVE  Inv'
  BY OthersKeep DEF Inv

\* Only the thread moves.
LEMMA ThreadOnly ==
  ASSUME Inv, NEW t \in Thread, NEW next \in Thinking, th' = [th EXCEPT ![t] = next],
         UNCHANGED <<reg, ent, plug, disk>>, th[t].pc # "publish",
         ThreadInv(t)'
  PROVE  Inv'
<1>1. Types' /\ \A u \in Thread \ {t} : th'[u] = th[u]
  BY DEF Inv, Types
<1>2. Considerate(t)
  BY <1>1 DEF Considerate
<1>3. PlugInv'
  BY DEF Inv, PlugInv, Loaded
<1>4. Causes'
  BY <1>1 DEF Inv, Causes
<1> QED
  BY <1>1, <1>2, <1>3, <1>4, StepKeeps

\* It moves to where it holds nothing.
LEMMA EmptyHanded ==
  ASSUME Inv, NEW t \in Thread, NEW next \in Thinking, th' = [th EXCEPT ![t] = next],
         next.pc \notin Making \cup Single \cup Calling, ~next.inside,
         next.pc \in Selecting => next.got = {} \/ (th[t].pc \in Selecting /\ next.got = th[t].got),
         \A e \in Entry : ent[e].adapter => ent'[e].adapter
  PROVE  ThreadInv(t)'
<1>1. th'[t] = next /\ ThreadInv(t) /\ th[t] \in Thinking
  BY DEF Inv, Types
<1>2. HoldsRegistry(t)' /\ HasChecked(t)' /\ HoldsPlug(t)'
  BY <1>1 DEF HoldsRegistry, HasChecked, HoldsPlug, Making, Single, Calling
<1>3. \A e \in next.got : e \in Entry
  BY DEF Thinking
<1>4. HoldsEntry(t)'
  BY <1>1, <1>3 DEF HoldsEntry, ThreadInv, Single, Opening
<1> QED
  BY <1>2, <1>4 DEF ThreadInv

\* The steps that look, wait and return.
LEMMA LookKeeps ==
  ASSUME Inv, NEW t \in Thread,
         \/ \E pc \in {"catalog", "parsers", "extras", "summary"} : Begin(t, pc)
         \/ CheckCatalog(t) \/ CheckParsers(t) \/ CheckExtras(t)
         \/ Summary(t) \/ Returns(t) \/ Decide(t) \/ FinishList(t) \/ Fails(t)
  PROVE  Inv'
<1>1. th[t] \in Thinking /\ th \in [Thread -> Thinking] /\ HoldsPlug(t)
  BY DEF Inv, Types, ThreadInv
<1>2. UNCHANGED <<reg, ent, plug, disk>>
  BY DEF Begin, CheckCatalog, CheckParsers, CheckExtras, Look, Summary, Returns, Decide,
         FinishList, Fails, files
<1>3. ASSUME NEW next \in Thinking, th' = [th EXCEPT ![t] = next],
             next.pc \notin Making \cup Single \cup Calling, ~next.inside, th[t].pc # "publish",
             next.pc \in Selecting =>
               next.got = {} \/ (th[t].pc \in Selecting /\ next.got = th[t].got)
      PROVE  Inv'
  <2>1. ThreadInv(t)'
    BY <1>2, <1>3, EmptyHanded
  <2> QED
    BY <1>2, <1>3, <2>1, ThreadOnly
<1>4. CASE \E pc \in {"catalog", "parsers", "extras", "summary"} : Begin(t, pc)
  <2>1. PICK pc \in {"catalog", "parsers", "extras", "summary"} : Begin(t, pc)
    BY <1>4
  <2> DEFINE next == [th[t] EXCEPT !.pc = pc, !.ops = @ + 1]
  <2>2. th' = [th EXCEPT ![t] = next] /\ th[t].pc = "idle" /\ next.ops \in 0..MaxOps
    BY <1>1, <2>1, PluginHostAssumption DEF Begin, At, Thinking
  <2>3. /\ next \in Thinking /\ next.pc = pc /\ next.got = th[t].got
        /\ next.inside = th[t].inside
    BY <1>1, <2>2 DEF Thinking, Places
  <2> HIDE DEF next
  <2> QED
    BY <1>1, <1>3, <2>2, <2>3 DEF HoldsPlug, Making, Single, Calling, Selecting
<1>5. CASE CheckCatalog(t) \/ CheckParsers(t) \/ CheckExtras(t)
  <2>1. PICK pc \in {"lock catalog", "select", "lock parsers", "inventory", "lock extras", "returns"} :
          /\ Goto(t, pc) /\ th[t].pc \in {"catalog", "parsers", "extras"}
          /\ pc \in {"lock catalog", "select"} => th[t].pc = "catalog"
    BY <1>5 DEF CheckCatalog, CheckParsers, CheckExtras, Look, At
  <2> DEFINE next == [th[t] EXCEPT !.pc = pc]
  <2>2. /\ th' = [th EXCEPT ![t] = next]
        /\ next \in Thinking /\ next.pc = pc /\ next.got = th[t].got
        /\ next.inside = th[t].inside
    BY <1>1, <2>1 DEF Thinking, Places, Goto
  <2> HIDE DEF next
  <2> QED
    BY <1>1, <1>3, <2>1, <2>2 DEF HoldsPlug, Making, Single, Calling, Selecting
<1>6. CASE Summary(t)
  <2>1. PICK saw \in {"silent", "uninstalled", "causes"} :
          th' = [th EXCEPT ![t] = [th[t] EXCEPT !.pc = "returns", !.saw = saw]]
    BY <1>1, <1>6 DEF Summary
  <2> DEFINE next == [th[t] EXCEPT !.pc = "returns", !.saw = saw]
  <2>2. /\ th' = [th EXCEPT ![t] = next]
        /\ next \in Thinking /\ next.pc = "returns" /\ next.got = th[t].got
        /\ next.inside = th[t].inside /\ th[t].pc = "summary"
    BY <1>1, <1>6, <2>1 DEF Thinking, Places, Summary, At
  <2> HIDE DEF next
  <2> QED
    BY <1>1, <1>3, <2>2 DEF HoldsPlug, Making, Single, Calling, Selecting
<1>7. CASE Returns(t) \/ Decide(t) \/ FinishList(t) \/ Fails(t)
  <2> DEFINE next == [Idle EXCEPT !.ops = th[t].ops]
  <2>1. th' = [th EXCEPT ![t] = next] /\ th[t].pc # "publish"
    BY <1>7 DEF Returns, Decide, FinishList, Fails, Return, At
  <2>2. next \in Thinking /\ next.pc = "idle" /\ next.got = {} /\ ~next.inside
    BY <1>1, IdleType DEF Thinking
  <2> HIDE DEF next
  <2> QED
    BY <1>3, <2>1, <2>2 DEF Making, Single, Calling
<1> QED
  BY <1>4, <1>5, <1>6, <1>7

\* detect_parser asks for an entry to be loaded or probed, the others for one of
\* the list; one that has its adapter need not be loaded.
LEMMA AskKeeps ==
  ASSUME Inv, NEW t \in Thread,
         \/ \E e \in Entry : AskLoad(t, e) \/ AskProbe(t, e) \/ \E pc \in Calling : UseListed(t, e, pc)
         \/ CheckEntry(t)
  PROVE  Inv'
<1>1. th[t] \in Thinking /\ th \in [Thread -> Thinking] /\ ThreadInv(t) /\ reg \in Registries
  BY DEF Inv, Types
<1>2. UNCHANGED <<reg, ent, plug, disk>>
  BY DEF AskLoad, AskProbe, UseListed, CheckEntry, files
<1>3. ASSUME NEW next \in Thinking, th' = [th EXCEPT ![t] = next], th[t].pc # "publish",
             next.pc \notin Making \cup Opening, ~next.inside,
             next.pc \in Single => /\ next.inst[1] = "entry" /\ th[t].pc \in Selecting
                                   /\ next.got \subseteq th[t].got,
             next.pc \in {"listed", "info"} => next.inst[1] = "list",
             next.pc \in Calling => Loaded(next.inst),
             next.pc \notin Selecting \ Single
      PROVE  Inv'
  <2>1. th'[t] = next
    BY <1>1, <1>3
  <2>2. HoldsRegistry(t)' /\ HasChecked(t)'
    BY <1>3, <2>1 DEF HoldsRegistry, HasChecked, Making, Opening
  <2>3. HoldsEntry(t)'
    BY <1>1, <1>2, <1>3, <2>1 DEF ThreadInv, HoldsEntry, Selecting
  <2>4. HoldsPlug(t)'
    BY <1>2, <1>3, <2>1 DEF HoldsPlug, Loaded
  <2> QED
    BY <1>2, <1>3, <2>2, <2>3, <2>4, ThreadOnly DEF ThreadInv
<1>4. ASSUME NEW e \in Entry, AskLoad(t, e)
      PROVE  Inv'
  <2> DEFINE next == [th[t] EXCEPT !.pc = "entry", !.inst = <<"entry", e>>, !.tried = @ \cup {e}]
  <2>1. th' = [th EXCEPT ![t] = next] /\ th[t].pc = "select"
    BY <1>1, <1>4 DEF AskLoad, At, Thinking
  <2>2. /\ next \in Thinking /\ next.pc = "entry" /\ next.inst = <<"entry", e>>
        /\ next.inst[1] = "entry" /\ next.got = th[t].got /\ ~next.inside
    BY <1>1, <2>1 DEF Thinking, Places, Inst, ThreadInv, HoldsPlug, Calling
  <2> HIDE DEF next
  <2> QED
    BY <1>1, <1>3, <2>1, <2>2
    DEF ThreadInv, HoldsPlug, Making, Single, Opening, Calling, Selecting
<1>5. ASSUME NEW e \in Entry, AskProbe(t, e)
      PROVE  Inv'
  <2> DEFINE next == [th[t] EXCEPT !.pc = "probe", !.inst = <<"entry", e>>, !.got = @ \ {e}]
  <2>1. th' = [th EXCEPT ![t] = next] /\ th[t].pc = "select" /\ e \in th[t].got
    BY <1>1, <1>5 DEF AskProbe, At, Thinking
  <2>2. /\ next \in Thinking /\ next.pc = "probe" /\ next.inst = <<"entry", e>>
        /\ next.inst[1] = "entry" /\ next.got \subseteq th[t].got /\ ~next.inside
    BY <1>1, <2>1 DEF Thinking, Places, Inst, ThreadInv, HoldsPlug, Calling
  <2>3. Loaded(<<"entry", e>>)
    BY <1>1, <2>1 DEF ThreadInv, HoldsEntry, Selecting, Loaded
  <2> HIDE DEF next
  <2> QED
    BY <1>1, <1>3, <2>1, <2>2, <2>3
    DEF ThreadInv, HoldsPlug, Making, Single, Opening, Calling, Selecting
<1>6. ASSUME NEW e \in Entry, NEW pc \in {"listed", "info"}, UseListed(t, e, pc)
      PROVE  Inv'
  <2> DEFINE next == [th[t] EXCEPT !.pc = pc, !.inst = <<"list", e>>, !.tried = @ \cup {e}]
  <2>1. th' = [th EXCEPT ![t] = next] /\ th[t].pc = "inventory" /\ e \in reg.parsers
    BY <1>1, <1>6 DEF UseListed, At, Thinking
  <2>2. /\ next \in Thinking /\ next.pc = pc /\ next.inst = <<"list", e>>
        /\ next.inst[1] = "list" /\ ~next.inside
    BY <1>1, <2>1 DEF Thinking, Places, Inst, ThreadInv, HoldsPlug, Calling
  <2>3. Loaded(<<"list", e>>)
    BY <2>1 DEF Loaded
  <2> HIDE DEF next
  <2> QED
    BY <1>1, <1>3, <2>1, <2>2, <2>3
    DEF ThreadInv, HoldsPlug, Making, Single, Opening, Calling, Selecting
<1>7. CASE CheckEntry(t)
  <2>1. th[t].pc = "entry" /\ th[t].inst[1] = "entry" /\ ~th[t].inside
    BY <1>1, <1>7 DEF CheckEntry, At, ThreadInv, HoldsEntry, HoldsPlug, Single, Calling
  <2>2. PICK pc \in {"meta", "lock entry"} :
          Goto(t, pc) /\ (pc = "meta" => ent[th[t].inst[2]].adapter)
    BY <1>7 DEF CheckEntry
  <2> DEFINE next == [th[t] EXCEPT !.pc = pc]
  <2>3. /\ th' = [th EXCEPT ![t] = next] /\ next \in Thinking /\ next.pc = pc
        /\ next.inst = th[t].inst /\ next.got = th[t].got /\ next.inside = th[t].inside
    BY <1>1, <2>2 DEF Thinking, Places, Goto
  <2>4. pc = "meta" => Loaded(th[t].inst)
    BY <2>1, <2>2 DEF Loaded
  <2> HIDE DEF next
  <2> QED
    BY <1>3, <2>1, <2>3, <2>4 DEF Making, Single, Opening, Calling, Selecting
<1> QED
  BY <1>4, <1>5, <1>6, <1>7 DEF UseListed

\* What is checked is what is handed on.
LEMMA CheckKeeps ==
  ASSUME Inv, NEW t \in Thread, VerifyBytes(t) \/ ApproveBytes(t)
  PROVE  Inv'
<1>1. th[t] \in Thinking /\ th \in [Thread -> Thinking] /\ ThreadInv(t) /\ th[t].inst[2] \in Entry
  BY DEF Inv, Types, Thinking, Inst
<1>2. UNCHANGED <<reg, ent, plug, disk>>
  BY DEF VerifyBytes, ApproveBytes, files
<1>3. disk[th[t].inst[2]] \in Bytes
  BY <1>1 DEF Inv, Types
<1>4. PICK pc \in {"approve", "compile"}, buf \in Bytes \cup {"none"} :
        /\ th' = [th EXCEPT ![t] = [th[t] EXCEPT !.pc = pc, !.buf = buf]]
        /\ th[t].pc \in Opening
        /\ pc = "approve" => buf = IF th[t].inst[2] \in Trusted THEN "shipped" ELSE "none"
        /\ pc = "compile" /\ th[t].inst[2] \in Trusted \cup Guarded => buf = "shipped"
  <2>1. CASE VerifyBytes(t)
    <3> DEFINE buf == IF th[t].inst[2] \in Trusted THEN disk[th[t].inst[2]] ELSE "none"
    <3>1. /\ th' = [th EXCEPT ![t] = [th[t] EXCEPT !.pc = "approve", !.buf = buf]]
          /\ th[t].pc = "load" /\ buf = IF th[t].inst[2] \in Trusted THEN "shipped" ELSE "none"
      BY <1>1, <2>1 DEF VerifyBytes, At, Thinking
    <3> QED
      BY <3>1 DEF Bytes, Opening
  <2>2. CASE ApproveBytes(t)
    <3> DEFINE buf == IF th[t].inst[2] \in Guarded THEN disk[th[t].inst[2]] ELSE th[t].buf
    <3>1. /\ th' = [th EXCEPT ![t] = [th[t] EXCEPT !.pc = "compile", !.buf = buf]]
          /\ th[t].pc = "approve"
          /\ th[t].inst[2] \in Guarded => disk[th[t].inst[2]] = "shipped"
      BY <1>1, <2>2 DEF ApproveBytes, At, Thinking
    <3>2. th[t].inst[2] \in Trusted => th[t].buf = "shipped"
      BY <1>1, <3>1 DEF ThreadInv, HasChecked
    <3>3. buf \in Bytes \cup {"none"}
      BY <1>1, <1>3 DEF Thinking
    <3> QED
      BY <3>1, <3>2, <3>3 DEF Opening
  <2> QED
    BY <2>1, <2>2
<1> DEFINE next == [th[t] EXCEPT !.pc = pc, !.buf = buf]
<1>5. /\ th' = [th EXCEPT ![t] = next]
      /\ next \in Thinking /\ next.pc = pc /\ next.buf = buf /\ next.inst = th[t].inst
      /\ next.got = th[t].got /\ next.inside = th[t].inside
  BY <1>1, <1>4 DEF Thinking, Places
<1> HIDE DEF next
<1>6. th'[t] = next
  BY <1>1, <1>5
<1>7. HoldsRegistry(t)' /\ HasChecked(t)' /\ HoldsPlug(t)'
  BY <1>1, <1>4, <1>5, <1>6
  DEF ThreadInv, HoldsRegistry, HasChecked, HoldsPlug, Making, Opening, Calling
<1>8. HoldsEntry(t)'
  BY <1>1, <1>2, <1>4, <1>5, <1>6 DEF ThreadInv, HoldsEntry, Selecting, Single, Opening
<1> QED
  BY <1>2, <1>4, <1>5, <1>7, <1>8, ThreadOnly DEF ThreadInv, Opening

-------------------------------------------------------------------------------
(* The registry *)

\* A step on the registry that goes on to pc; PlugInv and the rest of the thread
\* stay, for only LoadParsers changes the list of parsers.
LEMMA RegistryStep ==
  ASSUME Inv, NEW t \in Thread, NEW pc \in Places, Goto(t, pc), UNCHANGED <<ent, plug, disk>>,
         th[t].pc \notin Single \cup Calling, pc \notin Single \cup Calling,
         pc \in Selecting => th[t].pc \in Selecting,
         reg' \in Registries, reg'.parsers = reg.parsers,
         ~reg'.listed => ~reg.listed,
         reg.lock \in {Nobody, t}, HoldsRegistry(t)', Causes'
  PROVE  Inv'
<1>1. /\ th[t] \in Thinking /\ th \in [Thread -> Thinking] /\ ThreadInv(t)
      /\ Nobody \notin Thread
  BY PluginHostAssumption DEF Inv, Types
<1> DEFINE next == [th[t] EXCEPT !.pc = pc]
<1>2. /\ th' = [th EXCEPT ![t] = next] /\ next \in Thinking /\ next.pc = pc
      /\ next.got = th[t].got /\ next.inside = th[t].inside
  BY <1>1 DEF Goto, Thinking
<1> HIDE DEF next
<1>3. Types' /\ th'[t] = next /\ \A u \in Thread \ {t} : th'[u] = th[u]
  BY <1>1, <1>2 DEF Inv, Types
<1>4. Considerate(t)
  BY <1>1, <1>3 DEF Considerate
<1>5. PlugInv'
  BY DEF Inv, PlugInv, Loaded
<1>6. HoldsEntry(t)' /\ HasChecked(t)' /\ HoldsPlug(t)'
  BY <1>1, <1>2, <1>3
  DEF ThreadInv, HoldsEntry, HasChecked, HoldsPlug, Single, Opening, Calling
<1> QED
  BY <1>3, <1>4, <1>5, <1>6, StepKeeps DEF ThreadInv

LEMMA LockKeeps ==
  ASSUME Inv, NEW t \in Thread, LockForCatalog(t) \/ LockForParsers(t) \/ LockForExtras(t)
  PROVE  Inv'
<1>1. th \in [Thread -> Thinking] /\ reg \in Registries /\ ThreadInv(t)
  BY DEF Inv, Types
<1>2. PICK pc \in {"select", "discover", "inventory", "load parsers", "returns", "load extras"} :
        /\ Goto(t, pc) /\ th[t].pc \in {"lock catalog", "lock parsers", "lock extras"}
        /\ pc \in {"select", "discover"} => th[t].pc = "lock catalog"
        /\ reg.lock = Nobody /\ UNCHANGED <<ent, plug, disk>>
        /\ reg' = IF pc \in Making THEN [reg EXCEPT !.lock = t] ELSE reg
        /\ pc = "discover" => ~reg.catalog
        /\ pc = "load parsers" => ~reg.listed
        /\ pc = "load extras" => ~reg.extras
  BY DEF LockForCatalog, LockForParsers, LockForExtras, Lock, Making, At, files
<1>3. /\ reg' \in Registries /\ reg'.parsers = reg.parsers /\ reg'.listed = reg.listed
      /\ reg'.catalog = reg.catalog /\ reg'.extras = reg.extras /\ reg'.errors = reg.errors
      /\ pc \in Making => reg'.lock = t
  BY <1>1, <1>2 DEF Registries
<1>4. th'[t].pc = pc /\ \A u \in Thread \ {t} : th'[u] = th[u]
  BY <1>1, <1>2 DEF Goto, Thinking
<1>5. HoldsRegistry(t)'
  BY <1>2, <1>3, <1>4 DEF HoldsRegistry
<1>6. Causes'
  BY <1>2, <1>3, <1>4 DEF Inv, Causes
<1> QED
  BY <1>2, <1>3, <1>5, <1>6, RegistryStep DEF Places, Single, Calling, Selecting

\* The catalog and the extras are made, and their errors published.
LEMMA MakeKeeps ==
  ASSUME Inv, NEW t \in Thread,
         Discover(t) \/ PublishCatalogErrors(t) \/ LoadExtras(t) \/ LoadExtrasFails(t)
  PROVE  Inv'
<1>1. /\ th \in [Thread -> Thinking] /\ reg \in Registries /\ ThreadInv(t)
      /\ Offered \subseteq Entry
  BY DEF Inv, Types, Offered
<1>2. PICK pc \in {"publish catalog", "select", "returns", "fails"} :
        /\ Goto(t, pc) /\ th[t].pc \in {"discover", "publish catalog", "load extras"}
        /\ pc \in {"publish catalog", "select"} => th[t].pc # "load extras"
        /\ UNCHANGED <<ent, plug, disk>>
        /\ pc = "publish catalog" => reg'.lock = reg.lock
  BY <1>1 DEF Discover, PublishCatalogErrors, LoadExtras, LoadExtrasFails, At, files, Registries
<1>3. /\ reg' \in Registries /\ reg'.parsers = reg.parsers /\ reg'.listed = reg.listed
      /\ reg.errors \subseteq reg'.errors
  BY <1>1 DEF Discover, PublishCatalogErrors, LoadExtras, LoadExtrasFails, Registries, Catalogs
<1>4. th'[t].pc = pc /\ (\A u \in Thread \ {t} : th'[u] = th[u]) /\ reg.lock = t
  BY <1>1, <1>2 DEF Goto, Thinking, ThreadInv, HoldsRegistry, Making
<1>5. HoldsRegistry(t)'
  BY <1>2, <1>4 DEF HoldsRegistry, Making
<1>6. Causes'
  BY <1>2, <1>3, <1>4 DEF Inv, Causes
<1> QED
  BY <1>2, <1>3, <1>4, <1>5, <1>6, RegistryStep DEF Places, Single, Calling, Selecting

\* The list is published, and then the causes of all that is missing from it.
LEMMA PublishKeeps ==
  ASSUME Inv, NEW t \in Thread, PublishErrors(t)
  PROVE  Inv'
<1>1. /\ th \in [Thread -> Thinking] /\ reg \in Registries /\ ThreadInv(t)
      /\ Offered \subseteq Entry
  BY DEF Inv, Types, Offered
<1>2. /\ Goto(t, "inventory") /\ th[t].pc = "publish" /\ UNCHANGED <<ent, plug, disk>>
  BY DEF PublishErrors, At, files
<1>3. /\ reg' \in Registries /\ reg'.parsers = reg.parsers /\ reg'.listed = reg.listed
      /\ reg'.errors = Offered \ reg.parsers
  BY <1>1 DEF PublishErrors, Registries
<1>4. th'[t].pc = "inventory" /\ reg.lock = t
  BY <1>1, <1>2 DEF Goto, Thinking, ThreadInv, HoldsRegistry, Making
<1>5. HoldsRegistry(t)' /\ Causes'
  BY <1>3, <1>4 DEF HoldsRegistry, Making, Causes
<1> QED
  BY <1>2, <1>3, <1>4, <1>5, RegistryStep DEF Places, Single, Calling, Selecting, Making

\* Nobody uses an instance of the list while it is made, for it was empty.
LEMMA ListKeeps ==
  ASSUME Inv, NEW t \in Thread, LoadParsers(t)
  PROVE  Inv'
<1>1. /\ th \in [Thread -> Thinking] /\ th[t] \in Thinking /\ reg \in Registries /\ ThreadInv(t)
      /\ plug \in [Inst -> Plugs] /\ disk \in [Entry -> Bytes] /\ Nobody \notin Thread
      /\ Offered \subseteq Entry
  BY PluginHostAssumption DEF Inv, Types, Offered
<1>2. PICK good \in Catalogs :
        /\ \A e \in good : Loadable(e)
        /\ reg' = [reg EXCEPT !.listed = TRUE, !.parsers = good]
        /\ plug' = [i \in Inst |-> IF i[1] = "list" /\ i[2] \in good
                                 THEN Fresh(disk[i[2]]) ELSE plug[i]]
        /\ th' = [th EXCEPT ![t].pc = "publish", ![t].got = good]
  BY DEF LoadParsers
<1>3. /\ th[t].pc = "load parsers" /\ UNCHANGED <<ent, disk>> /\ good \subseteq Entry
      /\ reg.lock = t /\ reg.parsers = {}
  BY <1>1, <1>2
  DEF LoadParsers, At, files, Catalogs, Inv, PlugInv, ThreadInv, HoldsRegistry, Making
<1> DEFINE next == [th[t] EXCEPT !.pc = "publish", !.got = good]
<1>4. /\ th' = [th EXCEPT ![t] = next] /\ next \in Thinking /\ next.pc = "publish"
      /\ ~next.inside
  BY <1>1, <1>2, <1>3 DEF Thinking, Places, ThreadInv, HoldsPlug, Calling
<1> HIDE DEF next
<1>5. th'[t] = next /\ \A u \in Thread \ {t} : th'[u] = th[u]
  BY <1>1, <1>4
<1>6. /\ reg' \in Registries /\ reg'.parsers = good /\ reg'.listed /\ reg'.lock = reg.lock
      /\ reg'.catalog = reg.catalog /\ reg'.extras = reg.extras
  BY <1>1, <1>2, <1>3 DEF Registries
<1>7. \A e \in Entry : Fresh(disk[e]) \in Plugs
  BY <1>1 DEF Fresh, Plugs
<1>8. \A i \in Inst : i[1] \in {"entry", "list"} /\ i[2] \in Entry
  BY DEF Inst
<1>9. Types'
  <2>1. \A i \in Inst : plug'[i] \in Plugs
    BY <1>1, <1>2, <1>7, <1>8
  <2>2. plug' \in [Inst -> Plugs]
    BY <1>2, <2>1
  <2> QED
    BY <1>1, <1>3, <1>4, <1>6, <2>2 DEF Inv, Types
<1>10. \A i \in Inst : Loaded(i) => plug'[i] = plug[i]
  BY <1>2, <1>3 DEF Loaded
<1>11. Considerate(t)
  <2>1. \A e \in Entry : ent'[e] = ent[e]
    BY <1>3
  <2> QED
    BY <1>1, <1>3, <1>5, <1>10, <2>1 DEF Considerate
<1>12. PlugInv'
  <2>1. ASSUME NEW i \in Inst
        PROVE  /\ Loaded(i)' => plug'[i].store # "absent"
               /\ plug'[i].store = "broken" => plug'[i].tainted
               /\ plug'[i].store # "absent" /\ i[2] \in Trusted \cup Guarded
                    => plug'[i].bytes = "shipped"
    <3>1. CASE i[1] = "list" /\ i[2] \in good
      BY <1>2, <3>1 DEF Fresh, Loadable
    <3>2. CASE ~(i[1] = "list" /\ i[2] \in good)
      <4>1. plug'[i] = plug[i]
        BY <1>2, <3>2
      <4>2. Loaded(i)' => Loaded(i)
        BY <1>3, <1>6, <1>8, <3>2 DEF Loaded
      <4> QED
        BY <4>1, <4>2 DEF Inv, PlugInv
    <3> QED
      BY <3>1, <3>2
  <2> QED
    BY <1>6, <2>1 DEF PlugInv
<1>13. ThreadInv(t)'
  BY <1>3, <1>4, <1>5, <1>6
  DEF ThreadInv, HoldsRegistry, HoldsEntry, HasChecked, HoldsPlug, Making, Single, Opening,
      Selecting, Calling
<1>14. Causes'
  BY <1>4, <1>5 DEF Causes
<1> QED
  BY <1>9, <1>11, <1>12, <1>13, <1>14, StepKeeps

-------------------------------------------------------------------------------
(* One entry *)

\* A step that goes on with an entry: the locks of the other entries stay.
LEMMA EntryStep ==
  ASSUME Inv, NEW t \in Thread, NEW next \in Thinking, th' = [th EXCEPT ![t] = next],
         NEW e \in Entry, NEW how \in Entries, ent' = [ent EXCEPT ![e] = how],
         ent[e].lock \notin Thread \ {t}, ent[e].adapter => how.adapter,
         UNCHANGED disk, reg' \in Registries, reg'.lock = reg.lock, reg'.catalog = reg.catalog,
         reg'.listed = reg.listed, reg'.extras = reg.extras, reg'.parsers = reg.parsers,
         reg.errors \subseteq reg'.errors, th[t].pc # "publish",
         plug' \in [Inst -> Plugs], \A i \in Inst : Loaded(i) => plug'[i] = plug[i],
         PlugInv', ThreadInv(t)'
  PROVE  Inv'
<1>1. Types' /\ \A u \in Thread \ {t} : th'[u] = th[u]
  BY DEF Inv, Types
<1>2. \A f \in Entry : /\ ent[f].lock \in Thread \ {t} => ent'[f] = ent[f]
                       /\ ent[f].adapter => ent'[f].adapter
  BY DEF Inv, Types
<1>3. Considerate(t)
  BY <1>1, <1>2 DEF Considerate
<1>4. Causes'
  BY <1>1 DEF Inv, Causes
<1> QED
  BY <1>1, <1>3, <1>4, StepKeeps

LEMMA EntryKeeps ==
  ASSUME Inv, NEW t \in Thread, LockEntry(t) \/ LoadEntryFails(t)
  PROVE  Inv'
<1> DEFINE e == th[t].inst[2]
<1>1. /\ th \in [Thread -> Thinking] /\ th[t] \in Thinking /\ reg \in Registries /\ ThreadInv(t)
      /\ ent \in [Entry -> Entries] /\ plug \in [Inst -> Plugs] /\ Nobody \notin Thread
      /\ e \in Entry /\ ent[e] \in Entries /\ UNCHANGED <<plug, disk>>
  BY PluginHostAssumption DEF Inv, Types, Thinking, Inst, LockEntry, LoadEntryFails, files
<1>2. th[t].pc \in Opening \cup {"lock entry"} /\ th[t].inst[1] = "entry" /\ ~th[t].inside
  BY <1>1 DEF LockEntry, LoadEntryFails, At, ThreadInv, HoldsEntry, HoldsPlug, Single, Opening,
              Calling
<1>3. PICK pc \in {"meta", "load", "select"}, buf \in {"none", th[t].buf}, how \in Entries :
        /\ th' = [th EXCEPT ![t] = [th[t] EXCEPT !.pc = pc, !.buf = buf]]
        /\ ent' = [ent EXCEPT ![e] = how]
        /\ ent[e].lock \notin Thread \ {t} /\ how.adapter = ent[e].adapter
        /\ pc = "load" => how.lock = t /\ ~how.adapter
        /\ pc = "meta" => how.adapter
  <2>1. CASE LockEntry(t) /\ ent[e].adapter
    <3>1. ent' = ent /\ ent[e].lock = Nobody /\ Goto(t, "meta")
      BY <2>1 DEF LockEntry
    <3>2. /\ ent' = [ent EXCEPT ![e] = ent[e]]
          /\ th' = [th EXCEPT ![t] = [th[t] EXCEPT !.pc = "meta", !.buf = th[t].buf]]
      BY <1>1, <3>1 DEF Goto, Thinking
    <3> QED
      BY <1>1, <2>1, <3>1, <3>2
  <2>2. CASE LockEntry(t) /\ ~ent[e].adapter
    <3> DEFINE how == [ent[e] EXCEPT !.lock = t]
    <3>1. how \in Entries /\ how.adapter = ent[e].adapter /\ how.lock = t
      BY <1>1 DEF Entries
    <3>2. /\ ent' = [ent EXCEPT ![e] = how] /\ ent[e].lock \notin Thread \ {t}
          /\ th' = [th EXCEPT ![t] = [th[t] EXCEPT !.pc = "load", !.buf = th[t].buf]]
      BY <1>1, <2>2 DEF LockEntry, Goto, Thinking
    <3> QED
      BY <2>2, <3>1, <3>2
  <2>3. CASE LoadEntryFails(t)
    <3> DEFINE how == [ent[e] EXCEPT !.lock = Nobody]
    <3>1. how \in Entries /\ how.adapter = ent[e].adapter
      BY <1>1 DEF Entries
    <3>2. /\ ent' = [ent EXCEPT ![e] = how] /\ ent[e].lock \notin Thread \ {t}
          /\ th' = [th EXCEPT ![t] = [th[t] EXCEPT !.pc = "select", !.buf = "none"]]
      BY <1>1, <2>3 DEF LoadEntryFails, ThreadInv, HoldsEntry, Thinking
    <3> QED
      BY <3>1, <3>2
  <2> QED
    BY <2>1, <2>2, <2>3
<1> DEFINE next == [th[t] EXCEPT !.pc = pc, !.buf = buf]
<1>4. /\ th' = [th EXCEPT ![t] = next] /\ next \in Thinking /\ next.pc = pc
      /\ next.inst = th[t].inst /\ next.got = th[t].got /\ ~next.inside
  BY <1>1, <1>2, <1>3 DEF Thinking, Places
<1>5. /\ reg' \in Registries /\ reg'.lock = reg.lock /\ reg'.catalog = reg.catalog
      /\ reg'.listed = reg.listed /\ reg'.extras = reg.extras /\ reg'.parsers = reg.parsers
      /\ reg.errors \subseteq reg'.errors
  <2>1. reg' = reg \/ reg' = [reg EXCEPT !.errors = @ \cup {e}]
    BY DEF LockEntry, LoadEntryFails
  <2> QED
    BY <1>1, <2>1 DEF Registries
<1> HIDE DEF next
<1>6. \A f \in Entry : ent'[f].adapter <=> ent[f].adapter
  BY <1>1, <1>3
<1>7. \A i \in Inst : Loaded(i)' <=> Loaded(i)
  BY <1>5, <1>6 DEF Loaded, Inst
<1>8. PlugInv'
  BY <1>1, <1>5, <1>7 DEF Inv, PlugInv
<1>9. th'[t] = next /\ ent'[e] = how
  BY <1>1, <1>3, <1>4
<1>10. HoldsEntry(t)'
  <2>1. \A f \in next.got : ent'[f].adapter
    BY <1>1, <1>2, <1>4, <1>6
    DEF ThreadInv, HoldsEntry, Selecting, Single, Opening, Thinking
  <2> QED
    BY <1>2, <1>3, <1>4, <1>9, <2>1 DEF HoldsEntry, Opening
<1>11. HoldsPlug(t)'
  <2>1. pc = "meta" => Loaded(th[t].inst)'
    BY <1>2, <1>3, <1>4, <1>9 DEF Loaded
  <2> QED
    BY <1>3, <1>4, <1>9, <2>1 DEF HoldsPlug, Calling
<1>12. ThreadInv(t)'
  BY <1>3, <1>4, <1>9, <1>10, <1>11 DEF ThreadInv, HoldsRegistry, HasChecked, Making
<1> QED
  BY <1>1, <1>2, <1>3, <1>4, <1>5, <1>8, <1>12, EntryStep DEF Opening

\* Nobody uses the instance of an entry while it is made, for it had no adapter.
LEMMA LoadKeeps ==
  ASSUME Inv, NEW t \in Thread, LoadEntry(t)
  PROVE  Inv'
<1> DEFINE e == th[t].inst[2]
           bytes == IF th[t].buf = "none" THEN disk[e] ELSE th[t].buf
           how == [adapter |-> TRUE, lock |-> Nobody]
           next == [th[t] EXCEPT !.pc = "meta", !.buf = "none"]
<1>1. /\ th \in [Thread -> Thinking] /\ th[t] \in Thinking /\ reg \in Registries /\ ThreadInv(t)
      /\ ent \in [Entry -> Entries] /\ plug \in [Inst -> Plugs] /\ disk \in [Entry -> Bytes]
      /\ e \in Entry /\ th[t].inst \in Inst /\ th[t].pc = "compile"
      /\ UNCHANGED <<reg, disk>>
  BY DEF Inv, Types, Thinking, Inst, LoadEntry, At, files
<1>2. /\ th[t].inst[1] = "entry" /\ ~th[t].inside /\ ent[e].lock = t /\ ~ent[e].adapter
      /\ e \in Trusted \cup Guarded => th[t].buf = "shipped"
  BY <1>1 DEF ThreadInv, HoldsEntry, HasChecked, HoldsPlug, Single, Opening, Calling
<1>3. /\ ent' = [ent EXCEPT ![e] = how] /\ how \in Entries /\ how.adapter
      /\ plug' = [plug EXCEPT ![<<"entry", e>>] = Fresh(bytes)]
  BY DEF LoadEntry, Entries
<1>4. /\ th' = [th EXCEPT ![t] = next] /\ next \in Thinking /\ next.pc = "meta"
      /\ next.inst = th[t].inst /\ next.got = th[t].got /\ ~next.inside
  BY <1>1, <1>2 DEF LoadEntry, Thinking, Places
<1>5. bytes \in Bytes /\ (e \in Trusted \cup Guarded => bytes = "shipped")
  BY <1>1, <1>2 DEF Thinking
<1> HIDE DEF bytes, how, next
<1>6. /\ Fresh(bytes) \in Plugs /\ Fresh(bytes).store = "sound" /\ Fresh(bytes).bytes = bytes
  BY <1>5 DEF Fresh, Plugs
<1>7. th[t].inst = <<"entry", e>>
  BY <1>1, <1>2 DEF Inst
<1>8. \A i \in Inst : plug'[i] = IF i = th[t].inst THEN Fresh(bytes) ELSE plug[i]
  BY <1>1, <1>3, <1>7
<1>9. plug' \in [Inst -> Plugs]
  BY <1>1, <1>3, <1>6
<1>10. ~Loaded(th[t].inst)
  BY <1>2 DEF Loaded
<1>11. \A i \in Inst : i # th[t].inst => (Loaded(i)' <=> Loaded(i))
  BY <1>1, <1>3, <1>7 DEF Loaded, Inst
<1>12. PlugInv'
  BY <1>1, <1>5, <1>6, <1>8, <1>11 DEF Inv, PlugInv
<1>13. th'[t] = next /\ ent'[e] = how /\ \A f \in Entry : ent[f].adapter => ent'[f].adapter
  BY <1>1, <1>3, <1>4
<1>14. ThreadInv(t)'
  <2>1. \A f \in next.got : ent'[f].adapter
    BY <1>1, <1>4, <1>13 DEF ThreadInv, HoldsEntry, Selecting, Single, Thinking
  <2>2. Loaded(th[t].inst)'
    BY <1>2, <1>3, <1>4, <1>13 DEF Loaded
  <2> QED
    BY <1>2, <1>4, <1>13, <2>1, <2>2
    DEF ThreadInv, HoldsRegistry, HoldsEntry, HasChecked, HoldsPlug, Making, Opening, Calling
<1> QED
  BY <1>1, <1>2, <1>3, <1>4, <1>8, <1>9, <1>10, <1>12, <1>14, EntryStep

-------------------------------------------------------------------------------
(* One instance *)

\* A step that changes an instance that is loaded and in nobody else's hands.
LEMMA PlugStep ==
  ASSUME Inv, NEW t \in Thread, NEW next \in Thinking, th' = [th EXCEPT ![t] = next],
         UNCHANGED <<reg, ent, disk>>, th[t].pc \in Calling,
         NEW how \in Plugs, plug' = [plug EXCEPT ![th[t].inst] = how],
         plug[th[t].inst].lock \in {Nobody, t},
         how.store # "absent", how.store = "broken" => how.tainted,
         th[t].inst[2] \in Trusted \cup Guarded => how.bytes = "shipped",
         ThreadInv(t)'
  PROVE  Inv'
<1>1. /\ th[t].inst \in Inst /\ plug \in [Inst -> Plugs] /\ Nobody \notin Thread
      /\ \A u \in Thread \ {t} : th'[u] = th[u]
  BY PluginHostAssumption DEF Inv, Types, Thinking
<1>2. Types'
  BY <1>1 DEF Inv, Types
<1>3. \A i \in Inst : plug'[i] = IF i = th[t].inst THEN how ELSE plug[i]
  BY <1>1
<1>4. Considerate(t)
  BY <1>1, <1>3 DEF Considerate
<1>5. PlugInv'
  BY <1>3 DEF Inv, PlugInv, Loaded
<1>6. Causes'
  BY <1>1 DEF Inv, Causes, Calling
<1> QED
  BY <1>2, <1>4, <1>5, <1>6, StepKeeps

LEMMA EnterKeeps ==
  ASSUME Inv, NEW t \in Thread, EnterCall(t)
  PROVE  Inv'
<1> DEFINE i == th[t].inst
           next == [th[t] EXCEPT !.inside = TRUE]
           how == IF plug[i].tainted THEN [Fresh(disk[i[2]]) EXCEPT !.lock = t]
                  ELSE [plug[i] EXCEPT !.lock = t]
<1>1. /\ th \in [Thread -> Thinking] /\ th[t] \in Thinking /\ ThreadInv(t)
      /\ plug \in [Inst -> Plugs] /\ i \in Inst /\ plug[i] \in Plugs
      /\ i[2] \in Entry /\ disk[i[2]] \in Bytes
  BY DEF Inv, Types, Thinking, Inst
<1>2. /\ th[t].pc \in Calling /\ plug[i].lock = Nobody /\ UNCHANGED <<reg, ent, disk>>
      /\ plug[i].tainted => Loadable(i[2])
  BY DEF EnterCall, files
<1>3. plug' = [plug EXCEPT ![i] = how]
  BY DEF EnterCall
<1>4. /\ th' = [th EXCEPT ![t] = next] /\ next \in Thinking /\ next.pc = th[t].pc
      /\ next.inst = th[t].inst /\ next.got = th[t].got /\ next.buf = th[t].buf
  BY <1>1 DEF EnterCall, Thinking
<1>5. Loaded(i) /\ plug[i].store # "absent"
  BY <1>1, <1>2 DEF ThreadInv, HoldsPlug, Inv, PlugInv
<1>6. /\ how \in Plugs /\ how.store # "absent" /\ how.store # "broken" /\ ~how.tainted
      /\ how.lock = t /\ (i[2] \in Trusted \cup Guarded => how.bytes = "shipped")
  <2>1. CASE plug[i].tainted
    BY <1>1, <1>2, <2>1 DEF Fresh, Plugs, Loadable
  <2>2. CASE ~plug[i].tainted
    BY <1>1, <1>5, <2>2 DEF Plugs, Inv, PlugInv
  <2> QED
    BY <2>1, <2>2
<1> HIDE DEF how, next
<1>7. th'[t] = next /\ plug'[i] = how
  BY <1>1, <1>3, <1>4
<1>8. ThreadInv(t)'
  BY <1>1, <1>2, <1>4, <1>5, <1>6, <1>7
  DEF ThreadInv, HoldsRegistry, HoldsEntry, HasChecked, HoldsPlug, Loaded, Making, Calling, Opening
<1> QED
  BY <1>2, <1>3, <1>4, <1>6, <1>8, PlugStep

\* Where a call leads: nothing is held any more.
LEMMA AfterCallIs ==
  ASSUME Inv, NEW t \in Thread, NEW ok \in BOOLEAN, th[t].pc \in Calling,
         AfterCall(t, th[t].pc, ok), UNCHANGED <<reg, ent>>
  PROVE  \E next \in Thinking : th' = [th EXCEPT ![t] = next] /\ ThreadInv(t)'
<1>1. /\ th \in [Thread -> Thinking] /\ th[t] \in Thinking /\ ThreadInv(t)
      /\ th[t].inst[2] \in Entry
  BY DEF Inv, Types, Thinking, Inst
<1>2. PICK pc \in {"select", "inventory", "fails"}, got \in SUBSET Entry :
        /\ th' = [th EXCEPT ![t] = [th[t] EXCEPT !.inside = FALSE, !.pc = pc, !.got = got]]
        /\ pc = "select" => th[t].pc \in {"meta", "probe"}
        /\ got \subseteq th[t].got \cup (IF th[t].pc = "meta" THEN {th[t].inst[2]} ELSE {})
  <2> DEFINE got == IF th[t].pc = "meta" /\ ok THEN th[t].got \cup {th[t].inst[2]} ELSE th[t].got
             pc == CASE th[t].pc \in {"meta", "probe"} -> "select"
                     [] th[t].pc = "info" \/ ok -> "inventory"
                     [] OTHER -> "fails"
  <2>1. th' = [th EXCEPT ![t] = [th[t] EXCEPT !.inside = FALSE, !.pc = pc, !.got = got]]
    <3>1. th' = [th EXCEPT ![t].inside = FALSE, ![t].pc = pc,
                           ![t].got = IF th[t].pc = "meta" /\ ok THEN @ \cup {th[t].inst[2]} ELSE @]
      BY Zenon DEF AfterCall
    <3> HIDE DEF pc
    <3> QED
      BY <1>1, <3>1 DEF Thinking
  <2>2. pc \in {"select", "inventory", "fails"} /\ (pc = "select" => th[t].pc \in {"meta", "probe"})
    BY DEF Calling
  <2>3. got \in SUBSET Entry /\ got \subseteq th[t].got \cup (IF th[t].pc = "meta" THEN {th[t].inst[2]} ELSE {})
    BY <1>1 DEF Thinking
  <2> QED
    BY <2>1, <2>2, <2>3
<1> DEFINE next == [th[t] EXCEPT !.inside = FALSE, !.pc = pc, !.got = got]
<1>3. /\ th' = [th EXCEPT ![t] = next] /\ next \in Thinking /\ next.pc = pc
      /\ next.got = got /\ ~next.inside
  BY <1>1, <1>2 DEF Thinking, Places
<1> HIDE DEF next
<1>4. th'[t] = next
  BY <1>1, <1>3
<1>5. pc = "select" => \A e \in got : ent[e].adapter
  BY <1>1, <1>2 DEF ThreadInv, HoldsEntry, HoldsPlug, Selecting, Single, Loaded, Calling
<1>6. ThreadInv(t)'
  BY <1>3, <1>4, <1>5
  DEF ThreadInv, HoldsRegistry, HoldsEntry, HasChecked, HoldsPlug, Making, Single, Selecting,
      Opening, Calling
<1> QED
  BY <1>3, <1>6

LEMMA CallKeeps ==
  ASSUME Inv, NEW t \in Thread, Call(t)
  PROVE  Inv'
<1> DEFINE i == th[t].inst
<1>1. /\ th \in [Thread -> Thinking] /\ th[t] \in Thinking /\ ThreadInv(t)
      /\ plug \in [Inst -> Plugs] /\ i \in Inst /\ plug[i] \in Plugs /\ Nobody \notin Thread
  BY PluginHostAssumption DEF Inv, Types, Thinking
<1>2. CASE EnterCall(t)
  BY <1>2, EnterKeeps
<1>3. CASE ReloadFails(t)
  <2>1. /\ th[t].pc \in Calling /\ AfterCall(t, th[t].pc, FALSE)
        /\ UNCHANGED <<reg, ent, plug, disk>>
    BY <1>3 DEF ReloadFails, files
  <2>2. PICK next \in Thinking : th' = [th EXCEPT ![t] = next] /\ ThreadInv(t)'
    BY <2>1, AfterCallIs
  <2> QED
    BY <2>1, <2>2, ThreadOnly DEF Calling
<1>4. ASSUME NEW pc \in Calling, NoFuel(t, pc) \/ GuestReturns(t, pc) \/ GuestTraps(t, pc)
      PROVE  Inv'
  <2>1. /\ th[t].pc = pc /\ th[t].inside /\ UNCHANGED <<reg, ent, disk>>
        /\ plug[i].lock = t /\ Loaded(i)
    BY <1>1, <1>4
    DEF NoFuel, GuestReturns, GuestTraps, Within, At, files, ThreadInv, HoldsPlug
  <2>2. PICK ok \in BOOLEAN : AfterCall(t, th[t].pc, ok)
    BY <1>4, <2>1 DEF NoFuel, GuestReturns, GuestTraps
  <2>3. PICK next \in Thinking : th' = [th EXCEPT ![t] = next] /\ ThreadInv(t)'
    BY <2>1, <2>2, AfterCallIs
  <2>4. /\ plug[i].store # "absent" /\ (plug[i].store = "broken" => plug[i].tainted)
        /\ i[2] \in Trusted \cup Guarded => plug[i].bytes = "shipped"
    BY <1>1, <2>1 DEF Inv, PlugInv
  <2>5. PICK how \in Plugs :
          /\ plug' = [plug EXCEPT ![i] = how]
          /\ how.store # "absent" /\ (how.store = "broken" => how.tainted)
          /\ how.bytes = plug[i].bytes
    <3>1. CASE NoFuel(t, pc)
      <4> DEFINE how == [plug[i] EXCEPT !.tainted = TRUE, !.lock = Nobody]
      <4>1. plug' = [plug EXCEPT ![i] = how]
        BY <1>1, <3>1 DEF NoFuel, Plugs
      <4>2. /\ how \in Plugs /\ how.store = plug[i].store /\ how.tainted
            /\ how.bytes = plug[i].bytes
        BY <1>1 DEF Plugs
      <4> QED
        BY <2>4, <4>1, <4>2
    <3>2. CASE GuestReturns(t, pc)
      <4> DEFINE how == [plug[i] EXCEPT !.lock = Nobody]
      <4>1. plug' = [plug EXCEPT ![i] = how]
        BY <1>1, <3>2 DEF GuestReturns, Plugs
      <4>2. /\ how \in Plugs /\ how.store = plug[i].store /\ how.tainted = plug[i].tainted
            /\ how.bytes = plug[i].bytes
        BY <1>1 DEF Plugs
      <4> QED
        BY <2>4, <4>1, <4>2
    <3>3. CASE GuestTraps(t, pc)
      <4> DEFINE how == [plug[i] EXCEPT !.store = "broken", !.tainted = TRUE, !.lock = Nobody]
      <4>1. plug' = [plug EXCEPT ![i] = how]
        BY <1>1, <3>3 DEF GuestTraps, Plugs
      <4>2. /\ how \in Plugs /\ how.store = "broken" /\ how.tainted
            /\ how.bytes = plug[i].bytes
        BY <1>1 DEF Plugs
      <4> QED
        BY <4>1, <4>2
    <3> QED
      BY <1>4, <3>1, <3>2, <3>3
  <2> QED
    BY <2>1, <2>3, <2>4, <2>5, PlugStep
<1> QED
  BY <1>2, <1>3, <1>4 DEF Call

\* A file is replaced: what is compiled, and what has been checked, stays.
LEMMA ReplaceKeeps ==
  ASSUME Inv, NEW e \in Entry, Replace(e)
  PROVE  Inv'
<1>1. UNCHANGED <<reg, ent, plug, th>>
  BY DEF Replace
<1>2. Types'
  BY <1>1 DEF Inv, Types, Replace, Bytes
<1> QED
  BY <1>1, <1>2
  DEF Inv, PlugInv, Causes, Loaded, ThreadInv, HoldsRegistry, HoldsEntry, HasChecked, HoldsPlug

LEMMA NextInv == Inv /\ [Next]_vars => Inv'
<1> SUFFICES ASSUME Inv, [Next]_vars
             PROVE  Inv'
  OBVIOUS
<1>1. CASE UNCHANGED vars
  BY <1>1
  DEF vars, files, Inv, Types, PlugInv, Causes, Loaded, ThreadInv, HoldsRegistry, HoldsEntry,
      HasChecked, HoldsPlug
<1>2. ASSUME NEW t \in Thread, Discovery(t)
      PROVE  Inv'
  BY <1>2, LookKeeps, LockKeeps, MakeKeeps, ListKeeps, PublishKeeps DEF Discovery
<1>3. ASSUME NEW t \in Thread, Loading(t)
      PROVE  Inv'
  BY <1>3, AskKeeps, EntryKeeps, CheckKeeps, LoadKeeps DEF Loading
<1>4. ASSUME NEW t \in Thread, Selection(t)
      PROVE  Inv'
  BY <1>4, AskKeeps, LookKeeps DEF Selection
<1>5. ASSUME NEW t \in Thread, \E pc \in {"catalog", "parsers", "extras", "summary"} : Begin(t, pc)
      PROVE  Inv'
  BY <1>5, LookKeeps
<1>6. ASSUME NEW e \in Offered, Replace(e)
      PROVE  Inv'
  BY <1>6, ReplaceKeeps DEF Offered
<1> QED
  BY <1>1, <1>2, <1>3, <1>4, <1>5, <1>6, CallKeeps DEF Next, Work

LEMMA InvHolds == Spec => []Inv
  BY InitInv, NextInv, PTL DEF Spec

\* A guest runs alone on its store, the store has not trapped, and what runs of a
\* guarded component are the bytes that were checked: for any number of threads
\* and entries, whatever traps, fails to reload or is replaced (loader.py, _call).
THEOREM GuestsSafe == Spec => []GuestsRunSafely
<1>1. Inv => GuestsRunSafely
  <2> SUFFICES ASSUME Inv, NEW t \in Thread, NEW pc \in Calling, Within(t, pc)
               PROVE  /\ plug[th[t].inst].store = "sound"
                      /\ plug[th[t].inst].lock = t
                      /\ th[t].inst[2] \in Trusted \cup Guarded => plug[th[t].inst].bytes = "shipped"
    BY DEF GuestsRunSafely
  <2>1. /\ th[t].inst \in Inst /\ plug[th[t].inst] \in Plugs
        /\ th[t].pc \in Calling /\ th[t].inside /\ HoldsPlug(t)
    BY DEF Inv, Types, Thinking, Within, At, ThreadInv
  <2>2. /\ plug[th[t].inst].lock = t /\ ~plug[th[t].inst].tainted
        /\ plug[th[t].inst].store # "absent"
    BY <2>1 DEF HoldsPlug, Inv, PlugInv
  <2> QED
    BY <2>1, <2>2 DEF Inv, PlugInv, Plugs
<1> QED
  BY <1>1, InvHolds, PTL

\* Catalog, list, extras and every entry are loaded by one thread that holds the
\* lock, and never twice, for any number of threads (registry.py, the double looks).
THEOREM EachOnce == Spec => []LoadedOnce
<1>1. Inv => LoadedOnce
  BY DEF Inv, ThreadInv, HoldsRegistry, HoldsEntry, LoadedOnce, At
<1> QED
  BY <1>1, InvHolds, PTL

\* With the registry's lock free, every offered parser that is not in the list has
\* its failure on record, for any number of threads and entries.
THEOREM CausesKnown == Spec => []EmptyListHasCauses
<1>1. Inv => EmptyListHasCauses
  <2> SUFFICES ASSUME Inv, reg.lock = Nobody, reg.listed
               PROVE  Offered \ reg.parsers \subseteq reg.errors
    BY DEF EmptyListHasCauses
  <2>1. \A t \in Thread : th[t].pc # "publish"
    BY PluginHostAssumption DEF Inv, ThreadInv, HoldsRegistry, Making
  <2> QED
    BY <2>1 DEF Inv, Causes
<1> QED
  BY <1>1, InvHolds, PTL

===============================================================================
