------------------------- MODULE CommitReviewProofs -------------------------
(* Theorems about CommitReview, for any files, threads, versions of the parser and
   number of faults.

   The argument about versions: a key is made of the compiled version (LookedUp);
   a tree that is parsed is of the version compiled then (Parsed); that the
   fingerprint is still the key when it is stored makes the two one, whatever was
   reloaded or replaced in between, and hands the version on to the other side
   (SecondSide).  The argument about files: who reviews a file is its only
   reviewer (Reviewers), so that nothing moves once all files have ended. *)
EXTENDS CommitReview, TLAPS

Versions == Version \cup {Unread}

Places == {"idle", "detect", "profiles", "compare", "register", "stamp", "certified",
           "key", "look", "parse", "store", "finish", "done", "failed"}

Thinking == [pc : Places, goal : {"review", "index"}, file : File \cup {Unread},
             dialects : Dialects \cup {Unread}, side : Side, key : Versions,
             tree : [Side -> Versions],
             result : {"none", "native", "source", "token", "indexed"}]

Trees == [file : File \cup {Unread}, side : Side, key : Versions, by : Versions]

PipeType ==
  /\ disk \in Version
  /\ plug \in [Thread -> [by : Versions, tainted : BOOLEAN]]
  /\ rules \in [profiles : Dialects, native : Dialects \cup {Unread},
                stamp : Dialects \cup {Unread}]
  /\ th \in [Thread -> Thinking]
  /\ cache \subseteq Trees

Early == {"idle", "detect", "profiles", "compare", "register", "stamp", "certified"}

FirstSide(t) ==
  /\ th[t].pc \in Early => th[t].side = "old"
  /\ th[t].side = "old" => th[t].tree["new"] = Unread
  /\ th[t].pc = "finish" => th[t].side = "new"

LookedUp(t) ==
  /\ th[t].pc \in {"look", "parse", "store"} => th[t].key # Unread
  /\ th[t].pc = "look" => th[t].key = plug[t].by

Parsed(t) == th[t].pc = "store" => th[t].tree[th[t].side] = plug[t].by

SecondSide(t) ==
  th[t].side = "new" =>
    /\ th[t].pc = "key" => th[t].tree["old"] = plug[t].by
    /\ th[t].pc \in {"look", "parse", "store"} => th[t].tree["old"] = th[t].key
    /\ th[t].pc \in {"finish", "done"} => th[t].tree["old"] = th[t].tree["new"]

VInv(t) == FirstSide(t) /\ LookedUp(t) /\ Parsed(t) /\ SecondSide(t)

PInv == PipeType /\ CacheNeverLies /\ \A t \in Thread : VInv(t)

-------------------------------------------------------------------------------

LEMMA IdleType == Idle \in Thinking
  BY DEF Idle, Thinking, Places, Side, Versions

LEMMA InitPInv == Init => PInv
<1> SUFFICES ASSUME Init
             PROVE  PInv
  OBVIOUS
<1>1. PipeInit
  BY DEF Init
<1>2. PipeType
  BY <1>1, IdleType DEF PipeInit, PipeType, Versions, Trees, Side
<1>3. CacheNeverLies
  BY <1>1 DEF PipeInit, CacheNeverLies
<1>4. ASSUME NEW t \in Thread
      PROVE  VInv(t)
  BY <1>1 DEF PipeInit, Idle, Side, VInv, FirstSide, LookedUp, Parsed, SecondSide, Early
<1> QED
  BY <1>2, <1>3, <1>4 DEF PInv

\* The step of one thread, but the three that are about versions: the thread
\* alone moves, and it is enough to look at its state.
LEMMA OthersStay ==
  ASSUME PInv, NEW t \in Thread,
         \A u \in Thread \ {t} : th'[u] = th[u] /\ plug'[u] = plug[u],
         PipeType', CacheNeverLies', VInv(t)'
  PROVE  PInv'
<1>1. ASSUME NEW u \in Thread \ {t}
      PROVE  VInv(u)'
  <2>1. VInv(u) /\ th'[u] = th[u] /\ plug'[u] = plug[u]
    BY <1>1 DEF PInv
  <2> QED
    BY <2>1 DEF VInv, FirstSide, LookedUp, Parsed, SecondSide
<1> QED
  BY <1>1 DEF PInv

\* A thread begins with a file, or is done with one.
LEMMA Anew ==
  ASSUME PInv, NEW t \in Thread, NEW idle \in Thinking,
         idle.pc \in Early, idle.side = "old", idle.tree["new"] = Unread,
         th' = [th EXCEPT ![t] = idle], UNCHANGED <<disk, plug, cache, rules>>
  PROVE  PInv'
<1>1. PipeType'
  BY DEF PInv, PipeType
<1>2. CacheNeverLies'
  BY DEF PInv, CacheNeverLies
<1>3. th'[t] = idle /\ plug' = plug /\ \A u \in Thread \ {t} : th'[u] = th[u]
  BY DEF PInv, PipeType
<1>4. VInv(t)'
  BY <1>3 DEF VInv, FirstSide, LookedUp, Parsed, SecondSide, Early
<1> QED
  BY <1>1, <1>2, <1>3, <1>4, OthersStay

\* Steps that only move on, without a version.
LEMMA MoveKeeps ==
  ASSUME PInv, NEW t \in Thread,
         \/ DetectFails(t) \/ ReadProfiles(t) \/ Compare(t) \/ Register(t) \/ Stamp(t)
         \/ Certified(t) \/ Finish(t)
  PROVE  PInv'
<1>1. th[t] \in Thinking /\ VInv(t)
  BY DEF PInv, PipeType
<1>2. UNCHANGED <<disk, plug, cache>>
  BY DEF DetectFails, ReadProfiles, Compare, Register, Stamp, Certified, Finish
<1>3. PICK next \in Thinking :
        /\ th' = [th EXCEPT ![t] = next]
        /\ next.side = th[t].side /\ next.tree = th[t].tree /\ next.key = th[t].key
        /\ next.pc \in Early \cup {"key", "failed", "done"}
        /\ next.pc \in Early \cup {"key"} => th[t].pc \in Early
        /\ next.pc = "done" => th[t].pc \in {"certified", "finish"}
  <2>1. CASE ReadProfiles(t)
    <3> DEFINE next == [th[t] EXCEPT !.pc = "compare", !.dialects = rules.profiles]
    <3>1. th' = [th EXCEPT ![t] = next] /\ th[t].pc = "profiles"
      BY <2>1 DEF ReadProfiles, At, PInv, PipeType
    <3>2. next \in Thinking
      BY <1>1 DEF Thinking, Places, PInv, PipeType
    <3> QED
      BY <1>1, <3>1, <3>2 DEF Thinking, Early
  <2>2. CASE Certified(t) \/ Finish(t)
    <3>1. PICK pc \in {"failed", "key", "done"}, r \in {"native", "source", "token", "indexed", th[t].result} :
            /\ th' = [th EXCEPT ![t] = [th[t] EXCEPT !.pc = pc, !.result = r]]
            /\ th[t].pc \in {"certified", "finish"}
            /\ pc = "key" => th[t].pc = "certified"
      BY <1>1, <2>2 DEF Certified, Finish, TokenFallback, Done, Goto, Raise, At, PInv, PipeType, Thinking
    <3> DEFINE next == [th[t] EXCEPT !.pc = pc, !.result = r]
    <3>2. next \in Thinking
      BY <1>1 DEF Thinking, Places
    <3> QED
      BY <1>1, <3>1, <3>2 DEF Thinking, Early
  <2>3. CASE DetectFails(t) \/ Compare(t) \/ Register(t) \/ Stamp(t)
    <3>1. PICK pc \in {"failed", "key", "register", "stamp"} :
            /\ th' = [th EXCEPT ![t] = [th[t] EXCEPT !.pc = pc]]
            /\ th[t].pc \in Early
      BY <1>1, <2>3 DEF DetectFails, Compare, Register, Stamp, Goto, Raise, At, PInv, PipeType,
                        Thinking, Early
    <3> DEFINE next == [th[t] EXCEPT !.pc = pc]
    <3>2. next \in Thinking
      BY <1>1 DEF Thinking, Places
    <3> QED
      BY <1>1, <3>1, <3>2 DEF Thinking, Early
  <2> QED
    BY <2>1, <2>2, <2>3
<1>4. PipeType'
  <2>1. th' \in [Thread -> Thinking]
    BY <1>3 DEF PInv, PipeType
  <2>2. rules' \in [profiles : Dialects, native : Dialects \cup {Unread},
                    stamp : Dialects \cup {Unread}]
    BY <1>1 DEF DetectFails, ReadProfiles, Compare, Register, Stamp, Certified, Finish,
                PInv, PipeType, Thinking
  <2> QED
    BY <1>2, <2>1, <2>2 DEF PInv, PipeType
<1>5. CacheNeverLies'
  BY <1>2 DEF PInv, CacheNeverLies
<1>6. th'[t] = next /\ \A u \in Thread \ {t} : th'[u] = th[u]
  BY <1>3 DEF PInv, PipeType
<1>7. VInv(t)'
  BY <1>1, <1>2, <1>3, <1>6 DEF VInv, FirstSide, LookedUp, Parsed, SecondSide, Early, Thinking, Side
<1> QED
  BY <1>2, <1>4, <1>5, <1>6, <1>7, OthersStay

\* A component is loaded, or loaded anew, or traps.
LEMMA LoadKeeps ==
  ASSUME PInv, NEW t \in Thread, Detect(t) \/ Reload(t) \/ Trap(t)
  PROVE  PInv'
<1>1. th[t] \in Thinking /\ VInv(t) /\ plug[t] \in [by : Versions, tainted : BOOLEAN]
  BY DEF PInv, PipeType
<1>2. PICK pc \in {"failed", "key", "profiles", "certified", th[t].pc} :
        /\ th' = [th EXCEPT ![t] = [th[t] EXCEPT !.pc = pc]]
        /\ th[t].pc \in {"detect", "parse"} /\ (pc \notin {"failed", "parse"} => th[t].pc = "detect")
        /\ th[t].pc = "detect" => pc # "detect"
  <2>1. CASE Detect(t)
    <3>1. PICK pc \in {"key", "profiles", "certified"} : Goto(t, pc)
      BY <2>1, Zenon DEF Detect
    <3> QED
      BY <2>1, <3>1 DEF Detect, At, Goto, PInv, PipeType, Thinking
  <2>2. CASE Reload(t)
    <3>1. th' = [th EXCEPT ![t].pc = "failed"] \/ th' = th
      BY <2>2 DEF Reload, Raise, Goto
    <3>2. th = [th EXCEPT ![t] = [th[t] EXCEPT !.pc = th[t].pc]]
      BY <1>1 DEF PInv, PipeType, Thinking
    <3> QED
      BY <2>2, <3>1, <3>2 DEF Reload, At, PInv, PipeType, Thinking
  <2>3. CASE Trap(t)
    BY <2>3 DEF Trap, Raise, Goto, At, PInv, PipeType, Thinking
  <2> QED
    BY <2>1, <2>2, <2>3
<1>3. PICK p \in [by : Versions, tainted : BOOLEAN] : plug' = [plug EXCEPT ![t] = p]
  <2>1. CASE Detect(t)
    <3> DEFINE p == [plug[t] EXCEPT !.by = IF @ = Unread THEN disk ELSE @]
    <3>1. p \in [by : Versions, tainted : BOOLEAN]
      BY <1>1 DEF PInv, PipeType, Versions
    <3> QED
      BY <2>1, <3>1 DEF Detect, PInv, PipeType
  <2>2. CASE Reload(t)
    BY <1>1, <2>2 DEF Reload, PInv, PipeType, Versions
  <2>3. CASE Trap(t)
    <3> DEFINE p == [plug[t] EXCEPT !.tainted = TRUE]
    <3>1. p \in [by : Versions, tainted : BOOLEAN]
      BY <1>1
    <3> QED
      BY <2>3, <3>1 DEF Trap, PInv, PipeType
  <2> QED
    BY <2>1, <2>2, <2>3
<1>4. UNCHANGED <<disk, cache, rules>>
  BY DEF Detect, Reload, Trap
<1> DEFINE next == [th[t] EXCEPT !.pc = pc]
<1>5. next \in Thinking
  BY <1>1, <1>2 DEF Thinking, Places
<1>6. PipeType' /\ CacheNeverLies'
  BY <1>2, <1>3, <1>4, <1>5 DEF PInv, PipeType, CacheNeverLies
<1>7. th'[t] = next /\ \A u \in Thread \ {t} : th'[u] = th[u] /\ plug'[u] = plug[u]
  BY <1>2, <1>3 DEF PInv, PipeType
<1>8. VInv(t)'
  BY <1>1, <1>2, <1>5, <1>7 DEF VInv, FirstSide, LookedUp, Parsed, SecondSide, Early, Thinking, Side
<1> QED
  BY <1>6, <1>7, <1>8, OthersStay

\* _wasm_hash_for gives the version that is compiled, or raises.
LEMMA FingerprintIs ==
  ASSUME PInv, NEW t \in Thread
  PROVE  Fingerprint(t) # Unread => Fingerprint(t) = plug[t].by /\ Fingerprint(t) \in Version
  BY DEF Fingerprint, PInv, PipeType

LEMMA KeyKeeps ==
  ASSUME PInv, NEW t \in Thread, MakeKey(t)
  PROVE  PInv'
<1>1. th[t] \in Thinking /\ VInv(t) /\ th[t].pc = "key"
  BY DEF PInv, PipeType, MakeKey, At
<1>2. UNCHANGED <<disk, plug, cache, rules>>
  BY DEF MakeKey
<1> DEFINE v == Fingerprint(t)
           next == [th[t] EXCEPT !.key = v, !.pc = IF v = Unread THEN "failed" ELSE "look"]
<1>3. v \in Versions /\ (v # Unread => v = plug[t].by)
  BY FingerprintIs DEF Versions
<1>4. next \in Thinking
  BY <1>1, <1>3 DEF Thinking, Places
<1>5. th' = [th EXCEPT ![t] = next]
  BY DEF MakeKey, PInv, PipeType, Thinking
<1>6. PipeType' /\ CacheNeverLies'
  BY <1>2, <1>4, <1>5 DEF PInv, PipeType, CacheNeverLies
<1>7. th'[t] = next /\ \A u \in Thread \ {t} : th'[u] = th[u]
  BY <1>5 DEF PInv, PipeType
<1>8. /\ next.side = th[t].side /\ next.tree = th[t].tree /\ next.key = v
      /\ next.pc = IF v = Unread THEN "failed" ELSE "look"
  BY <1>1 DEF Thinking
<1> HIDE DEF next, v
<1>9. VInv(t)'
  BY <1>1, <1>2, <1>3, <1>7, <1>8 DEF VInv, FirstSide, LookedUp, Parsed, SecondSide, Early
<1> QED
  BY <1>2, <1>6, <1>7, <1>9, OthersStay

\* A side has its tree, of the version of the key: the next one, or the rest.
LEMMA SideKeeps ==
  ASSUME PInv, NEW t \in Thread, NEW tree, th[t].pc \in {"look", "store"},
         tree = [th[t].tree EXCEPT ![th[t].side] = th[t].key],
         th[t].key = plug[t].by, NextSide(t, tree),
         UNCHANGED <<disk, plug, rules>>, cache' \subseteq Trees, CacheNeverLies'
  PROVE  PInv'
<1>1. th[t] \in Thinking /\ VInv(t)
  BY DEF PInv, PipeType
<1> DEFINE next == [th[t] EXCEPT !.pc = IF th[t].side = "old" THEN "key" ELSE "finish",
                                 !.side = "new", !.tree = tree]
<1>2. tree \in [Side -> Versions]
  BY <1>1 DEF Thinking
<1>3. next \in Thinking
  BY <1>1, <1>2 DEF Thinking, Places, Side
<1>4. th' = [th EXCEPT ![t] = next]
  BY DEF NextSide, PInv, PipeType, Thinking
<1>5. PipeType'
  BY <1>3, <1>4 DEF PInv, PipeType
<1>6. th'[t] = next /\ \A u \in Thread \ {t} : th'[u] = th[u]
  BY <1>4 DEF PInv, PipeType
<1>7. /\ next.side = "new" /\ next.tree = tree
      /\ next.pc = IF th[t].side = "old" THEN "key" ELSE "finish"
  BY <1>1 DEF Thinking
<1>8. tree[th[t].side] = th[t].key /\ \A r \in Side : r # th[t].side => tree[r] = th[t].tree[r]
  BY <1>1 DEF Thinking
<1> HIDE DEF next
<1>9. VInv(t)'
  <2>1. CASE th[t].side = "old"
    BY <1>1, <1>6, <1>7, <1>8, <2>1 DEF VInv, FirstSide, LookedUp, Parsed, SecondSide, Early, Side
  <2>2. CASE th[t].side = "new"
    <3>1. th[t].tree["old"] = th[t].key
      BY <1>1, <2>2 DEF VInv, SecondSide
    <3> QED
      BY <1>1, <1>6, <1>7, <1>8, <2>2, <3>1
      DEF VInv, FirstSide, LookedUp, Parsed, SecondSide, Early, Side
  <2> QED
    BY <1>1, <2>1, <2>2 DEF Thinking, Side
<1> QED
  BY <1>5, <1>6, <1>9, OthersStay

LEMMA LookKeeps ==
  ASSUME PInv, NEW t \in Thread, Look(t)
  PROVE  PInv'
<1>1. /\ th[t] \in Thinking /\ VInv(t) /\ th[t].pc = "look"
      /\ UNCHANGED <<disk, plug, cache, rules>>
  BY DEF PInv, PipeType, Look, At
<1>2. CacheNeverLies'
  BY <1>1 DEF PInv, CacheNeverLies
<1>3. CASE Entries(t) = {}
  <2> DEFINE next == [th[t] EXCEPT !.pc = "parse"]
  <2>1. th' = [th EXCEPT ![t] = next] /\ next \in Thinking
    BY <1>1, <1>3 DEF Look, Goto, PInv, PipeType, Thinking, Places
  <2>2. PipeType'
    BY <1>1, <2>1 DEF PInv, PipeType
  <2>3. th'[t] = next /\ \A u \in Thread \ {t} : th'[u] = th[u]
    BY <2>1 DEF PInv, PipeType
  <2>4. VInv(t)'
    BY <1>1, <2>3 DEF VInv, FirstSide, LookedUp, Parsed, SecondSide, Early, Thinking
  <2> QED
    BY <1>1, <1>2, <2>2, <2>3, <2>4, OthersStay
<1>4. CASE Entries(t) # {}
  <2>1. PICK e \in Entries(t) : NextSide(t, [th[t].tree EXCEPT ![th[t].side] = e.by])
    BY <1>4 DEF Look
  <2>2. e.by = th[t].key
    BY <2>1 DEF Entries, PInv, CacheNeverLies
  <2> QED
    BY <1>1, <1>2, <2>1, <2>2, SideKeeps DEF PInv, PipeType, VInv, LookedUp
<1> QED
  BY <1>3, <1>4

LEMMA ParseKeeps ==
  ASSUME PInv, NEW t \in Thread, Parse(t)
  PROVE  PInv'
<1>1. /\ th[t] \in Thinking /\ VInv(t) /\ th[t].pc = "parse" /\ plug[t].by \in Versions
      /\ UNCHANGED <<disk, plug, cache, rules>>
  BY DEF PInv, PipeType, Parse, At
<1> DEFINE tree == [th[t].tree EXCEPT ![th[t].side] = plug[t].by]
           next == [th[t] EXCEPT !.pc = "store", !.tree = tree]
<1>2. tree \in [Side -> Versions]
  BY <1>1 DEF Thinking
<1>3. next \in Thinking
  BY <1>1, <1>2 DEF Thinking, Places
<1>4. th' = [th EXCEPT ![t] = next]
  BY DEF Parse, PInv, PipeType, Thinking
<1>5. PipeType' /\ CacheNeverLies'
  BY <1>1, <1>3, <1>4 DEF PInv, PipeType, CacheNeverLies
<1>6. th'[t] = next /\ \A u \in Thread \ {t} : th'[u] = th[u]
  BY <1>4 DEF PInv, PipeType
<1>7. next.side = th[t].side /\ next.tree = tree /\ next.key = th[t].key /\ next.pc = "store"
  BY <1>1 DEF Thinking
<1>8. tree[th[t].side] = plug[t].by /\ \A r \in Side : r # th[t].side => tree[r] = th[t].tree[r]
  BY <1>1 DEF Thinking
<1>9. th[t].side \in Side
  BY <1>1 DEF Thinking
<1> HIDE DEF next, tree
<1>10. VInv(t)'
  BY <1>1, <1>6, <1>7, <1>8, <1>9 DEF VInv, FirstSide, LookedUp, Parsed, SecondSide, Early, Side
<1> QED
  BY <1>1, <1>5, <1>6, <1>10, OthersStay

\* What is stored was made by the version of its key: the fingerprint is still the
\* key, and so the compiled version, which made the tree, is the key.
LEMMA StoreKeeps ==
  ASSUME PInv, NEW t \in Thread, Store(t)
  PROVE  PInv'
<1>1. /\ th[t] \in Thinking /\ VInv(t) /\ th[t].pc = "store"
      /\ UNCHANGED <<disk, plug, rules>>
  BY DEF PInv, PipeType, Store, At
<1>2. CASE Fingerprint(t) # th[t].key
  <2> DEFINE next == [th[t] EXCEPT !.pc = "failed"]
  <2>1. th' = [th EXCEPT ![t] = next] /\ next \in Thinking /\ cache' = cache
    BY <1>1, <1>2 DEF Store, Raise, Goto, PInv, PipeType, Thinking, Places
  <2>2. PipeType' /\ CacheNeverLies'
    BY <1>1, <2>1 DEF PInv, PipeType, CacheNeverLies
  <2>3. th'[t] = next /\ \A u \in Thread \ {t} : th'[u] = th[u]
    BY <2>1 DEF PInv, PipeType
  <2>4. VInv(t)'
    BY <1>1, <2>3 DEF VInv, FirstSide, LookedUp, Parsed, SecondSide, Early, Thinking
  <2> QED
    BY <1>1, <2>2, <2>3, <2>4, OthersStay
<1>3. CASE Fingerprint(t) = th[t].key
  <2>1. th[t].key = plug[t].by /\ th[t].tree[th[t].side] = plug[t].by
    BY <1>1, <1>3, FingerprintIs DEF VInv, LookedUp, Parsed
  <2>2. cache' = cache \cup {Entry(t)} /\ NextSide(t, th[t].tree)
    BY <1>3 DEF Store
  <2>3. Entry(t) \in Trees /\ Entry(t).by = Entry(t).key
    BY <1>1, <2>1 DEF Entry, Trees, Thinking
  <2>4. cache' \subseteq Trees /\ CacheNeverLies'
    BY <2>2, <2>3 DEF PInv, PipeType, CacheNeverLies
  <2>5. th[t].tree = [th[t].tree EXCEPT ![th[t].side] = th[t].key]
    BY <1>1, <2>1 DEF Thinking
  <2> QED
    BY <1>1, <2>1, <2>2, <2>4, <2>5, SideKeeps
<1> QED
  BY <1>2, <1>3

LEMMA WorldKeeps ==
  ASSUME PInv, World
  PROVE  PInv'
<1>1. UNCHANGED <<plug, cache, th>>
  BY DEF World, Replace, EditProfiles
<1>2. PipeType'
  BY <1>1 DEF World, Replace, EditProfiles, PInv, PipeType
<1> QED
  BY <1>1, <1>2 DEF PInv, CacheNeverLies, VInv, FirstSide, LookedUp, Parsed, SecondSide

-------------------------------------------------------------------------------
(* Who reviews what *)

Statuses == {"waiting", "running", "done", "failed", "skipped", "cancelled"}

Reviewing(t) == th[t].pc # "idle" /\ th[t].goal = "review"

Reviewers ==
  /\ \A t \in Thread : Reviewing(t) => th[t].file \in File /\ file[th[t].file] = "running"
  /\ \A t, u \in Thread : Reviewing(t) /\ Reviewing(u) /\ t # u => th[t].file # th[u].file

Before == phase \in {"collect", "batch"} => \A t \in Thread : th[t].pc = "idle"

Ended ==
  phase = "index" \/ outcome = "returned" =>
    \A f \in File : file[f] = "done" \/ (entry = "stream" /\ file[f] = "skipped")

Indexed == outcome = "returned" => phase = "over" /\ (Collects => Some("done") \subseteq indexed)

Skipped == \A f \in File : file[f] = "skipped" => entry = "stream"

JInv == file \in [File -> Statuses] /\ Skipped /\ Reviewers /\ Before /\ Ended /\ Indexed

Inv == PInv /\ JInv

LEMMA InitJInv == Init => JInv
  BY DEF Init, PipeInit, Idle, JInv, Skipped, Reviewers, Reviewing, Before, Ended,
     Indexed, Statuses

\* A step of the pipeline goes on with the same file.
LEMMA SameFile ==
  ASSUME PInv, NEW t \in Thread, Step(t)
  PROVE  /\ th[t].pc # "idle" /\ th'[t].file = th[t].file /\ th'[t].goal = th[t].goal
         /\ \A u \in Thread \ {t} : th'[u] = th[u]
<1>1. th[t] \in Thinking /\ th \in [Thread -> Thinking]
  BY DEF PInv, PipeType
<1>2. th[t].pc # "idle"
  BY DEF Step, Detect, DetectFails, ReadProfiles, Compare, Register, Stamp, Certified, MakeKey,
         Look, Reload, Parse, Trap, Store, Finish, At
<1>3. CASE Detect(t) \/ DetectFails(t) \/ ReadProfiles(t) \/ Compare(t)
  BY <1>1, <1>2, <1>3 DEF Detect, DetectFails, ReadProfiles, Compare, Goto, Raise, Thinking
<1>4. CASE Register(t) \/ Stamp(t) \/ Certified(t) \/ Finish(t)
  BY <1>1, <1>2, <1>4
  DEF Register, Stamp, Certified, Finish, TokenFallback, Done, Goto, Raise, Thinking
<1>5. CASE MakeKey(t) \/ Reload(t) \/ Trap(t) \/ Parse(t)
  BY <1>1, <1>2, <1>5 DEF MakeKey, Reload, Trap, Parse, Goto, Raise, Thinking
<1>6. CASE Look(t) \/ Store(t)
  <2>1. CASE \E tree : NextSide(t, tree)
    BY <1>1, <1>2, <2>1 DEF NextSide, Thinking
  <2>2. CASE \E pc : Goto(t, pc)
    BY <1>1, <1>2, <2>2 DEF Goto, Thinking
  <2> QED
    BY <1>6, <2>1, <2>2, Zenon DEF Look, Store, Raise
<1> QED
  BY <1>3, <1>4, <1>5, <1>6 DEF Step

LEMMA StepKeeps ==
  ASSUME Inv, NEW t \in Thread, Step(t), UNCHANGED jobVars
  PROVE  Inv'
<1>1. PInv'
  BY MoveKeeps, LoadKeeps, KeyKeeps, LookKeeps, ParseKeeps, StoreKeeps DEF Inv, Step
<1>2. /\ th[t].pc # "idle" /\ th'[t].file = th[t].file /\ th'[t].goal = th[t].goal
      /\ \A u \in Thread \ {t} : th'[u] = th[u]
  BY SameFile DEF Inv
<1>3. UNCHANGED <<entry, phase, outcome, file, result, indexed>>
  BY DEF jobVars
<1>4. \A u \in Thread : Reviewing(u)' => Reviewing(u) /\ th'[u].file = th[u].file
  BY <1>2 DEF Reviewing
<1>5. Reviewers'
  BY <1>3, <1>4 DEF Inv, JInv, Reviewers
<1>6. Before' /\ Skipped'
  BY <1>2, <1>3 DEF Inv, JInv, Before, Skipped
<1>7. Ended' /\ Indexed'
  BY <1>3 DEF Inv, JInv, Ended, Indexed, Collects, Some
<1> QED
  BY <1>1, <1>3, <1>5, <1>6, <1>7 DEF Inv, JInv

\* Nothing that the pipeline knows is touched.
LEMMA PipeStays ==
  ASSUME PInv, UNCHANGED pipeVars
  PROVE  PInv'
  BY DEF pipeVars, PInv, PipeType, CacheNeverLies, VInv, FirstSide, LookedUp, Parsed, SecondSide

LEMMA BeginKeeps ==
  ASSUME Inv, NEW t \in Thread, NEW f \in File, Start(t, f) \/ (StartIndex(f) /\ t = Main)
  PROVE  Inv'
<1>1. PICK next \in Thinking :
        /\ th' = [th EXCEPT ![t] = next]
        /\ next.pc = "detect" /\ next.side = "old" /\ next.tree["new"] = Unread /\ next.file = f
        /\ next.goal = "review" => /\ Start(t, f) /\ file[f] = "waiting"
                                   /\ file' = [file EXCEPT ![f] = "running"]
        /\ next.goal = "index" => file' = file
  <2>1. CASE Start(t, f)
    <3> DEFINE next == [Idle EXCEPT !.pc = "detect", !.file = f]
    <3>1. /\ next \in Thinking /\ next.pc = "detect" /\ next.side = "old"
          /\ next.tree["new"] = Unread /\ next.file = f /\ next.goal = "review"
      BY DEF Idle, Thinking, Places, Side, Versions
    <3> QED
      BY <2>1, <3>1 DEF Start
  <2>2. CASE StartIndex(f) /\ t = Main
    <3> DEFINE next == [Idle EXCEPT !.pc = "detect", !.file = f, !.goal = "index"]
    <3>1. /\ next \in Thinking /\ next.pc = "detect" /\ next.side = "old"
          /\ next.tree["new"] = Unread /\ next.file = f /\ next.goal = "index"
      BY DEF Idle, Thinking, Places, Side, Versions
    <3> QED
      BY <2>2, <3>1 DEF StartIndex, jobVars
  <2> QED
    BY <2>1, <2>2
<1>2. next.goal \in {"review", "index"}
  BY DEF Thinking
<1>3. /\ UNCHANGED <<disk, plug, cache, rules, entry, phase, outcome, indexed>>
      /\ phase \in {"run", "over", "index"}
  BY DEF Start, StartIndex, jobVars
<1>4. PInv'
  BY <1>1, <1>2, <1>3, Anew DEF Early, Inv
<1>5. th'[t] = next /\ \A u \in Thread \ {t} : th'[u] = th[u]
  BY <1>1 DEF Inv, PInv, PipeType
<1>6. file' \in [File -> Statuses]
  BY <1>1, <1>2 DEF Inv, JInv, Statuses
<1>7. Reviewers'
  <2>1. CASE next.goal = "review"
    <3>1. \A u \in Thread \ {t} : Reviewing(u)' => Reviewing(u) /\ th'[u].file # f /\ th'[u].file = th[u].file
      BY <1>1, <1>5, <2>1 DEF Inv, JInv, Reviewers, Reviewing
    <3>2. th'[t].file = f /\ file'[f] = "running" /\ \A g \in File : g # f => file'[g] = file[g]
      BY <1>1, <1>2, <1>5, <2>1 DEF Inv, JInv
    <3> QED
      BY <3>1, <3>2 DEF Inv, JInv, Reviewers
  <2>2. CASE next.goal = "index"
    <3>1. ~Reviewing(t)' /\ \A u \in Thread \ {t} : Reviewing(u)' => Reviewing(u) /\ th'[u].file = th[u].file
      BY <1>2, <1>5, <2>2 DEF Reviewing
    <3> QED
      BY <1>1, <2>2, <3>1 DEF Inv, JInv, Reviewers
  <2> QED
    BY <1>2, <2>1, <2>2
<1>8. Before' /\ Skipped'
  BY <1>1, <1>2, <1>3 DEF Before, Inv, JInv, Skipped
<1>9. Ended' /\ Indexed'
  <2>1. CASE next.goal = "review"
    <3>1. ~(phase = "index" \/ outcome = "returned")
      BY <1>1, <2>1 DEF Inv, JInv, Ended
    <3> QED
      BY <1>3, <3>1 DEF Ended, Indexed
  <2>2. CASE next.goal = "index"
    BY <1>1, <1>3, <2>2 DEF Inv, JInv, Ended, Indexed, Collects, Some
  <2> QED
    BY <1>2, <2>1, <2>2
<1> QED
  BY <1>4, <1>6, <1>7, <1>8, <1>9 DEF Inv, JInv

LEMMA DeliverKeeps ==
  ASSUME Inv, NEW t \in Thread, Deliver(t) \/ DeliverFailure(t) \/ (AddToIndex /\ t = Main)
  PROVE  Inv'
<1>1. /\ th' = [th EXCEPT ![t] = Idle] /\ UNCHANGED <<disk, plug, cache, rules, entry>>
      /\ th[t].pc \in {"done", "failed"}
  BY DEF Deliver, DeliverFailure, AddToIndex, At
<1>2. PInv'
  <2>1. Idle.pc \in Early /\ Idle.side = "old" /\ Idle.tree["new"] = Unread
    BY DEF Idle, Early, Side
  <2> QED
    BY <1>1, <2>1, IdleType, Anew DEF Inv
<1>3. th'[t] = Idle /\ Idle.pc = "idle" /\ \A u \in Thread \ {t} : th'[u] = th[u]
  BY <1>1 DEF Inv, PInv, PipeType, Idle
<1>4. /\ ~Reviewing(t)'
      /\ \A u \in Thread \ {t} : Reviewing(u)' => Reviewing(u) /\ th'[u].file = th[u].file
  BY <1>3 DEF Reviewing
<1>5. CASE Deliver(t) \/ DeliverFailure(t)
  <2>1. Reviewing(t) /\ th[t].file \in File /\ file[th[t].file] = "running"
    BY <1>1, <1>5 DEF Deliver, DeliverFailure, Reviewing, Inv, JInv, Reviewers
  <2>2. PICK how \in {"done", "failed"} : file' = [file EXCEPT ![th[t].file] = how]
    BY <1>5 DEF Deliver, DeliverFailure
  <2>3. file' \in [File -> Statuses] /\ \A g \in File : g # th[t].file => file'[g] = file[g]
    BY <2>1, <2>2 DEF Inv, JInv, Statuses
  <2>4. Reviewers'
    BY <1>4, <2>1, <2>3 DEF Inv, JInv, Reviewers
  <2>5. ~(phase = "index" \/ outcome = "returned")
    BY <2>1 DEF Inv, JInv, Ended
  <2>6. outcome' # "returned" /\ (phase' = phase \/ phase' = "over") /\ phase' # "index"
    BY <1>5, <2>5 DEF Deliver, DeliverFailure, End, Stays
  <2>7. Before' /\ Ended' /\ Indexed' /\ Skipped'
    BY <1>1, <2>2, <2>3, <2>5, <2>6 DEF Inv, JInv, Before, Ended, Indexed, Skipped
  <2> QED
    BY <1>2, <2>3, <2>4, <2>7 DEF Inv, JInv
<1>6. CASE AddToIndex /\ t = Main
  <2>1. UNCHANGED <<file, entry>> /\ indexed \subseteq indexed'
    BY <1>6 DEF AddToIndex
  <2>2. UNCHANGED <<phase, outcome>> \/ (phase' = "over" /\ outcome' = "raised")
    BY <1>6 DEF AddToIndex, Stays, End
  <2>3. Reviewers'
    BY <1>4, <2>1 DEF Inv, JInv, Reviewers
  <2>4. Before' /\ Skipped'
    BY <1>1, <1>3, <2>1, <2>2 DEF Inv, JInv, Before, Skipped
  <2>5. Ended' /\ Indexed'
    BY <2>1, <2>2 DEF Inv, JInv, Ended, Indexed, Collects, Some
  <2> QED
    BY <1>2, <2>1, <2>3, <2>4, <2>5 DEF Inv, JInv
<1> QED
  BY <1>5, <1>6

\* The steps of the job that no thread takes.
LEMMA JobKeeps ==
  ASSUME Inv,
         \/ Collect \/ Batch \/ PoolRaises \/ Gather \/ Conclude \/ Close \/ CancelStream
         \/ \E f \in File : Skip(f)
  PROVE  Inv'
<1>1. UNCHANGED pipeVars /\ UNCHANGED <<th, entry>>
  BY DEF Collect, Batch, PoolRaises, Gather, Conclude, Close, CancelStream, Skip, pipeVars
<1>2. PInv'
  BY <1>1, PipeStays DEF Inv
<1> SUFFICES JInv'
  BY <1>2 DEF Inv
<1>3. \A t \in Thread : Reviewing(t)' <=> Reviewing(t)
  BY <1>1 DEF Reviewing
<1>4. JInv /\ file \in [File -> Statuses]
  BY DEF Inv, JInv
<1>5. CASE Collect
  BY <1>1, <1>3, <1>4, <1>5
  DEF Collect, End, JInv, Skipped, Reviewers, Before, Ended, Indexed, Collects, Some
<1>6. CASE Batch
  <2>1. \A t \in Thread : ~Reviewing(t)
    BY <1>4, <1>6 DEF Batch, JInv, Before, Reviewing
  <2>2. file' \in [File -> Statuses] /\ Skipped'
    BY <1>1, <1>4, <1>6 DEF Batch, Statuses, JInv, Skipped
  <2>3. outcome # "returned"
    BY <1>4, <1>6 DEF Batch, JInv, Indexed
  <2>4. outcome' # "returned" /\ phase' \in {"run", "over"}
    BY <1>6, <2>3 DEF Batch, End
  <2> QED
    BY <1>3, <2>1, <2>2, <2>4 DEF JInv, Skipped, Reviewers, Before, Ended, Indexed
<1>7. CASE PoolRaises \/ CancelStream
  BY <1>1, <1>3, <1>4, <1>7
  DEF PoolRaises, CancelStream, End, JInv, Skipped, Reviewers, Before, Ended, Indexed
<1>8. CASE Close \/ \E f \in File : Skip(f)
  <2>1. /\ \A g \in File : file'[g] # file[g] => file[g] = "waiting"
        /\ file' \in [File -> Statuses] /\ UNCHANGED <<phase, outcome>>
        /\ \E g \in File : file[g] = "waiting"
        /\ Skipped'
    BY <1>1, <1>4, <1>8 DEF Close, Skip, Some, Statuses, JInv, Skipped
  <2>2. ~(phase = "index" \/ outcome = "returned")
    BY <1>4, <2>1 DEF JInv, Ended
  <2> QED
    BY <1>1, <1>3, <1>4, <2>1, <2>2 DEF JInv, Skipped, Reviewers, Before, Ended, Indexed
<1>9. CASE Gather
  <2>1. CASE Some("failed") # {}
    BY <1>1, <1>3, <1>4, <1>9, <2>1 DEF Gather, End, JInv, Skipped, Reviewers, Before, Ended, Indexed
  <2>2. CASE Some("failed") = {}
    <3>1. \A f \in File : file[f] \in {"done", "skipped"}
      BY <1>4, <1>9, <2>2 DEF Gather, Some, Statuses
    <3>2. \A f \in File : file[f] = "done" \/ (entry = "stream" /\ file[f] = "skipped")
      BY <1>4, <3>1 DEF JInv, Skipped
    <3> QED
      BY <1>1, <1>3, <1>4, <1>9, <2>2, <3>2
      DEF Gather, End, JInv, Skipped, Reviewers, Before, Ended, Indexed, Collects
  <2> QED
    BY <2>1, <2>2
<1>10. CASE Conclude
  BY <1>1, <1>3, <1>4, <1>10
  DEF Conclude, End, JInv, Skipped, Reviewers, Before, Ended, Indexed, Collects, Some
<1> QED
  BY <1>5, <1>6, <1>7, <1>8, <1>9, <1>10

-------------------------------------------------------------------------------

LEMMA NextInv == Inv /\ [Next]_vars => Inv'
<1> SUFFICES ASSUME Inv, [Next]_vars
             PROVE  Inv'
  OBVIOUS
<1>1. CASE Job
  BY <1>1, BeginKeeps, DeliverKeeps, JobKeeps, CommitReviewAssumption DEF Job
<1>2. CASE \E t \in Thread : Step(t) /\ UNCHANGED jobVars
  BY <1>2, StepKeeps
<1>3. CASE World /\ UNCHANGED jobVars
  <2>1. PInv'
    BY <1>3, WorldKeeps DEF Inv
  <2>2. UNCHANGED <<th, entry, phase, outcome, file, indexed>>
    BY <1>3 DEF World, Replace, EditProfiles, jobVars
  <2> QED
    BY <2>1, <2>2 DEF Inv, JInv, Skipped, Reviewers, Reviewing, Before, Ended, Indexed, Collects, Some
<1>4. CASE Close \/ CancelStream \/ \E f \in File : Skip(f)
  BY <1>4, JobKeeps
<1>5. CASE UNCHANGED vars
  <2>1. PInv'
    BY <1>5, PipeStays DEF Inv, vars
  <2>2. UNCHANGED <<th, entry, phase, outcome, file, indexed>>
    BY <1>5 DEF vars, pipeVars, jobVars
  <2> QED
    BY <2>1, <2>2 DEF Inv, JInv, Skipped, Reviewers, Reviewing, Before, Ended, Indexed, Collects, Some
<1> QED
  BY <1>1, <1>2, <1>3, <1>4, <1>5 DEF Next

LEMMA InvHolds == Spec => []Inv
<1>1. Init => Inv
  BY InitPInv, InitJInv DEF Inv
<1> QED
  BY <1>1, NextInv, PTL DEF Spec

\* The parse cache is true to its keys, for any number of threads, versions and
\* replacements, and whatever an earlier run left in it (differ.py, _cached_process:
\* the fingerprint is taken again before the tree is stored).
THEOREM CacheIsTrue == Spec => []CacheNeverLies
<1>1. Inv => CacheNeverLies
  BY DEF Inv, PInv
<1> QED
  BY <1>1, InvHolds, PTL

\* Both trees of a review were made by one version of the parser, whatever is
\* replaced between the two parses: no upgrade shows as a change of the file.
THEOREM OneParser == Spec => []OneParserPerReview
<1>1. Inv => OneParserPerReview
  <2> SUFFICES ASSUME Inv, NEW t \in Thread, th[t].pc = "done",
                      Unread \notin {th[t].tree["old"], th[t].tree["new"]}
               PROVE  th[t].tree["old"] = th[t].tree["new"]
    BY DEF OneParserPerReview, Side
  <2>1. VInv(t) /\ th[t].side \in Side
    BY DEF Inv, PInv, PipeType, Thinking
  <2> QED
    BY <2>1 DEF VInv, FirstSide, SecondSide, Side
<1> QED
  BY <1>1, InvHolds, PTL

\* A review that is returned has every file of the commit, in each of the four
\* ways, and its index all of them: for any number of files and threads.
THEOREM Complete == Spec => []ReviewIsComplete
<1>1. Inv => ReviewIsComplete
  BY DEF Inv, JInv, Ended, Indexed, ReviewIsComplete
<1> QED
  BY <1>1, InvHolds, PTL

===============================================================================
