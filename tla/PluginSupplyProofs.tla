-------------------------- MODULE PluginSupplyProofs --------------------------
(* Theorems about OsvGate and PluginHub: which plugins come in.

   OsvGate, for any finite number of processes, loads and days.  ListedIsRefused:
   while a load is known to be bad the files say so (Bad), and the gate reads
   them.  FetchBudget is a counting argument: while every stamp is kept, a stale
   one is one that nobody has asked under, or one that is being written; no fetch
   begins in between, so that those asked and those still pending, each in a
   process of its own, are no more than the processes.

   PluginHub, for any packages, contents, registry and manifests.  A package may
   differ from what was pinned only while a command works on it (Pins), and what
   was read for a save is what the last save left (Kept).  Both speak of what
   Sift leaves of a sequence, for which the second part has an induction of its
   own. *)
EXTENDS OsvGate, PluginHub, FiniteSetTheorems, SequenceTheorems, WellFoundedInduction, TLAPS

Bad ==
  \A p \in knownBad : Listed /\ (main[p] = "start" \/ verdict[p] = "loaded" => kind[p] = "override")

\* Background fetches that have yet to write the stamp.
Pending == {p \in Proc : fetch[p] \in {"stamp", "write"} /\ main[p] # "refresh"}

Budget ==
  ~torn => /\ stamp = "stale" /\ ~Stamping => fetches = 0
           /\ fetches + Cardinality(Pending) <= Cardinality(Proc)

\* A process that is off fetches nothing.
Off == \A p \in Proc : main[p] = "off" => fetch[p] \in {"none", "done"}

IInv == TypeOK /\ Bad /\ Budget /\ Off

LEMMA InitIInv == Init => IInv
<1> SUFFICES ASSUME Init
             PROVE  IInv
  OBVIOUS
<1>1. TypeOK
  <2>1. torn \in BOOLEAN /\ stamp \in {"stale", "fresh"}
    BY DEF Init
  <2> QED
    BY <2>1, OsvGateAssumption DEF Init, TypeOK, Kinds, Answers
<1>2. Bad /\ Off
  BY DEF Init, Bad, Off
<1>3. Pending = {}
  BY DEF Init, Pending
<1>4. Cardinality(Pending) = 0 /\ Cardinality(Proc) \in Nat
  BY <1>3, FS_EmptySet, FS_CardinalityType, OsvGateAssumption
<1>5. Budget
  BY <1>4 DEF Init, Budget
<1> QED
  BY <1>1, <1>2, <1>5 DEF IInv

LEMMA NextTypeOK == TypeOK /\ [Next]_vars => TypeOK'
<1> SUFFICES ASSUME TypeOK, [Next]_vars
             PROVE  TypeOK'
  OBVIOUS
<1> USE OsvGateAssumption DEF TypeOK
<1>1. ASSUME NEW p \in Proc, Start(p) \/ Exit(p) \/ Refresh(p)
      PROVE  TypeOK'
  <2>1. CASE Start(p)
    BY <2>1 DEF Start, files, history
  <2>2. CASE Exit(p)
    BY <2>2 DEF Exit, files, Kinds, Answers
  <2>3. CASE Refresh(p)
    BY <2>3 DEF Refresh
  <2> QED
    BY <1>1, <2>1, <2>2, <2>3
<1>2. ASSUME NEW p \in Proc, NEW k \in Kinds, Load(p, k)
      PROVE  TypeOK'
  <2>1. loads' \in [Proc -> 0..MaxLoads]
    BY <1>2 DEF Load
  <2> QED
    BY <1>2, <2>1 DEF Load, files, history
<1>3. ASSUME NEW p \in Proc, Gate(p)
      PROVE  TypeOK'
  BY <1>3 DEF Gate, ReadStamp, ReadCache, MaybeStart, files, procVars, history
<1>4. ASSUME NEW p \in Proc, Fetch(p)
      PROVE  TypeOK'
  <2> USE DEF Answers, files, procVars, history
  <2>1. CASE WriteStamp(p)
    <3>1. torn' \in BOOLEAN
      BY <2>1 DEF WriteStamp
    <3> QED
      BY <2>1, <3>1 DEF WriteStamp, Asks
  <2>2. CASE FillStamp(p)
    <3>1. torn' \in BOOLEAN
      BY <2>2 DEF FillStamp
    <3> QED
      BY <2>2, <3>1 DEF FillStamp, Asks
  <2>3. CASE AskFails(p)
    BY <2>3 DEF AskFails, Ends
  <2>4. CASE AskAnswers(p)
    BY <2>4 DEF AskAnswers, Ends
  <2>5. CASE SaveCache(p)
    BY <2>5 DEF SaveCache, Ends
  <2> QED
    BY <1>4, <2>1, <2>2, <2>3, <2>4, <2>5 DEF Fetch
<1>5. CASE DayPasses \/ Disclose
  <2>1. torn' \in BOOLEAN
    BY <1>5 DEF DayPasses, Disclose, history
  <2> QED
    BY <1>5, <2>1 DEF DayPasses, Disclose, files, procVars, history, Answers
<1>6. CASE UNCHANGED vars
  BY <1>6 DEF vars, files, procVars, history
<1> QED
  BY <1>1, <1>2, <1>3, <1>4, <1>5, <1>6 DEF Next

LEMMA NextBad == IInv /\ [Next]_vars => Bad'
<1> SUFFICES ASSUME IInv, [Next]_vars
             PROVE  Bad'
  OBVIOUS
<1> USE DEF IInv, TypeOK, Bad, Listed
<1>1. ASSUME NEW p \in Proc, Start(p) \/ Exit(p) \/ Refresh(p)
      PROVE  Bad'
  BY <1>1 DEF Start, Exit, Refresh, files, procVars, history
<1>2. ASSUME NEW p \in Proc, NEW k \in Kinds, Load(p, k)
      PROVE  Bad'
  BY <1>2 DEF Load, files, procVars, history
<1>3. ASSUME NEW p \in Proc, Gate(p)
      PROVE  Bad'
  BY <1>3 DEF Gate, ReadStamp, ReadCache, Passes, MaybeStart, files, procVars, history
<1>4. ASSUME NEW p \in Proc, Fetch(p)
      PROVE  Bad'
  BY <1>4 DEF Fetch, WriteStamp, FillStamp, Asks, AskFails, AskAnswers, SaveCache, Ends,
              files, procVars, history
<1>5. CASE DayPasses \/ Disclose
  BY <1>5 DEF DayPasses, Disclose, files, procVars, history
<1>6. CASE UNCHANGED vars
  BY <1>6 DEF vars, files, procVars, history
<1> QED
  BY <1>1, <1>2, <1>3, <1>4, <1>5, <1>6 DEF Next

LEMMA NextOff == IInv /\ [Next]_vars => Off'
<1> SUFFICES ASSUME IInv, [Next]_vars
             PROVE  Off'
  OBVIOUS
<1> USE DEF IInv, TypeOK, Off
<1>1. ASSUME NEW p \in Proc, Start(p) \/ Exit(p) \/ Refresh(p) \/ \E k \in Kinds : Load(p, k)
      PROVE  Off'
  BY <1>1 DEF Start, Exit, Refresh, Load, procVars, history
<1>2. ASSUME NEW p \in Proc, Gate(p) \/ Fetch(p)
      PROVE  Off'
  BY <1>2 DEF Gate, ReadStamp, ReadCache, MaybeStart, Fetch, WriteStamp, FillStamp, Asks,
              AskFails, AskAnswers, SaveCache, Ends
<1>3. CASE DayPasses \/ Disclose \/ UNCHANGED vars
  BY <1>3 DEF DayPasses, Disclose, vars, procVars
<1> QED
  BY <1>1, <1>2, <1>3 DEF Next

-------------------------------------------------------------------------------

LEMMA Counts ==
  ASSUME NEW S \in SUBSET Proc, NEW T \in SUBSET S
  PROVE  /\ Cardinality(S) \in Nat /\ Cardinality(T) \in Nat
         /\ Cardinality(T) <= Cardinality(S) /\ Cardinality(S) <= Cardinality(Proc)
  BY FS_Subset, FS_CardinalityType, OsvGateAssumption

\* No fetch is counted anew, and none becomes pending, and a stamp is stale that
\* was, and that nobody was writing.
LEMMA FewerPending ==
  ASSUME IInv, Pending' \subseteq Pending, UNCHANGED fetches, ~torn' => ~torn,
         ~torn' /\ stamp' = "stale" /\ ~Stamping' => stamp = "stale" /\ ~Stamping
  PROVE  Budget'
<1>1. Pending \in SUBSET Proc /\ Pending' \in SUBSET Pending
  BY DEF Pending
<1>2. /\ Cardinality(Pending) \in Nat /\ Cardinality(Pending') \in Nat
      /\ Cardinality(Pending') <= Cardinality(Pending) /\ Cardinality(Proc) \in Nat
  BY <1>1, Counts
<1> QED
  BY <1>2 DEF IInv, TypeOK, Budget

\* As many as there are processes may be pending when nobody has asked yet.
LEMMA NoneAsked ==
  ASSUME fetches' = 0
  PROVE  Budget'
<1>1. Pending' \in SUBSET Proc
  BY DEF Pending
<1>2. Cardinality(Pending') \in Nat /\ Cardinality(Pending') <= Cardinality(Proc)
  BY <1>1, Counts
<1> QED
  BY <1>2 DEF Budget

LEMMA NextBudget == IInv /\ [Next]_vars => Budget'
<1> SUFFICES ASSUME IInv, [Next]_vars
             PROVE  Budget'
  OBVIOUS
<1> USE DEF IInv, TypeOK
<1>1. ASSUME NEW p \in Proc, Start(p) \/ Exit(p) \/ \E k \in Kinds : Load(p, k)
      PROVE  Budget'
  <2>1. Pending' \subseteq Pending /\ UNCHANGED <<fetches, stamp>> /\ (~torn' => ~torn)
    BY <1>1 DEF Start, Exit, Load, Pending, Off, files, procVars, history
  <2>2. ~torn' /\ ~Stamping' => ~Stamping
    BY <1>1 DEF Start, Exit, Load, Stamping, history
  <2> QED
    BY <2>1, <2>2, FewerPending
<1>2. ASSUME NEW p \in Proc, Refresh(p)
      PROVE  Budget'
  BY <1>2, NoneAsked DEF Refresh
<1>3. ASSUME NEW p \in Proc, ReadStamp(p) \/ ReadCache(p)
      PROVE  Budget'
  <2>1. Pending' \subseteq Pending /\ UNCHANGED <<fetches, torn, stamp, Stamping>>
    BY <1>3 DEF ReadStamp, ReadCache, Pending, Stamping, files, history
  <2> QED
    BY <2>1, FewerPending
<1>4. ASSUME NEW p \in Proc, MaybeStart(p)
      PROVE  Budget'
  <2>1. CASE ~started[p] /\ stamp = "stale"
    <3>1. ~torn' => fetches' = 0
      BY <1>4, <2>1 DEF MaybeStart, Budget
    <3> QED
      BY <3>1, NoneAsked DEF Budget
  <2>2. CASE ~(~started[p] /\ stamp = "stale")
    <3>1. UNCHANGED <<fetches, stamp, fetch>> /\ (~torn' => ~torn)
      BY <1>4, <2>2 DEF MaybeStart, files
    <3>2. Pending' \subseteq Pending /\ (~Stamping' => ~Stamping)
      BY <1>4, <3>1 DEF MaybeStart, Pending, Stamping
    <3> QED
      BY <3>1, <3>2, FewerPending
  <2> QED
    BY <2>1, <2>2
<1>5. ASSUME NEW p \in Proc, WriteStamp(p)
      PROVE  Budget'
  <2>1. CASE torn'
    BY <2>1 DEF Budget
  <2>2. CASE ~torn'
    <3>1. UNCHANGED <<fetches, torn, main>> /\ fetch' = [fetch EXCEPT ![p] = "write"]
      BY <1>5, <2>2 DEF WriteStamp
    <3>2. Pending' \subseteq Pending /\ Stamping'
      BY <1>5, <3>1 DEF WriteStamp, Pending, Stamping
    <3> QED
      BY <3>1, <3>2, FewerPending
  <2> QED
    BY <2>1, <2>2
<1>6. ASSUME NEW p \in Proc, FillStamp(p)
      PROVE  Budget'
  <2>1. CASE torn'
    BY <2>1 DEF Budget
  <2>2. CASE ~torn' /\ main[p] = "refresh"
    <3>1. Pending' \subseteq Pending /\ UNCHANGED <<fetches, torn>> /\ stamp' = "fresh"
      BY <1>6, <2>2 DEF FillStamp, Asks, Pending
    <3> QED
      BY <3>1, FewerPending
  <2>3. CASE ~torn' /\ main[p] # "refresh"
    <3>1. ~torn /\ stamp' = "fresh" /\ fetches' = fetches + 1
      BY <1>6, <2>3 DEF FillStamp, Asks
    <3>2. p \in Pending /\ Pending' = Pending \ {p}
      BY <1>6, <2>3 DEF FillStamp, Asks, Pending
    <3>3. IsFiniteSet(Pending)
      BY FS_Subset, OsvGateAssumption DEF Pending
    <3>4. Cardinality(Pending') = Cardinality(Pending) - 1 /\ Cardinality(Pending) \in Nat
      BY <3>2, <3>3, FS_RemoveElement, FS_CardinalityType
    <3>5. Cardinality(Proc) \in Nat
      BY FS_CardinalityType, OsvGateAssumption
    <3> QED
      BY <3>1, <3>4, <3>5 DEF Budget
  <2> QED
    BY <2>1, <2>2, <2>3
<1>7. ASSUME NEW p \in Proc, AskFails(p) \/ AskAnswers(p) \/ SaveCache(p)
      PROVE  Budget'
  <2>1. Pending' \subseteq Pending /\ UNCHANGED <<fetches, torn, stamp, Stamping>>
    BY <1>7 DEF AskFails, AskAnswers, SaveCache, Ends, Pending, Stamping, files, history
  <2> QED
    BY <2>1, FewerPending
<1>8. CASE DayPasses
  BY <1>8, NoneAsked DEF DayPasses
<1>9. CASE Disclose \/ UNCHANGED vars
  <2>1. Pending' \subseteq Pending /\ UNCHANGED <<fetches, torn, stamp, Stamping>>
    BY <1>9 DEF Disclose, vars, files, procVars, history, Pending, Stamping
  <2> QED
    BY <2>1, FewerPending
<1> QED
  BY <1>1, <1>2, <1>3, <1>4, <1>5, <1>6, <1>7, <1>8, <1>9 DEF Next, Gate, Fetch

LEMMA IInvHolds == Spec => []IInv
<1>1. IInv /\ [Next]_vars => IInv'
  BY NextTypeOK, NextBad, NextBudget, NextOff DEF IInv
<1> QED
  BY <1>1, InitIInv, PTL DEF Spec

\* No load passes that today's cache lists from its beginning to its end, unless
\* the environment overrides the gate: for any number of processes, whatever they
\* fetch, refresh or leave half written (loader.py, _check_osv_cache_or_block).
THEOREM ListedRefused == Spec => []ListedIsRefused
<1>1. IInv => ListedIsRefused
  BY DEF IInv, Bad, ListedIsRefused
<1> QED
  BY <1>1, IInvHolds, PTL

\* The OSV service is asked in the background at most once by each process
\* between two agings of the stamp, for any number of processes that start, end
\* and fail to ask in any order, while every stamp is kept and none is missed by a
\* process that reads it half written (loader.py, _osv_check_worker writes it first).
THEOREM Budgeted == Spec => []FetchBudget
<1>1. IInv => FetchBudget
  <2> SUFFICES ASSUME IInv
               PROVE  ~torn => fetches <= Cardinality(Proc)
    BY DEF FetchBudget
  <2>1. Pending \in SUBSET Proc
    BY DEF Pending
  <2>2. Cardinality(Pending) \in Nat /\ Cardinality(Proc) \in Nat
    BY <2>1, Counts
  <2> QED
    BY <2>2 DEF IInv, TypeOK, Budget
<1> QED
  BY <1>1, IInvHolds, PTL

-------------------------------------------------------------------------------
(* Induction over numbers and sequences. *)

\* The library's induction theorems have an operator for a parameter, which the
\* provers cannot instantiate; here it is a set.  That a non-empty set of numbers
\* has a smallest one comes from WFMin, which knows of no operator.
LEMMA LessIsWellFounded ==
  \E R : IsWellFoundedOn(R, Nat) /\ \A x, y \in Nat : x < y => <<x, y>> \in R
<1>1. \A x, y \in Nat : x < y => <<x, y>> \in OpToRel(<, Nat)
  BY DEF OpToRel
<1>2. IsWellFoundedOn(OpToRel(<, Nat), Nat)
  BY NatLessThanWellFounded
<1> QED
  BY <1>1, <1>2, Zenon

LEMMA SmallestNumber ==
  ASSUME NEW T \in SUBSET Nat, T # {}
  PROVE  \E x \in T : \A y \in T : x <= y
<1>1. PICK R : IsWellFoundedOn(R, Nat) /\ \A x, y \in Nat : x < y => <<x, y>> \in R
  BY LessIsWellFounded
<1>2. \E x \in T : \A y \in T : ~(<<y, x>> \in R)
  <2>1. PICK S : S = Nat
    OBVIOUS
  <2>2. IsWellFoundedOn(R, S) /\ T \subseteq S
    BY <1>1, <2>1
  <2> HIDE <2>1
  <2> QED
    BY <2>2, WFMin
<1>3. PICK x \in T : \A y \in T : ~(<<y, x>> \in R)
  BY <1>2
<1>4. ASSUME NEW y \in T
      PROVE  x <= y
  <2>1. x \in Nat /\ y \in Nat
    OBVIOUS
  <2>2. ~(y < x)
    BY <1>1, <1>3, <2>1
  <2> QED
    BY <2>1, <2>2
<1> QED
  BY <1>4

LEMMA NumbersInduct ==
  ASSUME NEW T \in SUBSET Nat, 0 \in T, \A n \in T : n + 1 \in T
  PROVE  T = Nat
<1> SUFFICES ASSUME NEW U \in SUBSET Nat, U = Nat \ T, U # {}
             PROVE  FALSE
  OBVIOUS
<1>1. PICK x \in U : \A y \in U : x <= y
  BY SmallestNumber
<1>2. x \in Nat /\ x # 0 /\ x - 1 \in Nat /\ x - 1 < x
  OBVIOUS
<1>3. x - 1 \notin U
  BY <1>1, <1>2
<1>4. (x - 1) + 1 \in T
  BY <1>2, <1>3
<1> QED
  BY <1>2, <1>4

LEMMA SequencesInduct ==
  ASSUME NEW S, NEW T \in SUBSET Seq(S), <<>> \in T,
         \A s \in T, e \in S : Append(s, e) \in T
  PROVE  T = Seq(S)
<1> DEFINE Lengths == {n \in Nat : \A s \in Seq(S) : Len(s) = n => s \in T}
<1>1. 0 \in Lengths
  BY EmptySeq
<1>2. ASSUME NEW n \in Lengths, NEW s \in Seq(S), Len(s) = n + 1
      PROVE  s \in T
  <2>1. s # <<>>
    BY <1>2, EmptySeq
  <2>2. PICK front \in Seq(S), e \in S : s = Append(front, e)
    BY <2>1, SequenceEmptyOrAppend
  <2>3. Len(s) = Len(front) + 1 /\ Len(front) \in Nat
    BY <2>2, AppendProperties, LenProperties
  <2>4. n \in Nat /\ \A t \in Seq(S) : Len(t) = n => t \in T
    OBVIOUS
  <2>5. Len(front) = n
    BY <1>2, <2>3, <2>4
  <2>6. front \in T
    BY <2>4, <2>5
  <2> QED
    BY <2>2, <2>6
<1>3. ASSUME NEW n \in Lengths
      PROVE  n + 1 \in Lengths
  <2>1. n + 1 \in Nat
    OBVIOUS
  <2>2. \A s \in Seq(S) : Len(s) = n + 1 => s \in T
    BY <1>2
  <2> QED
    BY <2>1, <2>2
<1>4. Lengths = Nat
  <2> HIDE DEF Lengths
  <2>1. Lengths \in SUBSET Nat
    BY DEF Lengths
  <2> QED
    BY <1>1, <1>3, <2>1, NumbersInduct
<1>5. \A s \in Seq(S) : Len(s) \in Nat
  BY LenProperties
<1> QED
  BY <1>4, <1>5


-------------------------------------------------------------------------------
(* Sift. *)

\* f sifts specs up to its k-th member.
Sifting(f, specs, set, k) ==
  /\ f[0] = <<>>
  /\ \A n \in 1..k :
       f[n] = IF specs[n] \in set THEN Append(f[n - 1], specs[n]) ELSE f[n - 1]

LEMMA SiftingExists ==
  ASSUME NEW S, NEW specs \in Seq(S), NEW set
  PROVE  \E f \in [0..Len(specs) -> Seq(S)] : Sifting(f, specs, set, Len(specs))
<1> DEFINE Reached ==
      {k \in Nat : k <= Len(specs) =>
                     \E f \in [0..Len(specs) -> Seq(S)] : Sifting(f, specs, set, k)}
<1>0. Len(specs) \in Nat /\ \A n \in 1..Len(specs) : specs[n] \in S
  BY LenProperties, ElementOfSeq
<1>1. 0 \in Reached
  <2>1. [n \in 0..Len(specs) |-> <<>>] \in [0..Len(specs) -> Seq(S)]
    BY EmptySeq
  <2>2. Sifting([n \in 0..Len(specs) |-> <<>>], specs, set, 0)
    BY <1>0 DEF Sifting
  <2> QED
    BY <2>1, <2>2
<1>2. ASSUME NEW k \in Reached
      PROVE  k + 1 \in Reached
  <2>1. k \in Nat
    OBVIOUS
  <2>2. SUFFICES ASSUME k + 1 <= Len(specs)
                 PROVE  \E f \in [0..Len(specs) -> Seq(S)] : Sifting(f, specs, set, k + 1)
    BY <2>1
  <2>3. PICK f \in [0..Len(specs) -> Seq(S)] : Sifting(f, specs, set, k)
    BY <1>0, <2>1, <2>2
  <2> HIDE DEF Reached
  <2>4. PICK last : last = IF specs[k + 1] \in set THEN Append(f[k], specs[k + 1]) ELSE f[k]
    OBVIOUS
  <2>5. specs[k + 1] \in S /\ f[k] \in Seq(S)
    BY <1>0, <2>1, <2>2
  <2>6. last \in Seq(S)
    BY <2>4, <2>5, AppendProperties
  <2>7. PICK g : g = [f EXCEPT ![k + 1] = last]
    OBVIOUS
  <2>8. g \in [0..Len(specs) -> Seq(S)]
    BY <2>6, <2>7
  <2>9. Sifting(g, specs, set, k + 1)
    <3>1. g[k + 1] = last /\ \A n \in 0..k : g[n] = f[n]
      BY <1>0, <2>1, <2>2, <2>7
    <3>2. ASSUME NEW n \in 1..(k + 1)
          PROVE  g[n] = IF specs[n] \in set THEN Append(g[n - 1], specs[n]) ELSE g[n - 1]
      <4>1. CASE n = k + 1
        BY <2>1, <2>4, <3>1, <4>1
      <4>2. CASE n # k + 1
        <5>1. n \in 1..k /\ n - 1 \in 0..k /\ n \in 0..k
          BY <2>1, <4>2
        <5> QED
          BY <2>3, <3>1, <5>1 DEF Sifting
      <4> QED
        BY <4>1, <4>2
    <3>3. g[0] = <<>>
      BY <2>1, <2>3, <3>1 DEF Sifting
    <3> QED
      BY <3>2, <3>3 DEF Sifting
  <2> QED
    BY <2>8, <2>9
<1>3. Reached = Nat
  <2>1. Reached \in SUBSET Nat
    OBVIOUS
  <2> HIDE DEF Reached
  <2> QED
    BY <1>1, <1>2, <2>1, NumbersInduct
<1> QED
  BY <1>0, <1>3

\* Two that sift alike agree.
LEMMA SiftingUnique ==
  ASSUME NEW m \in Nat, NEW f, NEW g, NEW s, NEW t, NEW set,
         Sifting(f, s, set, m), Sifting(g, t, set, m),
         \A n \in 1..m : s[n] = t[n]
  PROVE  f[m] = g[m]
<1> DEFINE Agreed == {k \in Nat : k <= m => f[k] = g[k]}
<1>1. 0 \in Agreed
  BY DEF Sifting
<1>2. ASSUME NEW k \in Agreed
      PROVE  k + 1 \in Agreed
  <2>1. k \in Nat /\ k + 1 \in Nat
    OBVIOUS
  <2>2. ASSUME k + 1 <= m
        PROVE  f[k + 1] = g[k + 1]
    <3>1. k + 1 \in 1..m /\ (k + 1) - 1 = k /\ f[k] = g[k]
      BY <2>1, <2>2
    <3>2. /\ f[k + 1] = IF s[k + 1] \in set THEN Append(f[k], s[k + 1]) ELSE f[k]
          /\ g[k + 1] = IF t[k + 1] \in set THEN Append(g[k], t[k + 1]) ELSE g[k]
      BY <3>1 DEF Sifting
    <3> QED
      BY <3>1, <3>2
  <2> QED
    BY <2>1, <2>2
<1>3. Agreed = Nat
  <2>1. Agreed \in SUBSET Nat
    OBVIOUS
  <2> HIDE DEF Agreed
  <2> QED
    BY <1>1, <1>2, <2>1, NumbersInduct
<1> QED
  BY <1>3

LEMMA SiftIsSifting ==
  ASSUME NEW S, NEW specs \in Seq(S), NEW set
  PROVE  \E f \in [0..Len(specs) -> Seq(S)] :
           Sifting(f, specs, set, Len(specs)) /\ Sift(specs, set) = f[Len(specs)]
<1>0. Len(specs) \in Nat
  BY LenProperties
<1> DEFINE Rec(f) == [n \in 0..Len(specs) |->
             IF n = 0 THEN <<>>
             ELSE IF specs[n] \in set THEN Append(f[n - 1], specs[n]) ELSE f[n - 1]]
<1>1. PICK g \in [0..Len(specs) -> Seq(S)] : Sifting(g, specs, set, Len(specs))
  BY SiftingExists
<1>2. g = Rec(g)
  <2>1. ASSUME NEW n \in 0..Len(specs)
        PROVE  g[n] = Rec(g)[n]
    <3>1. n = 0 \/ n \in 1..Len(specs)
      BY <1>0
    <3>2. ASSUME n \in 1..Len(specs)
          PROVE  g[n] = IF specs[n] \in set THEN Append(g[n - 1], specs[n]) ELSE g[n - 1]
      BY <1>1, <3>2 DEF Sifting
    <3> QED
      BY <1>0, <1>1, <3>1, <3>2 DEF Sifting
  <2> QED
    BY <1>1, <2>1
<1>3. PICK f : f = CHOOSE h : h = Rec(h)
  OBVIOUS
<1>4. f = Rec(f)
  BY <1>2, <1>3
<1>5. Sift(specs, set) = f[Len(specs)]
  BY <1>3, Zenon DEF Sift
<1>6. Sifting(f, specs, set, Len(specs))
  <2>1. PICK h : h = f
    OBVIOUS
  <2>2. f = Rec(h)
    BY <1>4, <2>1
  <2>3. f[0] = <<>>
    BY <1>0, <2>2
  <2>4. ASSUME NEW n \in 1..Len(specs)
        PROVE  f[n] = IF specs[n] \in set THEN Append(h[n - 1], specs[n]) ELSE h[n - 1]
    BY <1>0, <2>2
  <2> QED
    BY <2>1, <2>3, <2>4 DEF Sifting
<1>7. ASSUME NEW n \in 0..Len(specs)
      PROVE  f[n] = g[n]
  <2>1. n \in Nat /\ Sifting(f, specs, set, n) /\ Sifting(g, specs, set, n)
    BY <1>0, <1>1, <1>6 DEF Sifting
  <2> QED
    BY <2>1, SiftingUnique
<1>8. f \in [0..Len(specs) -> Seq(S)]
  BY <1>4, <1>7
<1> QED
  BY <1>5, <1>6, <1>8

LEMMA SiftProperties ==
  ASSUME NEW S, NEW set
  PROVE  /\ Sift(<<>>, set) = <<>>
         /\ \A specs \in Seq(S) : Sift(specs, set) \in Seq(S)
         /\ \A specs \in Seq(S), e \in S :
              Sift(Append(specs, e), set) =
                IF e \in set THEN Append(Sift(specs, set), e) ELSE Sift(specs, set)
<1>1. Sift(<<>>, set) = <<>>
  <2>1. <<>> \in Seq(S) /\ Len(<<>>) = 0
    BY EmptySeq
  <2>2. PICK f : Sifting(f, <<>>, set, 0) /\ Sift(<<>>, set) = f[0]
    BY <2>1, SiftIsSifting
  <2> QED
    BY <2>2 DEF Sifting
<1>2. ASSUME NEW specs \in Seq(S)
      PROVE  Sift(specs, set) \in Seq(S)
  <2>1. Len(specs) \in 0..Len(specs)
    BY LenProperties
  <2> QED
    BY <2>1, SiftIsSifting
<1>3. ASSUME NEW specs \in Seq(S), NEW e \in S
      PROVE  Sift(Append(specs, e), set) =
               IF e \in set THEN Append(Sift(specs, set), e) ELSE Sift(specs, set)
  <2>1. PICK more : more = Append(specs, e)
    OBVIOUS
  <2>2. PICK m : m = Len(specs)
    OBVIOUS
  <2>3. /\ m \in Nat /\ more \in Seq(S) /\ Len(more) = m + 1
        /\ more[m + 1] = e /\ \A n \in 1..m : more[n] = specs[n]
    BY <2>1, <2>2, AppendProperties, LenProperties
  <2>4. PICK f : Sifting(f, specs, set, m) /\ Sift(specs, set) = f[m]
    BY <2>2, SiftIsSifting
  <2>5. PICK g : Sifting(g, more, set, m + 1) /\ Sift(more, set) = g[m + 1]
    BY <2>3, SiftIsSifting
  <2>6. Sifting(g, more, set, m)
    BY <2>3, <2>5 DEF Sifting
  <2>7. f[m] = g[m]
    BY <2>3, <2>4, <2>6, SiftingUnique
  <2>8. g[m + 1] = IF e \in set THEN Append(g[m], e) ELSE g[m]
    <3>1. m + 1 \in 1..(m + 1) /\ (m + 1) - 1 = m
      BY <2>3
    <3> QED
      BY <2>3, <2>5, <3>1 DEF Sifting
  <2> QED
    BY <2>1, <2>4, <2>5, <2>7, <2>8
<1> QED
  BY <1>1, <1>2, <1>3

\* What is taken out by one sieve is not missed by another that lets none of it
\* through.
LEMMA SiftTwice ==
  ASSUME NEW S, NEW specs \in Seq(S), NEW coarse, NEW fine, S \cap fine \subseteq coarse
  PROVE  Sift(Sift(specs, coarse), fine) = Sift(specs, fine)
<1> DEFINE Good == {s \in Seq(S) : Sift(Sift(s, coarse), fine) = Sift(s, fine)}
<1>1. <<>> \in Good
  BY SiftProperties, EmptySeq
<1>2. ASSUME NEW s \in Good, NEW e \in S
      PROVE  Append(s, e) \in Good
  <2>1. s \in Seq(S) /\ Append(s, e) \in Seq(S) /\ Sift(s, coarse) \in Seq(S)
    BY AppendProperties, SiftProperties
  <2>2. /\ Sift(Append(s, e), coarse) =
             IF e \in coarse THEN Append(Sift(s, coarse), e) ELSE Sift(s, coarse)
        /\ Sift(Append(s, e), fine) =
             IF e \in fine THEN Append(Sift(s, fine), e) ELSE Sift(s, fine)
        /\ Sift(Append(Sift(s, coarse), e), fine) =
             IF e \in fine THEN Append(Sift(Sift(s, coarse), fine), e)
             ELSE Sift(Sift(s, coarse), fine)
    <3>1. PICK c : c = Sift(s, coarse)
      OBVIOUS
    <3>2. /\ \A t \in Seq(S), d \in S : Sift(Append(t, d), coarse) =
                IF d \in coarse THEN Append(Sift(t, coarse), d) ELSE Sift(t, coarse)
          /\ \A t \in Seq(S), d \in S : Sift(Append(t, d), fine) =
                IF d \in fine THEN Append(Sift(t, fine), d) ELSE Sift(t, fine)
      BY SiftProperties
    <3>3. Sift(Append(c, e), fine) =
             IF e \in fine THEN Append(Sift(c, fine), e) ELSE Sift(c, fine)
      BY <2>1, <3>1, <3>2
    <3> QED
      BY <2>1, <3>1, <3>2, <3>3
  <2>3. Sift(Sift(s, coarse), fine) = Sift(s, fine)
    OBVIOUS
  <2>4. Sift(Sift(Append(s, e), coarse), fine) = Sift(Append(s, e), fine)
    <3>1. CASE e \in coarse
      BY <2>2, <2>3, <3>1
    <3>2. CASE e \notin coarse
      BY <2>2, <2>3, <3>2
    <3> QED
      BY <3>1, <3>2
  <2> QED
    BY <2>1, <2>4
<1>3. Good = Seq(S)
  <2>1. Good \in SUBSET Seq(S)
    OBVIOUS
  <2> HIDE DEF Good
  <2> QED
    BY <1>1, <1>2, <2>1, SequencesInduct
<1> QED
  BY <1>3

LEMMA UpdatedIsSeq ==
  ASSUME NEW read \in Seq(PluginSpec), NEW s \in PluginSpec
  PROVE  Updated(read, s) \in Seq(PluginSpec)
<1>1. PICK rest : rest = Sift(read, PluginSpec \ Matching(s))
  OBVIOUS
<1>2. rest \in Seq(PluginSpec)
  BY <1>1, SiftProperties
<1>3. Updated(read, s) = rest \/ Updated(read, s) = Append(rest, s)
  BY <1>1, <1>2, AppendIsConcat, ConcatEmptySeq DEF Updated
<1> QED
  BY <1>2, <1>3, AppendProperties

\* An update of one package's entry leaves those of the others.
LEMMA UpdatedKeepsOthers ==
  ASSUME NEW read \in Seq(PluginSpec), NEW s \in PluginSpec,
         NEW p \in Package, p # s.pkg
  PROVE  Of(Updated(read, s), p) = Of(read, p)
<1>1. PICK rest : rest = Sift(read, PluginSpec \ Matching(s))
  OBVIOUS
<1>2. rest \in Seq(PluginSpec)
  BY <1>1, SiftProperties
<1>3. s \notin SpecsOf(p) /\ PluginSpec \cap SpecsOf(p) \subseteq PluginSpec \ Matching(s)
  BY DEF SpecsOf, PluginSpec, Matching
<1>4. Of(rest, p) = Of(read, p)
  <2>1. PICK coarse : coarse = PluginSpec \ Matching(s)
    OBVIOUS
  <2>2. PICK fine : fine = SpecsOf(p)
    OBVIOUS
  <2>3. Sift(Sift(read, coarse), fine) = Sift(read, fine)
    BY <1>3, <2>1, <2>2, SiftTwice
  <2> QED
    BY <1>1, <2>1, <2>2, <2>3 DEF Of
<1>5. Of(Append(rest, s), p) = Of(rest, p)
  <2>1. PICK fine : fine = SpecsOf(p)
    OBVIOUS
  <2>2. \A t \in Seq(PluginSpec), e \in PluginSpec :
          Sift(Append(t, e), fine) = IF e \in fine THEN Append(Sift(t, fine), e) ELSE Sift(t, fine)
    BY SiftProperties
  <2>3. Sift(Append(rest, s), fine) = Sift(rest, fine)
    BY <1>2, <1>3, <2>1, <2>2
  <2> QED
    BY <2>1, <2>3 DEF Of
<1>6. Updated(read, s) = rest \/ Updated(read, s) = Append(rest, s)
  BY <1>1, <1>2, AppendIsConcat, ConcatEmptySeq DEF Updated
<1> QED
  BY <1>4, <1>5, <1>6

-------------------------------------------------------------------------------
(* The inductive invariant of the hub. *)

\* What a command holds: a spec wherever it works on one, a save where it was
\* asked for, and no uninstall but in a remove.
Held ==
  /\ cmd.pc \notin {"idle", "check"} => cmd.todo # <<>>
  /\ cmd.pc \in {"save", "write"} => cmd.save
  /\ cmd.pc = "uninstall" => cmd.op = "remove"
  /\ cmd.pc = "idle" => cmd = NoCommand

Verifying == cmd.verify /\ cmd.op # "remove" /\ cmd.ok

\* From pip on a package is not what its last entry pins, until it is verified.
Working(p) ==
  cmd.pc \in {"verify", "quarantine", "next", "save", "write"} /\ The.pkg = p

Pins ==
  Verifying =>
    /\ \A p \in Package : LastOf(p) # {} => Working(p) \/ DigestsOf(site[p]) = LastOf(p)
    /\ cmd.pc \in {"next", "save", "write"} => Verified(site[The.pkg], The)

\* A manifest that was read for a save is the one the last save left.
Kept ==
  /\ cmd.pc # "write" /\ ~cut => \A p \in Package : Of(manifest, p) = promised[p]
  /\ cmd.save /\ cmd.todo # <<>> /\ ~cut => \A p \in Package : Of(cmd.read, p) = promised[p]

HubInv == HubTypeOK /\ Held /\ Pins /\ Kept

-------------------------------------------------------------------------------
(* Types of the hub. *)

LEMMA NoCommandIsOne == NoCommand \in Commands
  BY EmptySeq DEF NoCommand, Commands, Places, Operations

LEMMA DigestsAreTables == \A c \in Content \cup {None} : DigestsOf(c) \in Tables
  BY PluginHubAssumption DEF DigestsOf, Keeps, Tables

LEMMA OfIsSeq == \A specs \in Seq(PluginSpec), p \in Package : Of(specs, p) \in Seq(PluginSpec)
  BY SiftProperties DEF Of

\* The spec a command works on, and what is left after it.
LEMMA TheSpec ==
  ASSUME HubTypeOK, cmd.todo # <<>>
  PROVE  /\ The \in PluginSpec /\ The = cmd.todo[1] /\ Tail(cmd.todo) \in Seq(PluginSpec)
         /\ 1 \in DOMAIN cmd.todo
         /\ The.pkg \in Package /\ The.form \in Forms /\ The.pin \in Tables
         /\ The.hash \in Content \cup {None}
<1>1. cmd.todo \in Seq(PluginSpec)
  BY DEF HubTypeOK, Commands
<1>2. The \in PluginSpec /\ The = cmd.todo[1] /\ Tail(cmd.todo) \in Seq(PluginSpec)
  BY <1>1, HeadTailProperties DEF The
<1>3. 1 \in DOMAIN cmd.todo
  BY <1>1, EmptySeq, LenProperties
<1> QED
  BY <1>2, <1>3 DEF PluginSpec

LEMMA HubInitTypeOK == HubInit => HubTypeOK
<1> SUFFICES ASSUME HubInit
             PROVE  HubTypeOK
  OBVIOUS
<1>1. manifest \in Seq(PluginSpec)
  BY PluginHubAssumption DEF HubInit
<1>2. promised \in [Package -> Seq(PluginSpec)]
  BY <1>1, OfIsSeq DEF HubInit
<1>3. site \in [Package -> Content \cup {None}]
  BY DEF HubInit
<1>4. runs \in 0..MaxCommands /\ releases \in 0..MaxReleases
  BY PluginHubAssumption DEF HubInit
<1>5. cmd \in Commands
  BY NoCommandIsOne DEF HubInit
<1> QED
  BY <1>1, <1>2, <1>3, <1>4, <1>5 DEF HubInit, HubTypeOK

LEMMA TypedIsSpec == \A p \in Package, form \in Forms : Typed(p, form) \in PluginSpec
  BY DEF Typed, PluginSpec, Tables

LEMMA AddSpecsAreSpecs ==
  \A p \in Package, form \in Forms, verify \in BOOLEAN : AddSpecs(p, form, verify) \subseteq PluginSpec
<1> SUFFICES ASSUME NEW p \in Package, NEW form \in Forms, NEW verify \in BOOLEAN
             PROVE  AddSpecs(p, form, verify) \subseteq PluginSpec
  OBVIOUS
<1>1. Entries(p) \subseteq PluginSpec
  BY PluginHubAssumption DEF Entries, PluginSpec, Forms, Keeps
<1> QED
  BY <1>1, TypedIsSpec DEF AddSpecs

LEMMA BeginTypeOK ==
  ASSUME HubTypeOK, NEW c \in Commands, Begin(c)
  PROVE  HubTypeOK'
BY PluginHubAssumption DEF HubTypeOK, Begin

LEMMA CommandTypeOK == HubTypeOK /\ Command => HubTypeOK'
<1> SUFFICES ASSUME HubTypeOK, Command
             PROVE  HubTypeOK'
  OBVIOUS
<1>1. ASSUME NEW p \in Package, NEW form \in Forms, NEW save \in BOOLEAN, Remove(p, form, save)
      PROVE  HubTypeOK'
  <2>1. <<Typed(p, form)>> \in Seq(PluginSpec)
    BY TypedIsSpec
  <2>2. manifest \in Seq(PluginSpec)
    BY DEF HubTypeOK
  <2>3. [NoCommand EXCEPT !.op = "remove", !.save = save, !.read = manifest, !.pc = "uninstall",
           !.todo = <<Typed(p, form)>>] \in Commands
    BY <2>1, <2>2, NoCommandIsOne DEF Commands, Places, Operations
  <2> QED
    BY <1>1, <2>3, BeginTypeOK DEF Remove
<1>2. ASSUME NEW p \in Package, NEW form \in Forms, NEW save \in BOOLEAN, NEW verify \in BOOLEAN,
             NEW s \in AddSpecs(p, form, verify), Add(s, save, verify)
      PROVE  HubTypeOK'
  <2>1. <<s>> \in Seq(PluginSpec)
    BY AddSpecsAreSpecs
  <2>2. manifest \in Seq(PluginSpec)
    BY DEF HubTypeOK
  <2>3. [NoCommand EXCEPT !.op = "add", !.save = save, !.verify = verify,
           !.read = manifest, !.todo = <<s>>, !.pc = "check"] \in Commands
    BY <2>1, <2>2, NoCommandIsOne DEF Commands, Places, Operations
  <2> QED
    BY <1>2, <2>3, BeginTypeOK DEF Add
<1>3. ASSUME NEW upgrade \in BOOLEAN, NEW verify \in BOOLEAN, Install(upgrade, verify)
      PROVE  HubTypeOK'
  <2>1. manifest \in Seq(PluginSpec)
    BY DEF HubTypeOK
  <2>2. [NoCommand EXCEPT !.op = "install", !.verify = verify, !.upgrade = upgrade,
           !.todo = manifest, !.pc = "check"] \in Commands
    BY <2>1, NoCommandIsOne DEF Commands, Places, Operations
  <2> QED
    BY <1>3, <2>2, BeginTypeOK DEF Install
<1> QED
  BY <1>1, <1>2, <1>3 DEF Command

LEMMA GiveUpType ==
  ASSUME HubTypeOK, cmd.todo # <<>>, GiveUp
  PROVE  cmd' \in Commands
BY TheSpec, NoCommandIsOne DEF GiveUp, HubTypeOK, Commands, Places

LEMMA StepTypeOK == HubTypeOK /\ Held /\ Step => HubTypeOK'
<1> SUFFICES ASSUME HubTypeOK, Held, Step
             PROVE  HubTypeOK'
  OBVIOUS
<1>1. CASE PreCheck
  <2>1. cmd' \in Commands
    BY <1>1, GiveUpType DEF PreCheck, HubTypeOK, Commands, Places
  <2> QED
    BY <1>1, <2>1 DEF PreCheck, HubTypeOK
<1>2. CASE DownloadFails
  BY <1>2, GiveUpType DEF DownloadFails, HubTypeOK
<1>3. CASE PipInstall
  <2>1. cmd.todo # <<>>
    BY <1>3 DEF PipInstall, At, Held
  <2>2. cmd' \in Commands
    BY <1>3 DEF PipInstall, HubTypeOK, Commands, Places
  <2>3. site' \in [Package -> Content \cup {None}]
    BY <1>3, <2>1, TheSpec DEF PipInstall, HubTypeOK
  <2> QED
    BY <1>3, <2>2, <2>3 DEF PipInstall, HubTypeOK
<1>4. CASE PipFails
  <2>1. cmd.todo # <<>>
    BY <1>4 DEF PipFails, At, Held
  <2> QED
    BY <1>4, <2>1, GiveUpType, NoCommandIsOne DEF PipFails, HubTypeOK
<1>5. CASE PostCheck
  <2>1. cmd.todo # <<>>
    BY <1>5 DEF PostCheck, At, Held
  <2>2. cmd' \in Commands
    <3>1. DigestsOf(site[The.pkg]) \in Tables
      BY <2>1, TheSpec, DigestsAreTables DEF HubTypeOK
    <3>2. PICK todo : todo = [cmd.todo EXCEPT ![1].pin = IF cmd.op = "add" THEN DigestsOf(site[The.pkg]) ELSE @]
      OBVIOUS
    <3>3. todo \in Seq(PluginSpec)
      <4>1. PICK s : s = [cmd.todo[1] EXCEPT !.pin = IF cmd.op = "add" THEN DigestsOf(site[The.pkg]) ELSE @]
        OBVIOUS
      <4>2. s \in PluginSpec
        BY <2>1, <3>1, <4>1, TheSpec DEF PluginSpec
      <4>3. todo = [cmd.todo EXCEPT ![1] = s]
        BY <3>2, <4>1
      <4>4. cmd.todo \in Seq(PluginSpec) /\ 1 \in 1..Len(cmd.todo)
        BY <2>1, EmptySeq, LenProperties DEF HubTypeOK, Commands
      <4> QED
        BY <4>2, <4>3, <4>4, ExceptSeq
    <3>4. \/ cmd' = [cmd EXCEPT !.pc = "next"]
          \/ cmd' = [cmd EXCEPT !.pc = "next", !.todo = todo]
          \/ cmd' = [cmd EXCEPT !.pc = "quarantine"]
      BY <1>5, <3>2 DEF PostCheck, HubTypeOK, Commands
    <3> QED
      BY <3>3, <3>4 DEF HubTypeOK, Commands, Places
  <2> QED
    BY <1>5, <2>2 DEF PostCheck, HubTypeOK
<1>6. CASE Quarantine
  <2>1. cmd.todo # <<>>
    BY <1>6 DEF Quarantine, At, Held
  <2>2. site' \in [Package -> Content \cup {None}]
    BY <1>6, <2>1, TheSpec DEF Quarantine, HubTypeOK
  <2> QED
    BY <1>6, <2>1, <2>2, GiveUpType DEF Quarantine, HubTypeOK
<1>7. CASE NextSpec
  <2>1. cmd.todo # <<>>
    BY <1>7 DEF NextSpec, At, Held
  <2>2. cmd' \in Commands
    <3>1. Append(cmd.done, The) \in Seq(PluginSpec)
      BY <2>1, TheSpec, AppendProperties DEF HubTypeOK, Commands
    <3> QED
      BY <1>7, <2>1, <3>1, TheSpec DEF NextSpec, HubTypeOK, Commands, Places
  <2> QED
    BY <1>7, <2>2 DEF NextSpec, HubTypeOK
<1>8. CASE Uninstall
  <2>1. cmd.todo # <<>>
    BY <1>8 DEF Uninstall, At, Held
  <2>2. cmd' \in Commands
    <3>1. <<>> \in Seq(PluginSpec)
      BY EmptySeq
    <3>2. PICK empty : empty = <<>>
      OBVIOUS
    <3>3. \/ cmd' = NoCommand
          \/ cmd' = [cmd EXCEPT !.pc = IF cmd.save THEN "save" ELSE "check",
                               !.todo = IF cmd.save THEN @ ELSE empty]
      BY <1>8, <3>2 DEF Uninstall
    <3> QED
      BY <3>1, <3>2, <3>3, NoCommandIsOne DEF HubTypeOK, Commands, Places
  <2>3. site' \in [Package -> Content \cup {None}]
    BY <1>8, <2>1, TheSpec DEF Uninstall, HubTypeOK
  <2> QED
    BY <1>8, <2>2, <2>3 DEF Uninstall, HubTypeOK
<1>9. CASE OpenManifest
  <2>1. cmd' \in Commands
    BY <1>9 DEF OpenManifest, HubTypeOK, Commands, Places
  <2> QED
    BY <1>9, <2>1, EmptySeq DEF OpenManifest, HubTypeOK
<1>10. CASE WriteManifest
  <2>1. cmd.todo # <<>>
    BY <1>10 DEF WriteManifest, At, Held
  <2>2. manifest' \in Seq(PluginSpec)
    BY <1>10, <2>1, TheSpec, UpdatedIsSeq DEF WriteManifest, HubTypeOK, Commands
  <2>3. promised' \in [Package -> Seq(PluginSpec)]
    BY <1>10, <2>1, <2>2, TheSpec, OfIsSeq DEF WriteManifest, HubTypeOK
  <2>4. cmd' \in Commands
    <3>1. <<The>> \in Seq(PluginSpec) /\ <<>> \in Seq(PluginSpec)
      BY <2>1, TheSpec, EmptySeq
    <3> QED
      BY <1>10, <3>1 DEF WriteManifest, HubTypeOK, Commands, Places
  <2> QED
    BY <1>10, <2>2, <2>3, <2>4 DEF WriteManifest, HubTypeOK
<1>11. CASE Finish
  BY <1>11, NoCommandIsOne DEF Finish, HubTypeOK
<1> QED
  BY <1>1, <1>2, <1>3, <1>4, <1>5, <1>6, <1>7, <1>8, <1>9, <1>10, <1>11 DEF Step

LEMMA HubNextTypeOK == HubTypeOK /\ Held /\ [HubNext]_hubVars => HubTypeOK'
<1> SUFFICES ASSUME HubTypeOK, Held, [HubNext]_hubVars
             PROVE  HubTypeOK'
  OBVIOUS
<1>1. CASE Command
  BY <1>1, CommandTypeOK
<1>2. CASE Step
  BY <1>2, StepTypeOK
<1>3. CASE Crash
  BY <1>3, NoCommandIsOne DEF Crash, HubTypeOK
<1>4. ASSUME NEW p \in Package, NEW c \in Content, Release(p, c)
      PROVE  HubTypeOK'
  BY <1>4, PluginHubAssumption DEF Release, HubTypeOK
<1>5. CASE UNCHANGED hubVars
  BY <1>5 DEF hubVars, HubTypeOK
<1> QED
  BY <1>1, <1>2, <1>3, <1>4, <1>5 DEF HubNext


-------------------------------------------------------------------------------
(* Steps of the hub. *)

\* A check that passes leaves the spec with the pins of what is installed, or
\* without any; it stays the spec of its package.
LEMMA PostChecked ==
  ASSUME HubTypeOK, Held, PostCheck
  PROVE  /\ cmd.todo # <<>> /\ cmd'.todo # <<>> /\ cmd'.pc \in {"next", "quarantine"}
         /\ Head(cmd'.todo).pkg = The.pkg
         /\ cmd.verify /\ cmd'.pc = "next" => Verified(site[The.pkg], Head(cmd'.todo))
         /\ cmd'.save = cmd.save /\ cmd'.read = cmd.read /\ cmd'.done = cmd.done
         /\ cmd'.op = cmd.op /\ cmd'.verify = cmd.verify /\ cmd'.ok = cmd.ok
<1>1. cmd.todo # <<>>
  BY DEF PostCheck, At, Held
<1>2. PICK x : x = IF cmd.op = "add" THEN DigestsOf(site[The.pkg]) ELSE The.pin
  OBVIOUS
<1>3. PICK s : s = [The EXCEPT !.pin = x]
  OBVIOUS
<1>4. PICK todo : todo = [cmd.todo EXCEPT ![1] = s]
  OBVIOUS
<1>5. x \in Tables
  BY <1>1, <1>2, TheSpec, DigestsAreTables DEF HubTypeOK
<1>6. s \in PluginSpec /\ s.pkg = The.pkg /\ s.pin = x
  BY <1>1, <1>3, <1>5, TheSpec DEF PluginSpec
<1>7. todo \in Seq(PluginSpec) /\ todo # <<>> /\ Head(todo) = s
  <2>1. cmd.todo \in Seq(PluginSpec) /\ 1 \in 1..Len(cmd.todo)
    BY <1>1, EmptySeq, LenProperties DEF HubTypeOK, Commands
  <2>2. todo \in Seq(PluginSpec) /\ Len(todo) = Len(cmd.todo) /\ todo[1] = s
    BY <1>4, <1>6, <2>1, ExceptSeq
  <2> QED
    BY <2>1, <2>2, EmptySeq, HeadTailProperties
<1>8. \/ /\ cmd' = [cmd EXCEPT !.pc = "next"]
         /\ ~cmd.verify
      \/ /\ cmd' = [cmd EXCEPT !.pc = "next", !.todo = todo]
         /\ Verified(site[The.pkg], The)
      \/ cmd' = [cmd EXCEPT !.pc = "quarantine"]
  <2>1. cmd.todo[1] = The
    BY <1>1, TheSpec
  <2>2. [cmd.todo EXCEPT ![1].pin = IF cmd.op = "add" THEN DigestsOf(site[The.pkg]) ELSE @] = todo
    BY <1>1, <1>2, <1>3, <1>4, <2>1, TheSpec DEF HubTypeOK, Commands
  <2> QED
    BY <2>2 DEF PostCheck, HubTypeOK, Commands
<1>9. Verified(site[The.pkg], The) => Verified(site[The.pkg], s)
  BY <1>2, <1>6 DEF Verified
<1> QED
  BY <1>1, <1>6, <1>7, <1>8, <1>9 DEF The, HubTypeOK, Commands

\* After giving up no command is left, or an install that has failed.
LEMMA GivenUp ==
  ASSUME HubTypeOK, GiveUp
  PROVE  \/ cmd' = NoCommand
         \/ /\ cmd'.pc = "check" /\ cmd'.op = "install" /\ ~cmd'.ok
            /\ cmd'.save = cmd.save /\ cmd'.read = cmd.read
BY DEF GiveUp, HubTypeOK, Commands

LEMMA NoCommandHeld ==
  /\ NoCommand.pc = "idle" /\ NoCommand.todo = <<>> /\ NoCommand.done = <<>>
  /\ ~NoCommand.save /\ NoCommand.op = "none" /\ NoCommand.ok
BY DEF NoCommand

\* How a command begins.
LEMMA Begun ==
  ASSUME Command
  PROVE  /\ cmd.pc = "idle" /\ UNCHANGED <<site, index, manifest, valid, releases, promised, cut>>
         /\ cmd'.pc = "check" \/ (cmd'.pc = "uninstall" /\ cmd'.op = "remove" /\ cmd'.todo # <<>>)
         /\ cmd'.done = <<>> /\ (cmd'.save => cmd'.read = manifest)
<1> DEFINE Goal ==
      /\ cmd.pc = "idle" /\ UNCHANGED <<site, index, manifest, valid, releases, promised, cut>>
      /\ cmd'.pc = "check" \/ (cmd'.pc = "uninstall" /\ cmd'.op = "remove" /\ cmd'.todo # <<>>)
      /\ cmd'.done = <<>> /\ (cmd'.save => cmd'.read = manifest)
<1>1. ASSUME NEW p \in Package, NEW form \in Forms, NEW save \in BOOLEAN, Remove(p, form, save)
      PROVE  Goal
  <2>1. PICK todo : todo = <<Typed(p, form)>>
    OBVIOUS
  <2>2. todo # <<>>
    BY <2>1
  <2>3. cmd' = [NoCommand EXCEPT !.op = "remove", !.save = save, !.read = manifest,
                  !.pc = "uninstall", !.todo = todo]
    BY <1>1, <2>1 DEF Remove, Begin
  <2> QED
    BY <1>1, <2>2, <2>3 DEF Remove, Begin, At, NoCommand
<1>2. ASSUME NEW s, NEW save \in BOOLEAN, NEW verify \in BOOLEAN, Add(s, save, verify)
      PROVE  Goal
  <2>1. /\ cmd' = [NoCommand EXCEPT !.op = "add", !.save = save, !.verify = verify,
                     !.read = manifest, !.todo = <<s>>, !.pc = "check"]
        /\ cmd.pc = "idle" /\ UNCHANGED <<site, index, manifest, valid, releases, promised, cut>>
    BY <1>2 DEF Add, Begin, At
  <2>2. cmd'.pc = "check" /\ cmd'.done = <<>> /\ (cmd'.save => cmd'.read = manifest)
    BY <2>1 DEF NoCommand
  <2>3. cmd.pc = "idle" /\ UNCHANGED <<site, index, manifest, valid, releases, promised, cut>>
    BY <2>1
  <2> QED
    BY <2>2, <2>3
<1>3. ASSUME NEW upgrade \in BOOLEAN, NEW verify \in BOOLEAN, Install(upgrade, verify)
      PROVE  Goal
  <2>1. /\ cmd' = [NoCommand EXCEPT !.op = "install", !.verify = verify,
                     !.upgrade = upgrade, !.todo = manifest, !.pc = "check"]
        /\ cmd.pc = "idle" /\ UNCHANGED <<site, index, manifest, valid, releases, promised, cut>>
    BY <1>3 DEF Install, Begin, At
  <2>2. cmd'.pc = "check" /\ cmd'.done = <<>> /\ (cmd'.save => cmd'.read = manifest)
    BY <2>1 DEF NoCommand
  <2>3. cmd.pc = "idle" /\ UNCHANGED <<site, index, manifest, valid, releases, promised, cut>>
    BY <2>1
  <2> QED
    BY <2>2, <2>3
<1> HIDE DEF Goal
<1>4. Goal
  BY <1>1, <1>2, <1>3 DEF Command
<1> QED
  BY <1>4 DEF Goal

LEMMA NextHeld == HubTypeOK /\ Held /\ [HubNext]_hubVars => Held'
<1> SUFFICES ASSUME HubTypeOK, Held, [HubNext]_hubVars
             PROVE  Held'
  OBVIOUS
<1>a. ASSUME cmd' = NoCommand
      PROVE  Held'
  BY <1>a, NoCommandHeld DEF Held
<1>b. ASSUME GiveUp
      PROVE  Held'
  BY <1>a, <1>b, GivenUp DEF Held
<1>1. CASE Command
  BY <1>1, Begun DEF Held
<1>2. CASE PreCheck
  BY <1>2, <1>b DEF PreCheck, Held, HubTypeOK, Commands
<1>3. CASE DownloadFails
  BY <1>3, <1>b DEF DownloadFails
<1>4. CASE PipInstall
  BY <1>4 DEF PipInstall, Held, HubTypeOK, Commands, At
<1>5. CASE PipFails
  BY <1>5, <1>a, <1>b DEF PipFails
<1>6. CASE PostCheck
  BY <1>6, PostChecked DEF Held
<1>7. CASE Quarantine
  BY <1>7, <1>b DEF Quarantine
<1>8. CASE NextSpec
  BY <1>8 DEF NextSpec, Held, HubTypeOK, Commands, At
<1>9. CASE Uninstall
  <2>1. \/ cmd' = NoCommand
        \/ cmd.save /\ cmd' = [cmd EXCEPT !.pc = "save"]
        \/ ~cmd.save /\ cmd'.pc = "check"
    BY <1>9 DEF Uninstall, HubTypeOK, Commands
  <2> QED
    BY <1>9, <1>a, <2>1 DEF Uninstall, Held, At, HubTypeOK, Commands
<1>10. CASE OpenManifest
  BY <1>10 DEF OpenManifest, Held, HubTypeOK, Commands, At
<1>11. CASE WriteManifest
  <2>1. cmd'.pc = "check"
    BY <1>11 DEF WriteManifest, HubTypeOK, Commands
  <2> QED
    BY <2>1 DEF Held
<1>12. CASE Finish
  BY <1>12, <1>a DEF Finish
<1>13. CASE Crash
  BY <1>13, <1>a DEF Crash
<1>14. CASE UNCHANGED cmd
  BY <1>14 DEF Held
<1> QED
  BY <1>1, <1>2, <1>3, <1>4, <1>5, <1>6, <1>7, <1>8, <1>9, <1>10, <1>11, <1>12, <1>13, <1>14
  DEF HubNext, Step, Release, hubVars

LEMMA NextKept == HubTypeOK /\ Held /\ Kept /\ [HubNext]_hubVars => Kept'
<1> SUFFICES ASSUME HubTypeOK, Held, Kept, [HubNext]_hubVars
             PROVE  Kept'
  OBVIOUS
<1>a. ASSUME cmd' = NoCommand, UNCHANGED <<manifest, promised>>, cut' = (cut \/ At("write"))
      PROVE  Kept'
  <2>1. cmd'.pc = "idle" /\ ~cmd'.save
    BY <1>a, NoCommandHeld
  <2>2. cut \in BOOLEAN
    BY DEF HubTypeOK
  <2> QED
    BY <1>a, <2>1, <2>2 DEF Kept, At
<1>b. ASSUME cmd.pc # "write", cmd'.pc # "write", UNCHANGED <<manifest, promised, cut>>,
             cmd'.save => cmd.save /\ cmd.todo # <<>> /\ cmd'.read = cmd.read
      PROVE  Kept'
  BY <1>b DEF Kept
<1>c. ASSUME GiveUp, cmd.pc # "write", cmd.todo # <<>>, UNCHANGED <<manifest, promised, cut>>
      PROVE  Kept'
  BY <1>b, <1>c, GivenUp, NoCommandHeld
<1>1. CASE Command
  BY <1>1, Begun DEF Kept
<1>2. CASE PreCheck
  <2>1. CASE GiveUp
    BY <1>2, <1>c, <2>1 DEF PreCheck, At
  <2>2. CASE cmd' = [cmd EXCEPT !.pc = "pip"]
    BY <1>2, <1>b, <2>2 DEF PreCheck, At, HubTypeOK, Commands
  <2> QED
    BY <1>2, <2>1, <2>2 DEF PreCheck
<1>3. CASE DownloadFails
  BY <1>3, <1>c DEF DownloadFails, At
<1>4. CASE PipInstall
  BY <1>4, <1>b DEF PipInstall, At, Held, HubTypeOK, Commands
<1>5. CASE PipFails
  <2>1. cmd.pc = "pip" /\ cmd.todo # <<>> /\ UNCHANGED <<manifest, promised, cut>>
    BY <1>5 DEF PipFails, At, Held
  <2> QED
    BY <1>5, <1>b, <1>c, <2>1, NoCommandHeld DEF PipFails
<1>6. CASE PostCheck
  <2>1. cmd.pc = "verify" /\ UNCHANGED <<manifest, promised, cut>>
    BY <1>6 DEF PostCheck, At
  <2> QED
    BY <1>6, <1>b, <2>1, PostChecked
<1>7. CASE Quarantine
  <2>1. cmd.pc = "quarantine" /\ cmd.todo # <<>> /\ UNCHANGED <<manifest, promised, cut>> /\ GiveUp
    BY <1>7 DEF Quarantine, At, Held
  <2> QED
    BY <1>c, <2>1
<1>8. CASE NextSpec
  <2>1. cmd.pc = "next" /\ cmd.todo # <<>> /\ UNCHANGED <<manifest, promised, cut>>
    BY <1>8 DEF NextSpec, At, Held
  <2>2. cmd'.pc # "write" /\ cmd'.save = cmd.save /\ cmd'.read = cmd.read
    BY <1>8 DEF NextSpec, HubTypeOK, Commands
  <2> QED
    BY <1>b, <2>1, <2>2
<1>9. CASE Uninstall
  <2>1. cmd.pc = "uninstall" /\ cmd.todo # <<>> /\ UNCHANGED <<manifest, promised, cut>>
    BY <1>9 DEF Uninstall, At, Held
  <2>2. cmd'.pc # "write" /\ (cmd'.save => cmd.save /\ cmd'.read = cmd.read)
    BY <1>9, NoCommandHeld DEF Uninstall, HubTypeOK, Commands
  <2> QED
    BY <1>b, <2>1, <2>2
<1>10. CASE OpenManifest
  <2>1. /\ cmd.save /\ cmd.todo # <<>> /\ UNCHANGED <<promised, cut>>
        /\ cmd'.pc = "write" /\ cmd'.read = cmd.read
    BY <1>10 DEF OpenManifest, At, Held, HubTypeOK, Commands
  <2> QED
    BY <2>1 DEF Kept
<1>11. CASE WriteManifest
  <2>1. /\ cmd.pc = "write" /\ cmd.save /\ cmd.todo # <<>> /\ cmd' \in Commands
        /\ cmd'.todo = <<>> /\ UNCHANGED cut
        /\ The \in PluginSpec /\ cmd.read \in Seq(PluginSpec)
    BY <1>11, TheSpec, StepTypeOK DEF WriteManifest, At, Held, HubTypeOK, Commands, Step
  <2>2. ASSUME ~cut, NEW p \in Package
        PROVE  Of(manifest', p) = promised'[p]
    <3>1. Of(cmd.read, p) = promised[p]
      BY <2>1, <2>2 DEF Kept
    <3>2. manifest' = Updated(cmd.read, The)
          /\ promised' = [promised EXCEPT ![The.pkg] = Of(manifest', The.pkg)]
      BY <1>11 DEF WriteManifest
    <3>3. promised \in [Package -> Seq(PluginSpec)]
      BY DEF HubTypeOK
    <3>4. CASE p = The.pkg
      BY <3>2, <3>3, <3>4
    <3>5. CASE p # The.pkg
      <4>1. promised'[p] = promised[p]
        BY <3>2, <3>3, <3>5
      <4>2. Of(Updated(cmd.read, The), p) = Of(cmd.read, p)
        BY <2>1, <3>5, UpdatedKeepsOthers
      <4> QED
        BY <3>1, <3>2, <4>1, <4>2
    <3> QED
      BY <3>4, <3>5
  <2> QED
    BY <2>1, <2>2 DEF Kept
<1>12. CASE Finish
  BY <1>12, <1>a DEF Finish, At, HubTypeOK
<1>13. CASE Crash
  BY <1>13, <1>a DEF Crash
<1>14. CASE UNCHANGED <<manifest, cmd, promised, cut>>
  BY <1>14 DEF Kept
<1> QED
  BY <1>1, <1>2, <1>3, <1>4, <1>5, <1>6, <1>7, <1>8, <1>9, <1>10, <1>11, <1>12, <1>13, <1>14
  DEF HubNext, Step, Release, hubVars

\* The last entry of a package among those that are done, after one more.
LEMMA LastOfMore ==
  ASSUME HubTypeOK, NEW p \in Package, NEW s \in PluginSpec, NEW done \in Seq(PluginSpec),
         Of(cmd'.done, p) = Of(Append(done, s), p)
  PROVE  /\ s.pkg = p => LastOf(p)' = s.pin
         /\ s.pkg # p => Of(cmd'.done, p) = Of(done, p)
<1>1. PICK specs : specs = SpecsOf(p)
  OBVIOUS
<1>2. s \in specs <=> s.pkg = p
  BY <1>1 DEF SpecsOf, PluginSpec
<1>3. \A t \in Seq(PluginSpec), e \in PluginSpec :
        Sift(Append(t, e), specs) = IF e \in specs THEN Append(Sift(t, specs), e) ELSE Sift(t, specs)
  BY SiftProperties
<1>4. Of(cmd'.done, p) = IF s \in specs THEN Append(Of(done, p), s) ELSE Of(done, p)
  BY <1>1, <1>3 DEF Of
<1>5. ASSUME s.pkg = p
      PROVE  LastOf(p)' = s.pin
  <2>1. PICK of : of = Of(done, p)
    OBVIOUS
  <2>2. of \in Seq(PluginSpec)
    BY <2>1, OfIsSeq
  <2>3. PICK more : more = Append(of, s)
    OBVIOUS
  <2>4. more # <<>> /\ more[Len(more)] = s
    BY <2>2, <2>3, AppendProperties
  <2>5. Of(cmd'.done, p) = more
    BY <1>2, <1>4, <1>5, <2>1, <2>3
  <2> QED
    BY <2>4, <2>5 DEF LastOf
<1> QED
  BY <1>2, <1>4, <1>5

LEMMA EmptyOf == \A p \in Package : Of(<<>>, p) = <<>>
  BY SiftProperties DEF Of

LEMMA NothingDone == ASSUME cmd'.done = <<>> PROVE \A p \in Package : LastOf(p)' = {}
  BY EmptyOf DEF LastOf

LEMMA NextPins == HubTypeOK /\ Held /\ Pins /\ [HubNext]_hubVars => Pins'
<1> SUFFICES ASSUME HubTypeOK, Held, Pins, [HubNext]_hubVars
             PROVE  Pins'
  OBVIOUS
<1>a. ASSUME cmd'.done = <<>>, cmd'.pc \notin {"next", "save", "write"}
      PROVE  Pins'
  BY <1>a, NothingDone DEF Pins
<1>b. ASSUME cmd' = NoCommand
      PROVE  Pins'
  BY <1>a, <1>b, NoCommandHeld
<1>c. ASSUME GiveUp
      PROVE  Pins'
  <2>1. CASE cmd' = NoCommand
    BY <1>b, <2>1
  <2>2. CASE ~cmd'.ok
    BY <2>2 DEF Pins, Verifying
  <2> QED
    BY <1>c, <2>1, <2>2, GivenUp
<1>d. ASSUME cmd'.done = cmd.done
      PROVE  \A p \in Package : LastOf(p)' = LastOf(p)
  BY <1>d DEF LastOf
<1>1. CASE Command
  BY <1>1, <1>a, Begun
<1>2. CASE PreCheck
  <2>1. CASE GiveUp
    BY <1>c, <2>1
  <2>2. CASE cmd' = [cmd EXCEPT !.pc = "pip"]
    <3>1. /\ cmd.pc = "check" /\ cmd'.pc = "pip" /\ cmd'.done = cmd.done /\ UNCHANGED site
          /\ cmd'.op = cmd.op /\ cmd'.verify = cmd.verify /\ cmd'.ok = cmd.ok
      BY <1>2, <2>2 DEF PreCheck, At, HubTypeOK, Commands
    <3> QED
      BY <1>d, <3>1 DEF Pins, Verifying, Working
  <2> QED
    BY <1>2, <2>1, <2>2 DEF PreCheck
<1>3. CASE DownloadFails
  BY <1>3, <1>c DEF DownloadFails
<1>4. CASE PipInstall
  <2>1. /\ cmd.pc = "pip" /\ cmd.todo # <<>> /\ cmd'.pc = "verify" /\ cmd'.done = cmd.done
        /\ cmd'.todo = cmd.todo /\ cmd'.op = cmd.op /\ cmd'.verify = cmd.verify /\ cmd'.ok = cmd.ok
        /\ \E c : site' = [site EXCEPT ![The.pkg] = c]
    BY <1>4 DEF PipInstall, At, Held, HubTypeOK, Commands
  <2>2. \A p \in Package : p # The.pkg => site'[p] = site[p]
    BY <2>1 DEF HubTypeOK
  <2>3. \A p \in Package : Working(p)' <=> p = The.pkg
    BY <2>1 DEF Working, The
  <2> QED
    BY <1>d, <2>1, <2>2, <2>3 DEF Pins, Verifying, Working
<1>5. CASE PipFails
  BY <1>5, <1>b, <1>c DEF PipFails
<1>6. CASE PostCheck
  <2>1. cmd.pc = "verify" /\ UNCHANGED site
    BY <1>6 DEF PostCheck, At
  <2>2. \A p \in Package : Working(p)' <=> Working(p)
    BY <1>6, <2>1, PostChecked DEF Working, The
  <2>3. cmd.verify /\ cmd'.pc = "next" => Verified(site[The.pkg], The)'
    <3>1. The' = Head(cmd'.todo) /\ The.pkg = The'.pkg
      BY <1>6, PostChecked DEF The
    <3> QED
      BY <1>6, <2>1, <3>1, PostChecked DEF Verified
  <2>4. /\ cmd'.pc \in {"next", "quarantine"} /\ cmd'.done = cmd.done
        /\ cmd'.op = cmd.op /\ cmd'.verify = cmd.verify /\ cmd'.ok = cmd.ok
    BY <1>6, PostChecked
  <2> QED
    BY <1>d, <2>1, <2>2, <2>3, <2>4 DEF Pins, Verifying
<1>7. CASE Quarantine
  BY <1>7, <1>c DEF Quarantine
<1>8. CASE NextSpec
  <2>1. /\ cmd.pc = "next" /\ cmd.todo # <<>> /\ UNCHANGED site
        /\ cmd'.op = cmd.op /\ cmd'.verify = cmd.verify /\ cmd'.ok = cmd.ok
        /\ \/ cmd'.pc = "save" /\ cmd'.done = cmd.done /\ cmd'.todo = cmd.todo
           \/ cmd'.pc = "check" /\ cmd'.done = Append(cmd.done, The)
    BY <1>8 DEF NextSpec, At, Held, HubTypeOK, Commands
  <2>2. CASE cmd'.pc = "save" /\ cmd'.done = cmd.done /\ cmd'.todo = cmd.todo
    <3>1. The' = The /\ \A p \in Package : Working(p)' <=> Working(p)
      BY <2>1, <2>2 DEF Working, The
    <3>2. Verified(site[The.pkg], The)' <=> Verified(site[The.pkg], The)
      BY <2>1, <3>1 DEF Verified
    <3> QED
      BY <1>d, <2>1, <2>2, <3>1, <3>2 DEF Pins, Verifying
  <2>3. CASE cmd'.pc = "check" /\ cmd'.done = Append(cmd.done, The)
    <3>1. ASSUME Verifying', NEW p \in Package, LastOf(p)' # {}
          PROVE  DigestsOf(site[p])' = LastOf(p)'
      <4>1. Verifying
        BY <2>1, <3>1 DEF Verifying
      <4>2. The \in PluginSpec /\ cmd.done \in Seq(PluginSpec)
        BY <2>1, TheSpec DEF HubTypeOK, Commands
      <4>3. PICK s : s = The
        OBVIOUS
      <4>4. Of(cmd'.done, p) = Of(Append(cmd.done, s), p)
        BY <2>3, <4>3
      <4>5. DigestsOf(site[p])' = DigestsOf(site[p])
        BY <2>1 DEF DigestsOf
      <4>6. CASE s.pkg = p
        <5>1. LastOf(p)' = s.pin
          BY <4>2, <4>3, <4>4, <4>6, LastOfMore
        <5>2. Verified(site[The.pkg], The)
          BY <2>1, <4>1 DEF Pins
        <5> QED
          BY <3>1, <4>3, <4>5, <4>6, <5>1, <5>2 DEF Verified
      <4>7. CASE s.pkg # p
        <5>1. Of(cmd'.done, p) = Of(cmd.done, p)
          BY <4>2, <4>3, <4>4, <4>7, LastOfMore
        <5>2. LastOf(p)' = LastOf(p)
          BY <5>1 DEF LastOf
        <5>3. ~Working(p)
          BY <4>3, <4>7 DEF Working
        <5> QED
          BY <3>1, <4>1, <4>5, <5>2, <5>3 DEF Pins
      <4> QED
        BY <4>6, <4>7
    <3> QED
      BY <2>3, <3>1 DEF Pins
  <2> QED
    BY <2>1, <2>2, <2>3
<1>9. CASE Uninstall
  <2>1. cmd' = NoCommand \/ cmd'.op = "remove"
    BY <1>9 DEF Uninstall, At, Held, HubTypeOK, Commands
  <2> QED
    BY <1>b, <2>1 DEF Pins, Verifying
<1>10. CASE OpenManifest
  <2>1. /\ cmd.pc = "save" /\ cmd'.pc = "write" /\ UNCHANGED site
        /\ cmd'.op = cmd.op /\ cmd'.verify = cmd.verify /\ cmd'.ok = cmd.ok
        /\ cmd'.done = cmd.done /\ cmd'.todo = cmd.todo
    BY <1>10 DEF OpenManifest, At, Held, HubTypeOK, Commands
  <2>2. The' = The /\ \A p \in Package : Working(p)' <=> Working(p)
    BY <2>1 DEF Working, The
  <2>3. Verified(site[The.pkg], The)' <=> Verified(site[The.pkg], The)
    BY <2>1, <2>2 DEF Verified
  <2> QED
    BY <1>d, <2>1, <2>2, <2>3 DEF Pins, Verifying
<1>11. CASE WriteManifest
  <2>1. /\ cmd.pc = "write" /\ cmd'.pc = "check" /\ cmd.todo # <<>> /\ UNCHANGED site
        /\ cmd'.op = cmd.op /\ cmd'.verify = cmd.verify /\ cmd'.ok = cmd.ok
        /\ cmd'.done = <<The>>
    BY <1>11 DEF WriteManifest, At, Held, HubTypeOK, Commands
  <2>2. ASSUME Verifying', NEW p \in Package, LastOf(p)' # {}
        PROVE  DigestsOf(site[p])' = LastOf(p)'
    <3>1. Verified(site[The.pkg], The)
      BY <2>1, <2>2 DEF Pins, Verifying
    <3>2. PICK s : s = The
      OBVIOUS
    <3>3. s \in PluginSpec /\ <<>> \in Seq(PluginSpec) /\ <<s>> = Append(<<>>, s)
      BY <2>1, <3>2, TheSpec, EmptySeq
    <3>4. PICK none : none = <<>>
      OBVIOUS
    <3>5. Of(cmd'.done, p) = Of(Append(none, s), p)
      BY <2>1, <3>2, <3>3, <3>4
    <3>6. CASE s.pkg = p
      <4>1. LastOf(p)' = s.pin
        BY <3>3, <3>4, <3>5, <3>6, LastOfMore
      <4>2. DigestsOf(site[p])' = DigestsOf(site[p])
        BY <2>1 DEF DigestsOf
      <4> QED
        BY <2>2, <3>1, <3>2, <3>6, <4>1, <4>2 DEF Verified
    <3>7. CASE s.pkg # p
      <4>1. Of(cmd'.done, p) = <<>>
        BY <3>3, <3>4, <3>5, <3>7, LastOfMore, EmptyOf
      <4> QED
        BY <2>2, <4>1 DEF LastOf
    <3> QED
      BY <3>6, <3>7
  <2> QED
    BY <2>1, <2>2 DEF Pins
<1>12. CASE Finish
  BY <1>12, <1>b DEF Finish
<1>13. CASE Crash
  BY <1>13, <1>b DEF Crash
<1>14. CASE UNCHANGED <<site, cmd>>
  BY <1>14 DEF Pins, Verifying, Working, Verified, The, LastOf, DigestsOf
<1> QED
  BY <1>1, <1>2, <1>3, <1>4, <1>5, <1>6, <1>7, <1>8, <1>9, <1>10, <1>11, <1>12, <1>13, <1>14
  DEF HubNext, Step, Release, hubVars

-------------------------------------------------------------------------------
(* The theorems of the hub. *)

LEMMA InitHubInv == HubInit => HubInv
<1> SUFFICES ASSUME HubInit
             PROVE  HubInv
  OBVIOUS
<1>1. Held
  BY NoCommandHeld DEF HubInit, Held
<1>2. Pins
  <2>1. cmd.done = <<>> /\ cmd.pc = "idle"
    BY NoCommandHeld DEF HubInit
  <2>2. \A p \in Package : LastOf(p) = {}
    BY <2>1, EmptyOf DEF LastOf
  <2> QED
    BY <2>1, <2>2 DEF Pins
<1>3. Kept
  BY NoCommandHeld DEF HubInit, Kept
<1> QED
  BY <1>1, <1>2, <1>3, HubInitTypeOK DEF HubInv

LEMMA NextHubInv == HubInv /\ [HubNext]_hubVars => HubInv'
  BY HubNextTypeOK, NextHeld, NextPins, NextKept DEF HubInv

LEMMA HubInvariant == HubSpec => []HubInv
  BY InitHubInv, NextHubInv, PTL DEF HubSpec

\* Types of the hub, for any packages, contents and manifests.
THEOREM HubTypeCorrect == HubSpec => []HubTypeOK
<1>1. HubInv => HubTypeOK
  BY DEF HubInv
<1> QED
  BY <1>1, HubInvariant, PTL

\* A verifying command that got through its entries leaves each package with the
\* components its last entry pins, and none of another name, whatever the index
\* served between the download that was checked (pre_install_security_check) and
\* the one pip made, and whichever of two components of one name the code looks at.
THEOREM PinnedIsInstalled == HubSpec => []InstalledAsPinned
<1>1. HubInv => InstalledAsPinned
  <2> SUFFICES ASSUME HubInv, NEW p \in Package, Ended(p)
               PROVE  LastOf(p) \subseteq Has(p) /\ Named(Has(p)) = Named(LastOf(p))
    BY DEF InstalledAsPinned
  <2>1. LastOf(p) # {} /\ DigestsOf(site[p]) = LastOf(p)
    BY DEF HubInv, Pins, Verifying, Working, Ended, At
  <2>2. site[p] \in Content /\ DigestsOf(site[p]) = Recorded[site[p]] /\ Has(p) = Components[site[p]]
    BY <2>1 DEF HubInv, HubTypeOK, DigestsOf, Has
  <2> QED
    BY <2>1, <2>2, PluginHubAssumption DEF Keeps
<1> QED
  BY <1>1, HubInvariant, PTL

\* No add, install or remove takes another package's entries out of the manifest
\* (save_plugins_file), and none takes a manifest it cannot read for an empty one.
THEOREM PinsAreKept == HubSpec => []OthersKeepPins
<1>1. HubInv => OthersKeepPins
  BY DEF HubInv, Kept, OthersKeepPins, At
<1> QED
  BY <1>1, HubInvariant, PTL

-------------------------------------------------------------------------------
(* What a removal removes. *)

LEMMA SiftApart ==
  ASSUME NEW S, NEW specs \in Seq(S), NEW coarse, NEW fine, coarse \cap fine = {}
  PROVE  Sift(Sift(specs, coarse), fine) = <<>>
<1> DEFINE Good == {s \in Seq(S) : Sift(Sift(s, coarse), fine) = <<>>}
<1>1. <<>> \in Good
  BY SiftProperties, EmptySeq
<1>2. ASSUME NEW s \in Good, NEW e \in S
      PROVE  Append(s, e) \in Good
  <2>1. PICK c : c = Sift(s, coarse)
    OBVIOUS
  <2>2. c \in Seq(S) /\ Append(s, e) \in Seq(S) /\ Sift(c, fine) = <<>>
    BY <2>1, SiftProperties, AppendProperties
  <2>3. Sift(Append(s, e), coarse) = IF e \in coarse THEN Append(c, e) ELSE c
    <3>1. \A t \in Seq(S), d \in S : Sift(Append(t, d), coarse) =
             IF d \in coarse THEN Append(Sift(t, coarse), d) ELSE Sift(t, coarse)
      BY SiftProperties
    <3>2. s \in Seq(S)
      OBVIOUS
    <3> QED
      BY <2>1, <3>1, <3>2
  <2>4. e \notin fine => Sift(Append(c, e), fine) = Sift(c, fine)
    <3>1. \A t \in Seq(S), d \in S : Sift(Append(t, d), fine) =
             IF d \in fine THEN Append(Sift(t, fine), d) ELSE Sift(t, fine)
      BY SiftProperties
    <3> QED
      BY <2>2, <3>1
  <2> QED
    BY <2>2, <2>3, <2>4
<1>3. Good = Seq(S)
  <2>1. Good \in SUBSET Seq(S)
    OBVIOUS
  <2> HIDE DEF Good
  <2> QED
    BY <1>1, <1>2, <2>1, SequencesInduct
<1> QED
  BY <1>3

\* By its short name a package is found under both its names.
LEMMA ShortNameFindsAll ==
  ASSUME NEW read \in Seq(PluginSpec), NEW s \in PluginSpec, s.form = "short", cmd.op = "remove"
  PROVE  Of(Updated(read, s), s.pkg) = <<>>
<1>1. PICK coarse : coarse = PluginSpec \ Matching(s)
  OBVIOUS
<1>2. PICK fine : fine = SpecsOf(s.pkg)
  OBVIOUS
<1>3. coarse \cap fine = {}
  BY <1>1, <1>2 DEF Matching, SpecsOf, Forms
<1>4. Sift(read, coarse) \in Seq(PluginSpec) /\ Sift(Sift(read, coarse), fine) = <<>>
  <2>1. Sift(read, coarse) \in Seq(PluginSpec)
    BY SiftProperties
  <2>2. Sift(Sift(read, coarse), fine) = <<>>
    BY <1>3, SiftApart
  <2> QED
    BY <2>1, <2>2
<1>5. Updated(read, s) = Sift(read, coarse)
  BY <1>1, <1>4, ConcatEmptySeq DEF Updated
<1> QED
  BY <1>2, <1>4, <1>5 DEF Of

\* RemovedIsGone, of packages that were typed by their short names.
RemovedByShortName ==
  cmd.op = "remove" /\ At("check") /\ cmd.save =>
    \A k \in DOMAIN cmd.done :
      cmd.done[k].form = "short" => Of(manifest, cmd.done[k].pkg) = <<>>

LEMMA NextRemoved ==
  HubTypeOK /\ Held /\ RemovedByShortName /\ [HubNext]_hubVars => RemovedByShortName'
<1> SUFFICES ASSUME HubTypeOK, Held, RemovedByShortName, [HubNext]_hubVars
             PROVE  RemovedByShortName'
  OBVIOUS
<1>a. ASSUME \/ cmd'.op # "remove" \/ cmd'.pc # "check" \/ ~cmd'.save \/ cmd'.done = <<>>
      PROVE  RemovedByShortName'
  BY <1>a DEF RemovedByShortName, At
<1>b. ASSUME cmd' = NoCommand \/ GiveUp
      PROVE  RemovedByShortName'
  BY <1>a, <1>b, GivenUp, NoCommandHeld
<1>1. CASE Command
  BY <1>1, <1>a, Begun
<1>2. CASE PreCheck
  <2>1. GiveUp \/ cmd' = [cmd EXCEPT !.pc = "pip"]
    BY <1>2 DEF PreCheck
  <2>2. cmd' = [cmd EXCEPT !.pc = "pip"] => cmd'.pc = "pip"
    BY DEF HubTypeOK, Commands
  <2> QED
    BY <1>a, <1>b, <2>1, <2>2
<1>3. CASE DownloadFails \/ PipFails \/ Quarantine \/ Finish \/ Crash
  BY <1>3, <1>b DEF DownloadFails, PipFails, Quarantine, Finish, Crash
<1>4. CASE PipInstall \/ OpenManifest
  BY <1>4, <1>a DEF PipInstall, OpenManifest, HubTypeOK, Commands
<1>5. CASE PostCheck
  BY <1>5, <1>a, PostChecked
<1>6. CASE NextSpec
  BY <1>6, <1>a DEF NextSpec, HubTypeOK, Commands
<1>7. CASE Uninstall
  <2>1. cmd' = NoCommand \/ cmd'.pc = "save" \/ ~cmd'.save
    BY <1>7 DEF Uninstall, HubTypeOK, Commands
  <2> QED
    BY <1>a, <1>b, <2>1
<1>8. CASE WriteManifest
  <2>1. PICK s : s = The
    OBVIOUS
  <2>2. s \in PluginSpec /\ cmd.read \in Seq(PluginSpec)
    BY <1>8, <2>1, TheSpec DEF WriteManifest, At, Held, HubTypeOK, Commands
  <2>3. manifest' = Updated(cmd.read, s) /\ cmd'.op = cmd.op /\ cmd'.done = <<s>>
    BY <1>8, <2>1 DEF WriteManifest, HubTypeOK, Commands
  <2>4. cmd.op = "remove" /\ s.form = "short" => Of(manifest', s.pkg) = <<>>
    BY <2>2, <2>3, ShortNameFindsAll
  <2>5. \A k \in DOMAIN cmd'.done : cmd'.done[k] = s
    BY <2>3
  <2> QED
    BY <2>3, <2>4, <2>5 DEF RemovedByShortName
<1>9. CASE UNCHANGED <<manifest, cmd>>
  BY <1>9 DEF RemovedByShortName, At
<1> QED
  BY <1>1, <1>2, <1>3, <1>4, <1>5, <1>6, <1>7, <1>8, <1>9 DEF HubNext, Step, Release, hubVars

\* A remove --save that ends well leaves no entry of a package that was typed by
\* its short name (_cmd_plugins_remove); by the full one it may, as RemovedIsGone
\* says.
THEOREM ShortNameRemoves == HubSpec => []RemovedByShortName
<1>1. HubInit => RemovedByShortName
  BY NoCommandHeld DEF HubInit, RemovedByShortName
<1>2. HubInv => HubTypeOK /\ Held
  BY DEF HubInv
<1> QED
  BY <1>1, <1>2, NextRemoved, HubInvariant, PTL DEF HubSpec

===============================================================================
