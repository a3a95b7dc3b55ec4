--------------------------- MODULE DownloadProofs ---------------------------
(***************************************************************************)
(* Proofs about what guards a download: the disk budget it must pass        *)
(* (DiskReserve) and the rules that may reject it (DownloadWatch).          *)
(*                                                                          *)
(* Sums over a finite set come first: the disk invariants are made of them. *)
(* Each fact is an induction over the subsets of that set, stated as the    *)
(* absence of a smallest counterexample.  Then the reservation counter      *)
(* balances, and the pre-flight check keeps its promise as long as checks   *)
(* do not overlap, for any set of jobs, sizes, limits and capacity.  Last,  *)
(* a rule rejects only downloads that deserve it, and not unannounced, for  *)
(* any timeouts, thresholds, sizes and settings.                            *)
(***************************************************************************)
EXTENDS DiskReserve, DownloadWatch, FiniteSetTheorems, TLAPS

(* A non-empty family of subsets of a finite set has a minimal member.      *)
LEMMA SmallestSubset ==
    ASSUME NEW D, IsFiniteSet(D), NEW F \in SUBSET (SUBSET D), F # {}
    PROVE  \E s \in F : \A u \in SUBSET s : u # s => u \notin F
<1>1. IsWellFoundedOn(StrictSubsetOrdering(D), SUBSET D)
  BY FS_StrictSubsetOrderingWellFounded, FS_FiniteSubsetsOfFinite
<1>2. PICK s \in F : \A u \in F : ~(<<u, s>> \in StrictSubsetOrdering(D))
  BY <1>1, WFMin
<1>3. ASSUME NEW u \in SUBSET s, u # s, u \in F
      PROVE  FALSE
  <2>1. <<u, s>> \in StrictSubsetOrdering(D)
    BY <1>3 DEF StrictSubsetOrdering
  <2>2. QED BY <1>2, <1>3, <2>1
<1>4. QED BY <1>2, <1>3

(* The order in which SumFunction takes the elements of a set, and what its *)
(* table of partial sums satisfies.                                         *)
Pick(s) == CHOOSE x \in s : TRUE
PartialSums(w, D, g) ==
    g = [s \in SUBSET D |-> IF s = {} THEN 0 ELSE w[Pick(s)] + g[s \ {Pick(s)}]]

LEMMA PickIsMember ==
    ASSUME NEW s, s # {}
    PROVE  Pick(s) \in s /\ s \ {Pick(s)} \in SUBSET s /\ s \ {Pick(s)} # s
<1>1. Pick(s) \in s
  BY DEF Pick
<1>2. QED BY <1>1

(* Tables agree where both are defined.                                     *)
LEMMA PartialSumsAgree ==
    ASSUME NEW D, IsFiniteSet(D), NEW E \in SUBSET D, NEW w,
           NEW g, PartialSums(w, D, g), NEW h, PartialSums(w, E, h)
    PROVE  \A s \in SUBSET E : g[s] = h[s]
<1> DEFINE F == {s \in SUBSET E : g[s] # h[s]}
<1>1. SUFFICES ASSUME F # {} PROVE FALSE
  OBVIOUS
<1>2. PICK s \in F : \A u \in SUBSET s : u # s => u \notin F
  <2>1. F \in SUBSET (SUBSET D)
    OBVIOUS
  <2> HIDE DEF F
  <2>2. QED BY <1>1, <2>1, SmallestSubset
<1>3. s \in SUBSET E /\ s \in SUBSET D /\ g[s] # h[s]
  OBVIOUS
<1>4. g[s] = IF s = {} THEN 0 ELSE w[Pick(s)] + g[s \ {Pick(s)}]
  BY <1>3 DEF PartialSums
<1>5. h[s] = IF s = {} THEN 0 ELSE w[Pick(s)] + h[s \ {Pick(s)}]
  BY <1>3 DEF PartialSums
<1>6. CASE s = {}
  BY <1>3, <1>4, <1>5, <1>6
<1>7. CASE s # {}
  <2>1. s \ {Pick(s)} \notin F
    BY <1>2, <1>7, PickIsMember
  <2>2. g[s \ {Pick(s)}] = h[s \ {Pick(s)}]
    BY <2>1, <1>3
  <2>3. QED BY <1>3, <1>4, <1>5, <1>7, <2>2
<1>8. QED BY <1>6, <1>7

(* Every finite set has a table: a smallest one without would get it from   *)
(* the tables of its proper subsets.                                        *)
LEMMA PartialSumsExist ==
    ASSUME NEW D, IsFiniteSet(D), NEW w
    PROVE  \E g : PartialSums(w, D, g)
<1> DEFINE Lacks == {s \in SUBSET D : ~\E g : PartialSums(w, s, g)}
<1>1. SUFFICES ASSUME Lacks # {} PROVE FALSE
  BY D \in SUBSET D
<1>2. PICK e \in Lacks : \A u \in SUBSET e : u # e => u \notin Lacks
  <2>1. Lacks \in SUBSET (SUBSET D)
    OBVIOUS
  <2> HIDE DEF Lacks
  <2>2. QED BY <1>1, <2>1, SmallestSubset
<1> DEFINE H(u) == CHOOSE g : PartialSums(w, u, g)
           k == [u \in SUBSET e |-> IF u = e THEN 0 ELSE H(u)[u]]
           h == [u \in SUBSET e |->
                   IF u = e THEN IF e = {} THEN 0 ELSE w[Pick(e)] + k[e \ {Pick(e)}]
                   ELSE k[u]]
<1>3. ASSUME NEW u \in SUBSET e, u # e
      PROVE  PartialSums(w, u, H(u)) /\ IsFiniteSet(u)
  <2>1. u \in SUBSET D /\ u \notin Lacks
    BY <1>2, <1>3
  <2>2. \E g : PartialSums(w, u, g)
    BY <2>1
  <2>3. PartialSums(w, u, H(u))
    BY <2>2
  <2>4. QED BY <2>1, <2>3, FS_Subset
<1>4. ASSUME NEW s \in SUBSET e
      PROVE  h[s] = IF s = {} THEN 0 ELSE w[Pick(s)] + h[s \ {Pick(s)}]
  <2>1. CASE s = e
    <3>1. CASE e = {}
      BY <2>1, <3>1
    <3>2. CASE e # {}
      <4>1. e \ {Pick(e)} \in SUBSET e /\ e \ {Pick(e)} # e
        BY <3>2, PickIsMember
      <4>2. h[e \ {Pick(e)}] = k[e \ {Pick(e)}]
        BY <4>1
      <4>3. h[e] = w[Pick(e)] + k[e \ {Pick(e)}]
        BY <3>2
      <4> HIDE DEF h, k
      <4>4. QED BY <2>1, <3>2, <4>2, <4>3
    <3>3. QED BY <3>1, <3>2
  <2>2. CASE s # e
    <3>1. PartialSums(w, s, H(s)) /\ IsFiniteSet(s) /\ h[s] = H(s)[s]
      BY <1>3, <2>2
    <3> DEFINE r == s \ {Pick(s)}
               G == H(s)
    <3>2. G[s] = IF s = {} THEN 0 ELSE w[Pick(s)] + G[r]
      <4> HIDE DEF G
      <4>1. PartialSums(w, s, G) /\ s \in SUBSET s
        BY <3>1 DEF G
      <4>2. QED BY <4>1 DEF PartialSums
    <3>3. CASE s = {}
      BY <3>1, <3>2, <3>3
    <3>4. CASE s # {}
      <4>1. r \in SUBSET s /\ r # s /\ r \in SUBSET e /\ r # e
        BY <3>4, <2>2, PickIsMember
      <4>2. PartialSums(w, r, H(r)) /\ h[r] = H(r)[r]
        BY <4>1, <1>3
      <4>3. G[r] = H(r)[r]
        <5> HIDE DEF H
        <5>1. r \in SUBSET r
          OBVIOUS
        <5>2. \A x \in SUBSET r : H(s)[x] = H(r)[x]
          BY <3>1, <4>1, <4>2, PartialSumsAgree
        <5>3. QED BY <5>1, <5>2
      <4> HIDE DEF H, h, r, G
      <4>4. QED BY <3>1, <3>2, <3>4, <4>2, <4>3 DEF r, G
    <3>5. QED BY <3>3, <3>4
  <2>3. QED BY <2>1, <2>2
<1>5. h = [s \in SUBSET e |-> IF s = {} THEN 0 ELSE w[Pick(s)] + h[s \ {Pick(s)}]]
  <2>1. h = [s \in SUBSET e |-> h[s]]
    OBVIOUS
  <2> HIDE DEF h
  <2>2. QED BY <1>4, <2>1
<1>6. PartialSums(w, e, h)
  BY <1>5 DEF PartialSums
<1>7. QED BY <1>6

(* What SumFunction computes.                                               *)
LEMMA SumIsPartialSum ==
    ASSUME NEW w, IsFiniteSet(DOMAIN w)
    PROVE  \E g : PartialSums(w, DOMAIN w, g) /\ SumFunction(w) = g[DOMAIN w]
<1> DEFINE S == DOMAIN w
           c == CHOOSE g : PartialSums(w, S, g)
<1>1. PartialSums(w, S, c)
  BY PartialSumsExist
<1>2. SumFunction(w) = c[S]
  BY DEF SumFunction, SumFunctionOnSet, FoldFunctionOnSet, MapThenFoldSet,
         PartialSums, Pick
<1>3. QED BY <1>1, <1>2

(* A partial sum of naturals is a natural no smaller than any of its terms, *)
(* and 0 if they all are.                                                   *)
LEMMA PartialSumBounds ==
    ASSUME NEW D, IsFiniteSet(D), NEW w \in [D -> Nat], NEW g, PartialSums(w, D, g)
    PROVE  \A s \in SUBSET D : /\ g[s] \in Nat
                               /\ \A t \in s : w[t] <= g[s]
                               /\ (\A t \in s : w[t] = 0) => g[s] = 0
<1> DEFINE Good(s) == /\ g[s] \in Nat
                      /\ \A t \in s : w[t] <= g[s]
                      /\ (\A t \in s : w[t] = 0) => g[s] = 0
           F == {s \in SUBSET D : ~Good(s)}
<1>1. SUFFICES ASSUME F # {} PROVE FALSE
  OBVIOUS
<1>2. PICK s \in F : \A u \in SUBSET s : u # s => u \notin F
  <2>1. F \in SUBSET (SUBSET D)
    OBVIOUS
  <2> HIDE DEF F
  <2>2. QED BY <1>1, <2>1, SmallestSubset
<1>3. s \in SUBSET D /\ ~Good(s)
  BY <1>2
<1>4. g[s] = IF s = {} THEN 0 ELSE w[Pick(s)] + g[s \ {Pick(s)}]
  BY <1>3 DEF PartialSums
<1>5. CASE s = {}
  BY <1>3, <1>4, <1>5
<1>6. CASE s # {}
  <2> DEFINE p == Pick(s)
             r == s \ {p}
  <2>1. p \in s /\ p \in D /\ w[p] \in Nat /\ r \in SUBSET D
    BY <1>3, <1>6, PickIsMember
  <2>2. Good(r)
    <3>1. r \notin F
      BY <1>2, <1>6, PickIsMember
    <3>2. QED BY <2>1, <3>1
  <2>3. g[s] = w[p] + g[r]
    BY <1>4, <1>6
  <2> HIDE DEF p
  <2>4. g[s] \in Nat
    BY <2>1, <2>2, <2>3
  <2>5. \A t \in s : w[t] <= g[s]
    <3>1. SUFFICES ASSUME NEW t \in s PROVE w[t] <= g[s]
      OBVIOUS
    <3>2. t \in D /\ w[t] \in Nat
      BY <1>3
    <3>3. CASE t = p
      BY <2>1, <2>2, <2>3, <3>2, <3>3
    <3>4. CASE t \in r
      BY <2>1, <2>2, <2>3, <3>2, <3>4
    <3>5. QED BY <3>3, <3>4
  <2>6. (\A t \in s : w[t] = 0) => g[s] = 0
    BY <2>1, <2>2, <2>3
  <2>7. QED BY <1>3, <2>4, <2>5, <2>6
<1>7. QED BY <1>5, <1>6

LEMMA SumBounds ==
    ASSUME NEW D, IsFiniteSet(D), NEW w \in [D -> Nat]
    PROVE  /\ SumFunction(w) \in Nat
           /\ \A t \in D : w[t] <= SumFunction(w)
           /\ (\A t \in D : w[t] = 0) => SumFunction(w) = 0
<1>1. DOMAIN w = D
  OBVIOUS
<1>2. PICK g : PartialSums(w, D, g) /\ SumFunction(w) = g[D]
  BY <1>1, SumIsPartialSum
<1>3. D \in SUBSET D
  OBVIOUS
<1>4. QED BY <1>2, <1>3, PartialSumBounds

(* Changing one term changes the sum by as much.                            *)
LEMMA PartialSumChange ==
    ASSUME NEW D, IsFiniteSet(D), NEW w \in [D -> Nat], NEW v \in [D -> Nat],
           NEW t \in D, \A u \in D \ {t} : v[u] = w[u],
           NEW g, PartialSums(w, D, g), NEW h, PartialSums(v, D, h)
    PROVE  \A s \in SUBSET D : h[s] = g[s] + (IF t \in s THEN v[t] - w[t] ELSE 0)
<1> DEFINE Good(s) == h[s] = g[s] + (IF t \in s THEN v[t] - w[t] ELSE 0)
           F == {s \in SUBSET D : ~Good(s)}
<1>1. SUFFICES ASSUME F # {} PROVE FALSE
  OBVIOUS
<1>2. PICK s \in F : \A u \in SUBSET s : u # s => u \notin F
  <2>1. F \in SUBSET (SUBSET D)
    OBVIOUS
  <2> HIDE DEF F
  <2>2. QED BY <1>1, <2>1, SmallestSubset
<1>3. s \in SUBSET D /\ ~Good(s)
  BY <1>2
<1>4. g[s] = IF s = {} THEN 0 ELSE w[Pick(s)] + g[s \ {Pick(s)}]
  BY <1>3 DEF PartialSums
<1>5. h[s] = IF s = {} THEN 0 ELSE v[Pick(s)] + h[s \ {Pick(s)}]
  BY <1>3 DEF PartialSums
<1>6. CASE s = {}
  BY <1>3, <1>4, <1>5, <1>6
<1>7. CASE s # {}
  <2> DEFINE p == Pick(s)
             r == s \ {p}
  <2>1. p \in s /\ p \in D /\ r \in SUBSET D
    BY <1>3, <1>7, PickIsMember
  <2>2. Good(r)
    <3>1. r \notin F
      BY <1>2, <1>7, PickIsMember
    <3>2. QED BY <2>1, <3>1
  <2>3. g[s] = w[p] + g[r] /\ h[s] = v[p] + h[r]
    BY <1>4, <1>5, <1>7
  <2>4. g[r] \in Nat /\ h[r] \in Nat
    BY <2>1, PartialSumBounds
  <2> HIDE DEF p
  <2>5. w[p] \in Nat /\ v[p] \in Nat /\ w[t] \in Nat /\ v[t] \in Nat
    BY <2>1
  <2>6. CASE p = t
    BY <1>3, <2>1, <2>2, <2>3, <2>4, <2>5, <2>6
  <2>7. CASE p # t
    BY <1>3, <2>1, <2>2, <2>3, <2>4, <2>5, <2>7
  <2>8. QED BY <2>6, <2>7
<1>8. QED BY <1>6, <1>7

LEMMA SumChange ==
    ASSUME NEW D, IsFiniteSet(D), NEW w \in [D -> Nat], NEW v \in [D -> Nat],
           NEW t \in D, \A u \in D \ {t} : v[u] = w[u]
    PROVE  SumFunction(v) = SumFunction(w) + (v[t] - w[t])
<1>1. DOMAIN w = D /\ DOMAIN v = D /\ D \in SUBSET D
  OBVIOUS
<1>2. PICK g : PartialSums(w, D, g) /\ SumFunction(w) = g[D]
  BY <1>1, SumIsPartialSum
<1>3. PICK h : PartialSums(v, D, h) /\ SumFunction(v) = h[D]
  BY <1>1, SumIsPartialSum
<1>4. h[D] = g[D] + (IF t \in D THEN v[t] - w[t] ELSE 0)
  BY <1>1, <1>2, <1>3, PartialSumChange
<1>5. QED BY <1>2, <1>3, <1>4

-----------------------------------------------------------------------------
(* The invariant behind ReservationsBalance. Types of all but the counter;  *)
(* a job has a map entry only between the two calls, and holds a deleted    *)
(* one only before it subtracts it; the counter is what it owes to the      *)
(* jobs. That the counter never goes below 0 follows from the last.         *)
Typed ==
    /\ pc \in [Tasks -> Phases]
    /\ size \in [Tasks -> Sizes]
    /\ reservations \in [Tasks -> Nat]
    /\ reserve \in [Tasks -> Nat]
    /\ written \in [Tasks -> Nat]
    /\ diskMax \in Nat

Entries ==
    \A t \in Tasks :
        /\ reservations[t] # 0 => pc[t] \in {"download", "stage", "staged", "deleting"}
        /\ reserve[t] # 0 => pc[t] = "subtracting"

Balanced == diskReserved = SumFunction(Owed)

Budget == Typed /\ Entries /\ Balanced

(* A requirement is positive: CheckOk never succeeds on no free space.      *)
LEMMA NeedIsPositive ==
    ASSUME NEW n \in Nat \ {0}
    PROVE  Need(n) \in Nat /\ Need(n) > 0
BY DEF Need

LEMMA SizesArePositive ==
    ASSUME Typed, NEW t \in Tasks
    PROVE  size[t] \in Nat \ {0} /\ Need(size[t]) \in Nat /\ Need(size[t]) > 0
<1>1. size[t] \in Nat \ {0}
  BY DiskAssumption DEF DiskAssumption, Typed
<1>2. QED BY <1>1, NeedIsPositive

LEMMA OwedType ==
    Typed => Owed \in [Tasks -> Nat] /\ Passed \in [Tasks -> Nat]
<1>1. SUFFICES ASSUME Typed PROVE Owed \in [Tasks -> Nat] /\ Passed \in [Tasks -> Nat]
  OBVIOUS
<1>2. \A t \in Tasks : Need(size[t]) \in Nat
  BY <1>1, SizesArePositive
<1>3. QED BY <1>1, <1>2 DEF Owed, Passed, Typed

LEMMA BudgetInit == Init => Budget
<1>1. SUFFICES ASSUME Init PROVE Budget
  OBVIOUS
<1>2. Typed
  BY <1>1 DEF Init, Typed, Phases
<1>3. Entries
  BY <1>1 DEF Init, Entries
<1>4. \A t \in Tasks : Owed[t] = 0
  BY <1>1 DEF Init, Owed
<1>5. Balanced
  BY <1>1, <1>2, <1>4, OwedType, SumBounds, DiskAssumption
  DEF Balanced, Init, DiskAssumption
<1>6. QED BY <1>2, <1>3, <1>5 DEF Budget

LEMMA TypedStep == Typed /\ [Next]_vars => Typed'
<1>1. SUFFICES ASSUME Typed, [Next]_vars PROVE Typed'
  OBVIOUS
<1>2. \A t \in Tasks : size[t] \in Nat /\ Need(size[t]) \in Nat
  BY <1>1, SizesArePositive
<1> USE <1>1 DEF Typed, Phases, Step
<1>3. CASE UNCHANGED vars
  BY <1>3 DEF vars, budgetVars
<1>4. ASSUME NEW max \in Limits, InitDiskLimit(max) PROVE Typed'
  BY <1>4, DiskAssumption DEF InitDiskLimit, budgetVars, DiskAssumption
<1>5. ASSUME NEW t \in Tasks, Accept(t) \/ CheckOk(t) \/ CheckUnknown(t) \/ CheckFails(t)
                                \/ FromTorrentFile(t) PROVE Typed'
  BY <1>5 DEF Accept, CheckOk, CheckUnknown, CheckFails, FromTorrentFile, budgetVars
<1>6. ASSUME NEW t \in Tasks, ReserveAdd(t) \/ ReserveMap(t) PROVE Typed'
  BY <1>2, <1>6 DEF ReserveAdd, ReserveMap
<1>7. ASSUME NEW t \in Tasks, Download(t) \/ Stage(t) \/ Finish(t) PROVE Typed'
  BY <1>2, <1>7 DEF Download, Stage, Finish, budgetVars
<1>8. ASSUME NEW t \in Tasks, DownloadFails(t) PROVE Typed'
  <2>1. PICK left \in written[t]..size[t] : written' = [written EXCEPT ![t] = left]
    BY <1>8 DEF DownloadFails
  <2>2. left \in Nat
    BY <1>2
  <2>3. QED BY <1>8, <2>1, <2>2 DEF DownloadFails, budgetVars
<1>9. ASSUME NEW t \in Tasks, ReleaseDelete(t) \/ ReleaseSubtract(t) PROVE Typed'
  BY <1>9 DEF ReleaseDelete, ReleaseSubtract
<1>10. QED BY <1>1, <1>3, <1>4, <1>5, <1>6, <1>7, <1>8, <1>9 DEF Next

LEMMA EntriesStep == Typed /\ Entries /\ [Next]_vars => Entries'
<1>1. SUFFICES ASSUME Typed, Entries, [Next]_vars PROVE Entries'
  OBVIOUS
<1> USE <1>1 DEF Typed, Entries, Step
<1>3. CASE UNCHANGED vars
  BY <1>3 DEF vars, budgetVars
<1>4. ASSUME NEW max \in Limits, InitDiskLimit(max) PROVE Entries'
  BY <1>4 DEF InitDiskLimit, budgetVars
<1>5. ASSUME NEW t \in Tasks, Accept(t) \/ CheckOk(t) \/ CheckUnknown(t) \/ CheckFails(t)
                                \/ FromTorrentFile(t) PROVE Entries'
  BY <1>5 DEF Accept, CheckOk, CheckUnknown, CheckFails, FromTorrentFile, budgetVars
<1>6. ASSUME NEW t \in Tasks, ReserveAdd(t) \/ ReserveMap(t) PROVE Entries'
  BY <1>6 DEF ReserveAdd, ReserveMap
<1>7. ASSUME NEW t \in Tasks, Download(t) \/ DownloadFails(t) \/ Stage(t) \/ Finish(t)
      PROVE Entries'
  BY <1>7 DEF Download, DownloadFails, Stage, Finish, budgetVars
<1>8. ASSUME NEW t \in Tasks, ReleaseDelete(t) \/ ReleaseSubtract(t) PROVE Entries'
  BY <1>8 DEF ReleaseDelete, ReleaseSubtract
<1>9. QED BY <1>1, <1>3, <1>4, <1>5, <1>6, <1>7, <1>8 DEF Next

(* Only ReserveDisk's first half and ReleaseDisk's second change what is    *)
(* owed, each by what it adds to or takes from the counter; moving an       *)
(* amount into the map or out of it changes nothing.                        *)
LEMMA OwedStep ==
    ASSUME Typed, Typed', Entries, NEW t \in Tasks, NEW n \in Nat, NEW m \in Nat,
           \A u \in Tasks \ {t} : Owed'[u] = Owed[u],
           Owed'[t] + m = Owed[t] + n
    PROVE  (SumFunction(Owed))' + m = SumFunction(Owed) + n
<1>1. Owed \in [Tasks -> Nat] /\ Owed' \in [Tasks -> Nat]
  <2>1. (Typed => Owed \in [Tasks -> Nat] /\ Passed \in [Tasks -> Nat])'
    BY OwedType, PTL
  <2>2. QED BY OwedType, <2>1
<1>2. SumFunction(Owed) \in Nat /\ SumFunction(Owed') \in Nat
  BY <1>1, SumBounds, DiskAssumption DEF DiskAssumption
<1>3. SumFunction(Owed') = SumFunction(Owed) + (Owed'[t] - Owed[t])
  <2> DEFINE w == Owed
             v == Owed'
  <2>1. w \in [Tasks -> Nat] /\ v \in [Tasks -> Nat] /\ \A u \in Tasks \ {t} : v[u] = w[u]
    BY <1>1
  <2> HIDE DEF w, v
  <2>2. SumFunction(v) = SumFunction(w) + (v[t] - w[t])
    BY <2>1, SumChange, DiskAssumption DEF DiskAssumption
  <2>3. QED BY <2>2 DEF w, v
<1>4. Owed[t] \in Nat /\ Owed'[t] \in Nat
  BY <1>1
<1> HIDE DEF Owed
<1>5. QED BY <1>2, <1>3, <1>4

LEMMA BalancedStep == Budget /\ [Next]_vars => Balanced'
<1>1. SUFFICES ASSUME Typed, Entries, Balanced, [Next]_vars PROVE Balanced'
  BY DEF Budget
<1>2. Typed' /\ Entries'
  BY <1>1, TypedStep, EntriesStep
<1>3. \A t \in Tasks : Need(size[t]) \in Nat /\ Need(size[t]) > 0
  BY <1>1, SizesArePositive
<1>4. SumFunction(Owed) \in Nat
  BY <1>1, OwedType, SumBounds, DiskAssumption DEF DiskAssumption
<1>5. ASSUME Owed' = Owed, diskReserved' = diskReserved PROVE Balanced'
  BY <1>1, <1>5 DEF Balanced
<1>6. CASE UNCHANGED vars
  <2>1. Owed' = Owed /\ diskReserved' = diskReserved
    BY <1>6 DEF vars, budgetVars, Owed
  <2>2. QED BY <1>5, <2>1
<1>7. ASSUME NEW max \in Limits, InitDiskLimit(max) PROVE Balanced'
  <2>1. Owed' = Owed /\ diskReserved' = diskReserved
    BY <1>7 DEF InitDiskLimit, budgetVars, Owed
  <2>2. QED BY <1>5, <2>1
<1>8. ASSUME NEW t \in Tasks, Accept(t) \/ CheckOk(t) \/ CheckUnknown(t) \/ CheckFails(t)
                                \/ FromTorrentFile(t) PROVE Balanced'
  <2>1. \A u \in Tasks : pc'[u] = "mapping" <=> pc[u] = "mapping"
    BY <1>1, <1>8 DEF Typed, Accept, CheckOk, CheckUnknown, CheckFails, FromTorrentFile, Step
  <2>2. UNCHANGED <<reservations, reserve, size, diskReserved>>
    BY <1>8 DEF Accept, CheckOk, CheckUnknown, CheckFails, FromTorrentFile, budgetVars
  <2>3. Owed' = Owed
    BY <2>1, <2>2 DEF Owed
  <2>4. QED BY <1>5, <2>2, <2>3
<1>9. ASSUME NEW t \in Tasks, Download(t) \/ DownloadFails(t) \/ Stage(t) \/ Finish(t)
      PROVE Balanced'
  <2>1. \A u \in Tasks : pc'[u] = "mapping" <=> pc[u] = "mapping"
    BY <1>1, <1>9 DEF Typed, Download, DownloadFails, Stage, Finish, Step
  <2>2. UNCHANGED <<reservations, reserve, size, diskReserved>>
    BY <1>9 DEF Download, DownloadFails, Stage, Finish, budgetVars
  <2>3. Owed' = Owed
    BY <2>1, <2>2 DEF Owed
  <2>4. QED BY <1>5, <2>2, <2>3
<1>10. ASSUME NEW t \in Tasks, ReserveMap(t) PROVE Balanced'
  <2>1. Need(size[t]) \in Nat /\ reservations[t] = 0 /\ reserve[t] = 0
    BY <1>1, <1>3, <1>10 DEF Entries, Typed, ReserveMap, Step
  <2>2. \A u \in Tasks : Owed'[u] = Owed[u]
    BY <1>1, <1>10, <2>1 DEF Owed, ReserveMap, Step, Typed
  <2>3. Owed' = Owed
    BY <2>2 DEF Owed
  <2>4. QED BY <1>5, <1>10, <2>3 DEF ReserveMap
<1>11. ASSUME NEW t \in Tasks, ReleaseDelete(t) PROVE Balanced'
  <2>1. reserve[t] = 0 /\ reservations[t] \in Nat
    BY <1>1, <1>11 DEF Entries, Typed, ReleaseDelete, Step
  <2>2. \A u \in Tasks : Owed'[u] = Owed[u]
    BY <1>1, <1>11, <2>1 DEF Owed, ReleaseDelete, Step, Typed
  <2>3. Owed' = Owed
    BY <2>2 DEF Owed
  <2>4. QED BY <1>5, <1>11, <2>3 DEF ReleaseDelete
<1>12. ASSUME NEW t \in Tasks, ReserveAdd(t) PROVE Balanced'
  <2> DEFINE n == Need(size[t])
  <2>1. n \in Nat /\ reservations[t] = 0 /\ reserve[t] = 0
    BY <1>1, <1>3, <1>12 DEF Entries, Typed, ReserveAdd, Step
  <2> HIDE DEF n
  <2>2. \A u \in Tasks \ {t} : Owed'[u] = Owed[u]
    BY <1>1, <1>12 DEF Owed, ReserveAdd, Step, Typed
  <2>3. Owed'[t] + 0 = Owed[t] + n
    BY <1>1, <1>12, <2>1 DEF Owed, ReserveAdd, Step, Typed, n
  <2>4. (SumFunction(Owed))' + 0 = SumFunction(Owed) + n
    BY <1>1, <1>2, <2>1, <2>2, <2>3, OwedStep
  <2>5. SumFunction(Owed') \in Nat
    <3>1. (Typed => Owed \in [Tasks -> Nat] /\ Passed \in [Tasks -> Nat])'
      BY OwedType, PTL
    <3>2. QED BY <1>2, <3>1, SumBounds, DiskAssumption DEF DiskAssumption
  <2>6. diskReserved' = SumFunction(Owed) + n
    BY <1>1, <1>12 DEF Balanced, ReserveAdd, n
  <2>7. QED BY <1>4, <2>1, <2>4, <2>5, <2>6 DEF Balanced
<1>13. ASSUME NEW t \in Tasks, ReleaseSubtract(t) PROVE Balanced'
  <2> DEFINE m == reserve[t]
  <2>1. m \in Nat /\ reservations[t] \in Nat
    BY <1>1 DEF Typed
  <2> HIDE DEF m
  <2>2. \A u \in Tasks \ {t} : Owed'[u] = Owed[u]
    BY <1>1, <1>13 DEF Owed, ReleaseSubtract, Step, Typed
  <2>3. Owed'[t] + m = Owed[t] + 0
    BY <1>1, <1>13, <2>1 DEF Owed, ReleaseSubtract, Step, Typed, m
  <2>4. (SumFunction(Owed))' + m = SumFunction(Owed) + 0
    BY <1>1, <1>2, <2>1, <2>2, <2>3, OwedStep
  <2>5. SumFunction(Owed') \in Nat
    <3>1. (Typed => Owed \in [Tasks -> Nat] /\ Passed \in [Tasks -> Nat])'
      BY OwedType, PTL
    <3>2. QED BY <1>2, <3>1, SumBounds, DiskAssumption DEF DiskAssumption
  <2>6. diskReserved' = SumFunction(Owed) - m
    BY <1>1, <1>13 DEF Balanced, ReleaseSubtract, m
  <2>7. QED BY <1>4, <2>1, <2>4, <2>5, <2>6 DEF Balanced
<1>14. QED
  BY <1>1, <1>6, <1>7, <1>8, <1>9, <1>10, <1>11, <1>12, <1>13 DEF Next

LEMMA BudgetStep == Budget /\ [Next]_vars => Budget'
BY TypedStep, EntriesStep, BalancedStep DEF Budget

LEMMA BudgetCounter == Budget => diskReserved \in Nat
BY OwedType, SumBounds, DiskAssumption DEF DiskAssumption, Budget, Balanced

(* The history bit is a Boolean.                                            *)
LEMMA RacedStep == raced \in BOOLEAN /\ [Next]_vars => (raced \in BOOLEAN)'
<1>1. SUFFICES ASSUME raced \in BOOLEAN, [Next]_vars PROVE (raced \in BOOLEAN)'
  OBVIOUS
<1>2. ASSUME NEW t \in Tasks, CheckOk(t) PROVE (raced \in BOOLEAN)'
  <2>1. raced' = (raced \/ \E u \in Tasks : pc[u] = "checked")
    BY <1>2 DEF CheckOk
  <2>2. QED BY <2>1, Zenon
<1>3. raced' = raced \/ raced' = TRUE \/ \E t \in Tasks : CheckOk(t)
  BY <1>1 DEF Next, vars, budgetVars, Accept, CheckUnknown, CheckFails, FromTorrentFile,
     ReserveAdd, ReserveMap, Download, DownloadFails, Stage, Finish, ReleaseDelete,
     ReleaseSubtract, InitDiskLimit
<1>4. QED BY <1>1, <1>2, <1>3

(* Nothing leaks from the disk budget and nothing is given back twice,      *)
(* however the halves of ReserveDisk and ReleaseDisk of any number of jobs  *)
(* interleave.                                                              *)
THEOREM CounterBalances == Spec => []ReservationsBalance
<1>1. Init => Budget /\ raced \in BOOLEAN
  <2>1. Init => raced \in BOOLEAN
    BY DEF Init
  <2>2. QED BY <2>1, BudgetInit
<1>2. Budget /\ raced \in BOOLEAN /\ [Next]_vars => Budget' /\ (raced \in BOOLEAN)'
  BY BudgetStep, RacedStep
<1>3. Budget /\ raced \in BOOLEAN => ReservationsBalance
  BY BudgetCounter DEF Budget, Typed, Balanced, ReservationsBalance, TypeOK
<1>4. QED BY <1>1, <1>2, <1>3, PTL DEF Spec

-----------------------------------------------------------------------------
(* Only a check adds to what is promised, and it found that much unreserved *)
(* space on a disk of at most Capacity, with no other check under way.      *)
LEMMA CheckFits ==
    ASSUME Budget, Typed', NEW t \in Tasks, CheckOk(t), ~raced'
    PROVE  Promised' <= Capacity
<1>1. \A u \in Tasks : pc[u] # "checked"
  <2>1. raced' = (raced \/ \E u \in Tasks : pc[u] = "checked")
    BY DEF CheckOk
  <2>2. QED BY <2>1, Zenon
<1>2. /\ Typed /\ diskReserved \in Nat /\ diskReserved' = diskReserved
      /\ Capacity \in Nat /\ Need(size[t]) \in Nat /\ Need(size[t]) > 0
  BY BudgetCounter, SizesArePositive, DiskAssumption
  DEF Budget, CheckOk, budgetVars, DiskAssumption
<1>3. diskReserved + Need(size[t]) <= Capacity
  <2>1. Used \in Nat
    BY <1>2, SumBounds, DiskAssumption DEF Used, Typed, DiskAssumption
  <2>2. FreeDiskSpace \in Nat /\ FreeDiskSpace <= Capacity
    BY <1>2, <2>1 DEF FreeDiskSpace
  <2>3. diskMax \in Nat /\ FreeDiskAfterReservations >= Need(size[t])
    BY <1>2 DEF Typed, CheckOk
  <2> DEFINE n == Need(size[t])
  <2> HIDE DEF n
  <2>4. n \in Nat /\ n > 0 /\ FreeDiskAfterReservations >= n
    BY <1>2, <2>3 DEF n
  <2>5. diskReserved + n <= Capacity
    <3> DEFINE free == IF diskMax = 0 THEN FreeDiskSpace
                       ELSE Least(FreeDiskSpace,
                                  IF Used >= diskMax THEN 0 ELSE diskMax - Used)
    <3>1. free \in Nat /\ free <= Capacity
      BY <1>2, <2>1, <2>2, <2>3 DEF Least
    <3>2. (IF free <= diskReserved THEN 0 ELSE free - diskReserved) >= n
      BY <2>4 DEF FreeDiskAfterReservations
    <3> HIDE DEF free
    <3>3. QED BY <1>2, <2>4, <3>1, <3>2
  <2>6. QED BY <2>5 DEF n
<1>4. SumFunction(Passed') = Need(size[t])
  <2> DEFINE w == Passed
             v == Passed'
             n == Need(size[t])
  <2>1. w \in [Tasks -> Nat] /\ v \in [Tasks -> Nat]
    <3>1. (Typed => Owed \in [Tasks -> Nat] /\ Passed \in [Tasks -> Nat])'
      BY OwedType, PTL
    <3>2. QED BY <1>2, <3>1, OwedType
  <2>2. \A u \in Tasks : w[u] = 0
    BY <1>1 DEF Passed
  <2>3. v[t] = n /\ \A u \in Tasks \ {t} : v[u] = w[u]
    BY <1>2 DEF Passed, CheckOk, Step, Typed
  <2>4. n \in Nat
    BY <1>2
  <2> HIDE DEF w, v, n
  <2>5. SumFunction(w) = 0
    BY <2>1, <2>2, SumBounds, DiskAssumption DEF DiskAssumption
  <2>6. SumFunction(v) = SumFunction(w) + (v[t] - w[t])
    BY <2>1, <2>3, SumChange, DiskAssumption DEF DiskAssumption
  <2>7. SumFunction(v) = n
    BY <2>2, <2>3, <2>4, <2>5, <2>6
  <2>8. QED BY <2>7 DEF v, n
<1>5. QED BY <1>2, <1>3, <1>4 DEF Promised

(* Reserving turns a promise into a reservation of the same amount.         *)
LEMMA ReserveKeepsPromise ==
    ASSUME Budget, Typed', NEW t \in Tasks, ReserveAdd(t)
    PROVE  Promised' = Promised
<1> DEFINE w == Passed
           v == Passed'
           n == Need(size[t])
<1>1. w \in [Tasks -> Nat] /\ v \in [Tasks -> Nat]
  <2>1. (Typed => Owed \in [Tasks -> Nat] /\ Passed \in [Tasks -> Nat])'
    BY OwedType, PTL
  <2>2. QED BY <2>1, OwedType DEF Budget
<1>2. w[t] = n /\ v[t] = 0 /\ \A u \in Tasks \ {t} : v[u] = w[u]
  BY DEF Passed, ReserveAdd, Step, Budget, Typed
<1>3. n \in Nat /\ diskReserved \in Nat /\ diskReserved' = diskReserved + n
  BY SizesArePositive, BudgetCounter DEF Budget, ReserveAdd
<1> HIDE DEF w, v, n
<1>4. SumFunction(v) = SumFunction(w) + (v[t] - w[t])
  BY <1>1, <1>2, SumChange, DiskAssumption DEF DiskAssumption
<1>5. SumFunction(w) \in Nat /\ SumFunction(v) \in Nat
  BY <1>1, SumBounds, DiskAssumption DEF DiskAssumption
<1>6. diskReserved' + SumFunction(v) = diskReserved + SumFunction(w)
  BY <1>2, <1>3, <1>4, <1>5
<1>7. QED BY <1>6 DEF Promised, v, w

LEMMA PromiseStep ==
    Budget /\ NoOvercommitUnlessRaced /\ [Next]_vars => NoOvercommitUnlessRaced'
<1>1. SUFFICES ASSUME Budget, NoOvercommitUnlessRaced, [Next]_vars, ~raced'
               PROVE  Promised' <= Capacity
  BY DEF NoOvercommitUnlessRaced
<1>2. Budget' /\ Typed /\ Typed'
  BY <1>1, BudgetStep DEF Budget
<1>3. /\ diskReserved \in Nat /\ diskReserved' \in Nat /\ Capacity \in Nat
      /\ SumFunction(Passed) \in Nat
  <2>1. (Budget => diskReserved \in Nat)'
    BY BudgetCounter, PTL
  <2>2. QED BY <1>1, <1>2, <2>1, BudgetCounter, OwedType, SumBounds, DiskAssumption
            DEF DiskAssumption
<1>4. ASSUME NEW t \in Tasks, CheckOk(t) PROVE Promised' <= Capacity
  BY <1>1, <1>2, <1>4, CheckFits
<1>5. ASSUME UNCHANGED raced PROVE Promised <= Capacity
  BY <1>1, <1>5, Zenon DEF NoOvercommitUnlessRaced
<1>6. ASSUME NEW t \in Tasks, ReserveAdd(t) PROVE Promised' <= Capacity
  <2>1. Promised' = Promised
    BY <1>1, <1>2, <1>6, ReserveKeepsPromise
  <2>2. QED BY <1>5, <1>6, <2>1 DEF ReserveAdd
<1>7. ASSUME UNCHANGED raced, Passed' = Passed, diskReserved' <= diskReserved
      PROVE  Promised' <= Capacity
  <2>1. diskReserved + SumFunction(Passed) <= Capacity
    BY <1>5, <1>7 DEF Promised
  <2>2. diskReserved' + SumFunction(Passed) <= Capacity
    BY <1>3, <1>7, <2>1
  <2>3. QED BY <1>7, <2>2 DEF Promised
<1>8. CASE UNCHANGED vars
  <2>1. UNCHANGED raced /\ Passed' = Passed /\ diskReserved' = diskReserved
    BY <1>8 DEF vars, budgetVars, Passed
  <2>2. QED BY <1>3, <1>7, <2>1
<1>9. ASSUME NEW max \in Limits, InitDiskLimit(max) PROVE Promised' <= Capacity
  <2>1. UNCHANGED raced /\ Passed' = Passed /\ diskReserved' = diskReserved
    BY <1>9 DEF InitDiskLimit, budgetVars, Passed
  <2>2. QED BY <1>3, <1>7, <2>1
<1>10. ASSUME NEW t \in Tasks, CheckUnknown(t) \/ FromTorrentFile(t)
       PROVE  Promised' <= Capacity
  BY <1>1, <1>10 DEF CheckUnknown, FromTorrentFile
<1>11. ASSUME NEW t \in Tasks,
              \/ Accept(t) \/ CheckFails(t) \/ ReserveMap(t) \/ Download(t)
              \/ DownloadFails(t) \/ Stage(t) \/ Finish(t) \/ ReleaseDelete(t)
       PROVE  Promised' <= Capacity
  <2>1. UNCHANGED <<raced, size>> /\ diskReserved' = diskReserved
    BY <1>11 DEF Accept, CheckFails, ReserveMap, Download, DownloadFails, Stage, Finish,
                 ReleaseDelete, budgetVars
  <2>2. \A u \in Tasks : pc'[u] = "checked" <=> pc[u] = "checked"
    BY <1>2, <1>11 DEF Accept, CheckFails, ReserveMap, Download, DownloadFails, Stage,
                       Finish, ReleaseDelete, Step, Typed
  <2>3. Passed' = Passed
    BY <2>1, <2>2 DEF Passed
  <2>4. QED BY <1>3, <1>7, <2>1, <2>3
<1>12. ASSUME NEW t \in Tasks, ReleaseSubtract(t) PROVE Promised' <= Capacity
  <2>1. UNCHANGED <<raced, size>> /\ diskReserved' <= diskReserved
    BY <1>2, <1>3, <1>12 DEF ReleaseSubtract, Typed
  <2>2. \A u \in Tasks : pc'[u] = "checked" <=> pc[u] = "checked"
    BY <1>2, <1>12 DEF ReleaseSubtract, Step, Typed
  <2>3. Passed' = Passed
    BY <2>1, <2>2 DEF Passed
  <2>4. QED BY <1>7, <2>1, <2>3
<1>13. QED
  BY <1>1, <1>4, <1>6, <1>8, <1>9, <1>10, <1>11, <1>12 DEF Next

(* The pre-flight disk check never promises more than the disk holds, for   *)
(* any jobs and sizes, as long as no two checks overlap and every job makes *)
(* one.                                                                     *)
THEOREM ChecksKeepTheirPromise == Spec => []NoOvercommitUnlessRaced
<1>1. Init => NoOvercommitUnlessRaced
  <2>1. SUFFICES ASSUME Init PROVE Promised <= Capacity
    BY DEF NoOvercommitUnlessRaced
  <2>2. Budget /\ Passed \in [Tasks -> Nat] /\ \A t \in Tasks : Passed[t] = 0
    <3>1. Budget
      BY <2>1, BudgetInit
    <3>2. \A t \in Tasks : Passed[t] = 0
      BY <2>1 DEF Init, Passed
    <3>3. QED BY <3>1, <3>2, OwedType DEF Budget
  <2>3. SumFunction(Passed) = 0
    BY <2>2, SumBounds, DiskAssumption DEF DiskAssumption
  <2>4. QED BY <2>1, <2>3, DiskAssumption DEF Promised, Init, DiskAssumption
<1>2. QED BY <1>1, BudgetInit, BudgetStep, PromiseStep, PTL DEF Spec

-----------------------------------------------------------------------------
(* The watch over a download.                                               *)

(* Types of the integers and the sets; the two flags come later.            *)
WatchTyped ==
    /\ opts \in Options
    /\ phase \in {"meta", "loop", "seed", "end"}
    /\ reason \in Rules \cup {"", "ok", "cancelled", "metadata", "no_full_seed"}
    /\ completed \in 0..Total /\ last \in 0..Total
    /\ since \in [Rules -> Off..Timeout + 1]
    /\ recovery \in [Rules -> 0..2]
    /\ shown \subseteq Rules /\ frozen \subseteq Rules
    /\ clock \in Nat
    /\ run \in [Rules -> 0..3]
    /\ spell \in [Rules -> 0..Timeout + 1]

(* A timer runs only for a rule in force, and its warning is shown. Unless  *)
(* it ran on unwatched, it has counted the good samples and is no older     *)
(* than the spell.                                                          *)
Timers ==
    \A r \in Rules : since[r] # Off =>
        /\ r \in Enabled
        /\ r \in shown \cup frozen
        /\ r \notin frozen => recovery[r] = run[r] /\ since[r] <= spell[r]

(* What the property says of an ended download; one that runs has no reason.*)
Ended ==
    /\ phase # "end" => reason = ""
    /\ reason \in Rules => /\ spell[reason] > Timeout \/ reason \in frozen
                           /\ completed = Total => reason = "stall"

Justified == WatchTyped /\ Timers /\ Ended

(* What one sample does to one rule: its timer stays below the history of   *)
(* the spell, and it expires only after a spell longer than its timeout.    *)
LEMMA OneRule ==
    ASSUME WatchTyped, Timers,
           NEW r \in Rules, NEW gap \in 1..MaxGap, NEW b \in BOOLEAN
    PROVE  /\ SinceAfter(r, gap, b) \in Off..Timeout + 1
           /\ RecoveryAfter(r, b) \in 0..2
           /\ RunAfter(r, b) \in 0..3
           /\ SpellAfter(r, gap, b) \in 0..Timeout + 1
           /\ SinceAfter(r, gap, b) # Off =>
                /\ r \in Enabled
                /\ Looked(r) \/ since[r] # Off
                /\ r \notin frozen /\ Looked(r) =>
                     /\ RecoveryAfter(r, b) = RunAfter(r, b)
                     /\ SinceAfter(r, gap, b) <= SpellAfter(r, gap, b)
           /\ Expired(r, gap, b) =>
                /\ since[r] # Off /\ Looked(r)
                /\ r \in frozen \/ SpellAfter(r, gap, b) > Timeout
<1>1. /\ since[r] \in Int /\ since[r] >= -1 /\ since[r] <= Timeout + 1
      /\ recovery[r] \in Nat /\ recovery[r] <= 2 /\ run[r] \in Nat /\ run[r] <= 3
      /\ spell[r] \in Nat /\ spell[r] <= Timeout + 1 /\ Timeout \in Nat /\ Off = -1
      /\ gap \in Nat /\ gap > 0
  <2>1. Timeout \in Nat /\ MaxGap \in Nat
    BY WatchAssumption DEF WatchAssumption
  <2>2. since[r] \in -1..Timeout + 1 /\ recovery[r] \in 0..2 /\ run[r] \in 0..3 /\ spell[r] \in 0..Timeout + 1
    BY DEF WatchTyped, Off
  <2>3. QED BY <2>1, <2>2 DEF Off
<1>2. since[r] # -1 => /\ r \in Enabled
                       /\ r \notin frozen => recovery[r] = run[r] /\ since[r] <= spell[r]
  BY <1>1 DEF Timers
<1>3. Looked(r) => r \in Enabled
  BY DEF Looked
<1> USE DEF Off, Aged, Past, Recovered, recoveryTicksRequired
<1>4. SinceAfter(r, gap, b) \in -1..Timeout + 1
  BY <1>1 DEF SinceAfter
<1>5. RecoveryAfter(r, b) \in 0..2
  BY <1>1 DEF RecoveryAfter
<1>6. RunAfter(r, b) \in 0..3
  BY <1>1 DEF RunAfter
<1>7. SpellAfter(r, gap, b) \in 0..Timeout + 1
  BY <1>1 DEF SpellAfter
<1>8. SinceAfter(r, gap, b) # -1 => r \in Enabled /\ (Looked(r) \/ since[r] # -1)
  BY <1>2, <1>3 DEF SinceAfter
<1>9. ASSUME SinceAfter(r, gap, b) # -1, r \notin frozen, Looked(r)
      PROVE  /\ RecoveryAfter(r, b) = RunAfter(r, b)
             /\ SinceAfter(r, gap, b) <= SpellAfter(r, gap, b)
  <2>1. CASE b
    <3>1. RecoveryAfter(r, b) = 0 /\ RunAfter(r, b) = 0
      BY <1>9, <2>1 DEF RecoveryAfter, RunAfter
    <3>2. SpellAfter(r, gap, b) = Past(spell[r] + gap, Timeout)
      BY <3>1 DEF SpellAfter
    <3>3. \/ since[r] = -1 /\ SinceAfter(r, gap, b) = 0
          \/ since[r] # -1 /\ SinceAfter(r, gap, b) = Past(since[r] + gap, Timeout)
      BY <1>9, <2>1 DEF SinceAfter
    <3>4. SinceAfter(r, gap, b) <= SpellAfter(r, gap, b)
      BY <1>1, <1>2, <1>9, <3>2, <3>3
    <3>5. QED BY <3>1, <3>4
  <2>2. CASE ~b
    <3>1. since[r] # -1 /\ recovery[r] + 1 < 3 /\ recovery[r] = run[r] /\ since[r] <= spell[r]
      BY <1>1, <1>2, <1>9, <2>2 DEF SinceAfter
    <3>2. RecoveryAfter(r, b) = run[r] + 1 /\ RunAfter(r, b) = run[r] + 1
      BY <1>1, <1>9, <2>2, <3>1 DEF RecoveryAfter, RunAfter
    <3>3. QED BY <1>1, <1>9, <2>2, <3>1, <3>2 DEF SinceAfter, SpellAfter
  <2>3. QED BY <2>1, <2>2
<1>10. ASSUME Expired(r, gap, b)
       PROVE  /\ since[r] # -1 /\ Looked(r)
              /\ r \in frozen \/ SpellAfter(r, gap, b) > Timeout
  <2>1. since[r] # -1 /\ Looked(r) /\ b /\ Aged(r, gap) > Timeout
    BY <1>10 DEF Expired
  <2>2. RunAfter(r, b) = 0
    BY <2>1 DEF RunAfter
  <2>3. SpellAfter(r, gap, b) = Past(spell[r] + gap, Timeout)
    BY <2>2 DEF SpellAfter
  <2>4. since[r] + gap > Timeout
    BY <1>1, <2>1
  <2>5. ASSUME r \notin frozen PROVE SpellAfter(r, gap, b) > Timeout
    <3>1. spell[r] + gap > Timeout
      BY <1>1, <1>2, <2>1, <2>4, <2>5
    <3>2. SpellAfter(r, gap, b) = Timeout + 1
      BY <2>3, <3>1
    <3>3. QED BY <1>1, <3>2
  <2>6. QED BY <2>1, <2>5
<1>11. QED BY <1>1, <1>4, <1>5, <1>6, <1>7, <1>8, <1>9, <1>10 DEF Off

(* The rule that ends a download is one whose timer has expired.            *)
LEMMA VerdictIsExpired ==
    ASSUME NEW expired \in SUBSET Rules, NEW noFull \in BOOLEAN
    PROVE  LET v == Verdict(expired, noFull)
           IN  v \in expired \cup {"", "no_full_seed"}
BY DEF Verdict

(* The ticker branch, with every rule at once.                              *)
LEMMA SampleStep ==
    ASSUME Justified,
           NEW gap \in 1..MaxGap, NEW fewPeers \in BOOLEAN, Sample(gap, fewPeers)
    PROVE  /\ Justified'
           /\ reason' \in Rules => reason' \in shown \cup frozen
<1> DEFINE bad == [r \in Rules |-> Bad(r, completed - last, fewPeers)]
           expired == {r \in Rules : Expired(r, gap, bad[r])}
           noFull == opts.full /\ completed = 0 /\ clock + gap > FullGate
<1>1. WatchTyped /\ Timers /\ Ended
  BY DEF Justified
<1>2. \A r \in Rules : bad[r] \in BOOLEAN
  <2>1. SUFFICES ASSUME NEW r \in Rules
                 PROVE  Bad(r, completed - last, fewPeers) \in BOOLEAN
    OBVIOUS
  <2>2. CASE r = "slow"
    <3>1. Bad(r, completed - last, fewPeers)
            = IF opts.boosted THEN completed - last = 0 ELSE completed - last < SlowThreshold
      BY <2>2 DEF Bad
    <3>2. CASE opts.boosted
      BY <3>1, <3>2
    <3>3. CASE ~opts.boosted
      <4>1. completed \in 0..Total /\ last \in 0..Total
        BY <1>1 DEF WatchTyped
      <4>2. SlowThreshold \in Nat /\ Total \in Nat
        BY WatchAssumption DEF WatchAssumption
      <4>3. (completed - last < SlowThreshold) \in BOOLEAN
        BY <4>1, <4>2
      <4>4. QED BY <3>1, <3>3, <4>3
    <3>4. QED BY <3>2, <3>3
  <2>3. CASE r = "stall"
    BY <2>3 DEF Bad
  <2>4. CASE r = "low_peers"
    BY <2>4 DEF Bad
  <2>5. QED BY <2>2, <2>3, <2>4 DEF Rules
<1>3. /\ phase = "loop"
      /\ reason' = Verdict(expired, noFull)
      /\ phase' = IF reason' = "" THEN "loop" ELSE "end"
      /\ last' = completed
      /\ clock' = Past(clock + gap, FullGate)
      /\ since' = [r \in Rules |-> SinceAfter(r, gap, bad[r])]
      /\ recovery' = [r \in Rules |-> RecoveryAfter(r, bad[r])]
      /\ shown' = {r \in Rules : Shown(r, gap, bad[r])}
      /\ run' = [r \in Rules |-> IF r \in Enabled THEN RunAfter(r, bad[r]) ELSE 0]
      /\ spell' = [r \in Rules |->
                     IF r \in Enabled THEN SpellAfter(r, gap, bad[r]) ELSE 0]
      /\ frozen' = frozen \cup {r \in Enabled : ~Looked(r) /\ since[r] # Off}
      /\ UNCHANGED <<opts, completed>>
  BY DEF Sample, Rules, Off
<1> HIDE DEF bad
<1>4. ASSUME NEW r \in Rules
      PROVE  /\ SinceAfter(r, gap, bad[r]) \in Off..Timeout + 1
             /\ RecoveryAfter(r, bad[r]) \in 0..2
             /\ RunAfter(r, bad[r]) \in 0..3
             /\ SpellAfter(r, gap, bad[r]) \in 0..Timeout + 1
             /\ SinceAfter(r, gap, bad[r]) # Off =>
                  /\ r \in Enabled
                  /\ Looked(r) \/ since[r] # Off
                  /\ r \notin frozen /\ Looked(r) =>
                       /\ RecoveryAfter(r, bad[r]) = RunAfter(r, bad[r])
                       /\ SinceAfter(r, gap, bad[r]) <= SpellAfter(r, gap, bad[r])
             /\ Expired(r, gap, bad[r]) =>
                  /\ since[r] # Off /\ Looked(r)
                  /\ r \in frozen \/ SpellAfter(r, gap, bad[r]) > Timeout
  BY <1>1, <1>2, OneRule
<1>5. reason' \in expired \cup {"", "no_full_seed"}
  <2>1. expired \in SUBSET Rules
    OBVIOUS
  <2>2. noFull \in BOOLEAN
    OBVIOUS
  <2> HIDE DEF expired, noFull
  <2>3. QED BY <1>3, <2>1, <2>2, VerdictIsExpired
<1>6. WatchTyped'
  <2>1. clock' \in Nat
    <3>1. clock \in Nat /\ gap \in Nat /\ FullGate \in Nat
      <4>1. MaxGap \in Nat /\ FullGate \in Nat
        BY WatchAssumption DEF WatchAssumption
      <4>2. gap \in 1..MaxGap /\ clock \in Nat
        BY <1>1 DEF WatchTyped
      <4>3. QED BY <4>1, <4>2
    <3>2. Past(clock + gap, FullGate) \in Nat
      BY <3>1 DEF Past
    <3>3. QED BY <1>3, <3>2
  <2>2. since' \in [Rules -> Off..Timeout + 1] /\ recovery' \in [Rules -> 0..2]
    BY <1>3, <1>4
  <2>3. run' \in [Rules -> 0..3]
    <3>1. 0 \in 0..3
      OBVIOUS
    <3>2. \A r \in Rules :
             (IF r \in Enabled THEN RunAfter(r, bad[r]) ELSE 0) \in 0..3
      BY <1>4, <3>1
    <3>3. QED BY <1>3, <3>2
  <2>4. spell' \in [Rules -> 0..Timeout + 1]
    <3>1. 0 \in 0..Timeout + 1
      <4>1. Timeout \in Nat
        BY WatchAssumption DEF WatchAssumption
      <4>2. QED BY <4>1
    <3>2. \A r \in Rules :
             (IF r \in Enabled THEN SpellAfter(r, gap, bad[r]) ELSE 0)
               \in 0..Timeout + 1
      BY <1>4, <3>1
    <3>3. QED BY <1>3, <3>2
  <2>5. frozen' \subseteq Rules /\ shown' \subseteq Rules
    <3>1. Enabled \subseteq Rules
      BY <1>1, WatchAssumption DEF WatchTyped, Enabled, WatchAssumption, Rules
    <3>2. QED BY <1>1, <1>3, <3>1 DEF WatchTyped
  <2>6. reason' \in Rules \cup {"", "no_full_seed"}
    BY <1>5
  <2>7. QED BY <1>1, <1>3, <2>1, <2>2, <2>3, <2>4, <2>5, <2>6 DEF WatchTyped
<1>7. Timers'
  <2>1. SUFFICES ASSUME NEW r \in Rules, since'[r] # Off
                 PROVE  /\ r \in Enabled
                        /\ r \in shown' \cup frozen'
                        /\ r \notin frozen' => recovery'[r] = run'[r] /\ since'[r] <= spell'[r]
    <3>1. Enabled' = Enabled
      BY <1>3 DEF Enabled
    <3>2. QED BY <3>1 DEF Timers, Rules, Off
  <2>2. since'[r] = SinceAfter(r, gap, bad[r]) /\ r \in Enabled
    BY <1>3, <1>4, <2>1
  <2>3. CASE Looked(r)
    BY <1>3, <1>4, <2>1, <2>2, <2>3 DEF Shown, Off
  <2>4. CASE ~Looked(r)
    BY <1>3, <1>4, <2>1, <2>2, <2>4
  <2>5. QED BY <2>3, <2>4
<1>8. ASSUME reason' \in Rules
      PROVE  /\ since[reason'] # Off /\ Looked(reason')
             /\ reason' \in frozen \/ spell'[reason'] > Timeout
  <2>1. reason' \in expired
    BY <1>5, <1>8 DEF Rules
  <2>2. reason' \in Rules /\ Expired(reason', gap, bad[reason'])
    BY <2>1
  <2>3. Looked(reason') => reason' \in Enabled
    BY DEF Looked
  <2>4. QED BY <1>3, <1>4, <2>2, <2>3
<1>9. Ended'
  <2>1. ASSUME reason' \in Rules, completed' = Total PROVE reason' = "stall"
    <3>1. Total \in Nat /\ Late \in Nat /\ Late < Total
      BY WatchAssumption DEF WatchAssumption
    <3>2. completed = Total
      BY <1>3, <2>1
    <3>4. ~(completed < Late)
      BY <3>1, <3>2
    <3>5. QED BY <1>8, <2>1, <3>4 DEF Looked
  <2>2. reason' \in Rules => spell'[reason'] > Timeout \/ reason' \in frozen'
    BY <1>3, <1>8
  <2>3. QED BY <1>3, <2>1, <2>2 DEF Ended, Rules
<1>10. reason' \in Rules => reason' \in shown \cup frozen
  BY <1>1, <1>8 DEF Timers
<1>11. QED BY <1>6, <1>7, <1>9, <1>10 DEF Justified

(* Nothing runs before the first sample.                                    *)
LEMMA JustifiedInit ==
    ASSUME WatchInit
    PROVE  Justified
<1>1. Timeout \in Nat /\ Total \in Nat
  BY WatchAssumption DEF WatchAssumption
<1>2. -1 \in Off..Timeout + 1 /\ 0 \in 0..2 /\ 0 \in 0..3 /\ 0 \in 0..Timeout + 1 /\ 0 \in 0..Total
  BY <1>1 DEF Off
<1>3. WatchTyped
  BY <1>2 DEF WatchTyped, WatchInit, Idle, Rules, Off
<1>4. Timers /\ Ended
  BY DEF Timers, Ended, WatchInit, Rules, Off
<1>5. QED BY <1>3, <1>4 DEF Justified

(* The other steps of the goroutine, of the swarm and of the user leave the *)
(* timers and their history alone.                                          *)
LEMMA QuietStep ==
    ASSUME Justified,
           \/ GotInfo \/ MetaWait \/ CtxDone \/ DoneClosed
           \/ SeedTick \/ RatioReached \/ Progress \/ WaitAll
           \/ Cancel \/ UNCHANGED watchVars
    PROVE  /\ Justified'
           /\ reason' \in Rules => reason' = reason
<1>1. WatchTyped /\ Timers /\ Ended
  BY DEF Justified
<1>2. /\ UNCHANGED <<opts, last, since, recovery, shown, run, spell, frozen>>
      /\ \/ phase' = phase /\ reason' = reason
         \/ phase \in {"meta", "loop"} /\ phase' \in {"loop", "seed"} /\ reason' = reason
         \/ phase \in {"meta", "loop", "seed"} /\ phase' = "end" /\ reason' \in {"ok", "cancelled", "metadata"}
      /\ clock' \in {0, clock, clock + 1, SeedTime + 1}
      /\ \/ completed' = completed
         \/ phase = "loop" /\ completed < Total /\ completed' \in {completed - 1, completed + 1} \cap Nat
            /\ UNCHANGED <<phase, reason>>
  <2>1. CASE GotInfo
    BY <2>1 DEF GotInfo, watch
  <2>2. CASE MetaWait
    BY <2>2 DEF MetaWait, watch, End
  <2>3. CASE CtxDone
    BY <2>3 DEF CtxDone, watch, End, Waiting
  <2>4. CASE DoneClosed
    BY <2>4 DEF DoneClosed, watch, End
  <2>5. CASE SeedTick
    BY <2>5 DEF SeedTick, watch, End, Past
  <2>6. CASE RatioReached
    BY <2>6 DEF RatioReached, watch, End
  <2>7. CASE Progress
    BY <2>7 DEF Progress
  <2>8. CASE WaitAll \/ Cancel \/ UNCHANGED watchVars
    BY <2>8 DEF WaitAll, Cancel, watchVars, watch
  <2>9. QED BY <2>1, <2>2, <2>3, <2>4, <2>5, <2>6, <2>7, <2>8
<1>3. WatchTyped'
  <2>1. clock' \in Nat
    <3>1. clock \in Nat /\ SeedTime \in Nat
      BY <1>1, WatchAssumption DEF WatchTyped, WatchAssumption
    <3>2. QED BY <1>2, <3>1
  <2>2. completed' \in 0..Total
    <3>1. completed \in 0..Total /\ Total \in Nat
      BY <1>1, WatchAssumption DEF WatchTyped, WatchAssumption
    <3>2. QED BY <1>2, <3>1
  <2>3. phase' \in {"meta", "loop", "seed", "end"}
    BY <1>1, <1>2 DEF WatchTyped
  <2>4. reason' \in Rules \cup {"", "ok", "cancelled", "metadata", "no_full_seed"}
    BY <1>1, <1>2 DEF WatchTyped
  <2>5. QED BY <1>1, <1>2, <2>1, <2>2, <2>3, <2>4 DEF WatchTyped, Rules, Off
<1>4. Timers'
  BY <1>1, <1>2 DEF Timers, Enabled, Rules, Off
<1>5. reason' \in Rules => reason' = reason
  BY <1>2 DEF Rules
<1>6. Ended'
  <2>1. phase' # "end" => reason' = ""
    BY <1>1, <1>2 DEF Ended
  <2>2. ASSUME reason' \in Rules
        PROVE  /\ spell'[reason'] > Timeout \/ reason' \in frozen'
               /\ completed' = Total => reason' = "stall"
    <3>1. reason \in Rules /\ phase = "end" /\ reason' = reason
      BY <1>1, <1>5, <2>2 DEF Ended, Rules
    <3>2. completed' = completed
      BY <1>2, <3>1
    <3>3. QED BY <1>1, <1>2, <3>1, <3>2 DEF Ended
  <2>3. QED BY <2>1, <2>2 DEF Ended, Rules
<1>7. QED BY <1>3, <1>4, <1>5, <1>6 DEF Justified

(* No step breaks the invariant, and a new reason is a rule with a warning. *)
LEMMA JustifiedStep ==
    ASSUME Justified, [WatchNext]_watchVars
    PROVE  /\ Justified'
           /\ reason' \in Rules => reason' = reason \/ reason' \in shown \cup frozen
<1>1. CASE Tick
  BY <1>1, SampleStep DEF Tick
<1>2. CASE ~Tick
  BY <1>2, QuietStep DEF WatchNext
<1>3. QED BY <1>1, <1>2

(* Context and channel only ever close.                                     *)
LEMMA FlagsTyped == WatchSpec => [](cancelled \in BOOLEAN /\ done \in BOOLEAN)
<1> DEFINE Flags == cancelled \in BOOLEAN /\ done \in BOOLEAN
<1>1. WatchInit => Flags
  BY Zenon DEF WatchInit
<1>2. ASSUME Flags, [WatchNext]_watchVars
      PROVE  Flags'
  <2>1. (cancelled' = cancelled \/ cancelled' = TRUE) /\ (done' = done \/ done' = TRUE)
    BY <1>2 DEF WatchNext, watchVars, watch, GotInfo, MetaWait,
       CtxDone, DoneClosed, Tick, Sample, SeedTick,
       RatioReached, Progress, WaitAll, Cancel
  <2>2. QED BY <1>2, <2>1, Zenon
<1>3. QED BY <1>1, <1>2, PTL DEF WatchSpec

(* downloadAndWaitSeed rejects a download by a rule only if that rule saw   *)
(* no three good samples in a row for longer than its timeout, or its timer *)
(* ran on while it was not looked at; of complete downloads, only the stall *)
(* rule rejects any. For every timeout, threshold, sample gap and settings. *)
THEOREM OnlyBadDownloadsRejected == WatchSpec => []RejectionJustified
<1>1. WatchInit => Justified
  BY JustifiedInit
<1>2. Justified /\ [WatchNext]_watchVars => Justified'
  BY JustifiedStep
<1>3. Justified /\ cancelled \in BOOLEAN /\ done \in BOOLEAN => RejectionJustified
  <2>1. SUFFICES ASSUME Justified, cancelled \in BOOLEAN /\ done \in BOOLEAN
                 PROVE  RejectionJustified
    OBVIOUS
  <2>2. 0..recoveryTicksRequired - 1 = 0..2 /\ 0..recoveryTicksRequired = 0..3
    BY DEF recoveryTicksRequired
  <2>3. WatchTypeOK
    BY <2>1, <2>2, Zenon DEF Justified, WatchTyped, WatchTypeOK, Rules, Off
  <2>4. QED BY <2>1, <2>3 DEF Justified, Ended, RejectionJustified, Rules
<1>4. QED BY <1>1, <1>2, <1>3, FlagsTyped, PTL DEF WatchSpec

(* The warnings of the sample before a rejection hold the rule that rejects,*)
(* unless its timer ran on while it was not looked at.                      *)
THEOREM RejectionsAreAnnounced == WatchSpec => RejectionAnnounced
<1>1. WatchInit => Justified
  BY JustifiedInit
<1>2. Justified /\ [WatchNext]_watchVars => Justified'
  BY JustifiedStep
<1>3. Justified /\ [WatchNext]_watchVars
        => [reason' \in Rules /\ reason = "" => reason' \in shown \cup frozen]_watchVars
  BY JustifiedStep DEF Rules
<1>4. QED BY <1>1, <1>2, <1>3, PTL DEF WatchSpec, RejectionAnnounced
=============================================================================
