--------------------------- MODULE RestartProofs ---------------------------
(***************************************************************************)
(* What the end of the process may cost (StateStore), and when the watchdog *)
(* brings it about (Watchdog).                                              *)
(*                                                                          *)
(* First state.json, for any jobs and any overlap of their saves: a text    *)
(* tells the job map it was made from, and no mixture of two texts passes   *)
(* for one. What FlattenSeq joins is reached by induction, stated as the    *)
(* absence of a least counterexample. From this, a restart finds what was   *)
(* recorded, and keeps what can be resumed.                                 *)
(*                                                                          *)
(* Then the watchdog, for any values of its thresholds: the length of a     *)
(* blackout, no action on a stale clock, and the finished NZB that is safe  *)
(* before the exit.                                                         *)
(***************************************************************************)
EXTENDS StateStore, Watchdog, WellFoundedInduction, TLAPS

(* A non-empty set of natural numbers has a least member.                   *)
LEMMA LeastNumber ==
    ASSUME NEW F \in SUBSET Nat, F # {}
    PROVE  \E n \in F : \A k \in F : ~(k < n)
<1>1. PICK n \in F : \A k \in F : ~(<<k, n>> \in OpToRel(<, Nat))
  BY NatLessThanWellFounded, WFMin
<1>2. \A k \in F : k < n => <<k, n>> \in OpToRel(<, Nat)
  BY DEF OpToRel
<1>3. QED BY <1>1, <1>2

(* What a text is made of.                                                  *)
Tokens == Jobs \cup {"begin", "end", "details", "path"}

(* f lists what the first i pieces of b make together.                      *)
Joins(f, b, n) ==
    /\ f \in [0..n -> Seq(Tokens)]
    /\ f[0] = <<>>
    /\ \A i \in 1..n : f[i] = f[i - 1] \o b[i]

(* Such a list exists for any pieces.                                       *)
LEMMA JoinsExist ==
    ASSUME NEW n \in Nat, NEW b \in [1..n -> Seq(Tokens)]
    PROVE  \E f : Joins(f, b, n)
<1> DEFINE F == {k \in 0..n : ~\E f : Joins(f, b, k)}
<1>1. SUFFICES ASSUME F # {} PROVE FALSE
  <2>1. n \in 0..n
    OBVIOUS
  <2>2. QED BY <2>1, Zenon
<1>2. PICK k \in F : \A i \in F : ~(i < k)
  <2>1. F \in SUBSET Nat
    OBVIOUS
  <2> HIDE DEF F
  <2>2. QED BY <1>1, <2>1, LeastNumber
<1>3. CASE k = 0
  <2> DEFINE f == [i \in 0..0 |-> <<>>]
  <2>1. Joins(f, b, 0)
    BY DEF Joins
  <2>2. QED BY <1>2, <1>3, <2>1
<1>4. CASE k # 0
  <2>1. k - 1 \in 0..n /\ k - 1 \notin F /\ k \in 1..n
    <3>1. k \in 0..n
      OBVIOUS
    <3> HIDE DEF F
    <3>2. QED BY <1>2, <1>4, <3>1
  <2>2. PICK g : Joins(g, b, k - 1)
    BY <2>1
  <2> DEFINE f == [i \in 0..k |-> IF i = k THEN g[k - 1] \o b[k] ELSE g[i]]
  <2>3. f \in [0..k -> Seq(Tokens)]
    BY <2>1, <2>2 DEF Joins
  <2>4. f[0] = <<>>
    BY <2>1, <2>2 DEF Joins
  <2>5. ASSUME NEW i \in 1..k PROVE f[i] = f[i - 1] \o b[i]
    <3>1. f[i - 1] = g[i - 1]
      BY <2>1
    <3>2. f[i] = IF i = k THEN g[k - 1] \o b[k] ELSE g[i]
      BY <2>1
    <3> HIDE DEF f
    <3>3. CASE i = k
      BY <3>1, <3>2, <3>3
    <3>4. CASE i # k
      <4>1. i \in 1..(k - 1)
        BY <2>1, <3>4
      <4>2. g[i] = g[i - 1] \o b[i]
        BY <2>2, <4>1 DEF Joins
      <4>3. QED BY <3>1, <3>2, <3>4, <4>2
    <3>5. QED BY <3>3, <3>4
  <2>6. Joins(f, b, k)
    <3> HIDE DEF f
    <3>1. QED BY <2>3, <2>4, <2>5 DEF Joins
  <2>7. QED BY <1>2, <2>6
<1>5. QED BY <1>3, <1>4

(* FlattenSeq joins all the pieces.                                         *)
LEMMA FlattenJoins ==
    ASSUME NEW n \in Nat, n > 0, NEW b \in [1..n -> Seq(Tokens)]
    PROVE  \E f : Joins(f, b, n) /\ FlattenSeq(b) = f[n]
<1>1. PICK g : Joins(g, b, n)
  BY JoinsExist
<1> DEFINE Defines(h) == h = [i \in 1..n |-> IF i = 1 THEN b[i] ELSE h[i - 1] \o b[i]]
           fl == CHOOSE h : Defines(h)
           h0 == [i \in 1..n |-> g[i]]
<1>2. Len(b) = n
  OBVIOUS
<1>3. FlattenSeq(b) = fl[n]
  BY <1>2 DEF FlattenSeq
<1>4. Defines(h0)
  <2>1. ASSUME NEW i \in 1..n
        PROVE  h0[i] = IF i = 1 THEN b[i] ELSE h0[i - 1] \o b[i]
    <3>1. g[i] = g[i - 1] \o b[i] /\ g[0] = <<>> /\ b[i] \in Seq(Tokens)
      BY <1>1 DEF Joins
    <3>2. CASE i = 1
      <4>1. <<>> \o b[i] = b[i] /\ i - 1 = 0
        BY <3>1, <3>2
      <4>2. g[i] = b[i]
        BY <3>1, <4>1, Zenon
      <4>3. QED BY <3>2, <4>2
    <3>3. CASE i # 1
      <4>1. i - 1 \in 1..n
        BY <3>3
      <4>2. QED BY <3>1, <3>3, <4>1
    <3>4. QED BY <3>2, <3>3
  <2>2. QED BY <2>1
<1>5. Defines(fl)
  <2> HIDE DEF Defines, h0
  <2>1. QED BY <1>4
<1>6. \A i \in 1..n : fl[i] = IF i = 1 THEN b[i] ELSE fl[i - 1] \o b[i]
  <2> HIDE DEF fl
  <2>1. QED BY <1>5
<1> HIDE DEF fl, Defines, h0
<1> DEFINE F == {i \in 1..n : fl[i] # g[i]}
<1>7. F = {}
  <2>1. SUFFICES ASSUME F # {} PROVE FALSE
    OBVIOUS
  <2>2. PICK k \in F : \A i \in F : ~(i < k)
    <3>1. F \in SUBSET Nat
      OBVIOUS
    <3> HIDE DEF F
    <3>2. QED BY <2>1, <3>1, LeastNumber
  <2>3. g[k] = g[k - 1] \o b[k] /\ g[0] = <<>> /\ b[k] \in Seq(Tokens)
    BY <1>1 DEF Joins
  <2>4. CASE k = 1
    <3>1. <<>> \o b[k] = b[k] /\ k - 1 = 0
      BY <2>3, <2>4
    <3>2. g[k] = b[k]
      BY <2>3, <3>1, Zenon
    <3>3. QED BY <1>6, <2>4, <3>2
  <2>5. CASE k # 1
    <3>1. k - 1 \in 1..n /\ k - 1 \notin F
      BY <2>2, <2>5
    <3>2. fl[k - 1] = g[k - 1]
      BY <3>1
    <3>3. QED BY <1>6, <2>3, <2>5, <3>2
  <2>6. QED BY <2>4, <2>5
<1>8. fl[n] = g[n]
  BY <1>7
<1>9. QED BY <1>1, <1>3, <1>8

(* Sequences, element by element.                                           *)
LEMMA SameSeq ==
    ASSUME NEW T, NEW s \in Seq(T), NEW t \in Seq(T),
           Len(s) = Len(t), \A i \in 1..Len(s) : s[i] = t[i]
    PROVE  s = t
OBVIOUS

LEMMA ConcatTail ==
    ASSUME NEW T, NEW s \in Seq(T), NEW t \in Seq(T), NEW p \in 1..Len(t)
    PROVE  (s \o t)[Len(s) + p] = t[p]
OBVIOUS

LEMMA Pairs ==
    ASSUME NEW T, NEW x \in T, NEW y \in T
    PROVE  <<x>> \o <<y>> = <<x, y>>
<1>1. <<x>> \o <<y>> \in Seq(T) /\ <<x, y>> \in Seq(T)
  OBVIOUS
<1>2. Len(<<x>> \o <<y>>) = 2 /\ Len(<<x, y>>) = 2
  OBVIOUS
<1>3. (<<x>> \o <<y>>)[1] = <<x, y>>[1] /\ (<<x>> \o <<y>>)[2] = <<x, y>>[2]
  OBVIOUS
<1>4. \A i \in 1..2 : i = 1 \/ i = 2
  OBVIOUS
<1> DEFINE s == <<x>> \o <<y>>
           t == <<x, y>>
<1> HIDE DEF s, t
<1>5. s = t
  BY <1>1, <1>2, <1>3, <1>4, SameSeq DEF s, t
<1>6. QED BY <1>5 DEF s, t

LEMMA Triples ==
    ASSUME NEW T, NEW x \in T, NEW y \in T, NEW z \in T
    PROVE  <<x, y>> \o <<z>> = <<x, y, z>>
<1>1. <<x, y>> \o <<z>> \in Seq(T) /\ <<x, y, z>> \in Seq(T)
  OBVIOUS
<1>2. Len(<<x, y>> \o <<z>>) = 3 /\ Len(<<x, y, z>>) = 3
  OBVIOUS
<1>3. /\ (<<x, y>> \o <<z>>)[1] = <<x, y, z>>[1] /\ (<<x, y>> \o <<z>>)[2] = <<x, y, z>>[2]
      /\ (<<x, y>> \o <<z>>)[3] = <<x, y, z>>[3]
  OBVIOUS
<1>4. \A i \in 1..3 : i = 1 \/ i = 2 \/ i = 3
  OBVIOUS
<1> DEFINE s == <<x, y>> \o <<z>>
           t == <<x, y, z>>
<1> HIDE DEF s, t
<1>5. s = t
  BY <1>1, <1>2, <1>3, <1>4, SameSeq DEF s, t
<1>6. QED BY <1>5 DEF s, t

(* A job's entry is empty, or the job's name and then details and path.     *)
Part(e, j) ==
    /\ e \in Seq(Tokens)
    /\ e # <<>> => /\ Len(e) > 0 /\ e[1] = j
                   /\ \A p \in 2..Len(e) : e[p] \in {"details", "path"}

(* An entry of a known job.                                                 *)
Known(p, l) == [known |-> TRUE, path |-> p, long |-> l]

(* The five entries there are.                                              *)
LEMMA EntryForms ==
    ASSUME NEW m \in States, NEW j \in Jobs
    PROVE  \/ m[j] = Absent /\ Entry(m, j) = <<>>
           \/ m[j] = Known(FALSE, FALSE) /\ Entry(m, j) = <<j>>
           \/ m[j] = Known(FALSE, TRUE) /\ Entry(m, j) = <<j, "details">>
           \/ m[j] = Known(TRUE, FALSE) /\ Entry(m, j) = <<j, "path">>
           \/ m[j] = Known(TRUE, TRUE) /\ Entry(m, j) = <<j, "details", "path">>
<1>1. m[j] \in Entries
  BY DEF States
<1>2. CASE m[j] = Absent
  BY <1>2 DEF Absent, Entry, If
<1>3. CASE m[j] # Absent
  <2>1. m[j] \in [known : {TRUE}, path : BOOLEAN, long : BOOLEAN]
    BY <1>1, <1>3 DEF Entries
  <2>2. m[j].known /\ m[j].path \in BOOLEAN /\ m[j].long \in BOOLEAN
    BY <2>1
  <2>3. m[j] = Known(m[j].path, m[j].long)
    BY <2>1 DEF Known
  <2>4. Entry(m, j) = <<j>> \o If(m[j].long, <<"details">>) \o If(m[j].path, <<"path">>)
    BY <2>2 DEF Entry, If
  <2>5. j \in Tokens /\ "details" \in Tokens /\ "path" \in Tokens
    BY DEF Tokens
  <2>6. <<j>> \o <<>> = <<j>> /\ <<j, "details">> \o <<>> = <<j, "details">>
    OBVIOUS
  <2>7. /\ <<j>> \o <<"details">> = <<j, "details">>
        /\ <<j>> \o <<"path">> = <<j, "path">>
        /\ <<j, "details">> \o <<"path">> = <<j, "details", "path">>
    BY <2>5, Pairs, Triples, Zenon
  <2>8. /\ <<j>> \o <<>> \o <<>> = <<j>>
        /\ <<j>> \o <<"details">> \o <<>> = <<j, "details">>
        /\ <<j>> \o <<>> \o <<"path">> = <<j, "path">>
        /\ <<j>> \o <<"details">> \o <<"path">> = <<j, "details", "path">>
    BY <2>6, <2>7, Zenon
  <2>9. /\ m[j].path = TRUE \/ m[j].path = FALSE
        /\ m[j].long = TRUE \/ m[j].long = FALSE
    BY <2>2, Zenon
  <2>10. /\ If(TRUE, <<"details">>) = <<"details">> /\ If(FALSE, <<"details">>) = <<>>
         /\ If(TRUE, <<"path">>) = <<"path">> /\ If(FALSE, <<"path">>) = <<>>
    BY DEF If
  <2>11. QED BY <2>3, <2>4, <2>8, <2>9, <2>10, Zenon
<1>4. QED BY <1>2, <1>3

(* Each of them is a name with what belongs to it.                          *)
LEMMA EntryIsPart ==
    ASSUME NEW m \in States, NEW j \in Jobs
    PROVE  Part(Entry(m, j), j)
<1>1. j \in Tokens /\ "details" \in Tokens /\ "path" \in Tokens
  BY DEF Tokens
<1>2. Part(<<>>, j)
  BY DEF Part
<1>3. Part(<<j>>, j)
  BY <1>1 DEF Part
<1>4. ASSUME NEW y \in {"details", "path"} PROVE Part(<<j, y>>, j)
  <2>1. y \in Tokens
    BY <1>1
  <2>2. <<j, y>> \in Seq(Tokens) /\ Len(<<j, y>>) = 2 /\ <<j, y>>[1] = j /\ <<j, y>>[2] = y
    BY <1>1, <2>1
  <2>3. \A p \in 2..2 : p = 2
    OBVIOUS
  <2>4. QED BY <2>2, <2>3 DEF Part
<1>5. Part(<<j, "details", "path">>, j)
  <2> DEFINE e == <<j, "details", "path">>
  <2>1. e \in Seq(Tokens) /\ Len(e) = 3 /\ e[1] = j /\ e[2] = "details" /\ e[3] = "path"
    BY <1>1
  <2>2. \A p \in 2..3 : p = 2 \/ p = 3
    OBVIOUS
  <2> HIDE DEF e
  <2>3. Part(e, j)
    BY <2>1, <2>2 DEF Part
  <2>4. QED BY <2>3 DEF e
<1>6. Part(<<j, "details">>, j) /\ Part(<<j, "path">>, j)
  BY <1>4
<1>7. QED BY <1>2, <1>3, <1>5, <1>6, EntryForms, Zenon

(* An entry tells what memory holds of its job.                             *)
LEMMA EntryTells ==
    ASSUME NEW m \in States, NEW k \in States, NEW j \in Jobs, Entry(m, j) = Entry(k, j)
    PROVE  m[j] = k[j]
<1>1. <<>> # <<j>> /\ <<>> # <<j, "details">> /\ <<>> # <<j, "path">>
      /\ <<>> # <<j, "details", "path">>
  OBVIOUS
<1>2. <<j>> # <<j, "details">> /\ <<j>> # <<j, "path">> /\ <<j>> # <<j, "details", "path">>
      /\ <<j, "details">> # <<j, "path">> /\ <<j, "details">> # <<j, "details", "path">>
      /\ <<j, "path">> # <<j, "details", "path">>
  OBVIOUS
<1>3. QED BY <1>1, <1>2, EntryForms, Zenon

(* Where a job is named last, the text before and the entry can be told.    *)
LEMMA Cut ==
    ASSUME NEW j \in Jobs, NEW s \in Seq(Tokens), NEW t \in Seq(Tokens), NEW d, NEW e,
           Part(d, j), Part(e, j), s \o d = t \o e,
           \A p \in 1..Len(s) : s[p] # j, \A p \in 1..Len(t) : t[p] # j
    PROVE  s = t /\ d = e
<1>1. ASSUME NEW u \in Seq(Tokens), NEW v \in Seq(Tokens), NEW f, NEW g,
             Part(f, j), Part(g, j), u \o f = v \o g,
             \A p \in 1..Len(u) : u[p] # j, f # <<>>
      PROVE  ~(Len(v) < Len(u)) /\ (g = <<>> => ~ \A p \in 1..Len(v) : v[p] # j)
  <2>1. f \in Seq(Tokens) /\ g \in Seq(Tokens) /\ Len(f) > 0 /\ f[1] = j
    BY <1>1 DEF Part
  <2>2. (u \o f)[Len(u) + 1] = j
    BY <2>1
  <2>3. ASSUME g = <<>>, \A p \in 1..Len(v) : v[p] # j PROVE FALSE
    <3>1. v \o g = v
      BY <2>3
    <3>2. Len(v) = Len(u) + Len(f) /\ v[Len(u) + 1] = j
      BY <1>1, <2>1, <2>2, <3>1
    <3>3. QED BY <2>1, <2>3, <3>2
  <2>4. ASSUME Len(v) < Len(u) PROVE FALSE
    <3>1. Len(g) > 0
      BY <1>1, <2>1, <2>4
    <3>2. g[1] = j
      BY <1>1, <3>1 DEF Part
    <3>3. (v \o g)[Len(v) + 1] = j
      BY <2>1, <3>1, <3>2
    <3>4. (u \o f)[Len(v) + 1] = u[Len(v) + 1]
      BY <2>1, <2>4
    <3>5. QED BY <1>1, <2>4, <3>3, <3>4
  <2>5. QED BY <2>3, <2>4
<1>2. d \in Seq(Tokens) /\ e \in Seq(Tokens)
  BY DEF Part
<1>3. CASE d = <<>> /\ e = <<>>
  BY <1>3
<1>4. CASE d # <<>> \/ e # <<>>
  <2>1. d # <<>> /\ e # <<>>
    BY <1>1, <1>4
  <2>2. ~(Len(t) < Len(s)) /\ ~(Len(s) < Len(t))
    BY <1>1, <2>1
  <2>3. Len(s) = Len(t)
    BY <2>2
  <2>4. s = t
    <3>1. \A p \in 1..Len(s) : s[p] = (s \o d)[p] /\ t[p] = (t \o e)[p]
      BY <1>2, <2>3
    <3>2. QED BY <2>3, <3>1
  <2>5. d = e
    <3>1. Len(s \o d) = Len(s) + Len(d) /\ Len(t \o e) = Len(t) + Len(e)
      BY <1>2
    <3>2. Len(d) = Len(e)
      BY <1>2, <2>3, <3>1
    <3>3. ASSUME NEW p \in 1..Len(d) PROVE d[p] = e[p]
      <4>1. d[p] = (s \o d)[Len(s) + p] /\ e[p] = (t \o e)[Len(t) + p]
        BY <1>2, <3>2, ConcatTail
      <4>2. QED BY <2>3, <4>1
    <3>4. QED BY <1>2, <3>2, <3>3, SameSeq
  <2>6. QED BY <2>4, <2>5
<1>5. QED BY <1>3, <1>4

(* The entries of the jobs, in the order of their names.                    *)
Count == Len(Names)
Pieces(m) == [i \in 1..Count |-> Entry(m, Names[i])]

(* Jobs are numbered in the order of their names.                           *)
LEMMA NamesOk ==
    /\ Count \in Nat /\ Count > 0 /\ DOMAIN Names = 1..Count
    /\ \A i \in 1..Count : Names[i] \in Jobs
    /\ \A i, k \in 1..Count : Names[i] = Names[k] => i = k
    /\ \A j \in Jobs : \E i \in 1..Count : j = Names[i]
    /\ \A j \in Jobs : j \notin {"begin", "end", "details", "path"}
<1>1. Names \in Seq(Jobs) /\ Len(Names) > 0
  BY StoreAssumption DEF StoreAssumption
<1>2. Count \in Nat /\ Count > 0 /\ DOMAIN Names = 1..Count /\ \A i \in 1..Count : Names[i] \in Jobs
  BY <1>1 DEF Count
<1>3. \A i, k \in 1..Count : Names[i] = Names[k] => i = k
  BY <1>2, StoreAssumption DEF StoreAssumption, IsInjective
<1>4. \A j \in Jobs : \E i \in 1..Count : j = Names[i]
  BY <1>2 DEF Jobs, Range
<1>5. \A j \in Jobs : j \notin {"begin", "end", "details", "path"}
  BY StoreAssumption DEF StoreAssumption
<1>6. QED BY <1>2, <1>3, <1>4, <1>5

(* The entries of a job map, in this order.                                 *)
LEMMA PiecesType ==
    ASSUME NEW m \in States
    PROVE  /\ Pieces(m) \in [1..Count -> Seq(Tokens)]
           /\ \A i \in 1..Count : Part(Pieces(m)[i], Names[i])
<1>1. \A i \in 1..Count : Pieces(m)[i] = Entry(m, Names[i])
  BY DEF Pieces
<1>2. \A i \in 1..Count : Part(Pieces(m)[i], Names[i])
  BY <1>1, NamesOk, EntryIsPart
<1>3. \A i \in 1..Count : Entry(m, Names[i]) \in Seq(Tokens)
  BY <1>1, <1>2 DEF Part
<1>4. QED BY <1>2, <1>3 DEF Pieces

(* A text is its entries, joined, between two braces.                       *)
LEMMA TextForm ==
    ASSUME NEW m \in States
    PROVE  \E f : /\ Joins(f, Pieces(m), Count)
                  /\ MarshalIndent(m) = <<"begin">> \o f[Count] \o <<"end">>
<1>1. PICK f : Joins(f, Pieces(m), Count) /\ FlattenSeq(Pieces(m)) = f[Count]
  BY NamesOk, PiecesType, FlattenJoins
<1>2. MarshalIndent(m) = <<"begin">> \o FlattenSeq(Pieces(m)) \o <<"end">>
  BY NamesOk DEF MarshalIndent, Pieces
<1>3. QED BY <1>1, <1>2

(* The first i entries name the first i jobs only.                          *)
LEMMA NamedBefore ==
    ASSUME NEW m \in States, NEW f, Joins(f, Pieces(m), Count)
    PROVE  \A i \in 0..Count : \A p \in 1..Len(f[i]) :
              f[i][p] \in {"details", "path"} \cup {Names[k] : k \in 1..i}
<1> DEFINE Upto(i) == {"details", "path"} \cup {Names[k] : k \in 1..i}
           Good(i) == \A p \in 1..Len(f[i]) : f[i][p] \in Upto(i)
           F == {i \in 0..Count : ~Good(i)}
<1>0. Count \in Nat
  BY NamesOk
<1>1. SUFFICES ASSUME F # {} PROVE FALSE
  OBVIOUS
<1>2. PICK i \in F : \A k \in F : ~(k < i)
  <2> HIDE DEF Good
  <2>1. F \in SUBSET Nat
    BY <1>0
  <2> HIDE DEF F
  <2>2. QED BY <1>1, <2>1, LeastNumber
<1>3. i \in 0..Count /\ ~Good(i)
  OBVIOUS
<1>4. CASE i = 0
  <2>1. f[i] = <<>>
    BY <1>4 DEF Joins
  <2>2. QED BY <1>3, <2>1
<1>5. CASE i # 0
  <2>1. i - 1 \in 0..Count /\ i \in 1..Count
    <3> HIDE DEF F, Good
    <3>1. QED BY <1>0, <1>3, <1>5
  <2>2. Good(i - 1)
    <3> HIDE DEF Good
    <3>1. i - 1 \notin F
      <4> HIDE DEF F
      <4>1. i - 1 < i
        BY <1>0, <2>1
      <4>2. QED BY <1>2, <4>1
    <3>2. QED BY <2>1, <3>1
  <2> DEFINE e == Pieces(m)[i]
  <2>3. f[i] = f[i - 1] \o e /\ Part(e, Names[i]) /\ f[i - 1] \in Seq(Tokens)
    BY <2>1, PiecesType DEF Joins
  <2>4. e \in Seq(Tokens)
    BY <2>3 DEF Part
  <2> HIDE DEF e, Good, Upto
  <2>5. Upto(i - 1) \subseteq Upto(i)
    BY <2>1 DEF Upto
  <2>6. Names[i] \in Upto(i)
    BY <2>1 DEF Upto
  <2>7. ASSUME NEW p \in 1..Len(e) PROVE e[p] \in Upto(i)
    <3>1. CASE p = 1
      BY <2>3, <2>4, <2>6, <3>1 DEF Part
    <3>2. CASE p # 1
      <4>1. p \in 2..Len(e) /\ e # <<>>
        BY <2>4, <3>2
      <4>2. e[p] \in {"details", "path"}
        BY <2>3, <4>1 DEF Part
      <4>3. QED BY <4>2 DEF Upto
    <3>3. QED BY <3>1, <3>2
  <2>8. ASSUME NEW p \in 1..Len(f[i]) PROVE f[i][p] \in Upto(i)
    <3>1. p <= Len(f[i - 1]) \/ p - Len(f[i - 1]) \in 1..Len(e)
      BY <2>3, <2>4
    <3>2. CASE p <= Len(f[i - 1])
      <4>1. f[i][p] = f[i - 1][p] /\ p \in 1..Len(f[i - 1])
        BY <2>3, <2>4, <3>2
      <4>2. QED BY <2>2, <2>5, <4>1 DEF Good
    <3>3. CASE p - Len(f[i - 1]) \in 1..Len(e)
      <4>1. f[i][p] = e[p - Len(f[i - 1])]
        BY <2>3, <2>4, <3>3
      <4>2. QED BY <2>7, <3>3, <4>1
    <3>4. QED BY <3>1, <3>2, <3>3
  <2>9. QED BY <1>3, <2>8 DEF Good
<1>6. QED BY <1>4, <1>5

(* What the braces do to positions.                                         *)
LEMMA Framed ==
    ASSUME NEW b \in Seq(Tokens), NEW t, t = <<"begin">> \o b \o <<"end">>
    PROVE  /\ t \in Seq(Tokens) /\ Len(t) = Len(b) + 2
           /\ t[1] = "begin" /\ t[Len(b) + 2] = "end"
           /\ \A p \in 1..Len(b) : t[p + 1] = b[p]
<1>0. "begin" \in Tokens /\ "end" \in Tokens
  BY DEF Tokens
<1> DEFINE u == <<"begin">> \o b
<1>1. u \in Seq(Tokens) /\ Len(u) = Len(b) + 1 /\ u[1] = "begin"
  BY <1>0
<1>2. \A p \in 1..Len(b) : u[p + 1] = b[p]
  BY <1>0
<1>3. t = u \o <<"end">>
  OBVIOUS
<1> HIDE DEF u
<1>4. t \in Seq(Tokens) /\ Len(t) = Len(u) + 1 /\ t[Len(u) + 1] = "end"
  BY <1>0, <1>1, <1>3
<1>5. \A p \in 1..Len(u) : t[p] = u[p]
  BY <1>0, <1>1, <1>3
<1>6. Len(b) \in Nat
  OBVIOUS
<1>7. t[1] = "begin"
  BY <1>1, <1>5, <1>6
<1>8. ASSUME NEW p \in 1..Len(b) PROVE t[p + 1] = b[p]
  <2>1. p + 1 \in 1..Len(u)
    BY <1>1, <1>6
  <2>2. QED BY <1>2, <1>5, <2>1
<1>9. Len(t) = Len(b) + 2 /\ Len(u) + 1 = Len(b) + 2
  BY <1>1, <1>4, <1>6
<1>10. QED BY <1>4, <1>7, <1>8, <1>9

(* Joined entries tell the job map: the last job is cut off, then the one   *)
(* before it, and so on.                                                    *)
LEMMA BodyTells ==
    ASSUME NEW m \in States, NEW k \in States,
           NEW f, Joins(f, Pieces(m), Count), NEW g, Joins(g, Pieces(k), Count),
           f[Count] = g[Count]
    PROVE  m = k
<1>0. Count \in Nat
  BY NamesOk
<1> DEFINE F == {d \in 0..Count : f[Count - d] # g[Count - d]}
<1>1. ASSUME NEW i \in 1..Count, f[i] = g[i]
      PROVE  f[i - 1] = g[i - 1] /\ Entry(m, Names[i]) = Entry(k, Names[i])
  <2>1. i - 1 \in 0..Count /\ Names[i] \in Jobs
    <3>1. i - 1 \in 0..Count
      BY <1>0
    <3>2. QED BY <3>1, NamesOk
  <2>2. f[i] = f[i - 1] \o Entry(m, Names[i]) /\ g[i] = g[i - 1] \o Entry(k, Names[i])
    BY DEF Joins, Pieces
  <2>3. f[i - 1] \in Seq(Tokens) /\ g[i - 1] \in Seq(Tokens)
    BY <2>1 DEF Joins
  <2>4. Names[i] \notin {"details", "path"} \cup {Names[q] : q \in 1..(i - 1)}
    <3>1. Names[i] \notin {"details", "path"}
      BY <2>1, NamesOk
    <3>2. ASSUME NEW q \in 1..(i - 1) PROVE Names[q] # Names[i]
      <4>1. q \in 1..Count /\ q # i
        BY <1>0
      <4>2. QED BY <4>1, NamesOk
    <3>3. QED BY <3>1, <3>2
  <2>5. \A p \in 1..Len(f[i - 1]) : f[i - 1][p] # Names[i]
    BY <2>1, <2>4, NamedBefore
  <2>6. \A p \in 1..Len(g[i - 1]) : g[i - 1][p] # Names[i]
    BY <2>1, <2>4, NamedBefore
  <2>7. Part(Entry(m, Names[i]), Names[i]) /\ Part(Entry(k, Names[i]), Names[i])
    BY <2>1, EntryIsPart
  <2> DEFINE s == f[i - 1]
             t == g[i - 1]
             d == Entry(m, Names[i])
             e == Entry(k, Names[i])
  <2>8. s \in Seq(Tokens) /\ t \in Seq(Tokens) /\ Part(d, Names[i]) /\ Part(e, Names[i])
        /\ s \o d = t \o e
        /\ (\A p \in 1..Len(s) : s[p] # Names[i]) /\ (\A p \in 1..Len(t) : t[p] # Names[i])
    BY <1>1, <2>2, <2>3, <2>5, <2>6, <2>7
  <2> HIDE DEF s, t, d, e
  <2>9. s = t /\ d = e
    BY <2>1, <2>8, Cut
  <2>10. QED BY <2>9 DEF s, t, d, e
<1>2. F = {}
  <2>1. SUFFICES ASSUME F # {} PROVE FALSE
    OBVIOUS
  <2>2. PICK d \in F : \A c \in F : ~(c < d)
    <3>1. F \in SUBSET Nat
      BY <1>0
    <3> HIDE DEF F
    <3>2. QED BY <2>1, <3>1, LeastNumber
  <2>3. d \in 0..Count /\ f[Count - d] # g[Count - d]
    OBVIOUS
  <2>4. d # 0
    <3>1. Count - 0 = Count
      BY <1>0
    <3>2. QED BY <2>3, <3>1
  <2> HIDE DEF F
  <2>5. d - 1 \in 0..Count /\ d - 1 < d /\ Count - (d - 1) \in 1..Count
        /\ (Count - (d - 1)) - 1 = Count - d
    BY <1>0, <2>3, <2>4
  <2>6. f[Count - (d - 1)] = g[Count - (d - 1)]
    BY <2>2, <2>5 DEF F
  <2>7. QED BY <1>1, <2>3, <2>5, <2>6
<1>3. ASSUME NEW i \in 1..Count PROVE m[Names[i]] = k[Names[i]]
  <2>1. f[i] = g[i]
    <3>1. Count - i \in 0..Count /\ Count - (Count - i) = i
      BY <1>0
    <3>2. QED BY <1>2, <3>1
  <2>2. Entry(m, Names[i]) = Entry(k, Names[i]) /\ Names[i] \in Jobs
    BY <1>1, <2>1, NamesOk
  <2>3. QED BY <2>2, EntryTells
<1>4. \A j \in Jobs : m[j] = k[j]
  <2>1. SUFFICES ASSUME NEW j \in Jobs PROVE m[j] = k[j]
    OBVIOUS
  <2>2. PICK i \in 1..Count : j = Names[i]
    BY NamesOk
  <2>3. QED BY <1>3, <2>2
<1>5. QED BY <1>4 DEF States

(* A whole text ends at its only closing brace.                             *)
Whole(t) ==
    /\ t \in Seq(Tokens) /\ Len(t) > 1
    /\ t[Len(t)] = "end"
    /\ \A p \in 1..Len(t) : p < Len(t) => t[p] # "end"

(* MarshalIndent writes whole texts.                                        *)
LEMMA TextIsWhole ==
    ASSUME NEW m \in States
    PROVE  Whole(MarshalIndent(m))
<1>1. PICK f : /\ Joins(f, Pieces(m), Count)
               /\ MarshalIndent(m) = <<"begin">> \o f[Count] \o <<"end">>
  BY TextForm
<1> DEFINE b == f[Count]
           t == <<"begin">> \o b \o <<"end">>
<1>2. Count \in 0..Count
  <2>1. Count \in Nat
    BY NamesOk
  <2>2. QED BY <2>1
<1>3. b \in Seq(Tokens)
  BY <1>1, <1>2 DEF Joins
<1>4. \A p \in 1..Len(b) : b[p] # "end"
  <2>1. ASSUME NEW p \in 1..Len(b)
        PROVE  b[p] \in {"details", "path"} \cup {Names[k] : k \in 1..Count}
    BY <1>1, <1>2, NamedBefore
  <2>2. \A k \in 1..Count : Names[k] # "end"
    BY NamesOk
  <2>3. QED BY <2>1, <2>2
<1> HIDE DEF b
<1>5. "begin" \in Tokens /\ "end" \in Tokens
  BY DEF Tokens
<1>6. /\ t \in Seq(Tokens) /\ Len(t) = Len(b) + 2
      /\ t[1] = "begin" /\ t[Len(b) + 2] = "end"
      /\ \A p \in 1..Len(b) : t[p + 1] = b[p]
  <2> HIDE DEF t
  <2>1. t = <<"begin">> \o b \o <<"end">>
    BY DEF t
  <2>2. QED BY <1>3, <2>1, Framed
<1>7. MarshalIndent(m) = t
  BY <1>1 DEF b
<1> HIDE DEF t
<1>8. Len(b) \in Nat /\ Len(t) = Len(b) + 2
  BY <1>3, <1>6
<1>9. ASSUME NEW p \in 1..Len(t), p < Len(t) PROVE t[p] # "end"
  <2>1. CASE p = 1
    BY <1>6, <2>1
  <2>2. CASE p # 1
    <3>1. p - 1 \in 1..Len(b) /\ (p - 1) + 1 = p
      BY <1>8, <1>9, <2>2
    <3>2. t[p] = b[p - 1]
      BY <1>6, <3>1
    <3>3. QED BY <1>4, <3>1, <3>2
  <2>3. QED BY <2>1, <2>2
<1>10. Len(t) > 1 /\ t[Len(t)] = "end"
  <2>1. Len(t) > 1
    BY <1>8
  <2>2. QED BY <1>6, <1>8, <2>1, Zenon
<1>11. QED BY <1>6, <1>7, <1>9, <1>10 DEF Whole

(* Different job maps have different texts.                                 *)
LEMMA TextTells ==
    ASSUME NEW m \in States, NEW k \in States, MarshalIndent(m) = MarshalIndent(k)
    PROVE  m = k
<1>1. PICK f : /\ Joins(f, Pieces(m), Count)
               /\ MarshalIndent(m) = <<"begin">> \o f[Count] \o <<"end">>
  BY TextForm
<1>2. PICK g : /\ Joins(g, Pieces(k), Count)
               /\ MarshalIndent(k) = <<"begin">> \o g[Count] \o <<"end">>
  BY TextForm
<1> DEFINE a == f[Count]
           b == g[Count]
           t == MarshalIndent(m)
<1>3. a \in Seq(Tokens) /\ b \in Seq(Tokens)
  <2>1. Count \in Nat
    BY NamesOk
  <2>2. Count \in 0..Count
    BY <2>1
  <2>3. QED BY <1>1, <1>2, <2>2 DEF Joins
<1>4. "begin" \in Tokens /\ "end" \in Tokens
  BY DEF Tokens
<1>5. t = <<"begin">> \o a \o <<"end">> /\ t = <<"begin">> \o b \o <<"end">>
  BY <1>1, <1>2
<1> HIDE DEF a, b, t
<1>6. Len(t) = Len(a) + 2 /\ \A p \in 1..Len(a) : t[p + 1] = a[p]
  BY <1>3, <1>5, Framed
<1>7. Len(t) = Len(b) + 2 /\ \A p \in 1..Len(b) : t[p + 1] = b[p]
  BY <1>3, <1>5, Framed
<1>8. Len(a) = Len(b)
  <2>1. Len(a) \in Nat /\ Len(b) \in Nat
    BY <1>3
  <2>2. QED BY <1>6, <1>7, <2>1
<1>9. \A p \in 1..Len(a) : a[p] = b[p]
  BY <1>6, <1>7, <1>8
<1>10. a = b
  BY <1>3, <1>8, <1>9, SameSeq
<1>11. QED BY <1>1, <1>2, <1>10, BodyTells DEF a, b

(* What LoadState accepts is the text of what it restores.                  *)
LEMMA ValidIs ==
    ASSUME NEW t, Valid(t)
    PROVE  /\ Unmarshal(t) \in States /\ MarshalIndent(Unmarshal(t)) = t
           /\ Whole(t)
<1>1. Unmarshal(t) = CHOOSE m \in States : MarshalIndent(m) = t
  BY DEF Unmarshal
<1>2. \E m \in States : MarshalIndent(m) = t
  BY DEF Valid
<1>3. Unmarshal(t) \in States /\ MarshalIndent(Unmarshal(t)) = t
  BY <1>1, <1>2, Zenon
<1>4. Whole(MarshalIndent(Unmarshal(t)))
  BY <1>3, TextIsWhole
<1>5. QED BY <1>3, <1>4

(* What was marshalled is restored.                                         *)
LEMMA TextRestores ==
    ASSUME NEW m \in States
    PROVE  Valid(MarshalIndent(m)) /\ Unmarshal(MarshalIndent(m)) = m
<1>1. Valid(MarshalIndent(m))
  BY DEF Valid
<1>2. QED BY <1>1, ValidIs, TextTells, Zenon

(* LoadState always yields a job map.                                       *)
LEMMA UnmarshalType ==
    ASSUME NEW t
    PROVE  Unmarshal(t) \in States
<1>1. CASE Valid(t)
  BY <1>1, ValidIs
<1>2. CASE ~Valid(t)
  BY <1>2 DEF Unmarshal, NoJobs, States, Entries
<1>3. QED BY <1>1, <1>2

(* Right after O_TRUNC the file is unreadable.                              *)
LEMMA EmptyNotValid == ~Valid(<<>>)
BY ValidIs DEF Whole

(* A whole text written over another is left whole and alone, or the tail of *)
(* the other makes the file unreadable: nothing is put together from two.   *)
LEMMA OverwriteLeaves ==
    ASSUME NEW t, Whole(t), NEW old \in Seq(Tokens)
    PROVE  /\ Overwrite(t, old) \in Seq(Tokens)
           /\ Valid(Overwrite(t, old)) => Overwrite(t, old) = t
           /\ old = <<>> => Overwrite(t, old) = t
<1> DEFINE tail == SubSeq(old, Len(t) + 1, Len(old))
           u == t \o tail
<1>1. t \in Seq(Tokens) /\ Len(t) > 1 /\ Len(t) \in Nat /\ Len(old) \in Nat
  BY DEF Whole
<1>2. tail \in Seq(Tokens)
  <2>1. \A i \in (Len(t) + 1)..Len(old) : old[i] \in Tokens
    BY <1>1
  <2>2. QED BY <1>1, <2>1
<1>3. Overwrite(t, old) = u
  BY DEF Overwrite
<1> HIDE DEF tail
<1>4. u \in Seq(Tokens) /\ Len(u) = Len(t) + Len(tail) /\ Len(tail) \in Nat
  BY <1>1, <1>2
<1>5. u[Len(t)] = t[Len(t)]
  BY <1>1, <1>2
<1>6. tail = <<>> => u = t
  BY <1>1
<1> HIDE DEF u
<1>7. ASSUME Valid(u) PROVE u = t
  <2>1. Whole(u)
    BY <1>7, ValidIs
  <2>2. ASSUME tail # <<>> PROVE FALSE
    <3>1. Len(tail) > 0
      BY <1>2, <2>2
    <3>2. Len(t) \in 1..Len(u) /\ Len(t) < Len(u)
      BY <1>1, <1>4, <3>1
    <3>3. QED BY <1>5, <2>1, <3>2 DEF Whole
  <2>3. QED BY <1>6, <2>2
<1>8. ASSUME old = <<>> PROVE u = t
  <2>1. Len(old) = 0 /\ Len(old) < Len(t) + 1
    BY <1>1, <1>8
  <2>2. tail = <<>>
    BY <1>1, <2>1 DEF tail
  <2>3. QED BY <1>6, <2>2
<1>9. QED BY <1>3, <1>4, <1>7, <1>8

(* A text cut short is not accepted.                                        *)
LEMMA PrefixIsBroken ==
    ASSUME NEW t, Whole(t), NEW n \in 0..Len(t) - 1
    PROVE  SubSeq(t, 1, n) \in Seq(Tokens) /\ ~Valid(SubSeq(t, 1, n))
<1> DEFINE u == SubSeq(t, 1, n)
<1>1. t \in Seq(Tokens) /\ Len(t) \in Nat
  BY DEF Whole
<1>2. u \in Seq(Tokens) /\ Len(u) = n /\ \A p \in 1..n : u[p] = t[p]
  BY <1>1
<1> HIDE DEF u
<1>3. ASSUME Valid(u) PROVE FALSE
  <2>1. Len(u) > 1 /\ u[Len(u)] = "end"
    BY <1>3, ValidIs DEF Whole
  <2>2. n \in 1..n /\ n \in 1..Len(t) /\ n < Len(t) /\ u[n] = "end"
    BY <1>1, <1>2, <2>1
  <2>3. QED BY <1>2, <2>2 DEF Whole
<1>4. QED BY <1>2, <1>3 DEF u

-----------------------------------------------------------------------------
(* The invariant of state.json, memory and the saves under way.             *)

(* Types, but for the flag.                                                 *)
StoreTyped ==
    /\ phase \in {"down", "loaded", "up"}
    /\ mem \in States
    /\ pc \in [Jobs -> {"idle", "marshal", "open", "write"}]
    /\ snap \in [Jobs -> Seq(Tokens)]
    /\ file \in Seq(Tokens)
    /\ shells \subseteq Jobs /\ recorded \subseteq Jobs /\ kept \subseteq Jobs
    /\ crashes \in 0..MaxCrashes

(* What a text restores was recorded, and its outer directory is there.     *)
Backed(t) == Paths(Unmarshal(t)) \subseteq recorded \cap shells

(* A goroutine that saves holds a whole text; it saves only while the       *)
(* process is up. The same goes for memory and for a file that parses.      *)
Saves ==
    /\ phase # "up" => \A j \in Jobs : pc[j] = "idle"
    /\ phase = "loaded" => mem = Unmarshal(file)
    /\ \A j \in Jobs : IF pc[j] \in {"open", "write"}
                       THEN Valid(snap[j]) /\ Backed(snap[j])
                       ELSE snap[j] = <<>>
    /\ Paths(mem) \subseteq recorded \cap shells
    /\ Valid(file) => Backed(file)
    /\ kept \subseteq Paths(mem)

(* As long as one save at a time has run to its end, it writes what memory  *)
(* holds.                                                                   *)
Current ==
    ~stale =>
       /\ phase # "down" /\ Busy = {} => file = MarshalIndent(mem)
       /\ \A i, j \in Busy : i = j
       /\ \A j \in Jobs : pc[j] \in {"open", "write"} => snap[j] = MarshalIndent(mem)
       /\ \A j \in Jobs : pc[j] = "write" => file = <<>>

Stored == StoreTyped /\ Saves /\ Current

(* What the two updates of an entry leave.                                  *)
LEMMA PathsType ==
    ASSUME NEW m \in States, NEW j \in Jobs
    PROVE  /\ m[j].path \in BOOLEAN
           /\ \A long \in BOOLEAN : [known |-> TRUE, path |-> m[j].path, long |-> long] \in Entries
           /\ m[j].known => [m[j] EXCEPT !.path = TRUE] \in Entries /\ [m[j] EXCEPT !.path = TRUE].path
<1>1. m[j] \in Entries
  BY DEF States
<1>2. m[j].path \in BOOLEAN
  <2>1. CASE m[j] = Absent
    <3>1. Absent.path = FALSE
      BY DEF Absent
    <3>2. QED BY <2>1, <3>1, Zenon
  <2>2. CASE m[j] # Absent
    BY <1>1, <2>2 DEF Entries
  <2>3. QED BY <2>1, <2>2
<1>3. \A long \in BOOLEAN : [known |-> TRUE, path |-> m[j].path, long |-> long] \in Entries
  BY <1>2 DEF Entries
<1>4. ASSUME m[j].known
      PROVE  [m[j] EXCEPT !.path = TRUE] \in Entries /\ [m[j] EXCEPT !.path = TRUE].path
  <2>1. m[j] # Absent
    BY <1>4 DEF Absent
  <2>2. m[j] \in [known : {TRUE}, path : BOOLEAN, long : BOOLEAN]
    BY <1>1, <2>1 DEF Entries
  <2>3. [m[j] EXCEPT !.path = TRUE] \in [known : {TRUE}, path : BOOLEAN, long : BOOLEAN]
    BY <2>2
  <2>4. QED BY <2>2, <2>3 DEF Entries
<1>5. QED BY <1>2, <1>3, <1>4

(* Without jobs there are no paths.                                         *)
LEMMA NoPaths == NoJobs \in States /\ Paths(NoJobs) = {}
BY DEF NoJobs, States, Entries, Paths, Absent

(* Nothing is stored at first.                                              *)
LEMMA StoredInit ==
    ASSUME StoreInit
    PROVE  Stored
<1>1. StoreTyped
  BY NoPaths, StoreAssumption DEF StoreTyped, StoreInit, StoreAssumption
<1>2. Saves
  BY NoPaths, EmptyNotValid DEF Saves, StoreInit
<1>3. Current
  BY DEF Current, StoreInit
<1>4. QED BY <1>1, <1>2, <1>3 DEF Stored

(* The steps outside a save.                                                *)
LEMMA ProcessStep ==
    ASSUME Stored, LoadState \/ SweepOrphanDownloads \/ Crash \/ \E j \in Jobs : StartDownload(j)
    PROVE  Stored'
<1>1. StoreTyped /\ Saves /\ Current
  BY DEF Stored
<1>2. CASE LoadState
  <2>1. mem' = Unmarshal(file) /\ kept' = Paths(mem') /\ phase = "down" /\ phase' = "loaded"
        /\ UNCHANGED <<pc, snap, file, shells, recorded, crashes>>
    BY <1>2 DEF LoadState
  <2>2. mem' \in States /\ Paths(mem') \subseteq Jobs
    BY <2>1, UnmarshalType DEF Paths
  <2>3. StoreTyped'
    BY <1>1, <2>1, <2>2 DEF StoreTyped
  <2>4. Paths(mem') \subseteq recorded \cap shells
    <3>1. CASE Valid(file)
      BY <1>1, <2>1, <3>1 DEF Saves, Backed
    <3>2. CASE ~Valid(file)
      BY <2>1, <3>2, NoPaths DEF Unmarshal
    <3>3. QED BY <3>1, <3>2
  <2>5. Saves'
    BY <1>1, <2>1, <2>4 DEF Saves, Backed
  <2>6. Current'
    <3>1. ASSUME ~stale' PROVE file' = MarshalIndent(mem')
      BY <1>2, <2>1, <3>1, ValidIs DEF LoadState
    <3>2. \A j \in Jobs : pc'[j] = "idle"
      BY <1>1, <2>1 DEF Saves
    <3>3. QED BY <3>1, <3>2 DEF Current, Busy
  <2>7. QED BY <2>3, <2>5, <2>6 DEF Stored
<1>3. CASE SweepOrphanDownloads
  <2>1. /\ phase = "loaded" /\ phase' = "up" /\ shells' = {j \in shells : mem[j].path}
        /\ UNCHANGED <<mem, pc, snap, file, stale, recorded, kept, crashes>>
    BY <1>3 DEF SweepOrphanDownloads, Referenced
  <2>2. StoreTyped'
    BY <1>1, <2>1 DEF StoreTyped
  <2>3. Paths(mem) \subseteq shells'
    BY <1>1, <2>1 DEF Saves, Paths
  <2>4. \A j \in Jobs : pc[j] = "idle"
    BY <1>1, <2>1 DEF Saves
  <2>5. Valid(file) => Paths(Unmarshal(file)) \subseteq recorded \cap shells'
    BY <1>1, <2>1, <2>3 DEF Saves
  <2>6. Saves'
    BY <1>1, <2>1, <2>3, <2>4, <2>5 DEF Saves, Backed
  <2>7. Current'
    BY <1>1, <2>1 DEF Current, Busy
  <2>8. QED BY <2>2, <2>6, <2>7 DEF Stored
<1>4. CASE Crash
  <2>1. /\ phase' = "down" /\ crashes < MaxCrashes /\ crashes' = crashes + 1 /\ mem' = NoJobs /\ kept' = {}
        /\ pc' = [j \in Jobs |-> "idle"] /\ snap' = [j \in Jobs |-> <<>>]
        /\ UNCHANGED <<file, shells, stale, recorded>>
    BY <1>4 DEF Crash
  <2>2. StoreTyped'
    BY <1>1, <2>1, NoPaths, StoreAssumption DEF StoreTyped, StoreAssumption
  <2>3. Saves'
    BY <1>1, <2>1, NoPaths DEF Saves, Backed
  <2>4. Current'
    BY <2>1 DEF Current, Busy
  <2>5. QED BY <2>2, <2>3, <2>4 DEF Stored
<1>5. ASSUME NEW j \in Jobs, StartDownload(j) PROVE Stored'
  <2>1. shells' = shells \cup {j} /\ UNCHANGED <<phase, mem, pc, snap, file, stale, recorded, kept, crashes>>
    BY <1>5 DEF StartDownload
  <2>2. StoreTyped'
    BY <1>1, <2>1 DEF StoreTyped
  <2>3. Saves'
    BY <1>1, <2>1 DEF Saves, Backed
  <2>4. Current'
    BY <1>1, <2>1 DEF Current, Busy
  <2>5. QED BY <2>2, <2>3, <2>4 DEF Stored
<1>6. QED BY <1>2, <1>3, <1>4, <1>5

(* UpdateState and UpdateJobMeta change memory and begin a save.            *)
LEMMA ChangeStep ==
    ASSUME Stored, NEW j \in Jobs, UpdateState(j) \/ UpdateJobMeta(j)
    PROVE  Stored'
<1>1. StoreTyped /\ Saves /\ Current
  BY DEF Stored
<1>2. /\ pc[j] = "idle" /\ pc' = [pc EXCEPT ![j] = "marshal"] /\ phase = "up"
      /\ stale' = (Busy # {})
      /\ UNCHANGED <<phase, snap, file, shells, crashes>>
  BY DEF UpdateState, UpdateJobMeta, At, Goto
<1>3. /\ mem' \in States
      /\ \/ Paths(mem') = Paths(mem) /\ UNCHANGED <<recorded, kept>>
         \/ /\ j \in shells /\ Paths(mem') = Paths(mem) \cup {j}
            /\ recorded' = recorded \cup {j} /\ kept' = kept \cup {j}
  <2>1. CASE UpdateState(j)
    <3>1. PICK long \in BOOLEAN : mem' = [mem EXCEPT ![j] = UpdatedEntry(j, long)]
      BY <2>1 DEF UpdateState
    <3>2. UpdatedEntry(j, long) \in Entries /\ UpdatedEntry(j, long).path = mem[j].path
      BY <1>1, PathsType DEF StoreTyped, UpdatedEntry
    <3>3. mem' \in States
      BY <1>1, <3>1, <3>2 DEF StoreTyped, States
    <3>4. \A i \in Jobs : mem'[i].path = mem[i].path
      BY <1>1, <3>1, <3>2 DEF StoreTyped, States
    <3>5. Paths(mem') = Paths(mem)
      BY <3>4 DEF Paths
    <3>6. UNCHANGED <<recorded, kept>>
      BY <2>1 DEF UpdateState
    <3>7. QED BY <3>3, <3>5, <3>6
  <2>2. CASE UpdateJobMeta(j)
    <3>1. mem' = [mem EXCEPT ![j] = [mem[j] EXCEPT !.path = TRUE]] /\ mem[j].known /\ j \in shells
      BY <2>2 DEF UpdateJobMeta, JobExists
    <3> DEFINE e == [mem[j] EXCEPT !.path = TRUE]
    <3>2. e \in Entries /\ e.path
      BY <1>1, <3>1, PathsType DEF StoreTyped
    <3> HIDE DEF e
    <3>3. mem' = [mem EXCEPT ![j] = e]
      BY <3>1 DEF e
    <3>4. mem' \in States
      BY <1>1, <3>2, <3>3 DEF StoreTyped, States
    <3>5. \A i \in Jobs : mem'[i] = IF i = j THEN e ELSE mem[i]
      BY <1>1, <3>3 DEF StoreTyped, States
    <3>6. Paths(mem') = Paths(mem) \cup {j}
      BY <3>2, <3>5 DEF Paths
    <3>7. recorded' = recorded \cup {j} /\ kept' = kept \cup {j}
      BY <2>2 DEF UpdateJobMeta
    <3>8. QED BY <3>1, <3>4, <3>6, <3>7
  <2>3. QED BY <2>1, <2>2
<1>4. StoreTyped'
  BY <1>1, <1>2, <1>3 DEF StoreTyped
<1>5. \A i \in Jobs : pc'[i] = IF i = j THEN "marshal" ELSE pc[i]
  BY <1>1, <1>2 DEF StoreTyped
<1>6. recorded \subseteq recorded' /\ Paths(mem') \subseteq recorded' \cap shells /\ kept' \subseteq Paths(mem')
  BY <1>1, <1>3 DEF Saves
<1>7. Saves'
  <2>1. snap[j] = <<>>
    BY <1>1, <1>2 DEF Saves
  <2>2. ASSUME NEW i \in Jobs
        PROVE  IF pc'[i] \in {"open", "write"}
               THEN Valid(snap[i]) /\ Paths(Unmarshal(snap[i])) \subseteq recorded' \cap shells
               ELSE snap[i] = <<>>
    BY <1>1, <1>2, <1>5, <1>6, <2>1 DEF Saves, Backed
  <2>3. Valid(file) => Paths(Unmarshal(file)) \subseteq recorded' \cap shells
    BY <1>1, <1>6 DEF Saves, Backed
  <2>4. QED BY <1>2, <1>6, <2>2, <2>3 DEF Saves, Backed
<1>8. Current'
  <2>1. SUFFICES ASSUME ~stale' PROVE Busy' = {j} /\ pc'[j] = "marshal"
    BY <1>5 DEF Current, Busy
  <2>2. Busy = {}
    BY <1>2, <2>1
  <2>3. QED BY <1>5, <2>2 DEF Busy
<1>9. QED BY <1>4, <1>7, <1>8 DEF Stored

(* The steps of a save.                                                     *)
LEMMA SaveStep ==
    ASSUME Stored, NEW j \in Jobs, Marshal(j) \/ Open(j) \/ Write(j) \/ WriteFails(j)
    PROVE  Stored'
<1>1. StoreTyped /\ Saves /\ Current
  BY DEF Stored
<1>2. /\ phase = "up" /\ UNCHANGED <<phase, mem, shells, recorded, kept, crashes>>
  BY DEF Marshal, Open, Write, WriteFails, At
<1>3. CASE Marshal(j)
  <2>1. /\ pc[j] = "marshal" /\ snap' = [snap EXCEPT ![j] = MarshalIndent(mem)]
        /\ pc' = [pc EXCEPT ![j] = "open"] /\ UNCHANGED <<file, stale>>
    BY <1>3 DEF Marshal, At, Goto
  <2>2. MarshalIndent(mem) \in Seq(Tokens) /\ Valid(MarshalIndent(mem)) /\ Backed(MarshalIndent(mem))
    BY <1>1, TextIsWhole, TextRestores DEF StoreTyped, Whole, Backed, Saves
  <2>3. StoreTyped'
    BY <1>1, <1>2, <2>1, <2>2 DEF StoreTyped
  <2>4. \A i \in Jobs : /\ pc'[i] = IF i = j THEN "open" ELSE pc[i]
                        /\ snap'[i] = IF i = j THEN MarshalIndent(mem) ELSE snap[i]
    BY <1>1, <2>1 DEF StoreTyped
  <2>5. Saves'
    BY <1>1, <1>2, <2>1, <2>2, <2>4 DEF Saves, Backed
  <2>6. Busy' = Busy /\ j \in Busy
    BY <2>1, <2>4 DEF Busy
  <2>7. Current'
    BY <1>1, <1>2, <2>1, <2>4, <2>6 DEF Current
  <2>8. QED BY <2>3, <2>5, <2>7 DEF Stored
<1>4. CASE Open(j)
  <2>1. /\ pc[j] = "open" /\ file' = <<>> /\ pc' = [pc EXCEPT ![j] = "write"]
        /\ UNCHANGED <<snap, stale>>
    BY <1>4 DEF Open, At, Goto, Truncated
  <2>2. StoreTyped'
    BY <1>1, <1>2, <2>1 DEF StoreTyped
  <2>3. \A i \in Jobs : pc'[i] = IF i = j THEN "write" ELSE pc[i]
    BY <1>1, <2>1 DEF StoreTyped
  <2>4. Saves'
    BY <1>1, <1>2, <2>1, <2>3, EmptyNotValid DEF Saves, Backed
  <2>5. Busy' = Busy /\ j \in Busy
    BY <2>1, <2>3 DEF Busy
  <2>6. Current'
    BY <1>1, <1>2, <2>1, <2>3, <2>5 DEF Current
  <2>7. QED BY <2>2, <2>4, <2>6 DEF Stored
<1>5. CASE Write(j)
  <2>1. /\ pc[j] = "write" /\ file' = Overwrite(snap[j], file)
        /\ snap' = [snap EXCEPT ![j] = <<>>]
        /\ pc' = [pc EXCEPT ![j] = "idle"] /\ UNCHANGED stale
    BY <1>5 DEF Write, At, Goto
  <2>2. Valid(snap[j]) /\ Backed(snap[j]) /\ Whole(snap[j])
    BY <1>1, <2>1, ValidIs DEF Saves
  <2>3. /\ file' \in Seq(Tokens)
        /\ Valid(file') => file' = snap[j]
        /\ file = <<>> => file' = snap[j]
    BY <1>1, <2>1, <2>2, OverwriteLeaves DEF StoreTyped
  <2>4. StoreTyped'
    BY <1>1, <1>2, <2>1, <2>3 DEF StoreTyped
  <2>5. \A i \in Jobs : /\ pc'[i] = IF i = j THEN "idle" ELSE pc[i]
                        /\ snap'[i] = IF i = j THEN <<>> ELSE snap[i]
    BY <1>1, <2>1 DEF StoreTyped
  <2>6. Saves'
    BY <1>1, <1>2, <2>2, <2>3, <2>5 DEF Saves, Backed
  <2>7. Current'
    <3>1. ASSUME ~stale' PROVE /\ file' = MarshalIndent(mem)
                               /\ \A i \in Jobs : pc'[i] = "idle"
      <4>1. file = <<>> /\ snap[j] = MarshalIndent(mem)
        BY <1>1, <2>1, <3>1 DEF Current
      <4>2. j \in Busy
        BY <2>1 DEF Busy
      <4>3. \A i \in Jobs : i # j => pc[i] = "idle"
        BY <1>1, <2>1, <3>1, <4>2 DEF Current, Busy
      <4>4. QED BY <2>3, <2>5, <4>1, <4>3
    <3>2. QED BY <1>2, <3>1 DEF Current, Busy
  <2>8. QED BY <2>4, <2>6, <2>7 DEF Stored
<1>6. CASE WriteFails(j)
  <2>1. /\ pc[j] = "write" /\ stale' = TRUE
        /\ snap' = [snap EXCEPT ![j] = <<>>]
        /\ pc' = [pc EXCEPT ![j] = "idle"]
    BY <1>6 DEF WriteFails, At, Goto
  <2>2. PICK n \in Len(file)..Len(snap[j]) - 1 : file' = SubSeq(snap[j], 1, n)
    BY <1>6 DEF WriteFails
  <2>3. Whole(snap[j])
    BY <1>1, <2>1, ValidIs DEF Saves
  <2>4. file' \in Seq(Tokens) /\ ~Valid(file')
    <3>1. Len(file) \in Nat
      BY <1>1 DEF StoreTyped
    <3>2. Len(snap[j]) \in Nat
      BY <2>3 DEF Whole
    <3>3. n \in 0..Len(snap[j]) - 1
      BY <3>1, <3>2
    <3>4. QED BY <2>2, <2>3, <3>3, PrefixIsBroken
  <2>5. StoreTyped'
    BY <1>1, <1>2, <2>1, <2>4 DEF StoreTyped
  <2>6. \A i \in Jobs : /\ pc'[i] = IF i = j THEN "idle" ELSE pc[i]
                        /\ snap'[i] = IF i = j THEN <<>> ELSE snap[i]
    BY <1>1, <2>1 DEF StoreTyped
  <2>7. Saves'
    BY <1>1, <1>2, <2>4, <2>6 DEF Saves, Backed
  <2>8. Current'
    BY <2>1 DEF Current
  <2>9. QED BY <2>5, <2>7, <2>8 DEF Stored
<1>7. QED BY <1>3, <1>4, <1>5, <1>6

(* All steps together.                                                      *)
LEMMA StoredStep == Stored /\ [StoreNext]_storeVars => Stored'
<1>1. CASE UNCHANGED storeVars
  BY <1>1 DEF storeVars, Stored, StoreTyped, Saves, Current, Backed, Busy
<1>2. ASSUME Stored, StoreNext PROVE Stored'
  BY <1>2, ProcessStep, ChangeStep, SaveStep DEF StoreNext
<1>3. QED BY <1>1, <1>2

(* The flag is one.                                                         *)
LEMMA StaleTyped == StoreSpec => [](stale \in BOOLEAN)
<1>1. StoreInit => stale \in BOOLEAN
  BY Zenon DEF StoreInit
<1>2. ASSUME stale \in BOOLEAN, [StoreNext]_storeVars PROVE (stale \in BOOLEAN)'
  <2>1. \/ stale' = stale \/ stale' = TRUE \/ stale' = (Busy # {}) \/ stale' = ~Valid(file)
    BY <1>2 DEF StoreNext, storeVars, LoadState, SweepOrphanDownloads, Crash, StartDownload, UpdateState,
       UpdateJobMeta, Marshal, Open, Write, WriteFails
  <2>2. QED BY <1>2, <2>1, Zenon
<1>3. QED BY <1>1, <1>2, PTL DEF StoreSpec

(* For any jobs and any overlap, failure or loss of saves: state.json is    *)
(* rejected as a whole or restores only paths that UpdateJobMeta recorded and *)
(* whose outer directory dl-<job> is there; after a save that ran alone and *)
(* to its end, it restores exactly what memory held.                        *)
THEOREM RestoredIsRecorded == StoreSpec => []FileTrustworthy
<1>1. Stored => FileTrustworthy
  BY TextRestores DEF Stored, StoreTyped, Saves, Current, Backed, FileTrustworthy
<1>2. QED BY <1>1, StoredInit, StoredStep, PTL DEF StoreSpec

(* For any jobs: a path that the running process has loaded or recorded is in *)
(* memory, and neither the sweep at start nor another update took away the  *)
(* outer directory dl-<job> it lies in.                                     *)
THEOREM ResumableNeverLost == StoreSpec => []ResumableKept
<1>1. Stored /\ stale \in BOOLEAN => ResumableKept
  <2>1. SUFFICES ASSUME Stored, stale \in BOOLEAN PROVE ResumableKept
    OBVIOUS
  <2>2. \A j \in Jobs : snap[j] = <<>> \/ Valid(snap[j])
    BY <2>1 DEF Stored, Saves
  <2>3. StoreTypeOK
    BY <2>1, <2>2, Zenon DEF Stored, StoreTyped, StoreTypeOK, Tokens
  <2>4. QED BY <2>1, <2>3 DEF ResumableKept, Stored, Saves
<1>2. QED BY <1>1, StaleTyped, StoredInit, StoredStep, PTL DEF StoreSpec

-----------------------------------------------------------------------------
(* The watchdog.                                                            *)

USE WatchdogAssumption DEF WatchdogAssumption, MaxAttempts

(* The Boolean variables apart from the others: no prover likes both.       *)
Flags ==
    /\ up \in BOOLEAN /\ net \in BOOLEAN /\ tunnel \in BOOLEAN
    /\ due \in BOOLEAN /\ atRisk \in BOOLEAN

Numbers ==
    /\ age \in Nat
    /\ wpc \in {"ticker", "stop", "run"} /\ path \in {1, 2}
    /\ busy \in 0..RestartMax
    /\ cool \in 0..VPNCooldown
    /\ hb \in 0..HttpTimeout + 1
    /\ back \in 0..HttpTimeout + 1
    /\ tpc \in {"none", "progress", "send", "backoff", "notify", "wait", "save"}
    /\ attempt \in 1..MaxAttempts
    /\ left \in Nat /\ pause \in Nat

(* Each step keeps the variables that are not Boolean within their bounds.  *)
LEMMA NumbersStep == Numbers /\ [Next]_vars => Numbers'
<1> SUFFICES ASSUME Numbers, [Next]_vars PROVE Numbers'
  OBVIOUS
<1> USE DEF Numbers, proc, task
<1>1. CASE ReporterAnswered
  BY <1>1 DEF ReporterAnswered, RoundTrip, Assess
<1>2. CASE ReporterFails
  BY <1>2 DEF ReporterFails
<1>3. CASE WatchdogIdle
  BY <1>3 DEF WatchdogIdle
<1>4. CASE WatchdogExit
  BY <1>4 DEF WatchdogExit
<1>5. CASE RestartBegin
  BY <1>5 DEF RestartBegin
<1>6. CASE PutStopped
  BY <1>6 DEF PutStopped
<1>7. CASE PutRunning
  BY <1>7 DEF PutRunning, RestartDone
<1>8. CASE PutFails
  BY <1>8 DEF PutFails, RestartDone
<1>9. CASE UploadDone
  BY <1>9 DEF UploadDone, GoOn, Assess
<1>10. CASE ProgressAnswered
  BY <1>10 DEF ProgressAnswered, RoundTrip, AfterProgress, GoOn, Assess
<1>11. CASE ProgressFails
  BY <1>11 DEF ProgressFails, AfterProgress, GoOn
<1>12. CASE Completed
  BY <1>12 DEF Completed, RoundTrip, GoOn, Assess
<1>13. CASE CompleteRefused
  BY <1>13 DEF CompleteRefused, RoundTrip, Retry, LastAttempt, GoOn, Assess
<1>14. CASE CompleteTimesOut
  BY <1>14 DEF CompleteTimesOut, Retry, LastAttempt, GoOn
<1>15. CASE CompleteMaint
  BY <1>15 DEF CompleteMaint, RoundTrip, GoOn, Assess
<1>16. CASE Wake
  BY <1>16 DEF Wake, GoOn
<1>17. CASE SaveBackup
  BY <1>17 DEF SaveBackup, GoOn
<1>18. CASE Tick
  BY <1>18 DEF Tick, TimeMayPass, InHand, Capped
<1>19. CASE NetworkChanges
  BY <1>19 DEF NetworkChanges
<1>20. CASE Boot
  BY <1>20 DEF Boot
<1>21. CASE UNCHANGED vars
  BY <1>21 DEF vars
<1> QED
  BY <1>1, <1>2, <1>3, <1>4, <1>5, <1>6, <1>7, <1>8, <1>9, <1>10, <1>11, <1>12, <1>13, <1>14,
     <1>15, <1>16, <1>17, <1>18, <1>19, <1>20, <1>21 DEF Next, Reporter, Look, Put, Report
(* ... and the Boolean ones Boolean.                                        *)
LEMMA FlagsStep == Flags /\ [Next]_vars => Flags'
<1> SUFFICES ASSUME Flags, [Next]_vars PROVE Flags'
  OBVIOUS
<1> USE DEF Flags, proc
<1>1. CASE ReporterAnswered
  BY <1>1 DEF ReporterAnswered, Assess
<1>2. CASE ReporterFails
  BY <1>2 DEF ReporterFails
<1>3. CASE WatchdogIdle
  BY <1>3 DEF WatchdogIdle
<1>4. CASE WatchdogExit
  BY <1>4 DEF WatchdogExit
<1>5. CASE RestartBegin
  BY <1>5 DEF RestartBegin
<1>6. CASE PutStopped
  BY <1>6 DEF PutStopped
<1>7. CASE PutRunning
  BY <1>7 DEF PutRunning
<1>8. CASE PutFails
  BY <1>8 DEF PutFails
<1>9. CASE UploadDone
  BY <1>9 DEF UploadDone, Assess
<1>10. CASE ProgressAnswered
  BY <1>10 DEF ProgressAnswered, Assess
<1>11. CASE ProgressFails
  BY <1>11 DEF ProgressFails
<1>12. CASE Completed
  BY <1>12 DEF Completed, Assess
<1>13. CASE CompleteRefused
  BY <1>13 DEF CompleteRefused, Assess
<1>14. CASE CompleteTimesOut
  BY <1>14 DEF CompleteTimesOut
<1>15. CASE CompleteMaint
  BY <1>15 DEF CompleteMaint, Assess
<1>16. CASE Wake
  BY <1>16 DEF Wake
<1>17. CASE SaveBackup
  BY <1>17 DEF SaveBackup
<1>18. CASE Tick
  BY <1>18 DEF Tick
<1>19. CASE NetworkChanges
  BY <1>19 DEF NetworkChanges
<1>20. CASE Boot
  BY <1>20 DEF Boot
<1>21. CASE UNCHANGED vars
  BY <1>21 DEF vars
<1> QED
  BY <1>1, <1>2, <1>3, <1>4, <1>5, <1>6, <1>7, <1>8, <1>9, <1>10, <1>11, <1>12, <1>13, <1>14,
     <1>15, <1>16, <1>17, <1>18, <1>19, <1>20, <1>21 DEF Next, Reporter, Look, Put, Report

(* TypeOK is an invariant.                                                  *)
LEMMA Typed == Spec => [](Numbers /\ Flags)
<1>1. Init => Numbers
  BY DEF Init, Numbers
<1>2. Init => Flags
  BY DEF Init, Flags
<1> QED
  BY <1>1, <1>2, NumbersStep, FlagsStep, PTL DEF Spec

-----------------------------------------------------------------------------
(* How long the process may be cut off. The watchdog looks at every tick it *)
(* is free for, so at rest its clock is below the exit threshold; a restart *)
(* begins below it and adds no more units than it lasts.                    *)

Blackout ==
    /\ wpc = "ticker" /\ ~due => age < HardExitAfter
    /\ wpc # "ticker" => age < HardExitAfter + busy
    /\ wpc # "ticker" /\ ~due => busy = 0
    /\ age < HardExitAfter + RestartMax

(* What the steps that are neither the watchdog's nor time's leave alone.   *)
LEMMA ClockSteps ==
    [Next]_vars => \/ Look \/ Put \/ Tick
                   \/ UNCHANGED <<due, wpc, busy, path, cool>> /\ age' \in {0, age}
BY DEF Next, vars, proc, Reporter, ReporterAnswered, ReporterFails, RoundTrip, UploadDone, Report,
       ProgressAnswered, ProgressFails, Completed, CompleteRefused, CompleteTimesOut,
       CompleteMaint, Wake, SaveBackup, NetworkChanges, Boot

LEMMA BlackoutStep == Numbers /\ Blackout /\ [Next]_vars => Blackout'
<1> SUFFICES ASSUME Numbers, Blackout, [Next]_vars PROVE Blackout'
  OBVIOUS
<1> USE DEF Numbers, Blackout
<1>1. CASE Look
  BY <1>1 DEF Look, WatchdogIdle, WatchdogExit, RestartBegin, AtTick, Silent
<1>2. CASE Put
  BY <1>2 DEF Put, PutStopped, PutRunning, PutFails, RestartDone
<1>3. CASE Tick
  BY <1>3 DEF Tick, TimeMayPass
<1>4. CASE UNCHANGED <<due, wpc, busy, path, cool>> /\ age' \in {0, age}
  BY <1>4
<1> QED
  BY <1>1, <1>2, <1>3, <1>4, ClockSteps

(* A process that has been cut off for longer than the exit threshold and   *)
(* the longest VPN restart does not exist.                                  *)
THEOREM BlackoutEnds == Spec => []BlackoutBounded
<1>1. Init => Blackout
  BY DEF Init, Blackout
<1>2. Numbers /\ Flags /\ Blackout => BlackoutBounded
  BY DEF Numbers, Flags, Blackout, BlackoutBounded, TypeOK
<1> QED
  BY <1>1, <1>2, Typed, BlackoutStep, PTL DEF Spec

-----------------------------------------------------------------------------
(* The clock is fresh once the site has been reachable for longer than one  *)
(* request can hang. The reporter is either at rest with a fresh clock, or  *)
(* stuck in a request that is at least as old as the recovery.              *)

Fresh ==
    /\ ~Reach => back = 0
    /\ \/ hb = 0 /\ age = 0
       \/ hb = 1 /\ (age <= 1 \/ back <= HttpTimeout)
       \/ hb >= 2 /\ back < hb

LEMMA FreshStep == Numbers /\ Flags /\ Fresh /\ [Next]_vars => Fresh'
<1> SUFFICES ASSUME Numbers, Flags, Fresh, [Next]_vars PROVE Fresh'
  OBVIOUS
<1> USE DEF Numbers, Fresh, Reach, task, proc
<1>1. CASE ReporterAnswered
  BY <1>1 DEF ReporterAnswered, RoundTrip
<1>2. CASE ReporterFails
  BY <1>2 DEF ReporterFails
<1>3. CASE Look
  BY <1>3 DEF Look, WatchdogIdle, WatchdogExit, RestartBegin
<1>4. CASE Put
  BY <1>4 DEF Put, PutStopped, PutRunning, PutFails, Flags
<1>5. CASE Tick
  BY <1>5 DEF Tick, TimeMayPass, Capped
<1>6. CASE NetworkChanges
  BY <1>6 DEF NetworkChanges
<1>7. CASE UNCHANGED <<net, tunnel, hb, back>> /\ age' \in {0, age}
  BY <1>7
<1> QED
  BY <1>1, <1>2, <1>3, <1>4, <1>5, <1>6, <1>7 DEF Next, vars, Reporter, RoundTrip, UploadDone,
     Report, ProgressAnswered, ProgressFails, Completed, CompleteRefused, CompleteTimesOut,
     CompleteMaint, Wake, SaveBackup, Boot

(* The watchdog never restarts the VPN or the process because of a clock    *)
(* that is stale: a recovery is noticed within one request timeout.         *)
THEOREM RestartsNeeded == Spec => NoNeedlessRestart
<1>1. Init => Fresh
  BY DEF Init, Fresh, Reach
<1>2. Numbers /\ Fresh /\ [Next]_vars
        => [(wpc = "ticker" /\ wpc' # "ticker") \/ (up /\ ~up') => back <= HttpTimeout]_vars
  <2> SUFFICES ASSUME Numbers, Fresh, [Next]_vars,
                      (wpc = "ticker" /\ wpc' # "ticker") \/ (up /\ ~up')
               PROVE  back <= HttpTimeout
    OBVIOUS
  <2>1. Silent
    BY DEF Next, vars, proc, Reporter, ReporterAnswered, ReporterFails, RoundTrip, UploadDone,
           Report, ProgressAnswered, ProgressFails, Completed, CompleteRefused, CompleteTimesOut,
           CompleteMaint, Wake, SaveBackup, NetworkChanges, Boot, Tick, Look, WatchdogIdle,
           WatchdogExit, RestartBegin, Put, PutStopped, PutRunning, PutFails, RestartDone,
           Silent, Numbers
  <2> QED
    BY <2>1 DEF Silent, Fresh, Numbers
<1> QED
  BY <1>1, <1>2, Typed, FreshStep, PTL DEF Spec, NoNeedlessRestart

-----------------------------------------------------------------------------
(* The finished NZB. Unless the history says that the time could not be     *)
(* enough, what is left of the attempts and sleeps fits before the exit,    *)
(* and each step without an answer uses up as much of it as it takes.       *)

InTime ==
    /\ tpc = "progress" => attempt = 1
    /\ tpc = "save" => left = 0
    /\ InHand /\ ~atRisk => age + Worst < HardExitAfter

LEMMA FromAttemptStep ==
    ASSUME NEW k \in 1..MaxAttempts
    PROVE  /\ FromAttempt(k) \in Nat /\ FromAttempt(k) >= HttpTimeout
           /\ k < MaxAttempts => FromAttempt(k) = FromAttempt(k + 1) + HttpTimeout + Backoff
<1>1. FromAttempt(1) = HttpTimeout + Backoff + HttpTimeout + Backoff + HttpTimeout
  BY DEF FromAttempt
<1>2. FromAttempt(2) = HttpTimeout + Backoff + HttpTimeout
  BY DEF FromAttempt
<1>3. FromAttempt(3) = HttpTimeout
  BY DEF FromAttempt
<1> QED
  BY <1>1, <1>2, <1>3

LEMMA WorstType == Numbers => Worst \in Nat
BY FromAttemptStep DEF Worst, Numbers

LEMMA InTimeStep == Numbers /\ InTime /\ [Next]_vars => InTime'
<1> SUFFICES ASSUME Numbers, InTime, [Next]_vars PROVE InTime'
  OBVIOUS
<1>0. /\ FromAttempt(attempt) \in Nat /\ FromAttempt(attempt) >= HttpTimeout
      /\ attempt < MaxAttempts =>
           /\ FromAttempt(attempt + 1) \in Nat
           /\ FromAttempt(attempt) = FromAttempt(attempt + 1) + HttpTimeout + Backoff
      /\ FromAttempt(1) \in Nat
  BY FromAttemptStep DEF Numbers
<1> USE DEF Numbers, InTime, InHand, task, proc
<1>1. CASE Assess /\ (tpc' = "progress" => attempt' = 1) /\ (tpc' = "save" => left' = 0)
  <2>1. Numbers'
    BY NumbersStep
  <2>2. (Numbers => Worst \in Nat)'
    BY WorstType, PTL
  <2>3. InHand' /\ ~atRisk' => ~(age' + Worst' >= HardExitAfter)
    BY <1>1, Zenon DEF Assess
  <2> QED
    BY <1>1, <2>1, <2>2, <2>3
<1>2. CASE ProgressFails
  BY <1>0, <1>2 DEF ProgressFails, AfterProgress, GoOn, Worst
<1>3. CASE CompleteTimesOut
  <2>1. Worst = left + FromAttempt(attempt) - HttpTimeout
    BY <1>3 DEF CompleteTimesOut, Worst
  <2>2. CASE LastAttempt
    BY <1>0, <1>3, <2>1, <2>2 DEF CompleteTimesOut, Retry, GoOn, Worst
  <2>3. CASE ~LastAttempt
    <3>1. tpc' = "backoff" /\ left' = Backoff /\ attempt' = attempt + 1
      BY <1>3, <2>3 DEF CompleteTimesOut, Retry, GoOn
    <3>2. Worst' = Backoff + FromAttempt(attempt + 1)
      BY <3>1 DEF Worst
    <3> QED
      BY <1>0, <1>3, <2>1, <2>3, <3>1, <3>2 DEF CompleteTimesOut, LastAttempt
  <2> QED
    BY <2>2, <2>3
<1>4. CASE Wake
  BY <1>0, <1>4 DEF Wake, GoOn, Worst
<1>5. CASE SaveBackup \/ WatchdogExit
  BY <1>5 DEF SaveBackup, WatchdogExit, GoOn
<1>6. CASE Tick
  <2>1. CASE ~InHand
    BY <1>6, <2>1 DEF Tick
  <2>2. CASE InHand
    <3>1. Worst' = Worst - 1
      BY <1>0, <1>6, <2>2 DEF Tick, TimeMayPass, Worst
    <3> QED
      BY <1>6, <2>2, <3>1, WorstType DEF Tick, TimeMayPass
  <2> QED
    BY <2>1, <2>2
<1>7. CASE UNCHANGED <<task, age, atRisk>>
  BY <1>7 DEF Worst
<1> QED
  BY <1>1, <1>2, <1>3, <1>4, <1>5, <1>6, <1>7 DEF Next, vars, Reporter, ReporterAnswered,
     ReporterFails, UploadDone, Report, ProgressAnswered, AfterProgress, GoOn, Completed,
     CompleteRefused, Retry, CompleteMaint, NetworkChanges, Boot, Look, WatchdogIdle, RestartBegin,
     Put, PutStopped, PutRunning, PutFails

(* The exit never overtakes the retries and the backup of a finished NZB    *)
(* that had a chance when the site was last heard.                          *)
THEOREM NzbSafeBeforeExit == Spec => SavedBeforeExit
<1>1. Init => InTime
  BY DEF Init, InTime, InHand
<1>2. Numbers /\ InTime /\ [Next]_vars => [up /\ ~up' /\ InHand => atRisk]_vars
  <2> SUFFICES ASSUME Numbers, InTime, [Next]_vars, up, ~up', InHand PROVE atRisk
    OBVIOUS
  <2>1. age >= HardExitAfter
    BY DEF Next, vars, proc, Reporter, ReporterAnswered, ReporterFails, RoundTrip, UploadDone,
           Report, ProgressAnswered, ProgressFails, Completed, CompleteRefused, CompleteTimesOut,
           CompleteMaint, Wake, SaveBackup, NetworkChanges, Boot, Tick, Look, WatchdogIdle,
           WatchdogExit, RestartBegin, Put, PutStopped, PutRunning, PutFails
  <2>2. Worst \in Nat
    BY WorstType
  <2> QED
    BY <2>1, <2>2 DEF InTime, Numbers
<1> QED
  BY <1>1, <1>2, Typed, InTimeStep, PTL DEF Spec, SavedBeforeExit
=============================================================================
