--------------------------- MODULE OperatorProofs ---------------------------
(***************************************************************************)
(* Facts about the operators the models are built from, for all arguments: *)
(* what next(...) finds in a list of disk files, what stage_vm_disk pulls  *)
(* and what of it is converted, what the sum of a function over a finite   *)
(* set is, and what detect() promises of a batch.                          *)
(***************************************************************************)
EXTENDS ConvertEngine, CollisionDetector, Functions, FiniteSetTheorems, SequenceTheorems,
        WellFoundedInduction, NaturalsInduction, TLAPS

\* A set of positions has a least member, which is what next(...) finds.
LEMMA LeastIsThere ==
    ASSUME NEW S \in SUBSET Nat, S # {}
    PROVE  Least(S) \in S /\ \A j \in S : Least(S) <= j
<1> DEFINE R == {ss \in Nat \X Nat : ss[1] < ss[2]}
<1>1. IsWellFoundedOn(R, Nat)
  BY NatLessThanWellFounded, Zenon DEF OpToRel
<1>2. PICK i \in S : \A j \in S : <<j, i>> \notin R
  <2> HIDE DEF R
  <2> QED
    BY <1>1, WFMin
<1>3. ASSUME NEW j \in S PROVE i <= j
  <2>1. <<j, i>> \in Nat \X Nat
    OBVIOUS
  <2>2. ~(j < i)
    BY <1>2, <2>1
  <2> QED
    BY <2>2
<1> QED
  BY <1>3 DEF Least

\* Induction: numbers each of which has a lesser one among them are none.
LEMMA NoLeastNoMember ==
    ASSUME NEW Bad \in SUBSET Nat, \A n \in Bad : \E m \in Bad : m < n
    PROVE  Bad = {}
<1> SUFFICES ASSUME Bad # {} PROVE FALSE
  OBVIOUS
<1>1. Least(Bad) \in Bad /\ \A j \in Bad : Least(Bad) <= j
  BY LeastIsThere
<1>2. PICK m \in Bad : m < Least(Bad)
  BY <1>1
<1>3. m \in Nat /\ Least(Bad) \in Nat /\ Least(Bad) <= m
  BY <1>1, <1>2
<1> QED
  BY <1>2, <1>3

-----------------------------------------------------------------------------
\* The first file of a role is one.
LEMMA FirstOfRole ==
    ASSUME NEW T, NEW files \in Seq(T), NEW role, WithRole(files, role) # {}
    PROVE  /\ Least(WithRole(files, role)) \in DOMAIN files
           /\ files[Least(WithRole(files, role))].role = role
<1>1. WithRole(files, role) \in SUBSET Nat
  BY DEF WithRole
<1>2. Least(WithRole(files, role)) \in WithRole(files, role)
  BY <1>1, LeastIsThere
<1> QED
  BY <1>2 DEF WithRole

\* Short sequences put together.
LEMMA ShortConcatenations ==
    ASSUME NEW a \in Nat, NEW b \in Nat
    PROVE  <<>> \o <<a>> = <<a>> /\ <<a>> \o <<b>> = <<a, b>>
<1>1. /\ <<a>> \in Seq(Nat) /\ Len(<<a>>) = 1 /\ <<a>>[1] = a
      /\ <<b>> \in Seq(Nat) /\ Len(<<b>>) = 1 /\ <<b>>[1] = b
  OBVIOUS
<1>2. <<>> \o <<a>> = <<a>>
  BY <1>1, ConcatEmptySeq
<1>3. /\ <<a>> \o <<b>> \in Seq(Nat) /\ Len(<<a>> \o <<b>>) = 2
      /\ (<<a>> \o <<b>>)[1] = a /\ (<<a>> \o <<b>>)[2] = b
  BY <1>1, ConcatProperties
<1>4. <<a, b>> \in Seq(Nat) /\ Len(<<a, b>>) = 2 /\ <<a, b>>[1] = a /\ <<a, b>>[2] = b
  OBVIOUS
<1> DEFINE joined == <<a>> \o <<b>>
           pair == <<a, b>>
<1>5. joined = pair
  <2>1. /\ joined \in Seq(Nat) /\ pair \in Seq(Nat) /\ Len(joined) = 2 /\ Len(pair) = 2
        /\ joined[1] = pair[1] /\ joined[2] = pair[2]
    BY <1>3, <1>4
  <2> HIDE DEF joined, pair
  <2>2. \A i \in 1..Len(joined) : joined[i] = pair[i]
    <3>1. \A i \in 1..2 : i = 1 \/ i = 2
      OBVIOUS
    <3> QED
      BY <2>1, <3>1
  <2> QED
    BY <2>1, <2>2, SeqEqual
<1> QED
  BY <1>2, <1>5

\* A chain is pulled file by file.
LEMMA ChainPulls ==
    ASSUME NEW T, NEW path, path.disk_files \in Seq(T), path.has_snapshot_chain
    PROVE  LET files == path.disk_files
               pulls == PullOrder(path)
           IN  /\ pulls \in Seq(DOMAIN files) /\ Len(pulls) = Len(files)
               /\ \A k \in 1..Len(pulls) : pulls[k] = k
<1> DEFINE files == path.disk_files
<1>1. PullOrder(path) = [i \in DOMAIN files |-> i]
  BY DEF PullOrder
<1>2. DOMAIN files = 1..Len(files) /\ Len(files) \in Nat
  OBVIOUS
<1>3. PullOrder(path) \in Seq(DOMAIN files) /\ Len(PullOrder(path)) = Len(files)
  BY <1>1, <1>2
<1> QED
  BY <1>1, <1>2, <1>3

\* Of a VM without one the first descriptor is pulled last, after the first flat
\* file if there is any.
LEMMA PairPulls ==
    ASSUME NEW T, NEW path, path.disk_files \in Seq(T), ~path.has_snapshot_chain,
           WithRole(path.disk_files, "base_descriptor") # {}
    PROVE  LET files == path.disk_files
               pulls == PullOrder(path)
           IN  /\ pulls \in Seq(DOMAIN files) /\ Len(pulls) > 0
               /\ \E d \in DOMAIN files :
                    /\ files[d].role = "base_descriptor"
                    /\ d = Least(WithRole(files, "base_descriptor"))
                    /\ \/ pulls = <<d>> /\ WithRole(files, "base_flat") = {}
                       \/ \E f \in DOMAIN files : files[f].role = "base_flat" /\ pulls = <<f, d>>
<1> DEFINE files == path.disk_files
           pulls == PullOrder(path)
           first(role) == LET F == WithRole(files, role) IN IF F = {} THEN <<>> ELSE <<Least(F)>>
<1>1. pulls = first("base_flat") \o first("base_descriptor")
  BY DEF PullOrder
<1>2. PICK d \in DOMAIN files :
          /\ files[d].role = "base_descriptor" /\ first("base_descriptor") = <<d>>
          /\ d = Least(WithRole(files, "base_descriptor"))
  BY FirstOfRole
<1>3. DOMAIN files \subseteq Nat
  OBVIOUS
<1>4. CASE WithRole(files, "base_flat") = {}
  <2>1. first("base_flat") = <<>>
    BY <1>4
  <2>2. pulls = <<d>>
    BY <1>1, <1>2, <1>3, <2>1, ShortConcatenations, Zenon
  <2>3. <<d>> \in Seq(DOMAIN files) /\ Len(<<d>>) = 1
    <3> HIDE DEF files
    <3> QED
      OBVIOUS
  <2> QED
    BY <1>2, <1>4, <2>2, <2>3
<1>5. CASE WithRole(files, "base_flat") # {}
  <2>1. PICK f \in DOMAIN files : files[f].role = "base_flat" /\ first("base_flat") = <<f>>
    BY <1>5, FirstOfRole
  <2>2. pulls = <<f, d>>
    BY <1>1, <1>2, <1>3, <2>1, ShortConcatenations, Zenon
  <2>3. <<f, d>> \in Seq(DOMAIN files) /\ Len(<<f, d>>) = 2
    <3> HIDE DEF files
    <3> QED
      OBVIOUS
  <2> QED
    BY <1>2, <2>1, <2>2, <2>3
<1> QED
  BY <1>4, <1>5

\* When all was pulled, what is converted is the first descriptor of its kind.
LEMMA SourceOfPulls ==
    ASSUME NEW T, NEW path, path.disk_files \in Seq(T), NEW wanted,
           wanted = IF path.has_snapshot_chain THEN "snapshot_descriptor" ELSE "base_descriptor",
           WithRole(path.disk_files, wanted) # {},
           NEW staged, Len(staged) = Len(PullOrder(path)),
           \A k \in 1..Len(staged) : staged[k] = PullOrder(path)[k]
    PROVE  LET from == Least(WithRole(path.disk_files, wanted))
           IN  /\ PickConvertSource(path, staged) = from
               /\ from \in DOMAIN path.disk_files /\ from # 0
<1> DEFINE files == path.disk_files
           pulls == PullOrder(path)
           first == Least(WithRole(files, wanted))
           found == {k \in 1..Len(staged) : files[staged[k]].role = wanted}
<1>1. first \in DOMAIN files /\ files[first].role = wanted /\ first # 0
  BY FirstOfRole
<1>2. PickConvertSource(path, staged) = IF found = {} THEN 0 ELSE staged[Least(found)]
  BY DEF PickConvertSource
<1>3. found # {} => Least(found) \in found
  <2>1. found \in SUBSET Nat
    OBVIOUS
  <2> HIDE DEF found
  <2> QED
    BY <2>1, LeastIsThere
<1>4. CASE path.has_snapshot_chain
  <2>1. Len(pulls) = Len(files) /\ \A k \in 1..Len(pulls) : pulls[k] = k
    BY <1>4, ChainPulls
  <2>2. Len(staged) = Len(files) /\ DOMAIN files = 1..Len(files)
        /\ \A k \in 1..Len(files) : staged[k] = k
    BY <2>1
  <2>3. found = WithRole(files, wanted)
    BY <2>2 DEF WithRole
  <2>4. first \in 1..Len(files) /\ first = Least(found)
    BY <1>1, <2>2, <2>3
  <2> HIDE DEF first, found, files
  <2>5. staged[Least(found)] = first
    BY <2>2, <2>4
  <2> QED
    BY <1>1, <1>2, <2>3, <2>5 DEF files, first
<1>5. CASE ~path.has_snapshot_chain
  <2>1. wanted = "base_descriptor"
    BY <1>5
  <2>2. PICK d \in DOMAIN files :
            /\ files[d].role = "base_descriptor" /\ d = Least(WithRole(files, "base_descriptor"))
            /\ \/ pulls = <<d>>
               \/ \E f \in DOMAIN files : files[f].role = "base_flat" /\ pulls = <<f, d>>
    <3>1. WithRole(files, "base_descriptor") # {}
      BY <2>1
    <3>2. \E d \in DOMAIN files :
            /\ files[d].role = "base_descriptor" /\ d = Least(WithRole(files, "base_descriptor"))
            /\ \/ pulls = <<d>> /\ WithRole(files, "base_flat") = {}
               \/ \E f \in DOMAIN files : files[f].role = "base_flat" /\ pulls = <<f, d>>
      BY ONLY path.disk_files \in Seq(T), <1>5, <3>1, PairPulls
    <3> QED
      BY <3>2, Zenon
  <2>3. d = first
    BY <2>1, <2>2
  <2> HIDE DEF pulls
  <2>4. \E k \in 1..Len(pulls) : pulls[k] = d
    <3>1. CASE pulls = <<d>>
      <4>1. 1 \in 1..Len(pulls) /\ pulls[1] = d
        BY <3>1
      <4> QED
        BY <4>1
    <3>2. ASSUME NEW f, pulls = <<f, d>> PROVE \E k \in 1..Len(pulls) : pulls[k] = d
      <4>1. 2 \in 1..Len(pulls) /\ pulls[2] = d
        BY <3>2
      <4> QED
        BY <4>1
    <3> QED
      BY <2>2, <3>1, <3>2
  <2>5. \A k \in 1..Len(pulls) : files[pulls[k]].role = "base_descriptor" => pulls[k] = d
    <3> SUFFICES ASSUME NEW k \in 1..Len(pulls), files[pulls[k]].role = "base_descriptor"
                 PROVE  pulls[k] = d
      OBVIOUS
    <3>1. CASE pulls = <<d>>
      <4>1. k = 1
        BY <3>1
      <4> QED
        BY <3>1, <4>1
    <3>2. ASSUME NEW f \in DOMAIN files, files[f].role = "base_flat", pulls = <<f, d>>
          PROVE  pulls[k] = d
      <4>1. k = 1 \/ k = 2
        BY <3>2
      <4>2. pulls[1] = f /\ pulls[2] = d
        BY <3>2
      <4> QED
        BY <3>2, <4>1, <4>2
    <3> QED
      BY <2>2, <3>1, <3>2
  <2>6. Len(staged) = Len(pulls) /\ \A k \in 1..Len(pulls) : staged[k] = pulls[k]
    BY DEF pulls
  <2>7. found # {}
    BY <2>1, <2>2, <2>4, <2>6
  <2>8. staged[Least(found)] = first
    BY <1>3, <2>1, <2>3, <2>5, <2>6, <2>7
  <2> QED
    BY <1>1, <1>2, <2>7, <2>8
<1> QED
  BY <1>4, <1>5

-----------------------------------------------------------------------------
(***************************************************************************)
(* Sums.  SumFunctionOnSet is a recursive function on the subsets of a set *)
(* that takes out one chosen element at a time.                            *)
(***************************************************************************)
SumsUp(f, S, g) ==
    g = [s \in SUBSET S |-> IF s = {} THEN 0
                            ELSE f[CHOOSE x \in s : TRUE] + g[s \ {CHOOSE x \in s : TRUE}]]

\* The sum is the value, at the whole set, of a function that sums up.
LEMMA SumIsChosen ==
    ASSUME NEW f, NEW S
    PROVE  SumFunctionOnSet(f, S) = (CHOOSE g : SumsUp(f, S, g))[S]
  BY Zenon DEF SumFunctionOnSet, FoldFunctionOnSet, MapThenFoldSet, SumsUp

\* There is such a function: level by level, by the size of the subset.
LEMMA SumsUpExists ==
    ASSUME NEW f, NEW S, IsFiniteSet(S), \A x \in S : f[x] \in Nat
    PROVE  \E g : SumsUp(f, S, g)
<1> DEFINE pick(s) == CHOOSE x \in s : TRUE
           rule(s, g) == IF s = {} THEN 0 ELSE f[pick(s)] + g[s \ {pick(s)}]
           level(n) == {s \in SUBSET S : Cardinality(s) <= n}
           good(n) == {g \in [level(n) -> Nat] : \A s \in level(n) : g[s] = rule(s, g)}
           Bad == {n \in Nat : good(n) = {}}
<1>1. ASSUME NEW s \in SUBSET S
      PROVE  /\ Cardinality(s) \in Nat /\ Cardinality(s) <= Cardinality(S)
             /\ Cardinality(s) = 0 <=> s = {}
             /\ s # {} => /\ f[pick(s)] \in Nat /\ s \ {pick(s)} \in SUBSET S
                          /\ Cardinality(s \ {pick(s)}) = Cardinality(s) - 1
  <2>1. IsFiniteSet(s) /\ Cardinality(s) <= Cardinality(S)
    BY FS_Subset
  <2>2. s # {} => pick(s) \in s
    OBVIOUS
  <2> QED
    BY <2>1, <2>2, FS_CardinalityType, FS_EmptySet, FS_RemoveElement
<1> HIDE DEF pick
<1>2. 0 \notin Bad
  <2> DEFINE g == [s \in level(0) |-> 0]
  <2>1. ASSUME NEW s \in level(0) PROVE s = {}
    <3>1. s \in SUBSET S /\ Cardinality(s) <= 0
      OBVIOUS
    <3>2. Cardinality(s) \in Nat /\ (Cardinality(s) = 0 => s = {})
      BY <1>1, <3>1
    <3>3. Cardinality(s) = 0
      BY <3>1, <3>2
    <3> QED
      BY <3>2, <3>3
  <2>2. g \in good(0)
    BY <2>1
  <2> QED
    BY <2>2
<1>3. ASSUME NEW n \in Nat, n + 1 \in Bad PROVE n \in Bad
  <2> SUFFICES ASSUME NEW g \in good(n) PROVE FALSE
    OBVIOUS
  <2> DEFINE h == [s \in level(n + 1) |-> rule(s, g)]
  <2>1. ASSUME NEW s \in level(n + 1), s # {} PROVE s \ {pick(s)} \in level(n)
    BY <1>1, <2>1
  <2>2. ASSUME NEW s \in level(n) PROVE s \in level(n + 1) /\ h[s] = g[s]
    <3>1. s \in SUBSET S /\ Cardinality(s) <= n /\ Cardinality(s) \in Nat
      BY <1>1
    <3>2. s \in level(n + 1)
      BY <3>1
    <3>3. g[s] = rule(s, g)
      OBVIOUS
    <3> HIDE DEF rule, level
    <3> QED
      BY <3>2, <3>3
  <2>3. h \in [level(n + 1) -> Nat]
    <3>1. ASSUME NEW s \in level(n + 1) PROVE rule(s, g) \in Nat
      <4>1. CASE s = {}
        BY <4>1
      <4>2. CASE s # {}
        <5>1. f[pick(s)] \in Nat
          BY <1>1, <4>2
        <5>2. g[s \ {pick(s)}] \in Nat
          BY <2>1, <4>2
        <5> QED
          BY <4>2, <5>1, <5>2
      <4> QED
        BY <4>1, <4>2
    <3> HIDE DEF rule
    <3> QED
      BY <3>1
  <2>4. \A s \in level(n + 1) : h[s] = rule(s, h)
    <3> SUFFICES ASSUME NEW s \in level(n + 1) PROVE h[s] = rule(s, h)
      OBVIOUS
    <3>1. h[s] = rule(s, g)
      OBVIOUS
    <3>2. s # {} => h[s \ {pick(s)}] = g[s \ {pick(s)}]
      BY <2>1, <2>2
    <3> HIDE DEF h
    <3> QED
      BY <3>1, <3>2
  <2>5. h \in good(n + 1)
    BY <2>3, <2>4
  <2> QED
    BY <1>3, <2>5
<1>4. Bad = {}
  <2>1. ASSUME NEW n \in Bad PROVE \E m \in Bad : m < n
    <3>1. n \in Nat /\ n # 0
      BY <1>2, <2>1
    <3> HIDE DEF Bad
    <3>2. n - 1 \in Nat /\ (n - 1) + 1 = n /\ n - 1 < n
      BY <3>1
    <3>3. n - 1 \in Bad
      BY <1>3, <2>1, <3>2
    <3> QED
      BY <3>2, <3>3
  <2>2. Bad \in SUBSET Nat
    OBVIOUS
  <2> HIDE DEF Bad
  <2> QED
    BY <2>1, <2>2, NoLeastNoMember
<1>5. Cardinality(S) \in Nat /\ level(Cardinality(S)) = SUBSET S
  BY <1>1, FS_CardinalityType
<1>6. PICK g \in good(Cardinality(S)) : TRUE
  <2>1. Cardinality(S) \notin Bad
    BY <1>4
  <2>2. good(Cardinality(S)) # {}
    BY <1>5, <2>1
  <2> HIDE DEF good
  <2> QED
    BY <2>2
<1>7. g \in [SUBSET S -> Nat] /\ \A s \in SUBSET S : g[s] = rule(s, g)
  BY <1>5, <1>6
<1>8. g = [s \in SUBSET S |-> rule(s, g)]
  <2> HIDE DEF rule
  <2> QED
    BY <1>7
<1> QED
  BY <1>8 DEF SumsUp, pick

\* Two such functions agree where their summands do.
LEMMA SumsUpAgree ==
    ASSUME NEW f, NEW S, NEW g, IsFiniteSet(S), SumsUp(f, S, g),
           NEW e, NEW T, NEW h, SumsUp(e, T, h),
           \A x \in S \cap T : f[x] = e[x]
    PROVE  \A s \in SUBSET (S \cap T) : g[s] = h[s]
<1> DEFINE pick(s) == CHOOSE x \in s : TRUE
           Bad == {n \in Nat : \E s \in SUBSET (S \cap T) : Cardinality(s) = n /\ g[s] # h[s]}
<1>1. ASSUME NEW s \in SUBSET (S \cap T)
      PROVE  /\ g[s] = IF s = {} THEN 0 ELSE f[pick(s)] + g[s \ {pick(s)}]
             /\ h[s] = IF s = {} THEN 0 ELSE e[pick(s)] + h[s \ {pick(s)}]
  BY DEF SumsUp
<1>2. ASSUME NEW s \in SUBSET (S \cap T)
      PROVE  /\ Cardinality(s) \in Nat
             /\ s # {} => /\ pick(s) \in s
                          /\ Cardinality(s \ {pick(s)}) = Cardinality(s) - 1
                          /\ Cardinality(s \ {pick(s)}) \in Nat
  <2>1. IsFiniteSet(s) /\ IsFiniteSet(s \ {pick(s)})
    BY FS_Subset
  <2>2. s # {} => pick(s) \in s
    OBVIOUS
  <2> QED
    BY <2>1, <2>2, FS_CardinalityType, FS_RemoveElement
<1> HIDE DEF pick
<1>3. ASSUME NEW n \in Bad PROVE \E m \in Bad : m < n
  <2>1. PICK s \in SUBSET (S \cap T) : Cardinality(s) = n /\ g[s] # h[s]
    BY <1>3
  <2>2. s # {}
    BY <1>1, <2>1
  <2>3. g[s \ {pick(s)}] # h[s \ {pick(s)}]
    BY <1>1, <1>2, <2>1, <2>2
  <2>4. Cardinality(s \ {pick(s)}) \in Bad /\ Cardinality(s \ {pick(s)}) < n
    BY <1>2, <2>1, <2>2, <2>3
  <2> QED
    BY <2>4
<1>4. Bad = {}
  <2>1. Bad \in SUBSET Nat
    OBVIOUS
  <2> HIDE DEF Bad
  <2> QED
    BY <1>3, <2>1, NoLeastNoMember
<1> QED
  BY <1>2, <1>4

\* A sum is the element that is taken out first, and the sum of the rest; it
\* depends on the summands alone.
LEMMA SumUnfolds ==
    ASSUME NEW f, NEW S, IsFiniteSet(S), \A x \in S : f[x] \in Nat
    PROVE  SumFunctionOnSet(f, S) =
             IF S = {} THEN 0
             ELSE f[CHOOSE x \in S : TRUE] + SumFunctionOnSet(f, S \ {CHOOSE x \in S : TRUE})
<1> DEFINE x == CHOOSE x \in S : TRUE
           T == S \ {x}
           g == CHOOSE g : SumsUp(f, S, g)
           h == CHOOSE h : SumsUp(f, T, h)
<1>1. IsFiniteSet(T)
  BY FS_Subset
<1>2. SumsUp(f, S, g) /\ SumsUp(f, T, h)
  BY <1>1, SumsUpExists, Zenon
<1>3. SumFunctionOnSet(f, S) = g[S] /\ SumFunctionOnSet(f, T) = h[T]
  BY SumIsChosen
<1>4. g[S] = IF S = {} THEN 0 ELSE f[x] + g[T]
  <2> HIDE DEF g
  <2> QED
    BY <1>2 DEF SumsUp
<1>5. g[T] = h[T]
  <2> HIDE DEF g, h
  <2> QED
    BY <1>2, SumsUpAgree
<1> HIDE DEF g, h
<1> QED
  BY <1>3, <1>4, <1>5

\* Functions that agree on a set have one sum over it.
LEMMA SumsAgree ==
    ASSUME NEW f, NEW e, NEW S, IsFiniteSet(S), \A x \in S : f[x] \in Nat /\ e[x] = f[x]
    PROVE  SumFunctionOnSet(f, S) = SumFunctionOnSet(e, S)
<1> DEFINE g == CHOOSE g : SumsUp(f, S, g)
           h == CHOOSE h : SumsUp(e, S, h)
<1>1. SumsUp(f, S, g) /\ SumsUp(e, S, h)
  BY SumsUpExists, Zenon
<1>2. g[S] = h[S]
  <2> HIDE DEF g, h
  <2> QED
    BY <1>1, SumsUpAgree
<1> QED
  BY <1>2, SumIsChosen

\* A sum of naturals is a natural.
LEMMA SumIsNat ==
    ASSUME NEW f, NEW S, IsFiniteSet(S), \A x \in S : f[x] \in Nat
    PROVE  SumFunctionOnSet(f, S) \in Nat
<1> DEFINE Bad == {n \in Nat : \E s \in SUBSET S : /\ Cardinality(s) = n
                                                   /\ SumFunctionOnSet(f, s) \notin Nat}
<1>1. ASSUME NEW n \in Bad PROVE \E m \in Bad : m < n
  <2>1. PICK s \in SUBSET S : Cardinality(s) = n /\ SumFunctionOnSet(f, s) \notin Nat
    BY <1>1
  <2> DEFINE x == CHOOSE x \in s : TRUE
  <2>2. IsFiniteSet(s)
    BY FS_Subset
  <2>3. SumFunctionOnSet(f, s) = IF s = {} THEN 0 ELSE f[x] + SumFunctionOnSet(f, s \ {x})
    BY <2>2, SumUnfolds
  <2>4. s # {} /\ x \in s
    BY <2>1, <2>3
  <2>5. SumFunctionOnSet(f, s \ {x}) \notin Nat
    BY <2>1, <2>3, <2>4
  <2>6. /\ Cardinality(s \ {x}) = Cardinality(s) - 1 /\ Cardinality(s \ {x}) \in Nat
        /\ s \ {x} \in SUBSET S
    BY <2>2, <2>4, FS_RemoveElement, FS_CardinalityType
  <2> HIDE DEF x
  <2>7. Cardinality(s \ {x}) \in Bad
    BY <2>5, <2>6
  <2> QED
    BY <2>1, <2>6, <2>7
<1>2. Bad = {}
  <2>1. Bad \in SUBSET Nat
    OBVIOUS
  <2> HIDE DEF Bad
  <2> QED
    BY <1>1, <2>1, NoLeastNoMember
<1>3. Cardinality(S) \in Nat
  BY FS_CardinalityType
<1> QED
  BY <1>2, <1>3

\* Any element can be taken out.
LEMMA SumTakesOut ==
    ASSUME NEW f, NEW S, IsFiniteSet(S), \A x \in S : f[x] \in Nat, NEW y \in S
    PROVE  SumFunctionOnSet(f, S) = f[y] + SumFunctionOnSet(f, S \ {y})
<1> DEFINE sum(s) == SumFunctionOnSet(f, s)
           Bad == {n \in Nat : \E s \in SUBSET S : \E z \in s :
                      Cardinality(s) = n /\ sum(s) # f[z] + sum(s \ {z})}
<1>1. ASSUME NEW s \in SUBSET S
      PROVE  /\ IsFiniteSet(s) /\ sum(s) \in Nat /\ Cardinality(s) \in Nat
             /\ \A z \in s : f[z] \in Nat /\ Cardinality(s \ {z}) = Cardinality(s) - 1
  <2>1. IsFiniteSet(s)
    BY FS_Subset
  <2> QED
    BY <2>1, SumIsNat, FS_RemoveElement, FS_CardinalityType
<1>2. ASSUME NEW n \in Bad PROVE \E m \in Bad : m < n
  <2>1. PICK s \in SUBSET S : \E z \in s : Cardinality(s) = n /\ sum(s) # f[z] + sum(s \ {z})
    BY <1>2
  <2>2. PICK z \in s : Cardinality(s) = n /\ sum(s) # f[z] + sum(s \ {z})
    BY <2>1
  <2> DEFINE x == CHOOSE x \in s : TRUE
             both == (s \ {x}) \ {z}
  <2>3. x \in s /\ sum(s) = f[x] + sum(s \ {x})
    BY <1>1, SumUnfolds
  <2> HIDE DEF x
  <2>4. x # z
    BY <2>2, <2>3
  <2>5. /\ s \ {x} \in SUBSET S /\ s \ {z} \in SUBSET S /\ both \in SUBSET S
        /\ z \in s \ {x} /\ x \in s \ {z} /\ (s \ {z}) \ {x} = both
    BY <2>3, <2>4
  <2>6. /\ Cardinality(s \ {x}) = n - 1 /\ Cardinality(s \ {z}) = n - 1
        /\ Cardinality(s \ {x}) \in Nat
    BY <1>1, <2>2, <2>3, <2>5
  <2>7. /\ f[x] \in Nat /\ f[z] \in Nat /\ sum(both) \in Nat
        /\ sum(s \ {x}) \in Nat /\ sum(s \ {z}) \in Nat /\ sum(s) \in Nat
    BY <1>1, <2>3, <2>5
  <2> HIDE DEF sum
  <2>8. sum(s \ {x}) # f[z] + sum(both) \/ sum(s \ {z}) # f[x] + sum(both)
    BY <2>2, <2>3, <2>7
  <2>9. \E t \in SUBSET S : \E e \in t : Cardinality(t) = n - 1 /\ sum(t) # f[e] + sum(t \ {e})
    <3>1. CASE sum(s \ {x}) # f[z] + sum(both)
      BY <2>5, <2>6, <3>1
    <3>2. CASE sum(s \ {z}) # f[x] + sum(both)
      <4>1. sum(s \ {z}) # f[x] + sum((s \ {z}) \ {x})
        BY <2>5, <3>2, Zenon
      <4> QED
        BY <2>5, <2>6, <4>1
    <3> QED
      BY <2>8, <3>1, <3>2
  <2>10. n - 1 \in Bad
    BY <2>6, <2>9
  <2>11. n \in Nat /\ n - 1 < n
    OBVIOUS
  <2> QED
    BY <2>10, <2>11
<1>3. Bad = {}
  <2>1. Bad \in SUBSET Nat
    OBVIOUS
  <2> HIDE DEF Bad
  <2> QED
    BY <1>2, <2>1, NoLeastNoMember
<1>4. Cardinality(S) \in Nat
  BY FS_CardinalityType
<1> QED
  BY <1>3, <1>4

\* Sums over no set at all, and over two sets that are apart.
LEMMA SumOfNothing == ASSUME NEW f PROVE SumFunctionOnSet(f, {}) = 0
  BY SumUnfolds, FS_EmptySet

\* The sum over two disjoint sets is the sum of their sums.
LEMMA SumsJoin ==
    ASSUME NEW f, NEW A, NEW B, IsFiniteSet(A), IsFiniteSet(B), A \cap B = {},
           \A x \in A \cup B : f[x] \in Nat
    PROVE  SumFunctionOnSet(f, A \cup B) = SumFunctionOnSet(f, A) + SumFunctionOnSet(f, B)
<1> DEFINE sum(s) == SumFunctionOnSet(f, s)
           Bad == {n \in Nat : \E s \in SUBSET A : Cardinality(s) = n
                                                   /\ sum(s \cup B) # sum(s) + sum(B)}
<1>1. ASSUME NEW s \in SUBSET A
      PROVE  /\ IsFiniteSet(s) /\ IsFiniteSet(s \cup B) /\ Cardinality(s) \in Nat
             /\ sum(s) \in Nat /\ sum(B) \in Nat /\ sum(s \cup B) \in Nat
  <2>1. IsFiniteSet(s)
    BY FS_Subset
  <2>2. IsFiniteSet(s \cup B)
    BY <2>1, FS_Union
  <2> QED
    BY <2>1, <2>2, SumIsNat, FS_CardinalityType
<1>2. ASSUME NEW n \in Bad PROVE \E m \in Bad : m < n
  <2>1. PICK s \in SUBSET A : Cardinality(s) = n /\ sum(s \cup B) # sum(s) + sum(B)
    BY <1>2
  <2>2. s # {}
    <3> SUFFICES ASSUME s = {} PROVE FALSE
      OBVIOUS
    <3>1. s \cup B = B
      OBVIOUS
    <3>2. sum(s) = 0
      BY SumOfNothing
    <3> QED
      BY <1>1, <2>1, <3>1, <3>2
  <2>3. PICK x : x \in s
    BY <2>2
  <2>4. /\ s \ {x} \in SUBSET A /\ x \in s \cup B /\ (s \cup B) \ {x} = (s \ {x}) \cup B
        /\ f[x] \in Nat
    BY <2>3
  <2>5. sum(s) = f[x] + sum(s \ {x}) /\ sum(s \cup B) = f[x] + sum((s \ {x}) \cup B)
    <3>1. sum(s) = f[x] + sum(s \ {x}) /\ sum(s \cup B) = f[x] + sum((s \cup B) \ {x})
      BY <1>1, <2>3, <2>4, SumTakesOut
    <3> QED
      BY <2>4, <3>1, Zenon
  <2>6. Cardinality(s \ {x}) = n - 1 /\ Cardinality(s \ {x}) \in Nat /\ n \in Nat
    BY <1>1, <2>1, <2>3, <2>4, FS_RemoveElement
  <2>7. sum(s \ {x}) \in Nat /\ sum(B) \in Nat /\ sum((s \ {x}) \cup B) \in Nat
    BY <1>1, <2>4
  <2> HIDE DEF sum
  <2>8. sum((s \ {x}) \cup B) # sum(s \ {x}) + sum(B)
    BY <2>1, <2>4, <2>5, <2>7
  <2>9. n - 1 \in Bad
    BY <2>4, <2>6, <2>8
  <2> QED
    BY <2>6, <2>9
<1>3. Bad = {}
  <2>1. Bad \in SUBSET Nat
    OBVIOUS
  <2> HIDE DEF Bad
  <2> QED
    BY <1>2, <2>1, NoLeastNoMember
<1>4. Cardinality(A) \in Nat
  BY FS_CardinalityType
<1> QED
  BY <1>3, <1>4

\* A sum is covered by another one if each of its summands that counts is, by
\* a summand of its own.
LEMMA SumIsCovered ==
    ASSUME NEW f, NEW S, IsFiniteSet(S), \A x \in S : f[x] \in Nat,
           NEW e, NEW T, IsFiniteSet(T), \A y \in T : e[y] \in Nat,
           NEW place,
           \A x \in S : f[x] = 0 \/ \E y \in T : place[y] = x /\ f[x] <= e[y]
    PROVE  SumFunctionOnSet(f, S) <= SumFunctionOnSet(e, T)
<1> DEFINE sum(s) == SumFunctionOnSet(f, s)
           cover(t) == SumFunctionOnSet(e, t)
           covered(s, t) == \A x \in s : f[x] = 0 \/ \E y \in t : place[y] = x /\ f[x] <= e[y]
           Bad == {n \in Nat : \E s \in SUBSET S : \E t \in SUBSET T :
                      Cardinality(s) = n /\ covered(s, t) /\ ~(sum(s) <= cover(t))}
<1>1. ASSUME NEW s \in SUBSET S
      PROVE  IsFiniteSet(s) /\ Cardinality(s) \in Nat /\ sum(s) \in Nat
  <2>1. IsFiniteSet(s)
    BY FS_Subset
  <2> QED
    BY <2>1, SumIsNat, FS_CardinalityType
<1>2. ASSUME NEW t \in SUBSET T
      PROVE  IsFiniteSet(t) /\ cover(t) \in Nat
  <2>1. IsFiniteSet(t)
    BY FS_Subset
  <2> QED
    BY <2>1, SumIsNat
<1>3. ASSUME NEW n \in Bad PROVE \E m \in Bad : m < n
  <2>1. PICK s \in SUBSET S, t \in SUBSET T :
            Cardinality(s) = n /\ covered(s, t) /\ ~(sum(s) <= cover(t))
    BY <1>3
  <2>2. s # {}
    <3> SUFFICES ASSUME s = {} PROVE FALSE
      OBVIOUS
    <3>1. sum(s) = 0
      BY SumOfNothing
    <3> QED
      BY <1>2, <2>1, <3>1
  <2>3. PICK x : x \in s
    BY <2>2
  <2>4. /\ s \ {x} \in SUBSET S /\ sum(s) = f[x] + sum(s \ {x}) /\ f[x] \in Nat
        /\ sum(s \ {x}) \in Nat
    BY <1>1, <2>3, SumTakesOut
  <2>5. Cardinality(s \ {x}) = n - 1 /\ Cardinality(s \ {x}) \in Nat /\ n \in Nat
    BY <1>1, <2>1, <2>3, <2>4, FS_RemoveElement
  <2>6. \E r \in SUBSET T : covered(s \ {x}, r) /\ ~(sum(s \ {x}) <= cover(r))
    <3>1. CASE f[x] = 0
      <4>1. sum(s \ {x}) = sum(s)
        <5> HIDE DEF sum
        <5> QED
          BY <2>4, <3>1
      <4>2. covered(s \ {x}, t)
        BY <2>1
      <4> HIDE DEF sum, cover, covered
      <4> QED
        BY <2>1, <4>1, <4>2
    <3>2. CASE f[x] # 0
      <4>1. PICK y \in t : place[y] = x /\ f[x] <= e[y]
        BY <2>1, <2>3, <3>2
      <4>2. covered(s \ {x}, t \ {y})
        BY <2>1, <4>1
      <4>3. /\ t \ {y} \in SUBSET T /\ cover(t) = e[y] + cover(t \ {y}) /\ e[y] \in Nat
            /\ cover(t \ {y}) \in Nat
        BY <1>2, <4>1, SumTakesOut
      <4>4. ~(sum(s \ {x}) <= cover(t \ {y}))
        <5> HIDE DEF sum, cover
        <5> QED
          BY <2>1, <2>4, <4>1, <4>3
      <4> QED
        BY <4>2, <4>3, <4>4
    <3> QED
      BY <3>1, <3>2
  <2>7. n - 1 \in Bad
    <3> HIDE DEF sum, cover, covered
    <3> QED
      BY <2>4, <2>5, <2>6
  <2> QED
    BY <2>5, <2>7
<1>4. Bad = {}
  <2>1. Bad \in SUBSET Nat
    OBVIOUS
  <2> HIDE DEF Bad
  <2> QED
    BY <1>3, <2>1, NoLeastNoMember
<1>5. Cardinality(S) \in Nat
  BY FS_CardinalityType
<1>6. covered(S, T)
  OBVIOUS
<1> HIDE DEF covered
<1> QED
  BY <1>4, <1>5, <1>6

\* A part sums up to no more than the whole.
LEMMA SumOfPart ==
    ASSUME NEW f, NEW S, IsFiniteSet(S), \A x \in S : f[x] \in Nat, NEW T \in SUBSET S
    PROVE  SumFunctionOnSet(f, T) <= SumFunctionOnSet(f, S)
<1> DEFINE place == [y \in S |-> y]
<1>1. IsFiniteSet(T)
  BY FS_Subset
<1>2. \A x \in T : f[x] \in Nat /\ x \in S /\ place[x] = x /\ f[x] <= f[x]
  OBVIOUS
<1> HIDE DEF place
<1> QED
  BY <1>1, <1>2, SumIsCovered

\* Things that belong to owners sum up to no more than what each owner may have.
LEMMA SumByOwner ==
    ASSUME NEW f, NEW S, IsFiniteSet(S), \A x \in S : f[x] \in Nat,
           NEW b, NEW Q, IsFiniteSet(Q), \A q \in Q : b[q] \in Nat,
           NEW owner \in [S -> Q],
           \A q \in Q : SumFunctionOnSet(f, {x \in S : owner[x] = q}) <= b[q]
    PROVE  SumFunctionOnSet(f, S) <= SumFunctionOnSet(b, Q)
<1> DEFINE sum(s) == SumFunctionOnSet(f, s)
           allowed(q) == SumFunctionOnSet(b, q)
           of(q) == {x \in S : owner[x] \in q}
           Bad == {n \in Nat : \E q \in SUBSET Q :
                      Cardinality(q) = n /\ ~(sum(of(q)) <= allowed(q))}
<1>1. ASSUME NEW s \in SUBSET S PROVE IsFiniteSet(s) /\ sum(s) \in Nat
  <2>1. IsFiniteSet(s)
    BY FS_Subset
  <2> QED
    BY <2>1, SumIsNat
<1>2. ASSUME NEW q \in SUBSET Q
      PROVE  IsFiniteSet(q) /\ Cardinality(q) \in Nat /\ allowed(q) \in Nat
  <2>1. IsFiniteSet(q)
    BY FS_Subset
  <2> QED
    BY <2>1, SumIsNat, FS_CardinalityType
<1>3. ASSUME NEW n \in Bad PROVE \E m \in Bad : m < n
  <2>1. PICK q \in SUBSET Q : Cardinality(q) = n /\ ~(sum(of(q)) <= allowed(q))
    BY <1>3
  <2>2. q # {}
    <3> SUFFICES ASSUME q = {} PROVE FALSE
      OBVIOUS
    <3>1. of(q) = {}
      OBVIOUS
    <3>2. sum(of(q)) = 0
      BY <3>1, SumOfNothing
    <3> QED
      BY <1>2, <2>1, <3>2
  <2>3. PICK r : r \in q
    BY <2>2
  <2> DEFINE mine == {x \in S : owner[x] = r}
             rest == of(q \ {r})
  <2>4. /\ q \ {r} \in SUBSET Q /\ allowed(q) = b[r] + allowed(q \ {r}) /\ b[r] \in Nat
        /\ allowed(q \ {r}) \in Nat
    BY <1>2, <2>3, SumTakesOut
  <2>5. Cardinality(q \ {r}) = n - 1 /\ Cardinality(q \ {r}) \in Nat /\ n \in Nat
    BY <1>2, <2>1, <2>3, <2>4, FS_RemoveElement
  <2>6. /\ mine \in SUBSET S /\ rest \in SUBSET S /\ mine \cap rest = {}
        /\ mine \cup rest = of(q)
    BY <2>3
  <2>7. /\ sum(of(q)) = sum(mine) + sum(rest) /\ sum(mine) <= b[r]
        /\ sum(mine) \in Nat /\ sum(rest) \in Nat
    <3>1. sum(mine \cup rest) = sum(mine) + sum(rest)
      <4>1. IsFiniteSet(mine) /\ IsFiniteSet(rest) /\ \A x \in mine \cup rest : f[x] \in Nat
        BY <1>1, <2>6
      <4> HIDE DEF mine, rest
      <4> QED
        BY <2>6, <4>1, SumsJoin
    <3>2. sum(of(q)) = sum(mine) + sum(rest)
      BY <2>6, <3>1, Zenon
    <3>3. sum(mine) <= b[r]
      BY <2>3
    <3> QED
      BY <1>1, <2>6, <3>2, <3>3
  <2>8. ~(sum(rest) <= allowed(q \ {r}))
    <3> HIDE DEF sum, allowed, of, mine, rest
    <3> QED
      BY <2>1, <2>4, <2>7
  <2>9. n - 1 \in Bad
    <3> HIDE DEF sum, allowed, of
    <3> QED
      BY <2>4, <2>5, <2>8
  <2> HIDE DEF Bad
  <2> QED
    BY <2>5, <2>9
<1>4. Bad = {}
  <2>1. Bad \in SUBSET Nat
    OBVIOUS
  <2> HIDE DEF Bad
  <2> QED
    BY <1>3, <2>1, NoLeastNoMember
<1>5. Cardinality(Q) \in Nat /\ Q \in SUBSET Q
  BY FS_CardinalityType
<1>6. of(Q) = S
  OBVIOUS
<1>7. sum(of(Q)) <= allowed(Q)
  <2> HIDE DEF sum, allowed, of
  <2> QED
    BY <1>4, <1>5
<1> QED
  BY <1>6, <1>7

-----------------------------------------------------------------------------
\* A batch that detect() clears, of VMs with VMIDs of their own, shares no base
\* file name: it could be staged under the source names in one directory.  VMs
\* of two hosts with one VMID, files of one VM, VMs that were not resolved, and
\* snapshot files are outside this promise.
THEOREM ClearedBatchIsApart ==
    ASSUME NEW batch,
           ~HasCollisions(batch),
           \A p, q \in batch : p.esxi_vmid = q.esxi_vmid => p = q
    PROVE  \A p, q \in batch :
             p.resolution_ok /\ q.resolution_ok /\ p # q => BaseNames(p) \cap BaseNames(q) = {}
<1> SUFFICES ASSUME NEW p \in batch, NEW q \in batch, p.resolution_ok, q.resolution_ok, p # q,
                    NEW name \in BaseNames(p) \cap BaseNames(q)
             PROVE  FALSE
  OBVIOUS
<1>1. p.esxi_vmid \in UsersOf(batch, name) /\ q.esxi_vmid \in UsersOf(batch, name)
  BY DEF UsersOf
<1>2. p.esxi_vmid # q.esxi_vmid
  OBVIOUS
<1>3. name \in UNION {BaseNames(path) : path \in batch}
  OBVIOUS
<1>4. DOMAIN Detect(batch) = {n \in UNION {BaseNames(path) : path \in batch} :
                                \E v, w \in UsersOf(batch, n) : v # w}
  BY DEF Detect
<1>5. name \in DOMAIN Detect(batch)
  BY <1>1, <1>2, <1>3, <1>4
<1> QED
  BY <1>5 DEF HasCollisions
=============================================================================
