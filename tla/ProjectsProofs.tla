--------------------------- MODULE ProjectsProofs ---------------------------
(***************************************************************************)
(* Proofs about the filter bar's arithmetic, for any list of projects, any *)
(* menu and any selection; and about the card: what the map is told to     *)
(* draw of it, for any projects, listings and answers.                     *)
(***************************************************************************)
EXTENDS MapSearch, FiniteSetTheorems, SequenceTheorems, TLAPS

-----------------------------------------------------------------------------
(* A selection in each group, whatever its options are *)
IsFilter(f) == f = [typeId |-> f.typeId, regionId |-> f.regionId,
                    certificateIssued |-> f.certificateIssued,
                    inProgressWorks |-> f.inProgressWorks]

(* The projects that pressing nothing but these options of a group leaves *)
LeftBy(ps, f, g, chosen) == FilterProjects(ps, [f EXCEPT ![g] = chosen])

LEMMA OtherGroupsKeep ==
  ASSUME NEW f, IsFilter(f), NEW g \in Groups, NEW chosen
  PROVE  LET h == [f EXCEPT ![g] = chosen]
         IN  /\ h[g] = chosen /\ \A k \in Groups \ {g} : h[k] = f[k]
             /\ h.certificateIssued = f.certificateIssued
             /\ h.inProgressWorks = f.inProgressWorks
<1> DEFINE h == [f EXCEPT ![g] = chosen]
<1>1. g \in DOMAIN f /\ Groups \subseteq DOMAIN f
      /\ {"certificateIssued", "inProgressWorks"} \subseteq DOMAIN f
      /\ "certificateIssued" # g /\ "inProgressWorks" # g
  BY DEF IsFilter, Groups
<1>2. h[g] = chosen /\ \A k \in DOMAIN f \ {g} : h[k] = f[k]
  BY <1>1
<1> QED BY <1>1, <1>2

(* A project is left by a selection if it is of one of its options and      *)
(* passes everything else.                                                  *)
LEMMA LeftIs ==
  ASSUME NEW ps, NEW f, IsFilter(f), NEW g \in Groups, NEW chosen, chosen # {},
         NoValue \notin chosen
  PROVE  LeftBy(ps, f, g, chosen) =
           {p \in DOMAIN ps : ps[p][g] \in chosen /\ PassesOtherThan(ps[p], f, g)}
<1> DEFINE h == [f EXCEPT ![g] = chosen]
<1>1. /\ h[g] = chosen /\ \A k \in Groups \ {g} : h[k] = f[k]
      /\ h.certificateIssued = f.certificateIssued
      /\ h.inProgressWorks = f.inProgressWorks
  BY OtherGroupsKeep
<1> HIDE DEF h
<1>2. ASSUME NEW p \in DOMAIN ps
      PROVE  MatchesFilters(ps[p], h) <=>
               ps[p][g] \in chosen /\ PassesOtherThan(ps[p], f, g)
  BY <1>1 DEF MatchesFilters, PassesGroup, PassesToggles, PassesOtherThan
<1> QED BY <1>2 DEF LeftBy, FilterProjects, h

(* The number beside an option is what ticking it alone leaves, whatever is  *)
(* ticked in its group and in the other (facetCounts).                       *)
THEOREM CountDelivers ==
  ASSUME NEW ps, NEW f, IsFilter(f), NEW g \in Groups,
         NEW offered, NoValue \notin offered, NEW o \in offered
  PROVE  FacetCounts(ps, f, g, offered)[o] = Cardinality(LeftBy(ps, f, g, {o}))
<1>1. LeftBy(ps, f, g, {o}) =
        {p \in DOMAIN ps : ps[p][g] \in {o} /\ PassesOtherThan(ps[p], f, g)}
  BY LeftIs
<1>2. LeftBy(ps, f, g, {o}) =
        {p \in DOMAIN ps : ps[p][g] = o /\ PassesOtherThan(ps[p], f, g)}
  BY <1>1
<1> QED BY <1>2 DEF FacetCounts

(* What pressing "All" leaves is parted by the options: no project counts    *)
(* beside two of them, and each one counted is left (facetTotal).            *)
THEOREM OptionsPartTheTotal ==
  ASSUME NEW ps, NEW f, IsFilter(f), NEW g \in Groups,
         NEW offered, offered # {}, NoValue \notin offered
  PROVE  /\ LeftBy(ps, f, g, offered) = UNION {LeftBy(ps, f, g, {o}) : o \in offered}
         /\ \A o, q \in offered : o # q =>
              LeftBy(ps, f, g, {o}) \cap LeftBy(ps, f, g, {q}) = {}
<1>1. ASSUME NEW o \in offered
      PROVE  LeftBy(ps, f, g, {o}) =
               {p \in DOMAIN ps : ps[p][g] = o /\ PassesOtherThan(ps[p], f, g)}
  <2>1. LeftBy(ps, f, g, {o}) =
          {p \in DOMAIN ps : ps[p][g] \in {o} /\ PassesOtherThan(ps[p], f, g)}
    BY LeftIs
  <2> QED BY <2>1
<1>2. LeftBy(ps, f, g, offered) =
        {p \in DOMAIN ps : ps[p][g] \in offered /\ PassesOtherThan(ps[p], f, g)}
  BY LeftIs
<1>3. LeftBy(ps, f, g, offered) = UNION {LeftBy(ps, f, g, {o}) : o \in offered}
  <2>1. ASSUME NEW p PROVE p \in LeftBy(ps, f, g, offered) <=>
                             \E o \in offered : p \in LeftBy(ps, f, g, {o})
    BY <1>1, <1>2
  <2> QED BY <2>1
<1>4. \A o, q \in offered : o # q =>
        LeftBy(ps, f, g, {o}) \cap LeftBy(ps, f, g, {q}) = {}
  BY <1>1
<1> QED BY <1>3, <1>4

(* Induction on the naturals, of a set of them *)
LEMMA AllNaturals ==
  ASSUME NEW T \in SUBSET Nat, 0 \in T, \A n \in T : n + 1 \in T
  PROVE  T = Nat
<1> SUFFICES ASSUME Nat \ T # {} PROVE FALSE
  OBVIOUS
<1>1. PICK n \in Nat \ T : \A m \in Nat \ T : <<m, n>> \notin OpToRel(<, Nat)
  <2>1. Nat \ T \subseteq Nat
    OBVIOUS
  <2> QED BY <2>1, NatLessThanWellFounded, WFMin
<1>2. n # 0 /\ n - 1 \in Nat /\ n - 1 < n
  BY SMT
<1>3. n - 1 \in T
  <2>1. <<n - 1, n>> \in OpToRel(<, Nat)
    <3>1. <<n - 1, n>> \in Nat \X Nat /\ <<n - 1, n>>[1] < <<n - 1, n>>[2]
      BY <1>2
    <3> QED BY <3>1 DEF OpToRel
  <2> QED BY <1>1, <1>2, <2>1
<1>4. (n - 1) + 1 = n
  BY <1>2
<1> QED BY <1>3, <1>4

(* A fold over a finite set is a function of its subsets, whatever the order *)
(* in which it picks their members.                                          *)
FoldsBy(h, S, base, pick, step) ==
  \A s \in SUBSET S :
    h[s] = IF s = {} THEN base ELSE step[pick[s], h[s \ {pick[s]}]]

Upto(S, n) == {s \in SUBSET S : Cardinality(s) <= n}

FoldsUpto(h, S, n, base, pick, step) ==
  \A s \in Upto(S, n) :
    h[s] = IF s = {} THEN base ELSE step[pick[s], h[s \ {pick[s]}]]

LEMMA PickedOff ==
  ASSUME NEW S, IsFiniteSet(S), NEW s \in SUBSET S, NEW x \in s, NEW n \in Nat,
         Cardinality(s) <= n + 1
  PROVE  x \in S /\ s \ {x} \in Upto(S, n)
<1>1. IsFiniteSet(s) /\ Cardinality(s) \in Nat
  BY FS_Subset, FS_CardinalityType
<1>2. Cardinality(s \ {x}) = Cardinality(s) - 1
  BY <1>1, FS_RemoveElement
<1>3. Cardinality(s \ {x}) <= n
  BY <1>1, <1>2
<1> QED BY <1>3 DEF Upto

LEMMA UptoGrows ==
  ASSUME NEW S, IsFiniteSet(S), NEW n \in Nat
  PROVE  Upto(S, n) \subseteq Upto(S, n + 1)
<1>1. ASSUME NEW s \in Upto(S, n) PROVE s \in Upto(S, n + 1)
  <2>1. s \in SUBSET S /\ Cardinality(s) <= n
    BY DEF Upto
  <2>2. Cardinality(s) \in Nat
    BY <2>1, FS_Subset, FS_CardinalityType
  <2>3. Cardinality(s) <= n + 1
    BY <2>1, <2>2
  <2> QED BY <2>1, <2>3 DEF Upto
<1> QED BY <1>1

LEMMA FoldGrows ==
  ASSUME NEW S, IsFiniteSet(S), NEW V, NEW base \in V,
         NEW pick, \A s \in SUBSET S : s # {} => pick[s] \in s,
         NEW step \in [S \X V -> V],
         NEW n \in Nat, NEW g \in [Upto(S, n) -> V], FoldsUpto(g, S, n, base, pick, step)
  PROVE  \E k \in [Upto(S, n + 1) -> V] : FoldsUpto(k, S, n + 1, base, pick, step)
<1> DEFINE k == [s \in Upto(S, n + 1) |->
                   IF s = {} THEN base ELSE step[pick[s], g[s \ {pick[s]}]]]
<1>1. ASSUME NEW s \in Upto(S, n + 1), s # {}
      PROVE  pick[s] \in S /\ s \ {pick[s]} \in Upto(S, n) /\ g[s \ {pick[s]}] \in V
  <2>1. s \in SUBSET S /\ Cardinality(s) <= n + 1
    BY DEF Upto
  <2>2. pick[s] \in s
    BY <1>1, <2>1
  <2> QED BY <2>1, <2>2, PickedOff
<1>2. \A s \in Upto(S, n) : k[s] = g[s]
  BY UptoGrows DEF FoldsUpto
<1>3. k \in [Upto(S, n + 1) -> V]
  <2>1. ASSUME NEW s \in Upto(S, n + 1), s # {} PROVE step[pick[s], g[s \ {pick[s]}]] \in V
    BY <1>1, <2>1
  <2> QED BY <2>1
<1>4. FoldsUpto(k, S, n + 1, base, pick, step)
  <2>1. ASSUME NEW s \in Upto(S, n + 1), s # {} PROVE k[s \ {pick[s]}] = g[s \ {pick[s]}]
    BY <1>1, <1>2, <2>1
  <2> QED BY <2>1 DEF FoldsUpto
<1> HIDE DEF k
<1> QED BY <1>3, <1>4

LEMMA FoldExists ==
  ASSUME NEW S, IsFiniteSet(S), NEW V, NEW base \in V,
         NEW pick, \A s \in SUBSET S : s # {} => pick[s] \in s,
         NEW step \in [S \X V -> V]
  PROVE  \E h \in [SUBSET S -> V] : FoldsBy(h, S, base, pick, step)
<1> DEFINE T == {n \in Nat : \E g \in [Upto(S, n) -> V] : FoldsUpto(g, S, n, base, pick, step)}
<1>1. 0 \in T
  <2> DEFINE g == [s \in Upto(S, 0) |-> base]
  <2>1. ASSUME NEW s \in Upto(S, 0) PROVE s = {}
    <3>1. IsFiniteSet(s) /\ Cardinality(s) \in Nat /\ Cardinality(s) <= 0
      BY FS_Subset, FS_CardinalityType DEF Upto
    <3>2. Cardinality(s) = 0
      BY <3>1
    <3> QED BY <3>1, <3>2, FS_EmptySet
  <2>2. g \in [Upto(S, 0) -> V] /\ FoldsUpto(g, S, 0, base, pick, step)
    BY <2>1 DEF FoldsUpto
  <2> HIDE DEF g
  <2> QED BY <2>2
<1>2. ASSUME NEW n \in T PROVE n + 1 \in T
  <2>1. n \in Nat /\ n + 1 \in Nat
    OBVIOUS
  <2>2. PICK g \in [Upto(S, n) -> V] : FoldsUpto(g, S, n, base, pick, step)
    OBVIOUS
  <2>3. \E k \in [Upto(S, n + 1) -> V] : FoldsUpto(k, S, n + 1, base, pick, step)
    BY <2>1, <2>2, FoldGrows
  <2> QED BY <2>1, <2>3
<1>3. T = Nat
  <2>1. T \in SUBSET Nat
    OBVIOUS
  <2> HIDE DEF T
  <2> QED BY <1>1, <1>2, <2>1, AllNaturals
<1> DEFINE m == Cardinality(S)
<1>4. m \in Nat /\ \A s \in SUBSET S : Cardinality(s) <= m
  BY FS_Subset, FS_CardinalityType
<1>5. PICK g \in [Upto(S, m) -> V] : FoldsUpto(g, S, m, base, pick, step)
  BY <1>3, <1>4
<1>6. Upto(S, m) = SUBSET S
  BY <1>4 DEF Upto
<1> QED BY <1>5, <1>6 DEF FoldsBy, FoldsUpto

(* The total of some counts, as a fold over the subsets of the options *)
LEMMA TotalFolds ==
  ASSUME NEW c, IsFiniteSet(DOMAIN c), \A o \in DOMAIN c : c[o] \in Nat
  PROVE  \E h, pick :
           /\ \A s \in SUBSET DOMAIN c : s # {} =>
                pick[s] \in s /\ h[s] = c[pick[s]] + h[s \ {pick[s]}]
           /\ h[{}] = 0 /\ FacetTotal(c) = h[DOMAIN c]
<1> DEFINE D == DOMAIN c
           pick == [s \in SUBSET D |-> CHOOSE x \in s : TRUE]
           step == [w \in D \X Nat |-> c[w[1]] + w[2]]
           Folds(h) == h = [s \in SUBSET D |->
             IF s = {} THEN 0
             ELSE c[CHOOSE x \in s : TRUE] + h[s \ {CHOOSE x \in s : TRUE}]]
           total == CHOOSE h : Folds(h)
<1>1. FacetTotal(c) = total[D]
  BY DEF FacetTotal, MapThenSumSet, MapThenFoldSet
<1>2. \A s \in SUBSET D : s # {} => pick[s] \in s /\ pick[s] = CHOOSE x \in s : TRUE
  OBVIOUS
<1>3. step \in [D \X Nat -> Nat] /\ \A x \in D, v \in Nat : step[x, v] = c[x] + v
  <2>1. ASSUME NEW w \in D \X Nat PROVE c[w[1]] + w[2] \in Nat
    <3>1. w[1] \in D /\ w[2] \in Nat
      OBVIOUS
    <3>2. c[w[1]] \in Nat
      BY <3>1
    <3> QED BY <3>1, <3>2
  <2>2. step \in [D \X Nat -> Nat]
    BY <2>1
  <2>3. ASSUME NEW x \in D, NEW v \in Nat PROVE step[x, v] = c[x] + v
    <3>1. <<x, v>> \in D \X Nat /\ <<x, v>>[1] = x /\ <<x, v>>[2] = v
      OBVIOUS
    <3> QED BY <3>1
  <2> QED BY <2>2, <2>3
<1> HIDE DEF step
<1>4. PICK k \in [SUBSET D -> Nat] : FoldsBy(k, D, 0, pick, step)
  <2> HIDE DEF pick
  <2>1. 0 \in Nat
    OBVIOUS
  <2> QED BY <1>2, <1>3, <2>1, FoldExists
<1>5. Folds(k)
  <2>1. ASSUME NEW s \in SUBSET D, s # {}
        PROVE  k[s] = c[CHOOSE x \in s : TRUE] + k[s \ {CHOOSE x \in s : TRUE}]
    <3>1. pick[s] \in D /\ s \ {pick[s]} \in SUBSET D
      BY <1>2, <2>1
    <3>2. k[s] = step[pick[s], k[s \ {pick[s]}]] /\ k[s \ {pick[s]}] \in Nat
      BY <1>4, <2>1, <3>1 DEF FoldsBy
    <3>3. k[s] = c[pick[s]] + k[s \ {pick[s]}]
      BY <1>3, <3>1, <3>2
    <3> QED BY <1>2, <2>1, <3>3
  <2>2. k[{}] = 0
    BY <1>4 DEF FoldsBy
  <2> QED BY <2>1, <2>2
<1>6. Folds(total)
  BY <1>5
<1> HIDE DEF total
<1>7. \A s \in SUBSET D : s # {} =>
        pick[s] \in s /\ total[s] = c[pick[s]] + total[s \ {pick[s]}]
  BY <1>2, <1>6
<1>8. total[{}] = 0
  BY <1>6
<1> QED BY <1>1, <1>7, <1>8

(* What a set of options counts *)
Counted(ps, f, g, s) == {p \in DOMAIN ps : ps[p][g] \in s /\ PassesOtherThan(ps[p], f, g)}

LEMMA CountedIsFinite ==
  ASSUME NEW ps, IsFiniteSet(DOMAIN ps), NEW f, NEW g, NEW s
  PROVE  IsFiniteSet(Counted(ps, f, g, s)) /\ Cardinality(Counted(ps, f, g, s)) \in Nat
<1>1. Counted(ps, f, g, s) \in SUBSET DOMAIN ps
  BY DEF Counted
<1> QED BY <1>1, FS_Subset, FS_CardinalityType

LEMMA CountedParts ==
  ASSUME NEW ps, IsFiniteSet(DOMAIN ps), NEW f, NEW g, NEW s, NEW o \in s
  PROVE  Cardinality(Counted(ps, f, g, s)) =
           Cardinality(Counted(ps, f, g, {o})) + Cardinality(Counted(ps, f, g, s \ {o}))
<1> DEFINE A == Counted(ps, f, g, {o})
           B == Counted(ps, f, g, s \ {o})
<1>1. A \cup B = Counted(ps, f, g, s) /\ A \cap B = {}
  BY DEF Counted
<1>2. /\ IsFiniteSet(A) /\ IsFiniteSet(B)
      /\ Cardinality(A) \in Nat /\ Cardinality(B) \in Nat
  BY CountedIsFinite
<1> HIDE DEF A, B
<1>3. Cardinality(A \cup B) = Cardinality(A) + Cardinality(B) - Cardinality(A \cap B)
  BY <1>2, FS_Union
<1>4. Cardinality(A \cap B) = 0
  BY <1>1, FS_EmptySet
<1>5. Cardinality(A \cup B) = Cardinality(A) + Cardinality(B)
  BY <1>2, <1>3, <1>4
<1> QED BY <1>1, <1>5 DEF A, B

LEMMA TotalCounts ==
  ASSUME NEW ps, IsFiniteSet(DOMAIN ps), NEW f, NEW g, NEW offered, IsFiniteSet(offered)
  PROVE  FacetTotal(FacetCounts(ps, f, g, offered)) =
           Cardinality(Counted(ps, f, g, offered))
<1> DEFINE c == FacetCounts(ps, f, g, offered)
           Size(s) == Cardinality(Counted(ps, f, g, s))
<1>1. DOMAIN c = offered /\ \A o \in offered : c[o] = Size({o})
  <2>1. ASSUME NEW o \in offered
        PROVE  {p \in DOMAIN ps : ps[p][g] = o /\ PassesOtherThan(ps[p], f, g)}
                 = Counted(ps, f, g, {o})
    BY DEF Counted
  <2> QED BY <2>1 DEF FacetCounts
<1>2. \A s : Size(s) \in Nat
  BY CountedIsFinite
<1>3. ASSUME NEW s, NEW o \in s PROVE Size(s) = Size({o}) + Size(s \ {o})
  BY CountedParts
<1>4. Size({}) = 0
  <2>1. Counted(ps, f, g, {}) = {}
    BY DEF Counted
  <2> QED BY <2>1, FS_EmptySet
<1> HIDE DEF c, Size
<1>5. PICK h, pick :
        /\ \A s \in SUBSET offered : s # {} =>
             pick[s] \in s /\ h[s] = c[pick[s]] + h[s \ {pick[s]}]
        /\ h[{}] = 0 /\ FacetTotal(c) = h[offered]
  <2>1. \A o \in DOMAIN c : c[o] \in Nat
    BY <1>1, <1>2
  <2> QED BY <1>1, <2>1, TotalFolds
<1> DEFINE T == {n \in Nat : \A s \in Upto(offered, n) : h[s] = Size(s)}
<1>6. 0 \in T
  <2>1. ASSUME NEW s \in Upto(offered, 0) PROVE s = {}
    <3>1. IsFiniteSet(s) /\ Cardinality(s) \in Nat /\ Cardinality(s) <= 0
      BY FS_Subset, FS_CardinalityType DEF Upto
    <3>2. Cardinality(s) = 0
      BY <3>1
    <3> QED BY <3>1, <3>2, FS_EmptySet
  <2> QED BY <1>4, <1>5, <2>1
<1>7. ASSUME NEW n \in T PROVE n + 1 \in T
  <2>1. n \in Nat /\ n + 1 \in Nat /\ \A s \in Upto(offered, n) : h[s] = Size(s)
    OBVIOUS
  <2>2. ASSUME NEW s \in Upto(offered, n + 1) PROVE h[s] = Size(s)
    <3>1. s \in SUBSET offered /\ Cardinality(s) <= n + 1
      BY DEF Upto
    <3>2. CASE s = {}
      BY <1>4, <1>5, <3>2
    <3>3. CASE s # {}
      <4>1. pick[s] \in s /\ h[s] = c[pick[s]] + h[s \ {pick[s]}]
        BY <1>5, <3>1, <3>3
      <4>2. pick[s] \in offered /\ s \ {pick[s]} \in Upto(offered, n)
        BY <2>1, <3>1, <4>1, PickedOff
      <4>3. h[s] = Size({pick[s]}) + Size(s \ {pick[s]})
        BY <1>1, <2>1, <4>1, <4>2
      <4> QED BY <1>3, <4>1, <4>3
    <3> QED BY <3>2, <3>3
  <2> QED BY <2>1, <2>2
<1>8. T = Nat
  <2>1. T \in SUBSET Nat
    OBVIOUS
  <2> HIDE DEF T
  <2> QED BY <1>6, <1>7, <2>1, AllNaturals
<1>9. Cardinality(offered) \in Nat /\ offered \in Upto(offered, Cardinality(offered))
  <2>1. Cardinality(offered) \in Nat
    BY FS_CardinalityType
  <2>2. Cardinality(offered) <= Cardinality(offered)
    BY <2>1
  <2> QED BY <2>1, <2>2 DEF Upto
<1>10. h[offered] = Size(offered)
  BY <1>8, <1>9
<1> QED BY <1>5, <1>10 DEF c, Size

(* The number beside "All" is what ticking all its menu leaves, however the  *)
(* menu and the projects have moved apart (facetTotal).                      *)
THEOREM TotalDelivers ==
  ASSUME NEW ps, IsFiniteSet(DOMAIN ps), NEW f, IsFilter(f), NEW g \in Groups,
         NEW offered, IsFiniteSet(offered), offered # {}, NoValue \notin offered
  PROVE  FacetTotal(FacetCounts(ps, f, g, offered)) = Cardinality(LeftBy(ps, f, g, offered))
<1>1. LeftBy(ps, f, g, offered) = Counted(ps, f, g, offered)
  BY LeftIs DEF Counted
<1> QED BY <1>1, TotalCounts

-----------------------------------------------------------------------------
(* The card's list, of any components that map-api may answer *)

LEMMA LeastNatural ==
  ASSUME NEW T \in SUBSET Nat, T # {}
  PROVE  \E n \in T : \A m \in T : n <= m
<1>1. PICK n \in T : \A m \in T : <<m, n>> \notin OpToRel(<, Nat)
  BY NatLessThanWellFounded, WFMin
<1>2. ASSUME NEW m \in T PROVE n <= m
  <2>1. <<m, n>> \in Nat \X Nat /\ <<m, n>>[1] = m /\ <<m, n>>[2] = n
    OBVIOUS
  <2>2. ~ (m < n)
    BY <1>1, <2>1 DEF OpToRel
  <2>3. m \in Nat /\ n \in Nat
    OBVIOUS
  <2> QED BY <2>2, <2>3
<1> QED BY <1>2

-----------------------------------------------------------------------------
(* A set in a strict order of its members *)

StrictOrder(R, S) ==
  /\ \A x \in S : <<x, x>> \notin R
  /\ \A x, y, z \in S : <<x, y>> \in R /\ <<y, z>> \in R => <<x, z>> \in R
  /\ \A x, y \in S : x = y \/ <<x, y>> \in R \/ <<y, x>> \in R

Below(R, S, x) == {y \in S : <<y, x>> \in R}

LEMMA BelowIsLess ==
  ASSUME NEW S, IsFiniteSet(S), NEW R, StrictOrder(R, S), NEW x \in S
  PROVE  /\ Cardinality(Below(R, S, x)) \in 0..(Cardinality(S) - 1)
         /\ \A y \in S : <<x, y>> \in R =>
              Cardinality(Below(R, S, x)) < Cardinality(Below(R, S, y))
<1>1. IsFiniteSet(S \ {x}) /\ Cardinality(S \ {x}) = Cardinality(S) - 1 /\ Cardinality(S) \in Nat
  BY FS_RemoveElement, FS_CardinalityType
<1>2. Below(R, S, x) \in SUBSET (S \ {x})
  BY DEF Below, StrictOrder
<1>3. \A y \in S : IsFiniteSet(Below(R, S, y)) /\ Cardinality(Below(R, S, y)) \in Nat
  <2>1. \A y \in S : Below(R, S, y) \in SUBSET S
    BY DEF Below
  <2> QED BY <2>1, FS_Subset, FS_CardinalityType
<1>4. Cardinality(Below(R, S, x)) <= Cardinality(S) - 1
  BY <1>1, <1>2, FS_Subset
<1>5. ASSUME NEW y \in S, <<x, y>> \in R
      PROVE  Cardinality(Below(R, S, x)) < Cardinality(Below(R, S, y))
  <2>1. Below(R, S, x) \in SUBSET Below(R, S, y)
    BY <1>5 DEF Below, StrictOrder
  <2>2. x \in Below(R, S, y) /\ x \notin Below(R, S, x)
    BY <1>5 DEF Below, StrictOrder
  <2>3. /\ Cardinality(Below(R, S, x)) <= Cardinality(Below(R, S, y))
        /\ Cardinality(Below(R, S, x)) # Cardinality(Below(R, S, y))
    BY <1>3, <2>1, <2>2, FS_Subset
  <2> QED BY <1>3, <2>3
<1> QED BY <1>1, <1>3, <1>4, <1>5

(* Its sequence has every member, once. *)
LEMMA OrderedIs ==
  ASSUME NEW S, IsFiniteSet(S), NEW R, StrictOrder(R, S)
  PROVE  /\ Cardinality(S) \in Nat /\ Ordered(S, R) \in [1..Cardinality(S) -> S]
         /\ ToSet(Ordered(S, R)) = S /\ IsInjective(Ordered(S, R))
<1> DEFINE N == Cardinality(S)
           size(x) == Cardinality(Below(R, S, x))
           rank == [x \in S |-> size(x) + 1]
           q == Ordered(S, R)
<1>1. N \in Nat
  BY FS_CardinalityType
<1>2. \A x \in S : size(x) \in 0..(N - 1)
  BY BelowIsLess
<1>3. \A x, y \in S : <<x, y>> \in R => size(x) < size(y)
  BY BelowIsLess
<1>4. \A x \in S : {y \in S : <<y, x>> \in R} = Below(R, S, x)
  BY DEF Below
<1>5. q = [n \in 1..N |-> CHOOSE x \in S : size(x) = n - 1]
  BY Zenon DEF Ordered, Below
<1> HIDE DEF N, size, q
<1>6. \A x, y \in S : size(x) = size(y) => x = y
  <2>1. ASSUME NEW x \in S, NEW y \in S, size(x) = size(y), x # y PROVE FALSE
    <3>1. size(x) \in Nat /\ size(y) \in Nat
      BY <1>1, <1>2
    <3>2. <<x, y>> \in R \/ <<y, x>> \in R
      BY <2>1 DEF StrictOrder
    <3>3. size(x) < size(y) \/ size(y) < size(x)
      BY <1>3, <3>2
    <3> QED BY <2>1, <3>1, <3>3
  <2> QED BY <2>1
<1>7. rank \in Injection(S, 1..N)
  <2>1. \A x \in S : size(x) + 1 \in 1..N
    BY <1>1, <1>2
  <2>2. rank \in [S -> 1..N]
    BY <2>1
  <2>3. \A x, y \in S : rank[x] = rank[y] => x = y
    BY <1>1, <1>2, <1>6
  <2> QED BY <2>2, <2>3 DEF Injection, IsInjective
<1>8. rank \in Surjection(S, 1..N)
  <2>1. IsFiniteSet(1..N) /\ Cardinality(1..N) = N
    BY <1>1, FS_Interval
  <2> HIDE DEF rank
  <2> QED BY <1>1, <1>7, <2>1, FS_Injection DEF N
<1>9. ASSUME NEW n \in 1..N PROVE \E x \in S : size(x) = n - 1
  <2>1. PICK x \in S : rank[x] = n
    BY <1>8 DEF Surjection
  <2>2. size(x) + 1 = n /\ size(x) \in Nat
    BY <1>1, <1>2, <2>1
  <2> QED BY <2>2
<1>10. \A n \in 1..N : q[n] \in S /\ size(q[n]) = n - 1
  BY <1>5, <1>9
<1>11. q \in [1..N -> S]
  BY <1>5, <1>10
<1>12. IsInjective(q)
  <2>1. ASSUME NEW m \in 1..N, NEW n \in 1..N, q[m] = q[n] PROVE m = n
    <3>1. m - 1 = n - 1
      BY <1>10, <2>1
    <3> QED BY <1>1, <3>1
  <2> QED BY <1>11, <2>1 DEF IsInjective
<1>13. ToSet(q) = S
  <2>1. ASSUME NEW x \in S PROVE \E n \in 1..N : q[n] = x
    <3>1. size(x) + 1 \in 1..N /\ (size(x) + 1) - 1 = size(x)
      BY <1>1, <1>2
    <3>2. size(q[size(x) + 1]) = size(x) /\ q[size(x) + 1] \in S
      BY <1>10, <3>1
    <3> QED BY <1>6, <3>1, <3>2
  <2> QED BY <1>11, <2>1 DEF ToSet
<1> QED BY <1>1, <1>11, <1>12, <1>13 DEF q, N

-----------------------------------------------------------------------------
(* Sequences, of what they hold *)

IsList(s) == \E N \in Nat : s \in [1..N -> ToSet(s)]

LEMMA ListIs ==
  ASSUME NEW N \in Nat, NEW e, NEW S, e \in [1..N -> S]
  PROVE  IsList(e) /\ DOMAIN e = 1..N
<1>1. e \in [1..N -> ToSet(e)]
  BY DEF ToSet
<1> QED BY <1>1 DEF IsList

LEMMA FirstOfList ==
  ASSUME NEW s, IsList(s), ToSet(s) # {}
  PROVE  1 \in DOMAIN s /\ s[1] \in ToSet(s)
<1>1. PICK N \in Nat : s \in [1..N -> ToSet(s)]
  BY DEF IsList
<1>2. N # 0
  BY <1>1 DEF ToSet
<1>3. 1 \in DOMAIN s
  BY <1>1, <1>2
<1> QED BY <1>3 DEF ToSet

LEMMA MapIs ==
  ASSUME NEW s, IsList(s), NEW f, NEW t, t = [n \in DOMAIN s |-> f[s[n]]]
  PROVE  /\ IsList(t) /\ DOMAIN t = DOMAIN s
         /\ ToSet(t) = {f[x] : x \in ToSet(s)}
<1>1. ToSet(t) = {f[x] : x \in ToSet(s)}
  BY DEF ToSet
<1>2. PICK N \in Nat : s \in [1..N -> ToSet(s)]
  BY DEF IsList
<1>3. t \in [1..N -> ToSet(t)]
  BY <1>2 DEF ToSet
<1>4. IsList(t)
  BY <1>3 DEF IsList
<1> QED BY <1>1, <1>4

LEMMA AtIs ==
  ASSUME NEW s, IsList(s), NEW I \in SUBSET DOMAIN s
  PROVE  /\ IsList(At(s, I)) /\ ToSet(At(s, I)) = {s[i] : i \in I}
         /\ (\A i, j \in I : s[i] = s[j] => i = j) => IsInjective(At(s, I))
<1> DEFINE R == {w \in I \X I : w[1] < w[2]}
           q == Ordered(I, R)
           t == At(s, I)
<1>1. PICK N \in Nat : DOMAIN s = 1..N
  BY DEF IsList
<1>2. IsFiniteSet(I)
  <2>1. IsFiniteSet(1..N)
    BY FS_Interval
  <2> QED BY <1>1, <2>1, FS_Subset
<1>3. StrictOrder(R, I)
  <2>1. I \subseteq Nat
    BY <1>1
  <2>2. \A x, y \in I : <<x, y>> \in R <=> x < y
    OBVIOUS
  <2> HIDE DEF R
  <2> QED BY <2>1, <2>2 DEF StrictOrder
<1> HIDE DEF R
<1>4. /\ Cardinality(I) \in Nat /\ q \in [1..Cardinality(I) -> I]
      /\ ToSet(q) = I /\ IsInjective(q)
  BY <1>2, <1>3, OrderedIs
<1>5. t = [n \in DOMAIN q |-> s[q[n]]]
  BY DEF At, MapSeq, R
<1> HIDE DEF q, t
<1>6. t \in [1..Cardinality(I) -> {s[i] : i \in I}]
  BY <1>4, <1>5
<1>7. IsList(t)
  BY <1>4, <1>6, ListIs
<1>8. ToSet(t) = {s[i] : i \in I}
  BY <1>4, <1>5 DEF ToSet
<1>9. (\A i, j \in I : s[i] = s[j] => i = j) => IsInjective(t)
  BY <1>4, <1>5 DEF IsInjective
<1> QED BY <1>7, <1>8, <1>9 DEF t

LEMMA HavingIs ==
  ASSUME NEW s, IsList(s), NEW of, NEW key
  PROVE  IsList(Having(s, of, key)) /\ ToSet(Having(s, of, key)) = {x \in ToSet(s) : of[x] = key}
<1> DEFINE I == {n \in DOMAIN s : of[s[n]] = key}
<1>1. IsList(At(s, I)) /\ ToSet(At(s, I)) = {s[i] : i \in I}
  BY AtIs
<1>2. {s[i] : i \in I} = {x \in ToSet(s) : of[x] = key}
  BY DEF ToSet
<1> QED BY <1>1, <1>2 DEF Having

LEMMA FirstSeenIs ==
  ASSUME NEW s, IsList(s), NEW of
  PROVE  /\ IsList(FirstSeen(s, of)) /\ ToSet(FirstSeen(s, of)) = {of[x] : x \in ToSet(s)}
<1> DEFINE I == {n \in DOMAIN s : \A m \in 1..(n - 1) : of[s[m]] # of[s[n]]}
           t == At(s, I)
<1>1. IsList(t) /\ ToSet(t) = {s[i] : i \in I}
  BY AtIs
<1>2. {of[x] : x \in {s[i] : i \in I}} = {of[x] : x \in ToSet(s)}
  <2>1. PICK N \in Nat : DOMAIN s = 1..N
    BY DEF IsList
  <2>2. ASSUME NEW n \in DOMAIN s PROVE \E i \in I : of[s[i]] = of[s[n]]
    <3> DEFINE T == {m \in 1..N : of[s[m]] = of[s[n]]}
    <3>1. T \in SUBSET Nat /\ T # {}
      BY <2>1, <2>2
    <3>2. PICK i \in T : \A m \in T : i <= m
      BY <3>1, LeastNatural
    <3>3. ASSUME NEW m \in 1..(i - 1) PROVE of[s[m]] # of[s[i]]
      BY <2>1, <3>2
    <3> QED BY <2>1, <3>2, <3>3
  <2> QED BY <2>2 DEF ToSet
<1>3. FirstSeen(s, of) = [n \in DOMAIN t |-> of[t[n]]]
  BY DEF FirstSeen, MapSeq
<1> HIDE DEF t, I
<1>4. IsList(FirstSeen(s, of)) /\ ToSet(FirstSeen(s, of)) = {of[x] : x \in ToSet(t)}
  BY <1>1, <1>3, MapIs
<1> QED BY <1>1, <1>2, <1>4

LEMMA GroupsAre ==
  ASSUME NEW s, IsList(s), NEW of
  PROVE  /\ IsList(GroupBy(s, of))
         /\ ToSet(GroupBy(s, of)) = {Having(s, of, of[x]) : x \in ToSet(s)}
<1> DEFINE t == FirstSeen(s, of)
           f == [k \in ToSet(t) |-> Having(s, of, k)]
<1>1. IsList(t) /\ ToSet(t) = {of[x] : x \in ToSet(s)}
  BY FirstSeenIs
<1>2. GroupBy(s, of) = [n \in DOMAIN t |-> f[t[n]]]
  BY DEF GroupBy, MapSeq, ToSet
<1> HIDE DEF t
<1>3. IsList(GroupBy(s, of)) /\ ToSet(GroupBy(s, of)) = {f[k] : k \in ToSet(t)}
  <2> HIDE DEF f
  <2> QED BY <1>1, <1>2, MapIs
<1>4. {f[k] : k \in ToSet(t)} = {Having(s, of, of[x]) : x \in ToSet(s)}
  BY <1>1
<1> QED BY <1>3, <1>4

LEMMA ListIsFinite == ASSUME NEW s, IsList(s) PROVE IsFiniteSet(ToSet(s))
<1>1. PICK N \in Nat : s \in [1..N -> ToSet(s)]
  BY DEF IsList
<1>2. IsFiniteSet(1..N)
  BY <1>1, FS_Interval
<1>3. ToSet(s) = {s[i] : i \in 1..N}
  BY <1>1 DEF ToSet
<1>4. s \in Surjection(1..N, ToSet(s))
  BY <1>1, <1>3 DEF Surjection
<1> QED BY <1>2, <1>4, FS_Surjection

(* In a strict order of its values, a set with one member a value *)
LEMMA OrderedList ==
  ASSUME NEW S, IsFiniteSet(S), NEW R, StrictOrder(R, S)
  PROVE  IsList(Ordered(S, R)) /\ ToSet(Ordered(S, R)) = S /\ IsInjective(Ordered(S, R))
BY OrderedIs, ListIs

-----------------------------------------------------------------------------
(* The components beside one: of its type, submission, label and row *)

SameType(cs, t) == Having(cs, [x \in ToSet(cs) |-> x.type], t)

SameSubmission(cs, c) ==
  Having(SameType(cs, c.type), [x \in ToSet(cs) |-> SubmissionKey(x)], SubmissionKey(c))

SameLabel(cs, c) ==
  Having(SameSubmission(cs, c), [x \in ToSet(SameSubmission(cs, c)) |-> x.label], c.label)

SameRow(cs, c) ==
  Having(SameLabel(cs, c), [x \in ToSet(SameLabel(cs, c)) |-> x.comment], c.comment)

LEMMA KeyTellsType ==
  ASSUME NEW x, NEW c, SubmissionKey(x) = SubmissionKey(c) PROVE x.type = c.type
<1>1. SubmissionKey(x)[1] = x.type /\ SubmissionKey(c)[1] = c.type
  BY DEF SubmissionKey
<1> QED BY <1>1

LEMMA ListingIsList == ASSUME NEW cs, IsListing(cs) PROVE IsList(cs)
<1>1. Len(cs) \in Nat /\ cs \in [1..Len(cs) -> ToSet(cs)]
  BY LenProperties DEF IsListing
<1> QED BY <1>1 DEF IsList

LEMMA TypeIs ==
  ASSUME NEW cs, IsListing(cs), NEW t
  PROVE  /\ IsList(SameType(cs, t)) /\ ToSet(SameType(cs, t)) = {x \in ToSet(cs) : x.type = t}
<1>1. IsList(cs)
  BY ListingIsList
<1> DEFINE of == [x \in ToSet(cs) |-> x.type]
<1>2. \A x \in ToSet(cs) : of[x] = x.type
  OBVIOUS
<1> HIDE DEF of
<1>3. IsList(Having(cs, of, t)) /\ ToSet(Having(cs, of, t)) = {x \in ToSet(cs) : of[x] = t}
  BY <1>1, HavingIs
<1> QED BY <1>2, <1>3 DEF SameType, of

LEMMA SubmissionIs ==
  ASSUME NEW cs, IsListing(cs), NEW c
  PROVE  /\ IsList(SameSubmission(cs, c))
         /\ ToSet(SameSubmission(cs, c)) =
              {x \in ToSet(cs) : SubmissionKey(x) = SubmissionKey(c)}
<1> DEFINE s == SameType(cs, c.type)
           of == [x \in ToSet(cs) |-> SubmissionKey(x)]
<1>1. IsList(s) /\ ToSet(s) = {x \in ToSet(cs) : x.type = c.type}
  BY TypeIs
<1>2. \A x \in ToSet(cs) : of[x] = SubmissionKey(x)
  OBVIOUS
<1>3. \A x \in ToSet(cs) : SubmissionKey(x) = SubmissionKey(c) => x.type = c.type
  BY KeyTellsType
<1>4. SameSubmission(cs, c) = Having(s, of, SubmissionKey(c))
  BY DEF SameSubmission
<1> HIDE DEF s, of
<1>5. /\ IsList(Having(s, of, SubmissionKey(c)))
      /\ ToSet(Having(s, of, SubmissionKey(c))) = {x \in ToSet(s) : of[x] = SubmissionKey(c)}
  BY <1>1, HavingIs
<1> QED BY <1>1, <1>2, <1>3, <1>4, <1>5

LEMMA LabelIs ==
  ASSUME NEW cs, IsListing(cs), NEW c
  PROVE  /\ IsList(SameLabel(cs, c))
         /\ ToSet(SameLabel(cs, c)) =
              {x \in ToSet(cs) : SubmissionKey(x) = SubmissionKey(c) /\ x.label = c.label}
<1> DEFINE s == SameSubmission(cs, c)
           of == [x \in ToSet(s) |-> x.label]
<1>1. IsList(s) /\ ToSet(s) = {x \in ToSet(cs) : SubmissionKey(x) = SubmissionKey(c)}
  BY SubmissionIs
<1>2. \A x \in ToSet(s) : of[x] = x.label
  OBVIOUS
<1>3. SameLabel(cs, c) = Having(s, of, c.label)
  BY DEF SameLabel
<1> HIDE DEF s, of
<1>4. /\ IsList(Having(s, of, c.label))
      /\ ToSet(Having(s, of, c.label)) = {x \in ToSet(s) : of[x] = c.label}
  BY <1>1, HavingIs
<1> QED BY <1>1, <1>2, <1>3, <1>4

LEMMA RowIs ==
  ASSUME NEW cs, IsListing(cs), NEW c
  PROVE  /\ IsList(SameRow(cs, c))
         /\ ToSet(SameRow(cs, c)) =
              {x \in ToSet(cs) : /\ SubmissionKey(x) = SubmissionKey(c)
                                 /\ x.label = c.label /\ x.comment = c.comment}
<1> DEFINE s == SameLabel(cs, c)
           of == [x \in ToSet(s) |-> x.comment]
<1>1. /\ IsList(s)
      /\ ToSet(s) = {x \in ToSet(cs) : SubmissionKey(x) = SubmissionKey(c) /\ x.label = c.label}
  BY LabelIs
<1>2. \A x \in ToSet(s) : of[x] = x.comment
  OBVIOUS
<1>3. SameRow(cs, c) = Having(s, of, c.comment)
  BY DEF SameRow
<1> HIDE DEF s, of
<1>4. /\ IsList(Having(s, of, c.comment))
      /\ ToSet(Having(s, of, c.comment)) = {x \in ToSet(s) : of[x] = c.comment}
  BY <1>1, HavingIs
<1> QED BY <1>1, <1>2, <1>3, <1>4

(* What two components share, they share with the same others. *)
LEMMA SharedIsSame ==
  ASSUME NEW cs, NEW x, NEW c, SubmissionKey(x) = SubmissionKey(c)
  PROVE  /\ SameSubmission(cs, x) = SameSubmission(cs, c)
         /\ x.label = c.label => SameLabel(cs, x) = SameLabel(cs, c)
         /\ x.label = c.label /\ x.comment = c.comment => SameRow(cs, x) = SameRow(cs, c)
<1>1. SameSubmission(cs, x) = SameSubmission(cs, c)
  BY KeyTellsType DEF SameSubmission
<1>2. ASSUME x.label = c.label PROVE SameLabel(cs, x) = SameLabel(cs, c)
  BY <1>1, <1>2 DEF SameLabel
<1>3. ASSUME x.label = c.label, x.comment = c.comment PROVE SameRow(cs, x) = SameRow(cs, c)
  BY <1>2, <1>3 DEF SameRow
<1> QED BY <1>1, <1>2, <1>3

LEMMA IdsAre == ASSUME NEW s PROVE ToSet(IdsOf(s)) = {c.id : c \in ToSet(s)}
BY DEF IdsOf, MapSeq, ToSet

-----------------------------------------------------------------------------
(* A row, a label and a submission are what their components share. *)

LEMMA VariantIs ==
  ASSUME NEW cs, IsListing(cs), NEW c \in ToSet(cs)
  PROVE  LET v == Variant(SameRow(cs, c)) IN
         /\ v.comment = c.comment /\ v.key = SameRow(cs, c)[1].id
         /\ v.key \in {x.id : x \in ToSet(cs)} /\ c.id \in ToSet(v.ids)
         /\ ToSet(v.ids) = {x.id : x \in ToSet(SameRow(cs, c))}
<1> DEFINE r == SameRow(cs, c)
           v == Variant(r)
<1>1. /\ IsList(r)
      /\ ToSet(r) = {x \in ToSet(cs) : /\ SubmissionKey(x) = SubmissionKey(c)
                                       /\ x.label = c.label /\ x.comment = c.comment}
  BY RowIs
<1> HIDE DEF r
<1>2. c \in ToSet(r) /\ r[1] \in ToSet(r)
  BY <1>1, FirstOfList
<1>3. v.comment = r[1].comment /\ v.key = r[1].id /\ v.ids = IdsOf(r)
  BY DEF Variant
<1> QED BY <1>1, <1>2, <1>3, IdsAre DEF r

LEMMA VariantsAre ==
  ASSUME NEW cs, IsListing(cs), NEW c \in ToSet(cs)
  PROVE  LET V == VariantsOf(SameLabel(cs, c)) IN
         /\ V = {Variant(SameRow(cs, x)) : x \in ToSet(SameLabel(cs, c))}
         /\ IsFiniteSet(V) /\ StrictOrder(CommentOrder(V), V)
<1> DEFINE l == SameLabel(cs, c)
           of == [x \in ToSet(l) |-> x.comment]
           G == GroupBy(l, of)
           V == VariantsOf(l)
           rows == {SameRow(cs, x) : x \in ToSet(l)}
           f == [r \in rows |-> Variant(r)]
           M == MapSeq(Variant, G)
<1>1. /\ IsList(l)
      /\ ToSet(l) = {x \in ToSet(cs) : SubmissionKey(x) = SubmissionKey(c) /\ x.label = c.label}
  BY LabelIs
<1>2. ASSUME NEW x \in ToSet(l) PROVE Having(l, of, of[x]) = SameRow(cs, x)
  <2>1. SameLabel(cs, x) = l
    BY <1>1, SharedIsSame
  <2> HIDE DEF l
  <2>2. of[x] = x.comment
    OBVIOUS
  <2> QED BY <2>1, <2>2 DEF SameRow
<1>3. IsList(G) /\ ToSet(G) = {Having(l, of, of[x]) : x \in ToSet(l)}
  <2> HIDE DEF l, of
  <2> QED BY <1>1, GroupsAre
<1>4. ToSet(G) = rows
  BY <1>2, <1>3
<1>5. V = ToSet(M)
  BY DEF VariantsOf
<1>6. M = [n \in DOMAIN G |-> f[G[n]]]
  <2> HIDE DEF G, rows
  <2> QED BY <1>4 DEF MapSeq, ToSet
<1> HIDE DEF G, V, f, M
<1>7. IsList(M) /\ V = {f[r] : r \in ToSet(G)}
  <2>1. IsList(G)
    BY <1>3
  <2> HIDE DEF l, of, rows
  <2> QED BY <1>5, <1>6, <2>1, MapIs
<1>8. V = {Variant(SameRow(cs, x)) : x \in ToSet(l)}
  BY <1>4, <1>7 DEF f
<1>9. IsFiniteSet(V)
  BY <1>5, <1>7, ListIsFinite
<1>10. \A x \in ToSet(l) : x \in ToSet(cs) /\ x.comment \in Int
                          /\ Variant(SameRow(cs, x)).comment = x.comment
  BY <1>1, VariantIs DEF IsListing
<1>11. \A x, y \in ToSet(l) : x.comment = y.comment => SameRow(cs, x) = SameRow(cs, y)
  BY <1>1, SharedIsSame
<1> HIDE DEF l
<1>12. \A v \in V : v.comment \in Int
  BY <1>8, <1>10
<1>13. \A v, w \in V : v.comment = w.comment => v = w
  <2>1. ASSUME NEW v \in V, NEW w \in V, v.comment = w.comment PROVE v = w
    <3>1. PICK x \in ToSet(l) : v = Variant(SameRow(cs, x))
      BY <1>8
    <3>2. PICK y \in ToSet(l) : w = Variant(SameRow(cs, y))
      BY <1>8
    <3>3. x.comment = y.comment
      BY <1>10, <2>1, <3>1, <3>2
    <3> QED BY <1>11, <3>1, <3>2, <3>3
  <2> QED BY <2>1
<1>14. StrictOrder(CommentOrder(V), V)
  <2>1. \A v, w \in V : <<v, w>> \in CommentOrder(V) <=> v.comment < w.comment
    BY DEF CommentOrder
  <2> QED BY <1>12, <1>13, <2>1 DEF StrictOrder
<1> QED BY <1>8, <1>9, <1>14 DEF V, l

LEMMA LabelGroupIs ==
  ASSUME NEW cs, IsListing(cs), NEW c \in ToSet(cs)
  PROVE  LET l == LabelGroup(SameLabel(cs, c)) IN
         /\ l.label = c.label /\ l.boundary \in BOOLEAN
         /\ ToSet(l.ids) = {x.id : x \in ToSet(SameLabel(cs, c))}
         /\ ToSet(l.variants) = {Variant(SameRow(cs, x)) : x \in ToSet(SameLabel(cs, c))}
<1> DEFINE s == SameLabel(cs, c)
           l == LabelGroup(s)
<1>1. /\ IsList(s)
      /\ ToSet(s) = {x \in ToSet(cs) : SubmissionKey(x) = SubmissionKey(c) /\ x.label = c.label}
  BY LabelIs
<1>2. /\ VariantsOf(s) = {Variant(SameRow(cs, x)) : x \in ToSet(s)}
      /\ IsFiniteSet(VariantsOf(s)) /\ StrictOrder(CommentOrder(VariantsOf(s)), VariantsOf(s))
  BY VariantsAre
<1> HIDE DEF s
<1>3. c \in ToSet(s) /\ s[1] \in ToSet(s)
  BY <1>1, FirstOfList
<1>4. /\ l.label = s[1].label /\ l.ids = IdsOf(s)
      /\ l.boundary = (\E n \in DOMAIN s : s[n].footprint)
      /\ l.variants = Ordered(VariantsOf(s), CommentOrder(VariantsOf(s)))
  BY DEF LabelGroup, ByComment
<1>5. ToSet(l.variants) = VariantsOf(s)
  BY <1>2, <1>4, OrderedList
<1> HIDE DEF l
<1>6. l.label = c.label
  BY <1>1, <1>3, <1>4
<1>7. l.boundary \in BOOLEAN
  BY <1>4
<1>8. ToSet(l.ids) = {x.id : x \in ToSet(s)}
  BY <1>4, IdsAre
<1> QED BY <1>2, <1>5, <1>6, <1>7, <1>8 DEF l, s

LEMMA LabelsAre ==
  ASSUME NEW cs, IsListing(cs), NEW c \in ToSet(cs)
  PROVE  LET L == LabelsOf(SameSubmission(cs, c)) IN
         /\ L = {LabelGroup(SameLabel(cs, x)) : x \in ToSet(SameSubmission(cs, c))}
         /\ IsFiniteSet(L) /\ StrictOrder(LabelOrder(L), L)
<1> DEFINE s == SameSubmission(cs, c)
           of == [x \in ToSet(s) |-> x.label]
           G == GroupBy(s, of)
           L == LabelsOf(s)
           alike == {SameLabel(cs, x) : x \in ToSet(s)}
           f == [r \in alike |-> LabelGroup(r)]
           M == MapSeq(LabelGroup, G)
<1>1. IsList(s) /\ ToSet(s) = {x \in ToSet(cs) : SubmissionKey(x) = SubmissionKey(c)}
  BY SubmissionIs
<1>2. ASSUME NEW x \in ToSet(s) PROVE Having(s, of, of[x]) = SameLabel(cs, x)
  <2>1. SameSubmission(cs, x) = s
    BY <1>1, SharedIsSame
  <2> HIDE DEF s
  <2>2. of[x] = x.label
    OBVIOUS
  <2> QED BY <2>1, <2>2 DEF SameLabel
<1>3. IsList(G) /\ ToSet(G) = {Having(s, of, of[x]) : x \in ToSet(s)}
  <2> HIDE DEF s, of
  <2> QED BY <1>1, GroupsAre
<1>4. ToSet(G) = alike
  BY <1>2, <1>3
<1>5. L = ToSet(M)
  BY DEF LabelsOf
<1>6. M = [n \in DOMAIN G |-> f[G[n]]]
  <2> HIDE DEF G, alike
  <2> QED BY <1>4 DEF MapSeq, ToSet
<1> HIDE DEF G, L, f, M
<1>7. IsList(M) /\ L = {f[r] : r \in ToSet(G)}
  <2>1. IsList(G)
    BY <1>3
  <2> HIDE DEF s, of, alike
  <2> QED BY <1>5, <1>6, <2>1, MapIs
<1>8. L = {LabelGroup(SameLabel(cs, x)) : x \in ToSet(s)}
  BY <1>4, <1>7 DEF f
<1>9. IsFiniteSet(L)
  BY <1>5, <1>7, ListIsFinite
<1>10. \A x \in ToSet(s) : /\ x \in ToSet(cs) /\ x.label \in Int
                          /\ LabelGroup(SameLabel(cs, x)).label = x.label
                          /\ LabelGroup(SameLabel(cs, x)).boundary \in BOOLEAN
  BY <1>1, LabelGroupIs DEF IsListing
<1>11. \A x, y \in ToSet(s) : x.label = y.label => SameLabel(cs, x) = SameLabel(cs, y)
  BY <1>1, SharedIsSame
<1> HIDE DEF s
<1>12. \A v \in L : v.label \in Int /\ v.boundary \in BOOLEAN
  BY <1>8, <1>10
<1>13. \A v, w \in L : v.label = w.label => v = w
  <2>1. ASSUME NEW v \in L, NEW w \in L, v.label = w.label PROVE v = w
    <3>1. PICK x \in ToSet(s) : v = LabelGroup(SameLabel(cs, x))
      BY <1>8
    <3>2. PICK y \in ToSet(s) : w = LabelGroup(SameLabel(cs, y))
      BY <1>8
    <3>3. x.label = y.label
      BY <1>10, <2>1, <3>1, <3>2
    <3> QED BY <1>11, <3>1, <3>2, <3>3
  <2> QED BY <2>1
<1>14. StrictOrder(LabelOrder(L), L)
  <2>1. \A v, w \in L : <<v, w>> \in LabelOrder(L) <=>
           \/ v.boundary /\ ~ w.boundary
           \/ v.boundary = w.boundary /\ v.label < w.label
    BY DEF LabelOrder
  <2> QED BY <1>12, <1>13, <2>1 DEF StrictOrder
<1> QED BY <1>8, <1>9, <1>14 DEF L, s

LEMMA SubmissionGroupIs ==
  ASSUME NEW cs, IsListing(cs), NEW c \in ToSet(cs)
  PROVE  LET s == Submission(SameSubmission(cs, c)) IN
         /\ s.key = SubmissionKey(c)
         /\ ToSet(s.ids) = {x.id : x \in ToSet(SameSubmission(cs, c))}
         /\ ToSet(s.labels) = {LabelGroup(SameLabel(cs, x)) : x \in ToSet(SameSubmission(cs, c))}
         /\ IsInjective(s.labels)
<1> DEFINE r == SameSubmission(cs, c)
           s == Submission(r)
           L == LabelsOf(r)
<1>1. IsList(r) /\ ToSet(r) = {x \in ToSet(cs) : SubmissionKey(x) = SubmissionKey(c)}
  BY SubmissionIs
<1>2. /\ L = {LabelGroup(SameLabel(cs, x)) : x \in ToSet(r)}
      /\ IsFiniteSet(L) /\ StrictOrder(LabelOrder(L), L)
  BY LabelsAre
<1> HIDE DEF r
<1>3. c \in ToSet(r) /\ r[1] \in ToSet(r)
  BY <1>1, FirstOfList
<1>4. s.key = SubmissionKey(r[1]) /\ s.ids = IdsOf(r) /\ s.labels = Ordered(L, LabelOrder(L))
  BY DEF Submission, ByLabel
<1> HIDE DEF s, L
<1>5. ToSet(s.labels) = L /\ IsInjective(s.labels)
  BY <1>2, <1>4, OrderedList
<1>6. s.key = SubmissionKey(c)
  BY <1>1, <1>3, <1>4
<1>7. ToSet(s.ids) = {x.id : x \in ToSet(r)}
  BY <1>4, IdsAre
<1> QED BY <1>2, <1>5, <1>6, <1>7 DEF s, r

(* The groups: one a type that has a component, with its submissions *)
LEMMA GroupsList ==
  ASSUME NEW cs, IsListing(cs)
  PROVE  /\ \A g \in ToSet(GroupComponents(cs)) :
              ToSet(g.submissions) =
                {Submission(SameSubmission(cs, c)) : c \in {x \in ToSet(cs) : x.type = g.type}}
         /\ \A c \in ToSet(cs) : \E g \in ToSet(GroupComponents(cs)) : g.type = c.type
<1> DEFINE KeyOf == [x \in ToSet(cs) |-> SubmissionKey(x)]
           groups(t) == GroupBy(SameType(cs, t), KeyOf)
           section(t) == [type |-> t, submissions |-> MapSeq(Submission, groups(t))]
           types == ToSet(TYPE_SECTIONS)
           f == [t \in types |-> section(t)]
           sections == [n \in DOMAIN TYPE_SECTIONS |-> section(TYPE_SECTIONS[n])]
           filled == [g \in ToSet(sections) |-> g.submissions # <<>>]
<1>1. GroupComponents(cs) = Having(sections, filled, TRUE)
  BY DEF GroupComponents, NotEmpty, Section, MapSeq, SameType
<1>2. ASSUME NEW t \in types
      PROVE  ToSet(section(t).submissions) =
               {Submission(SameSubmission(cs, c)) : c \in {x \in ToSet(cs) : x.type = t}}
  <2> DEFINE s == SameType(cs, t)
             G == groups(t)
             subs == {SameSubmission(cs, c) : c \in ToSet(s)}
             h == [r \in subs |-> Submission(r)]
             M == MapSeq(Submission, G)
  <2>1. IsList(s) /\ ToSet(s) = {x \in ToSet(cs) : x.type = t}
    BY TypeIs
  <2>2. ASSUME NEW c \in ToSet(s) PROVE Having(s, KeyOf, KeyOf[c]) = SameSubmission(cs, c)
    <3>1. c \in ToSet(cs) /\ c.type = t
      BY <2>1
    <3>2. KeyOf[c] = SubmissionKey(c)
      BY <3>1
    <3> QED BY <3>1, <3>2 DEF SameSubmission
  <2>3. IsList(G) /\ ToSet(G) = {Having(s, KeyOf, KeyOf[c]) : c \in ToSet(s)}
    <3> HIDE DEF s, KeyOf
    <3>1. IsList(GroupBy(s, KeyOf)) /\ ToSet(GroupBy(s, KeyOf)) = {Having(s, KeyOf, KeyOf[c]) : c \in ToSet(s)}
      BY <2>1, GroupsAre
    <3> QED BY <3>1 DEF s
  <2>4. ToSet(G) = subs
    BY <2>2, <2>3
  <2>5. M = [n \in DOMAIN G |-> h[G[n]]]
    <3> HIDE DEF G, subs
    <3> QED BY <2>4 DEF MapSeq, ToSet
  <2>6. section(t).submissions = M
    OBVIOUS
  <2> HIDE DEF G, h, M
  <2>7. ToSet(M) = {h[r] : r \in ToSet(G)}
    <3>1. IsList(G)
      BY <2>3
    <3> HIDE DEF s, KeyOf, subs
    <3> QED BY <2>5, <3>1, MapIs
  <2>8. ToSet(M) = {Submission(SameSubmission(cs, c)) : c \in ToSet(s)}
    BY <2>4, <2>7 DEF h
  <2> QED BY <2>1, <2>6, <2>8
<1>3. \A t \in types : section(t).type = t
  OBVIOUS
<1> HIDE DEF section
<1>4. IsList(sections) /\ ToSet(sections) = {section(t) : t \in types}
  <2>1. TYPE_SECTIONS \in [1..2 -> types] /\ DOMAIN TYPE_SECTIONS = 1..2
    BY DEF TYPE_SECTIONS, ToSet
  <2>2. IsList(TYPE_SECTIONS)
    BY <2>1 DEF IsList
  <2>3. sections = [n \in DOMAIN TYPE_SECTIONS |-> f[TYPE_SECTIONS[n]]]
    BY <2>1
  <2> HIDE DEF f, sections
  <2>4. IsList(sections) /\ ToSet(sections) = {f[t] : t \in ToSet(TYPE_SECTIONS)}
    BY <2>2, <2>3, MapIs
  <2> QED BY <2>4 DEF f
<1> HIDE DEF sections
<1>5. ToSet(Having(sections, filled, TRUE)) = {g \in ToSet(sections) : filled[g] = TRUE}
  <2>1. IsList(sections)
    BY <1>4
  <2> HIDE DEF filled, f, types, KeyOf
  <2>2. \A key : ToSet(Having(sections, filled, key)) = {g \in ToSet(sections) : filled[g] = key}
    BY <2>1, HavingIs
  <2> QED BY <2>2, Zenon
<1>6. ToSet(GroupComponents(cs)) = {g \in ToSet(sections) : g.submissions # <<>>}
  BY <1>1, <1>5
<1>7. \A g \in ToSet(GroupComponents(cs)) :
         ToSet(g.submissions) =
           {Submission(SameSubmission(cs, c)) : c \in {x \in ToSet(cs) : x.type = g.type}}
  BY <1>2, <1>3, <1>4, <1>6
<1>8. ASSUME NEW c \in ToSet(cs) PROVE \E g \in ToSet(GroupComponents(cs)) : g.type = c.type
  <2>1. c.type \in types
    BY DEF IsListing
  <2>2. Submission(SameSubmission(cs, c)) \in ToSet(section(c.type).submissions)
    BY <1>2, <2>1
  <2>3. section(c.type).submissions # <<>>
    <3>1. ToSet(<<>>) = {}
      BY DEF ToSet
    <3> QED BY <2>2, <3>1
  <2> QED BY <1>3, <1>4, <1>6, <2>1, <2>3
<1> QED BY <1>7, <1>8

(* Where a component's row is, and that a place of the listing is one *)
IsPlace(cs, c, p) ==
  LET labels == Submission(SameSubmission(cs, c)).labels IN
  /\ p = [id |-> c.id, type |-> c.type, submission |-> SubmissionKey(c),
          index |-> p.index, row |-> SameRow(cs, c)[1].id]
  /\ p.index \in DOMAIN labels /\ labels[p.index] = LabelGroup(SameLabel(cs, c))

(* What a place is made of *)
Holds(groups, p) ==
  \E g \in ToSet(groups) : \E s \in ToSet(g.submissions) :
  \E n \in DOMAIN s.labels : \E v \in ToSet(s.labels[n].variants) : \E i \in ToSet(v.ids) :
    p = [id |-> i, type |-> g.type, submission |-> s.key, index |-> n, row |-> v.key]

LEMMA PlaceHolds == ASSUME NEW groups, NEW p PROVE p \in Places(groups) <=> Holds(groups, p)
<1> DEFINE inV(g, s, n, v) ==
             {[id |-> i, type |-> g.type, submission |-> s.key, index |-> n, row |-> v.key]
                : i \in ToSet(v.ids)}
           inL(g, s, n) == UNION {inV(g, s, n, v) : v \in ToSet(s.labels[n].variants)}
           inS(g, s) == UNION {inL(g, s, n) : n \in DOMAIN s.labels}
           inG(g) == UNION {inS(g, s) : s \in ToSet(g.submissions)}
<1>1. Places(groups) = UNION {inG(g) : g \in ToSet(groups)}
  BY DEF Places
<1>2. \A g, s, n, v : p \in inV(g, s, n, v) <=> \E i \in ToSet(v.ids) :
         p = [id |-> i, type |-> g.type, submission |-> s.key, index |-> n, row |-> v.key]
  OBVIOUS
<1> HIDE DEF inV
<1>3. \A g, s, n : p \in inL(g, s, n) <=>
         \E v \in ToSet(s.labels[n].variants) : p \in inV(g, s, n, v)
  OBVIOUS
<1> HIDE DEF inL
<1>4. \A g, s : p \in inS(g, s) <=> \E n \in DOMAIN s.labels : p \in inL(g, s, n)
  OBVIOUS
<1> HIDE DEF inS
<1>5. \A g : p \in inG(g) <=> \E s \in ToSet(g.submissions) : p \in inS(g, s)
  OBVIOUS
<1> HIDE DEF inG
<1>6. p \in Places(groups) <=> \E g \in ToSet(groups) : p \in inG(g)
  BY <1>1
<1> DEFINE is(g, s, n, v) == \E i \in ToSet(v.ids) :
             p = [id |-> i, type |-> g.type, submission |-> s.key, index |-> n, row |-> v.key]
<1> HIDE DEF is
<1>7. \A g, s, n, v : p \in inV(g, s, n, v) <=> is(g, s, n, v)
  BY <1>2 DEF is
<1>8. p \in Places(groups) <=>
        \E g \in ToSet(groups) : \E s \in ToSet(g.submissions) :
        \E n \in DOMAIN s.labels : \E v \in ToSet(s.labels[n].variants) : is(g, s, n, v)
  BY <1>3, <1>4, <1>5, <1>6, <1>7
<1> QED BY <1>8, Zenon DEF Holds, is

LEMMA PlaceIsOf ==
  ASSUME NEW cs, IsListing(cs), NEW p \in Places(GroupComponents(cs))
  PROVE  \E c \in ToSet(cs) : IsPlace(cs, c, p)
<1> DEFINE groups == GroupComponents(cs)
<1>1. Holds(groups, p)
  BY PlaceHolds
<1> HIDE DEF groups
<1>2. PICK g \in ToSet(groups) : \E s \in ToSet(g.submissions) :
        \E n \in DOMAIN s.labels : \E v \in ToSet(s.labels[n].variants) : \E i \in ToSet(v.ids) :
          p = [id |-> i, type |-> g.type, submission |-> s.key, index |-> n, row |-> v.key]
  BY <1>1 DEF Holds
<1>3. PICK s \in ToSet(g.submissions) :
        \E n \in DOMAIN s.labels : \E v \in ToSet(s.labels[n].variants) : \E i \in ToSet(v.ids) :
          p = [id |-> i, type |-> g.type, submission |-> s.key, index |-> n, row |-> v.key]
  BY <1>2
<1>4. PICK n \in DOMAIN s.labels : \E v \in ToSet(s.labels[n].variants) : \E i \in ToSet(v.ids) :
          p = [id |-> i, type |-> g.type, submission |-> s.key, index |-> n, row |-> v.key]
  BY <1>3
<1>5. PICK v \in ToSet(s.labels[n].variants) : \E i \in ToSet(v.ids) :
          p = [id |-> i, type |-> g.type, submission |-> s.key, index |-> n, row |-> v.key]
  BY <1>4
<1>5a. PICK i \in ToSet(v.ids) :
          p = [id |-> i, type |-> g.type, submission |-> s.key, index |-> n, row |-> v.key]
  BY <1>5
<1>6. PICK a \in ToSet(cs) : a.type = g.type /\ s = Submission(SameSubmission(cs, a))
  BY GroupsList DEF groups
<1>7. s.key = SubmissionKey(a) /\ ToSet(s.labels) = {LabelGroup(SameLabel(cs, x)) : x \in ToSet(SameSubmission(cs, a))}
  BY <1>6, SubmissionGroupIs
<1>8. PICK b \in ToSet(SameSubmission(cs, a)) : s.labels[n] = LabelGroup(SameLabel(cs, b))
  BY <1>7 DEF ToSet
<1>9. b \in ToSet(cs) /\ SubmissionKey(b) = SubmissionKey(a)
  BY <1>8, SubmissionIs
<1>10. PICK d \in ToSet(SameLabel(cs, b)) : v = Variant(SameRow(cs, d))
  BY <1>5, <1>8, <1>9, LabelGroupIs
<1>11. d \in ToSet(cs) /\ SubmissionKey(d) = SubmissionKey(b) /\ d.label = b.label
  BY <1>10, LabelIs
<1>12. v.key = SameRow(cs, d)[1].id /\ ToSet(v.ids) = {x.id : x \in ToSet(SameRow(cs, d))}
  BY <1>10, <1>11, VariantIs
<1>13. PICK c \in ToSet(SameRow(cs, d)) : i = c.id
  BY <1>5a, <1>12
<1>14. /\ c \in ToSet(cs) /\ SubmissionKey(c) = SubmissionKey(d)
       /\ c.label = d.label /\ c.comment = d.comment
  BY <1>13, RowIs
<1>15. /\ SameSubmission(cs, c) = SameSubmission(cs, a)
       /\ SameLabel(cs, c) = SameLabel(cs, b) /\ SameRow(cs, c) = SameRow(cs, d)
  BY <1>9, <1>11, <1>14, SharedIsSame
<1>16. c.type = g.type
  BY <1>6, <1>9, <1>11, <1>14, KeyTellsType
<1>17. /\ p = [id |-> c.id, type |-> c.type, submission |-> SubmissionKey(c),
               index |-> n, row |-> SameRow(cs, c)[1].id]
       /\ p.index = n
  BY <1>5a, <1>7, <1>9, <1>11, <1>12, <1>13, <1>14, <1>15, <1>16
<1>18. n \in DOMAIN s.labels /\ s.labels[n] = LabelGroup(SameLabel(cs, c))
  BY <1>4, <1>8, <1>15
<1> QED BY <1>6, <1>14, <1>15, <1>17, <1>18 DEF IsPlace

LEMMA PlaceExists ==
  ASSUME NEW cs, IsListing(cs), NEW c \in ToSet(cs)
  PROVE  \E p \in Places(GroupComponents(cs)) : p.id = c.id
<1> DEFINE groups == GroupComponents(cs)
           s == Submission(SameSubmission(cs, c))
           l == LabelGroup(SameLabel(cs, c))
           v == Variant(SameRow(cs, c))
<1>1. PICK g \in ToSet(groups) : g.type = c.type
  BY GroupsList
<1>2. s \in ToSet(g.submissions)
  BY <1>1, GroupsList
<1>3. c \in ToSet(SameSubmission(cs, c)) /\ c \in ToSet(SameLabel(cs, c))
  BY SubmissionIs, LabelIs
<1>4. l \in ToSet(s.labels)
  BY <1>3, SubmissionGroupIs
<1>5. PICK n \in DOMAIN s.labels : s.labels[n] = l
  BY <1>4 DEF ToSet
<1>6. v \in ToSet(l.variants)
  BY <1>3, LabelGroupIs
<1>7. c.id \in ToSet(v.ids)
  BY VariantIs
<1> HIDE DEF groups, s, l, v
<1> DEFINE p == [id |-> c.id, type |-> g.type, submission |-> s.key, index |-> n, row |-> v.key]
<1>8. Holds(groups, p)
  BY <1>1, <1>2, <1>5, <1>6, <1>7 DEF Holds
<1>9. p.id = c.id
  OBVIOUS
<1> HIDE DEF p
<1> QED BY <1>8, <1>9, PlaceHolds DEF groups

LEMMA PlaceIsOne ==
  ASSUME NEW cs, IsListing(cs), NEW p \in Places(GroupComponents(cs)),
         NEW q \in Places(GroupComponents(cs)), p.id = q.id
  PROVE  p = q
<1>1. PICK c \in ToSet(cs) : IsPlace(cs, c, p)
  BY PlaceIsOf
<1>2. PICK d \in ToSet(cs) : IsPlace(cs, d, q)
  BY PlaceIsOf
<1>3. p.id = c.id /\ q.id = d.id
  BY <1>1, <1>2 DEF IsPlace
<1>4. c = d
  <2> DEFINE ids == MapSeq(LAMBDA x : x.id, cs)
  <2>1. PICK m \in DOMAIN cs : c = cs[m]
    BY DEF ToSet
  <2>2. PICK n \in DOMAIN cs : d = cs[n]
    BY DEF ToSet
  <2>3. DOMAIN ids = DOMAIN cs /\ ids[m] = c.id /\ ids[n] = d.id
    BY <2>1, <2>2 DEF MapSeq
  <2>4. IsInjective(ids)
    BY DEF IsListing
  <2> HIDE DEF ids
  <2> QED BY <1>3, <2>1, <2>2, <2>3, <2>4 DEF IsInjective
<1>5. p.index = q.index
  <2> DEFINE labels == Submission(SameSubmission(cs, c)).labels
  <2>1. IsInjective(labels)
    BY SubmissionGroupIs
  <2>2. {p.index, q.index} \subseteq DOMAIN labels /\ labels[p.index] = labels[q.index]
    BY <1>1, <1>2, <1>4 DEF IsPlace
  <2> HIDE DEF labels
  <2> QED BY <2>1, <2>2 DEF IsInjective
<1> QED BY <1>1, <1>2, <1>4, <1>5 DEF IsPlace

(* Each component is in one row, which RowPlaces finds. *)
THEOREM OnePlace ==
  ASSUME NEW cs, IsListing(cs), NEW i \in ToSet(IdsOf(cs))
  PROVE  LET groups == GroupComponents(cs)
             place  == RowPlaces(groups)[i]
         IN  /\ Cardinality({p \in Places(groups) : p.id = i}) = 1
             /\ place \in Places(groups) /\ place.id = i
             /\ i \in FindVariant(groups, place.row)
<1> DEFINE groups == GroupComponents(cs)
           all == Places(groups)
           place == RowPlaces(groups)[i]
<1>1. PICK c \in ToSet(cs) : i = c.id
  BY IdsAre
<1>2. PICK q \in all : q.id = i
  BY <1>1, PlaceExists
<1>3. \A p \in all : p.id = i => p = q
  BY <1>2, PlaceIsOne
<1>4. i \in {p.id : p \in all} /\ place = CHOOSE p \in all : p.id = i
  BY <1>2 DEF RowPlaces
<1>5. Holds(groups, q)
  BY <1>2, PlaceHolds
<1> HIDE DEF place, groups
<1>6. i \in FindVariant(groups, q.row)
  <2>1. PICK g \in ToSet(groups) : \E s \in ToSet(g.submissions) :
          \E n \in DOMAIN s.labels : \E v \in ToSet(s.labels[n].variants) : \E j \in ToSet(v.ids) :
            q = [id |-> j, type |-> g.type, submission |-> s.key, index |-> n, row |-> v.key]
    BY <1>5 DEF Holds
  <2>2. PICK s \in ToSet(g.submissions) :
          \E n \in DOMAIN s.labels : \E v \in ToSet(s.labels[n].variants) : \E j \in ToSet(v.ids) :
            q = [id |-> j, type |-> g.type, submission |-> s.key, index |-> n, row |-> v.key]
    BY <2>1
  <2>3. PICK n \in DOMAIN s.labels :
          \E v \in ToSet(s.labels[n].variants) : \E j \in ToSet(v.ids) :
            q = [id |-> j, type |-> g.type, submission |-> s.key, index |-> n, row |-> v.key]
    BY <2>2
  <2>4. PICK v \in ToSet(s.labels[n].variants) : \E j \in ToSet(v.ids) :
            q = [id |-> j, type |-> g.type, submission |-> s.key, index |-> n, row |-> v.key]
    BY <2>3
  <2>5. i \in ToSet(v.ids) /\ q.row = v.key
    BY <1>2, <2>4
  <2>6. s.labels[n] \in ToSet(s.labels) /\ s \in Submissions(groups)
    BY <2>1, <2>2, <2>3 DEF ToSet, Submissions
  <2>7. v \in Variants(groups)
    BY <2>4, <2>6 DEF Variants
  <2> QED BY <2>5, <2>7 DEF FindVariant
<1>7. place = q
  BY <1>2, <1>3, <1>4
<1>8. {p \in all : p.id = i} = {q}
  BY <1>2, <1>3
<1>9. Cardinality({p \in all : p.id = i}) = 1
  BY <1>8, FS_Singleton
<1> QED BY <1>2, <1>6, <1>7, <1>9 DEF place, groups

(* Whatever the groups name is listed. *)
LEMMA SubmissionsAre ==
  ASSUME NEW cs, IsListing(cs)
  PROVE  Submissions(GroupComponents(cs)) = {Submission(SameSubmission(cs, c)) : c \in ToSet(cs)}
<1> DEFINE groups == GroupComponents(cs)
<1>1. \A g \in ToSet(groups) :
        ToSet(g.submissions) =
          {Submission(SameSubmission(cs, c)) : c \in {x \in ToSet(cs) : x.type = g.type}}
  BY GroupsList
<1>2. \A c \in ToSet(cs) : \E g \in ToSet(groups) : g.type = c.type
  BY GroupsList
<1> HIDE DEF groups
<1>3. \A s : s \in Submissions(groups) <=> \E g \in ToSet(groups) : s \in ToSet(g.submissions)
  BY DEF Submissions
<1> QED BY <1>1, <1>2, <1>3 DEF groups

LEMMA SubmissionListed ==
  ASSUME NEW cs, IsListing(cs), NEW s \in Submissions(GroupComponents(cs))
  PROVE  /\ ToSet(s.ids) \subseteq ToSet(IdsOf(cs))
         /\ s.key \in {SubmissionKey(c) : c \in ToSet(cs)}
         /\ \A t \in Submissions(GroupComponents(cs)) : s.key = t.key => s = t
         /\ \A l \in ToSet(s.labels) : \A v \in ToSet(l.variants) : v.key \in ToSet(IdsOf(cs))
<1>1. PICK c \in ToSet(cs) : s = Submission(SameSubmission(cs, c))
  BY SubmissionsAre
<1>2. /\ s.key = SubmissionKey(c)
      /\ ToSet(s.ids) = {x.id : x \in ToSet(SameSubmission(cs, c))}
      /\ ToSet(s.labels) = {LabelGroup(SameLabel(cs, x)) : x \in ToSet(SameSubmission(cs, c))}
  BY <1>1, SubmissionGroupIs
<1>3. ToSet(SameSubmission(cs, c)) \subseteq ToSet(cs)
  BY SubmissionIs
<1>4. ToSet(s.ids) \subseteq ToSet(IdsOf(cs))
  BY <1>2, <1>3, IdsAre
<1>5. ASSUME NEW t \in Submissions(GroupComponents(cs)), s.key = t.key PROVE s = t
  <2>1. PICK d \in ToSet(cs) : t = Submission(SameSubmission(cs, d))
    BY SubmissionsAre
  <2>2. SubmissionKey(d) = SubmissionKey(c)
    BY <1>2, <1>5, <2>1, SubmissionGroupIs
  <2> QED BY <1>1, <2>1, <2>2, SharedIsSame
<1>6. ASSUME NEW l \in ToSet(s.labels), NEW v \in ToSet(l.variants)
      PROVE  v.key \in ToSet(IdsOf(cs))
  <2>1. PICK x \in ToSet(cs) : l = LabelGroup(SameLabel(cs, x))
    BY <1>2, <1>3
  <2>2. PICK y \in ToSet(SameLabel(cs, x)) : v = Variant(SameRow(cs, y))
    BY <2>1, LabelGroupIs
  <2>3. y \in ToSet(cs)
    BY <2>2, LabelIs
  <2> QED BY <2>2, <2>3, VariantIs, IdsAre
<1> QED BY <1>2, <1>4, <1>5, <1>6

-----------------------------------------------------------------------------
(* The card.  What the eyes did, in the features they leave hidden and in  *)
(* the histories of what was asked of each                                 *)

IsPanel(pan) ==
  pan = [off |-> pan.off, hidden |-> pan.hidden, key |-> pan.key,
         closed |-> pan.closed, expanded |-> pan.expanded, worksOpen |-> pan.worksOpen]

Obeyed(hidden, wish, keep) ==
  \/ hidden = <<>> /\ DOMAIN wish = {}
  \/ \E h : /\ hidden = <<h>>
            /\ \A i \in keep : i \in h \/ (i \in DOMAIN wish /\ wish[i])
            /\ \A i \in DOMAIN wish : ~ wish[i] => i \in h

(* What the EAO layer is told is what the card says, step by step. *)
LayerTold ==
  shown = ClearsUp(SectionsOn(selected, card), panel, Listed)

FocusIsOfTheTool == (focused => tool = "select") /\ OneHighlight

CardInv ==
  /\ IsPanel(panel) /\ Obeyed(panel.hidden, wishes, kept)
  /\ LayerTold /\ FocusIsOfTheTool /\ OnlyWhatIsDrawn

(* What a step may leave of the panel for Settles to finish *)
Leaves(pan, wish, keep, focus, used) ==
  /\ IsPanel(pan) /\ Obeyed(pan.hidden, wish, keep)
  /\ focus => used = "select" /\ pan.key = NoFeature

LEMMA SettledCard ==
  ASSUME NEW sel, NEW hov, NEW pan, NEW wish, NEW keep,
         Settles(sel, hov, pan, wish, keep), Leaves(pan, wish, keep, focused', tool')
  PROVE  CardInv'
<1> DEFINE on   == SectionsOn(selected', card')
           stay == on /\ selected' = selected /\ SectionsOn(selected, card)
<1>1. /\ panel' = (IF stay THEN pan ELSE Fresh)
      /\ wishes' = (IF stay THEN wish ELSE <<>>)
      /\ kept' = (IF stay THEN keep ELSE {})
      /\ shown' = ClearsUp(on, panel', IF on THEN ListedIn(selected', components') ELSE <<>>)
      /\ selected' = Survives(sel)
      /\ hovered' = IF hov \in VisibleIn(list', filters') THEN hov ELSE NoProject
  BY DEF Settles
<1>2. IsPanel(Fresh) /\ Fresh.hidden = <<>> /\ Fresh.key = NoFeature /\ DOMAIN <<>> = {}
  BY DEF IsPanel, Fresh
<1>3. IsPanel(panel)' /\ Obeyed(panel.hidden, wishes, kept)'
  BY <1>1, <1>2 DEF Leaves, Obeyed, IsPanel
<1>4. LayerTold'
  BY <1>1 DEF LayerTold, Listed
<1>5. FocusIsOfTheTool'
  BY <1>1, <1>2 DEF Leaves, FocusIsOfTheTool, OneHighlight
<1>6. OnlyWhatIsDrawn'
  BY <1>1 DEF OnlyWhatIsDrawn, Survives, Visible
<1> QED BY <1>3, <1>4, <1>5, <1>6 DEF CardInv

(* Every step but an eye's leaves the eyes as they are. *)
LEMMA CardLeaves ==
  ASSUME CardInv, NEW pan, IsPanel(pan), pan.hidden = panel.hidden,
         focused' => tool' = "select" /\ pan.key = NoFeature
  PROVE  Leaves(pan, wishes, kept, focused', tool')
BY DEF CardInv, Leaves

LEMMA StaysCard == ASSUME CardInv, Stays, UNCHANGED area PROVE CardInv'
<1>1. Leaves(panel, wishes, kept, focused', tool')
  BY CardLeaves DEF CardInv, FocusIsOfTheTool, OneHighlight, area
<1> QED BY <1>1, SettledCard DEF Stays

(* An eye hides every feature of its row, or shows every one. *)
LEMMA EyesCard == ASSUME CardInv, NEW ids, PressEye(ids) PROVE CardInv'
<1> DEFINE on     == ids \subseteq HiddenSoFar
           hidden == IF on THEN HiddenSoFar \ ids ELSE HiddenSoFar \cup ids
           pan    == [panel EXCEPT !.hidden = <<hidden>>]
           wish   == Wished(ids, on)
           keep   == IF panel.hidden = <<>> THEN StartHidden(Listed) ELSE kept
<1>1. Settles(selected, hovered, pan, wish, keep) /\ UNCHANGED area
  BY DEF PressEye, Panel
<1>2. IsPanel(pan) /\ pan.hidden = <<hidden>> /\ pan.key = panel.key
  BY DEF CardInv, IsPanel
<1>3. /\ DOMAIN wish = DOMAIN wishes \cup ids
      /\ \A i \in DOMAIN wishes \cup ids : wish[i] = IF i \in ids THEN on ELSE wishes[i]
  BY DEF Wished
<1>4. /\ \A i \in keep : i \in HiddenSoFar \/ (i \in DOMAIN wishes /\ wishes[i])
      /\ \A i \in DOMAIN wishes : ~ wishes[i] => i \in HiddenSoFar
  <2>1. CASE panel.hidden = <<>>
    BY <2>1 DEF CardInv, Obeyed, HiddenSoFar, HiddenFeatures
  <2>2. CASE panel.hidden # <<>>
    BY <2>2 DEF CardInv, Obeyed, HiddenSoFar, HiddenFeatures
  <2> QED BY <2>1, <2>2
<1> HIDE DEF wish, keep, pan
<1>5. /\ \A i \in keep : i \in hidden \/ (i \in DOMAIN wish /\ wish[i])
      /\ \A i \in DOMAIN wish : ~ wish[i] => i \in hidden
  BY <1>3, <1>4
<1>6. Obeyed(pan.hidden, wish, keep)
  BY <1>2, <1>5 DEF Obeyed
<1>7. Leaves(pan, wish, keep, focused', tool')
  BY <1>1, <1>2, <1>6 DEF Leaves, CardInv, FocusIsOfTheTool, OneHighlight, area
<1> QED BY <1>1, <1>7, SettledCard

(* A step that works the lists of the card, short of its eyes *)
LEMMA PanelCard ==
  ASSUME CardInv, NEW pan, IsPanel(pan), pan.hidden = panel.hidden,
         focused' => tool' = "select" /\ pan.key = NoFeature,
         Panel(pan, wishes, kept)
  PROVE  CardInv'
<1>1. Leaves(pan, wishes, kept, focused', tool')
  BY CardLeaves
<1>2. Settles(selected, hovered, pan, wishes, kept)
  BY DEF Panel
<1> QED BY <1>1, <1>2, SettledCard

LEMMA PanelWith ==
  ASSUME NEW pan, IsPanel(pan), NEW key, NEW closed, NEW expanded
  PROVE  [pan EXCEPT !.key = key, !.closed = closed, !.expanded = expanded] =
           [off |-> pan.off, hidden |-> pan.hidden, key |-> key, closed |-> closed,
            expanded |-> expanded, worksOpen |-> pan.worksOpen]
<1> DEFINE keyed == [pan EXCEPT !.key = key]
           folded == [keyed EXCEPT !.closed = closed]
<1>1. [pan EXCEPT !.key = key, !.closed = closed, !.expanded = expanded] =
        [folded EXCEPT !.expanded = expanded]
  BY DEF IsPanel
<1>2. keyed = [off |-> pan.off, hidden |-> pan.hidden, key |-> key, closed |-> pan.closed,
               expanded |-> pan.expanded, worksOpen |-> pan.worksOpen]
  BY DEF IsPanel
<1> HIDE DEF keyed
<1>3. folded = [off |-> pan.off, hidden |-> pan.hidden, key |-> key, closed |-> closed,
                expanded |-> pan.expanded, worksOpen |-> pan.worksOpen]
  BY <1>2
<1> HIDE DEF folded
<1> QED BY <1>1, <1>3

LEMMA PickIsPanel ==
  ASSUME NEW place, IsPanel(panel)
  PROVE  IsPanel(PickPanel(place)) /\ PickPanel(place).hidden = panel.hidden
<1> DEFINE closed == panel.closed \ {place.type}
           expanded == IF place.index > COLLAPSED_LABELS
                       THEN panel.expanded \cup {place.submission} ELSE panel.expanded
<1>1. PickPanel(place) =
        [panel EXCEPT !.key = place.row, !.closed = closed, !.expanded = expanded]
  BY DEF PickPanel
<1> HIDE DEF closed, expanded
<1> QED BY <1>1, PanelWith DEF IsPanel

LEMMA RowsCard ==
  ASSUME CardInv,
         \/ \E key : PressSwitch(key) \/ ShowAll(key) \/ SelectRow(key)
         \/ \E i : PickOnMap(i)
         \/ \E type : ToggleType(type)
         \/ ToggleWorks \/ FocusRow
  PROVE  CardInv'
<1>1. IsPanel(panel) /\ (focused => tool = "select" /\ panel.key = NoFeature)
  BY DEF CardInv, FocusIsOfTheTool, OneHighlight
<1>2. ASSUME NEW key, PressSwitch(key) PROVE CardInv'
  <2> DEFINE pan == [panel EXCEPT !.off = ToggleOption(@, key)]
  <2>1. IsPanel(pan) /\ pan.hidden = panel.hidden /\ pan.key = panel.key
    BY <1>1 DEF IsPanel
  <2>2. Panel(pan, wishes, kept) /\ UNCHANGED area
    BY <1>2 DEF PressSwitch
  <2> HIDE DEF pan
  <2> QED BY <1>1, <2>1, <2>2, PanelCard DEF area
<1>3. ASSUME NEW key, ShowAll(key) PROVE CardInv'
  <2> DEFINE pan == [panel EXCEPT !.expanded = ToggleOption(@, key)]
  <2>1. IsPanel(pan) /\ pan.hidden = panel.hidden /\ pan.key = panel.key
    BY <1>1 DEF IsPanel
  <2>2. Panel(pan, wishes, kept) /\ UNCHANGED area
    BY <1>3 DEF ShowAll
  <2> HIDE DEF pan
  <2> QED BY <1>1, <2>1, <2>2, PanelCard DEF area
<1>4. ASSUME NEW key, SelectRow(key) PROVE CardInv'
  <2> DEFINE pan == [panel EXCEPT !.key = IF @ = key THEN NoFeature ELSE key]
  <2>1. IsPanel(pan) /\ pan.hidden = panel.hidden
    BY <1>1 DEF IsPanel
  <2>2. Panel(pan, wishes, kept) /\ focused' = FALSE
    BY <1>4 DEF SelectRow
  <2> HIDE DEF pan
  <2> QED BY <2>1, <2>2, PanelCard
<1>5. ASSUME NEW i, PickOnMap(i) PROVE CardInv'
  <2> DEFINE pan == PickPanel(PlacesOf[Listed][i])
  <2>1. IsPanel(pan) /\ pan.hidden = panel.hidden
    BY <1>1, PickIsPanel
  <2>2. Panel(pan, wishes, kept) /\ UNCHANGED area /\ tool # "select"
    BY <1>5 DEF PickOnMap, PicksHeard
  <2> HIDE DEF pan
  <2> QED BY <1>1, <2>1, <2>2, PanelCard DEF area
<1>6. ASSUME NEW type, ToggleType(type) PROVE CardInv'
  <2> DEFINE pan == [panel EXCEPT !.closed = ToggleOption(@, type)]
  <2>1. IsPanel(pan) /\ pan.hidden = panel.hidden /\ pan.key = panel.key
    BY <1>1 DEF IsPanel
  <2>2. Panel(pan, wishes, kept) /\ UNCHANGED area
    BY <1>6 DEF ToggleType
  <2> HIDE DEF pan
  <2> QED BY <1>1, <2>1, <2>2, PanelCard DEF area
<1>7. ASSUME ToggleWorks PROVE CardInv'
  <2> DEFINE pan == [panel EXCEPT !.worksOpen = ~ @]
  <2>1. IsPanel(pan) /\ pan.hidden = panel.hidden /\ pan.key = panel.key
    BY <1>1 DEF IsPanel
  <2>2. Panel(pan, wishes, kept) /\ UNCHANGED area
    BY <1>7 DEF ToggleWorks
  <2> HIDE DEF pan
  <2> QED BY <1>1, <2>1, <2>2, PanelCard DEF area
<1>8. ASSUME FocusRow PROVE CardInv'
  <2> DEFINE pan == [panel EXCEPT !.key = IF focused' THEN NoFeature ELSE @]
  <2>1. /\ IsPanel(pan) /\ pan.hidden = panel.hidden
        /\ focused' => pan.key = NoFeature
    BY <1>1 DEF IsPanel
  <2>2. Panel(pan, wishes, kept) /\ tool' = tool /\ tool = "select"
    BY <1>8 DEF FocusRow
  <2> HIDE DEF pan
  <2> QED BY <2>1, <2>2, PanelCard
<1> QED BY <1>2, <1>3, <1>4, <1>5, <1>6, <1>7, <1>8

LEMMA ChoiceCard == ASSUME CardInv, NEW p, Choose(p) PROVE CardInv'
<1>1. Leaves(panel, wishes, kept, focused', tool')
  BY CardLeaves DEF CardInv, FocusIsOfTheTool, OneHighlight, Choose, area
<1>2. Settles(p, hovered, panel, wishes, kept)
  BY DEF Choose
<1> QED BY <1>1, <1>2, SettledCard

LEMMA HoverCard == ASSUME CardInv, NEW p, Hover(p) PROVE CardInv'
<1>1. Leaves(panel, wishes, kept, focused', tool')
  BY CardLeaves DEF CardInv, FocusIsOfTheTool, OneHighlight, Hover, area
<1>2. Settles(selected, p, panel, wishes, kept)
  BY DEF Hover
<1> QED BY <1>1, <1>2, SettledCard

LEMMA ToolCard == ASSUME CardInv, SwitchTool PROVE CardInv'
<1>1. Leaves(panel, wishes, kept, focused', tool')
  BY CardLeaves DEF CardInv, SwitchTool
<1> QED BY <1>1, SettledCard DEF SwitchTool, Stays

LEMMA AnswersCard == ASSUME CardInv, Answers PROVE CardInv'
<1>1. Stays /\ UNCHANGED area
  BY DEF Answers, ListAnswered, ListFails, ListAsked, MenuAnswered, MenuFails,
         CardAnswered, CardFails, ComponentsAnswered, ComponentsFail,
         WorksAnswered, WorksFail
<1> QED BY <1>1, StaysCard

LEMMA FilterCard ==
  ASSUME CardInv,
         \/ TryAgain \/ RetryMenu \/ ClearFilters
         \/ \E g \in Groups : PressAll(g) \/ \E o \in Offered(g) : PressOption(g, o)
         \/ \E t \in {"certificateIssued", "inProgressWorks"} : PressToggle(t)
  PROVE  CardInv'
<1>1. Stays /\ UNCHANGED area
  BY DEF TryAgain, RetryMenu, ClearFilters, PressAll, PressOption, PressToggle, Filter
<1> QED BY <1>1, StaysCard

LEMMA ActsCard == ASSUME CardInv, Acts PROVE CardInv'
<1>1. CASE \/ TryAgain \/ RetryMenu \/ ClearFilters
           \/ \E g \in Groups : PressAll(g) \/ \E o \in Offered(g) : PressOption(g, o)
           \/ \E t \in {"certificateIssued", "inProgressWorks"} : PressToggle(t)
  BY <1>1, FilterCard
<1>2. CASE CloseCard \/ \E p \in Ids : OpenDot(p) \/ OpenFootprint(p)
  BY <1>2, ChoiceCard DEF CloseCard, OpenDot, OpenFootprint
<1>3. CASE \E p \in Ids \cup {NoProject} : Hover(p)
  BY <1>3, HoverCard
<1>4. CASE \E ids \in Eyes : PressEye(ids)
  BY <1>4, EyesCard
<1>5. CASE \/ \E s \in Submissions(Rows) : PressSwitch(s.key) \/ ShowAll(s.key)
           \/ \E key \in RowKeys(panel) : SelectRow(key)
           \/ \E i \in IdsListed(Listed) : PickOnMap(i)
           \/ \E type \in ToSet(TYPE_SECTIONS) : ToggleType(type)
           \/ ToggleWorks \/ FocusRow
  BY <1>5, RowsCard
<1>6. CASE SwitchTool
  BY <1>6, ToolCard
<1> QED BY <1>1, <1>2, <1>3, <1>4, <1>5, <1>6 DEF Acts

(* The search field reaches the card by the project it finds, only. *)
LEMMA FieldCard == ASSUME CardInv, InField PROVE CardInv'
<1>1. CASE UNCHANGED <<bar, asked, opened, area>>
  BY <1>1 DEF CardInv, LayerTold, FocusIsOfTheTool, OnlyWhatIsDrawn, OneHighlight,
              Listed, Visible, bar, asked, opened, area
<1>2. CASE \E p : FindProject(p)
  BY <1>2, ChoiceCard DEF FindProject
<1>3. UNCHANGED <<bar, asked, opened, area>> \/ \E p : FindProject(p)
  BY DEF InField, Type, Pause, PlacesAnswered, PlacesFail, GoOffline, HoldRetry,
         BackOnline, Arrow, Escape, FocusOrBlur, Enter, PressRow, ClearField, Take, vars
<1> QED BY <1>1, <1>2, <1>3

LEMMA SearchStepCard == ASSUME CardInv, [SearchNext]_allVars PROVE CardInv'
<1>1. CASE Next
  BY <1>1, AnswersCard, ActsCard DEF Next
<1>2. CASE InField
  BY <1>2, FieldCard
<1>3. CASE OnTheMap
  <2>1. CASE \E l \in Lists : ListAnswered(l)
    BY <2>1, AnswersCard DEF Answers
  <2>2. CASE \/ ClearFilters
             \/ \E t \in {"certificateIssued", "inProgressWorks"} : PressToggle(t)
    BY <2>2, FilterCard
  <2>3. CASE CloseCard
    BY <2>3, ChoiceCard DEF CloseCard
  <2> QED BY <1>3, <2>1, <2>2, <2>3 DEF OnTheMap
<1>4. CASE UNCHANGED allVars
  BY <1>4 DEF CardInv, LayerTold, FocusIsOfTheTool, OnlyWhatIsDrawn, OneHighlight,
              Listed, Visible, bar, asked, opened, area, vars, allVars
<1> QED BY <1>1, <1>2, <1>3, <1>4 DEF SearchNext

LEMMA CardStarts == SearchInit => CardInv
<1> SUFFICES ASSUME SearchInit PROVE CardInv
  OBVIOUS
<1>1. /\ panel = Fresh /\ wishes = <<>> /\ kept = {} /\ shown = Nothing
      /\ selected = NoProject /\ list.data = NoList /\ focused = FALSE
  BY DEF SearchInit, Init, Query
<1>2. IsPanel(Fresh) /\ Fresh.hidden = <<>> /\ DOMAIN <<>> = {}
  BY DEF IsPanel, Fresh
<1>3. ~ SectionsOn(selected, card)
  BY <1>1 DEF SectionsOn
<1> QED BY <1>1, <1>2, <1>3 DEF CardInv, Obeyed, LayerTold, ClearsUp, FocusIsOfTheTool,
                                OneHighlight, OnlyWhatIsDrawn

(* The map, the eyes and the highlight are the card's, whatever is asked,    *)
(* answered, filtered and pressed, in any order (MapLayersSection.tsx).      *)
THEOREM CardTheorem == SearchSpec => []CardInv
<1>1. CardInv /\ [SearchNext]_allVars => CardInv'
  BY SearchStepCard
<1> QED BY <1>1, CardStarts, PTL DEF SearchSpec

-----------------------------------------------------------------------------
LEMMA NothingIsShown ==
  ASSUME CardInv, ~ SectionsOn(selected, card)
  PROVE  shown = Nothing /\ Listed = <<>>
BY DEF CardInv, LayerTold, ClearsUp, Listed

LEMMA CardIsShown ==
  ASSUME CardInv, SectionsOn(selected, card)
  PROVE  /\ shown.features = Revealed(panel, Listed)
         /\ shown.footprints =
              {c.id : c \in {x \in ToSet(Listed) : x.footprint}} \ shown.features
         /\ shown.selected = IF panel.key = NoFeature THEN {}
                             ELSE FindVariant(Rows, panel.key) \cap shown.features
<1>1. shown = OnMap(panel, Listed)
  BY DEF CardInv, LayerTold, ClearsUp, Listed
<1> QED BY <1>1 DEF OnMap, Rows

LEMMA CardObeysEyes == CardInv => EyesAreObeyed
<1> SUFFICES ASSUME CardInv PROVE EyesAreObeyed
  OBVIOUS
<1>1. CASE ~ SectionsOn(selected, card)
  <2>1. shown.features = {} /\ ToSet(Listed) = {}
    BY <1>1, NothingIsShown DEF Nothing, ToSet
  <2> QED BY <2>1 DEF EyesAreObeyed, SensitiveOnAsking, HiddenStaysHidden
<1>2. CASE SectionsOn(selected, card)
  <2>1. shown.features \cap HiddenFeatures(panel, Listed) = {}
    BY <1>2, CardIsShown DEF Revealed
  <2>2. SensitiveOnAsking
    <3>1. CASE panel.hidden = <<>>
      BY <2>1, <3>1 DEF SensitiveOnAsking, HiddenFeatures
    <3>2. CASE panel.hidden # <<>>
      BY <2>1, <3>2 DEF SensitiveOnAsking, HiddenFeatures, CardInv, Obeyed
    <3> QED BY <3>1, <3>2
  <2>3. \A i \in DOMAIN wishes : ~ wishes[i] => i \in HiddenFeatures(panel, Listed)
    BY DEF HiddenFeatures, CardInv, Obeyed
  <2>4. HiddenStaysHidden
    BY <1>2, <2>1, <2>3, CardIsShown DEF HiddenStaysHidden
  <2> QED BY <2>2, <2>4 DEF EyesAreObeyed
<1> QED BY <1>1, <1>2

(* A sensitive feature is drawn only once an eye of its row asks for it, and *)
(* what an eye hid stays off the map while the card is open                  *)
(* (MapLayersSection.tsx, startHidden and hidden).                           *)
THEOREM EyesTheorem == SearchSpec => []EyesAreObeyed
<1>1. CardInv => EyesAreObeyed
  BY CardObeysEyes
<1> QED BY <1>1, CardTheorem, PTL

-----------------------------------------------------------------------------
(* The bar over the map: what its queries hold, and the selection *)

IsQuery(q) == q = [data |-> q.data, error |-> q.error]

EverOffered(g) == UNION {m[g] : m \in Menus}

BarInv ==
  /\ IsQuery(list) /\ list.data \in Lists \cup {NoList} /\ list.error \in Errors
  /\ IsQuery(menu) /\ menu.data \in Menus \cup {NoMenu} /\ menu.error \in Errors
  /\ IsFilter(filters) /\ \A g \in Groups : filters[g] \subseteq EverOffered(g)

LEMMA FilterKept ==
  ASSUME NEW f, IsFilter(f), NEW chosen,
         NEW x \in Groups \cup {"certificateIssued", "inProgressWorks"}
  PROVE  IsFilter([f EXCEPT ![x] = chosen])
<1> DEFINE h == [f EXCEPT ![x] = chosen]
<1>1. DOMAIN f = {"typeId", "regionId", "certificateIssued", "inProgressWorks"}
  BY DEF IsFilter
<1>2. DOMAIN h = DOMAIN f /\ h = [y \in DOMAIN h |-> h[y]]
  BY <1>1
<1> HIDE DEF h
<1>3. IsFilter(h)
  BY <1>1, <1>2 DEF IsFilter
<1> QED BY <1>3 DEF h

LEMMA StaysBar == ASSUME BarInv, UNCHANGED bar PROVE BarInv'
BY DEF BarInv, bar, IsQuery, IsFilter, EverOffered

LEMMA AnswersBar == ASSUME BarInv, Answers PROVE BarInv'
<1>1. CASE \E l \in Lists : ListAnswered(l)
  BY <1>1 DEF BarInv, ListAnswered, AnswerList, IsQuery, IsFilter, Errors, EverOffered
<1>2. CASE ListFails
  BY <1>2 DEF BarInv, ListFails, IsQuery, IsFilter, Errors, EverOffered
<1>3. CASE ListAsked
  BY <1>3 DEF BarInv, ListAsked, AskList, Query, IsQuery, IsFilter, Errors, EverOffered
<1>4. CASE \E m \in Menus : MenuAnswered(m)
  BY <1>4 DEF BarInv, MenuAnswered, IsQuery, IsFilter, Errors, EverOffered
<1>5. CASE MenuFails
  BY <1>5 DEF BarInv, MenuFails, IsQuery, IsFilter, Errors, EverOffered
<1>6. CASE \/ CardAnswered \/ (\E e \in {"failed", "gone"} : CardFails(e))
           \/ (selected # NoProject /\ \E cs \in Listings[selected] : ComponentsAnswered(cs))
           \/ ComponentsFail \/ WorksAnswered \/ WorksFail
  BY <1>6, StaysBar DEF CardAnswered, CardFails, ComponentsAnswered, ComponentsFail,
                        WorksAnswered, WorksFail
<1> QED BY <1>1, <1>2, <1>3, <1>4, <1>5, <1>6 DEF Answers

(* A press of a menu leaves only what some menu has offered. *)
LEMMA PressOffers ==
  ASSUME BarInv, NEW g \in Groups, NEW chosen, chosen \subseteq EverOffered(g)
  PROVE  LET f == [filters EXCEPT ![g] = chosen]
         IN  IsFilter(f) /\ \A h \in Groups : f[h] \subseteq EverOffered(h)
<1> DEFINE f == [filters EXCEPT ![g] = chosen]
<1>1. IsFilter(f)
  BY FilterKept DEF BarInv
<1>2. f[g] = chosen /\ \A h \in Groups \ {g} : f[h] = filters[h]
  BY OtherGroupsKeep DEF BarInv
<1> HIDE DEF f
<1>3. \A h \in Groups : f[h] \subseteq EverOffered(h)
  BY <1>2 DEF BarInv
<1> QED BY <1>1, <1>3 DEF f

LEMMA OfferedIsEver == ASSUME BarInv, NEW g \in Groups PROVE Offered(g) \subseteq EverOffered(g)
BY DEF BarInv, Offered, EverOffered

LEMMA PressesBar ==
  ASSUME BarInv,
         \/ TryAgain \/ RetryMenu \/ ClearFilters
         \/ \E g \in Groups : PressAll(g) \/ \E o \in Offered(g) : PressOption(g, o)
         \/ \E t \in {"certificateIssued", "inProgressWorks"} : PressToggle(t)
  PROVE  BarInv'
<1>1. ASSUME NEW f, IsFilter(f), \A h \in Groups : f[h] \subseteq EverOffered(h), Filter(f)
      PROVE  BarInv'
  BY <1>1 DEF BarInv, Filter, IsQuery, IsFilter, EverOffered
<1>2. IsFilter(NO_FILTERS) /\ IsFilter(filters) /\ \A h \in Groups : NO_FILTERS[h] = {}
  BY DEF IsFilter, NO_FILTERS, BarInv, Groups
<1>3. CASE TryAgain
  BY <1>3 DEF BarInv, TryAgain, AskList, Query, IsQuery, IsFilter, Errors, EverOffered
<1>4. CASE RetryMenu
  BY <1>4 DEF BarInv, RetryMenu, Query, IsQuery, IsFilter, Errors, EverOffered
<1>5. CASE ClearFilters
  BY <1>1, <1>2, <1>5 DEF ClearFilters
<1>6. ASSUME NEW g \in Groups, PressAll(g) PROVE BarInv'
  <2> DEFINE chosen == ToggleAll(filters[g], Offered(g))
             f == [filters EXCEPT ![g] = chosen]
  <2>1. chosen \subseteq EverOffered(g)
    BY OfferedIsEver DEF ToggleAll
  <2>2. g \in DOMAIN filters
    BY <1>2 DEF IsFilter, Groups
  <2>3. Filter([filters EXCEPT ![g] = ToggleAll(@, Offered(g))])
    BY <1>6 DEF PressAll
  <2>4. Filter(f)
    BY <2>2, <2>3
  <2> HIDE DEF chosen
  <2>5. IsFilter(f) /\ \A h \in Groups : f[h] \subseteq EverOffered(h)
    BY <2>1, PressOffers
  <2> HIDE DEF f
  <2> QED BY <1>1, <2>4, <2>5
<1>7. ASSUME NEW g \in Groups, NEW o \in Offered(g), PressOption(g, o) PROVE BarInv'
  <2> DEFINE chosen == ToggleOption(filters[g], o)
             f == [filters EXCEPT ![g] = chosen]
  <2>1. chosen \subseteq EverOffered(g)
    BY OfferedIsEver DEF ToggleOption, BarInv
  <2>2. g \in DOMAIN filters
    BY <1>2 DEF IsFilter, Groups
  <2>3. Filter([filters EXCEPT ![g] = ToggleOption(@, o)])
    BY <1>7 DEF PressOption
  <2>4. Filter(f)
    BY <2>2, <2>3
  <2> HIDE DEF chosen
  <2>5. IsFilter(f) /\ \A h \in Groups : f[h] \subseteq EverOffered(h)
    BY <2>1, PressOffers
  <2> HIDE DEF f
  <2> QED BY <1>1, <2>4, <2>5
<1>8. ASSUME NEW t \in {"certificateIssued", "inProgressWorks"}, PressToggle(t)
      PROVE  BarInv'
  <2> DEFINE f == [filters EXCEPT ![t] = ~ @]
  <2>1. IsFilter(f) /\ Filter(f)
    BY <1>2, <1>8, FilterKept DEF PressToggle
  <2>2. \A h \in Groups : f[h] = filters[h]
    BY <1>2 DEF IsFilter, Groups
  <2> HIDE DEF f
  <2>3. \A h \in Groups : f[h] \subseteq EverOffered(h)
    BY <2>2 DEF BarInv
  <2> QED BY <1>1, <2>1, <2>3
<1> QED BY <1>3, <1>4, <1>5, <1>6, <1>7, <1>8

LEMMA ActsBar == ASSUME BarInv, Acts PROVE BarInv'
<1>1. CASE \/ TryAgain \/ RetryMenu \/ ClearFilters
           \/ \E g \in Groups : PressAll(g) \/ \E o \in Offered(g) : PressOption(g, o)
           \/ \E t \in {"certificateIssued", "inProgressWorks"} : PressToggle(t)
  BY <1>1, PressesBar
<1>2. CASE \/ CloseCard \/ \E p \in Ids : OpenDot(p) \/ OpenFootprint(p)
           \/ \E p \in Ids \cup {NoProject} : Hover(p)
  BY <1>2, StaysBar DEF CloseCard, OpenDot, OpenFootprint, Hover, Choose
<1>3. CASE \/ \E ids \in Eyes : PressEye(ids)
           \/ \E s \in Submissions(Rows) : PressSwitch(s.key) \/ ShowAll(s.key)
           \/ \E key \in RowKeys(panel) : SelectRow(key)
           \/ \E i \in IdsListed(Listed) : PickOnMap(i)
           \/ \E type \in ToSet(TYPE_SECTIONS) : ToggleType(type)
           \/ ToggleWorks \/ SwitchTool \/ FocusRow
  <2>1. UNCHANGED bar
    BY <1>3 DEF PressEye, PressSwitch, ShowAll, SelectRow, PickOnMap, ToggleType,
                ToggleWorks, SwitchTool, FocusRow, Panel
  <2> QED BY <2>1, StaysBar
<1> QED BY <1>1, <1>2, <1>3 DEF Acts

LEMMA SearchStepBar == ASSUME BarInv, [SearchNext]_allVars PROVE BarInv'
<1>1. CASE Next
  BY <1>1, AnswersBar, ActsBar DEF Next
<1>2. CASE InField
  <2>1. UNCHANGED bar
    BY <1>2 DEF InField, Type, Pause, PlacesAnswered, PlacesFail,
              GoOffline, HoldRetry, BackOnline, Arrow, Escape, FocusOrBlur,
                Enter, PressRow, ClearField, Take, FindProject, Choose, vars
  <2> QED BY <2>1, StaysBar
<1>3. CASE OnTheMap
  BY <1>3, AnswersBar, PressesBar, StaysBar DEF OnTheMap, Answers, CloseCard, Choose
<1>4. CASE UNCHANGED allVars
  BY <1>4, StaysBar DEF vars, allVars
<1> QED BY <1>1, <1>2, <1>3, <1>4 DEF SearchNext

LEMMA BarStarts == SearchInit => BarInv
BY DEF SearchInit, Init, BarInv, Query, IsQuery, IsFilter, NO_FILTERS, Errors, Groups

LEMMA BarHolds == SearchSpec => []BarInv
<1>1. BarInv /\ [SearchNext]_allVars => BarInv'
  BY SearchStepBar
<1> QED BY <1>1, BarStarts, PTL DEF SearchSpec

LEMMA BarCounts == BarInv => CountsDeliver
<1> SUFFICES ASSUME BarInv, NEW g \in Groups
             PROVE  /\ \A o \in Offered(g) : Counts(g)[o] =
                         Cardinality(VisibleIn(list, [filters EXCEPT ![g] = {o}]))
                    /\ Offered(g) # {} => FacetTotal(Counts(g)) =
                         Cardinality(VisibleIn(list, [filters EXCEPT ![g] = Offered(g)]))
  BY DEF CountsDeliver
<1> DEFINE ps == ProjectsOf(list)
<1>1. IsFiniteSet(DOMAIN ps)
  <2>1. CASE list.data = NoList
    <3>1. DOMAIN ps = {}
      BY <2>1 DEF ProjectsOf
    <3> QED BY <3>1, FS_EmptySet
  <2>2. CASE list.data # NoList
    BY <2>2, ProjectsAssumption DEF BarInv, ProjectsOf
  <2> QED BY <2>1, <2>2
<1>2. IsFiniteSet(Offered(g)) /\ NoValue \notin Offered(g)
  BY ProjectsAssumption, FS_EmptySet DEF BarInv, Offered
<1>3. IsFilter(filters)
  BY DEF BarInv
<1>4. \A chosen : VisibleIn(list, [filters EXCEPT ![g] = chosen]) = LeftBy(ps, filters, g, chosen)
  BY DEF VisibleIn, LeftBy
<1> HIDE DEF ps
<1>5. Counts(g) = FacetCounts(ps, filters, g, Offered(g))
  BY DEF Counts, ps
<1>6. ASSUME NEW o \in Offered(g)
      PROVE  Counts(g)[o] = Cardinality(VisibleIn(list, [filters EXCEPT ![g] = {o}]))
  <2>1. FacetCounts(ps, filters, g, Offered(g))[o] = Cardinality(LeftBy(ps, filters, g, {o}))
    BY <1>2, <1>3, CountDelivers
  <2>2. VisibleIn(list, [filters EXCEPT ![g] = {o}]) = LeftBy(ps, filters, g, {o})
    BY <1>4
  <2> QED BY <1>5, <2>1, <2>2
<1>7. ASSUME Offered(g) # {}
      PROVE  FacetTotal(Counts(g)) =
               Cardinality(VisibleIn(list, [filters EXCEPT ![g] = Offered(g)]))
  <2>1. FacetTotal(FacetCounts(ps, filters, g, Offered(g))) =
          Cardinality(LeftBy(ps, filters, g, Offered(g)))
    BY <1>1, <1>2, <1>3, <1>7, TotalDelivers
  <2>2. VisibleIn(list, [filters EXCEPT ![g] = Offered(g)]) = LeftBy(ps, filters, g, Offered(g))
    BY <1>4
  <2> QED BY <1>5, <2>1, <2>2
<1> QED BY <1>6, <1>7

(* The numbers of the bar's menus are what their rows leave, whatever the    *)
(* list and the code tables answered and the user pressed (filterUtils.ts).  *)
THEOREM CountsTheorem == SearchSpec => []CountsDeliver
<1>1. BarInv => CountsDeliver
  BY BarCounts
<1> QED BY <1>1, BarHolds, PTL

-----------------------------------------------------------------------------
(* What the card lists is what map-api answered for its project. *)

ComponentsHeld ==
  /\ DOMAIN components = Ids
  /\ \A p \in Ids : IsQuery(components[p]) /\ components[p].data \in Listings[p] \cup {NoListing}

OfProjects(sel, hov) == {sel, hov} \subseteq Ids \cup {NoProject}

PanelTypes(pan) ==
  /\ pan.off \cup pan.expanded \subseteq AllKeys
  /\ pan.key \in AllIds \cup {NoFeature}
  /\ pan.closed \subseteq ToSet(TYPE_SECTIONS) /\ pan.worksOpen \in BOOLEAN

TypesInv ==
  /\ ComponentsHeld /\ OfProjects(selected, hovered)
  /\ PanelTypes(panel) /\ kept \subseteq AllIds
  /\ tool \in {"none", "select"} /\ focused \in BOOLEAN
  /\ acts \in 0..MaxActs /\ turns \in 0..MaxTurns

LEMMA NothingIsListing == IsListing(<<>>) /\ ToSet(<<>>) = {}
<1>1. ToSet(<<>>) = {} /\ <<>> \in Seq({})
  BY EmptySeq DEF ToSet
<1>2. IsInjective(MapSeq(LAMBDA c : c.id, <<>>))
  BY DEF IsInjective, MapSeq
<1> QED BY <1>1, <1>2 DEF IsListing

LEMMA AllAreListings == ASSUME NEW cs \in AllListings PROVE IsListing(cs)
<1>1. CASE cs = <<>>
  BY <1>1, NothingIsListing
<1>2. CASE \E p \in Ids : cs \in Listings[p]
  BY <1>2, ProjectsAssumption
<1> QED BY <1>1, <1>2 DEF AllListings

LEMMA ListedIs ==
  ASSUME ComponentsHeld, OfProjects(selected, hovered)
  PROVE  /\ Listed \in AllListings /\ IsListing(Listed)
         /\ Rows = GroupComponents(Listed) /\ PlacesOf[Listed] = RowPlaces(Rows)
<1>1. Listed \in AllListings
  <2>1. CASE ~ SectionsOn(selected, card)
    BY <2>1 DEF Listed, AllListings
  <2>2. CASE SectionsOn(selected, card)
    <3>1. selected \in Ids /\ Listed = ListedIn(selected, components)
      BY <2>2 DEF SectionsOn, OfProjects, Listed
    <3>2. components[selected].data \in Listings[selected] \cup {NoListing}
      BY <3>1 DEF ComponentsHeld
    <3>3. Listed = <<>> \/ Listed \in Listings[selected]
      BY <3>1, <3>2 DEF ListedIn
    <3> QED BY <3>1, <3>3 DEF AllListings
  <2> QED BY <2>1, <2>2
<1>2. Rows = GroupComponents(Listed) /\ PlacesOf[Listed] = RowPlaces(GroupsOf[Listed])
  BY <1>1 DEF Rows, GroupsOf, PlacesOf
<1>3. GroupsOf[Listed] = Rows
  BY DEF Rows
<1> QED BY <1>1, <1>2, <1>3, AllAreListings

LEMMA ListedIds ==
  ASSUME ComponentsHeld, OfProjects(selected, hovered)
  PROVE  /\ IdsListed(Listed) \subseteq AllIds /\ StartHidden(Listed) \subseteq IdsListed(Listed)
         /\ {SubmissionKey(c) : c \in ToSet(Listed)} \subseteq AllKeys
<1>1. Listed \in AllListings
  BY ListedIs
<1>2. IdsListed(Listed) = {c.id : c \in ToSet(Listed)}
  BY IdsAre DEF IdsListed
<1> QED BY <1>1, <1>2 DEF AllIds, AllKeys, StartHidden

(* A row that can be reached is of a submission of the listing. *)
LEMMA RowKeyIs ==
  ASSUME NEW pan, NEW key \in RowKeys(pan)
  PROVE  \E g \in ToSet(Rows) : \E s \in ToSet(g.submissions) :
           /\ RowsOffered /\ g.type \notin pan.closed
           /\ \E n \in DOMAIN s.labels : \E v \in ToSet(s.labels[n].variants) : v.key = key
<1>1. PICK l \in OpenLabels(pan) : key \in {v.key : v \in ToSet(l.variants)}
  BY DEF RowKeys
<1>2. RowsOffered
  BY <1>1 DEF OpenLabels
<1>3. PICK g \in {h \in ToSet(Rows) : h.type \notin pan.closed} :
        l \in UNION {ShownLabels(s, pan) : s \in ToSet(g.submissions)}
  BY <1>1, <1>2 DEF OpenLabels
<1>4. PICK s \in ToSet(g.submissions) : l \in ShownLabels(s, pan)
  BY <1>3
<1>5. PICK n \in DOMAIN s.labels : l = s.labels[n]
  BY <1>4 DEF ShownLabels
<1> QED BY <1>1, <1>2, <1>3, <1>4, <1>5

LEMMA KeysAreListed ==
  ASSUME ComponentsHeld, OfProjects(selected, hovered),
         NEW g \in ToSet(Rows), NEW s \in ToSet(g.submissions)
  PROVE  /\ s \in Submissions(Rows) /\ s.key \in AllKeys /\ ToSet(s.ids) \subseteq IdsListed(Listed)
         /\ \A n \in DOMAIN s.labels : \A v \in ToSet(s.labels[n].variants) :
              v.key \in IdsListed(Listed)
<1>1. IsListing(Listed) /\ Rows = GroupComponents(Listed)
  BY ListedIs
<1>2. s \in Submissions(Rows)
  BY DEF Submissions
<1>3. /\ ToSet(s.ids) \subseteq ToSet(IdsOf(Listed))
      /\ s.key \in {SubmissionKey(c) : c \in ToSet(Listed)}
      /\ \A l \in ToSet(s.labels) : \A v \in ToSet(l.variants) : v.key \in ToSet(IdsOf(Listed))
  BY <1>1, <1>2, SubmissionListed
<1>4. \A n \in DOMAIN s.labels : s.labels[n] \in ToSet(s.labels)
  BY DEF ToSet
<1> QED BY <1>2, <1>3, <1>4, ListedIds DEF IdsListed

(* Where a click of the map goes *)
LEMMA PlacePicked ==
  ASSUME ComponentsHeld, OfProjects(selected, hovered), NEW i \in IdsListed(Listed)
  PROVE  LET place == PlacesOf[Listed][i] IN
         \E g \in ToSet(Rows) : \E s \in ToSet(g.submissions) :
         \E n \in DOMAIN s.labels : \E v \in ToSet(s.labels[n].variants) :
           /\ place.type = g.type /\ place.submission = s.key
           /\ place.index = n /\ place.row = v.key
<1> DEFINE place == PlacesOf[Listed][i]
<1>1. /\ IsListing(Listed) /\ Rows = GroupComponents(Listed) /\ place = RowPlaces(Rows)[i]
  BY ListedIs
<1>2. place \in Places(Rows)
  BY <1>1, OnePlace DEF IdsListed
<1> HIDE DEF place
<1>3. Holds(Rows, place)
  BY <1>2, PlaceHolds
<1> QED BY <1>3 DEF Holds, place

-----------------------------------------------------------------------------
(* A step's effects keep the types of what it leaves them. *)
LEMMA SettledTypes ==
  ASSUME BarInv', NEW sel \in Ids \cup {NoProject}, NEW hov, NEW pan, NEW wish, NEW keep,
         Settles(sel, hov, pan, wish, keep), PanelTypes(pan), keep \subseteq AllIds
  PROVE  OfProjects(selected', hovered') /\ PanelTypes(panel') /\ kept' \subseteq AllIds
<1>1. VisibleIn(list', filters') \subseteq Ids
  <2>1. DOMAIN ProjectsOf(list') \subseteq Ids
    <3>1. CASE list'.data = NoList
      BY <3>1 DEF ProjectsOf
    <3>2. CASE list'.data # NoList
      BY <3>2, ProjectsAssumption DEF BarInv, ProjectsOf
    <3> QED BY <3>1, <3>2
  <2> QED BY <2>1 DEF VisibleIn, FilterProjects
<1>2. PanelTypes(Fresh)
  BY DEF PanelTypes, Fresh
<1>3. OfProjects(selected', hovered')
  BY <1>1 DEF Settles, Survives, OfProjects
<1>4. panel' \in {pan, Fresh} /\ kept' \in {keep, {}}
  BY DEF Settles
<1> QED BY <1>2, <1>3, <1>4

Lands ==
  \E sel \in Ids \cup {NoProject} : \E hov, pan, wish, keep :
    Settles(sel, hov, pan, wish, keep) /\ PanelTypes(pan) /\ keep \subseteq AllIds

LEMMA LandedTypes ==
  ASSUME BarInv', Lands
  PROVE  OfProjects(selected', hovered') /\ PanelTypes(panel') /\ kept' \subseteq AllIds
BY SettledTypes DEF Lands

LEMMA StaysLands == ASSUME TypesInv, Stays PROVE Lands
BY DEF TypesInv, Stays, Lands, OfProjects

LEMMA ChoiceLands ==
  ASSUME TypesInv, NEW p \in Ids \cup {NoProject}, Choose(p) PROVE Lands
BY DEF TypesInv, Choose, Lands

LEMMA HoverLands == ASSUME TypesInv, NEW p, Hover(p) PROVE Lands
BY DEF TypesInv, Hover, Lands, OfProjects

LEMMA PanelLands ==
  ASSUME TypesInv, NEW pan, PanelTypes(pan), NEW wish, NEW keep, keep \subseteq AllIds,
         Panel(pan, wish, keep)
  PROVE  Lands
<1>1. selected \in Ids \cup {NoProject} /\ Settles(selected, hovered, pan, wish, keep)
  BY DEF TypesInv, OfProjects, Panel
<1> QED BY <1>1 DEF Lands

LEMMA EyeLands == ASSUME TypesInv, CardInv, NEW ids, PressEye(ids) PROVE Lands
<1> DEFINE on     == ids \subseteq HiddenSoFar
           hidden == IF on THEN HiddenSoFar \ ids ELSE HiddenSoFar \cup ids
           pan    == [panel EXCEPT !.hidden = <<hidden>>]
           keep   == IF panel.hidden = <<>> THEN StartHidden(Listed) ELSE kept
<1>1. Panel(pan, Wished(ids, on), keep)
  BY DEF PressEye
<1>2. keep \subseteq AllIds
  BY ListedIds DEF TypesInv
<1> HIDE DEF hidden
<1>3. /\ pan.off = panel.off /\ pan.expanded = panel.expanded /\ pan.key = panel.key
      /\ pan.closed = panel.closed /\ pan.worksOpen = panel.worksOpen
  BY DEF CardInv, IsPanel
<1> HIDE DEF pan, keep
<1>4. PanelTypes(pan)
  BY <1>3 DEF PanelTypes, TypesInv
<1> QED BY <1>1, <1>2, <1>4, PanelLands

(* What a press or a pick sets of the panel *)
LEMMA PickTypes ==
  ASSUME TypesInv, CardInv, NEW i \in IdsListed(Listed)
  PROVE  PanelTypes(PickPanel(PlacesOf[Listed][i]))
<1> DEFINE place == PlacesOf[Listed][i]
           closed == panel.closed \ {place.type}
           expanded == IF place.index > COLLAPSED_LABELS
                       THEN panel.expanded \cup {place.submission} ELSE panel.expanded
<1>1. \E g \in ToSet(Rows) : \E s \in ToSet(g.submissions) :
      \E n \in DOMAIN s.labels : \E v \in ToSet(s.labels[n].variants) :
        place.submission = s.key /\ place.row = v.key
  BY PlacePicked DEF TypesInv
<1> HIDE DEF place
<1>2. place.submission \in AllKeys /\ place.row \in AllIds
  BY <1>1, KeysAreListed, ListedIds DEF TypesInv
<1>3. PickPanel(place) =
        [off |-> panel.off, hidden |-> panel.hidden, key |-> place.row, closed |-> closed,
         expanded |-> expanded, worksOpen |-> panel.worksOpen]
  <2>1. PickPanel(place) =
          [panel EXCEPT !.key = place.row, !.closed = closed, !.expanded = expanded]
    BY DEF PickPanel
  <2> HIDE DEF closed, expanded
  <2> QED BY <2>1, PanelWith DEF CardInv
<1>4. PanelTypes(PickPanel(place))
  BY <1>2, <1>3 DEF PanelTypes, TypesInv
<1> QED BY <1>4 DEF place

LEMMA RowsLand ==
  ASSUME TypesInv, CardInv,
         \/ \E key : PressSwitch(key) \/ ShowAll(key) \/ SelectRow(key)
         \/ \E i : PickOnMap(i)
         \/ \E type \in ToSet(TYPE_SECTIONS) : ToggleType(type)
         \/ ToggleWorks \/ FocusRow
  PROVE  Lands
<1>1. /\ panel = [off |-> panel.off, hidden |-> panel.hidden, key |-> panel.key,
                  closed |-> panel.closed, expanded |-> panel.expanded,
                  worksOpen |-> panel.worksOpen]
      /\ PanelTypes(panel) /\ kept \subseteq AllIds
      /\ ComponentsHeld /\ OfProjects(selected, hovered)
  BY DEF TypesInv, CardInv, IsPanel
<1>2. ASSUME NEW key, PressSwitch(key) PROVE Lands
  <2> DEFINE pan == [panel EXCEPT !.off = ToggleOption(@, key)]
  <2>1. key \in AllKeys
    BY <1>1, <1>2, KeysAreListed DEF PressSwitch
  <2>2. PanelTypes(pan)
    BY <1>1, <2>1 DEF PanelTypes, ToggleOption
  <2>3. Panel(pan, wishes, kept)
    BY <1>2 DEF PressSwitch
  <2> HIDE DEF pan
  <2> QED BY <1>1, <2>2, <2>3, PanelLands
<1>3. ASSUME NEW key, ShowAll(key) PROVE Lands
  <2> DEFINE pan == [panel EXCEPT !.expanded = ToggleOption(@, key)]
  <2>1. key \in AllKeys
    BY <1>1, <1>3, KeysAreListed DEF ShowAll
  <2>2. PanelTypes(pan)
    BY <1>1, <2>1 DEF PanelTypes, ToggleOption
  <2>3. Panel(pan, wishes, kept)
    BY <1>3 DEF ShowAll
  <2> HIDE DEF pan
  <2> QED BY <1>1, <2>2, <2>3, PanelLands
<1>4. ASSUME NEW key, SelectRow(key) PROVE Lands
  <2> DEFINE pan == [panel EXCEPT !.key = IF @ = key THEN NoFeature ELSE key]
  <2>1. key \in RowKeys(panel) /\ Panel(pan, wishes, kept)
    BY <1>4 DEF SelectRow
  <2>2. \E g \in ToSet(Rows) : \E s \in ToSet(g.submissions) :
        \E n \in DOMAIN s.labels : \E v \in ToSet(s.labels[n].variants) : v.key = key
    BY <2>1, RowKeyIs
  <2>3. key \in AllIds
    BY <1>1, <2>2, KeysAreListed, ListedIds
  <2>4. PanelTypes(pan)
    BY <1>1, <2>3 DEF PanelTypes
  <2> HIDE DEF pan
  <2> QED BY <1>1, <2>1, <2>4, PanelLands
<1>5. ASSUME NEW i, PickOnMap(i) PROVE Lands
  <2> DEFINE pan == PickPanel(PlacesOf[Listed][i])
  <2>1. i \in IdsListed(Listed) /\ Panel(pan, wishes, kept)
    BY <1>5 DEF PickOnMap
  <2>2. PanelTypes(pan)
    BY <2>1, PickTypes
  <2> HIDE DEF pan
  <2> QED BY <1>1, <2>1, <2>2, PanelLands
<1>6. ASSUME NEW type \in ToSet(TYPE_SECTIONS), ToggleType(type) PROVE Lands
  <2> DEFINE pan == [panel EXCEPT !.closed = ToggleOption(@, type)]
  <2>1. PanelTypes(pan)
    BY <1>1 DEF PanelTypes, ToggleOption
  <2>2. Panel(pan, wishes, kept)
    BY <1>6 DEF ToggleType
  <2> HIDE DEF pan
  <2> QED BY <1>1, <2>1, <2>2, PanelLands
<1>7. ASSUME ToggleWorks PROVE Lands
  <2> DEFINE pan == [panel EXCEPT !.worksOpen = ~ @]
  <2>1. PanelTypes(pan)
    BY <1>1 DEF PanelTypes
  <2>2. Panel(pan, wishes, kept)
    BY <1>7 DEF ToggleWorks
  <2> HIDE DEF pan
  <2> QED BY <1>1, <2>1, <2>2, PanelLands
<1>8. ASSUME FocusRow PROVE Lands
  <2> DEFINE pan == [panel EXCEPT !.key = IF focused' THEN NoFeature ELSE @]
  <2>1. PanelTypes(pan)
    BY <1>1 DEF PanelTypes
  <2>2. Panel(pan, wishes, kept)
    BY <1>8 DEF FocusRow
  <2> HIDE DEF pan
  <2> QED BY <1>1, <2>1, <2>2, PanelLands
<1> QED BY <1>2, <1>3, <1>4, <1>5, <1>6, <1>7, <1>8

(* The queries of the components, however they are asked and answered *)
LEMMA ComponentAsked ==
  ASSUME ComponentsHeld, NEW p,
         components' = [components EXCEPT ![p] = Observed(@, NoListing)]
  PROVE  ComponentsHeld'
BY DEF ComponentsHeld, Observed, Query, IsQuery

LEMMA ComponentSet ==
  ASSUME ComponentsHeld, NEW p \in Ids, NEW q, IsQuery(q), q.data \in Listings[p] \cup {NoListing},
         components' = [components EXCEPT ![p] = q]
  PROVE  ComponentsHeld'
BY DEF ComponentsHeld, IsQuery

LEMMA ChoiceHolds == ASSUME TypesInv, NEW p, Choose(p) PROVE ComponentsHeld'
<1>1. CASE UNCHANGED components
  BY <1>1 DEF TypesInv, ComponentsHeld, IsQuery
<1>2. CASE components' = [components EXCEPT ![p] = Observed(@, NoListing)]
  BY <1>2, ComponentAsked DEF TypesInv
<1> QED BY <1>1, <1>2 DEF Choose

LEMMA AnswersHold == ASSUME TypesInv, Answers PROVE ComponentsHeld'
<1>1. ComponentsHeld /\ (selected # NoProject => selected \in Ids)
  BY DEF TypesInv, OfProjects
<1>2. CASE UNCHANGED components
  BY <1>1, <1>2 DEF ComponentsHeld, IsQuery
<1>3. CASE CardAnswered
  <2>1. \/ UNCHANGED components
        \/ components' = [components EXCEPT ![selected] = Observed(@, NoListing)]
    BY <1>3 DEF CardAnswered
  <2> QED BY <1>1, <1>2, <2>1, ComponentAsked
<1>4. ASSUME selected # NoProject, NEW cs \in Listings[selected], ComponentsAnswered(cs)
      PROVE  ComponentsHeld'
  <2> DEFINE q == [data |-> cs, error |-> "none"]
  <2>1. IsQuery(q) /\ q.data \in Listings[selected]
    BY DEF IsQuery
  <2>2. components' = [components EXCEPT ![selected] = q]
    BY <1>4 DEF ComponentsAnswered
  <2> HIDE DEF q
  <2> QED BY <1>1, <1>4, <2>1, <2>2, ComponentSet
<1>5. CASE ComponentsFail
  <2> DEFINE q == [components[selected] EXCEPT !.error = "failed"]
  <2>1. selected \in Ids
    BY <1>1, <1>5 DEF ComponentsFail, SectionsOn
  <2>2. IsQuery(components[selected]) /\ components[selected].data \in Listings[selected] \cup {NoListing}
    BY <1>1, <2>1 DEF ComponentsHeld
  <2>3. IsQuery(q) /\ q.data = components[selected].data
    BY <2>2 DEF IsQuery
  <2>4. components' = [components EXCEPT ![selected] = q]
    BY <1>5 DEF ComponentsFail
  <2> HIDE DEF q
  <2> QED BY <1>1, <2>1, <2>2, <2>3, <2>4, ComponentSet
<1>6. CASE \/ \E l \in Lists : ListAnswered(l)
           \/ ListFails \/ ListAsked \/ (\E m \in Menus : MenuAnswered(m)) \/ MenuFails
           \/ (\E e \in {"failed", "gone"} : CardFails(e)) \/ WorksAnswered \/ WorksFail
  BY <1>2, <1>6 DEF ListAnswered, ListFails, ListAsked, MenuAnswered, MenuFails, CardFails,
                    WorksAnswered, WorksFail, asked
<1> QED BY <1>3, <1>4, <1>5, <1>6 DEF Answers

(* The tool, its focus and the bounds *)
AreaTypes == tool \in {"none", "select"} /\ focused \in BOOLEAN

BoundTypes == acts \in 0..MaxActs /\ turns \in 0..MaxTurns

LEMMA BoundsHold ==
  ASSUME BoundTypes, UNCHANGED bounds \/ Act \/ Turn PROVE BoundTypes'
<1>1. MaxActs \in Nat /\ MaxTurns \in Nat
  BY ProjectsAssumption
<1> QED BY <1>1 DEF BoundTypes, bounds, Act, Turn

LEMMA AnswersBound ==
  ASSUME Answers
  PROVE  Stays /\ UNCHANGED area /\ (UNCHANGED bounds \/ Act \/ Turn)
BY DEF Answers, ListAnswered, ListFails, ListAsked, MenuAnswered, MenuFails,
       CardAnswered, CardFails, ComponentsAnswered, ComponentsFail, WorksAnswered, WorksFail

LEMMA PressesBound ==
  ASSUME \/ TryAgain \/ RetryMenu \/ ClearFilters
         \/ \E g \in Groups : PressAll(g) \/ \E o \in Offered(g) : PressOption(g, o)
         \/ \E t \in {"certificateIssued", "inProgressWorks"} : PressToggle(t)
  PROVE  Stays /\ UNCHANGED area /\ UNCHANGED components /\ Act
BY DEF TryAgain, RetryMenu, ClearFilters, PressAll, PressOption, PressToggle, Filter, asked

LEMMA StaysTypes ==
  ASSUME TypesInv, BarInv', Stays, UNCHANGED area, ComponentsHeld',
         UNCHANGED bounds \/ Act \/ Turn
  PROVE  TypesInv'
<1>1. OfProjects(selected', hovered') /\ PanelTypes(panel') /\ kept' \subseteq AllIds
  BY StaysLands, LandedTypes
<1>2. AreaTypes'
  BY DEF TypesInv, AreaTypes, area
<1>3. BoundTypes'
  BY BoundsHold DEF TypesInv, BoundTypes
<1> QED BY <1>1, <1>2, <1>3 DEF TypesInv, AreaTypes, BoundTypes

LEMMA ChoiceTypes ==
  ASSUME TypesInv, BarInv', NEW p \in Ids \cup {NoProject}, Choose(p) PROVE TypesInv'
<1>1. OfProjects(selected', hovered') /\ PanelTypes(panel') /\ kept' \subseteq AllIds
  BY ChoiceLands, LandedTypes
<1>2. AreaTypes' /\ Act
  BY DEF TypesInv, AreaTypes, area, Choose
<1>3. BoundTypes'
  BY <1>2, BoundsHold DEF TypesInv, BoundTypes
<1> QED BY <1>1, <1>2, <1>3, ChoiceHolds DEF TypesInv, AreaTypes, BoundTypes

(* What the user does with the dots and the lists of the card *)
LEMMA WorkTypes ==
  ASSUME TypesInv, CardInv, BarInv',
         \/ \E p : Hover(p)
         \/ \E ids : PressEye(ids)
         \/ \E key : PressSwitch(key) \/ ShowAll(key) \/ SelectRow(key)
         \/ \E i : PickOnMap(i)
         \/ \E type \in ToSet(TYPE_SECTIONS) : ToggleType(type)
         \/ ToggleWorks \/ FocusRow
  PROVE  TypesInv'
<1>1. Lands
  BY HoverLands, EyeLands, RowsLand
<1>2. OfProjects(selected', hovered') /\ PanelTypes(panel') /\ kept' \subseteq AllIds
  BY <1>1, LandedTypes
<1>3. UNCHANGED components /\ Act
  BY DEF Hover, PressEye, PressSwitch, ShowAll, SelectRow, PickOnMap, ToggleType,
         ToggleWorks, FocusRow, Panel, asked
<1>4. AreaTypes'
  BY DEF TypesInv, AreaTypes, area, Hover, PressEye, PressSwitch, ShowAll, SelectRow,
         PickOnMap, ToggleType, ToggleWorks, FocusRow
<1>5. BoundTypes'
  BY <1>3, BoundsHold DEF TypesInv, BoundTypes
<1>6. ComponentsHeld'
  BY <1>3 DEF TypesInv, ComponentsHeld, IsQuery
<1> QED BY <1>2, <1>4, <1>5, <1>6 DEF TypesInv, AreaTypes, BoundTypes

LEMMA VisibleAreIds == ASSUME BarInv PROVE Visible \subseteq Ids
<1>1. DOMAIN ProjectsOf(list) \subseteq Ids
  BY ProjectsAssumption DEF BarInv, ProjectsOf
<1> QED BY <1>1 DEF Visible, VisibleIn, FilterProjects

LEMMA NextTypes == ASSUME TypesInv, CardInv, BarInv, BarInv', Next PROVE TypesInv'
<1>0. ComponentsHeld' \/ ~ UNCHANGED components
  BY DEF TypesInv, ComponentsHeld, IsQuery
<1>1. CASE Answers
  BY <1>1, AnswersBound, AnswersHold, StaysTypes
<1>2. CASE \/ TryAgain \/ RetryMenu \/ ClearFilters
           \/ \E g \in Groups : PressAll(g) \/ \E o \in Offered(g) : PressOption(g, o)
           \/ \E t \in {"certificateIssued", "inProgressWorks"} : PressToggle(t)
  BY <1>0, <1>2, PressesBound, StaysTypes
<1>3. CASE CloseCard \/ \E p \in Ids : OpenDot(p) \/ OpenFootprint(p)
  BY <1>3, ChoiceTypes DEF CloseCard, OpenDot, OpenFootprint
<1>4. CASE \/ \E p \in Ids \cup {NoProject} : Hover(p)
           \/ \E ids \in Eyes : PressEye(ids)
           \/ \E s \in Submissions(Rows) : PressSwitch(s.key) \/ ShowAll(s.key)
           \/ \E key \in RowKeys(panel) : SelectRow(key)
           \/ \E i \in IdsListed(Listed) : PickOnMap(i)
           \/ \E type \in ToSet(TYPE_SECTIONS) : ToggleType(type)
           \/ ToggleWorks \/ FocusRow
  BY <1>4, WorkTypes
<1>5. CASE SwitchTool
  <2>1. OfProjects(selected', hovered') /\ PanelTypes(panel') /\ kept' \subseteq AllIds
    BY <1>5, StaysLands, LandedTypes DEF SwitchTool
  <2>2. UNCHANGED components /\ UNCHANGED bounds
    BY <1>5 DEF SwitchTool, asked
  <2>3. tool' \in {"none", "select"} /\ focused' \in BOOLEAN
    BY <1>5 DEF SwitchTool
  <2> QED BY <1>0, <2>1, <2>2, <2>3 DEF TypesInv, bounds
<1> QED BY <1>1, <1>2, <1>3, <1>4, <1>5 DEF Next, Acts

LEMMA SearchStepTypes ==
  ASSUME TypesInv, CardInv, BarInv, BarInv', [SearchNext]_allVars PROVE TypesInv'
<1>1. CASE UNCHANGED vars
  BY <1>1 DEF TypesInv, ComponentsHeld, IsQuery, vars, bar, asked, opened, area, bounds
<1>2. CASE Next
  BY <1>2, NextTypes
<1>3. CASE \E p : FindProject(p)
  BY <1>3, VisibleAreIds, ChoiceTypes DEF FindProject
<1>4. CASE PlacesFail
  <2>1. UNCHANGED <<bar, asked, opened, area, acts>> /\ turns < MaxTurns /\ turns' = turns + 1
    BY <1>4 DEF PlacesFail
  <2>2. turns' \in 0..MaxTurns
    BY <2>1, ProjectsAssumption DEF TypesInv
  <2> QED BY <2>1, <2>2 DEF TypesInv, ComponentsHeld, IsQuery, asked, opened, area
<1>5. ASSUME InField PROVE \/ UNCHANGED vars \/ PlacesFail \/ \E p : FindProject(p)
  BY <1>5 DEF InField, Type, Pause, PlacesAnswered, GoOffline, HoldRetry, BackOnline,
              Arrow, Escape, FocusOrBlur,
              Enter, PressRow, ClearField, Take
<1>6. OnTheMap => Next
  BY DEF OnTheMap, Next, Answers, Acts
<1> QED BY <1>1, <1>2, <1>3, <1>4, <1>5, <1>6 DEF SearchNext, allVars

LEMMA TypesStart == SearchInit => TypesInv
<1> SUFFICES ASSUME SearchInit PROVE TypesInv
  OBVIOUS
<1>1. MaxActs \in Nat /\ MaxTurns \in Nat
  BY ProjectsAssumption
<1>2. ComponentsHeld
  BY DEF SearchInit, Init, ComponentsHeld, IsQuery, Query
<1>3. PanelTypes(panel) /\ OfProjects(selected, hovered)
  BY DEF SearchInit, Init, PanelTypes, Fresh, OfProjects
<1>4. /\ kept = {} /\ tool = "none" /\ focused = FALSE /\ acts = 0 /\ turns = 0
  BY DEF SearchInit, Init
<1>5. acts \in 0..MaxActs /\ turns \in 0..MaxTurns
  BY <1>1, <1>4
<1>6. kept \subseteq AllIds /\ tool \in {"none", "select"} /\ focused \in BOOLEAN
  BY <1>4
<1> QED BY <1>2, <1>3, <1>5, <1>6 DEF TypesInv

LEMMA TypesHold == SearchSpec => [](TypesInv /\ CardInv /\ BarInv)
<1>1. TypesInv /\ CardInv /\ BarInv /\ BarInv' /\ [SearchNext]_allVars => TypesInv'
  BY SearchStepTypes
<1> QED BY <1>1, TypesStart, CardTheorem, BarHolds, PTL DEF SearchSpec

-----------------------------------------------------------------------------
LEMMA FindVariantListed ==
  ASSUME ComponentsHeld, OfProjects(selected, hovered)
  PROVE  \A s \in Submissions(Rows) : ToSet(s.ids) \subseteq IdsListed(Listed)
<1>1. IsListing(Listed) /\ Rows = GroupComponents(Listed)
  BY ListedIs
<1> QED BY <1>1, SubmissionListed DEF IdsListed

LEMMA ShownIsListed ==
  ASSUME TypesInv, CardInv
  PROVE  /\ NothingLeftBehind
         /\ shown.features \cup shown.footprints \cup shown.selected \subseteq IdsListed(Listed)
<1>1. CASE ~ SectionsOn(selected, card)
  BY <1>1, NothingIsShown DEF NothingLeftBehind, Nothing
<1>2. CASE SectionsOn(selected, card)
  <2>1. shown.features \subseteq IdsListed(Listed)
    <3>1. \A s \in Submissions(Rows) : ToSet(s.ids) \subseteq IdsListed(Listed)
      BY FindVariantListed DEF TypesInv
    <3>2. shown.features = Revealed(panel, Listed)
      BY <1>2, CardIsShown
    <3>3. Rows = GroupsOf[Listed]
      BY DEF Rows
    <3> QED BY <3>1, <3>2, <3>3 DEF Revealed
  <2>2. shown.footprints \subseteq IdsListed(Listed)
    BY <1>2, CardIsShown, IdsAre DEF IdsListed
  <2>3. shown.selected \subseteq shown.features
    BY <1>2, CardIsShown
  <2> QED BY <1>2, <2>1, <2>2, <2>3 DEF NothingLeftBehind
<1> QED BY <1>1, <1>2

LEMMA HighlightHolds == ASSUME CardInv PROVE HighlightIsDrawn
<1>1. CASE ~ SectionsOn(selected, card)
  BY <1>1, NothingIsShown DEF HighlightIsDrawn, Nothing
<1>2. CASE SectionsOn(selected, card)
  BY <1>2, CardIsShown DEF HighlightIsDrawn
<1> QED BY <1>1, <1>2

LEMMA RowsHold == ASSUME TypesInv PROVE EachHasItsRow
<1>1. IsListing(Listed) /\ Rows = GroupComponents(Listed) /\ PlacesOf[Listed] = RowPlaces(Rows)
  BY ListedIs DEF TypesInv
<1>2. \A i \in IdsListed(Listed) :
        /\ Cardinality({p \in Places(Rows) : p.id = i}) = 1
        /\ i \in FindVariant(Rows, PlacesOf[Listed][i].row)
  BY <1>1, OnePlace DEF IdsListed
<1>3. \A g, h \in ToSet(Rows) : \A s \in ToSet(g.submissions), t \in ToSet(h.submissions) :
        s.key = t.key => s = t
  <2>1. \A g \in ToSet(Rows) : \A s \in ToSet(g.submissions) : s \in Submissions(Rows)
    BY DEF Submissions
  <2>2. \A s, t \in Submissions(Rows) : s.key = t.key => s = t
    BY <1>1, SubmissionListed
  <2> QED BY <2>1, <2>2
<1> QED BY <1>2, <1>3 DEF EachHasItsRow

LEMMA TypesFollow == ASSUME TypesInv, CardInv, BarInv PROVE TypeOK
<1>1. shown.features \cup shown.footprints \cup shown.selected \cup kept \subseteq AllIds
  BY ShownIsListed, ListedIds DEF TypesInv
<1>2. \A g \in Groups : filters[g] \subseteq UNION {m[g] : m \in Menus}
  BY DEF BarInv, EverOffered
<1> QED BY <1>1, <1>2 DEF TypesInv, BarInv, TypeOK, OfProjects, PanelTypes

(* What the map draws, hovers and highlights is what the card lists and      *)
(* selects, each component in one row, for any listings of map-api           *)
(* (ProjectsControl.tsx; MapLayersSection.tsx; componentGrouping.ts).        *)
THEOREM MapTheorem == SearchSpec => []MapFollowsCard
<1>1. TypesInv /\ CardInv /\ BarInv => MapFollowsCard
  BY TypesFollow, ShownIsListed, HighlightHolds, RowsHold
     DEF MapFollowsCard, CardInv, FocusIsOfTheTool
<1> QED BY <1>1, TypesHold, PTL

-----------------------------------------------------------------------------
(* What selects a row leaves it in view. *)

LEMMA RowIsSeen ==
  ASSUME RowsOffered, NEW pan, NEW g \in ToSet(Rows), g.type \notin pan.closed,
         NEW s \in ToSet(g.submissions), NEW n \in DOMAIN s.labels,
         NEW v \in ToSet(s.labels[n].variants), pan.key = v.key
  PROVE  pan.key \in RowKeys(pan)
<1>1. s.labels[n] \in ShownLabels(s, pan)
  BY DEF ShownLabels
<1>2. s.labels[n] \in OpenLabels(pan)
  BY <1>1 DEF OpenLabels
<1> QED BY <1>2 DEF RowKeys

SeenIn(pan) == pan.key \notin {panel.key, NoFeature} /\ RowsOffered => pan.key \in RowKeys(pan)

LEMMA SettledSeen ==
  ASSUME NEW sel, NEW hov, NEW pan, NEW wish, NEW keep,
         Settles(sel, hov, pan, wish, keep), SeenIn(pan)
  PROVE  SeenIn(panel')
<1>1. panel' \in {pan, Fresh}
  BY DEF Settles
<1>2. SeenIn(Fresh)
  BY DEF SeenIn, Fresh
<1> QED BY <1>1, <1>2

LEMMA SelectSeen == ASSUME CardInv, NEW key, SelectRow(key) PROVE SeenIn(panel')
<1> DEFINE pan == [panel EXCEPT !.key = IF @ = key THEN NoFeature ELSE key]
<1>1. key \in RowKeys(panel) /\ Settles(selected, hovered, pan, wishes, kept)
  BY DEF SelectRow, Panel
<1>2. pan.closed = panel.closed /\ pan.key \in {key, NoFeature}
  BY DEF CardInv, IsPanel
<1> HIDE DEF pan
<1>3. ASSUME pan.key = key PROVE key \in RowKeys(pan)
  <2>1. PICK g \in ToSet(Rows) : \E s \in ToSet(g.submissions) :
          /\ RowsOffered /\ g.type \notin panel.closed
          /\ \E n \in DOMAIN s.labels : \E v \in ToSet(s.labels[n].variants) : v.key = key
    BY <1>1, RowKeyIs
  <2> QED BY <1>2, <1>3, <2>1, RowIsSeen
<1>4. SeenIn(pan)
  BY <1>2, <1>3 DEF SeenIn
<1> QED BY <1>1, <1>4, SettledSeen

LEMMA PickSeen == ASSUME TypesInv, CardInv, NEW i, PickOnMap(i) PROVE SeenIn(panel')
<1> DEFINE place == PlacesOf[Listed][i]
           pan == PickPanel(place)
           closed == panel.closed \ {place.type}
           expanded == IF place.index > COLLAPSED_LABELS
                       THEN panel.expanded \cup {place.submission} ELSE panel.expanded
<1>1. i \in IdsListed(Listed) /\ Settles(selected, hovered, pan, wishes, kept)
  BY DEF PickOnMap, Panel
<1>2. pan = [panel EXCEPT !.key = place.row, !.closed = closed, !.expanded = expanded]
  BY DEF PickPanel
<1>3. \E g \in ToSet(Rows) : \E s \in ToSet(g.submissions) :
      \E n \in DOMAIN s.labels : \E v \in ToSet(s.labels[n].variants) :
        place.type = g.type /\ place.row = v.key
  BY <1>1, PlacePicked DEF TypesInv
<1> HIDE DEF place, expanded, closed
<1>4. pan.key = place.row /\ pan.closed = closed
  <2> HIDE DEF pan
  <2> QED BY <1>2, PanelWith DEF CardInv
<1> HIDE DEF pan
<1>5. SeenIn(pan)
  BY <1>3, <1>4, RowIsSeen DEF SeenIn, closed
<1> QED BY <1>1, <1>5, SettledSeen

(* No other step selects a row. *)
LEMMA OthersSeen ==
  ASSUME CardInv,
         \/ Stays \/ (\E p : Choose(p)) \/ (\E p : Hover(p)) \/ (\E ids : PressEye(ids))
         \/ (\E key : PressSwitch(key) \/ ShowAll(key)) \/ (\E type : ToggleType(type))
         \/ ToggleWorks \/ FocusRow
  PROVE  SeenIn(panel')
<1>1. ASSUME NEW pan, pan.key \in {panel.key, NoFeature} PROVE SeenIn(pan)
  BY <1>1 DEF SeenIn
<1>2. IsPanel(panel)
  BY DEF CardInv
<1>3. CASE Stays \/ (\E p : Choose(p)) \/ (\E p : Hover(p))
  BY <1>1, <1>3, SettledSeen DEF Stays, Choose, Hover
<1>4. ASSUME NEW pan, pan.key \in {panel.key, NoFeature}, NEW wish, NEW keep,
             Panel(pan, wish, keep)
      PROVE  SeenIn(panel')
  BY <1>1, <1>4, SettledSeen DEF Panel
<1>5. ASSUME NEW ids, PressEye(ids) PROVE SeenIn(panel')
  <2> DEFINE hidden == IF ids \subseteq HiddenSoFar THEN HiddenSoFar \ ids ELSE HiddenSoFar \cup ids
             pan    == [panel EXCEPT !.hidden = <<hidden>>]
             keep   == IF panel.hidden = <<>> THEN StartHidden(Listed) ELSE kept
  <2>1. Panel(pan, Wished(ids, ids \subseteq HiddenSoFar), keep)
    BY <1>5 DEF PressEye
  <2> HIDE DEF hidden, keep
  <2>2. pan.key = panel.key
    BY <1>2 DEF IsPanel
  <2> HIDE DEF pan
  <2> QED BY <1>4, <2>1, <2>2
<1>6. ASSUME NEW key, PressSwitch(key) PROVE SeenIn(panel')
  <2> DEFINE pan == [panel EXCEPT !.off = ToggleOption(@, key)]
  <2>1. pan.key = panel.key /\ Panel(pan, wishes, kept)
    BY <1>2, <1>6 DEF IsPanel, PressSwitch
  <2> HIDE DEF pan
  <2> QED BY <1>4, <2>1
<1>7. ASSUME NEW key, ShowAll(key) PROVE SeenIn(panel')
  <2> DEFINE pan == [panel EXCEPT !.expanded = ToggleOption(@, key)]
  <2>1. pan.key = panel.key /\ Panel(pan, wishes, kept)
    BY <1>2, <1>7 DEF IsPanel, ShowAll
  <2> HIDE DEF pan
  <2> QED BY <1>4, <2>1
<1>8. ASSUME NEW type, ToggleType(type) PROVE SeenIn(panel')
  <2> DEFINE pan == [panel EXCEPT !.closed = ToggleOption(@, type)]
  <2>1. pan.key = panel.key /\ Panel(pan, wishes, kept)
    BY <1>2, <1>8 DEF IsPanel, ToggleType
  <2> HIDE DEF pan
  <2> QED BY <1>4, <2>1
<1>9. ASSUME ToggleWorks PROVE SeenIn(panel')
  <2> DEFINE pan == [panel EXCEPT !.worksOpen = ~ @]
  <2>1. pan.key = panel.key /\ Panel(pan, wishes, kept)
    BY <1>2, <1>9 DEF IsPanel, ToggleWorks
  <2> HIDE DEF pan
  <2> QED BY <1>4, <2>1
<1>10. ASSUME FocusRow PROVE SeenIn(panel')
  <2> DEFINE pan == [panel EXCEPT !.key = IF focused' THEN NoFeature ELSE @]
  <2>1. pan.key \in {panel.key, NoFeature} /\ Panel(pan, wishes, kept)
    BY <1>2, <1>10 DEF IsPanel, FocusRow
  <2> HIDE DEF pan
  <2> QED BY <1>4, <2>1
<1> QED BY <1>3, <1>5, <1>6, <1>7, <1>8, <1>9, <1>10

LEMMA NextSeen == ASSUME TypesInv, CardInv, Next PROVE SeenIn(panel')
<1>1. CASE Answers
  BY <1>1, AnswersBound, OthersSeen
<1>2. CASE \/ TryAgain \/ RetryMenu \/ ClearFilters
           \/ \E g \in Groups : PressAll(g) \/ \E o \in Offered(g) : PressOption(g, o)
           \/ \E t \in {"certificateIssued", "inProgressWorks"} : PressToggle(t)
  BY <1>2, PressesBound, OthersSeen
<1>3. CASE CloseCard \/ SwitchTool \/ \E p \in Ids : OpenDot(p) \/ OpenFootprint(p)
  BY <1>3, OthersSeen DEF CloseCard, SwitchTool, OpenDot, OpenFootprint
<1>4. CASE \/ \E p \in Ids \cup {NoProject} : Hover(p)
           \/ \E ids \in Eyes : PressEye(ids)
           \/ \E s \in Submissions(Rows) : PressSwitch(s.key) \/ ShowAll(s.key)
           \/ \E type \in ToSet(TYPE_SECTIONS) : ToggleType(type)
           \/ ToggleWorks \/ FocusRow
  BY <1>4, OthersSeen
<1>5. CASE \E key \in RowKeys(panel) : SelectRow(key)
  BY <1>5, SelectSeen
<1>6. CASE \E i \in IdsListed(Listed) : PickOnMap(i)
  BY <1>6, PickSeen
<1> QED BY <1>1, <1>2, <1>3, <1>4, <1>5, <1>6 DEF Next, Acts

LEMMA SearchStepSeen == ASSUME TypesInv, CardInv, [SearchNext]_allVars PROVE SeenIn(panel')
<1>1. CASE panel' = panel
  BY <1>1 DEF SeenIn
<1>2. CASE \E p : FindProject(p)
  BY <1>2, OthersSeen DEF FindProject
<1>3. ASSUME InField PROVE panel' = panel \/ \E p : FindProject(p)
  BY <1>3 DEF InField, Type, Pause, PlacesAnswered, PlacesFail,
              GoOffline, HoldRetry, BackOnline, Arrow, Escape, FocusOrBlur,
              Enter, PressRow, ClearField, Take, vars, opened
<1>4. OnTheMap => Next
  BY DEF OnTheMap, Next, Answers, Acts
<1>5. UNCHANGED allVars => panel' = panel
  BY DEF allVars, vars, opened
<1> QED BY <1>1, <1>2, <1>3, <1>4, <1>5, NextSeen DEF SearchNext

(* Whatever selects a row of the card leaves it in view                      *)
(* (MapLayersSection.tsx, useMapPicks; SubmissionGroup.tsx, shownLabels).    *)
THEOREM SeenTheorem == SearchSpec => SelectedRowIsSeen
<1>1. /\ TypesInv /\ CardInv /\ BarInv /\ [SearchNext]_allVars
      => [panel'.key \notin {panel.key, NoFeature} /\ RowsOffered
            => panel'.key \in RowKeys(panel')]_vars
  BY SearchStepSeen DEF SeenIn
<1> QED BY <1>1, TypesHold, PTL DEF SearchSpec, SelectedRowIsSeen

-----------------------------------------------------------------------------
(* The search field: the rows of its menu, and the one highlighted *)

IsRow(row) ==
  /\ row # NoRow
  /\ \/ \E p : row = ProjectRow(p)
     \/ \E place, n : row = PlaceRow(place, n)

PlacesHeld ==
  /\ DOMAIN places = Queries
  /\ \A q \in Queries : IsQuery(places[q]) /\ places[q].data \in {NoPlaces, Found[q]}

FieldInv ==
  /\ PlacesHeld /\ {query, debounced} \subseteq Queries \cup {NoQuery}
  /\ activeKey # NoRow => IsRow(pointed) /\ RowKey(pointed) = activeKey

LEMMA SeqIsList == ASSUME NEW S, NEW s \in Seq(S) PROVE IsList(s) /\ ToSet(s) \subseteq S
<1>1. Len(s) \in Nat /\ s \in [1..Len(s) -> S]
  BY LenProperties
<1>2. IsList(s)
  BY <1>1, ListIs
<1> QED BY <1>1, <1>2 DEF ToSet

LEMMA ListIsSeq == ASSUME NEW s, IsList(s) PROVE s \in Seq(ToSet(s))
<1>1. PICK N \in Nat : s \in [1..N -> ToSet(s)]
  BY DEF IsList
<1> QED BY <1>1

LEMMA JoinedIs ==
  ASSUME NEW s, IsList(s), NEW t, IsList(t)
  PROVE  /\ IsList(s \o t) /\ ToSet(s \o t) = ToSet(s) \cup ToSet(t)
         /\ Len(s \o t) \in Nat /\ DOMAIN (s \o t) = 1..Len(s \o t)
<1> DEFINE S == ToSet(s) \cup ToSet(t)
           j == s \o t
<1>1. s \in Seq(S) /\ t \in Seq(S)
  <2>1. s \in Seq(ToSet(s)) /\ t \in Seq(ToSet(t))
    BY ListIsSeq
  <2> QED BY <2>1, SeqMonotonic
<1>2. /\ Len(s) \in Nat /\ DOMAIN s = 1..Len(s)
      /\ Len(t) \in Nat /\ DOMAIN t = 1..Len(t)
  BY <1>1, LenProperties
<1>3. /\ j \in Seq(S) /\ Len(j) = Len(s) + Len(t)
      /\ \A i \in 1..(Len(s) + Len(t)) : j[i] = IF i <= Len(s) THEN s[i] ELSE t[i - Len(s)]
  BY <1>1, ConcatProperties
<1>4. Len(j) \in Nat /\ DOMAIN j = 1..Len(j)
  BY <1>3, LenProperties
<1>5. IsList(j)
  BY <1>3, SeqIsList
<1> HIDE DEF j
<1>6. ToSet(j) \subseteq S
  BY <1>2, <1>3, <1>4 DEF ToSet
<1>7. ToSet(s) \subseteq ToSet(j)
  <2>1. \A i \in DOMAIN s : i \in DOMAIN j /\ j[i] = s[i]
    BY <1>2, <1>3, <1>4
  <2> QED BY <2>1 DEF ToSet
<1>8. ToSet(t) \subseteq ToSet(j)
  <2>1. \A i \in DOMAIN t : Len(s) + i \in DOMAIN j /\ j[Len(s) + i] = t[i]
    BY <1>2, <1>3, <1>4
  <2> QED BY <2>1 DEF ToSet
<1>9. ToSet(j) = ToSet(s) \cup ToSet(t)
  BY <1>6, <1>7, <1>8
<1> QED BY <1>4, <1>5, <1>9 DEF j

LEMMA MatchesAre ==
  ASSUME FieldInv
  PROVE  /\ IsList(MatchProjects) /\ ToSet(MatchProjects) \subseteq Ids
         /\ query # NoQuery => ToSet(MatchProjects) =
              {p \in ToSet(Named[query]) : p \in DOMAIN ProjectsOf(list)}
<1>1. CASE query = NoQuery
  BY <1>1, NothingIsListing, ListingIsList DEF MatchProjects
<1>2. CASE query # NoQuery
  <2> DEFINE named == Named[query]
             I == {n \in DOMAIN named : named[n] \in DOMAIN ProjectsOf(list)}
  <2>1. IsList(named) /\ ToSet(named) \subseteq Ids
    BY <1>2, SearchAssumption, SeqIsList DEF FieldInv
  <2>2. IsList(At(named, I)) /\ ToSet(At(named, I)) = {named[i] : i \in I}
    <3> HIDE DEF named
    <3> QED BY <2>1, AtIs
  <2>3. MatchProjects = At(named, I)
    BY <1>2 DEF MatchProjects
  <2>4. {named[i] : i \in I} = {p \in ToSet(named) : p \in DOMAIN ProjectsOf(list)}
    BY DEF ToSet
  <2> QED BY <2>1, <2>2, <2>3, <2>4
<1> QED BY <1>1, <1>2

LEMMA PlacesAre ==
  ASSUME FieldInv
  PROVE  /\ IsList(PlacesListed)
         /\ \A n \in DOMAIN PlacesListed : NoRow # PlaceRow(PlacesListed[n], n)
<1>1. CASE ~ Answered
  BY <1>1, NothingIsListing, ListingIsList DEF PlacesListed
<1>2. CASE Answered
  <2>1. debounced \in Queries /\ PlacesListed = Found[debounced]
    BY <1>2 DEF Answered, PlacesListed, FieldInv, PlacesHeld
  <2>2. IsList(Found[debounced])
    BY <2>1, SearchAssumption, SeqIsList
  <2> QED BY <2>1, <2>2, SearchAssumption DEF PlaceRow
<1> QED BY <1>1, <1>2

LEMMA RowsAre ==
  ASSUME FieldInv
  PROVE  /\ IsList(RowsListed) /\ \A row \in ToSet(RowsListed) : IsRow(row)
         /\ Len(RowsListed) \in Nat /\ DOMAIN RowsListed = 1..Len(RowsListed)
         /\ RowsListed = <<>> => ToSet(MatchProjects) = {} /\ ToSet(PlacesListed) = {}
<1> DEFINE m == MatchProjects
           f == PlacesListed
           a == [n \in DOMAIN m |-> ProjectRow(m[n])]
           b == [n \in DOMAIN f |-> PlaceRow(f[n], n)]
<1>1. IsList(m) /\ ToSet(m) \subseteq Ids
  BY MatchesAre
<1>2. IsList(f) /\ \A n \in DOMAIN f : NoRow # PlaceRow(f[n], n)
  BY PlacesAre
<1>3. RowsListed = a \o b
  BY DEF RowsListed
<1> HIDE DEF m, f
<1>4. IsList(a) /\ IsList(b)
  <2>1. PICK M \in Nat : DOMAIN m = 1..M
    BY <1>1 DEF IsList
  <2>2. PICK N \in Nat : DOMAIN f = 1..N
    BY <1>2 DEF IsList
  <2>3. a \in [1..M -> ToSet(a)] /\ b \in [1..N -> ToSet(b)]
    BY <2>1, <2>2 DEF ToSet
  <2> QED BY <2>3 DEF IsList
<1>5. \A row \in ToSet(a) : IsRow(row)
  <2>1. \A n \in DOMAIN m : m[n] \in Ids
    BY <1>1 DEF ToSet
  <2>2. \A p \in Ids : ProjectRow(p) # NoRow
    BY SearchAssumption DEF ProjectRow
  <2> QED BY <2>1, <2>2 DEF ToSet, IsRow
<1>6. \A row \in ToSet(b) : IsRow(row)
  BY <1>2 DEF ToSet, IsRow
<1>7. (ToSet(a) = {} => ToSet(m) = {}) /\ (ToSet(b) = {} => ToSet(f) = {})
  BY DEF ToSet
<1> HIDE DEF a, b
<1>8. /\ IsList(RowsListed) /\ ToSet(RowsListed) = ToSet(a) \cup ToSet(b)
      /\ Len(RowsListed) \in Nat /\ DOMAIN RowsListed = 1..Len(RowsListed)
  BY <1>3, <1>4, JoinedIs
<1>9. RowsListed = <<>> => ToSet(RowsListed) = {}
  BY NothingIsListing
<1> QED BY <1>5, <1>6, <1>7, <1>8, <1>9 DEF m, f

LEMMA ActiveIs ==
  ASSUME FieldInv
  PROVE  /\ ActiveIndex \in 0..Len(RowsListed)
         /\ ActiveIndex # 0 => /\ activeKey # NoRow /\ ActiveIndex \in DOMAIN RowsListed
                               /\ RowKey(RowsListed[ActiveIndex]) = activeKey
<1> DEFINE at == {n \in DOMAIN RowsListed : RowKey(RowsListed[n]) = activeKey}
<1>1. Len(RowsListed) \in Nat /\ DOMAIN RowsListed = 1..Len(RowsListed)
  BY RowsAre
<1>2. ActiveIndex = IF activeKey = NoRow \/ at = {} THEN 0 ELSE Min(at)
  BY DEF ActiveIndex
<1>3. ASSUME at # {} PROVE Min(at) \in at
  <2>1. at \in SUBSET Nat
    BY <1>1
  <2>2. \E n \in at : \A k \in at : n <= k
    <3> HIDE DEF at
    <3> QED BY <1>3, <2>1, LeastNatural
  <2> QED BY <2>2 DEF Min
<1> QED BY <1>1, <1>2, <1>3

LEMMA SteppedIs ==
  ASSUME NEW count \in Nat, NEW current \in 0..count, NEW delta \in {1, -1}
  PROVE  SteppedIndex(current, delta, count) \in 0..count
BY DEF SteppedIndex

LEMMA SameKeyIsSameEntry ==
  ASSUME NEW row, IsRow(row), NEW other, IsRow(other), RowKey(row) = RowKey(other)
  PROVE  SameEntry(row, other)
<1>1. \A p : ProjectRow(p).kind = "project" /\ RowKey(ProjectRow(p)) = <<"project", p>>
             /\ ProjectRow(p).project = p
  BY DEF ProjectRow, RowKey
<1>2. \A place, n : /\ PlaceRow(place, n).kind = "place" /\ PlaceRow(place, n).place = place
                    /\ PlaceRow(place, n).n = n
                    /\ RowKey(PlaceRow(place, n)) = <<"place", n, place.name>>
  BY DEF PlaceRow, RowKey
<1>3. other # NoRow
  BY DEF IsRow
<1>4. RowKey(row)[1] = row.kind /\ RowKey(other)[1] = other.kind
  BY <1>1, <1>2 DEF IsRow
<1>7. row.kind = other.kind
  BY <1>4
<1>5. CASE row.kind = "project"
  <2>1. PICK p : row = ProjectRow(p)
    BY <1>2, <1>5 DEF IsRow
  <2>2. PICK q : other = ProjectRow(q)
    BY <1>2, <1>4, <1>5 DEF IsRow
  <2>3. row.project = other.project
    BY <1>1, <2>1, <2>2
  <2>4. row.kind # "place"
    BY <1>5
  <2> QED BY <1>3, <1>7, <2>3, <2>4 DEF SameEntry
<1>6. CASE row.kind # "project"
  <2>1. PICK place, n : row = PlaceRow(place, n)
    BY <1>1, <1>6 DEF IsRow
  <2>2. PICK spot, k : other = PlaceRow(spot, k)
    BY <1>1, <1>4, <1>6 DEF IsRow
  <2>3. n = k /\ place.name = spot.name
    BY <1>2, <2>1, <2>2
  <2>4. row.n = other.n /\ row.place.name = other.place.name /\ row.kind = "place"
    BY <1>2, <2>1, <2>2, <2>3
  <2>5. row.kind # "project"
    BY <1>6
  <2> QED BY <1>3, <1>7, <2>4, <2>5 DEF SameEntry
<1> QED BY <1>5, <1>6

(* The field's own steps, and those of the map beside it *)
LEMMA PlacesKept == ASSUME FieldInv, UNCHANGED places PROVE PlacesHeld'
BY DEF FieldInv, PlacesHeld, IsQuery

LEMMA PlaceSet ==
  ASSUME FieldInv, NEW q \in Queries, NEW r, IsQuery(r), r.data \in {NoPlaces, Found[q]},
         places' = [places EXCEPT ![q] = r]
  PROVE  PlacesHeld'
BY DEF FieldInv, PlacesHeld, IsQuery

LEMMA AskingIs ==
  ASSUME FieldInv, Asking
  PROVE  debounced \in Queries /\ IsQuery(places[debounced]) /\ places[debounced].data = NoPlaces
BY DEF FieldInv, PlacesHeld, Asking, Pending, Waiting

LEMMA ArrowField == ASSUME FieldInv, NEW delta \in {1, -1}, Arrow(delta) PROVE FieldInv'
<1>1. PlacesHeld' /\ {query', debounced'} \subseteq Queries \cup {NoQuery}
  BY PlacesKept DEF Arrow, FieldInv
<1>2. CASE ~ ShowDropdown
  BY <1>1, <1>2 DEF Arrow, FieldInv
<1>3. CASE ShowDropdown
  <2> DEFINE next == SteppedIndex(ActiveIndex, delta, Len(RowsListed))
  <2>1. next \in 0..Len(RowsListed)
    BY ActiveIs, RowsAre, SteppedIs
  <2>2. /\ activeKey' = IF next = 0 THEN NoRow ELSE RowKey(RowsListed[next])
        /\ pointed' = IF next = 0 THEN NoRow ELSE RowsListed[next]
    BY <1>3 DEF Arrow
  <2> HIDE DEF next
  <2>3. next # 0 => next \in DOMAIN RowsListed
    BY <2>1, RowsAre
  <2>4. next # 0 => IsRow(RowsListed[next])
    BY <2>3, RowsAre DEF ToSet
  <2> QED BY <1>1, <2>2, <2>4 DEF FieldInv
<1> QED BY <1>2, <1>3

LEMMA FieldSteps == ASSUME FieldInv, InField PROVE FieldInv'
<1>1. CASE \E q \in Queries \cup {NoQuery} : Type(q)
  BY <1>1, PlacesKept DEF Type, FieldInv
<1>2. CASE Pause
  <2>1. CASE query = NoQuery
    BY <1>2, <2>1, PlacesKept DEF Pause, FieldInv
  <2>2. CASE query # NoQuery
    <3> DEFINE r == Observed(places[query], NoPlaces)
    <3>1. query \in Queries
      BY <2>2 DEF FieldInv
    <3>2. IsQuery(r) /\ r.data \in {NoPlaces, Found[query]}
      BY <3>1 DEF FieldInv, PlacesHeld, Observed, Query, IsQuery
    <3>3. places' = [places EXCEPT ![query] = r]
      BY <1>2, <2>2 DEF Pause, Asked
    <3> HIDE DEF r
    <3>4. PlacesHeld'
      BY <3>1, <3>2, <3>3, PlaceSet
    <3> QED BY <1>2, <3>4 DEF Pause, FieldInv
  <2> QED BY <2>1, <2>2
<1>3. CASE PlacesAnswered
  <2> DEFINE r == [places[debounced] EXCEPT !.data = Found[debounced]]
  <2>1. debounced \in Queries /\ IsQuery(places[debounced])
    BY <1>3, AskingIs DEF PlacesAnswered
  <2>2. IsQuery(r) /\ r.data = Found[debounced]
    BY <2>1 DEF IsQuery
  <2>3. places' = [places EXCEPT ![debounced] = r]
    BY <1>3 DEF PlacesAnswered
  <2> HIDE DEF r
  <2>4. PlacesHeld'
    BY <2>1, <2>2, <2>3, PlaceSet
  <2> QED BY <1>3, <2>4 DEF PlacesAnswered, FieldInv
<1>4. CASE PlacesFail
  <2> DEFINE r == [places[debounced] EXCEPT !.error = "failed"]
  <2>1. /\ debounced \in Queries /\ IsQuery(places[debounced])
        /\ places[debounced].data = NoPlaces
    BY <1>4, AskingIs DEF PlacesFail
  <2>2. IsQuery(r) /\ r.data = NoPlaces
    BY <2>1 DEF IsQuery
  <2>3. places' = [places EXCEPT ![debounced] = r]
    BY <1>4 DEF PlacesFail
  <2> HIDE DEF r
  <2>4. PlacesHeld'
    BY <2>1, <2>2, <2>3, PlaceSet
  <2> QED BY <1>4, <2>4 DEF PlacesFail, FieldInv
<1>5. CASE \E delta \in {1, -1} : Arrow(delta)
  BY <1>5, ArrowField
<1>6. CASE Escape \/ FocusOrBlur \/ ClearField
  BY <1>6, PlacesKept DEF Escape, FocusOrBlur, ClearField, FieldInv
<1>7. CASE Enter \/ \E n \in DOMAIN RowsListed : PressRow(n)
  BY <1>7, PlacesKept DEF Enter, PressRow, Take, FieldInv
<1>8. CASE GoOffline \/ HoldRetry
  BY <1>8, PlacesKept DEF GoOffline, HoldRetry, FieldInv
<1>9. CASE BackOnline
  <2>1. PICK unseen \in SUBSET (held \ {debounced}) :
          places' = [q \in Queries |->
            IF q \in unseen THEN [places[q] EXCEPT !.data = Found[q]]
            ELSE IF q = debounced THEN Observed(places[q], NoPlaces) ELSE places[q]]
    BY <1>9 DEF BackOnline
  <2>2. ASSUME NEW q \in Queries
        PROVE  IsQuery(places'[q]) /\ places'[q].data \in {NoPlaces, Found[q]}
    <3>1. IsQuery(places[q]) /\ places[q].data \in {NoPlaces, Found[q]}
      BY DEF FieldInv, PlacesHeld
    <3>2. /\ IsQuery([places[q] EXCEPT !.data = Found[q]])
          /\ [places[q] EXCEPT !.data = Found[q]].data = Found[q]
      BY <3>1 DEF IsQuery
    <3>3. /\ IsQuery(Observed(places[q], NoPlaces))
          /\ Observed(places[q], NoPlaces).data = places[q].data
      BY <3>1 DEF Observed, Query, IsQuery
    <3> QED BY <2>1, <3>1, <3>2, <3>3
  <2>3. DOMAIN places' = Queries
    BY <2>1
  <2>4. PlacesHeld'
    BY <2>2, <2>3 DEF PlacesHeld, IsQuery
  <2> QED BY <1>9, <2>4 DEF BackOnline, FieldInv
<1> QED BY <1>1, <1>2, <1>3, <1>4, <1>5, <1>6, <1>7, <1>8, <1>9 DEF InField

LEMMA SearchStepField == ASSUME FieldInv, [SearchNext]_allVars PROVE FieldInv'
<1>1. CASE UNCHANGED field
  BY <1>1, PlacesKept DEF FieldInv, field
<1> QED BY <1>1, FieldSteps DEF SearchNext, allVars

LEMMA FieldStarts == SearchInit => FieldInv
BY DEF SearchInit, FieldInv, PlacesHeld, IsQuery, Query

LEMMA FieldHolds == SearchSpec => []FieldInv
<1>1. FieldInv /\ [SearchNext]_allVars => FieldInv'
  BY SearchStepField
<1> QED BY <1>1, FieldStarts, PTL DEF SearchSpec

(* An empty menu says so of the query it was asked. *)
LEMMA NothingIsSo == ASSUME FieldInv PROVE SaysNothingOnlyOfNothing
<1> SUFFICES ASSUME NothingMatches, query \notin held
             PROVE  /\ places[query].data = <<>> /\ Found[query] = <<>>
                    /\ \A p \in ToSet(Named[query]) : p \notin DOMAIN ProjectsOf(list)
  BY DEF SaysNothingOnlyOfNothing
<1>1. /\ query # NoQuery /\ debounced = query /\ ~ Asking
      /\ places[query].error = "none" /\ RowsListed = <<>>
  BY DEF NothingMatches, ShowDropdown, Loading, PlacesFailed, Searchable, SettledQuery
<1>2. places[query].data # NoPlaces
  BY <1>1 DEF Asking, Pending, Waiting
<1>3. query \in Queries /\ places[query].data = Found[query]
  BY <1>1, <1>2 DEF FieldInv, PlacesHeld
<1>4. PlacesListed = Found[query]
  BY <1>1, <1>2, <1>3 DEF PlacesListed, Answered
<1>5. ToSet(MatchProjects) = {} /\ ToSet(Found[query]) = {}
  BY <1>1, <1>4, RowsAre
<1>6. Found[query] = <<>>
  <2>1. Found[query] \in Seq(ToSet(Found[query]))
    BY <1>3, SearchAssumption
  <2> QED BY <1>5, <2>1
<1>7. \A p \in ToSet(Named[query]) : p \notin DOMAIN ProjectsOf(list)
  BY <1>1, <1>5, MatchesAre
<1> QED BY <1>3, <1>6, <1>7

(* Where a row taken goes is what was highlighted, or pressed. *)
GoesWhere ==
  /\ pin' \notin {pin, NoPin} => SameEntry(pin', pointed')
  /\ selected' \notin {selected, NoProject} => SameEntry(ProjectRow(selected'), pointed')

LEMMA ChosenIs ==
  ASSUME NEW p, Choose(p) PROVE selected' \in {p, NoProject}
BY DEF Choose, Settles, Survives

LEMMA TakenGoes ==
  ASSUME NEW row, IsRow(row), Take(row), IsRow(pointed'), RowKey(row) = RowKey(pointed')
  PROVE  GoesWhere
<1>1. SameEntry(row, pointed')
  BY SameKeyIsSameEntry
<1>2. pin' \in {row, NoPin}
  BY DEF Take, PinFor
<1>3. CASE row.kind = "project"
  <2>1. selected' \in {row.project, NoProject}
    BY <1>3, ChosenIs DEF Take, FindProject
  <2>2. PICK p : row = ProjectRow(p)
    BY <1>3 DEF IsRow, PlaceRow
  <2>3. row.project = p
    BY <2>2 DEF ProjectRow
  <2> QED BY <1>1, <1>2, <2>1, <2>2, <2>3 DEF GoesWhere
<1>4. CASE row.kind # "project"
  <2>1. selected' = selected
    BY <1>4 DEF Take, vars, opened
  <2> QED BY <1>1, <1>2, <2>1 DEF GoesWhere
<1> QED BY <1>3, <1>4

LEMMA FieldGoes == ASSUME FieldInv, InField PROVE GoesWhere
<1>1. CASE Enter
  <2> DEFINE row == RowsListed[ActiveIndex]
  <2>1. /\ ActiveIndex # 0 /\ Take(row) /\ pointed' = pointed
    BY <1>1, ActiveIs DEF Enter
  <2>2. /\ activeKey # NoRow /\ ActiveIndex \in DOMAIN RowsListed /\ RowKey(row) = activeKey
    BY <2>1, ActiveIs
  <2>3. IsRow(row)
    BY <2>2, RowsAre DEF ToSet
  <2>4. IsRow(pointed) /\ RowKey(pointed) = activeKey
    BY <2>2 DEF FieldInv
  <2> HIDE DEF row
  <2> QED BY <2>1, <2>2, <2>3, <2>4, TakenGoes
<1>2. ASSUME NEW n \in DOMAIN RowsListed, PressRow(n) PROVE GoesWhere
  <2> DEFINE row == RowsListed[n]
  <2>1. Take(row) /\ pointed' = row /\ IsRow(row)
    BY <1>2, RowsAre DEF PressRow, ToSet
  <2> HIDE DEF row
  <2> QED BY <2>1, TakenGoes
<1>3. CASE \/ \E q \in Queries \cup {NoQuery} : Type(q)
           \/ Pause \/ PlacesAnswered \/ PlacesFail
           \/ GoOffline \/ HoldRetry \/ BackOnline
           \/ \E delta \in {1, -1} : Arrow(delta)
           \/ Escape \/ FocusOrBlur \/ ClearField
  <2>1. pin' \in {pin, NoPin} /\ selected' = selected
    BY <1>3 DEF Type, Pause, PlacesAnswered, PlacesFail, GoOffline, HoldRetry, BackOnline,
                Arrow, Escape, FocusOrBlur, ClearField, vars, opened
  <2> QED BY <2>1 DEF GoesWhere
<1> QED BY <1>1, <1>2, <1>3 DEF InField

LEMMA BesideGoes == ASSUME OnTheMap, UNCHANGED field PROVE GoesWhere
<1>1. pin' = pin
  BY DEF field
<1>2. CASE CloseCard
  BY <1>1, <1>2, ChosenIs DEF CloseCard, GoesWhere
<1>3. CASE ~ CloseCard
  <2>1. Stays
    BY <1>3, AnswersBound, PressesBound DEF OnTheMap, Answers
  <2>2. selected' \in {selected, NoProject}
    BY <2>1 DEF Stays, Settles, Survives
  <2> QED BY <1>1, <2>2 DEF GoesWhere
<1> QED BY <1>2, <1>3

LEMMA SearchStepGoes ==
  ASSUME FieldInv, [SearchNext]_allVars, habit = "field" PROVE GoesWhere
<1>1. CASE UNCHANGED allVars
  BY <1>1 DEF GoesWhere, allVars, vars, opened, field
<1> QED BY <1>1, FieldGoes, BesideGoes DEF SearchNext

(* The field means what it says, whatever is typed, paused over, answered    *)
(* late or not at all, and highlighted while the list moves (MapSearch.tsx). *)
THEOREM FieldTheorem == SearchSpec => FieldMeansWhatItSays
<1>1. FieldInv => SaysNothingOnlyOfNothing
  BY NothingIsSo
<1>2. /\ FieldInv /\ [SearchNext]_allVars
      => [habit = "field" =>
            /\ pin' \notin {pin, NoPin} => SameEntry(pin', pointed')
            /\ selected' \notin {selected, NoProject} =>
                 SameEntry(ProjectRow(selected'), pointed')]_allVars
  BY SearchStepGoes DEF GoesWhere
<1> QED BY <1>1, <1>2, FieldHolds, PTL
       DEF SearchSpec, FieldMeansWhatItSays, EnterTakesTheHighlighted

=============================================================================
