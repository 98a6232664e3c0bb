-------------------------- MODULE AuditChainProofs --------------------------
(***************************************************************************)
(* Proofs about AuditChain, for any number of pages, texts and requests.   *)
(*                                                                         *)
(* They rest on what a request may still rely on when it writes, whatever  *)
(* was committed since its reads: rows, evidence and audits only grow, a   *)
(* block and an eligibility once written stay, and a copy of a row differs *)
(* from the row in its gate only if another audit was committed since.     *)
(***************************************************************************)
EXTENDS AuditChain, SequenceTheorems, FiniteSetTheorems, TLAPS

-----------------------------------------------------------------------------
(* The links of an opportunity are summed over texts by a fold; what is    *)
(* proved of the sum is proved of a set of that size, one pair for each    *)
(* link.                                                                   *)

Pairs(of, S) == {p \in S \X (Nat \ {0}) : p[2] <= of[p[1]]}
Weight(of) == Cardinality(Pairs(of, Text))

\* The fold: g gives the sum over each set of texts.
Folds(g, of) ==
    g = [S \in SUBSET Text |->
            IF S = {} THEN 0
            ELSE of[CHOOSE x \in S : TRUE] + g[S \ {CHOOSE x \in S : TRUE}]]

LEMMA TotalIsFold == ASSUME NEW of PROVE Total(of) = (CHOOSE g : Folds(g, of))[Text]
  BY DEF Total, MapThenSumSet, MapThenFoldSet, Folds

LEMMA PairsStep ==
    ASSUME NEW of \in [Text -> Nat], NEW S \in SUBSET Text, NEW x \in S,
           IsFiniteSet(Pairs(of, S \ {x}))
    PROVE  /\ IsFiniteSet(Pairs(of, S))
           /\ Cardinality(Pairs(of, S)) = of[x] + Cardinality(Pairs(of, S \ {x}))
<1>1. PICK T : T = {x} \X (1..of[x])
  OBVIOUS
<1>2. IsFiniteSet(T) /\ Cardinality(T) = of[x]
  <2>1. of[x] \in Nat
    OBVIOUS
  <2>2. IsFiniteSet({x}) /\ Cardinality({x}) = 1
    BY FS_Singleton
  <2>3. IsFiniteSet(1..of[x]) /\ Cardinality(1..of[x]) = of[x]
    BY <2>1, FS_Interval
  <2>4. IsFiniteSet(T) /\ Cardinality(T) = Cardinality({x}) * Cardinality(1..of[x])
    BY <1>1, <2>2, <2>3, FS_Product
  <2>5. QED
    BY <2>1, <2>2, <2>3, <2>4
<1>3. PICK R : R = Pairs(of, S \ {x})
  OBVIOUS
<1>4. Pairs(of, S) = R \cup T
  <2>1. \A p \in Pairs(of, S) : p \in R \/ p \in T
    BY <1>1, <1>3 DEF Pairs
  <2>2. \A p \in R \cup T : p \in Pairs(of, S)
    BY <1>1, <1>3 DEF Pairs
  <2>3. QED
    BY <2>1, <2>2
<1>5. R \cap T = {}
  BY <1>1, <1>3 DEF Pairs
<1>6. IsFiniteSet(R \cup T) /\ Cardinality(R \cup T) = Cardinality(R) + Cardinality(T) - Cardinality({})
  <2>1. IsFiniteSet(R) /\ IsFiniteSet(T)
    BY <1>2, <1>3
  <2>2. /\ IsFiniteSet(R \cup T)
        /\ Cardinality(R \cup T) = Cardinality(R) + Cardinality(T) - Cardinality(R \cap T)
    BY <2>1, FS_Union
  <2>3. QED
    BY <1>5, <2>2
<1>7. Cardinality({}) = 0 /\ Cardinality(R) \in Nat /\ of[x] \in Nat
  <2>1. IsFiniteSet(R)
    BY <1>3
  <2>2. Cardinality(R) \in Nat
    BY <2>1, FS_CardinalityType
  <2>3. Cardinality({}) = 0
    BY FS_EmptySet
  <2>4. of[x] \in Nat
    OBVIOUS
  <2>5. QED
    BY <2>2, <2>3, <2>4
<1>8. QED
  BY <1>2, <1>3, <1>4, <1>6, <1>7

LEMMA PairsOfNone == ASSUME NEW of PROVE Pairs(of, {}) = {}
  BY DEF Pairs

\* Every set of subsets of Text that is not empty has a member none of whose proper
\* subsets is one.
LEMMA Smallest ==
    ASSUME NEW Bad \in SUBSET (SUBSET Text), Bad # {}
    PROVE  \E S \in Bad : \A U \in Bad : ~(U \subseteq S /\ U # S)
<1>1. IsWellFoundedOn(StrictSubsetOrdering(Text), FiniteSubsetsOf(Text))
  BY FS_StrictSubsetOrderingWellFounded
<1>2. \A S \in SUBSET Text : IsFiniteSet(S)
  BY ChainAssumption, FS_Subset
<1>3. Bad \subseteq FiniteSubsetsOf(Text)
  BY <1>2 DEF FiniteSubsetsOf
<1>4. PICK S \in Bad : \A U \in Bad : ~(<<U, S>> \in StrictSubsetOrdering(Text))
  BY <1>1, <1>3, WFMin
<1>5. ASSUME NEW U \in Bad, U \subseteq S, U # S PROVE FALSE
  <2>1. <<U, S>> \in (SUBSET Text) \X (SUBSET Text) /\ <<U, S>>[1] = U /\ <<U, S>>[2] = S
    OBVIOUS
  <2>2. <<U, S>> \in StrictSubsetOrdering(Text)
    BY <1>5, <2>1, Zenon DEF StrictSubsetOrdering
  <2>3. QED
    BY <1>4, <2>2
<1>6. QED
  BY <1>5

LEMMA PairsFinite ==
    ASSUME NEW of \in [Text -> Nat], NEW S \in SUBSET Text
    PROVE  IsFiniteSet(Pairs(of, S))
<1>1. PICK Bad : Bad = {T \in SUBSET Text : ~IsFiniteSet(Pairs(of, T))}
  OBVIOUS
<1>2. SUFFICES ASSUME Bad # {} PROVE FALSE
  BY <1>1
<1>3. PICK T \in Bad : \A U \in Bad : ~(U \subseteq T /\ U # T)
  BY <1>1, <1>2, Smallest
<1>4. T \in SUBSET Text /\ ~IsFiniteSet(Pairs(of, T))
  BY <1>1
<1>5. PICK x \in T : TRUE
  BY <1>4, PairsOfNone, FS_EmptySet
<1>6. IsFiniteSet(Pairs(of, T \ {x}))
  BY <1>1, <1>3, <1>4, <1>5
<1>7. QED
  BY <1>4, <1>5, <1>6, PairsStep

LEMMA FoldStep ==
    ASSUME NEW of, NEW g, Folds(g, of), NEW S \in SUBSET Text
    PROVE  /\ S = {} => g[S] = 0
           /\ S # {} => \E x \in S : g[S] = of[x] + g[S \ {x}]
<1>1. PICK x : x = CHOOSE y \in S : TRUE
  OBVIOUS
<1>2. S # {} => x \in S
  BY <1>1
<1>3. g[S] = IF S = {} THEN 0
             ELSE of[CHOOSE y \in S : TRUE] + g[S \ {CHOOSE y \in S : TRUE}]
  BY DEF Folds
<1>4. g[S] = IF S = {} THEN 0 ELSE of[x] + g[S \ {x}]
  BY <1>1, <1>3
<1>5. QED
  BY <1>2, <1>4

LEMMA FoldCounts ==
    ASSUME NEW of \in [Text -> Nat], NEW g, Folds(g, of)
    PROVE  g[Text] = Weight(of)
<1>1. PICK Bad : Bad = {T \in SUBSET Text : g[T] # Cardinality(Pairs(of, T))}
  OBVIOUS
<1>2. SUFFICES ASSUME Bad # {} PROVE FALSE
  BY <1>1 DEF Weight
<1>3. PICK T \in Bad : \A U \in Bad : ~(U \subseteq T /\ U # T)
  BY <1>1, <1>2, Smallest
<1>4. T \in SUBSET Text /\ g[T] # Cardinality(Pairs(of, T))
  BY <1>1
<1>5. T # {}
  BY <1>4, PairsOfNone, FS_EmptySet, FoldStep
<1>6. PICK x \in T : g[T] = of[x] + g[T \ {x}]
  BY <1>4, <1>5, FoldStep
<1>7. g[T \ {x}] = Cardinality(Pairs(of, T \ {x}))
  BY <1>1, <1>3, <1>4, <1>6
<1>8. IsFiniteSet(Pairs(of, T \ {x}))
  BY <1>4, PairsFinite
<1>9. QED
  BY <1>4, <1>6, <1>7, <1>8, PairsStep

LEMMA FoldExists == ASSUME NEW of \in [Text -> Nat] PROVE \E g : Folds(g, of)
<1>1. PICK g : g = [S \in SUBSET Text |-> Cardinality(Pairs(of, S))]
  OBVIOUS
<1>2. \A S \in SUBSET Text :
        g[S] = IF S = {} THEN 0
               ELSE of[CHOOSE x \in S : TRUE] + g[S \ {CHOOSE x \in S : TRUE}]
  <2>1. SUFFICES ASSUME NEW S \in SUBSET Text
                 PROVE  g[S] = IF S = {} THEN 0
                               ELSE of[CHOOSE x \in S : TRUE] + g[S \ {CHOOSE x \in S : TRUE}]
    OBVIOUS
  <2>2. PICK x : x = CHOOSE y \in S : TRUE
    OBVIOUS
  <2>3. CASE S = {}
    BY <1>1, <2>3, PairsOfNone, FS_EmptySet
  <2>4. CASE S # {}
    <3>1. x \in S
      BY <2>2, <2>4
    <3>2. Cardinality(Pairs(of, S)) = of[x] + Cardinality(Pairs(of, S \ {x}))
      BY <3>1, PairsStep, PairsFinite
    <3>3. g[S] = of[x] + g[S \ {x}]
      BY <1>1, <3>2
    <3>4. QED
      BY <2>2, <2>4, <3>3
  <2>5. QED
    BY <2>3, <2>4
<1>3. g = [S \in SUBSET Text |-> g[S]]
  BY <1>1
<1>4. Folds(g, of)
  BY <1>2, <1>3 DEF Folds
<1>5. QED
  BY <1>4

LEMMA TotalIsWeight ==
    ASSUME NEW of \in [Text -> Nat]
    PROVE  Total(of) = Weight(of) /\ Weight(of) \in Nat
<1>1. PICK g : g = CHOOSE h : Folds(h, of)
  OBVIOUS
<1>2. Folds(g, of)
  BY <1>1, FoldExists, Zenon
<1>3. Total(of) = g[Text]
  BY <1>1, TotalIsFold
<1>4. Weight(of) \in Nat
  BY PairsFinite, FS_CardinalityType DEF Weight
<1>5. QED
  BY <1>2, <1>3, <1>4, FoldCounts

\* An audit that passes has found two texts.
TwoTexts(of) == \E t, u \in Text : t # u /\ of[t] > 0 /\ of[u] > 0
Repeats(of) == \E t \in Text : of[t] > 1

LEMMA ManyLinksManyTexts ==
    ASSUME NEW of \in [Text -> Nat], \E t \in Text : of[t] > 0, ~Repeats(of), Weight(of) # 1
    PROVE  TwoTexts(of)
<1>1. PICK t \in Text : of[t] > 0
  OBVIOUS
<1>2. SUFFICES ASSUME ~TwoTexts(of) PROVE FALSE
  OBVIOUS
<1>3. of[t] = 1 /\ \A u \in Text : of[u] \in Nat /\ (u # t => of[u] = 0)
  BY <1>1, <1>2 DEF TwoTexts, Repeats
<1>4. \A p \in Pairs(of, Text) : p = <<t, 1>>
  BY <1>3 DEF Pairs
<1>5. <<t, 1>> \in Pairs(of, Text)
  BY <1>3 DEF Pairs
<1>6. Pairs(of, Text) = {<<t, 1>>}
  BY <1>4, <1>5
<1>7. QED
  BY <1>6, FS_Singleton DEF Weight

\* What a run links to an opportunity: one more for each source, under what it says.
About(found, t) == {p \in DOMAIN found : found[p][1] = t}

LEMMA LinkedGrows ==
    ASSUME NEW of \in [Text -> Nat], NEW D \in SUBSET Page, NEW found \in [D -> Source],
           NEW more, more = [t \in Text |-> of[t] + Cardinality(About(found, t))]
    PROVE  /\ more \in [Text -> Nat]
           /\ \A t \in Text : of[t] <= more[t]
           /\ Weight(of) + Cardinality(D) <= Weight(more)
           /\ D # {} => \E t \in Text : more[t] > 0
<1>1. IsFiniteSet(D) /\ Cardinality(D) \in Nat
  BY ChainAssumption, FS_Subset, FS_CardinalityType
<1>2. \A t \in Text : /\ About(found, t) \subseteq D
                      /\ IsFiniteSet(About(found, t)) /\ Cardinality(About(found, t)) \in Nat
  BY <1>1, FS_Subset, FS_CardinalityType DEF About
<1>3. more \in [Text -> Nat] /\ \A t \in Text : of[t] <= more[t]
  BY <1>2
<1>4. PICK N : N = Pairs(more, Text) \ Pairs(of, Text)
  OBVIOUS
<1>5. IsFiniteSet(N) /\ Cardinality(N) = Weight(more) - Weight(of)
  <2>1. Pairs(of, Text) \subseteq Pairs(more, Text)
    BY <1>3 DEF Pairs
  <2>2. Pairs(more, Text) \cap Pairs(of, Text) = Pairs(of, Text)
    BY <2>1
  <2>3. IsFiniteSet(Pairs(more, Text))
    BY <1>3, PairsFinite
  <2>4. IsFiniteSet(N)
    BY <1>4, <2>3, FS_Difference
  <2>5. Cardinality(N) = Cardinality(Pairs(more, Text)) - Cardinality(Pairs(more, Text) \cap Pairs(of, Text))
    BY <1>4, <2>3, FS_Difference
  <2>6. QED
    BY <2>2, <2>4, <2>5 DEF Weight
\* The sources of one text are numbered.
<1>6. PICK F : F = [t \in Text |-> CHOOSE f : f \in Injection(About(found, t), 1..Cardinality(About(found, t)))]
  OBVIOUS
<1>7. \A t \in Text : F[t] \in Injection(About(found, t), 1..Cardinality(About(found, t)))
  <2>1. SUFFICES ASSUME NEW t \in Text
                 PROVE  F[t] \in Injection(About(found, t), 1..Cardinality(About(found, t)))
    OBVIOUS
  <2>2. PICK n : n = Cardinality(About(found, t))
    OBVIOUS
  <2>3. n \in Nat /\ IsFiniteSet(About(found, t)) /\ IsFiniteSet(1..n) /\ Cardinality(1..n) = n
    BY <1>2, <2>2, FS_Interval
  <2>4. ExistsBijection(About(found, t), 1..n)
    BY <2>2, <2>3, FS_SameCardinalityBij
  <2>5. \E f : f \in Injection(About(found, t), 1..n)
    BY <2>4 DEF ExistsBijection, Bijection
  <2>6. QED
    BY <1>6, <2>2, <2>5, Zenon
<1>8. \A t \in Text : \A p \in About(found, t) :
        /\ F[t][p] \in 1..Cardinality(About(found, t))
        /\ \A q \in About(found, t) : F[t][p] = F[t][q] => p = q
  BY <1>7 DEF Injection, IsInjective
<1>9. PICK h : h = [p \in D |-> <<found[p][1], of[found[p][1]] + F[found[p][1]][p]>>]
  OBVIOUS
<1>10. \A p \in D : /\ found[p][1] \in Text /\ p \in About(found, found[p][1])
                    /\ h[p][1] = found[p][1] /\ h[p][2] = of[found[p][1]] + F[found[p][1]][p]
                    /\ h[p] \in N
  <2>1. SUFFICES ASSUME NEW p \in D
                 PROVE  /\ found[p][1] \in Text /\ p \in About(found, found[p][1])
                        /\ h[p][1] = found[p][1] /\ h[p][2] = of[found[p][1]] + F[found[p][1]][p]
                        /\ h[p] \in N
    OBVIOUS
  <2>2. PICK t : t = found[p][1]
    OBVIOUS
  <2>3. t \in Text /\ p \in About(found, t)
    BY <2>2 DEF About, Source
  <2>4. PICK i : i = F[t][p]
    OBVIOUS
  <2>5. i \in 1..Cardinality(About(found, t)) /\ Cardinality(About(found, t)) \in Nat /\ of[t] \in Nat
    BY <1>2, <1>8, <2>3, <2>4
  <2>6. more[t] = of[t] + Cardinality(About(found, t))
    BY <2>3
  <2>7. h[p] = <<t, of[t] + i>> /\ of[t] + i \in Nat \ {0} /\ of[t] + i <= more[t] /\ ~(of[t] + i <= of[t])
    BY <1>9, <2>2, <2>4, <2>5, <2>6
  <2>8. h[p] \in N
    BY <1>4, <2>3, <2>7 DEF Pairs
  <2>9. QED
    BY <2>2, <2>3, <2>4, <2>7, <2>8
<1>11. \A p, q \in D : h[p] = h[q] => p = q
  <2>1. SUFFICES ASSUME NEW p \in D, NEW q \in D, h[p] = h[q] PROVE p = q
    OBVIOUS
  <2>2. PICK t : t = found[p][1]
    OBVIOUS
  <2>3. t = found[q][1] /\ t \in Text /\ p \in About(found, t) /\ q \in About(found, t)
    BY <1>10, <2>1, <2>2
  <2>4. of[t] + F[t][p] = of[t] + F[t][q] /\ of[t] \in Nat /\ Cardinality(About(found, t)) \in Nat
    BY <1>2, <1>10, <2>1, <2>2, <2>3
  <2>5. F[t][p] \in 1..Cardinality(About(found, t)) /\ F[t][q] \in 1..Cardinality(About(found, t))
    BY <1>8, <2>3
  <2>6. F[t][p] = F[t][q]
    BY <2>4, <2>5
  <2>7. QED
    BY <1>8, <2>3, <2>6
<1>12. h \in Injection(D, N)
  BY <1>9, <1>10, <1>11 DEF Injection, IsInjective
<1>13. Cardinality(D) <= Cardinality(N)
  BY <1>5, <1>12, FS_Injection
<1>14. Weight(of) \in Nat /\ Weight(more) \in Nat
  BY <1>3, TotalIsWeight
<1>15. ASSUME D # {} PROVE \E t \in Text : more[t] > 0
  <2>1. PICK p \in D : TRUE
    BY <1>15
  <2>2. PICK t : t = found[p][1]
    OBVIOUS
  <2>3. t \in Text /\ p \in About(found, t)
    BY <2>2 DEF About, Source
  <2>4. Cardinality(About(found, t)) \in Nat /\ Cardinality(About(found, t)) # 0
    BY <1>2, <2>3, FS_EmptySet
  <2>5. more[t] = of[t] + Cardinality(About(found, t)) /\ of[t] \in Nat
    BY <2>3
  <2>6. QED
    BY <2>3, <2>4, <2>5
<1>16. QED
  BY <1>1, <1>3, <1>5, <1>13, <1>14, <1>15

-----------------------------------------------------------------------------
(* The audits of a row, by checked_at.                                     *)

HasState(log, v) == \E i \in DOMAIN log : log[i].state = v
Counted(log, V) == Cardinality({i \in DOMAIN log : log[i].state \in V})
NotPass == {"pass_with_warning", "blocked"}
Ordered(log) == \A i \in DOMAIN log : log[i].saw < log[i].nth /\ log[i].nth <= Len(log)

\* What whoever has read a log may say of it later.
Later(log, new) ==
    /\ Len(log) <= Len(new)
    /\ Len(log) = Len(new) => new = log
    /\ \A i \in DOMAIN log : \E j \in DOMAIN new : new[j] = log[i]
    /\ \A j \in DOMAIN new : new[j].nth > Len(log) \/ \E i \in DOMAIN log : log[i] = new[j]
    /\ \A V \in {{"pass"}, {"blocked"}, NotPass} : Counted(log, V) <= Counted(new, V)

\* a is inserted in log at p.
Placed(log, new, a, p) ==
    /\ p \in 1..Len(log) + 1
    /\ new \in Seq(Audit) /\ Len(new) = Len(log) + 1
    /\ new[p] = a
    /\ \A i \in 1..p - 1 : new[i] = log[i]
    /\ \A i \in p..Len(log) : new[i + 1] = log[i] /\ log[i].nth > a.saw

LEMMA InsertedPlaced ==
    ASSUME NEW log \in Seq(Audit), NEW a \in Audit, NEW new \in Inserted(log, a)
    PROVE  \E p \in Nat : Placed(log, new, a, p)
<1>1. PICK p \in 1..(Len(log) + 1) :
        new = InsertAt(log, p, a) /\ \A later \in p..Len(log) : log[later].nth > a.saw
  BY DEF Inserted
<1>2. PICK n : n = Len(log)
  OBVIOUS
<1>3. n \in Nat /\ p \in Nat /\ log \in [1..n -> Audit]
  BY <1>1, <1>2, LenProperties
<1>4. PICK before : before = SubSeq(log, 1, p - 1)
  OBVIOUS
<1>5. PICK after : after = SubSeq(log, p, n)
  OBVIOUS
<1>6. /\ before \in Seq(Audit) /\ Len(before) = p - 1 /\ \A i \in 1..p - 1 : before[i] = log[i]
  <2>1. before \in Seq(Audit) /\ Len(before) = p - 1
    BY <1>1, <1>2, <1>3, <1>4, SubSeqProperties
  <2>2. \A i \in 1..p - 1 : before[i] = log[i]
    BY <1>1, <1>2, <1>3, <1>4, SubSeqProperties
  <2>3. QED
    BY <2>1, <2>2
<1>7. /\ after \in Seq(Audit) /\ Len(after) = n + 1 - p
      /\ \A i \in 1..n + 1 - p : after[i] = log[p + i - 1]
  <2>1. after \in Seq(Audit) /\ Len(after) = n + 1 - p
    BY <1>1, <1>2, <1>3, <1>5, SubSeqProperties
  <2>2. \A i \in 1..n + 1 - p : after[i] = log[p + i - 1]
    BY <1>1, <1>2, <1>3, <1>5, SubSeqProperties
  <2>3. QED
    BY <2>1, <2>2
<1>8. new = (before \o <<a>>) \o after
  BY <1>1, <1>2, <1>4, <1>5 DEF InsertAt
<1>9. PICK mid : mid = before \o <<a>>
  OBVIOUS
<1>10. <<a>> \in Seq(Audit) /\ Len(<<a>>) = 1 /\ <<a>>[1] = a
  OBVIOUS
<1>11. /\ mid \in Seq(Audit) /\ Len(mid) = p
       /\ \A i \in 1..p : mid[i] = IF i <= p - 1 THEN before[i] ELSE <<a>>[i - (p - 1)]
  BY <1>3, <1>6, <1>9, <1>10, ConcatProperties
<1>12. new = mid \o after
  BY <1>8, <1>9
<1>13. /\ new \in Seq(Audit) /\ Len(new) = n + 1
       /\ \A i \in 1..n + 1 : new[i] = IF i <= p THEN mid[i] ELSE after[i - p]
  <2>1. Len(mid) + Len(after) = n + 1
    BY <1>3, <1>7, <1>11
  <2>2. /\ new \in Seq(Audit) /\ Len(new) = Len(mid) + Len(after)
        /\ \A i \in 1..Len(mid) + Len(after) : new[i] = IF i <= Len(mid) THEN mid[i] ELSE after[i - Len(mid)]
    BY <1>7, <1>11, <1>12, ConcatProperties
  <2>3. QED
    BY <1>11, <2>1, <2>2
<1>14. new[p] = a
  BY <1>1, <1>2, <1>3, <1>10, <1>11, <1>13
<1>15. \A i \in 1..p - 1 : new[i] = log[i]
  BY <1>1, <1>2, <1>3, <1>6, <1>11, <1>13
<1>16. \A i \in p..n : new[i + 1] = log[i]
  <2>1. SUFFICES ASSUME NEW i \in p..n PROVE new[i + 1] = log[i]
    OBVIOUS
  <2>2. i \in Nat /\ i + 1 \in 1..n + 1 /\ ~(i + 1 <= p) /\ i + 1 - p \in 1..n + 1 - p
    BY <1>3
  <2>3. new[i + 1] = after[i + 1 - p]
    BY <1>13, <2>2
  <2>4. after[i + 1 - p] = log[p + (i + 1 - p) - 1] /\ p + (i + 1 - p) - 1 = i
    BY <1>3, <1>7, <2>2
  <2>5. QED
    BY <2>3, <2>4
<1>17. Placed(log, new, a, p)
  BY <1>1, <1>2, <1>3, <1>13, <1>14, <1>15, <1>16 DEF Placed
<1>18. QED
  BY <1>3, <1>17

LEMMA SamePlace ==
    ASSUME NEW log \in Seq(Audit)
    PROVE  /\ Len(log) \in Nat /\ DOMAIN log = 1..Len(log)
           /\ \A i \in DOMAIN log : log[i] \in Audit
           /\ \A V : Counted(log, V) \in Nat /\ IsFiniteSet({i \in DOMAIN log : log[i].state \in V})
<1>1. Len(log) \in Nat /\ DOMAIN log = 1..Len(log) /\ \A i \in DOMAIN log : log[i] \in Audit
  BY LenProperties
<1>2. ASSUME NEW V
      PROVE  Counted(log, V) \in Nat /\ IsFiniteSet({i \in DOMAIN log : log[i].state \in V})
  <2>1. IsFiniteSet(DOMAIN log)
    BY <1>1, FS_Interval
  <2>2. IsFiniteSet({i \in DOMAIN log : log[i].state \in V})
    BY <2>1, FS_Subset
  <2>3. QED
    BY <2>2, FS_CardinalityType DEF Counted
<1>3. QED
  BY <1>1, <1>2

\* What is in a log after a is inserted.
LEMMA PlacedEntries ==
    ASSUME NEW log \in Seq(Audit), NEW a, NEW new, NEW p \in Nat, Placed(log, new, a, p)
    PROVE  /\ \A i \in DOMAIN log : \E j \in DOMAIN new : new[j] = log[i]
           /\ \E j \in DOMAIN new : new[j] = a
           /\ \A j \in DOMAIN new : new[j] = a \/ \E i \in DOMAIN log : log[i] = new[j]
<1>1. PICK n : n = Len(log)
  OBVIOUS
<1>2. n \in Nat /\ DOMAIN log = 1..n /\ DOMAIN new = 1..n + 1 /\ p \in 1..n + 1
  BY <1>1, SamePlace DEF Placed
<1>3. /\ new[p] = a /\ \A i \in 1..p - 1 : new[i] = log[i]
      /\ \A i \in p..n : new[i + 1] = log[i]
  BY <1>1 DEF Placed
<1>4. ASSUME NEW i \in 1..n PROVE \E j \in 1..n + 1 : new[j] = log[i]
  <2>1. CASE i \in 1..p - 1
    BY <1>2, <1>3, <2>1
  <2>2. CASE i \in p..n
    BY <1>2, <1>3, <2>2
  <2>3. QED
    BY <1>2, <2>1, <2>2
<1>5. ASSUME NEW j \in 1..n + 1 PROVE new[j] = a \/ \E i \in 1..n : log[i] = new[j]
  <2>1. CASE j \in 1..p - 1
    BY <1>2, <1>3, <2>1
  <2>2. CASE j > p
    <3>1. j - 1 \in p..n /\ j - 1 \in 1..n /\ (j - 1) + 1 = j
      BY <1>2, <2>2
    <3>2. QED
      BY <1>3, <3>1
  <2>3. CASE j = p
    BY <1>3, <2>3
  <2>4. QED
    BY <1>2, <2>1, <2>2, <2>3
<1>6. QED
  BY <1>2, <1>3, <1>4, <1>5

LEMMA PlacedCounts ==
    ASSUME NEW log \in Seq(Audit), NEW a, NEW new, NEW p \in Nat, Placed(log, new, a, p), NEW V
    PROVE  /\ Counted(log, V) <= Counted(new, V)
           /\ a.state \in V => Counted(log, V) + 1 <= Counted(new, V)
<1>1. PICK n : n = Len(log)
  OBVIOUS
<1>2. n \in Nat /\ DOMAIN log = 1..n /\ DOMAIN new = 1..n + 1 /\ p \in 1..n + 1 /\ new \in Seq(Audit)
  BY <1>1, SamePlace DEF Placed
<1>3. /\ new[p] = a /\ \A i \in 1..p - 1 : new[i] = log[i]
      /\ \A i \in p..n : new[i + 1] = log[i]
  BY <1>1 DEF Placed
<1>4. PICK S : S = {i \in DOMAIN log : log[i].state \in V}
  OBVIOUS
<1>5. PICK T : T = {i \in DOMAIN new : new[i].state \in V}
  OBVIOUS
<1>6. IsFiniteSet(S) /\ IsFiniteSet(T) /\ Counted(log, V) = Cardinality(S) /\ Counted(new, V) = Cardinality(T)
      /\ Cardinality(S) \in Nat /\ Cardinality(T) \in Nat
  BY <1>2, <1>4, <1>5, SamePlace DEF Counted
<1>7. PICK h : h = [i \in S |-> IF i < p THEN i ELSE i + 1]
  OBVIOUS
<1>8. PICK R : R = T \ {p}
  OBVIOUS
<1>9. \A i \in S : h[i] \in R
  <2>1. SUFFICES ASSUME NEW i \in S PROVE h[i] \in R
    OBVIOUS
  <2>2. i \in 1..n /\ log[i].state \in V
    BY <1>2, <1>4
  <2>3. CASE i < p
    <3>1. h[i] = i /\ i \in 1..p - 1 /\ i \in 1..n + 1 /\ i # p
      BY <1>2, <1>7, <2>2, <2>3
    <3>2. new[i] = log[i]
      BY <1>3, <3>1
    <3>3. QED
      BY <1>2, <1>5, <1>8, <2>2, <3>1, <3>2
  <2>4. CASE ~(i < p)
    <3>1. h[i] = i + 1 /\ i \in p..n /\ i + 1 \in 1..n + 1 /\ i + 1 # p
      BY <1>2, <1>7, <2>2, <2>4
    <3>2. new[i + 1] = log[i]
      BY <1>3, <3>1
    <3>3. QED
      BY <1>2, <1>5, <1>8, <2>2, <3>1, <3>2
  <2>5. QED
    BY <2>3, <2>4
<1>10. \A i, j \in S : h[i] = h[j] => i = j
  BY <1>2, <1>4, <1>7
<1>11. h \in Injection(S, R)
  BY <1>7, <1>9, <1>10 DEF Injection, IsInjective
<1>12. /\ IsFiniteSet(R) /\ Cardinality(R) = IF p \in T THEN Cardinality(T) - 1 ELSE Cardinality(T)
  BY <1>6, <1>8, FS_RemoveElement
<1>13. Cardinality(S) <= Cardinality(R)
  BY <1>11, <1>12, FS_Injection
<1>14. a.state \in V => p \in T
  BY <1>2, <1>3, <1>5
<1>15. QED
  BY <1>6, <1>12, <1>13, <1>14

LEMMA LaterPlaced ==
    ASSUME NEW log \in Seq(Audit), NEW a, NEW new, NEW p \in Nat, Placed(log, new, a, p),
           a.nth = Len(log) + 1
    PROVE  Later(log, new)
<1>1. Len(log) \in Nat /\ Len(new) = Len(log) + 1
  BY SamePlace DEF Placed
<1>2. \A V \in {{"pass"}, {"blocked"}, NotPass} : Counted(log, V) <= Counted(new, V)
  BY PlacedCounts
<1>3. \A i \in DOMAIN log : \E j \in DOMAIN new : new[j] = log[i]
  BY PlacedEntries
<1>4. \A j \in DOMAIN new : new[j].nth > Len(log) \/ \E i \in DOMAIN log : log[i] = new[j]
  BY <1>1, PlacedEntries
<1>5. QED
  BY <1>1, <1>2, <1>3, <1>4 DEF Later

LEMMA LaterSame == ASSUME NEW log \in Seq(Audit) PROVE Later(log, log)
<1>1. Len(log) \in Nat /\ \A V : Counted(log, V) \in Nat
  BY SamePlace
<1>2. QED
  BY <1>1 DEF Later

LEMMA LaterMeans ==
    ASSUME NEW log, NEW new, Later(log, new)
    PROVE  /\ \A v : HasState(log, v) => HasState(new, v)
           /\ Passed(log) => Passed(new)
           /\ Overlapped(log) => Overlapped(new)
<1>1. \A i \in DOMAIN log : \E j \in DOMAIN new : new[j] = log[i]
  BY DEF Later
<1>2. QED
  BY <1>1 DEF HasState, Passed, Overlapped

\* An audit that overlapped no other comes last.
LEMMA PlacedLast ==
    ASSUME NEW log \in Seq(Audit), NEW a, NEW new, NEW p \in Nat, Placed(log, new, a, p),
           Ordered(log), a.nth = Len(log) + 1, a.saw \in Nat, ~Overlapped(new)
    PROVE  a.saw = Len(log) /\ ~Overlapped(log) /\ new # <<>> /\ Latest(new) = a.state
<1>1. PICK n : n = Len(log)
  OBVIOUS
<1>2. n \in Nat /\ DOMAIN log = 1..n /\ Len(new) = n + 1 /\ DOMAIN new = 1..n + 1 /\ p \in 1..n + 1
      /\ \A i \in DOMAIN log : log[i] \in Audit
  BY <1>1, SamePlace DEF Placed
<1>3. \E j \in DOMAIN new : new[j] = a
  BY PlacedEntries
<1>4. a.saw = n
  BY <1>1, <1>2, <1>3 DEF Overlapped
<1>5. ~Overlapped(log)
  BY LaterPlaced, LaterMeans
<1>6. p = n + 1
  <2>1. SUFFICES ASSUME p \in 1..n PROVE FALSE
    BY <1>2
  <2>2. log[p].nth \in Nat /\ log[p].nth <= n
    BY <1>1, <1>2, <2>1 DEF Ordered, Audit
  <2>3. \A i \in p..n : log[i].nth > a.saw
    BY <1>1 DEF Placed
  <2>4. log[p].nth > a.saw
    BY <1>2, <2>1, <2>3
  <2>5. QED
    BY <1>2, <1>4, <2>2, <2>4
<1>7. new[n + 1] = a
  BY <1>6 DEF Placed
<1>8. new # <<>>
  BY <1>2, <1>7
<1>9. Latest(new) = a.state
  BY <1>2, <1>7, <1>8 DEF Latest, Last
<1>10. QED
  BY <1>1, <1>4, <1>5, <1>8, <1>9

LEMMA LatestIsThere ==
    ASSUME NEW log \in Seq(Audit)
    PROVE  /\ Latest(log) \in Gate
           /\ Latest(log) = "not_run" <=> log = <<>>
           /\ Latest(log) # "not_run" => HasState(log, Latest(log))
           /\ Latest(log) = "pass" => Passed(log)
<1>1. CASE log = <<>>
  BY <1>1 DEF Latest, Gate
<1>2. CASE log # <<>>
  <2>1. Len(log) \in Nat /\ Len(log) \in DOMAIN log /\ log[Len(log)] \in Audit
    BY <1>2, LenProperties, EmptySeq
  <2>2. Latest(log) = log[Len(log)].state
    BY <1>2 DEF Latest, Last
  <2>3. log[Len(log)].state \in Verdict
    BY <2>1 DEF Audit
  <2>4. HasState(log, Latest(log))
    BY <2>1, <2>2 DEF HasState
  <2>5. QED
    BY <1>2, <2>1, <2>2, <2>3, <2>4 DEF Gate, Verdict, Passed
<1>3. QED
  BY <1>1, <1>2

-----------------------------------------------------------------------------
(* The inductive invariant: what holds of a row, its evidence and its      *)
(* audits, and what a request may rely on until it writes.                 *)

\* An opportunity o, found with the links of, and audited in log.
FoundOK(o, of, log) ==
    /\ \E t \in Text : of[t] > 0
    /\ o.source_count <= Weight(of)
    /\ o.audited <= Len(log)
    /\ o.blocked <= Counted(log, {"blocked"})
    /\ o.gate = "not_run" <=> log = <<>>
    /\ o.gate # "not_run" => HasState(log, o.gate)
    /\ ~Overlapped(log) => o.gate = Latest(log)
    /\ o.strategist = "eligible" => Passed(log)
    /\ HasState(log, "blocked") => o.status = "blocked" /\ Repeats(of)

AuditsOK(of, log) ==
    /\ Ordered(log)
    /\ Passed(log) => TwoTexts(of)
    /\ \A i, j \in DOMAIN log :
        log[i].state = "blocked" /\ log[i].nth <= log[j].saw => log[j].state = "blocked"

\* The brief b of f, audited in log, where those of O have been overtaken.
BriefOK(b, log, f, O) ==
    /\ b.passed <= Counted(log, {"pass"})
    /\ b.blocked <= Counted(log, NotPass)
    /\ b.gate # "not_run" => HasState(log, b.gate)
    /\ b.handoff = "eligible" => Passed(log)
    /\ Passed(log) => b.quality = "sound"
    /\ ~Overlapped(log) =>
        /\ b.gate = Latest(log)
        /\ Latest(log) = "pass" => b.handoff = "eligible"
        /\ b.handoff = "eligible" /\ f \notin O => Latest(log) = "pass"

\* c is a copy of a row that is now o.
CopyOf(c, o, of, log) ==
    /\ o # NoRow
    /\ c.source_count <= Weight(of)
    /\ c.audited <= Len(log)
    /\ c.blocked <= Counted(log, {"blocked"})
    /\ c.status = "blocked" => o.status = "blocked"
    /\ c.strategist = "eligible" => o.strategist = "eligible"
    /\ c.gate # "not_run" => o.gate # "not_run"

\* What the auditor that is at work in t has seen.
AuditStands(t, o, of, log) ==
    /\ t.saw <= Len(log)
    /\ t.saw = Len(log) => t.copy.gate = o.gate
    /\ t.verdict = "pass" => TwoTexts(of)
    /\ t.verdict = "blocked" => Repeats(of)
    /\ \A i \in DOMAIN log : log[i].state = "blocked" /\ log[i].nth <= t.saw => t.verdict = "blocked"

BriefCopyOf(c, b, log) ==
    /\ b # NoRow
    /\ c.passed <= Counted(log, {"pass"})
    /\ c.blocked <= Counted(log, NotPass)

\* c was copied when there were n audits.
HandoffCopied(c, n, b, log, f, O) ==
    n = Len(log) /\ ~Overlapped(log) =>
        /\ c.handoff = "eligible" => b.handoff = "eligible"
        /\ f \notin O => c.handoff = b.handoff

BriefAuditStands(t, b, log, f, O) ==
    /\ t.saw <= Len(log)
    /\ t.saw = Len(log) /\ ~Overlapped(log) => t.copy.gate = b.gate
    /\ HandoffCopied(t.copy, t.saw, b, log, f, O)
    /\ t.verdict = "pass" => b.quality = "sound"

LoadStands(t, b, log, f, O) ==
    /\ t.saw <= Len(log)
    /\ HandoffCopied(t.copy, t.saw, b, log, f, O)

\* A copy that was taken after the audit that was read, without overlaps, shows a handoff.
HandOverStands(t, log, f, O) ==
    /\ Passed(log)
    /\ t.saw <= t.read /\ t.read <= Len(log)
    /\ t.read = Len(log) => Latest(log) = "pass"
    /\ t.saw = t.read /\ ~Overlapped(log) /\ f \notin O => t.copy.handoff = "eligible"

Copied(k, c) == CopyOf(c, opportunities[k], evidence[k].of, research_audits[k])
BriefCopied(f, c) == BriefCopyOf(c, strategy_briefs[f], strategy_audits[f])

RequestStands(t) ==
    /\ t.op = "record" /\ t.copy # NoRow => DOMAIN t.found # {} /\ Copied(DOMAIN t.found, t.copy)
    /\ t.op = "audit" =>
        /\ Copied(t.on, t.copy)
        /\ AuditStands(t, opportunities[t.on], evidence[t.on].of, research_audits[t.on])
    /\ t.op \in {"admit", "brief"} =>
        \A k \in t.on : Copied(k, t.copy[k]) /\ Passed(research_audits[k])
    /\ t.op = "audit_brief" =>
        /\ BriefCopied(t.on, t.copy)
        /\ BriefAuditStands(t, strategy_briefs[t.on], strategy_audits[t.on], t.on, overtaken)
    /\ t.op = "load" =>
        /\ BriefCopied(t.on, t.copy)
        /\ LoadStands(t, strategy_briefs[t.on], strategy_audits[t.on], t.on, overtaken)
    /\ t.op = "hand_over" =>
        /\ BriefCopied(t.on, t.copy)
        /\ HandOverStands(t, strategy_audits[t.on], t.on, overtaken)

ResearchInv ==
    \A k \in Key :
        /\ opportunities[k] = NoRow => research_audits[k] = <<>>
        /\ opportunities[k] # NoRow => FoundOK(opportunities[k], evidence[k].of, research_audits[k])
        /\ AuditsOK(evidence[k].of, research_audits[k])

StrategyInv ==
    \A f \in Fingerprint :
        /\ strategy_briefs[f] = NoRow => strategy_audits[f] = <<>>
        /\ strategy_briefs[f] # NoRow =>
            /\ BriefOK(strategy_briefs[f], strategy_audits[f], f, overtaken)
            /\ \A k \in f : opportunities[k] # NoRow /\ opportunities[k].strategist = "eligible"
        /\ Ordered(strategy_audits[f])

RunsCount ==
    /\ Cardinality(Found) <= research_runs["succeeded"]
    /\ Cardinality(Written) = strategy_runs["succeeded"]

ChainInv ==
    /\ TypeOK
    /\ ResearchInv
    /\ StrategyInv
    /\ \A s \in Session : RequestStands(tx[s])
    /\ RunsCount

-----------------------------------------------------------------------------
(* What a request relies on goes on as rows, evidence and audits grow.     *)

\* What may become of an opportunity, its links and its audits in a step.
RowLater(o, o2, of, of2, log, log2) ==
    /\ Weight(of) <= Weight(of2)
    /\ \A t \in Text : of[t] <= of2[t]
    /\ Later(log, log2)
    /\ o # NoRow =>
        /\ o2 # NoRow
        /\ o.status = "blocked" => o2.status = "blocked"
        /\ o.strategist = "eligible" => o2.strategist = "eligible"
        /\ o.gate # "not_run" => o2.gate # "not_run"
        /\ log = log2 => o2.gate = o.gate

\* What may become of a brief and its audits.
BriefLater(b, b2, log, log2, f, O, O2) ==
    /\ Later(log, log2)
    /\ f \in O => f \in O2
    /\ b # NoRow =>
        /\ b2 # NoRow
        /\ b2.quality = b.quality
        /\ log = log2 /\ ~Overlapped(log) =>
            /\ b2.gate = b.gate
            /\ b.handoff = "eligible" => b2.handoff = "eligible"
            /\ f \notin O2 => b2.handoff = b.handoff

Moves ==
    /\ \A k \in Key : RowLater(opportunities[k], opportunities'[k], evidence[k].of, evidence'[k].of,
                               research_audits[k], research_audits'[k])
    /\ \A f \in Fingerprint : BriefLater(strategy_briefs[f], strategy_briefs'[f],
                                         strategy_audits[f], strategy_audits'[f],
                                         f, overtaken, overtaken')

LEMMA TextsStay ==
    ASSUME NEW of \in [Text -> Nat], NEW of2 \in [Text -> Nat], \A t \in Text : of[t] <= of2[t]
    PROVE  /\ TwoTexts(of) => TwoTexts(of2)
           /\ Repeats(of) => Repeats(of2)
<1>1. \A t \in Text : of[t] \in Nat /\ of2[t] \in Nat
  OBVIOUS
<1>2. QED
  BY <1>1 DEF TwoTexts, Repeats

LEMMA CopyStays ==
    ASSUME NEW of \in [Text -> Nat], NEW of2 \in [Text -> Nat], NEW log \in Seq(Audit),
           NEW log2 \in Seq(Audit), NEW o, NEW o2, RowLater(o, o2, of, of2, log, log2),
           NEW c \in Opportunity, CopyOf(c, o, of, log)
    PROVE  CopyOf(c, o2, of2, log2)
<1>1. c.source_count \in Nat /\ c.audited \in Nat /\ c.blocked \in Nat
  BY DEF Opportunity
<1>2. Weight(of) \in Nat /\ Weight(of2) \in Nat
  BY TotalIsWeight
<1>3. Len(log) \in Nat /\ Len(log2) \in Nat
      /\ Counted(log, {"blocked"}) \in Nat /\ Counted(log2, {"blocked"}) \in Nat
  BY SamePlace
<1>4. Len(log) <= Len(log2) /\ Counted(log, {"blocked"}) <= Counted(log2, {"blocked"})
  BY DEF RowLater, Later
<1>5. Weight(of) <= Weight(of2) /\ o # NoRow /\ o2 # NoRow
  BY DEF RowLater, CopyOf
<1>6. c.source_count <= Weight(of2) /\ c.audited <= Len(log2) /\ c.blocked <= Counted(log2, {"blocked"})
  BY <1>1, <1>2, <1>3, <1>4, <1>5 DEF CopyOf
<1>7. QED
  BY <1>5, <1>6 DEF RowLater, CopyOf

LEMMA AuditStays ==
    ASSUME NEW of \in [Text -> Nat], NEW of2 \in [Text -> Nat], NEW log \in Seq(Audit),
           NEW log2 \in Seq(Audit), NEW o, NEW o2, RowLater(o, o2, of, of2, log, log2), o # NoRow,
           NEW t, t.saw \in Nat, AuditStands(t, o, of, log)
    PROVE  AuditStands(t, o2, of2, log2)
<1>1. /\ Len(log) \in Nat /\ Len(log2) \in Nat /\ t.saw <= Len(log) /\ Len(log) <= Len(log2)
      /\ Len(log) = Len(log2) => log2 = log
  BY SamePlace DEF AuditStands, RowLater, Later
<1>2. t.saw <= Len(log2)
  BY <1>1
<1>3. t.saw = Len(log2) => t.copy.gate = o2.gate
  BY <1>1 DEF AuditStands, RowLater
<1>4. (t.verdict = "pass" => TwoTexts(of2)) /\ (t.verdict = "blocked" => Repeats(of2))
  BY TextsStay DEF AuditStands, RowLater
<1>5. ASSUME NEW i \in DOMAIN log2, log2[i].state = "blocked", log2[i].nth <= t.saw
      PROVE  t.verdict = "blocked"
  <2>1. log2[i].nth \in Nat
    BY SamePlace DEF Audit
  <2>2. ~(log2[i].nth > Len(log))
    BY <1>1, <1>5, <2>1
  <2>3. PICK j \in DOMAIN log : log[j] = log2[i]
    BY <2>2 DEF RowLater, Later
  <2>4. QED
    BY <1>5, <2>3 DEF AuditStands
<1>6. QED
  BY <1>2, <1>3, <1>4, <1>5 DEF AuditStands

LEMMA BriefCopyStays ==
    ASSUME NEW log \in Seq(Audit), NEW log2 \in Seq(Audit), NEW b, NEW b2, NEW f, NEW O, NEW O2,
           BriefLater(b, b2, log, log2, f, O, O2),
           NEW c \in Brief, BriefCopyOf(c, b, log)
    PROVE  BriefCopyOf(c, b2, log2)
<1>1. c.passed \in Nat /\ c.blocked \in Nat
  BY DEF Brief
<1>2. /\ Counted(log, {"pass"}) \in Nat /\ Counted(log2, {"pass"}) \in Nat
      /\ Counted(log, NotPass) \in Nat /\ Counted(log2, NotPass) \in Nat
  BY SamePlace
<1>3. Counted(log, {"pass"}) <= Counted(log2, {"pass"}) /\ Counted(log, NotPass) <= Counted(log2, NotPass)
  BY DEF BriefLater, Later
<1>4. QED
  BY <1>1, <1>2, <1>3 DEF BriefCopyOf, BriefLater

LEMMA HandoffStays ==
    ASSUME NEW log \in Seq(Audit), NEW log2 \in Seq(Audit), NEW b, NEW b2, NEW f, NEW O, NEW O2,
           BriefLater(b, b2, log, log2, f, O, O2), b # NoRow,
           NEW c, NEW n \in Nat, n <= Len(log), HandoffCopied(c, n, b, log, f, O)
    PROVE  /\ n <= Len(log2)
           /\ HandoffCopied(c, n, b2, log2, f, O2)
<1>1. /\ Len(log) \in Nat /\ Len(log2) \in Nat /\ Len(log) <= Len(log2)
      /\ Len(log) = Len(log2) => log2 = log
  BY SamePlace DEF BriefLater, Later
<1>2. n <= Len(log2)
  BY <1>1
<1>3. ASSUME n = Len(log2), ~Overlapped(log2)
      PROVE  /\ c.handoff = "eligible" => b2.handoff = "eligible"
             /\ f \notin O2 => c.handoff = b2.handoff
  <2>1. n = Len(log) /\ log2 = log
    BY <1>1, <1>3
  <2>2. /\ c.handoff = "eligible" => b.handoff = "eligible"
        /\ f \notin O => c.handoff = b.handoff
    BY <1>3, <2>1 DEF HandoffCopied
  <2>3. /\ f \in O => f \in O2
        /\ b.handoff = "eligible" => b2.handoff = "eligible"
        /\ f \notin O2 => b2.handoff = b.handoff
    BY <1>3, <2>1 DEF BriefLater
  <2>4. QED
    BY <2>2, <2>3
<1>4. QED
  BY <1>2, <1>3 DEF HandoffCopied

LEMMA BriefAuditStays ==
    ASSUME NEW log \in Seq(Audit), NEW log2 \in Seq(Audit), NEW b, NEW b2, NEW f, NEW O, NEW O2,
           BriefLater(b, b2, log, log2, f, O, O2),
           b # NoRow, NEW t, t.saw \in Nat, BriefAuditStands(t, b, log, f, O)
    PROVE  BriefAuditStands(t, b2, log2, f, O2)
<1>1. /\ Len(log) \in Nat /\ Len(log2) \in Nat /\ t.saw <= Len(log) /\ Len(log) <= Len(log2)
      /\ Len(log) = Len(log2) => log2 = log
  BY SamePlace DEF BriefAuditStands, BriefLater, Later
<1>2. t.saw = Len(log2) /\ ~Overlapped(log2) => t.copy.gate = b2.gate
  BY <1>1 DEF BriefAuditStands, BriefLater
<1>3. t.verdict = "pass" => b2.quality = "sound"
  BY DEF BriefAuditStands, BriefLater
<1>4. t.saw <= Len(log2) /\ HandoffCopied(t.copy, t.saw, b2, log2, f, O2)
  BY <1>1, HandoffStays DEF BriefAuditStands
<1>5. QED
  BY <1>2, <1>3, <1>4 DEF BriefAuditStands

LEMMA HandOverStays ==
    ASSUME NEW log \in Seq(Audit), NEW log2 \in Seq(Audit), NEW b, NEW b2, NEW f, NEW O, NEW O2,
           BriefLater(b, b2, log, log2, f, O, O2),
           NEW t, t.saw \in Nat, t.read \in Nat, HandOverStands(t, log, f, O)
    PROVE  HandOverStands(t, log2, f, O2)
<1>1. /\ Len(log) \in Nat /\ Len(log2) \in Nat /\ Len(log) <= Len(log2)
      /\ Len(log) = Len(log2) => log2 = log
  BY SamePlace DEF BriefLater, Later
<1>2. Later(log, log2) /\ (f \in O => f \in O2)
  BY DEF BriefLater
<1>3. /\ Passed(log) /\ t.saw <= t.read /\ t.read <= Len(log)
      /\ t.read = Len(log) => Latest(log) = "pass"
      /\ t.saw = t.read /\ ~Overlapped(log) /\ f \notin O => t.copy.handoff = "eligible"
  BY DEF HandOverStands
<1>4. Passed(log2) /\ (Overlapped(log) => Overlapped(log2))
  BY <1>2, <1>3, LaterMeans
<1>5. t.read <= Len(log2) /\ (t.read = Len(log2) => log2 = log)
  BY <1>1, <1>3
<1>6. QED
  BY <1>2, <1>3, <1>4, <1>5 DEF HandOverStands

\* What each kind of request holds.
RecordOK(t) == t.found \in Findings /\ t.copy \in Opportunity \cup {NoRow}
AuditOK(t) == t.on \in Key /\ t.copy \in Opportunity /\ t.verdict \in Verdict /\ t.saw \in Nat
AdmitOK(t) == t.on \subseteq Key /\ t.copy \in [t.on -> Opportunity]
BriefingOK(t) ==
    /\ t.on \in Fingerprint /\ t.quality \in Quality /\ t.found \in Brief \cup {NoRow}
    /\ t.copy \in [t.on -> Opportunity]
BriefAuditOK(t) == t.on \in Fingerprint /\ t.copy \in Brief /\ t.verdict \in Verdict /\ t.saw \in Nat
LoadOK(t) == t.on \in Fingerprint /\ t.copy \in Brief /\ t.saw \in Nat
HandOverOK(t) == LoadOK(t) /\ t.read \in Nat

IsRequest(t) == t = Idle \/ t \in ResearchRequest \/ StrategyRequest(t)

LEMMA RequestKinds ==
    ASSUME NEW t, IsRequest(t)
    PROVE  /\ t.op \in {"idle", "record", "audit", "admit", "brief", "audit_brief", "load", "hand_over"}
           /\ t.op = "record" => RecordOK(t)
           /\ t.op = "audit" => AuditOK(t)
           /\ t.op = "admit" => AdmitOK(t)
           /\ t.op = "brief" => BriefingOK(t)
           /\ t.op = "audit_brief" => BriefAuditOK(t)
           /\ t.op = "load" => LoadOK(t)
           /\ t.op = "hand_over" => HandOverOK(t)
<1> DEFINE Kinds ==
      /\ t.op \in {"idle", "record", "audit", "admit", "brief", "audit_brief", "load", "hand_over"}
      /\ t.op = "record" => RecordOK(t)
      /\ t.op = "audit" => AuditOK(t)
      /\ t.op = "admit" => AdmitOK(t)
      /\ t.op = "brief" => BriefingOK(t)
      /\ t.op = "audit_brief" => BriefAuditOK(t)
      /\ t.op = "load" => LoadOK(t)
      /\ t.op = "hand_over" => HandOverOK(t)
<1> SUFFICES Kinds
  OBVIOUS
<1>1. CASE t = Idle
  BY <1>1 DEF Idle
<1>2. CASE t \in [op : {"record"}, found : Findings, copy : Opportunity \cup {NoRow}]
  BY <1>2 DEF RecordOK
<1>3. CASE t \in [op : {"audit"}, on : Key, copy : Opportunity, verdict : Verdict, saw : Nat]
  BY <1>3 DEF AuditOK
<1>4. ASSUME NEW K \in StrategyLinks,
             t \in [op : {"admit"}, on : {K}, run : BOOLEAN, copy : [K -> Opportunity]]
      PROVE  Kinds
  <2>1. t.op = "admit" /\ t.on = K /\ t.copy \in [K -> Opportunity]
    BY <1>4
  <2>2. AdmitOK(t)
    BY <1>4, <2>1 DEF AdmitOK, StrategyLinks
  <2>3. QED
    BY <2>1, <2>2
<1>5. ASSUME NEW f \in Fingerprint,
             t \in [op : {"brief"}, on : {f}, quality : Quality, found : Brief \cup {NoRow},
                    copy : [f -> Opportunity]]
      PROVE  Kinds
  <2>1. t.op = "brief" /\ t.on = f /\ t.quality \in Quality /\ t.found \in Brief \cup {NoRow}
        /\ t.copy \in [f -> Opportunity]
    BY <1>5
  <2>2. BriefingOK(t)
    BY <1>5, <2>1 DEF BriefingOK
  <2>3. QED
    BY <2>1, <2>2
<1>6. CASE t \in [op : {"audit_brief"}, on : Fingerprint, copy : Brief, verdict : Verdict, saw : Nat]
  BY <1>6 DEF BriefAuditOK
<1>7. CASE t \in [op : {"load"}, on : Fingerprint, copy : Brief, saw : Nat]
  BY <1>7 DEF LoadOK
<1>8. CASE t \in [op : {"hand_over"}, on : Fingerprint, copy : Brief, saw : Nat, read : Nat]
  BY <1>8 DEF LoadOK, HandOverOK
<1>9. QED
  <2> HIDE DEF Kinds
  <2>1. t \in ResearchRequest => Kinds
    BY <1>2, <1>3, Zenon DEF ResearchRequest
  <2>2. StrategyRequest(t) => Kinds
    BY <1>4, <1>5, <1>6, <1>7, <1>8, Zenon DEF StrategyRequest
  <2>3. QED
    BY <1>1, <2>1, <2>2 DEF IsRequest

Tables ==
    /\ opportunities \in [Key -> Opportunity \cup {NoRow}]
    /\ evidence \in [Key -> Evidence]
    /\ research_audits \in [Key -> Seq(Audit)]
    /\ strategy_briefs \in [Fingerprint -> Brief \cup {NoRow}]
    /\ strategy_audits \in [Fingerprint -> Seq(Audit)]
    /\ overtaken \subseteq Fingerprint

LEMMA FoundKeys == \A found \in Findings : DOMAIN found # {} => DOMAIN found \in Key
  BY DEF Findings, Key

LEMMA FingerprintKeys == \A f \in Fingerprint : f # {} /\ f \subseteq Key
  BY DEF Fingerprint, StrategyLinks

LEMMA RequestStays ==
    ASSUME Tables, Tables', Moves, NEW t, IsRequest(t), RequestStands(t)
    PROVE  RequestStands(t)'
<1>1. ASSUME NEW k \in Key, NEW c \in Opportunity, Copied(k, c) PROVE Copied(k, c)'
  <2>1. RowLater(opportunities[k], opportunities'[k], evidence[k].of, evidence'[k].of,
                 research_audits[k], research_audits'[k])
    BY DEF Moves
  <2>2. evidence[k].of \in [Text -> Nat] /\ evidence'[k].of \in [Text -> Nat]
        /\ research_audits[k] \in Seq(Audit) /\ research_audits'[k] \in Seq(Audit)
    BY DEF Tables, Evidence
  <2>3. CopyOf(c, opportunities[k], evidence[k].of, research_audits[k])
    BY <1>1 DEF Copied
  <2>4. CopyOf(c, opportunities'[k], evidence'[k].of, research_audits'[k])
    BY <2>1, <2>2, <2>3, CopyStays
  <2>5. QED
    BY <2>4 DEF Copied
<1>2. ASSUME NEW f \in Fingerprint, NEW c \in Brief, BriefCopied(f, c) PROVE BriefCopied(f, c)'
  <2>1. BriefLater(strategy_briefs[f], strategy_briefs'[f], strategy_audits[f], strategy_audits'[f],
                   f, overtaken, overtaken')
    BY DEF Moves
  <2>2. strategy_audits[f] \in Seq(Audit) /\ strategy_audits'[f] \in Seq(Audit)
    BY DEF Tables
  <2>3. BriefCopyOf(c, strategy_briefs[f], strategy_audits[f])
    BY <1>2 DEF BriefCopied
  <2>4. BriefCopyOf(c, strategy_briefs'[f], strategy_audits'[f])
    BY <2>1, <2>2, <2>3, BriefCopyStays
  <2>5. QED
    BY <2>4 DEF BriefCopied
<1>3. CASE t.op = "record"
  <2>1. ASSUME t.copy # NoRow PROVE DOMAIN t.found # {} /\ Copied(DOMAIN t.found, t.copy)'
    <3>1. DOMAIN t.found # {} /\ Copied(DOMAIN t.found, t.copy) /\ t.copy \in Opportunity /\ t.found \in Findings
      BY <1>3, <2>1, RequestKinds DEF RequestStands, RecordOK
    <3>2. DOMAIN t.found \in Key
      BY <3>1, FoundKeys
    <3>3. PICK k : k = DOMAIN t.found
      OBVIOUS
    <3>4. Copied(k, t.copy)'
      BY <1>1, <3>1, <3>2, <3>3
    <3>5. QED
      BY <3>1, <3>3, <3>4
  <2>2. QED
    BY <1>3, <2>1 DEF RequestStands
<1>4. CASE t.op = "audit"
  <2>1. PICK k : k = t.on
    OBVIOUS
  <2>2. k \in Key /\ t.copy \in Opportunity /\ t.saw \in Nat
    BY <1>4, <2>1, RequestKinds DEF AuditOK
  <2>3. Copied(k, t.copy) /\ AuditStands(t, opportunities[k], evidence[k].of, research_audits[k])
    BY <1>4, <2>1 DEF RequestStands
  <2>4. Copied(k, t.copy)'
    BY <1>1, <2>2, <2>3
  <2>5. RowLater(opportunities[k], opportunities'[k], evidence[k].of, evidence'[k].of,
                 research_audits[k], research_audits'[k])
    BY <2>2 DEF Moves
  <2>6. /\ evidence[k].of \in [Text -> Nat] /\ evidence'[k].of \in [Text -> Nat]
        /\ research_audits[k] \in Seq(Audit) /\ research_audits'[k] \in Seq(Audit)
        /\ opportunities[k] # NoRow
    BY <2>2, <2>3 DEF Tables, Evidence, Copied, CopyOf
  <2>7. AuditStands(t, opportunities'[k], evidence'[k].of, research_audits'[k])
    BY <2>2, <2>3, <2>5, <2>6, AuditStays
  <2>8. QED
    BY <1>4, <2>1, <2>4, <2>7 DEF RequestStands
<1>5. CASE t.op \in {"admit", "brief"}
  <2>1. t.on \subseteq Key /\ t.copy \in [t.on -> Opportunity]
    BY <1>5, RequestKinds, FingerprintKeys DEF AdmitOK, BriefingOK
  <2>2. ASSUME NEW k \in t.on PROVE Copied(k, t.copy[k])' /\ Passed(research_audits'[k])
    <3>1. k \in Key /\ t.copy[k] \in Opportunity
      BY <2>1, <2>2
    <3>2. Copied(k, t.copy[k]) /\ Passed(research_audits[k])
      BY <1>5, <2>2 DEF RequestStands
    <3>3. PICK c : c = t.copy[k]
      OBVIOUS
    <3>4. Copied(k, c)'
      BY <1>1, <3>1, <3>2, <3>3
    <3>5. Later(research_audits[k], research_audits'[k])
      BY <3>1 DEF Moves, RowLater
    <3>6. Passed(research_audits'[k])
      BY <3>2, <3>5, LaterMeans
    <3>7. QED
      BY <3>3, <3>4, <3>6
  <2>3. QED
    BY <1>5, <2>2 DEF RequestStands
<1>6. CASE t.op \in {"audit_brief", "load", "hand_over"}
  <2>1. PICK f : f = t.on
    OBVIOUS
  <2>2. f \in Fingerprint /\ t.copy \in Brief /\ t.saw \in Nat /\ (t.op = "hand_over" => t.read \in Nat)
    BY <1>6, <2>1, RequestKinds DEF BriefAuditOK, LoadOK, HandOverOK
  <2>3. BriefCopied(f, t.copy)
    BY <1>6, <2>1 DEF RequestStands
  <2>4. BriefCopied(f, t.copy)'
    BY <1>2, <2>2, <2>3
  <2>5. BriefLater(strategy_briefs[f], strategy_briefs'[f], strategy_audits[f], strategy_audits'[f],
                   f, overtaken, overtaken')
    BY <2>2 DEF Moves
  <2>6. /\ strategy_audits[f] \in Seq(Audit) /\ strategy_audits'[f] \in Seq(Audit)
        /\ strategy_briefs[f] # NoRow
    BY <2>2, <2>3 DEF Tables, BriefCopied, BriefCopyOf
  <2>7. ASSUME t.op = "audit_brief"
        PROVE  BriefAuditStands(t, strategy_briefs'[f], strategy_audits'[f], f, overtaken')
    <3>1. BriefAuditStands(t, strategy_briefs[f], strategy_audits[f], f, overtaken)
      BY <2>1, <2>7 DEF RequestStands
    <3>2. QED
      BY <2>2, <2>5, <2>6, <3>1, BriefAuditStays
  <2>8. ASSUME t.op = "load"
        PROVE  LoadStands(t, strategy_briefs'[f], strategy_audits'[f], f, overtaken')
    <3>1. LoadStands(t, strategy_briefs[f], strategy_audits[f], f, overtaken)
      BY <2>1, <2>8 DEF RequestStands
    <3>2. t.saw <= Len(strategy_audits[f])
          /\ HandoffCopied(t.copy, t.saw, strategy_briefs[f], strategy_audits[f], f, overtaken)
      BY <3>1 DEF LoadStands
    <3>3. t.saw <= Len(strategy_audits'[f])
          /\ HandoffCopied(t.copy, t.saw, strategy_briefs'[f], strategy_audits'[f], f, overtaken')
      BY <2>2, <2>5, <2>6, <3>2, HandoffStays
    <3>4. QED
      BY <3>3 DEF LoadStands
  <2>9. ASSUME t.op = "hand_over" PROVE HandOverStands(t, strategy_audits'[f], f, overtaken')
    <3>1. HandOverStands(t, strategy_audits[f], f, overtaken)
      BY <2>1, <2>9 DEF RequestStands
    <3>2. QED
      BY <2>2, <2>5, <2>6, <2>9, <3>1, HandOverStays
  <2>10. QED
    BY <1>6, <2>1, <2>4, <2>7, <2>8, <2>9 DEF RequestStands
<1>7. CASE t.op = "idle"
  BY <1>7 DEF RequestStands
<1>8. QED
  BY <1>3, <1>4, <1>5, <1>6, <1>7, RequestKinds

-----------------------------------------------------------------------------
(* The initial state, and the requests that begin.                         *)

LEMMA StartHolds == Init => ChainInv
<1>1. SUFFICES ASSUME Init PROVE ChainInv
  OBVIOUS
<1>2. [t \in Text |-> 0] \in [Text -> Nat] /\ <<>> \in Seq(Audit)
  OBVIOUS
<1>3. TypeOK
  <2>1. [of |-> [t \in Text |-> 0], stale |-> FALSE] \in Evidence
    BY <1>2 DEF Evidence
  <2>2. /\ research_runs \in ResearchRuns /\ strategy_runs \in StrategyRuns
        /\ opportunities \in [Key -> Opportunity \cup {NoRow}]
        /\ strategy_briefs \in [Fingerprint -> Brief \cup {NoRow}]
    BY <1>1 DEF Init, ResearchRuns, StrategyRuns
  <2>3. /\ evidence \in [Key -> Evidence]
        /\ research_audits \in [Key -> Seq(Audit)]
        /\ strategy_audits \in [Fingerprint -> Seq(StrategyAudit)]
        /\ overtaken \subseteq Fingerprint
    BY <1>1, <1>2, <2>1 DEF Init, StrategyAudit
  <2>4. DOMAIN tx = Session /\ \A s \in Session : tx[s] = Idle
    BY <1>1 DEF Init
  <2>5. QED
    BY <2>2, <2>3, <2>4 DEF TypeOK
<1>4. ASSUME NEW log, log = <<>> PROVE Ordered(log) /\ ~Passed(log) /\ DOMAIN log = {}
  BY <1>4 DEF Ordered, Passed
<1>5. ResearchInv
  <2>1. \A k \in Key : opportunities[k] = NoRow /\ research_audits[k] = <<>>
    BY <1>1 DEF Init
  <2>2. \A k \in Key : AuditsOK(evidence[k].of, research_audits[k])
    BY <1>4, <2>1 DEF AuditsOK
  <2>3. QED
    BY <2>1, <2>2 DEF ResearchInv
<1>6. StrategyInv
  BY <1>1, <1>4 DEF Init, StrategyInv
<1>7. \A s \in Session : RequestStands(tx[s])
  BY <1>1 DEF Init, RequestStands, Idle
<1>8. RunsCount
  <2>1. Found = {} /\ Written = {}
    BY <1>1 DEF Init, Found, Written
  <2>2. research_runs["succeeded"] = 0 /\ strategy_runs["succeeded"] = 0
    BY <1>1 DEF Init
  <2>3. QED
    BY <2>1, <2>2, FS_EmptySet DEF RunsCount
<1>9. QED
  BY <1>3, <1>5, <1>6, <1>7, <1>8 DEF ChainInv

LEMMA Typed == TypeOK => Tables
  BY DEF TypeOK, Tables, StrategyAudit

\* A request that begins changes nothing, and may rely on what it has read.
LEMMA Begun ==
    ASSUME ChainInv, NEW s \in Session, NEW t, IsRequest(t), RequestStands(t),
           tx' = [tx EXCEPT ![s] = t], UNCHANGED <<research, strategy>>
    PROVE  ChainInv'
<1>1. /\ UNCHANGED <<research_runs, opportunities, evidence, research_audits>>
      /\ UNCHANGED <<strategy_runs, strategy_briefs, strategy_audits, overtaken>>
  BY DEF research, strategy
<1>2. DOMAIN tx' = Session /\ tx'[s] = t /\ \A r \in Session : r # s => tx'[r] = tx[r]
  BY DEF ChainInv, TypeOK
<1>3. TypeOK'
  BY <1>1, <1>2 DEF ChainInv, TypeOK, IsRequest
<1>4. ResearchInv'
  BY <1>1 DEF ChainInv, ResearchInv
<1>5. StrategyInv'
  BY <1>1 DEF ChainInv, StrategyInv
<1>6. \A u : RequestStands(u) => RequestStands(u)'
  BY <1>1 DEF RequestStands, Copied, BriefCopied
<1>7. \A r \in Session : RequestStands(tx[r])'
  BY <1>2, <1>6 DEF ChainInv
<1>8. Found' = Found /\ Written' = Written
  BY <1>1 DEF Found, Written
<1>9. RunsCount'
  BY <1>1, <1>8 DEF ChainInv, RunsCount
<1>10. QED
  BY <1>3, <1>4, <1>5, <1>7, <1>9 DEF ChainInv

LEMMA RowsAreRows == NoRow \notin Opportunity /\ NoRow \notin Brief
  BY DEF NoRow, Opportunity, Brief

\* A copy just read is the row.
LEMMA FreshCopy ==
    ASSUME ChainInv, NEW k \in Key, opportunities[k] # NoRow
    PROVE  opportunities[k] \in Opportunity /\ Copied(k, opportunities[k])
<1>1. opportunities[k] \in Opportunity
  BY Typed DEF ChainInv, Tables
<1>2. FoundOK(opportunities[k], evidence[k].of, research_audits[k])
  BY DEF ChainInv, ResearchInv
<1>3. QED
  BY <1>1, <1>2 DEF FoundOK, Copied, CopyOf

LEMMA FreshBrief ==
    ASSUME ChainInv, NEW f \in Fingerprint, strategy_briefs[f] # NoRow
    PROVE  strategy_briefs[f] \in Brief /\ BriefCopied(f, strategy_briefs[f])
<1>1. strategy_briefs[f] \in Brief
  BY Typed DEF ChainInv, Tables
<1>2. BriefOK(strategy_briefs[f], strategy_audits[f], f, overtaken)
  BY DEF ChainInv, StrategyInv
<1>3. QED
  BY <1>1, <1>2 DEF BriefOK, BriefCopied, BriefCopyOf

LEMMA BeginRecordKeeps ==
    ASSUME ChainInv, NEW s \in Session, NEW found \in Findings, BeginRecord(s, found)
    PROVE  ChainInv'
<1>1. PICK t : t = [op |-> "record", found |-> found,
                    copy |-> IF DOMAIN found = {} THEN NoRow ELSE opportunities[DOMAIN found]]
  OBVIOUS
<1>2. t.op = "record" /\ t.found = found
      /\ t.copy = IF DOMAIN found = {} THEN NoRow ELSE opportunities[DOMAIN found]
  BY <1>1
<1>3. t.copy \in Opportunity \cup {NoRow}
  BY <1>2, FoundKeys, Typed DEF ChainInv, Tables
<1>4. IsRequest(t)
  <2>1. PICK c : c = t.copy
    OBVIOUS
  <2>2. t = [op |-> "record", found |-> found, copy |-> c]
    BY <1>1, <1>2, <2>1
  <2>3. t \in [op : {"record"}, found : Findings, copy : Opportunity \cup {NoRow}]
    BY <1>3, <2>1, <2>2
  <2>4. QED
    BY <2>3 DEF IsRequest, ResearchRequest
<1>5. RequestStands(t)
  <2>1. ASSUME t.copy # NoRow PROVE DOMAIN t.found # {} /\ Copied(DOMAIN t.found, t.copy)
    <3>1. DOMAIN found # {} /\ t.copy = opportunities[DOMAIN found] /\ DOMAIN found \in Key
      BY <1>2, <2>1, FoundKeys
    <3>2. QED
      BY <1>2, <2>1, <3>1, FreshCopy
  <2>2. QED
    BY <1>2, <2>1 DEF RequestStands
<1>6. tx' = [tx EXCEPT ![s] = t] /\ UNCHANGED <<research, strategy>>
  BY <1>1 DEF BeginRecord, Begin
<1>7. QED
  BY <1>4, <1>5, <1>6, Begun

\* What the auditor finds follows from the links there are.
LEMMA VerdictEarned ==
    ASSUME ChainInv, NEW k \in Key, opportunities[k] # NoRow
    PROVE  /\ ResearchVerdict(k) \in Verdict
           /\ ResearchVerdict(k) = "pass" => TwoTexts(evidence[k].of)
           /\ ResearchVerdict(k) = "blocked" <=> Repeats(evidence[k].of)
<1>1. PICK of \in [Text -> Nat] : of = evidence[k].of
  BY Typed DEF ChainInv, Tables, Evidence
<1>2. Links(k) = Weight(of)
  BY <1>1, TotalIsWeight DEF Links
<1>3. \E t \in Text : of[t] > 0
  BY <1>1 DEF ChainInv, ResearchInv, FoundOK
<1>4. Repeats(of) <=> \E t \in Text : evidence[k].of[t] > 1
  BY <1>1 DEF Repeats
<1>5. ResearchVerdict(k) = IF Repeats(of) THEN "blocked"
                           ELSE IF Weight(of) = 1 \/ evidence[k].stale THEN "pass_with_warning"
                           ELSE "pass"
  BY <1>2, <1>4 DEF ResearchVerdict
<1>6. ResearchVerdict(k) = "pass" => ~Repeats(of) /\ Weight(of) # 1
  BY <1>5
<1>7. QED
  BY <1>1, <1>3, <1>5, <1>6, ManyLinksManyTexts DEF Verdict

LEMMA BeginAuditKeeps ==
    ASSUME ChainInv, NEW s \in Session, NEW k \in Key, BeginAudit(s, k)
    PROVE  ChainInv'
<1>1. PICK t : t = [op |-> "audit", on |-> k, copy |-> opportunities[k],
                    verdict |-> ResearchVerdict(k), saw |-> Len(research_audits[k])]
  OBVIOUS
<1>2. PICK v : v = ResearchVerdict(k)
  OBVIOUS
<1>3. PICK log \in Seq(Audit) : log = research_audits[k]
  BY Typed DEF ChainInv, Tables
<1>4. opportunities[k] # NoRow /\ opportunities[k] \in Opportunity /\ Copied(k, opportunities[k])
  BY FreshCopy DEF BeginAudit
<1>5. v \in Verdict /\ (v = "pass" => TwoTexts(evidence[k].of)) /\ (v = "blocked" <=> Repeats(evidence[k].of))
  BY <1>2, <1>4, VerdictEarned
<1>6. t.op = "audit" /\ t.on = k /\ t.copy = opportunities[k] /\ t.verdict = v /\ t.saw = Len(log)
  BY <1>1, <1>2, <1>3
<1>7. Len(log) \in Nat
  BY SamePlace
<1>8. IsRequest(t)
  <2>1. t \in [op : {"audit"}, on : Key, copy : Opportunity, verdict : Verdict, saw : Nat]
    BY <1>1, <1>2, <1>3, <1>4, <1>5, <1>7
  <2>2. QED
    BY <2>1 DEF IsRequest, ResearchRequest
<1>9. AuditStands(t, opportunities[k], evidence[k].of, log)
  <2>1. FoundOK(opportunities[k], evidence[k].of, log)
    BY <1>3, <1>4 DEF ChainInv, ResearchInv
  <2>2. (\E i \in DOMAIN log : log[i].state = "blocked") => Repeats(evidence[k].of)
    BY <2>1 DEF FoundOK, HasState
  <2>3. QED
    BY <1>5, <1>6, <1>7, <2>2 DEF AuditStands
<1>10. RequestStands(t)
  BY <1>3, <1>4, <1>6, <1>9 DEF RequestStands
<1>11. tx' = [tx EXCEPT ![s] = t] /\ UNCHANGED <<research, strategy>>
  BY <1>1 DEF BeginAudit, Begin
<1>12. QED
  BY <1>8, <1>10, <1>11, Begun

LEMMA AdmissibleMeans ==
    ASSUME ChainInv, NEW K \in SUBSET Key, \A k \in K : Admissible(k),
           NEW copy, copy = [k \in K |-> opportunities[k]]
    PROVE  /\ copy \in [K -> Opportunity]
           /\ \A k \in K : Copied(k, copy[k]) /\ Passed(research_audits[k])
<1>1. ASSUME NEW k \in K
      PROVE  opportunities[k] \in Opportunity /\ Copied(k, opportunities[k]) /\ Passed(research_audits[k])
  <2>1. opportunities[k] # NoRow /\ Latest(research_audits[k]) = "pass"
    BY DEF Admissible
  <2>2. research_audits[k] \in Seq(Audit)
    BY Typed DEF ChainInv, Tables
  <2>3. QED
    BY <2>1, <2>2, FreshCopy, LatestIsThere
<1>2. QED
  BY <1>1

LEMMA BeginAdmitKeeps ==
    ASSUME ChainInv, NEW s \in Session, NEW K \in SUBSET Key, NEW run \in BOOLEAN, BeginAdmit(s, K, run)
    PROVE  ChainInv'
<1>1. PICK copy : copy = [k \in K |-> opportunities[k]]
  OBVIOUS
<1>2. PICK t : t = [op |-> "admit", on |-> K, run |-> run, copy |-> copy]
  OBVIOUS
<1>3. copy \in [K -> Opportunity] /\ \A k \in K : Copied(k, copy[k]) /\ Passed(research_audits[k])
  BY <1>1, AdmissibleMeans DEF BeginAdmit
<1>4. IsRequest(t)
  <2>1. t \in [op : {"admit"}, on : {K}, run : BOOLEAN, copy : [K -> Opportunity]]
    BY <1>2, <1>3
  <2>2. K \in StrategyLinks
    BY DEF StrategyLinks
  <2>3. StrategyRequest(t)
    BY <2>1, <2>2, Zenon DEF StrategyRequest
  <2>4. QED
    BY <2>3 DEF IsRequest
<1>5. RequestStands(t)
  BY <1>2, <1>3 DEF RequestStands
<1>6. tx' = [tx EXCEPT ![s] = t] /\ UNCHANGED <<research, strategy>>
  BY <1>1, <1>2 DEF BeginAdmit, Begin
<1>7. QED
  BY <1>4, <1>5, <1>6, Begun

LEMMA BeginBriefKeeps ==
    ASSUME ChainInv, NEW s \in Session, NEW f \in Fingerprint, NEW quality \in Quality,
           BeginBrief(s, f, quality)
    PROVE  ChainInv'
<1>1. PICK copy : copy = [k \in f |-> opportunities[k]]
  OBVIOUS
<1>2. PICK b : b = strategy_briefs[f]
  OBVIOUS
<1>3. PICK t : t = [op |-> "brief", on |-> f, quality |-> quality, found |-> b, copy |-> copy]
  OBVIOUS
<1>4. f \in SUBSET Key /\ b \in Brief \cup {NoRow}
  BY <1>2, FingerprintKeys, Typed DEF ChainInv, Tables
<1>5. copy \in [f -> Opportunity] /\ \A k \in f : Copied(k, copy[k]) /\ Passed(research_audits[k])
  BY <1>1, <1>4, AdmissibleMeans DEF BeginBrief
<1>6. IsRequest(t)
  <2>1. t \in [op : {"brief"}, on : {f}, quality : Quality, found : Brief \cup {NoRow},
               copy : [f -> Opportunity]]
    BY <1>3, <1>4, <1>5
  <2>2. StrategyRequest(t)
    BY <2>1, Zenon DEF StrategyRequest
  <2>3. QED
    BY <2>2 DEF IsRequest
<1>7. RequestStands(t)
  BY <1>3, <1>5 DEF RequestStands
<1>8. tx' = [tx EXCEPT ![s] = t] /\ UNCHANGED <<research, strategy>>
  BY <1>1, <1>2, <1>3 DEF BeginBrief, Begin
<1>9. QED
  BY <1>6, <1>7, <1>8, Begun

LEMMA BeginAuditBriefKeeps ==
    ASSUME ChainInv, NEW s \in Session, NEW f \in Fingerprint, BeginAuditBrief(s, f)
    PROVE  ChainInv'
<1>1. PICK b : b = strategy_briefs[f]
  OBVIOUS
<1>2. PICK v : v = StrategyVerdict(f)
  OBVIOUS
<1>3. PICK log \in Seq(Audit) : log = strategy_audits[f]
  BY Typed DEF ChainInv, Tables
<1>4. PICK t : t = [op |-> "audit_brief", on |-> f, copy |-> b, verdict |-> v, saw |-> Len(log)]
  OBVIOUS
<1>5. b # NoRow /\ b \in Brief /\ BriefCopied(f, b)
  BY <1>1, FreshBrief DEF BeginAuditBrief
<1>6. v \in Verdict /\ (v = "pass" => b.quality = "sound")
  <2>1. b.quality \in Quality
    BY <1>5 DEF Brief
  <2>2. QED
    BY <1>1, <1>2, <2>1 DEF StrategyVerdict, Verdict, Quality
<1>7. Len(log) \in Nat
  BY SamePlace
<1>8. IsRequest(t)
  <2>1. t \in [op : {"audit_brief"}, on : Fingerprint, copy : Brief, verdict : Verdict, saw : Nat]
    BY <1>4, <1>5, <1>6, <1>7
  <2>2. StrategyRequest(t)
    BY <2>1, Zenon DEF StrategyRequest
  <2>3. QED
    BY <2>2 DEF IsRequest
<1>9. BriefAuditStands(t, b, log, f, overtaken)
  BY <1>4, <1>6, <1>7 DEF BriefAuditStands, HandoffCopied
<1>10. RequestStands(t)
  BY <1>1, <1>3, <1>4, <1>5, <1>9 DEF RequestStands
<1>11. tx' = [tx EXCEPT ![s] = t] /\ UNCHANGED <<research, strategy>>
  BY <1>1, <1>2, <1>3, <1>4 DEF BeginAuditBrief, Begin
<1>12. QED
  BY <1>8, <1>10, <1>11, Begun

LEMMA LoadBriefKeeps ==
    ASSUME ChainInv, NEW s \in Session, NEW f \in Fingerprint, LoadBrief(s, f)
    PROVE  ChainInv'
<1>1. PICK b : b = strategy_briefs[f]
  OBVIOUS
<1>2. PICK log \in Seq(Audit) : log = strategy_audits[f]
  BY Typed DEF ChainInv, Tables
<1>3. PICK t : t = [op |-> "load", on |-> f, copy |-> b, saw |-> Len(log)]
  OBVIOUS
<1>4. b # NoRow /\ b \in Brief /\ BriefCopied(f, b) /\ Len(log) \in Nat
  BY <1>1, <1>2, FreshBrief, SamePlace DEF LoadBrief
<1>5. IsRequest(t)
  <2>1. t \in [op : {"load"}, on : Fingerprint, copy : Brief, saw : Nat]
    BY <1>3, <1>4
  <2>2. StrategyRequest(t)
    BY <2>1, Zenon DEF StrategyRequest
  <2>3. QED
    BY <2>2 DEF IsRequest
<1>6. LoadStands(t, b, log, f, overtaken)
  BY <1>3, <1>4 DEF LoadStands, HandoffCopied
<1>7. RequestStands(t)
  BY <1>1, <1>2, <1>3, <1>4, <1>6 DEF RequestStands
<1>8. tx' = [tx EXCEPT ![s] = t] /\ UNCHANGED <<research, strategy>>
  BY <1>1, <1>2, <1>3 DEF LoadBrief, Begin
<1>9. QED
  BY <1>5, <1>7, <1>8, Begun

LEMMA BeginHandOverKeeps == ASSUME ChainInv, NEW s \in Session, BeginHandOver(s) PROVE ChainInv'
<1>1. PICK u : u = tx[s]
  OBVIOUS
<1>2. u.op = "load" /\ IsRequest(u) /\ LoadOK(u) /\ RequestStands(u)
  BY <1>1, RequestKinds DEF BeginHandOver, ChainInv, TypeOK, IsRequest
<1>3. PICK f \in Fingerprint : f = u.on
  BY <1>2 DEF LoadOK
<1>4. PICK log \in Seq(Audit) : log = strategy_audits[f]
  BY Typed DEF ChainInv, Tables
<1>5. PICK b : b = strategy_briefs[f]
  OBVIOUS
<1>6. PICK t : t = [op |-> "hand_over", on |-> f, copy |-> u.copy, saw |-> u.saw, read |-> Len(log)]
  OBVIOUS
<1>7. Latest(log) = "pass" /\ tx' = [tx EXCEPT ![s] = t] /\ UNCHANGED <<research, strategy>>
  BY <1>1, <1>3, <1>4, <1>6 DEF BeginHandOver
<1>8. BriefCopied(f, u.copy) /\ LoadStands(u, b, log, f, overtaken)
  BY <1>2, <1>3, <1>4, <1>5 DEF RequestStands
<1>9. Len(log) \in Nat /\ u.copy \in Brief /\ u.saw \in Nat
  BY <1>2, SamePlace DEF LoadOK
<1>10. IsRequest(t)
  <2>1. t \in [op : {"hand_over"}, on : Fingerprint, copy : Brief, saw : Nat, read : Nat]
    BY <1>6, <1>9
  <2>2. StrategyRequest(t)
    BY <2>1, Zenon DEF StrategyRequest
  <2>3. QED
    BY <2>2 DEF IsRequest
<1>11. BriefOK(b, log, f, overtaken)
  <2>1. b # NoRow
    BY <1>5, <1>8 DEF BriefCopied, BriefCopyOf
  <2>2. QED
    BY <1>4, <1>5, <2>1 DEF ChainInv, StrategyInv
<1>12. HandOverStands(t, log, f, overtaken)
  <2>1. Passed(log)
    BY <1>7, LatestIsThere DEF HasState, Passed
  <2>2. t.saw <= t.read /\ t.read <= Len(log)
    BY <1>6, <1>8, <1>9 DEF LoadStands
  <2>3. ASSUME t.saw = t.read, ~Overlapped(log), f \notin overtaken PROVE t.copy.handoff = "eligible"
    <3>1. u.copy.handoff = b.handoff
      BY <1>6, <1>8, <2>3 DEF LoadStands, HandoffCopied
    <3>2. b.handoff = "eligible"
      BY <1>7, <1>11, <2>3 DEF BriefOK
    <3>3. QED
      BY <1>6, <3>1, <3>2
  <2>4. QED
    BY <1>7, <2>1, <2>2, <2>3 DEF HandOverStands
<1>13. RequestStands(t)
  BY <1>4, <1>6, <1>8, <1>12 DEF RequestStands
<1>14. QED
  BY <1>7, <1>10, <1>13, Begun

-----------------------------------------------------------------------------
(* The requests that end.                                                  *)

LEMMA UpdatedRow ==
    ASSUME NEW row \in Opportunity, NEW copy \in Opportunity, NEW new \in Opportunity,
           NEW u, u = Update(row, copy, new)
    PROVE  /\ u \in Opportunity
           /\ u.source_count = IF new.source_count = copy.source_count THEN row.source_count ELSE new.source_count
           /\ u.gate = IF new.gate = copy.gate THEN row.gate ELSE new.gate
           /\ u.status = IF new.status = copy.status THEN row.status ELSE new.status
           /\ u.strategist = IF new.strategist = copy.strategist THEN row.strategist ELSE new.strategist
           /\ u.audited = IF new.audited = copy.audited THEN row.audited ELSE new.audited
           /\ u.blocked = IF new.blocked = copy.blocked THEN row.blocked ELSE new.blocked
<1>1. DOMAIN row = {"source_count", "gate", "status", "strategist", "audited", "blocked"}
  BY DEF Opportunity
<1>2. u = [a \in {"source_count", "gate", "status", "strategist", "audited", "blocked"} |->
             IF new[a] = copy[a] THEN row[a] ELSE new[a]]
  BY <1>1 DEF Update
<1>3. /\ u.source_count = IF new.source_count = copy.source_count THEN row.source_count ELSE new.source_count
      /\ u.gate = IF new.gate = copy.gate THEN row.gate ELSE new.gate
      /\ u.status = IF new.status = copy.status THEN row.status ELSE new.status
      /\ u.strategist = IF new.strategist = copy.strategist THEN row.strategist ELSE new.strategist
      /\ u.audited = IF new.audited = copy.audited THEN row.audited ELSE new.audited
      /\ u.blocked = IF new.blocked = copy.blocked THEN row.blocked ELSE new.blocked
  BY <1>2
<1>4. u = [source_count |-> u.source_count, gate |-> u.gate, status |-> u.status,
           strategist |-> u.strategist, audited |-> u.audited, blocked |-> u.blocked]
  BY <1>2
<1>5. /\ u.source_count \in Nat /\ u.gate \in Gate /\ u.status \in {"active", "blocked"}
      /\ u.strategist \in {"not_sent", "eligible"} /\ u.audited \in Nat /\ u.blocked \in Nat
  BY <1>3 DEF Opportunity
<1>6. QED
  BY <1>3, <1>4, <1>5 DEF Opportunity

LEMMA UpdatedBrief ==
    ASSUME NEW row \in Brief, NEW copy \in Brief, NEW new \in Brief,
           NEW u, u = Update(row, copy, new)
    PROVE  /\ u \in Brief
           /\ u.quality = IF new.quality = copy.quality THEN row.quality ELSE new.quality
           /\ u.gate = IF new.gate = copy.gate THEN row.gate ELSE new.gate
           /\ u.handoff = IF new.handoff = copy.handoff THEN row.handoff ELSE new.handoff
           /\ u.passed = IF new.passed = copy.passed THEN row.passed ELSE new.passed
           /\ u.blocked = IF new.blocked = copy.blocked THEN row.blocked ELSE new.blocked
<1>1. DOMAIN row = {"quality", "gate", "handoff", "status", "passed", "blocked"}
  BY DEF Brief
<1>2. u = [a \in {"quality", "gate", "handoff", "status", "passed", "blocked"} |->
             IF new[a] = copy[a] THEN row[a] ELSE new[a]]
  BY <1>1 DEF Update
<1>3. /\ u.quality = IF new.quality = copy.quality THEN row.quality ELSE new.quality
      /\ u.gate = IF new.gate = copy.gate THEN row.gate ELSE new.gate
      /\ u.handoff = IF new.handoff = copy.handoff THEN row.handoff ELSE new.handoff
      /\ u.status = IF new.status = copy.status THEN row.status ELSE new.status
      /\ u.passed = IF new.passed = copy.passed THEN row.passed ELSE new.passed
      /\ u.blocked = IF new.blocked = copy.blocked THEN row.blocked ELSE new.blocked
  BY <1>2
<1>4. u = [quality |-> u.quality, gate |-> u.gate, handoff |-> u.handoff,
           status |-> u.status, passed |-> u.passed, blocked |-> u.blocked]
  BY <1>2
<1>5. /\ u.quality \in Quality /\ u.gate \in Gate /\ u.handoff \in {"blocked", "eligible"}
      /\ u.status \in {"draft", "audited_passed", "audited_blocked"} /\ u.passed \in Nat /\ u.blocked \in Nat
  BY <1>3 DEF Brief
<1>6. QED
  BY <1>3, <1>4, <1>5 DEF Brief

LEMMA RowSame ==
    ASSUME NEW of \in [Text -> Nat], NEW log \in Seq(Audit), NEW o
    PROVE  RowLater(o, o, of, of, log, log)
<1>1. Weight(of) <= Weight(of) /\ \A t \in Text : of[t] <= of[t]
  BY TotalIsWeight
<1>2. QED
  BY <1>1, LaterSame DEF RowLater

LEMMA BriefSame ==
    ASSUME NEW log \in Seq(Audit), NEW b, NEW f, NEW O, NEW O2, f \in O <=> f \in O2
    PROVE  BriefLater(b, b, log, log, f, O, O2)
  BY LaterSame DEF BriefLater

\* An opportunity that is found again: what the run adds to its count is linked.
LEMMA RecordedRow ==
    ASSUME NEW of \in [Text -> Nat], NEW more \in [Text -> Nat], NEW log \in Seq(Audit),
           NEW o \in Opportunity, NEW c \in Opportunity, CopyOf(c, o, of, log),
           FoundOK(o, of, log), AuditsOK(of, log), NEW n \in Nat, n # 0,
           \A t \in Text : of[t] <= more[t], Weight(of) + n <= Weight(more),
           NEW u, u = Update(o, c, [c EXCEPT !.source_count = @ + n])
    PROVE  /\ u \in Opportunity
           /\ RowLater(o, u, of, more, log, log)
           /\ FoundOK(u, more, log) /\ AuditsOK(more, log)
<1>1. Weight(of) \in Nat /\ Weight(more) \in Nat
  BY TotalIsWeight
<1>2. PICK w : w = [c EXCEPT !.source_count = @ + n]
  OBVIOUS
<1>3. /\ w \in Opportunity /\ w.source_count = c.source_count + n /\ c.source_count \in Nat
      /\ w.gate = c.gate /\ w.status = c.status /\ w.strategist = c.strategist
      /\ w.audited = c.audited /\ w.blocked = c.blocked
  <2>1. PICK m : m = c.source_count + n
    OBVIOUS
  <2>2. m \in Nat /\ c.source_count \in Nat
    BY <2>1 DEF Opportunity
  <2>3. w = [c EXCEPT !.source_count = m]
    BY <1>2, <2>1
  <2>4. QED
    BY <2>1, <2>2, <2>3 DEF Opportunity
<1>4. /\ u \in Opportunity /\ u.source_count = c.source_count + n
      /\ u.gate = o.gate /\ u.status = o.status /\ u.strategist = o.strategist
      /\ u.audited = o.audited /\ u.blocked = o.blocked
  <2>1. u = Update(o, c, w)
    BY <1>2
  <2>2. /\ u \in Opportunity
        /\ u.source_count = IF w.source_count = c.source_count THEN o.source_count ELSE w.source_count
        /\ u.gate = IF w.gate = c.gate THEN o.gate ELSE w.gate
        /\ u.status = IF w.status = c.status THEN o.status ELSE w.status
        /\ u.strategist = IF w.strategist = c.strategist THEN o.strategist ELSE w.strategist
        /\ u.audited = IF w.audited = c.audited THEN o.audited ELSE w.audited
        /\ u.blocked = IF w.blocked = c.blocked THEN o.blocked ELSE w.blocked
    BY <1>3, <2>1, UpdatedRow
  <2>3. QED
    BY <1>3, <2>2
<1>5. u # NoRow
  BY <1>4, RowsAreRows
<1>6. u.source_count <= Weight(more)
  BY <1>1, <1>3, <1>4 DEF CopyOf
<1>7. /\ Weight(of) <= Weight(more)
      /\ TwoTexts(of) => TwoTexts(more)
      /\ Repeats(of) => Repeats(more)
  <2>1. (TwoTexts(of) => TwoTexts(more)) /\ (Repeats(of) => Repeats(more))
    BY TextsStay
  <2>2. Weight(of) <= Weight(more)
    BY <1>1
  <2>3. QED
    BY <2>1, <2>2
<1>8. \E t \in Text : more[t] > 0
  <2>1. \A t \in Text : of[t] \in Nat /\ more[t] \in Nat
    OBVIOUS
  <2>2. QED
    BY <2>1 DEF FoundOK
<1>9. RowLater(o, u, of, more, log, log)
  BY <1>4, <1>5, <1>7, LaterSame DEF RowLater
<1>10. FoundOK(u, more, log)
  BY <1>4, <1>6, <1>7, <1>8 DEF FoundOK
<1>11. AuditsOK(more, log)
  BY <1>7 DEF AuditsOK
<1>12. QED
  BY <1>4, <1>9, <1>10, <1>11

LEMMA EmptyLog ==
    ASSUME NEW log, log = <<>>
    PROVE  /\ log \in Seq(Audit) /\ Len(log) = 0 /\ DOMAIN log = {}
           /\ \A V : Counted(log, V) = 0
           /\ ~Passed(log) /\ ~Overlapped(log) /\ Latest(log) = "not_run" /\ ~HasState(log, "blocked")
<1>1. log \in Seq(Audit) /\ Len(log) = 0 /\ DOMAIN log = {}
  OBVIOUS
<1>2. \A V : {i \in DOMAIN log : log[i].state \in V} = {}
  BY <1>1
<1>3. \A V : Counted(log, V) = 0
  BY <1>2, FS_EmptySet DEF Counted
<1>4. QED
  BY <1>1, <1>3 DEF Passed, Overlapped, Latest, HasState

\* An opportunity that is new.
LEMMA NewRow ==
    ASSUME NEW of \in [Text -> Nat], NEW more \in [Text -> Nat], NEW log, log = <<>>,
           AuditsOK(of, log), NEW n \in Nat, \A t \in Text : of[t] <= more[t],
           \E t \in Text : more[t] > 0, Weight(of) + n <= Weight(more),
           NEW u, u = NewOpportunity(n)
    PROVE  /\ u \in Opportunity
           /\ RowLater(NoRow, u, of, more, log, log)
           /\ FoundOK(u, more, log) /\ AuditsOK(more, log)
<1>1. Weight(of) \in Nat /\ Weight(more) \in Nat
  BY TotalIsWeight
<1>2. u \in Opportunity /\ u.source_count = n /\ u.gate = "not_run" /\ u.status = "active"
      /\ u.strategist = "not_sent" /\ u.audited = 0 /\ u.blocked = 0
  BY DEF NewOpportunity, Opportunity, Gate
<1>3. n <= Weight(more) /\ Weight(of) <= Weight(more)
  BY <1>1
<1>4. /\ log \in Seq(Audit) /\ Len(log) = 0 /\ DOMAIN log = {}
      /\ Counted(log, {"blocked"}) = 0
      /\ ~Passed(log) /\ ~Overlapped(log) /\ Latest(log) = "not_run" /\ ~HasState(log, "blocked")
  BY EmptyLog
<1>5. RowLater(NoRow, u, of, more, log, log)
  BY <1>3, <1>4, LaterSame DEF RowLater
<1>6. FoundOK(u, more, log)
  BY <1>2, <1>3, <1>4 DEF FoundOK
<1>7. AuditsOK(more, log)
  BY <1>4 DEF AuditsOK, Ordered
<1>8. QED
  BY <1>2, <1>5, <1>6, <1>7

\* What an insertion leaves of the order in which audits were committed.
LEMMA PlacedOrdered ==
    ASSUME NEW log \in Seq(Audit), NEW a \in Audit, NEW new, NEW p \in Nat, Placed(log, new, a, p),
           a.nth = Len(log) + 1, a.saw <= Len(log), Ordered(log)
    PROVE  Ordered(new)
<1>1. Len(log) \in Nat /\ Len(new) = Len(log) + 1 /\ a.saw \in Nat
  BY SamePlace DEF Placed, Audit
<1>2. ASSUME NEW j \in DOMAIN new PROVE new[j].saw < new[j].nth /\ new[j].nth <= Len(new)
  <2>1. CASE new[j] = a
    BY <1>1, <2>1
  <2>2. ASSUME NEW i \in DOMAIN log, log[i] = new[j]
        PROVE  new[j].saw < new[j].nth /\ new[j].nth <= Len(new)
    <3>1. log[i].saw < log[i].nth /\ log[i].nth <= Len(log) /\ log[i].nth \in Nat
      BY SamePlace DEF Ordered, Audit
    <3>2. QED
      BY <1>1, <2>2, <3>1
  <2>3. QED
    BY <2>1, <2>2, PlacedEntries
<1>3. QED
  BY <1>2 DEF Ordered

\* An audit that was at work in t is inserted as a.
LEMMA AuditedLog ==
    ASSUME NEW of \in [Text -> Nat], NEW log \in Seq(Audit), NEW a \in Audit, NEW new, NEW p \in Nat,
           Placed(log, new, a, p), a.nth = Len(log) + 1, AuditsOK(of, log),
           NEW t, NEW o, AuditStands(t, o, of, log), a.saw = t.saw, a.state = t.verdict
    PROVE  AuditsOK(of, new)
<1>1. a.saw <= Len(log) /\ Ordered(log)
  BY DEF AuditStands, AuditsOK
<1>2. Ordered(new)
  BY <1>1, PlacedOrdered
<1>3. ASSUME Passed(new) PROVE TwoTexts(of)
  <2>1. PICK j \in DOMAIN new : new[j].state = "pass"
    BY <1>3 DEF Passed
  <2>2. CASE new[j] = a
    BY <2>1, <2>2 DEF AuditStands
  <2>3. CASE \E i \in DOMAIN log : log[i] = new[j]
    BY <2>1, <2>3 DEF AuditsOK, Passed
  <2>4. QED
    BY <2>2, <2>3, PlacedEntries
<1>4. ASSUME NEW i \in DOMAIN new, NEW j \in DOMAIN new,
             new[i].state = "blocked", new[i].nth <= new[j].saw
      PROVE  new[j].state = "blocked"
  <2>1. Len(log) \in Nat /\ a.saw \in Nat
    BY SamePlace DEF Audit
  <2>2. \A m \in DOMAIN log : /\ log[m].nth \in Nat /\ log[m].saw \in Nat
                              /\ log[m].saw < log[m].nth /\ log[m].nth <= Len(log)
    BY <1>1, SamePlace DEF Ordered, Audit
  <2>3. new[i] # a
    <3>1. SUFFICES ASSUME new[i] = a PROVE FALSE
      OBVIOUS
    <3>2. new[j].saw \in Nat /\ new[j].saw <= Len(log)
      <4>1. CASE new[j] = a
        BY <1>1, <2>1, <4>1
      <4>2. ASSUME NEW m \in DOMAIN log, log[m] = new[j] PROVE new[j].saw \in Nat /\ new[j].saw <= Len(log)
        <5>1. log[m].nth \in Nat /\ log[m].saw \in Nat /\ log[m].saw < log[m].nth /\ log[m].nth <= Len(log)
          BY <2>2
        <5>2. QED
          BY <2>1, <4>2, <5>1
      <4>3. QED
        BY <4>1, <4>2, PlacedEntries
    <3>3. QED
      BY <1>4, <2>1, <3>1, <3>2
  <2>4. PICK m \in DOMAIN log : log[m] = new[i]
    BY <2>3, PlacedEntries
  <2>5. CASE new[j] = a
    BY <1>4, <2>4, <2>5 DEF AuditStands
  <2>6. CASE \E l \in DOMAIN log : log[l] = new[j]
    BY <1>4, <2>4, <2>6 DEF AuditsOK
  <2>7. QED
    BY <2>5, <2>6, PlacedEntries
<1>5. QED
  BY <1>2, <1>3, <1>4 DEF AuditsOK

LEMMA AuditedRow ==
    ASSUME NEW of \in [Text -> Nat], NEW log \in Seq(Audit), NEW a \in Audit, NEW new, NEW p \in Nat,
           Placed(log, new, a, p), a.nth = Len(log) + 1, AuditsOK(of, log),
           NEW o \in Opportunity, FoundOK(o, of, log), NEW t, AuditOK(t),
           AuditStands(t, o, of, log), CopyOf(t.copy, o, of, log), a.saw = t.saw, a.state = t.verdict,
           NEW u, u = Update(o, t.copy, AuditedOpportunity(t.copy, t.verdict))
    PROVE  /\ u \in Opportunity
           /\ RowLater(o, u, of, of, log, new)
           /\ FoundOK(u, of, new)
<1>1. PICK c \in Opportunity : c = t.copy
  BY DEF AuditOK
<1>2. PICK v \in Verdict : v = t.verdict
  BY DEF AuditOK
<1>3. PICK w : w = AuditedOpportunity(c, v)
  OBVIOUS
<1>4. PICK n : n = IF v = "blocked" THEN c.blocked + 1 ELSE c.blocked
  OBVIOUS
<1>5. PICK st : st = IF v = "blocked" THEN "blocked" ELSE c.status
  OBVIOUS
<1>6. /\ c.source_count \in Nat /\ c.audited \in Nat /\ c.blocked \in Nat /\ n \in Nat
      /\ st \in {"active", "blocked"} /\ v \in Gate /\ v # "not_run" /\ c.status \in {"active", "blocked"}
  BY <1>4, <1>5 DEF Opportunity, Gate, Verdict
<1>7. w = [c EXCEPT !.gate = v, !.audited = @ + 1, !.status = st, !.blocked = n]
  BY <1>3, <1>4, <1>5 DEF AuditedOpportunity
<1>8. /\ w \in Opportunity /\ w.source_count = c.source_count /\ w.gate = v /\ w.status = st
      /\ w.strategist = c.strategist /\ w.audited = c.audited + 1 /\ w.blocked = n
  <2>1. c.audited + 1 \in Nat /\ c.strategist \in {"not_sent", "eligible"}
    BY <1>6 DEF Opportunity
  <2>2. w = [source_count |-> c.source_count, gate |-> v, status |-> st, strategist |-> c.strategist,
             audited |-> c.audited + 1, blocked |-> n]
    BY <1>7 DEF Opportunity
  <2>3. QED
    BY <1>6, <2>1, <2>2 DEF Opportunity
<1>9. /\ u \in Opportunity /\ u.source_count = o.source_count
      /\ u.gate = IF v = c.gate THEN o.gate ELSE v
      /\ u.status = IF st = c.status THEN o.status ELSE st
      /\ u.strategist = o.strategist /\ u.audited = c.audited + 1
      /\ u.blocked = IF n = c.blocked THEN o.blocked ELSE n
  BY <1>1, <1>2, <1>3, <1>6, <1>8, UpdatedRow
<1>10. u # NoRow
  BY <1>9, RowsAreRows
<1>11. CopyOf(c, o, of, log) /\ Later(log, new)
  BY <1>1, LaterPlaced
<1>12. Len(log) \in Nat /\ Len(new) = Len(log) + 1 /\ new \in Seq(Audit) /\ new # log
  BY SamePlace DEF Placed
<1>13. u.gate # "not_run"
  BY <1>6, <1>9, <1>11 DEF CopyOf
<1>14. (o.status = "blocked" \/ v = "blocked") => u.status = "blocked"
  BY <1>5, <1>6, <1>9, <1>11 DEF CopyOf
<1>15. RowLater(o, u, of, of, log, new)
  <2>1. Weight(of) <= Weight(of) /\ \A x \in Text : of[x] <= of[x]
    BY TotalIsWeight
  <2>2. QED
    BY <1>9, <1>10, <1>11, <1>12, <1>13, <1>14, <2>1 DEF RowLater
<1>16. u.audited <= Len(new)
  BY <1>6, <1>9, <1>11, <1>12 DEF CopyOf
<1>17. u.blocked <= Counted(new, {"blocked"})
  <2>1. /\ Counted(log, {"blocked"}) \in Nat /\ Counted(new, {"blocked"}) \in Nat
        /\ Counted(log, {"blocked"}) <= Counted(new, {"blocked"})
        /\ v = "blocked" => Counted(log, {"blocked"}) + 1 <= Counted(new, {"blocked"})
    BY <1>2, <1>12, SamePlace, PlacedCounts
  <2>2. o.blocked <= Counted(log, {"blocked"}) /\ o.blocked \in Nat
    BY DEF FoundOK, Opportunity
  <2>3. c.blocked <= Counted(log, {"blocked"})
    BY <1>11 DEF CopyOf
  <2>4. QED
    BY <1>4, <1>6, <1>9, <2>1, <2>2, <2>3
<1>18. \E j \in DOMAIN new : new[j] = a
  BY PlacedEntries
<1>19. new # <<>>
  BY <1>12
<1>20. HasState(new, u.gate)
  <2>1. CASE u.gate = v
    BY <1>2, <1>18, <2>1 DEF HasState
  <2>2. CASE u.gate = o.gate
    BY <1>11, <1>13, <2>2, LaterMeans DEF FoundOK
  <2>3. QED
    BY <1>9, <2>1, <2>2
<1>21. ASSUME ~Overlapped(new) PROVE u.gate = Latest(new)
  <2>1. a.saw = Len(log) /\ Latest(new) = a.state
    BY <1>21, PlacedLast DEF AuditsOK, Audit
  <2>2. c.gate = o.gate
    BY <1>1, <2>1 DEF AuditStands
  <2>3. QED
    BY <1>2, <1>9, <2>1, <2>2
<1>22. u.strategist = "eligible" => Passed(new)
  BY <1>9, <1>11, LaterMeans DEF FoundOK
<1>23. ASSUME HasState(new, "blocked") PROVE u.status = "blocked" /\ Repeats(of)
  <2>1. PICK j \in DOMAIN new : new[j].state = "blocked"
    BY <1>23 DEF HasState
  <2>2. CASE new[j] = a
    BY <1>2, <1>14, <2>1, <2>2 DEF AuditStands
  <2>3. CASE \E i \in DOMAIN log : log[i] = new[j]
    BY <1>14, <2>1, <2>3 DEF FoundOK, HasState
  <2>4. QED
    BY <2>2, <2>3, PlacedEntries
<1>24. QED
  BY <1>9, <1>13, <1>15, <1>16, <1>17, <1>19, <1>20, <1>21, <1>22, <1>23 DEF FoundOK

LEMMA AdmittedRow ==
    ASSUME NEW of \in [Text -> Nat], NEW log \in Seq(Audit), NEW o \in Opportunity, NEW c \in Opportunity,
           CopyOf(c, o, of, log), FoundOK(o, of, log), Passed(log),
           NEW u, u = Update(o, c, [c EXCEPT !.strategist = "eligible"])
    PROVE  /\ u \in Opportunity /\ u.strategist = "eligible"
           /\ RowLater(o, u, of, of, log, log)
           /\ FoundOK(u, of, log)
<1>1. PICK w : w = [c EXCEPT !.strategist = "eligible"]
  OBVIOUS
<1>2. /\ w \in Opportunity /\ w.source_count = c.source_count
      /\ w.gate = c.gate /\ w.status = c.status /\ w.strategist = "eligible"
      /\ w.audited = c.audited /\ w.blocked = c.blocked
  BY <1>1 DEF Opportunity
<1>3. /\ u \in Opportunity /\ u.source_count = o.source_count
      /\ u.gate = o.gate /\ u.status = o.status
      /\ u.strategist = IF c.strategist = "eligible" THEN o.strategist ELSE "eligible"
      /\ u.audited = o.audited /\ u.blocked = o.blocked
  <2>1. u = Update(o, c, w)
    BY <1>1
  <2>2. /\ u \in Opportunity
        /\ u.source_count = IF w.source_count = c.source_count THEN o.source_count ELSE w.source_count
        /\ u.gate = IF w.gate = c.gate THEN o.gate ELSE w.gate
        /\ u.status = IF w.status = c.status THEN o.status ELSE w.status
        /\ u.strategist = IF w.strategist = c.strategist THEN o.strategist ELSE w.strategist
        /\ u.audited = IF w.audited = c.audited THEN o.audited ELSE w.audited
        /\ u.blocked = IF w.blocked = c.blocked THEN o.blocked ELSE w.blocked
    BY <1>2, <2>1, UpdatedRow
  <2>3. QED
    BY <1>2, <2>2
<1>4. u.strategist = "eligible"
  BY <1>3 DEF CopyOf
<1>5. u # NoRow
  BY <1>3, RowsAreRows
<1>6. RowLater(o, u, of, of, log, log)
  <2>1. Weight(of) <= Weight(of) /\ \A x \in Text : of[x] <= of[x]
    BY TotalIsWeight
  <2>2. QED
    BY <1>3, <1>4, <1>5, <2>1, LaterSame DEF RowLater
<1>7. FoundOK(u, of, log)
  BY <1>3 DEF FoundOK
<1>8. QED
  BY <1>3, <1>4, <1>6, <1>7

LEMMA AuditedBriefRow ==
    ASSUME NEW log \in Seq(Audit), NEW a \in Audit, NEW new, NEW p \in Nat,
           Placed(log, new, a, p), a.nth = Len(log) + 1, Ordered(log),
           NEW f, NEW O, NEW b \in Brief, BriefOK(b, log, f, O), NEW t, BriefAuditOK(t),
           BriefAuditStands(t, b, log, f, O), BriefCopyOf(t.copy, b, log), a.saw = t.saw, a.state = t.verdict,
           NEW u, u = Update(b, t.copy, AuditedBrief(t.copy, t.verdict))
    PROVE  /\ u \in Brief
           /\ BriefLater(b, u, log, new, f, O, O)
           /\ BriefOK(u, new, f, O)
           /\ Ordered(new)
<1>1. PICK c \in Brief : c = t.copy
  BY DEF BriefAuditOK
<1>2. PICK v \in Verdict : v = t.verdict
  BY DEF BriefAuditOK
<1>3. PICK w : w = AuditedBrief(c, v)
  OBVIOUS
<1>4. PICK h : h = IF v = "pass" THEN "eligible" ELSE "blocked"
  OBVIOUS
<1>5. PICK st : st = IF v = "pass" THEN "audited_passed" ELSE "audited_blocked"
  OBVIOUS
<1>6. PICK m : m = IF v = "pass" THEN c.passed + 1 ELSE c.passed
  OBVIOUS
<1>7. PICK n : n = IF v # "pass" THEN c.blocked + 1 ELSE c.blocked
  OBVIOUS
<1>8. /\ c.passed \in Nat /\ c.blocked \in Nat /\ m \in Nat /\ n \in Nat /\ c.quality \in Quality
      /\ h \in {"blocked", "eligible"} /\ st \in {"draft", "audited_passed", "audited_blocked"}
      /\ v \in Gate /\ v # "not_run"
  BY <1>4, <1>5, <1>6, <1>7 DEF Brief, Gate, Verdict
<1>9. w = [c EXCEPT !.gate = v, !.handoff = h, !.status = st, !.passed = m, !.blocked = n]
  BY <1>3, <1>4, <1>5, <1>6, <1>7 DEF AuditedBrief
<1>10. w = [quality |-> c.quality, gate |-> v, handoff |-> h, status |-> st, passed |-> m, blocked |-> n]
  BY <1>9 DEF Brief
<1>11. w \in Brief
  BY <1>8, <1>10 DEF Brief
<1>12. u = Update(b, c, w)
  BY <1>1, <1>2, <1>3
<1>13. /\ u \in Brief
       /\ u.quality = IF w.quality = c.quality THEN b.quality ELSE w.quality
       /\ u.gate = IF w.gate = c.gate THEN b.gate ELSE w.gate
       /\ u.handoff = IF w.handoff = c.handoff THEN b.handoff ELSE w.handoff
       /\ u.passed = IF w.passed = c.passed THEN b.passed ELSE w.passed
       /\ u.blocked = IF w.blocked = c.blocked THEN b.blocked ELSE w.blocked
  BY <1>11, <1>12, UpdatedBrief
<1>14. /\ u.quality = b.quality
       /\ u.gate = IF v = c.gate THEN b.gate ELSE v
       /\ u.handoff = IF h = c.handoff THEN b.handoff ELSE h
       /\ u.passed = IF v = "pass" THEN c.passed + 1 ELSE b.passed
       /\ u.blocked = IF v # "pass" THEN c.blocked + 1 ELSE b.blocked
  BY <1>6, <1>7, <1>8, <1>10, <1>13
<1>15. u # NoRow
  BY <1>13, RowsAreRows
<1>16. Later(log, new) /\ Len(log) \in Nat /\ new \in Seq(Audit) /\ new # log
  BY LaterPlaced, SamePlace DEF Placed
<1>17. BriefLater(b, u, log, new, f, O, O)
  BY <1>14, <1>15, <1>16 DEF BriefLater
<1>18. Ordered(new)
  BY PlacedOrdered DEF BriefAuditStands
<1>19. \E j \in DOMAIN new : new[j] = a
  BY PlacedEntries
<1>20. /\ b.passed \in Nat /\ b.blocked \in Nat /\ b.passed <= Counted(log, {"pass"})
       /\ b.blocked <= Counted(log, NotPass)
  BY DEF BriefOK, Brief
<1>21. c.passed <= Counted(log, {"pass"}) /\ c.blocked <= Counted(log, NotPass)
  BY <1>1 DEF BriefCopyOf
<1>22. u.passed <= Counted(new, {"pass"})
  <2>1. /\ Counted(log, {"pass"}) \in Nat /\ Counted(new, {"pass"}) \in Nat
        /\ Counted(log, {"pass"}) <= Counted(new, {"pass"})
        /\ v = "pass" => Counted(log, {"pass"}) + 1 <= Counted(new, {"pass"})
    BY <1>2, <1>16, SamePlace, PlacedCounts
  <2>2. QED
    BY <1>8, <1>14, <1>20, <1>21, <2>1
<1>23. u.blocked <= Counted(new, NotPass)
  <2>1. v # "pass" => a.state \in NotPass
    BY <1>2 DEF Verdict, NotPass
  <2>2. /\ Counted(log, NotPass) \in Nat /\ Counted(new, NotPass) \in Nat
        /\ Counted(log, NotPass) <= Counted(new, NotPass)
        /\ v # "pass" => Counted(log, NotPass) + 1 <= Counted(new, NotPass)
    BY <1>16, <2>1, SamePlace, PlacedCounts
  <2>3. QED
    BY <1>8, <1>14, <1>20, <1>21, <2>2
<1>24. ASSUME u.gate # "not_run" PROVE HasState(new, u.gate)
  <2>1. CASE u.gate = v
    BY <1>2, <1>19, <2>1 DEF HasState
  <2>2. CASE u.gate = b.gate
    BY <1>16, <1>24, <2>2, LaterMeans DEF BriefOK
  <2>3. QED
    BY <1>14, <2>1, <2>2
<1>25. ASSUME u.handoff = "eligible" PROVE Passed(new)
  <2>1. CASE v = "pass"
    BY <1>2, <1>19, <2>1 DEF Passed
  <2>2. CASE b.handoff = "eligible"
    BY <1>16, <2>2, LaterMeans DEF BriefOK
  <2>3. QED
    BY <1>4, <1>14, <1>25, <2>1, <2>2
<1>26. ASSUME Passed(new) PROVE u.quality = "sound"
  <2>1. PICK j \in DOMAIN new : new[j].state = "pass"
    BY <1>26 DEF Passed
  <2>2. CASE new[j] = a
    BY <1>14, <2>1, <2>2 DEF BriefAuditStands
  <2>3. CASE \E i \in DOMAIN log : log[i] = new[j]
    BY <1>14, <2>1, <2>3 DEF BriefOK, Passed
  <2>4. QED
    BY <2>2, <2>3, PlacedEntries
<1>27. ASSUME ~Overlapped(new)
       PROVE  /\ u.gate = Latest(new)
              /\ Latest(new) = "pass" => u.handoff = "eligible"
              /\ u.handoff = "eligible" /\ f \notin O => Latest(new) = "pass"
  <2>1. a.saw = Len(log) /\ ~Overlapped(log) /\ Latest(new) = a.state
    BY <1>27, PlacedLast DEF Audit
  <2>2. /\ c.gate = b.gate /\ (c.handoff = "eligible" => b.handoff = "eligible")
        /\ f \notin O => c.handoff = b.handoff
    BY <1>1, <2>1 DEF BriefAuditStands, HandoffCopied
  <2>3. u.gate = v /\ (h = "eligible" => u.handoff = "eligible") /\ (f \notin O => u.handoff = h)
    BY <1>14, <2>2
  <2>4. QED
    BY <1>2, <1>4, <2>1, <2>3
<1>28. BriefOK(u, new, f, O)
  BY <1>22, <1>23, <1>24, <1>25, <1>26, <1>27 DEF BriefOK
<1>29. QED
  BY <1>13, <1>17, <1>18, <1>28

LEMMA HandedOverRow ==
    ASSUME NEW log \in Seq(Audit), NEW f, NEW O, NEW O2, NEW b \in Brief, BriefOK(b, log, f, O),
           NEW t, HandOverOK(t), HandOverStands(t, log, f, O), f \in O => f \in O2,
           t.copy.handoff = "blocked" /\ t.saw < t.read /\ t.read < Len(log) => f \in O2,
           NEW u, u = Update(b, t.copy, [t.copy EXCEPT !.handoff = "eligible"])
    PROVE  u \in Brief /\ BriefLater(b, u, log, log, f, O, O2) /\ BriefOK(u, log, f, O2)
<1>1. PICK c \in Brief : c = t.copy
  BY DEF HandOverOK, LoadOK
<1>2. PICK w : w = [c EXCEPT !.handoff = "eligible"]
  OBVIOUS
<1>3. /\ w \in Brief /\ w.quality = c.quality /\ w.gate = c.gate /\ w.handoff = "eligible"
      /\ w.passed = c.passed /\ w.blocked = c.blocked
  BY <1>2 DEF Brief
<1>4. u = Update(b, c, w)
  BY <1>1, <1>2
<1>5. /\ u \in Brief
      /\ u.quality = IF w.quality = c.quality THEN b.quality ELSE w.quality
      /\ u.gate = IF w.gate = c.gate THEN b.gate ELSE w.gate
      /\ u.handoff = IF w.handoff = c.handoff THEN b.handoff ELSE w.handoff
      /\ u.passed = IF w.passed = c.passed THEN b.passed ELSE w.passed
      /\ u.blocked = IF w.blocked = c.blocked THEN b.blocked ELSE w.blocked
  BY <1>3, <1>4, UpdatedBrief
<1>6. /\ u.quality = b.quality /\ u.gate = b.gate /\ u.passed = b.passed /\ u.blocked = b.blocked
      /\ u.handoff = IF c.handoff = "eligible" THEN b.handoff ELSE "eligible"
  BY <1>3, <1>5
<1>7. Passed(log) /\ u # NoRow
  BY <1>5, RowsAreRows DEF HandOverStands
<1>8. ASSUME ~Overlapped(log), f \notin O2 PROVE u.handoff = b.handoff
  <2>1. CASE c.handoff = "eligible"
    BY <1>6, <2>1
  <2>2. CASE c.handoff = "blocked"
    <3>1. t.saw \in Nat /\ t.read \in Nat /\ Len(log) \in Nat
      BY SamePlace DEF HandOverOK, LoadOK
    <3>2. t.saw <= t.read /\ t.saw # t.read /\ t.read <= Len(log)
      BY <1>1, <1>8, <2>2 DEF HandOverStands
    <3>3. ~(t.saw < t.read /\ t.read < Len(log))
      BY <1>1, <1>8, <2>2
    <3>4. t.read = Len(log)
      BY <3>1, <3>2, <3>3
    <3>5. Latest(log) = "pass"
      BY <3>4 DEF HandOverStands
    <3>6. b.handoff = "eligible"
      BY <1>8, <3>5 DEF BriefOK
    <3>7. QED
      BY <1>6, <3>6
  <2>3. QED
    BY <2>1, <2>2 DEF Brief
<1>9. b.handoff = "eligible" => u.handoff = "eligible"
  BY <1>6
<1>10. BriefLater(b, u, log, log, f, O, O2)
  BY <1>6, <1>7, <1>8, <1>9, LaterSame DEF BriefLater
<1>11. ASSUME ~Overlapped(log)
       PROVE  /\ u.gate = Latest(log)
              /\ Latest(log) = "pass" => u.handoff = "eligible"
              /\ u.handoff = "eligible" /\ f \notin O2 => Latest(log) = "pass"
  <2>1. /\ b.gate = Latest(log)
        /\ Latest(log) = "pass" => b.handoff = "eligible"
        /\ b.handoff = "eligible" /\ f \notin O => Latest(log) = "pass"
    BY <1>11 DEF BriefOK
  <2>2. QED
    BY <1>6, <1>8, <1>9, <1>11, <2>1
<1>12. BriefOK(u, log, f, O2)
  BY <1>6, <1>7, <1>11 DEF BriefOK
<1>13. QED
  BY <1>5, <1>10, <1>12

LEMMA NewBriefRow ==
    ASSUME NEW log, log = <<>>, NEW f, NEW O, NEW quality \in Quality, NEW u, u = NewBrief(quality)
    PROVE  u \in Brief /\ BriefLater(NoRow, u, log, log, f, O, O) /\ BriefOK(u, log, f, O)
<1>1. /\ u \in Brief /\ u.gate = "not_run" /\ u.handoff = "blocked" /\ u.passed = 0 /\ u.blocked = 0
  BY DEF NewBrief, Brief, Gate
<1>2. /\ log \in Seq(Audit) /\ Counted(log, {"pass"}) = 0 /\ Counted(log, NotPass) = 0
      /\ ~Passed(log) /\ Latest(log) = "not_run"
  BY EmptyLog
<1>3. BriefOK(u, log, f, O)
  BY <1>1, <1>2 DEF BriefOK
<1>4. BriefLater(NoRow, u, log, log, f, O, O)
  BY <1>2, LaterSame DEF BriefLater
<1>5. QED
  BY <1>1, <1>3, <1>4

\* A step that changes tables leaves the request of one session.
LEMMA Ended ==
    ASSUME ChainInv, NEW s \in Session, tx' = [tx EXCEPT ![s] = Idle], Tables', Moves,
           research_runs' \in ResearchRuns, strategy_runs' \in StrategyRuns,
           ResearchInv', StrategyInv', RunsCount'
    PROVE  ChainInv'
<1>1. DOMAIN tx' = Session /\ tx'[s] = Idle /\ \A r \in Session : r # s => tx'[r] = tx[r]
  BY DEF ChainInv, TypeOK
<1>2. TypeOK'
  <2>1. \A r \in Session : tx'[r] = Idle \/ tx'[r] \in ResearchRequest \/ StrategyRequest(tx'[r])
    BY <1>1 DEF ChainInv, TypeOK
  <2>2. QED
    BY <1>1, <2>1 DEF TypeOK, Tables, StrategyAudit
<1>3. Tables
  BY Typed DEF ChainInv
<1>4. ASSUME NEW t, t = Idle \/ \E r \in Session : t = tx[r] PROVE RequestStands(t)'
  <2>1. CASE t = Idle
    BY <2>1 DEF RequestStands, Idle
  <2>2. ASSUME NEW r \in Session, t = tx[r] PROVE RequestStands(t)'
    <3>1. IsRequest(t) /\ RequestStands(t)
      BY <2>2 DEF ChainInv, TypeOK, IsRequest
    <3>2. QED
      BY <1>3, <3>1, RequestStays
  <2>3. QED
    BY <1>4, <2>1, <2>2
<1>5. \A r \in Session : RequestStands(tx[r])'
  BY <1>1, <1>4
<1>6. QED
  BY <1>2, <1>5 DEF ChainInv

Advance(k) == RowLater(opportunities[k], opportunities'[k], evidence[k].of, evidence'[k].of,
                       research_audits[k], research_audits'[k])
BriefAdvance(f) == BriefLater(strategy_briefs[f], strategy_briefs'[f],
                              strategy_audits[f], strategy_audits'[f], f, overtaken, overtaken')

\* What a step leaves of one opportunity.
RowHolds(k) ==
    /\ opportunities[k] = NoRow => research_audits[k] = <<>>
    /\ opportunities[k] # NoRow => FoundOK(opportunities[k], evidence[k].of, research_audits[k])
    /\ AuditsOK(evidence[k].of, research_audits[k])
BriefHolds(f) ==
    /\ strategy_briefs[f] = NoRow => strategy_audits[f] = <<>>
    /\ strategy_briefs[f] # NoRow => BriefOK(strategy_briefs[f], strategy_audits[f], f, overtaken)
    /\ Ordered(strategy_audits[f])

\* Nothing happens to what is left alone.
LEMMA RowLeftAlone ==
    ASSUME ChainInv, NEW k \in Key, opportunities'[k] = opportunities[k], evidence'[k].of = evidence[k].of,
           research_audits'[k] = research_audits[k]
    PROVE  Advance(k) /\ RowHolds(k)'
<1>1. evidence[k].of \in [Text -> Nat] /\ research_audits[k] \in Seq(Audit)
  BY Typed DEF ChainInv, Tables, Evidence
<1>2. RowHolds(k)
  BY DEF ChainInv, ResearchInv, RowHolds
<1>3. RowHolds(k)'
  BY <1>2 DEF RowHolds
<1>4. QED
  BY <1>1, <1>3, RowSame DEF Advance

LEMMA BriefLeftAlone ==
    ASSUME ChainInv, NEW f \in Fingerprint, strategy_briefs'[f] = strategy_briefs[f],
           strategy_audits'[f] = strategy_audits[f], f \in overtaken' <=> f \in overtaken
    PROVE  BriefAdvance(f) /\ BriefHolds(f)'
<1>1. strategy_audits[f] \in Seq(Audit)
  BY Typed DEF ChainInv, Tables
<1>2. BriefHolds(f)
  BY DEF ChainInv, StrategyInv, BriefHolds
<1>3. BriefHolds(f)'
  BY <1>2 DEF BriefHolds, BriefOK
<1>4. QED
  BY <1>1, <1>3, BriefSame DEF BriefAdvance

\* What is needed of a step's tables, row by row; a brief it writes rests on opportunities
\* that are eligible.
LEMMA RowByRow ==
    ASSUME ChainInv, \A k \in Key : Advance(k) /\ RowHolds(k)',
           \A f \in Fingerprint : BriefAdvance(f) /\ BriefHolds(f)',
           \A f \in Fingerprint : strategy_briefs[f] = NoRow /\ strategy_briefs'[f] # NoRow =>
               \A k \in f : opportunities'[k] # NoRow /\ opportunities'[k].strategist = "eligible"
    PROVE  Moves /\ ResearchInv' /\ StrategyInv'
<1>1. Moves
  BY DEF Moves, Advance, BriefAdvance
<1>2. ResearchInv'
  BY DEF ResearchInv, RowHolds
<1>3. ASSUME NEW f \in Fingerprint, strategy_briefs'[f] # NoRow, NEW k \in f
      PROVE  opportunities'[k] # NoRow /\ opportunities'[k].strategist = "eligible"
  <2>1. CASE strategy_briefs[f] = NoRow
    BY <1>3, <2>1
  <2>2. CASE strategy_briefs[f] # NoRow
    <3>1. k \in Key
      BY <1>3, FingerprintKeys
    <3>2. opportunities[k] # NoRow /\ opportunities[k].strategist = "eligible"
      BY <1>3, <2>2 DEF ChainInv, StrategyInv
    <3>3. Advance(k)
      BY <3>1
    <3>4. QED
      BY <3>2, <3>3 DEF Advance, RowLater
  <2>3. QED
    BY <2>1, <2>2
<1>4. StrategyInv'
  BY <1>3 DEF StrategyInv, BriefHolds
<1>5. QED
  BY <1>1, <1>2, <1>4

LEMMA TablesFinite ==
    IsFiniteSet(Key) /\ IsFiniteSet(Fingerprint) /\ IsFiniteSet(Found) /\ IsFiniteSet(Written)
<1>1. IsFiniteSet(SUBSET Page)
  BY ChainAssumption, FS_SUBSET
<1>2. IsFiniteSet(Key)
  BY <1>1, FS_Subset DEF Key
<1>3. IsFiniteSet(SUBSET Key)
  BY <1>2, FS_SUBSET
<1>4. IsFiniteSet(Fingerprint)
  BY <1>3, FS_Subset DEF Fingerprint, StrategyLinks
<1>5. QED
  BY <1>2, <1>4, FS_Subset DEF Found, Written

LEMMA RecordedKeeps ==
    ASSUME ChainInv, NEW s \in Session, EndRecord(s), DOMAIN tx[s].found # {}
    PROVE  ChainInv'
<1>1. PICK t : t = tx[s]
  OBVIOUS
<1>2. t.op = "record" /\ IsRequest(t) /\ RecordOK(t) /\ RequestStands(t)
      /\ tx' = [tx EXCEPT ![s] = Idle]
  BY <1>1, RequestKinds DEF EndRecord, End, ChainInv, TypeOK, IsRequest
<1>3. PICK found \in Findings : found = t.found
  BY <1>2 DEF RecordOK
<1>4. PICK k \in Key : k = DOMAIN found
  BY <1>1, <1>3, FoundKeys
<1>5. k \in SUBSET Page /\ k # {} /\ found \in [k -> Source]
  BY <1>3, <1>4 DEF Findings, Key
<1>6. PICK n : n = Cardinality(k)
  OBVIOUS
<1>7. n \in Nat /\ n # 0
  BY <1>5, <1>6, ChainAssumption, FS_Subset, FS_CardinalityType, FS_EmptySet
<1>8. PICK e : e = evidence[k]
  OBVIOUS
<1>9. e \in Evidence /\ e.of \in [Text -> Nat]
  BY <1>8, Typed DEF ChainInv, Tables, Evidence
<1>10. PICK more : more = [x \in Text |-> e.of[x] + Cardinality(About(found, x))]
  OBVIOUS
<1>11. /\ more \in [Text -> Nat] /\ \A x \in Text : e.of[x] <= more[x]
       /\ Weight(e.of) + n <= Weight(more) /\ \E x \in Text : more[x] > 0
  BY <1>5, <1>6, <1>9, <1>10, LinkedGrows
<1>12. PICK o : o = opportunities[k]
  OBVIOUS
<1>13. PICK u : u = Recorded(k, t.copy, n)
  OBVIOUS
<1>14. /\ t.copy = NoRow => o = NoRow
       /\ research_runs' = [research_runs EXCEPT !["succeeded"] = @ + 1]
       /\ opportunities' = [opportunities EXCEPT ![k] = u]
       /\ evidence' = [evidence EXCEPT ![k] = Linked(@, found)]
       /\ UNCHANGED <<research_audits, strategy>>
  BY <1>1, <1>3, <1>4, <1>5, <1>6, <1>12, <1>13 DEF EndRecord
<1>15. Linked(e, found) \in Evidence /\ Linked(e, found).of = more
  <2>1. PICK stale \in BOOLEAN : stale = (e.stale \/ \E p \in DOMAIN found : found[p][2])
    <3>1. (e.stale \/ \E p \in DOMAIN found : found[p][2]) \in BOOLEAN
      OBVIOUS
    <3>2. QED
      BY <3>1
  <2>2. Linked(e, found) = [of |-> more, stale |-> stale]
    BY <1>10, <2>1 DEF Linked, About
  <2>3. QED
    BY <1>11, <2>2 DEF Evidence
<1>16. PICK log \in Seq(Audit) : log = research_audits[k]
  BY Typed DEF ChainInv, Tables
<1>17. AuditsOK(e.of, log) /\ (o = NoRow => log = <<>>) /\ (o # NoRow => FoundOK(o, e.of, log))
       /\ o \in Opportunity \cup {NoRow}
  BY <1>8, <1>12, <1>16, Typed DEF ChainInv, ResearchInv, Tables
<1>18. u \in Opportunity /\ RowLater(o, u, e.of, more, log, log) /\ FoundOK(u, more, log) /\ AuditsOK(more, log)
  <2>1. CASE t.copy = NoRow
    <3>1. u = NewOpportunity(n) /\ o = NoRow /\ log = <<>>
      BY <1>13, <1>14, <1>17, <2>1 DEF Recorded
    <3>2. u \in Opportunity /\ RowLater(NoRow, u, e.of, more, log, log) /\ FoundOK(u, more, log) /\ AuditsOK(more, log)
      BY <1>7, <1>9, <1>11, <1>17, <3>1, NewRow
    <3>3. QED
      BY <3>1, <3>2
  <2>2. CASE t.copy # NoRow
    <3>1. PICK c \in Opportunity : c = t.copy
      BY <1>2, <2>2 DEF RecordOK
    <3>2. CopyOf(c, o, e.of, log)
      BY <1>2, <1>3, <1>4, <1>8, <1>12, <1>16, <2>2, <3>1 DEF RequestStands, Copied
    <3>3. o \in Opportunity /\ FoundOK(o, e.of, log)
      BY <1>17, <3>2 DEF CopyOf
    <3>4. u = Update(o, c, [c EXCEPT !.source_count = @ + n])
      BY <1>12, <1>13, <2>2, <3>1 DEF Recorded
    <3>5. QED
      BY <1>7, <1>9, <1>11, <1>17, <3>2, <3>3, <3>4, RecordedRow
  <2>3. QED
    BY <2>1, <2>2
<1>19. Tables
  BY Typed DEF ChainInv
<1>20. /\ opportunities'[k] = u /\ \A r \in Key : r # k => opportunities'[r] = opportunities[r]
       /\ evidence'[k].of = more /\ \A r \in Key : r # k => evidence'[r] = evidence[r]
       /\ research_audits' = research_audits /\ strategy_briefs' = strategy_briefs
       /\ strategy_audits' = strategy_audits /\ strategy_runs' = strategy_runs /\ overtaken' = overtaken
       /\ opportunities' \in [Key -> Opportunity \cup {NoRow}] /\ evidence' \in [Key -> Evidence]
  BY <1>8, <1>14, <1>15, <1>18, <1>19 DEF Tables, strategy
<1>21. Tables'
  BY <1>19, <1>20 DEF Tables
<1>22. u # NoRow
  BY <1>18, RowsAreRows
<1>23. ASSUME NEW r \in Key PROVE Advance(r) /\ RowHolds(r)'
  <2>1. CASE r = k
    <3>1. Advance(k)
      BY <1>8, <1>12, <1>16, <1>18, <1>20 DEF Advance
    <3>2. RowHolds(k)'
      BY <1>16, <1>18, <1>20, <1>22 DEF RowHolds
    <3>3. QED
      BY <2>1, <3>1, <3>2
  <2>2. CASE r # k
    BY <1>20, <2>2, RowLeftAlone
  <2>3. QED
    BY <2>1, <2>2
<1>24. \A f \in Fingerprint : BriefAdvance(f) /\ BriefHolds(f)'
  BY <1>20, BriefLeftAlone
<1>25. Moves /\ ResearchInv' /\ StrategyInv'
  BY <1>20, <1>23, <1>24, RowByRow
<1>26. research_runs \in ResearchRuns /\ strategy_runs \in StrategyRuns /\ RunsCount
  BY DEF ChainInv, TypeOK
<1>27. /\ research_runs' \in ResearchRuns /\ strategy_runs' \in StrategyRuns
       /\ research_runs'["succeeded"] = research_runs["succeeded"] + 1
       /\ research_runs["succeeded"] \in Nat
  BY <1>14, <1>20, <1>26 DEF ResearchRuns
<1>28. RunsCount'
  <2>1. Found' = Found \cup {k}
    BY <1>20, <1>22 DEF Found
  <2>2. /\ Cardinality(Found) \in Nat /\ Cardinality(Found)' \in Nat
        /\ Cardinality(Found)' <= Cardinality(Found) + 1
    <3>1. IsFiniteSet(Found)
      BY TablesFinite
    <3>2. PICK n1 : n1 = Cardinality(Found)
      OBVIOUS
    <3>3. n1 \in Nat
      BY <3>1, <3>2, FS_CardinalityType
    <3>4. Cardinality(Found \cup {k}) = IF k \in Found THEN n1 ELSE n1 + 1
      BY <3>1, <3>2, FS_AddElement, Zenon
    <3>5. Cardinality(Found)' = IF k \in Found THEN n1 ELSE n1 + 1
      BY <2>1, <3>4
    <3>6. QED
      BY <3>2, <3>3, <3>5
  <2>3. Written' = Written
    BY <1>20 DEF Written
  <2>4. PICK m \in Nat : m = Cardinality(Found)
    BY <2>2
  <2>5. PICK n2 \in Nat : n2 = Cardinality(Found)'
    BY <2>2
  <2>6. m <= research_runs["succeeded"] /\ n2 <= m + 1
    BY <1>26, <2>2, <2>4, <2>5 DEF RunsCount
  <2>7. n2 <= research_runs'["succeeded"]
    BY <1>27, <2>6
  <2>8. Cardinality(Written)' = Cardinality(Written) /\ strategy_runs' = strategy_runs
    BY <1>20, <2>3
  <2>9. Cardinality(Written)' = strategy_runs'["succeeded"]
    BY <1>26, <2>8 DEF RunsCount
  <2>10. QED
    BY <2>5, <2>7, <2>9 DEF RunsCount
<1>29. tx' = [tx EXCEPT ![s] = Idle]
  BY <1>2
<1>30. research_runs' \in ResearchRuns /\ strategy_runs' \in StrategyRuns
  BY <1>27
<1>31. QED
  BY <1>21, <1>25, <1>28, <1>29, <1>30, Ended, Zenon

\* A request that fails, or has found nothing, leaves the tables alone.
LEMMA NothingWritten ==
    ASSUME ChainInv, NEW s \in Session, tx' = [tx EXCEPT ![s] = Idle],
           UNCHANGED <<opportunities, evidence, research_audits, strategy>>,
           research_runs' \in ResearchRuns, research_runs'["succeeded"] = research_runs["succeeded"]
    PROVE  ChainInv'
<1>1. /\ opportunities' = opportunities /\ evidence' = evidence /\ research_audits' = research_audits
      /\ strategy_briefs' = strategy_briefs /\ strategy_audits' = strategy_audits /\ overtaken' = overtaken
      /\ strategy_runs' = strategy_runs
  BY DEF strategy
<1>2. Tables'
  BY <1>1, Typed DEF ChainInv, Tables
<1>3. Moves /\ ResearchInv' /\ StrategyInv'
  BY <1>1, RowLeftAlone, BriefLeftAlone, RowByRow
<1>4. Found' = Found /\ Written' = Written
  BY <1>1 DEF Found, Written
<1>5. RunsCount' /\ strategy_runs' \in StrategyRuns
  BY <1>1, <1>4 DEF ChainInv, RunsCount, TypeOK
<1>6. QED
  BY <1>2, <1>3, <1>5, Ended

LEMMA EndRecordKeeps == ASSUME ChainInv, NEW s \in Session, EndRecord(s) PROVE ChainInv'
<1>1. CASE DOMAIN tx[s].found # {}
  BY <1>1, RecordedKeeps
<1>2. CASE DOMAIN tx[s].found = {}
  <2>1. /\ research_runs' = [research_runs EXCEPT !["failed"] = @ + 1]
        /\ UNCHANGED <<opportunities, evidence, research_audits, strategy>>
        /\ tx' = [tx EXCEPT ![s] = Idle]
    BY <1>2 DEF EndRecord, End
  <2>2. research_runs \in ResearchRuns
    BY DEF ChainInv, TypeOK
  <2>3. research_runs' \in ResearchRuns /\ research_runs'["succeeded"] = research_runs["succeeded"]
    BY <2>1, <2>2 DEF ResearchRuns
  <2>4. QED
    BY <2>1, <2>3, NothingWritten
<1>3. QED
  BY <1>1, <1>2

LEMMA RollBackKeeps == ASSUME ChainInv, NEW s \in Session, RollBack(s) PROVE ChainInv'
<1>1. /\ tx' = [tx EXCEPT ![s] = Idle] /\ research_runs' = research_runs
      /\ UNCHANGED <<opportunities, evidence, research_audits, strategy>>
  BY DEF RollBack, research
<1>2. research_runs' \in ResearchRuns /\ research_runs'["succeeded"] = research_runs["succeeded"]
  BY <1>1 DEF ChainInv, TypeOK
<1>3. QED
  BY <1>1, <1>2, NothingWritten

LEMMA RequestResearchKeeps == ASSUME ChainInv, RequestResearch PROVE ChainInv'
<1>1. /\ opportunities' = opportunities /\ evidence' = evidence /\ research_audits' = research_audits
      /\ strategy_briefs' = strategy_briefs /\ strategy_audits' = strategy_audits /\ overtaken' = overtaken
      /\ strategy_runs' = strategy_runs /\ tx' = tx
      /\ research_runs' = [research_runs EXCEPT !["provider_not_configured"] = @ + 1]
  BY DEF RequestResearch, strategy
<1>2. research_runs' \in ResearchRuns /\ research_runs'["succeeded"] = research_runs["succeeded"]
  BY <1>1 DEF ChainInv, TypeOK, ResearchRuns
<1>3. TypeOK'
  BY <1>1, <1>2 DEF ChainInv, TypeOK
<1>4. ResearchInv' /\ StrategyInv'
  BY <1>1 DEF ChainInv, ResearchInv, StrategyInv
<1>5. \A u : RequestStands(u) => RequestStands(u)'
  BY <1>1 DEF RequestStands, Copied, BriefCopied
<1>6. \A r \in Session : RequestStands(tx[r])'
  BY <1>1, <1>5 DEF ChainInv
<1>7. Found' = Found /\ Written' = Written
  BY <1>1 DEF Found, Written
<1>8. RunsCount'
  BY <1>1, <1>2, <1>7 DEF ChainInv, RunsCount
<1>9. QED
  BY <1>3, <1>4, <1>6, <1>8 DEF ChainInv

\* The audit a request writes, and where it comes.
LEMMA AuditWritten ==
    ASSUME NEW log \in Seq(Audit), NEW t, t.verdict \in Verdict, t.saw \in Nat,
           NEW new \in Inserted(log, NewAudit(log, t))
    PROVE  \E a \in Audit : \E p \in Nat :
               /\ Placed(log, new, a, p)
               /\ a.state = t.verdict /\ a.saw = t.saw /\ a.nth = Len(log) + 1
<1>1. PICK a : a = NewAudit(log, t)
  OBVIOUS
<1>2. a \in Audit /\ a.state = t.verdict /\ a.saw = t.saw /\ a.nth = Len(log) + 1
  BY <1>1, SamePlace DEF NewAudit, Audit
<1>3. \E p \in Nat : Placed(log, new, a, p)
  BY <1>1, <1>2, InsertedPlaced
<1>4. QED
  BY <1>2, <1>3

LEMMA EndAuditKeeps == ASSUME ChainInv, NEW s \in Session, EndAudit(s) PROVE ChainInv'
<1>1. PICK t : t = tx[s]
  OBVIOUS
<1>2. t.op = "audit" /\ IsRequest(t) /\ AuditOK(t) /\ RequestStands(t)
      /\ tx' = [tx EXCEPT ![s] = Idle]
  BY <1>1, RequestKinds DEF EndAudit, End, ChainInv, TypeOK, IsRequest
<1>3. PICK k \in Key : k = t.on
  BY <1>2 DEF AuditOK
<1>4. PICK o : o = opportunities[k]
  OBVIOUS
<1>5. PICK of \in [Text -> Nat] : of = evidence[k].of
  BY Typed DEF ChainInv, Tables, Evidence
<1>6. PICK log \in Seq(Audit) : log = research_audits[k]
  BY Typed DEF ChainInv, Tables
<1>7. PICK u : u = Update(o, t.copy, AuditedOpportunity(t.copy, t.verdict))
  OBVIOUS
<1>8. PICK new \in Inserted(log, NewAudit(log, t)) : research_audits' = [research_audits EXCEPT ![k] = new]
  BY <1>1, <1>3, <1>6 DEF EndAudit
<1>9. opportunities' = [opportunities EXCEPT ![k] = u] /\ UNCHANGED <<research_runs, evidence, strategy>>
  BY <1>1, <1>3, <1>4, <1>7 DEF EndAudit
<1>10. t.verdict \in Verdict /\ t.saw \in Nat
  BY <1>2 DEF AuditOK
<1>11. PICK a \in Audit : \E p \in Nat :
          /\ Placed(log, new, a, p)
          /\ a.state = t.verdict /\ a.saw = t.saw /\ a.nth = Len(log) + 1
  BY <1>10, AuditWritten
<1>12. PICK p \in Nat : /\ Placed(log, new, a, p)
                        /\ a.state = t.verdict /\ a.saw = t.saw /\ a.nth = Len(log) + 1
  BY <1>11
<1>13. CopyOf(t.copy, o, of, log) /\ AuditStands(t, o, of, log)
  BY <1>2, <1>3, <1>4, <1>5, <1>6 DEF RequestStands, Copied
<1>14. o \in Opportunity /\ FoundOK(o, of, log) /\ AuditsOK(of, log)
  <2>1. o # NoRow
    BY <1>13 DEF CopyOf
  <2>2. QED
    BY <1>4, <1>5, <1>6, <2>1, Typed DEF ChainInv, ResearchInv, Tables
<1>15. u \in Opportunity /\ RowLater(o, u, of, of, log, new) /\ FoundOK(u, of, new)
  BY <1>2, <1>7, <1>12, <1>13, <1>14, AuditedRow
<1>16. AuditsOK(of, new)
  BY <1>12, <1>13, <1>14, AuditedLog
<1>17. new \in Seq(Audit)
  BY <1>12 DEF Placed
<1>18. Tables
  BY Typed DEF ChainInv
<1>19. /\ opportunities'[k] = u /\ \A r \in Key : r # k => opportunities'[r] = opportunities[r]
       /\ research_audits'[k] = new /\ \A r \in Key : r # k => research_audits'[r] = research_audits[r]
       /\ evidence' = evidence /\ strategy_briefs' = strategy_briefs
       /\ strategy_audits' = strategy_audits /\ strategy_runs' = strategy_runs /\ overtaken' = overtaken
       /\ research_runs' = research_runs
       /\ opportunities' \in [Key -> Opportunity \cup {NoRow}] /\ research_audits' \in [Key -> Seq(Audit)]
  BY <1>8, <1>9, <1>15, <1>17, <1>18 DEF Tables, strategy
<1>20. Tables'
  BY <1>18, <1>19 DEF Tables
<1>21. u # NoRow /\ o # NoRow
  BY <1>14, <1>15, RowsAreRows
<1>22. ASSUME NEW r \in Key PROVE Advance(r) /\ RowHolds(r)'
  <2>1. CASE r = k
    <3>1. Advance(k)
      BY <1>4, <1>5, <1>6, <1>15, <1>19 DEF Advance
    <3>2. RowHolds(k)'
      BY <1>5, <1>15, <1>16, <1>19, <1>21 DEF RowHolds
    <3>3. QED
      BY <2>1, <3>1, <3>2
  <2>2. CASE r # k
    BY <1>19, <2>2, RowLeftAlone
  <2>3. QED
    BY <2>1, <2>2
<1>23. \A f \in Fingerprint : BriefAdvance(f) /\ BriefHolds(f)'
  BY <1>19, BriefLeftAlone
<1>24. Moves /\ ResearchInv' /\ StrategyInv'
  BY <1>19, <1>22, <1>23, RowByRow
<1>25. Found' = Found /\ Written' = Written
  BY <1>4, <1>19, <1>21 DEF Found, Written
<1>26. RunsCount' /\ research_runs' \in ResearchRuns /\ strategy_runs' \in StrategyRuns
  BY <1>19, <1>25 DEF ChainInv, RunsCount, TypeOK
<1>27. QED
  BY <1>2, <1>20, <1>24, <1>26, Ended

\* Every opportunity a request admits is left eligible, and nothing else changes in research.
LEMMA Admitting ==
    ASSUME ChainInv, NEW t, t.on \in SUBSET Key, t.copy \in [t.on -> Opportunity],
           \A k \in t.on : Copied(k, t.copy[k]) /\ Passed(research_audits[k]),
           opportunities' = Admitted(t), UNCHANGED <<evidence, research_audits>>
    PROVE  /\ opportunities' \in [Key -> Opportunity \cup {NoRow}]
           /\ \A k \in Key : Advance(k) /\ RowHolds(k)'
           /\ \A k \in t.on : opportunities'[k] # NoRow /\ opportunities'[k].strategist = "eligible"
           /\ Found' = Found
<1>1. ASSUME NEW k \in t.on
      PROVE  /\ opportunities[k] # NoRow /\ opportunities'[k] \in Opportunity
             /\ opportunities'[k].strategist = "eligible"
             /\ Advance(k) /\ RowHolds(k)'
  <2>1. PICK c \in Opportunity : c = t.copy[k]
    BY <1>1
  <2>2. PICK o : o = opportunities[k]
    OBVIOUS
  <2>3. k \in Key
    BY <1>1
  <2>4. PICK of \in [Text -> Nat] : of = evidence[k].of
    BY <2>3, Typed DEF ChainInv, Tables, Evidence
  <2>5. PICK log \in Seq(Audit) : log = research_audits[k]
    BY <2>3, Typed DEF ChainInv, Tables
  <2>6. CopyOf(c, o, of, log) /\ Passed(log)
    BY <1>1, <2>1, <2>2, <2>4, <2>5 DEF Copied
  <2>7. o # NoRow
    BY <2>6 DEF CopyOf
  <2>8. o \in Opportunity /\ FoundOK(o, of, log) /\ AuditsOK(of, log)
    BY <2>2, <2>3, <2>4, <2>5, <2>7, Typed DEF ChainInv, ResearchInv, Tables
  <2>9. PICK u : u = Update(o, c, [c EXCEPT !.strategist = "eligible"])
    OBVIOUS
  <2>10. u \in Opportunity /\ u.strategist = "eligible" /\ RowLater(o, u, of, of, log, log) /\ FoundOK(u, of, log)
    BY <2>6, <2>8, <2>9, AdmittedRow
  <2>11. opportunities'[k] = u /\ evidence'[k].of = of /\ research_audits'[k] = log
    BY <1>1, <2>1, <2>2, <2>3, <2>4, <2>5, <2>9 DEF Admitted
  <2>12. u # NoRow
    BY <2>10, RowsAreRows
  <2>13. Advance(k)
    BY <2>2, <2>4, <2>5, <2>10, <2>11 DEF Advance
  <2>14. RowHolds(k)'
    BY <2>8, <2>10, <2>11, <2>12 DEF RowHolds
  <2>15. QED
    BY <2>2, <2>7, <2>10, <2>11, <2>13, <2>14
<1>2. ASSUME NEW k \in Key, k \notin t.on PROVE opportunities'[k] = opportunities[k] /\ Advance(k) /\ RowHolds(k)'
  <2>1. opportunities'[k] = opportunities[k]
    BY <1>2 DEF Admitted
  <2>2. QED
    BY <2>1, RowLeftAlone
<1>3. \A k \in t.on : opportunities'[k] # NoRow
  BY <1>1, RowsAreRows
<1>4. opportunities' \in [Key -> Opportunity \cup {NoRow}]
  <2>1. \A k \in Key : opportunities'[k] \in Opportunity \cup {NoRow}
    BY <1>1, <1>2, Typed DEF ChainInv, Tables
  <2>2. opportunities' = [k \in Key |-> opportunities'[k]]
    BY DEF Admitted
  <2>3. QED
    BY <2>1, <2>2
<1>5. Found' = Found
  BY <1>1, <1>2, <1>3 DEF Found
<1>6. QED
  BY <1>1, <1>2, <1>3, <1>4, <1>5

LEMMA EndAdmitKeeps == ASSUME ChainInv, NEW s \in Session, EndAdmit(s) PROVE ChainInv'
<1>1. PICK t : t = tx[s]
  OBVIOUS
<1>2. t.op = "admit" /\ IsRequest(t) /\ AdmitOK(t) /\ RequestStands(t)
      /\ tx' = [tx EXCEPT ![s] = Idle]
  BY <1>1, RequestKinds DEF EndAdmit, End, ChainInv, TypeOK, IsRequest
<1>3. t.on \in SUBSET Key /\ t.copy \in [t.on -> Opportunity]
      /\ \A k \in t.on : Copied(k, t.copy[k]) /\ Passed(research_audits[k])
  BY <1>2 DEF AdmitOK, RequestStands
<1>4. /\ opportunities' = Admitted(t) /\ evidence' = evidence /\ research_audits' = research_audits
      /\ research_runs' = research_runs /\ strategy_briefs' = strategy_briefs
      /\ strategy_audits' = strategy_audits /\ overtaken' = overtaken
      /\ strategy_runs' = IF t.run THEN [strategy_runs EXCEPT !["provider_not_configured"] = @ + 1]
                          ELSE strategy_runs
  BY <1>1 DEF EndAdmit
<1>5. /\ opportunities' \in [Key -> Opportunity \cup {NoRow}]
      /\ \A k \in Key : Advance(k) /\ RowHolds(k)'
      /\ Found' = Found
  BY <1>3, <1>4, Admitting
<1>6. Tables'
  BY <1>4, <1>5, Typed DEF ChainInv, Tables
<1>7. \A f \in Fingerprint : BriefAdvance(f) /\ BriefHolds(f)'
  BY <1>4, BriefLeftAlone
<1>8. Moves /\ ResearchInv' /\ StrategyInv'
  BY <1>4, <1>5, <1>7, RowByRow
<1>9. strategy_runs' \in StrategyRuns /\ strategy_runs'["succeeded"] = strategy_runs["succeeded"]
  BY <1>4 DEF ChainInv, TypeOK, StrategyRuns
<1>10. Written' = Written
  BY <1>4 DEF Written
<1>11. RunsCount' /\ research_runs' \in ResearchRuns
  BY <1>4, <1>5, <1>9, <1>10 DEF ChainInv, RunsCount, TypeOK
<1>12. QED
  BY <1>2, <1>6, <1>8, <1>9, <1>11, Ended

LEMMA EndBriefKeeps == ASSUME ChainInv, NEW s \in Session, EndBrief(s) PROVE ChainInv'
<1>1. PICK t : t = tx[s]
  OBVIOUS
<1>2. t.op = "brief" /\ IsRequest(t) /\ BriefingOK(t) /\ RequestStands(t)
      /\ tx' = [tx EXCEPT ![s] = Idle]
  BY <1>1, RequestKinds DEF EndBrief, End, ChainInv, TypeOK, IsRequest
<1>3. PICK f \in Fingerprint : f = t.on
  BY <1>2 DEF BriefingOK
<1>4. t.on \in SUBSET Key /\ t.copy \in [t.on -> Opportunity] /\ t.quality \in Quality
      /\ \A k \in t.on : Copied(k, t.copy[k]) /\ Passed(research_audits[k])
  BY <1>2, <1>3, FingerprintKeys DEF BriefingOK, RequestStands
<1>5. /\ opportunities' = Admitted(t) /\ evidence' = evidence /\ research_audits' = research_audits
      /\ research_runs' = research_runs /\ strategy_audits' = strategy_audits /\ overtaken' = overtaken
  BY <1>1 DEF EndBrief
<1>6. /\ opportunities' \in [Key -> Opportunity \cup {NoRow}]
      /\ \A k \in Key : Advance(k) /\ RowHolds(k)'
      /\ \A k \in f : opportunities'[k] # NoRow /\ opportunities'[k].strategist = "eligible"
      /\ Found' = Found
  BY <1>3, <1>4, <1>5, Admitting
<1>7. Tables
  BY Typed DEF ChainInv
<1>8. strategy_runs \in StrategyRuns /\ research_runs' \in ResearchRuns /\ RunsCount
  BY <1>5 DEF ChainInv, TypeOK
<1>9. CASE t.found # NoRow
  <2>1. /\ strategy_briefs' = strategy_briefs
        /\ strategy_runs' = [strategy_runs EXCEPT !["duplicate"] = @ + 1]
    BY <1>1, <1>9 DEF EndBrief
  <2>2. Tables'
    BY <1>5, <1>6, <1>7, <2>1 DEF Tables
  <2>3. \A g \in Fingerprint : BriefAdvance(g) /\ BriefHolds(g)'
    BY <1>5, <2>1, BriefLeftAlone
  <2>4. Moves /\ ResearchInv' /\ StrategyInv'
    BY <1>6, <2>1, <2>3, RowByRow
  <2>5. strategy_runs' \in StrategyRuns /\ strategy_runs'["succeeded"] = strategy_runs["succeeded"]
    BY <1>8, <2>1 DEF StrategyRuns
  <2>6. Written' = Written
    BY <2>1 DEF Written
  <2>7. RunsCount'
    BY <1>5, <1>6, <1>8, <2>5, <2>6 DEF RunsCount
  <2>8. QED
    BY <1>2, <1>8, <2>2, <2>4, <2>5, <2>7, Ended
<1>10. CASE t.found = NoRow
  <2>1. PICK b : b = NewBrief(t.quality)
    OBVIOUS
  <2>2. /\ strategy_briefs[f] = NoRow /\ strategy_briefs' = [strategy_briefs EXCEPT ![f] = b]
        /\ strategy_runs' = [strategy_runs EXCEPT !["succeeded"] = @ + 1]
    BY <1>1, <1>3, <1>10, <2>1 DEF EndBrief
  <2>3. PICK log : log = strategy_audits[f]
    OBVIOUS
  <2>4. log = <<>> /\ Ordered(log)
    BY <2>2, <2>3 DEF ChainInv, StrategyInv
  <2>5. /\ b \in Brief /\ BriefLater(NoRow, b, log, log, f, overtaken, overtaken)
        /\ BriefOK(b, log, f, overtaken)
    BY <1>4, <2>1, <2>4, NewBriefRow
  <2>6. b # NoRow
    BY <2>5, RowsAreRows
  <2>7. /\ strategy_briefs'[f] = b /\ \A g \in Fingerprint : g # f => strategy_briefs'[g] = strategy_briefs[g]
        /\ strategy_briefs' \in [Fingerprint -> Brief \cup {NoRow}]
    BY <1>7, <2>2, <2>5 DEF Tables
  <2>8. Tables'
    BY <1>5, <1>6, <1>7, <2>7 DEF Tables
  <2>9. ASSUME NEW g \in Fingerprint PROVE BriefAdvance(g) /\ BriefHolds(g)'
    <3>1. CASE g = f
      <4>1. BriefAdvance(f)
        BY <1>5, <2>2, <2>3, <2>5, <2>7 DEF BriefAdvance
      <4>2. BriefHolds(f)'
        BY <1>5, <2>3, <2>4, <2>5, <2>6, <2>7 DEF BriefHolds
      <4>3. QED
        BY <3>1, <4>1, <4>2
    <3>2. CASE g # f
      BY <1>5, <2>7, <3>2, BriefLeftAlone
    <3>3. QED
      BY <3>1, <3>2
  <2>10. \A g \in Fingerprint : strategy_briefs[g] = NoRow /\ strategy_briefs'[g] # NoRow =>
            \A k \in g : opportunities'[k] # NoRow /\ opportunities'[k].strategist = "eligible"
    BY <1>6, <2>7
  <2>11. Moves /\ ResearchInv' /\ StrategyInv'
    BY <1>6, <2>9, <2>10, RowByRow
  <2>12. strategy_runs' \in StrategyRuns /\ strategy_runs'["succeeded"] = strategy_runs["succeeded"] + 1
    BY <1>8, <2>2 DEF StrategyRuns
  <2>13. Written' = Written \cup {f} /\ f \notin Written
    BY <2>2, <2>6, <2>7 DEF Written
  <2>14. Cardinality(Written)' = Cardinality(Written) + 1
    BY <2>13, TablesFinite, FS_AddElement
  <2>15. RunsCount'
    BY <1>5, <1>6, <1>8, <2>12, <2>14 DEF RunsCount
  <2>16. QED
    BY <1>2, <1>8, <2>8, <2>11, <2>12, <2>15, Ended
<1>11. QED
  BY <1>9, <1>10

\* A step that changes one brief that is there, or its audits.
LEMMA OneBrief ==
    ASSUME ChainInv, NEW s \in Session, tx' = [tx EXCEPT ![s] = Idle],
           UNCHANGED <<research, strategy_runs>>, NEW f \in Fingerprint,
           strategy_briefs[f] # NoRow, NEW u \in Brief, NEW new \in Seq(Audit),
           strategy_briefs' = [strategy_briefs EXCEPT ![f] = u],
           strategy_audits' = [strategy_audits EXCEPT ![f] = new],
           overtaken' \in {overtaken, overtaken \cup {f}},
           BriefLater(strategy_briefs[f], u, strategy_audits[f], new, f, overtaken, overtaken'),
           BriefOK(u, new, f, overtaken'), Ordered(new)
    PROVE  ChainInv'
<1>1. Tables
  BY Typed DEF ChainInv
<1>2. /\ opportunities' = opportunities /\ evidence' = evidence /\ research_audits' = research_audits
      /\ research_runs' = research_runs /\ strategy_runs' = strategy_runs
  BY DEF research
<1>3. /\ strategy_briefs'[f] = u /\ \A g \in Fingerprint : g # f => strategy_briefs'[g] = strategy_briefs[g]
      /\ strategy_audits'[f] = new /\ \A g \in Fingerprint : g # f => strategy_audits'[g] = strategy_audits[g]
      /\ strategy_briefs' \in [Fingerprint -> Brief \cup {NoRow}]
      /\ strategy_audits' \in [Fingerprint -> Seq(Audit)] /\ overtaken' \subseteq Fingerprint
      /\ \A g \in Fingerprint : g # f => (g \in overtaken' <=> g \in overtaken)
  BY <1>1 DEF Tables
<1>4. Tables'
  BY <1>1, <1>2, <1>3 DEF Tables
<1>5. u # NoRow
  BY RowsAreRows
<1>6. ASSUME NEW g \in Fingerprint PROVE BriefAdvance(g) /\ BriefHolds(g)'
  <2>1. CASE g = f
    <3>1. BriefAdvance(f)
      BY <1>3 DEF BriefAdvance
    <3>2. BriefHolds(f)'
      BY <1>3, <1>5 DEF BriefHolds
    <3>3. QED
      BY <2>1, <3>1, <3>2
  <2>2. CASE g # f
    BY <1>3, <2>2, BriefLeftAlone
  <2>3. QED
    BY <2>1, <2>2
<1>7. \A k \in Key : Advance(k) /\ RowHolds(k)'
  BY <1>2, RowLeftAlone
<1>8. \A g \in Fingerprint : strategy_briefs[g] = NoRow => strategy_briefs'[g] = NoRow
  BY <1>3
<1>9. Moves /\ ResearchInv' /\ StrategyInv'
  BY <1>6, <1>7, <1>8, RowByRow
<1>10. Found' = Found /\ Written' = Written
  BY <1>2, <1>3, <1>5 DEF Found, Written
<1>11. RunsCount' /\ research_runs' \in ResearchRuns /\ strategy_runs' \in StrategyRuns
  BY <1>2, <1>10 DEF ChainInv, RunsCount, TypeOK
<1>12. QED
  BY <1>4, <1>9, <1>11, Ended

LEMMA EndAuditBriefKeeps == ASSUME ChainInv, NEW s \in Session, EndAuditBrief(s) PROVE ChainInv'
<1>1. PICK t : t = tx[s]
  OBVIOUS
<1>2. t.op = "audit_brief" /\ IsRequest(t) /\ BriefAuditOK(t) /\ RequestStands(t)
      /\ tx' = [tx EXCEPT ![s] = Idle]
  BY <1>1, RequestKinds DEF EndAuditBrief, End, ChainInv, TypeOK, IsRequest
<1>3. PICK f \in Fingerprint : f = t.on
  BY <1>2 DEF BriefAuditOK
<1>4. PICK b : b = strategy_briefs[f]
  OBVIOUS
<1>5. PICK log \in Seq(Audit) : log = strategy_audits[f]
  BY Typed DEF ChainInv, Tables
<1>6. PICK u : u = Update(b, t.copy, AuditedBrief(t.copy, t.verdict))
  OBVIOUS
<1>7. PICK new \in Inserted(log, NewAudit(log, t)) : strategy_audits' = [strategy_audits EXCEPT ![f] = new]
  BY <1>1, <1>3, <1>5 DEF EndAuditBrief
<1>8. strategy_briefs' = [strategy_briefs EXCEPT ![f] = u] /\ UNCHANGED <<research, strategy_runs, overtaken>>
  BY <1>1, <1>3, <1>4, <1>6 DEF EndAuditBrief
<1>9. t.verdict \in Verdict /\ t.saw \in Nat
  BY <1>2 DEF BriefAuditOK
<1>10. PICK a \in Audit : \E p \in Nat :
          /\ Placed(log, new, a, p)
          /\ a.state = t.verdict /\ a.saw = t.saw /\ a.nth = Len(log) + 1
  BY <1>9, AuditWritten
<1>11. PICK p \in Nat : /\ Placed(log, new, a, p)
                        /\ a.state = t.verdict /\ a.saw = t.saw /\ a.nth = Len(log) + 1
  BY <1>10
<1>12. BriefCopyOf(t.copy, b, log) /\ BriefAuditStands(t, b, log, f, overtaken)
  BY <1>2, <1>3, <1>4, <1>5 DEF RequestStands, BriefCopied
<1>13. b # NoRow
  BY <1>12 DEF BriefCopyOf
<1>14. b \in Brief /\ BriefOK(b, log, f, overtaken) /\ Ordered(log)
  BY <1>4, <1>5, <1>13, Typed DEF ChainInv, StrategyInv, Tables
<1>15. /\ u \in Brief /\ BriefLater(b, u, log, new, f, overtaken, overtaken)
       /\ BriefOK(u, new, f, overtaken) /\ Ordered(new)
  BY <1>2, <1>6, <1>11, <1>12, <1>14, AuditedBriefRow
<1>16. new \in Seq(Audit)
  BY <1>11 DEF Placed
<1>17. QED
  BY <1>2, <1>4, <1>5, <1>7, <1>8, <1>13, <1>15, <1>16, OneBrief

LEMMA EndHandOverKeeps == ASSUME ChainInv, NEW s \in Session, EndHandOver(s) PROVE ChainInv'
<1>1. PICK t : t = tx[s]
  OBVIOUS
<1>2. t.op = "hand_over" /\ IsRequest(t) /\ HandOverOK(t) /\ RequestStands(t)
      /\ tx' = [tx EXCEPT ![s] = Idle]
  BY <1>1, RequestKinds DEF EndHandOver, End, ChainInv, TypeOK, IsRequest
<1>3. PICK f \in Fingerprint : f = t.on
  BY <1>2 DEF HandOverOK, LoadOK
<1>4. PICK b : b = strategy_briefs[f]
  OBVIOUS
<1>5. PICK log \in Seq(Audit) : log = strategy_audits[f]
  BY Typed DEF ChainInv, Tables
<1>6. PICK u : u = Update(b, t.copy, [t.copy EXCEPT !.handoff = "eligible"])
  OBVIOUS
<1>7. /\ strategy_briefs' = [strategy_briefs EXCEPT ![f] = u]
      /\ strategy_audits' = strategy_audits /\ UNCHANGED <<research, strategy_runs>>
      /\ overtaken' = IF Overtaken(t) THEN overtaken \cup {f} ELSE overtaken
  BY <1>1, <1>3, <1>4, <1>6 DEF EndHandOver
<1>8. BriefCopyOf(t.copy, b, log) /\ HandOverStands(t, log, f, overtaken)
  BY <1>2, <1>3, <1>4, <1>5 DEF RequestStands, BriefCopied
<1>9. b # NoRow
  BY <1>8 DEF BriefCopyOf
<1>10. b \in Brief /\ BriefOK(b, log, f, overtaken) /\ Ordered(log)
  BY <1>4, <1>5, <1>9, Typed DEF ChainInv, StrategyInv, Tables
<1>11. /\ u \in Brief /\ BriefLater(b, u, log, log, f, overtaken, overtaken')
       /\ BriefOK(u, log, f, overtaken')
  <2>1. f \in overtaken => f \in overtaken'
    BY <1>7
  <2>2. t.copy.handoff = "blocked" /\ t.saw < t.read /\ t.read < Len(log) => f \in overtaken'
    BY <1>3, <1>5, <1>7 DEF Overtaken
  <2>3. QED
    BY <1>2, <1>6, <1>8, <1>10, <2>1, <2>2, HandedOverRow
<1>12. strategy_audits' = [strategy_audits EXCEPT ![f] = log]
  BY <1>5, <1>7, Typed DEF ChainInv, Tables
<1>13. overtaken' \in {overtaken, overtaken \cup {f}}
  BY <1>7
<1>14. QED
  BY <1>2, <1>4, <1>5, <1>7, <1>9, <1>10, <1>11, <1>12, <1>13, OneBrief

LEMMA StepHolds == ChainInv /\ [Next]_vars => ChainInv'
<1>1. SUFFICES ASSUME ChainInv, [Next]_vars PROVE ChainInv'
  OBVIOUS
<1>2. CASE UNCHANGED vars
  <2>1. /\ opportunities' = opportunities /\ evidence' = evidence /\ research_audits' = research_audits
        /\ strategy_briefs' = strategy_briefs /\ strategy_audits' = strategy_audits /\ overtaken' = overtaken
        /\ strategy_runs' = strategy_runs /\ tx' = tx /\ research_runs' = research_runs
    BY <1>2 DEF vars
  <2>2. TypeOK' /\ ResearchInv' /\ StrategyInv'
    BY <1>1, <2>1 DEF ChainInv, TypeOK, ResearchInv, StrategyInv
  <2>3. \A u : RequestStands(u) => RequestStands(u)'
    BY <2>1 DEF RequestStands, Copied, BriefCopied
  <2>4. \A r \in Session : RequestStands(tx[r])'
    BY <1>1, <2>1, <2>3 DEF ChainInv
  <2>5. RunsCount'
    BY <1>1, <2>1 DEF ChainInv, RunsCount, Found, Written
  <2>6. QED
    BY <2>2, <2>4, <2>5 DEF ChainInv
<1>3. CASE ResearchRequests
  <2>1. ASSUME NEW s \in Session, NEW k \in Key, BeginAudit(s, k) PROVE ChainInv'
    BY <1>1, <2>1, BeginAuditKeeps
  <2>2. ASSUME NEW s \in Session, NEW k \in Key, BeginAdmit(s, {k}, FALSE) PROVE ChainInv'
    BY <1>1, <2>2, BeginAdmitKeeps
  <2>3. QED
    BY <1>1, <1>3, <2>1, <2>2, RequestResearchKeeps DEF ResearchRequests
<1>4. CASE StrategyRequests
  <2>1. ASSUME NEW s \in Session, NEW f \in Fingerprint, BeginAdmit(s, f, TRUE) PROVE ChainInv'
    <3>1. f \in SUBSET Key
      BY FingerprintKeys
    <3>2. QED
      BY <1>1, <2>1, <3>1, BeginAdmitKeeps
  <2>2. ASSUME NEW s \in Session, NEW f \in Fingerprint, BeginAuditBrief(s, f) PROVE ChainInv'
    BY <1>1, <2>2, BeginAuditBriefKeeps
  <2>3. ASSUME NEW s \in Session, NEW f \in Fingerprint, LoadBrief(s, f) PROVE ChainInv'
    BY <1>1, <2>3, LoadBriefKeeps
  <2>4. QED
    BY <1>4, <2>1, <2>2, <2>3 DEF StrategyRequests
<1>5. ASSUME NEW s \in Session, NEW found \in Findings, BeginRecord(s, found) PROVE ChainInv'
  BY <1>1, <1>5, BeginRecordKeeps
<1>6. ASSUME NEW s \in Session, NEW f \in Fingerprint, NEW quality \in Quality, BeginBrief(s, f, quality)
      PROVE  ChainInv'
  BY <1>1, <1>6, BeginBriefKeeps
<1>7. ASSUME NEW s \in Session,
             \/ EndRecord(s) \/ EndAudit(s) \/ EndAdmit(s) \/ EndBrief(s)
             \/ EndAuditBrief(s) \/ BeginHandOver(s) \/ EndHandOver(s) \/ RollBack(s)
      PROVE  ChainInv'
  BY <1>1, <1>7, EndRecordKeeps, EndAuditKeeps, EndAdmitKeeps, EndBriefKeeps, EndAuditBriefKeeps,
     BeginHandOverKeeps, EndHandOverKeeps, RollBackKeeps
<1>8. QED
  BY <1>1, <1>2, <1>3, <1>4, <1>5, <1>6, <1>7 DEF Next

LEMMA AlwaysHolds == Spec => []ChainInv
  BY StartHolds, StepHolds, PTL DEF Spec

-----------------------------------------------------------------------------
(* What the gates promise.                                                 *)

LEMMA RowFacts ==
    ASSUME ChainInv, NEW k \in Key
    PROVE  /\ evidence[k].of \in [Text -> Nat] /\ research_audits[k] \in Seq(Audit)
           /\ AuditsOK(evidence[k].of, research_audits[k])
           /\ opportunities[k] = NoRow => research_audits[k] = <<>>
           /\ opportunities[k] # NoRow =>
                /\ opportunities[k] \in Opportunity
                /\ FoundOK(opportunities[k], evidence[k].of, research_audits[k])
  BY Typed DEF ChainInv, Tables, Evidence, ResearchInv

LEMMA BriefFacts ==
    ASSUME ChainInv, NEW f \in Written
    PROVE  /\ f \in Fingerprint /\ strategy_audits[f] \in Seq(Audit) /\ strategy_briefs[f] \in Brief
           /\ BriefOK(strategy_briefs[f], strategy_audits[f], f, overtaken)
           /\ \A k \in f : opportunities[k] # NoRow /\ opportunities[k].strategist = "eligible"
  BY Typed DEF ChainInv, Tables, StrategyInv, Written

LEMMA TwoTextsCount ==
    ASSUME NEW of, TwoTexts(of)
    PROVE  Cardinality({t \in Text : of[t] > 0}) >= 2
<1>1. PICK t, u : t \in Text /\ u \in Text /\ t # u /\ of[t] > 0 /\ of[u] > 0
  BY DEF TwoTexts
<1>2. PICK S : S = {x \in Text : of[x] > 0}
  OBVIOUS
<1>3. IsFiniteSet(S)
  BY <1>2, ChainAssumption, FS_Subset
<1>4. IsFiniteSet({t}) /\ Cardinality({t}) = 1
  BY FS_Singleton
<1>5. IsFiniteSet({t} \cup {u}) /\ Cardinality({t} \cup {u}) = 2
  BY <1>1, <1>4, FS_AddElement
<1>6. {t} \cup {u} \in SUBSET S
  BY <1>1, <1>2
<1>7. Cardinality({t} \cup {u}) <= Cardinality(S) /\ Cardinality(S) \in Nat
  BY <1>3, <1>6, FS_Subset, FS_CardinalityType
<1>8. QED
  BY <1>2, <1>5, <1>7

LEMMA ChainEarned == ChainInv => EligibilityIsEarned
<1>1. SUFFICES ASSUME ChainInv PROVE EligibilityIsEarned
  OBVIOUS
<1>2. ASSUME NEW k \in Key, Passed(research_audits[k])
      PROVE  Cardinality({t \in Text : evidence[k].of[t] > 0}) >= 2
  <2>1. TwoTexts(evidence[k].of)
    BY <1>1, <1>2, RowFacts DEF AuditsOK
  <2>2. QED
    BY <2>1, TwoTextsCount
<1>3. ASSUME NEW k \in Key, opportunities[k] # NoRow, opportunities[k].strategist = "eligible"
      PROVE  Passed(research_audits[k])
  BY <1>1, <1>3, RowFacts DEF FoundOK
<1>4. ASSUME NEW f \in Written
      PROVE  /\ \A k \in f : opportunities[k].strategist = "eligible"
             /\ strategy_briefs[f].handoff = "eligible" =>
                    Passed(strategy_audits[f]) /\ strategy_briefs[f].quality = "sound"
  BY <1>1, BriefFacts DEF BriefOK
<1>5. QED
  BY <1>2, <1>3, <1>4 DEF EligibilityIsEarned

LEMMA ChainFollows == ChainInv => GatesFollowAudits
<1>1. SUFFICES ASSUME ChainInv PROVE GatesFollowAudits
  OBVIOUS
<1>2. ASSUME NEW k \in Found, ~Overlapped(research_audits[k])
      PROVE  opportunities[k].gate = Latest(research_audits[k])
  <2>1. k \in Key /\ opportunities[k] # NoRow
    BY <1>2 DEF Found
  <2>2. QED
    BY <1>1, <1>2, <2>1, RowFacts DEF FoundOK
<1>3. ASSUME NEW f \in Written, ~Overlapped(strategy_audits[f])
      PROVE  /\ strategy_briefs[f].gate = Latest(strategy_audits[f])
             /\ Latest(strategy_audits[f]) = "pass" => strategy_briefs[f].handoff = "eligible"
             /\ strategy_briefs[f].handoff = "eligible" /\ f \notin overtaken =>
                    Latest(strategy_audits[f]) = "pass"
  BY <1>1, <1>3, BriefFacts DEF BriefOK
<1>4. QED
  BY <1>2, <1>3 DEF GatesFollowAudits

LEMMA ChainBlocks == ChainInv => BlocksAreFinal
<1>1. SUFFICES ASSUME ChainInv PROVE BlocksAreFinal
  OBVIOUS
<1>2. ASSUME NEW k \in Key, NEW i \in DOMAIN research_audits[k], NEW j \in DOMAIN research_audits[k],
             research_audits[k][i].state = "blocked"
      PROVE  /\ research_audits[k][i].nth <= research_audits[k][j].saw =>
                    research_audits[k][j].state = "blocked"
             /\ opportunities[k].status = "blocked"
  <2>1. PICK log : log = research_audits[k]
    OBVIOUS
  <2>2. AuditsOK(evidence[k].of, log)
    BY <1>1, <2>1, RowFacts
  <2>3. log[i].nth <= log[j].saw => log[j].state = "blocked"
    BY <1>2, <2>1, <2>2 DEF AuditsOK
  <2>4. opportunities[k] # NoRow
    <3>1. log # <<>>
      BY <1>2, <2>1
    <3>2. QED
      BY <1>1, <2>1, <3>1, RowFacts
  <2>5. FoundOK(opportunities[k], evidence[k].of, log)
    BY <1>1, <2>1, <2>4, RowFacts
  <2>6. HasState(log, "blocked")
    BY <1>2, <2>1 DEF HasState
  <2>7. opportunities[k].status = "blocked"
    BY <2>5, <2>6 DEF FoundOK
  <2>8. QED
    BY <2>1, <2>3, <2>7
<1>3. QED
  BY <1>2 DEF BlocksAreFinal

\* A brief has no more verdicts counted than audits.
LEMMA VerdictsApart ==
    ASSUME NEW log \in Seq(Audit)
    PROVE  Counted(log, {"pass"}) + Counted(log, NotPass) <= Len(log)
<1>1. PICK S : S = {i \in DOMAIN log : log[i].state \in {"pass"}}
  OBVIOUS
<1>2. PICK T : T = {i \in DOMAIN log : log[i].state \in NotPass}
  OBVIOUS
<1>3. IsFiniteSet(S) /\ IsFiniteSet(T) /\ Len(log) \in Nat /\ DOMAIN log = 1..Len(log)
  BY <1>1, <1>2, SamePlace
<1>4. S \cap T = {}
  BY <1>1, <1>2 DEF NotPass
<1>5. IsFiniteSet(S \cup T) /\ Cardinality(S \cup T) = Cardinality(S) + Cardinality(T) - Cardinality({})
  BY <1>3, <1>4, FS_Union
<1>6. S \cup T \in SUBSET (1..Len(log))
  BY <1>1, <1>2, <1>3
<1>7. IsFiniteSet(1..Len(log)) /\ Cardinality(1..Len(log)) = Len(log)
  BY <1>3, FS_Interval
<1>8. Cardinality(S \cup T) <= Len(log)
  BY <1>6, <1>7, FS_Subset
<1>9. Cardinality({}) = 0 /\ Cardinality(S) \in Nat /\ Cardinality(T) \in Nat
  BY <1>3, FS_EmptySet, FS_CardinalityType
<1>10. QED
  BY <1>1, <1>2, <1>5, <1>8, <1>9 DEF Counted

LEMMA ChainCounts == ChainInv => CountsNeverOverstate
<1>1. SUFFICES ASSUME ChainInv PROVE CountsNeverOverstate
  OBVIOUS
<1>2. ASSUME NEW k \in Found
      PROVE  /\ opportunities[k].source_count <= Links(k)
             /\ opportunities[k].audited <= Len(research_audits[k])
             /\ opportunities[k].blocked <=
                    Cardinality({i \in DOMAIN research_audits[k] : research_audits[k][i].state = "blocked"})
  <2>1. k \in Key /\ opportunities[k] # NoRow
    BY <1>2 DEF Found
  <2>2. evidence[k].of \in [Text -> Nat]
        /\ FoundOK(opportunities[k], evidence[k].of, research_audits[k])
    BY <1>1, <2>1, RowFacts
  <2>3. Links(k) = Weight(evidence[k].of)
    BY <2>2, TotalIsWeight DEF Links
  <2>4. {i \in DOMAIN research_audits[k] : research_audits[k][i].state = "blocked"}
          = {i \in DOMAIN research_audits[k] : research_audits[k][i].state \in {"blocked"}}
    OBVIOUS
  <2>5. QED
    BY <2>2, <2>3, <2>4 DEF FoundOK, Counted
<1>3. ASSUME NEW f \in Written
      PROVE  strategy_briefs[f].passed + strategy_briefs[f].blocked <= Len(strategy_audits[f])
  <2>1. PICK log \in Seq(Audit) : log = strategy_audits[f]
    BY <1>1, BriefFacts
  <2>2. PICK b \in Brief : b = strategy_briefs[f]
    BY <1>1, BriefFacts
  <2>3. b.passed <= Counted(log, {"pass"}) /\ b.blocked <= Counted(log, NotPass)
    BY <1>1, <2>1, <2>2, BriefFacts DEF BriefOK
  <2>4. b.passed \in Nat /\ b.blocked \in Nat
    BY DEF Brief
  <2>5. Counted(log, {"pass"}) \in Nat /\ Counted(log, NotPass) \in Nat /\ Len(log) \in Nat
    BY SamePlace
  <2>6. QED
    BY <2>1, <2>2, <2>3, <2>4, <2>5, VerdictsApart
<1>4. RunsCount
  BY <1>1 DEF ChainInv
<1>5. {k \in Found : opportunities[k].gate # "not_run"} = {k \in Key : research_audits[k] # <<>>}
  <2>1. ASSUME NEW k \in Key
        PROVE  (opportunities[k] # NoRow /\ opportunities[k].gate # "not_run") <=> research_audits[k] # <<>>
    BY <1>1, RowFacts DEF FoundOK
  <2>2. QED
    BY <2>1 DEF Found
<1>6. Cardinality({k \in Found : opportunities[k].gate = "blocked"})
        <= Cardinality({k \in Found : opportunities[k].status = "blocked"})
  <2>1. PICK S : S = {k \in Found : opportunities[k].gate = "blocked"}
    OBVIOUS
  <2>2. PICK T : T = {k \in Found : opportunities[k].status = "blocked"}
    OBVIOUS
  <2>3. ASSUME NEW k \in S PROVE k \in T
    <3>1. k \in Key /\ k \in Found /\ opportunities[k] # NoRow /\ opportunities[k].gate = "blocked"
      BY <2>1 DEF Found
    <3>2. opportunities[k].status = "blocked"
      BY <1>1, <3>1, RowFacts DEF FoundOK
    <3>3. QED
      BY <2>2, <3>1, <3>2
  <2>4. IsFiniteSet(T)
    BY <2>2, TablesFinite, FS_Subset
  <2>5. QED
    BY <2>1, <2>2, <2>3, <2>4, FS_Subset
<1>7. Cardinality({f \in Written : strategy_briefs[f].gate = "pass"})
        <= Cardinality({f \in Written : Passed(strategy_audits[f])})
  <2>1. PICK S : S = {f \in Written : strategy_briefs[f].gate = "pass"}
    OBVIOUS
  <2>2. PICK T : T = {f \in Written : Passed(strategy_audits[f])}
    OBVIOUS
  <2>3. ASSUME NEW f \in S PROVE f \in T
    <3>1. f \in Written /\ strategy_briefs[f].gate = "pass"
      BY <2>1
    <3>2. HasState(strategy_audits[f], "pass")
      BY <1>1, <3>1, BriefFacts DEF BriefOK
    <3>3. QED
      BY <2>2, <3>1, <3>2 DEF HasState, Passed
  <2>4. IsFiniteSet(T)
    BY <2>2, TablesFinite, FS_Subset
  <2>5. QED
    BY <2>1, <2>2, <2>3, <2>4, FS_Subset
<1>8. Cardinality({k \in Found : opportunities[k].gate = "pass"})
        <= Cardinality({k \in Key : Passed(research_audits[k])})
  <2>1. PICK S : S = {k \in Found : opportunities[k].gate = "pass"}
    OBVIOUS
  <2>2. PICK T : T = {k \in Key : Passed(research_audits[k])}
    OBVIOUS
  <2>3. ASSUME NEW k \in S PROVE k \in T
    <3>1. k \in Key /\ opportunities[k] # NoRow /\ opportunities[k].gate = "pass"
      BY <2>1 DEF Found
    <3>2. HasState(research_audits[k], "pass")
      BY <1>1, <3>1, RowFacts DEF FoundOK
    <3>3. QED
      BY <2>2, <3>1, <3>2 DEF HasState, Passed
  <2>4. IsFiniteSet(T)
    BY <2>2, TablesFinite, FS_Subset
  <2>5. QED
    BY <2>1, <2>2, <2>3, <2>4, FS_Subset
<1>9. QED
  <2>1. /\ ResearchSummary.opportunities_found = Cardinality(Found)
        /\ ResearchSummary.audited_opportunities = Cardinality({k \in Found : opportunities[k].gate # "not_run"})
        /\ ResearchSummary.blocked_findings = Cardinality({k \in Found : opportunities[k].gate = "blocked"})
    BY DEF ResearchSummary
  <2>2. /\ StrategySummary.briefs_created = Cardinality(Written)
        /\ StrategySummary.briefs_passed = Cardinality({f \in Written : strategy_briefs[f].gate = "pass"})
        /\ StrategySummary.opportunities_received = Cardinality({k \in Found : opportunities[k].gate = "pass"})
    BY DEF StrategySummary
  <2>3. /\ ResearchSummary.opportunities_found <= research_runs["succeeded"]
        /\ ResearchSummary.audited_opportunities = Cardinality({k \in Key : research_audits[k] # <<>>})
        /\ ResearchSummary.blocked_findings <= Cardinality({k \in Found : opportunities[k].status = "blocked"})
    BY <1>4, <1>5, <1>6, <2>1 DEF RunsCount
  <2>4. /\ StrategySummary.briefs_created = strategy_runs["succeeded"]
        /\ StrategySummary.briefs_passed <= Cardinality({f \in Written : Passed(strategy_audits[f])})
        /\ StrategySummary.opportunities_received <= Cardinality({k \in Key : Passed(research_audits[k])})
    BY <1>4, <1>7, <1>8, <2>2 DEF RunsCount
  <2>5. QED
    BY <1>2, <1>3, <2>3, <2>4 DEF CountsNeverOverstate

\* The rows, the evidence, the audits and what requests hold between their reads and their
\* writes keep their types: an UPDATE of the changed attributes leaves a row of its table.
THEOREM ChainTypes == Spec => []TypeOK
<1>1. ChainInv => TypeOK
  BY DEF ChainInv
<1>2. QED
  BY <1>1, AlwaysHolds, PTL

\* Nothing gets past the Strategist's gate or the Writer's without the audits and the
\* evidence it asks for, although audit_opportunity, run_strategy and
\* send_brief_to_writer decide on copies that others have changed since.
THEOREM EligibilityEarned == Spec => []EligibilityIsEarned
  BY AlwaysHolds, ChainEarned, PTL

\* audit_gate_status is the state of the latest audit by checked_at, unless two audits of
\* the row overlapped, and writer_handoff_state goes with it, unless besides writer_gate was
\* overtaken between its two reads and again before its commit.
THEOREM GatesFollow == Spec => []GatesFollowAudits
  BY AlwaysHolds, ChainFollows, PTL

\* An opportunity whose sources repeat one text is blocked in every audit that has seen a
\* blocked one, and no request takes its status back.
THEOREM BlocksStay == Spec => []BlocksAreFinal
  BY AlwaysHolds, ChainBlocks, PTL

\* source_count, the audit counters of a run and the numbers of the summaries never exceed
\* the links, audits, rows and runs there are, whatever updates were lost.
THEOREM CountsHold == Spec => []CountsNeverOverstate
  BY AlwaysHolds, ChainCounts, PTL
=============================================================================
