---------------------------- MODULE ReportsProofs ----------------------------
(***************************************************************************)
(* A report is right whatever the order its rows are counted in.  The page *)
(* keeps sums while the rows go by, the table's sums are folds over sets:  *)
(* the first part is about such folds, and shows that the sum of a set is  *)
(* what any one of its rows adds to the sum of the others.                 *)
(*                                                                         *)
(* An induction over the subsets of a finite set is stated with the set Q  *)
(* of those for which the claim holds, by well-foundedness of inclusion.   *)
(***************************************************************************)
EXTENDS Reports, FiniteSetTheorems, TLAPS

-----------------------------------------------------------------------------
\* Sums over sets

\* g gives every subset of S the sum of the weights of its elements.
Sums(g, w, S) ==
    g = [s \in SUBSET S |->
            IF s = {} THEN 0
            ELSE w[CHOOSE x \in s : TRUE] + g[s \ {CHOOSE x \in s : TRUE}]]

\* A claim that holds for a set once it does for all smaller ones holds for all.
LEMMA SubsetInduction ==
    ASSUME NEW S, IsFiniteSet(S), NEW Q,
           \A s \in SUBSET S : (\A t \in SUBSET s : t # s => t \in Q) => s \in Q
    PROVE  \A s \in SUBSET S : s \in Q
<1>. DEFINE R == StrictSubsetOrdering(S)
            Bad == {s \in SUBSET S : s \notin Q}
<1>1. IsWellFoundedOn(R, SUBSET S)
  BY FS_StrictSubsetOrderingWellFounded, FS_FiniteSubsetsOfFinite
<1>2. SUFFICES ASSUME Bad # {} PROVE FALSE
  OBVIOUS
<1>3. PICK s \in Bad : \A t \in Bad : ~(<<t, s>> \in R)
  <2>1. Bad \subseteq SUBSET S
    OBVIOUS
  <2>. HIDE DEF R, Bad
  <2>. QED BY <1>1, <1>2, <2>1, WFMin
<1>4. \A t \in SUBSET s : t # s => t \in Q
  BY <1>3 DEF StrictSubsetOrdering
<1>. QED BY <1>4

\* What sums add up to depends on the set alone, not on those it is a part of.
LEMMA SumsAgree ==
    ASSUME NEW w, NEW S, NEW T \in SUBSET S, IsFiniteSet(T), NEW g, NEW h,
           Sums(g, w, S), Sums(h, w, T)
    PROVE  \A t \in SUBSET T : g[t] = h[t]
<1>. DEFINE Q == {t \in SUBSET T : g[t] = h[t]}
<1>1. ASSUME NEW t \in SUBSET T, \A u \in SUBSET t : u # t => u \in Q
      PROVE  t \in Q
  <2>1. CASE t = {}
    BY <2>1 DEF Sums
  <2>2. CASE t # {}
    <3>. DEFINE c == CHOOSE x \in t : TRUE
    <3>1. c \in t
      BY <2>2
    <3>2. g[t] = w[c] + g[t \ {c}]
      BY <2>2 DEF Sums
    <3>3. h[t] = w[c] + h[t \ {c}]
      BY <2>2 DEF Sums
    <3>. HIDE DEF c
    <3>4. t \ {c} \in Q
      BY <1>1, <3>1
    <3>. QED BY <3>2, <3>3, <3>4
  <2>. QED BY <2>1, <2>2
<1>2. \A t \in SUBSET T : t \in Q
  <2>. HIDE DEF Q
  <2>. QED BY <1>1, SubsetInduction
<1>. QED BY <1>2

\* There are sums for every finite set.
LEMMA SumsExist ==
    ASSUME NEW w, NEW S, IsFiniteSet(S)
    PROVE  \E g : Sums(g, w, S)
<1>. DEFINE Q == {s \in SUBSET S : \E g : Sums(g, w, s)}
            G(s) == CHOOSE g : Sums(g, w, s)
<1>1. ASSUME NEW s \in SUBSET S, \A t \in SUBSET s : t # s => t \in Q
      PROVE  s \in Q
  <2>1. ASSUME NEW t \in SUBSET s, t # s PROVE Sums(G(t), w, t)
    BY <1>1, <2>1
  <2>. DEFINE V(t) == G(t)[t]
  <2>2. ASSUME NEW t \in SUBSET s, t # s, t # {}
        PROVE  V(t) = w[CHOOSE x \in t : TRUE] + V(t \ {CHOOSE x \in t : TRUE})
    <3>. DEFINE c == CHOOSE x \in t : TRUE
    <3>1. c \in t
      BY <2>2
    <3>2. V(t) = w[c] + G(t)[t \ {c}]
      <4>1. Sums(G(t), w, t)
        BY <2>1, <2>2
      <4>. HIDE DEF G
      <4>. QED BY <4>1, <2>2 DEF Sums
    <3>. HIDE DEF c
    <3>3. /\ t \ {c} \in SUBSET s
          /\ t \ {c} # s
          /\ t \ {c} \in SUBSET t
      BY <2>2, <3>1
    <3>4. IsFiniteSet(t \ {c})
      BY FS_Subset, <3>3
    <3>5. Sums(G(t), w, t) /\ Sums(G(t \ {c}), w, t \ {c})
      BY <2>1, <2>2, <3>3
    <3>. HIDE DEF G
    <3>6. G(t)[t \ {c}] = G(t \ {c})[t \ {c}]
      BY <3>3, <3>4, <3>5, SumsAgree
    <3>. QED BY <3>2, <3>6 DEF c
  <2>3. s # {} => V({}) = 0
    <3>. HIDE DEF G
    <3>. QED BY <2>1 DEF Sums
  <2>. HIDE DEF V
  <2>. DEFINE c == CHOOSE x \in s : TRUE
              g == [t \in SUBSET s |-> IF t = {} THEN 0
                                       ELSE IF t = s THEN w[c] + V(s \ {c}) ELSE V(t)]
  <2>4. Sums(g, w, s)
    <3>1. ASSUME NEW t \in SUBSET s, t # {}
          PROVE  g[t] = w[CHOOSE x \in t : TRUE] + g[t \ {CHOOSE x \in t : TRUE}]
      <4>. DEFINE d == CHOOSE x \in t : TRUE
      <4>1. d \in t
        BY <3>1
      <4>2. g[t] = w[d] + V(t \ {d})
        BY <2>2, <3>1
      <4>. HIDE DEF d
      <4>3. t \ {d} \in SUBSET s /\ t \ {d} # s
        BY <4>1
      <4>4. g[t \ {d}] = V(t \ {d})
        BY <2>3, <4>3, <3>1
      <4>. QED BY <4>2, <4>4 DEF d
    <3>2. g[{}] = 0
      OBVIOUS
    <3>3. g = [t \in SUBSET s |-> g[t]]
      OBVIOUS
    <3>. HIDE DEF g
    <3>. QED BY <3>1, <3>2, <3>3 DEF Sums
  <2>. HIDE DEF g
  <2>. QED BY <2>4
<1>2. \A s \in SUBSET S : s \in Q
  <2>. HIDE DEF Q
  <2>. QED BY <1>1, SubsetInduction
<1>. QED BY <1>2

\* Any element may be taken out of a sum first.
LEMMA SumsAre ==
    ASSUME NEW S, IsFiniteSet(S), NEW w \in [S -> Nat], NEW g, Sums(g, w, S)
    PROVE  /\ \A s \in SUBSET S : g[s] \in Nat
           /\ \A s \in SUBSET S : \A x \in s : g[s] = w[x] + g[s \ {x}]
<1>. DEFINE Q == {s \in SUBSET S : g[s] \in Nat /\ \A x \in s : g[s] = w[x] + g[s \ {x}]}
<1>1. ASSUME NEW s \in SUBSET S, \A t \in SUBSET s : t # s => t \in Q
      PROVE  s \in Q
  <2>1. CASE s = {}
    BY <2>1 DEF Sums
  <2>2. CASE s # {}
    <3>. DEFINE c == CHOOSE x \in s : TRUE
    <3>1. c \in s /\ w[c] \in Nat
      BY <2>2
    <3>2. g[s] = w[c] + g[s \ {c}]
      BY <2>2 DEF Sums
    <3>. HIDE DEF c
    <3>3. s \ {c} \in Q
      BY <1>1, <3>1
    <3>4. g[s] \in Nat
      BY <3>1, <3>2, <3>3
    <3>5. ASSUME NEW x \in s PROVE g[s] = w[x] + g[s \ {x}]
      <4>1. CASE x = c
        BY <4>1, <3>2
      <4>2. CASE x # c
        <5>1. s \ {x} \in Q
          BY <1>1
        <5>2. g[s \ {c}] = w[x] + g[(s \ {c}) \ {x}]
          BY <3>3, <4>2
        <5>3. g[s \ {x}] = w[c] + g[(s \ {x}) \ {c}]
          BY <5>1, <4>2, <3>1
        <5>4. (s \ {x}) \ {c} = (s \ {c}) \ {x}
          OBVIOUS
        <5>5. (s \ {c}) \ {x} \in Q
          BY <1>1, <3>1
        <5>6. g[(s \ {c}) \ {x}] \in Nat /\ w[x] \in Nat
          BY <5>5
        <5>. QED BY <3>1, <3>2, <5>2, <5>3, <5>4, <5>6
      <4>. QED BY <4>1, <4>2
    <3>. QED BY <3>4, <3>5
  <2>. QED BY <2>1, <2>2
<1>2. \A s \in SUBSET S : s \in Q
  <2>. HIDE DEF Q
  <2>. QED BY <1>1, SubsetInduction
<1>. QED BY <1>2

\* The sum of fewer elements is no greater.
LEMMA SumsGrow ==
    ASSUME NEW S, IsFiniteSet(S), NEW w \in [S -> Nat], NEW g, Sums(g, w, S)
    PROVE  \A s \in SUBSET S : \A t \in SUBSET s : g[t] <= g[s]
<1>. DEFINE Q == {s \in SUBSET S : \A t \in SUBSET s : g[t] <= g[s]}
<1>0. /\ \A s \in SUBSET S : g[s] \in Nat
      /\ \A s \in SUBSET S : \A x \in s : g[s] = w[x] + g[s \ {x}]
  BY SumsAre
<1>1. ASSUME NEW s \in SUBSET S, \A t \in SUBSET s : t # s => t \in Q
      PROVE  s \in Q
  <2>1. ASSUME NEW t \in SUBSET s PROVE g[t] <= g[s]
    <3>1. CASE t = s
      BY <3>1, <1>0
    <3>2. CASE t # s
      <4>1. PICK x \in s : x \notin t
        BY <3>2
      <4>2. g[t] <= g[s \ {x}]
        <5>1. s \ {x} \in Q
          BY <1>1
        <5>. QED BY <5>1, <4>1
      <4>3. g[s] = w[x] + g[s \ {x}] /\ w[x] \in Nat
        BY <1>0
      <4>4. g[s \ {x}] \in Nat /\ g[t] \in Nat
        BY <1>0
      <4>. QED BY <4>2, <4>3, <4>4
    <3>. QED BY <3>1, <3>2
  <2>. QED BY <2>1
<1>2. \A s \in SUBSET S : s \in Q
  <2>. HIDE DEF Q
  <2>. QED BY <1>1, SubsetInduction
<1>. QED BY <1>2

\* The volume of some rows is such a sum, of their amounts.
LEMMA VolumeIsSum ==
    ASSUME NEW U, IsFiniteSet(U), NEW w, w = [x \in U |-> x.amount], NEW g, Sums(g, w, U)
    PROVE  \A s \in SUBSET U : Volume(s) = g[s]
<1>. TAKE s \in SUBSET U
<1>. DEFINE P(h) == h = [t \in SUBSET s |->
                            IF t = {} THEN 0
                            ELSE (CHOOSE x \in t : TRUE).amount + h[t \ {CHOOSE x \in t : TRUE}]]
            c == CHOOSE h : P(h)
<1>1. Volume(s) = c[s]
  BY DEF Volume, MapThenSumSet, MapThenFoldSet
<1>2. ASSUME NEW h PROVE P(h) <=> Sums(h, w, s)
  <2>1. ASSUME NEW t \in SUBSET s, t # {}
        PROVE  w[CHOOSE x \in t : TRUE] = (CHOOSE x \in t : TRUE).amount
    <3>1. (CHOOSE x \in t : TRUE) \in U
      BY <2>1
    <3>. QED BY <3>1
  <2>. QED BY <2>1 DEF Sums
<1>3. IsFiniteSet(s)
  BY FS_Subset
<1>4. \E h : P(h)
  <2>1. PICK h : Sums(h, w, s)
    BY <1>3, SumsExist
  <2>. HIDE DEF P
  <2>. QED BY <1>2, <2>1
<1>5. Sums(c, w, s)
  <2>. HIDE DEF P
  <2>. QED BY <1>2, <1>4
<1>. HIDE DEF c
<1>. QED BY <1>1, <1>3, <1>5, SumsAgree

LEMMA VolumeFacts ==
    ASSUME NEW U, IsFiniteSet(U), \A x \in U : x.amount \in Nat
    PROVE  /\ Volume({}) = 0
           /\ \A s \in SUBSET U : Volume(s) \in Nat
           /\ \A s \in SUBSET U : \A x \in s : Volume(s) = x.amount + Volume(s \ {x})
           /\ \A s \in SUBSET U : \A t \in SUBSET s : Volume(t) <= Volume(s)
<1>. DEFINE w == [x \in U |-> x.amount]
<1>1. PICK g : Sums(g, w, U)
  BY SumsExist
<1>2. \A s \in SUBSET U : Volume(s) = g[s]
  BY <1>1, VolumeIsSum
<1>3. w \in [U -> Nat] /\ \A x \in U : w[x] = x.amount
  OBVIOUS
<1>. HIDE DEF w
<1>4. /\ \A s \in SUBSET U : g[s] \in Nat
      /\ \A s \in SUBSET U : \A x \in s : g[s] = w[x] + g[s \ {x}]
  BY <1>1, <1>3, SumsAre
<1>5. \A s \in SUBSET U : \A t \in SUBSET s : g[t] <= g[s]
  BY <1>1, <1>3, SumsGrow
<1>6. g[{}] = 0
  BY <1>1 DEF Sums
<1>7. \A s \in SUBSET U : Volume(s) \in Nat
  BY <1>2, <1>4
<1>8. ASSUME NEW s \in SUBSET U, NEW x \in s
      PROVE  Volume(s) = x.amount + Volume(s \ {x})
  BY <1>2, <1>3, <1>4
<1>9. ASSUME NEW s \in SUBSET U, NEW t \in SUBSET s
      PROVE  Volume(t) <= Volume(s)
  BY <1>2, <1>5
<1>. QED BY <1>2, <1>6, <1>7, <1>8, <1>9

\* What they earn is one, of their fees.
LEMMA FeesIsSum ==
    ASSUME NEW U, IsFiniteSet(U), NEW w, w = [x \in U |-> x.fee], NEW g, Sums(g, w, U)
    PROVE  \A s \in SUBSET U : Fees(s) = g[s]
<1>. TAKE s \in SUBSET U
<1>. DEFINE P(h) == h = [t \in SUBSET s |->
                            IF t = {} THEN 0
                            ELSE (CHOOSE x \in t : TRUE).fee + h[t \ {CHOOSE x \in t : TRUE}]]
            c == CHOOSE h : P(h)
<1>1. Fees(s) = c[s]
  BY DEF Fees, MapThenSumSet, MapThenFoldSet
<1>2. ASSUME NEW h PROVE P(h) <=> Sums(h, w, s)
  <2>1. ASSUME NEW t \in SUBSET s, t # {}
        PROVE  w[CHOOSE x \in t : TRUE] = (CHOOSE x \in t : TRUE).fee
    <3>1. (CHOOSE x \in t : TRUE) \in U
      BY <2>1
    <3>. QED BY <3>1
  <2>. QED BY <2>1 DEF Sums
<1>3. IsFiniteSet(s)
  BY FS_Subset
<1>4. \E h : P(h)
  <2>1. PICK h : Sums(h, w, s)
    BY <1>3, SumsExist
  <2>. HIDE DEF P
  <2>. QED BY <1>2, <2>1
<1>5. Sums(c, w, s)
  <2>. HIDE DEF P
  <2>. QED BY <1>2, <1>4
<1>. HIDE DEF c
<1>. QED BY <1>1, <1>3, <1>5, SumsAgree

LEMMA FeesFacts ==
    ASSUME NEW U, IsFiniteSet(U), \A x \in U : x.fee \in Nat
    PROVE  /\ Fees({}) = 0
           /\ \A s \in SUBSET U : Fees(s) \in Nat
           /\ \A s \in SUBSET U : \A x \in s : Fees(s) = x.fee + Fees(s \ {x})
           /\ \A s \in SUBSET U : \A t \in SUBSET s : Fees(t) <= Fees(s)
<1>. DEFINE w == [x \in U |-> x.fee]
<1>1. PICK g : Sums(g, w, U)
  BY SumsExist
<1>2. \A s \in SUBSET U : Fees(s) = g[s]
  BY <1>1, FeesIsSum
<1>3. w \in [U -> Nat] /\ \A x \in U : w[x] = x.fee
  OBVIOUS
<1>. HIDE DEF w
<1>4. /\ \A s \in SUBSET U : g[s] \in Nat
      /\ \A s \in SUBSET U : \A x \in s : g[s] = w[x] + g[s \ {x}]
  BY <1>1, <1>3, SumsAre
<1>5. \A s \in SUBSET U : \A t \in SUBSET s : g[t] <= g[s]
  BY <1>1, <1>3, SumsGrow
<1>6. g[{}] = 0
  BY <1>1 DEF Sums
<1>7. \A s \in SUBSET U : Fees(s) \in Nat
  BY <1>2, <1>4
<1>8. ASSUME NEW s \in SUBSET U, NEW x \in s
      PROVE  Fees(s) = x.fee + Fees(s \ {x})
  BY <1>2, <1>3, <1>4
<1>9. ASSUME NEW s \in SUBSET U, NEW t \in SUBSET s
      PROVE  Fees(t) <= Fees(s)
  BY <1>2, <1>5
<1>. QED BY <1>2, <1>6, <1>7, <1>8, <1>9

-----------------------------------------------------------------------------
\* Summaries

RowsOK(rows) ==
    /\ IsFiniteSet(rows)
    /\ \A row \in rows : /\ row.type \in {"OUT", "IN"}
                         /\ row.chain \in Chains /\ row.related \in Chains
                         /\ row.token \in Tokens
                         /\ row.amount \in Nat /\ row.fee \in Nat

LEMMA TablesAreOK ==
    ASSUME NEW T \in Tables
    PROVE  \A rows \in SUBSET T : RowsOK(rows)
<1>. SUFFICES ASSUME NEW rows \in SUBSET T PROVE RowsOK(rows)
  OBVIOUS
<1>1. IsFiniteSet(rows)
  BY TablesAssumption, FS_Subset
<1>2. \A row \in T : /\ row.type \in {"OUT", "IN"}
                     /\ row.chain \in Chains /\ row.related \in Chains
                     /\ row.token \in Tokens
                     /\ row.amount \in Nat /\ row.fee \in Nat
  BY TablesAssumption
<1>. QED BY <1>1, <1>2 DEF RowsOK

LEMMA PartsAreFinite ==
    ASSUME NEW rows, RowsOK(rows), NEW c, NEW d
    PROVE  /\ IsFiniteSet(Outs(rows, c, d)) /\ IsFiniteSet(Confirmed(rows, c, d))
           /\ Outs(rows, c, d) \in SUBSET rows /\ Confirmed(rows, c, d) \in SUBSET rows
           /\ Cardinality(Outs(rows, c, d)) \in Nat /\ Cardinality(Confirmed(rows, c, d)) \in Nat
           /\ \A t : Paid(rows, c, d, t) \in SUBSET rows
<1>1. /\ Outs(rows, c, d) \in SUBSET rows
      /\ Confirmed(rows, c, d) \in SUBSET rows
      /\ \A t : Paid(rows, c, d, t) \in SUBSET rows
  BY DEF Outs, Ins, Confirmed, Paid
<1>2. IsFiniteSet(Outs(rows, c, d)) /\ IsFiniteSet(Confirmed(rows, c, d))
  BY <1>1, FS_Subset DEF RowsOK
<1>. QED BY <1>1, <1>2, FS_CardinalityType

\* An OUT is one more transfer of its pair of chains, and changes nothing else.
LEMMA OutCounts ==
    ASSUME NEW rows, NEW row, RowsOK(rows \union {row}), row \notin rows, row.type = "OUT",
           NEW c, NEW d
    PROVE  /\ SummaryOf(rows \union {row}, c, d) =
                 IF c = row.chain /\ d = row.related
                 THEN [SummaryOf(rows, c, d) EXCEPT !.outs = @ + 1]
                 ELSE SummaryOf(rows, c, d)
           /\ Routes(rows \union {row}) = Routes(rows) \union {<<row.chain, row.related>>}
<1>. DEFINE more == rows \union {row}
<1>1. \A a, b : Ins(more, a, b) = Ins(rows, a, b)
  BY DEF Ins
<1>2. /\ \A a, b : SentIns(more, a, b) = SentIns(rows, a, b)
      /\ \A a, b : Confirmed(more, a, b) = Confirmed(rows, a, b)
      /\ \A a, b, t : Paid(more, a, b, t) = Paid(rows, a, b, t)
  BY <1>1 DEF SentIns, Confirmed, Paid
<1>3. \A a, b : Outs(more, a, b) = IF a = row.chain /\ b = row.related
                                   THEN Outs(rows, a, b) \union {row}
                                   ELSE Outs(rows, a, b)
  BY DEF Outs
<1>4. Routes(more) = Routes(rows) \union {<<row.chain, row.related>>}
  <2>1. row.chain \in Chains /\ row.related \in Chains
    BY DEF RowsOK
  <2>. HIDE DEF more
  <2>. QED BY <1>2, <1>3, <2>1 DEF Routes
<1>5. IsFiniteSet(rows)
  BY FS_Subset DEF RowsOK
<1>6. CASE c = row.chain /\ d = row.related
  <2>1. IsFiniteSet(Outs(rows, c, d)) /\ row \notin Outs(rows, c, d)
    <3>1. Outs(rows, c, d) \in SUBSET rows
      BY DEF Outs
    <3>. QED BY <3>1, <1>5, FS_Subset
  <2>2. Cardinality(Outs(more, c, d)) = Cardinality(Outs(rows, c, d)) + 1
    BY <1>3, <1>6, <2>1, FS_AddElement
  <2>3. SummaryOf(more, c, d) = [SummaryOf(rows, c, d) EXCEPT !.outs = @ + 1]
    <3>. DEFINE fees(r) == [t \in {t \in Tokens : Paid(r, c, d, t) # {}} |->
                              [volume |-> Volume(Paid(r, c, d, t)), fee |-> Fees(Paid(r, c, d, t))]]
    <3>1. fees(more) = fees(rows)
      <4>. HIDE DEF more
      <4>. QED BY <1>2
    <3>2. \A r : SummaryOf(r, c, d) = [outs |-> Cardinality(Outs(r, c, d)),
                                      successes |-> Cardinality(Confirmed(r, c, d)),
                                      fees |-> fees(r)]
      BY DEF SummaryOf
    <3>. HIDE DEF fees, more
    <3>. QED BY <1>2, <2>2, <3>1, <3>2
  <2>. QED BY <1>4, <1>6, <2>3
<1>7. CASE ~ (c = row.chain /\ d = row.related)
  <2>1. SummaryOf(more, c, d) = SummaryOf(rows, c, d)
    <3>1. Outs(more, c, d) = Outs(rows, c, d)
      BY <1>3, <1>7
    <3>. HIDE DEF more
    <3>. QED BY <1>2, <3>1 DEF SummaryOf
  <2>. QED BY <1>4, <1>7, <2>1
<1>. QED BY <1>6, <1>7

\* An IN that is not confirmed changes no summary; one that was sent makes one.
LEMMA InDoesNotCount ==
    ASSUME NEW rows, NEW row, RowsOK(rows \union {row}), row.type = "IN",
           row.status # "CONFIRMED", NEW c, NEW d
    PROVE  /\ SummaryOf(rows \union {row}, c, d) = SummaryOf(rows, c, d)
           /\ Routes(rows \union {row}) =
                 IF row.status \in Sent
                 THEN Routes(rows) \union {<<row.related, row.chain>>}
                 ELSE Routes(rows)
<1>. DEFINE more == rows \union {row}
<1>1. \A a, b : Outs(more, a, b) = Outs(rows, a, b)
  BY DEF Outs
<1>2. \A a, b : Ins(more, a, b) = IF a = row.related /\ b = row.chain
                                  THEN Ins(rows, a, b) \union {row}
                                  ELSE Ins(rows, a, b)
  BY DEF Ins
<1>3. \A a, b : Confirmed(more, a, b) = Confirmed(rows, a, b)
  <2>. HIDE DEF more
  <2>. QED BY <1>2 DEF Confirmed
<1>4. \A a, b, t : Paid(more, a, b, t) = Paid(rows, a, b, t)
  BY <1>3 DEF Paid
<1>5. \A a, b : SentIns(more, a, b) = IF a = row.related /\ b = row.chain /\ row.status \in Sent
                                      THEN SentIns(rows, a, b) \union {row}
                                      ELSE SentIns(rows, a, b)
  <2>. HIDE DEF more
  <2>. QED BY <1>2 DEF SentIns
<1>6. row.chain \in Chains /\ row.related \in Chains
  BY DEF RowsOK
<1>7. Routes(more) = IF row.status \in Sent THEN Routes(rows) \union {<<row.related, row.chain>>}
                     ELSE Routes(rows)
  <2>. HIDE DEF more
  <2>. QED BY <1>1, <1>5, <1>6 DEF Routes
<1>8. SummaryOf(more, c, d) = SummaryOf(rows, c, d)
  <2>. HIDE DEF more
  <2>. QED BY <1>1, <1>3, <1>4 DEF SummaryOf
<1>. QED BY <1>7, <1>8

Succeed(s, row) == Earn([s EXCEPT !.successes = @ + 1], row)

\* A confirmed IN is one more success, and adds its amount and its fee to what its
\* pair of chains moved and earned in its token.
LEMMA InCounts ==
    ASSUME NEW rows, NEW row, RowsOK(rows \union {row}), row \notin rows, row.type = "IN",
           row.status = "CONFIRMED", NEW c, NEW d
    PROVE  /\ SummaryOf(rows \union {row}, c, d) =
                 IF c = row.related /\ d = row.chain
                 THEN Succeed(SummaryOf(rows, c, d), row)
                 ELSE SummaryOf(rows, c, d)
           /\ Routes(rows \union {row}) = Routes(rows) \union {<<row.related, row.chain>>}
<1>. DEFINE more == rows \union {row}
            fees(r) == [t \in {t \in Tokens : Paid(r, c, d, t) # {}} |->
                           [volume |-> Volume(Paid(r, c, d, t)), fee |-> Fees(Paid(r, c, d, t))]]
<1>1. \A a, b : Outs(more, a, b) = Outs(rows, a, b)
  BY DEF Outs
<1>2. \A a, b : Ins(more, a, b) = IF a = row.related /\ b = row.chain
                                  THEN Ins(rows, a, b) \union {row}
                                  ELSE Ins(rows, a, b)
  BY DEF Ins
<1>3. \A a, b : Confirmed(more, a, b) = IF a = row.related /\ b = row.chain
                                        THEN Confirmed(rows, a, b) \union {row}
                                        ELSE Confirmed(rows, a, b)
  <2>. HIDE DEF more
  <2>. QED BY <1>2 DEF Confirmed
<1>4. \A a, b : SentIns(more, a, b) = IF a = row.related /\ b = row.chain
                                      THEN SentIns(rows, a, b) \union {row}
                                      ELSE SentIns(rows, a, b)
  <2>. HIDE DEF more
  <2>. QED BY <1>2 DEF SentIns, Sent
<1>5. /\ row.chain \in Chains /\ row.related \in Chains /\ row.token \in Tokens
      /\ row.amount \in Nat /\ row.fee \in Nat
  BY DEF RowsOK
<1>6. Routes(more) = Routes(rows) \union {<<row.related, row.chain>>}
  <2>. HIDE DEF more
  <2>. QED BY <1>1, <1>4, <1>5 DEF Routes
<1>7. IsFiniteSet(rows) /\ IsFiniteSet(more) /\ rows \in SUBSET more
  BY FS_Subset DEF RowsOK
<1>8. \A r : SummaryOf(r, c, d) = [outs |-> Cardinality(Outs(r, c, d)),
                                   successes |-> Cardinality(Confirmed(r, c, d)),
                                   fees |-> fees(r)]
  BY DEF SummaryOf
<1>9. CASE c = row.related /\ d = row.chain
  <2>1. Cardinality(Confirmed(more, c, d)) = Cardinality(Confirmed(rows, c, d)) + 1
    <3>1. Confirmed(rows, c, d) \in SUBSET rows
      BY DEF Confirmed, Ins
    <3>2. IsFiniteSet(Confirmed(rows, c, d)) /\ row \notin Confirmed(rows, c, d)
      BY <3>1, <1>7, FS_Subset
    <3>. QED BY <1>3, <1>9, <3>2, FS_AddElement
  <2>2. \A t : Paid(more, c, d, t) = IF t = row.token THEN Paid(rows, c, d, t) \union {row}
                                     ELSE Paid(rows, c, d, t)
    <3>. HIDE DEF more
    <3>. QED BY <1>3, <1>9 DEF Paid
  <2>. DEFINE before == Paid(rows, c, d, row.token)
              after == Paid(more, c, d, row.token)
  <2>3. after \in SUBSET more /\ before \in SUBSET more /\ row \in after /\ before = after \ {row}
    <3>1. before \in SUBSET rows
      BY DEF Paid, Confirmed, Ins
    <3>. QED BY <2>2, <3>1
  <2>4. /\ Volume(after) = row.amount + Volume(before) /\ Volume(before) \in Nat
        /\ Fees(after) = row.fee + Fees(before) /\ Fees(before) \in Nat
        /\ Volume({}) = 0 /\ Fees({}) = 0
    <3>1. \A x \in more : x.amount \in Nat /\ x.fee \in Nat
      BY DEF RowsOK
    <3>. HIDE DEF more, before, after
    <3>2. /\ Volume(after) = row.amount + Volume(after \ {row}) /\ Volume(before) \in Nat
          /\ Volume({}) = 0
      BY <1>7, <2>3, <3>1, VolumeFacts
    <3>3. /\ Fees(after) = row.fee + Fees(after \ {row}) /\ Fees(before) \in Nat
          /\ Fees({}) = 0
      BY <1>7, <2>3, <3>1, FeesFacts
    <3>. QED BY <2>3, <3>2, <3>3
  <2>. DEFINE f == Lookup(fees(rows), row.token, NoFee)
  <2>5. f = [volume |-> Volume(before), fee |-> Fees(before)]
    <3>1. CASE before = {}
      <4>1. row.token \notin DOMAIN fees(rows)
        BY <3>1
      <4>. HIDE DEF fees, before
      <4>. QED BY <4>1, <3>1, <2>4 DEF Lookup, NoFee
    <3>2. CASE before # {}
      <4>1. /\ row.token \in DOMAIN fees(rows)
            /\ fees(rows)[row.token] = [volume |-> Volume(before), fee |-> Fees(before)]
        BY <3>2, <1>5
      <4>. HIDE DEF fees, before
      <4>. QED BY <4>1 DEF Lookup
    <3>. QED BY <3>1, <3>2
  <2>6. fees(more) = Store(fees(rows), row.token, [volume |-> f.volume + row.amount,
                                                   fee |-> f.fee + row.fee])
    <3>. DEFINE v == [volume |-> f.volume + row.amount, fee |-> f.fee + row.fee]
    <3>1. v = [volume |-> Volume(after), fee |-> Fees(after)]
      <4>. HIDE DEF f, before, after
      <4>. QED BY <1>5, <2>4, <2>5
    <3>. HIDE DEF v
    <3>2. DOMAIN fees(more) = DOMAIN fees(rows) \union {row.token}
      BY <1>5, <2>2
    <3>3. fees(more)[row.token] = v
      BY <1>5, <2>3, <3>1
    <3>4. ASSUME NEW t \in DOMAIN fees(rows), t # row.token
          PROVE  fees(more)[t] = fees(rows)[t]
      BY <2>2, <3>4
    <3>5. fees(more) = [t \in DOMAIN fees(more) |-> fees(more)[t]]
      OBVIOUS
    <3>6. fees(more) = Store(fees(rows), row.token, v)
      <4>. HIDE DEF fees, more
      <4>. QED BY <3>2, <3>3, <3>4, <3>5 DEF Store
    <3>. QED BY <3>6 DEF v
  <2>7. SummaryOf(more, c, d) = Succeed(SummaryOf(rows, c, d), row)
    <3>. DEFINE s == [SummaryOf(rows, c, d) EXCEPT !.successes = @ + 1]
    <3>. HIDE DEF fees, more
    <3>1. s = [outs |-> Cardinality(Outs(rows, c, d)),
               successes |-> Cardinality(Confirmed(rows, c, d)) + 1,
               fees |-> fees(rows)]
      BY <1>8
    <3>. HIDE DEF s
    <3>2. Earn(s, row) = [s EXCEPT !.fees = fees(more)]
      <4>1. s.fees = fees(rows)
        BY <3>1
      <4>. QED BY <4>1, <2>6 DEF Earn
    <3>3. [s EXCEPT !.fees = fees(more)] = [outs |-> Cardinality(Outs(rows, c, d)),
                                            successes |-> Cardinality(Confirmed(rows, c, d)) + 1,
                                            fees |-> fees(more)]
      BY <3>1
    <3>4. Outs(more, c, d) = Outs(rows, c, d)
      BY <1>1
    <3>5. SummaryOf(more, c, d) = Earn(s, row)
      BY <1>8, <2>1, <3>2, <3>3, <3>4
    <3>. QED BY <3>5 DEF s, Succeed
  <2>. QED BY <1>6, <1>9, <2>7
<1>10. CASE ~ (c = row.related /\ d = row.chain)
  <2>1. Confirmed(more, c, d) = Confirmed(rows, c, d)
    BY <1>3, <1>10
  <2>2. \A t : Paid(more, c, d, t) = Paid(rows, c, d, t)
    <3>. HIDE DEF more
    <3>. QED BY <2>1 DEF Paid
  <2>3. SummaryOf(more, c, d) = SummaryOf(rows, c, d)
    <3>. HIDE DEF more
    <3>. QED BY <1>1, <2>1, <2>2 DEF SummaryOf
  <2>. QED BY <1>6, <1>10, <2>3
<1>. QED BY <1>9, <1>10

-----------------------------------------------------------------------------
\* The summaries are right after every row

\* A pair of chains no row is about has the summary a first row starts from.
LEMMA LookupIsSummary ==
    ASSUME SummariesInv, NEW c \in Chains, NEW d \in Chains
    PROVE  Lookup(summary, <<c, d>>, NoSummary) = SummaryOf(Counted, c, d)
<1>. DEFINE f == [key \in Routes(Counted) |-> SummaryOf(Counted, key[1], key[2])]
<1>0. summary = f
  BY DEF SummariesInv
<1>1. CASE <<c, d>> \in Routes(Counted)
  <2>1. f[<<c, d>>] = SummaryOf(Counted, c, d) /\ <<c, d>> \in DOMAIN f
    BY <1>1
  <2>. HIDE DEF f
  <2>. QED BY <1>0, <2>1 DEF Lookup
<1>2. CASE <<c, d>> \notin Routes(Counted)
  <2>1. Outs(Counted, c, d) = {} /\ SentIns(Counted, c, d) = {}
    BY <1>2 DEF Routes
  <2>2. Confirmed(Counted, c, d) = {}
    BY <2>1 DEF SentIns, Confirmed, Sent
  <2>3. \A t : Paid(Counted, c, d, t) = {}
    BY <2>2 DEF Paid
  <2>4. {t \in Tokens : Paid(Counted, c, d, t) # {}} = {}
    BY <2>3
  <2>5. SummaryOf(Counted, c, d) = NoSummary
    <3>1. [t \in {t \in Tokens : Paid(Counted, c, d, t) # {}} |->
             [volume |-> Volume(Paid(Counted, c, d, t)), fee |-> Fees(Paid(Counted, c, d, t))]]
          = [t \in {} |-> NoFee]
      BY <2>4
    <3>2. Cardinality({}) = 0
      BY FS_EmptySet
    <3>. QED BY <2>1, <2>2, <3>1, <3>2 DEF SummaryOf, NoSummary
  <2>6. <<c, d>> \notin DOMAIN f
    BY <1>2
  <2>. HIDE DEF f
  <2>. QED BY <1>0, <2>5, <2>6 DEF Lookup
<1>. QED BY <1>1, <1>2

LEMMA RecordTransferKeeps ==
    ASSUME SummariesInv, NEW row \in table, RecordTransfer(row)
    PROVE  SummariesInv'
<1>. DEFINE rows == Counted
            more == rows \union {row}
            Of(r) == [key \in Routes(r) |-> SummaryOf(r, key[1], key[2])]
<1>1. /\ table \in Tables /\ read \subseteq table /\ remaining \subseteq read
      /\ row \in remaining /\ remaining' = remaining \ {row}
      /\ table' = table /\ read' = read
      /\ summary = Of(rows)
  BY DEF SummariesInv, RecordTransfer
<1>2. Counted' = more /\ row \notin rows /\ more \in SUBSET table
  BY <1>1 DEF Counted
<1>3. RowsOK(more)
  BY <1>1, <1>2, TablesAreOK
<1>4. /\ row.chain \in Chains /\ row.related \in Chains /\ row.type \in {"OUT", "IN"}
  BY <1>3 DEF RowsOK
<1>5. ASSUME NEW key \in Chains \X Chains, NEW v,
             Routes(more) = Routes(rows) \union {key},
             v = SummaryOf(more, key[1], key[2]),
             \A k \in Routes(rows) : k # key =>
                SummaryOf(more, k[1], k[2]) = SummaryOf(rows, k[1], k[2])
      PROVE  Of(more) = Store(Of(rows), key, v)
  <2>1. DOMAIN Of(rows) = Routes(rows)
    OBVIOUS
  <2>2. \A k \in Routes(more) : (IF k = key THEN v ELSE Of(rows)[k]) = SummaryOf(more, k[1], k[2])
    BY <1>5
  <2>. HIDE DEF rows, more
  <2>. QED BY <1>5, <2>1, <2>2 DEF Store
<1>6. Routes(more) \subseteq Chains \X Chains /\ Routes(rows) \subseteq Chains \X Chains
  BY DEF Routes
<1>. HIDE DEF Of, more
<1>7. summary' = Of(more)
  <2>1. CASE row.type = "OUT"
    <3>. DEFINE key == <<row.chain, row.related>>
                s == Lookup(summary, key, NoSummary)
    <3>1. summary' = Store(summary, key, [s EXCEPT !.outs = @ + 1])
      BY <2>1 DEF RecordTransfer, RecordOut
    <3>2. s = SummaryOf(rows, row.chain, row.related)
      BY <1>4, LookupIsSummary
    <3>3. ASSUME NEW c, NEW d
          PROVE  /\ SummaryOf(more, c, d) =
                       IF c = row.chain /\ d = row.related
                       THEN [SummaryOf(rows, c, d) EXCEPT !.outs = @ + 1]
                       ELSE SummaryOf(rows, c, d)
                 /\ Routes(more) = Routes(rows) \union {key}
      <4>. HIDE DEF rows
      <4>. QED BY <1>2, <1>3, <2>1, OutCounts DEF more
    <3>4. Routes(more) = Routes(rows) \union {key}
      BY <3>3
    <3>5. key \in Chains \X Chains /\ key[1] = row.chain /\ key[2] = row.related
      BY <1>4
    <3>6. \A k \in Routes(rows) : k # key =>
             SummaryOf(more, k[1], k[2]) = SummaryOf(rows, k[1], k[2])
      BY <1>6, <3>3, <3>5
    <3>7. [s EXCEPT !.outs = @ + 1] = SummaryOf(more, key[1], key[2])
      BY <3>2, <3>3, <3>5
    <3>. HIDE DEF key, s, rows
    <3>8. Of(more) = Store(Of(rows), key, [s EXCEPT !.outs = @ + 1])
      BY <1>5, <3>4, <3>5, <3>6, <3>7
    <3>. QED BY <1>1, <3>1, <3>8
  <2>2. CASE row.type = "IN"
    <3>. DEFINE key == <<row.related, row.chain>>
                s == Lookup(summary, key, NoSummary)
    <3>1. summary' = IF row.status \notin Sent THEN summary
                     ELSE Store(summary, key,
                                IF row.status # "CONFIRMED" THEN s
                                ELSE Succeed(s, row))
      BY <2>2 DEF RecordTransfer, RecordIn, Succeed
    <3>2. s = SummaryOf(rows, row.related, row.chain)
      BY <1>4, LookupIsSummary
    <3>5. key \in Chains \X Chains /\ key[1] = row.related /\ key[2] = row.chain
      BY <1>4
    <3>6. CASE row.status = "CONFIRMED"
      <4>1. ASSUME NEW c, NEW d
            PROVE  /\ SummaryOf(more, c, d) =
                         IF c = row.related /\ d = row.chain
                         THEN Succeed(SummaryOf(rows, c, d), row)
                         ELSE SummaryOf(rows, c, d)
                   /\ Routes(more) = Routes(rows) \union {key}
        <5>. HIDE DEF rows
        <5>. QED BY <1>2, <1>3, <2>2, <3>6, InCounts DEF more
      <4>2. Routes(more) = Routes(rows) \union {key}
        BY <4>1
      <4>3. ASSUME NEW k \in Routes(rows), k # key
            PROVE  SummaryOf(more, k[1], k[2]) = SummaryOf(rows, k[1], k[2])
        <5>1. ~ (k[1] = row.related /\ k[2] = row.chain)
          BY <1>6, <4>3
        <5>. HIDE DEF rows
        <5>. QED BY <4>1, <5>1
      <4>4. Succeed(s, row) = SummaryOf(more, key[1], key[2])
        BY <3>2, <4>1, <3>5
      <4>5. summary' = Store(summary, key, Succeed(s, row))
        BY <3>1, <3>6 DEF Sent
      <4>. HIDE DEF key, s, rows
      <4>6. Of(more) = Store(Of(rows), key, Succeed(s, row))
        BY <1>5, <3>5, <4>2, <4>3, <4>4
      <4>. QED BY <1>1, <4>5, <4>6
    <3>7. CASE row.status # "CONFIRMED"
      <4>1. ASSUME NEW c, NEW d
            PROVE  /\ SummaryOf(more, c, d) = SummaryOf(rows, c, d)
                   /\ Routes(more) = IF row.status \in Sent THEN Routes(rows) \union {key}
                                     ELSE Routes(rows)
        <5>. HIDE DEF rows
        <5>. QED BY <1>2, <1>3, <2>2, <3>7, InDoesNotCount DEF more
      <4>2. Routes(more) = IF row.status \in Sent THEN Routes(rows) \union {key}
                           ELSE Routes(rows)
        BY <4>1
      <4>3. CASE row.status \notin Sent
        <5>. HIDE DEF rows
        <5>1. Of(more) = Of(rows)
          BY <4>1, <4>2, <4>3 DEF Of
        <5>. QED BY <1>1, <3>1, <4>3, <5>1
      <4>4. CASE row.status \in Sent
        <5>1. s = SummaryOf(more, key[1], key[2])
          BY <3>2, <3>5, <4>1
        <5>. HIDE DEF key, s, rows
        <5>2. Of(more) = Store(Of(rows), key, s)
          BY <1>5, <3>5, <4>1, <4>2, <4>4, <5>1
        <5>. QED BY <1>1, <3>1, <3>7, <4>4, <5>2
      <4>. QED BY <4>3, <4>4
    <3>. QED BY <3>6, <3>7
  <2>. QED BY <1>4, <2>1, <2>2
<1>8. remaining' \subseteq read'
  BY <1>1
<1>. QED BY <1>1, <1>2, <1>7, <1>8 DEF SummariesInv, Of

-----------------------------------------------------------------------------
\* The page of the latest transfers

\* The two rows of a transfer are listed with one pair of chains.
LEMMA LinesAgree ==
    ASSUME NEW T \in Tables, NEW row \in T, NEW other \in T, row.id = other.id
    PROVE  Line(row).route = Line(other).route
<1>1. row.type \in {"OUT", "IN"} /\ other.type \in {"OUT", "IN"}
  BY TablesAssumption
<1>2. \A a, b \in T : a.id = b.id /\ a.type = b.type => a = b
  BY TablesAssumption
<1>3. ASSUME NEW a \in T, NEW b \in T, a.type = "IN", b.type = "OUT", a.id = b.id
      PROVE  b.chain = a.related /\ b.related = a.chain
  <2>1. \E out \in T : /\ out.type = "OUT" /\ out.id = a.id
                       /\ out.chain = a.related /\ out.related = a.chain
    BY <1>3, TablesAssumption
  <2>2. PICK out \in T : /\ out.type = "OUT" /\ out.id = a.id
                         /\ out.chain = a.related /\ out.related = a.chain
    BY <2>1
  <2>3. out = b
    BY <1>2, <1>3, <2>2
  <2>. QED BY <2>2, <2>3
<1>4. CASE row.type = other.type
  <2>1. row = other
    BY <1>2, <1>4
  <2>. QED BY <2>1
<1>5. CASE row.type = "IN" /\ other.type = "OUT"
  <2>1. other.chain = row.related /\ other.related = row.chain
    BY <1>3, <1>5
  <2>. QED BY <1>5, <2>1 DEF Line
<1>6. CASE row.type = "OUT" /\ other.type = "IN"
  <2>1. row.chain = other.related /\ row.related = other.chain
    BY <1>3, <1>6
  <2>. QED BY <1>6, <2>1 DEF Line
<1>. QED BY <1>1, <1>4, <1>5, <1>6

LEMMA ListingKeeps ==
    ASSUME ReportsInv, GetAllTransfersWithLimit
    PROVE  page' \in Seq({Line(row) : row \in table'}) /\ PageShowsLatest'
<1>. DEFINE Lines == {Line(row) : row \in table}
            n == Len(page)
<1>1. /\ page \in Seq(Lines) /\ n \in Nat /\ DOMAIN page = 1 .. n
      /\ table \in Tables
  <2>1. page \in Seq(Lines) /\ table \in Tables
    BY DEF ReportsInv, SummariesInv
  <2>. QED BY <2>1
<1>2. PICK row \in table :
          /\ Line(row) \notin Range(page)
          /\ \A other \in table : Line(other) \notin Range(page) => NewestFirst(row, other)
          /\ page' = Append(page, Line(row))
  BY DEF GetAllTransfersWithLimit
<1>3. table' = table
  BY DEF GetAllTransfersWithLimit
<1>4. page' \in Seq(Lines)
  BY <1>1, <1>2
<1>5. /\ DOMAIN page' = 1 .. n + 1
      /\ page'[n + 1] = Line(row)
      /\ \A k \in 1 .. n : page'[k] = page[k]
  BY <1>1, <1>2
<1>6. \A k \in 1 .. n + 1 : \E r \in table : page'[k] = Line(r)
  <2>1. \A k \in 1 .. n + 1 : page'[k] \in Lines
    BY <1>1, <1>4, <1>5
  <2>. QED BY <2>1
<1>7. ASSUME NEW k \in 1 .. n + 1, NEW other \in table, other.created > page'[k].created
      PROVE  \E l \in 1 .. k : page'[l].id = other.id /\ page'[l].type = other.type
  <2>1. CASE k \in 1 .. n
    <3>1. \E l \in 1 .. k : page[l].id = other.id /\ page[l].type = other.type
      BY <1>1, <1>5, <1>7, <2>1 DEF ReportsInv, PageShowsLatest
    <3>2. PICK l \in 1 .. k : page[l].id = other.id /\ page[l].type = other.type
      BY <3>1
    <3>3. l \in 1 .. n
      BY <1>1, <2>1
    <3>. QED BY <1>5, <3>2, <3>3
  <2>2. CASE k = n + 1
    <3>1. other.created > row.created
      BY <1>5, <1>7, <2>2 DEF Line
    <3>2. row.created \in Nat /\ other.created \in Nat
      BY <1>1, TablesAssumption
    <3>3. Line(other) \in Range(page)
      BY <1>2, <3>1, <3>2 DEF NewestFirst
    <3>4. PICK l \in 1 .. n : page[l] = Line(other)
      BY <1>1, <3>3 DEF Range
    <3>5. page'[l].id = other.id /\ page'[l].type = other.type
      BY <1>5, <3>4 DEF Line
    <3>6. l \in 1 .. k
      BY <1>1, <2>2
    <3>. QED BY <3>5, <3>6
  <2>3. k \in 1 .. n \/ k = n + 1
    BY <1>1
  <2>. QED BY <2>1, <2>2, <2>3
<1>8. ASSUME NEW k \in 1 .. n + 1, NEW l \in 1 .. n + 1, page'[k].id = page'[l].id
      PROVE  page'[k].route = page'[l].route
  <2>1. PICK r \in table : page'[k] = Line(r)
    BY <1>6
  <2>2. PICK q \in table : page'[l] = Line(q)
    BY <1>6
  <2>3. r.id = q.id
    BY <1>8, <2>1, <2>2 DEF Line
  <2>. QED BY <1>1, <2>1, <2>2, <2>3, LinesAgree
<1>9. PageShowsLatest'
  BY <1>3, <1>5, <1>7, <1>8 DEF PageShowsLatest
<1>. QED BY <1>3, <1>4, <1>9

-----------------------------------------------------------------------------
\* The invariant

LEMMA ReportsInvInit == Init => ReportsInv
<1>. SUFFICES ASSUME Init PROVE ReportsInv
  OBVIOUS
<1>1. Counted = {} /\ table \in Tables /\ read \subseteq table /\ remaining \subseteq read
  BY DEF Init, Counted
<1>2. Routes({}) = {}
  BY DEF Routes, Outs, Ins, SentIns
<1>3. summary = [key \in Routes(Counted) |-> SummaryOf(Counted, key[1], key[2])]
  <2>1. summary = [key \in {} |-> NoSummary]
    BY DEF Init
  <2>. QED BY <1>1, <1>2, <2>1
<1>4. page = <<>>
  BY DEF Init
<1>5. PageShowsLatest
  BY <1>4 DEF PageShowsLatest
<1>. QED BY <1>1, <1>3, <1>4, <1>5 DEF ReportsInv, SummariesInv

\* The summaries stay as they are when no other rows are counted.
LEMMA SameCountSameSummaries ==
    ASSUME SummariesInv, Counted' = Counted, UNCHANGED <<table, summary>>,
           read' \subseteq table, remaining' \subseteq read'
    PROVE  SummariesInv'
BY DEF SummariesInv

LEMMA ReportsInvNext == ReportsInv /\ [Next]_vars => ReportsInv'
<1>. SUFFICES ASSUME ReportsInv, [Next]_vars PROVE ReportsInv'
  OBVIOUS
<1>0. /\ SummariesInv /\ page \in Seq({Line(row) : row \in table}) /\ PageShowsLatest
      /\ read \subseteq table /\ remaining \subseteq read
  BY DEF ReportsInv, SummariesInv
<1>1. ASSUME UNCHANGED <<table, page>>, SummariesInv' PROVE ReportsInv'
  BY <1>0, <1>1 DEF ReportsInv, PageShowsLatest
<1>2. ASSUME UNCHANGED <<table, read, remaining, summary>> PROVE SummariesInv'
  BY <1>0, <1>2 DEF SummariesInv, Counted
<1>3. CASE GetAllTransfers
  <2>1. /\ read = {} /\ read' \subseteq table /\ remaining' = read'
        /\ UNCHANGED <<table, summary, page>>
    BY <1>3 DEF GetAllTransfers
  <2>2. Counted = {} /\ Counted' = {}
    BY <2>1 DEF Counted
  <2>. QED BY <1>0, <1>1, <2>1, <2>2, SameCountSameSummaries
<1>4. CASE \E row \in table : RecordTransfer(row)
  <2>1. SummariesInv'
    BY <1>0, <1>4, RecordTransferKeeps
  <2>2. UNCHANGED <<table, page>>
    BY <1>4 DEF RecordTransfer
  <2>. QED BY <1>1, <2>1, <2>2
<1>5. CASE \E asked \in Limits : GetTransfer(asked)
  BY <1>1, <1>2, <1>5 DEF GetTransfer
<1>6. CASE GetAllTransfersWithLimit
  <2>1. SummariesInv'
    BY <1>2, <1>6 DEF GetAllTransfersWithLimit
  <2>. QED BY <1>6, <2>1, ListingKeeps DEF ReportsInv
<1>7. CASE UNCHANGED vars
  BY <1>1, <1>2, <1>7 DEF vars
<1>. QED BY <1>3, <1>4, <1>5, <1>6, <1>7 DEF Next

\* Whatever the order the rows are counted in, at every step the summaries are those
\* of the rows counted so far, and the page is made of rows of the table.
THEOREM SummariesSumUpTheCounted == Spec => []ReportsInv
BY ReportsInvInit, ReportsInvNext, PTL DEF Spec

-----------------------------------------------------------------------------
\* What it says of the reports

LEMMA MatchesFollows == ReportsInv => ReportMatchesTable
<1>. SUFFICES ASSUME ReportsInv, Written, read = table
              PROVE  summary = [key \in {key \in Chains \X Chains : Outs(table, key[1], key[2]) # {}} |->
                                   SummaryOf(table, key[1], key[2])]
  BY DEF ReportMatchesTable
<1>1. table \in Tables /\ Counted = table
  BY DEF ReportsInv, SummariesInv, Counted, Written
<1>2. ASSUME NEW c, NEW d, SentIns(table, c, d) # {} PROVE Outs(table, c, d) # {}
  <2>1. PICK row \in table : row.type = "IN" /\ row.chain = d /\ row.related = c
    BY <1>2 DEF SentIns, Ins
  <2>2. \E out \in table : /\ out.type = "OUT" /\ out.id = row.id
                           /\ out.chain = row.related /\ out.related = row.chain
    BY <1>1, <2>1, TablesAssumption
  <2>. QED BY <2>1, <2>2 DEF Outs
<1>3. Routes(table) = {key \in Chains \X Chains : Outs(table, key[1], key[2]) # {}}
  BY <1>2 DEF Routes
<1>. QED BY <1>1, <1>3 DEF ReportsInv, SummariesInv

LEMMA NeverOverstatesFollows == ReportsInv => ReportNeverOverstates
<1>. SUFFICES ASSUME ReportsInv, NEW key \in DOMAIN summary
              PROVE  LET s == summary[key]
                         c == key[1]
                         d == key[2]
                     IN  /\ s.outs <= Cardinality(Outs(table, c, d))
                         /\ s.successes <= Cardinality(Confirmed(table, c, d))
                         /\ \A t \in DOMAIN s.fees :
                               /\ s.fees[t].volume <= Volume(Paid(table, c, d, t))
                               /\ s.fees[t].fee <= Fees(Paid(table, c, d, t))
  BY DEF ReportNeverOverstates
<1>. DEFINE c == key[1]
            d == key[2]
            rows == Counted
            fees == [t \in {t \in Tokens : Paid(rows, c, d, t) # {}} |->
                        [volume |-> Volume(Paid(rows, c, d, t)), fee |-> Fees(Paid(rows, c, d, t))]]
<1>1. table \in Tables /\ rows \in SUBSET table
  BY DEF ReportsInv, SummariesInv, Counted
<1>2. summary[key] = SummaryOf(rows, c, d)
  BY DEF ReportsInv, SummariesInv
<1>3. RowsOK(table)
  BY <1>1, TablesAreOK
<1>. HIDE DEF rows, c, d
<1>4. /\ Outs(rows, c, d) \in SUBSET Outs(table, c, d)
      /\ Confirmed(rows, c, d) \in SUBSET Confirmed(table, c, d)
      /\ \A t : Paid(rows, c, d, t) \in SUBSET Paid(table, c, d, t)
  BY <1>1 DEF Outs, Ins, Confirmed, Paid
<1>5. /\ IsFiniteSet(Outs(table, c, d)) /\ IsFiniteSet(Confirmed(table, c, d))
      /\ \A t : Paid(table, c, d, t) \in SUBSET table
  BY <1>3, PartsAreFinite
<1>6. /\ Cardinality(Outs(rows, c, d)) <= Cardinality(Outs(table, c, d))
      /\ Cardinality(Confirmed(rows, c, d)) <= Cardinality(Confirmed(table, c, d))
  BY <1>4, <1>5, FS_Subset
<1>7. IsFiniteSet(table) /\ \A x \in table : x.amount \in Nat /\ x.fee \in Nat
  BY <1>3 DEF RowsOK
<1>8. ASSUME NEW t
      PROVE  /\ Volume(Paid(rows, c, d, t)) <= Volume(Paid(table, c, d, t))
             /\ Fees(Paid(rows, c, d, t)) <= Fees(Paid(table, c, d, t))
  <2>1. Volume(Paid(rows, c, d, t)) <= Volume(Paid(table, c, d, t))
    BY <1>4, <1>5, <1>7, VolumeFacts
  <2>2. Fees(Paid(rows, c, d, t)) <= Fees(Paid(table, c, d, t))
    BY <1>4, <1>5, <1>7, FeesFacts
  <2>. QED BY <2>1, <2>2
<1>9. /\ summary[key].outs = Cardinality(Outs(rows, c, d))
      /\ summary[key].successes = Cardinality(Confirmed(rows, c, d))
      /\ summary[key].fees = fees
  BY <1>2 DEF SummaryOf
<1>10. \A t \in DOMAIN fees : /\ fees[t].volume = Volume(Paid(rows, c, d, t))
                              /\ fees[t].fee = Fees(Paid(rows, c, d, t))
  OBVIOUS
<1>. HIDE DEF fees
<1>. QED BY <1>6, <1>8, <1>9, <1>10 DEF c, d

\* A report all rows went into says of each pair of chains what the table holds.
THEOREM ReportsMatchTheTable == Spec => []ReportMatchesTable
BY SummariesSumUpTheCounted, MatchesFollows, PTL

\* A report made from some of the rows claims no more than the table holds.
THEOREM ReportsNeverOverstate == Spec => []ReportNeverOverstates
BY SummariesSumUpTheCounted, NeverOverstatesFollows, PTL

\* The page leaves out nothing newer than what it lists, and lists the two rows of a
\* transfer with one pair of chains.
THEOREM PagesShowTheLatest == Spec => []PageShowsLatest
<1>1. ReportsInv => PageShowsLatest
  BY DEF ReportsInv
<1>. QED BY SummariesSumUpTheCounted, <1>1, PTL
=============================================================================
