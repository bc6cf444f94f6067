-------------------------------- MODULE Tables --------------------------------
(***************************************************************************)
(* Lemmas about sequences.  About tables, kept as sequences of their rows, *)
(* oldest first: the newest row of some exists, what a new row leaves      *)
(* alone, and what the sum of a column over some rows is.  About texts,    *)
(* sequences of characters: what holds of every text, and that folding,    *)
(* flattening and spelling one goes character by character.                *)
(***************************************************************************)
EXTENDS Integers, SequencesExt, FiniteSetsExt, FiniteSetTheorems, SequenceTheorems,
        WellFoundedInduction, TLAPS

(* Rows that are there have a newest one, "order by created_at desc".      *)
LEMMA NewestRow ==
    ASSUME NEW n \in Nat, NEW rows \in SUBSET (1 .. n), rows # {}
    PROVE  Max(rows) \in rows /\ \A k \in rows : k <= Max(rows)
<1>. DEFINE below == {ss \in Nat \X Nat : ss[1] < ss[2]}
            back == {n - k : k \in rows}
<1>1. IsWellFoundedOn(below, Nat)  BY NatLessThanWellFounded DEF OpToRel
<1>2. back \subseteq Nat  OBVIOUS
<1>3. back # {}
  <2>1. PICK k \in rows : TRUE  OBVIOUS
  <2>2. n - k \in back  BY <2>1
  <2>. QED  BY <2>2
<1>4. \E x \in back : \A y \in back : <<y, x>> \notin below
  <2>. HIDE DEF below, back
  <2>. QED  BY <1>1, <1>2, <1>3, WFMin
<1>5. \A x, y \in Nat : <<y, x>> \notin below => x <= y  OBVIOUS
<1>6. PICK x \in back : \A y \in back : x <= y
  <2>. HIDE DEF below, back
  <2>. QED  BY <1>2, <1>4, <1>5
<1>7. PICK k \in rows : x = n - k  OBVIOUS
<1>8. ASSUME NEW l \in rows
      PROVE  k >= l
  <2>1. n - l \in back  OBVIOUS
  <2>. HIDE DEF back
  <2>2. n - k <= n - l  BY <1>6, <1>7, <2>1
  <2>. QED  BY <2>2
<1>9. \A i, j \in rows : i >= j <=> j <= i  OBVIOUS
<1>. QED  BY <1>8, <1>9 DEF Max

(* A new row leaves the older ones alone.                                  *)
LEMMA RowAdded ==
    ASSUME NEW S, NEW rows \in Seq(S), NEW row
    PROVE  /\ Append(rows, row) \in Seq(S \cup {row})
           /\ DOMAIN rows = 1 .. Len(rows) /\ Len(rows) \in Nat
           /\ Len(Append(rows, row)) = Len(rows) + 1
           /\ DOMAIN Append(rows, row) = 1 .. Len(rows) + 1
           /\ Append(rows, row)[Len(rows) + 1] = row
           /\ \A k \in DOMAIN rows : Append(rows, row)[k] = rows[k]
  OBVIOUS

(* Among sets of rows, one contains no other.                              *)
LEMMA SmallestSet ==
    ASSUME NEW S, IsFiniteSet(S), NEW sets \in SUBSET SUBSET S, sets # {}
    PROVE  \E s \in sets : \A t \in sets : t \subseteq s => t = s
<1>1. PICK s \in sets : \A t \in sets : <<t, s>> \notin StrictSubsetOrdering(S)
  <2>1. IsWellFoundedOn(StrictSubsetOrdering(S), FiniteSubsetsOf(S))
    BY FS_StrictSubsetOrderingWellFounded
  <2>2. sets \subseteq FiniteSubsetsOf(S)  BY FS_Subset DEF FiniteSubsetsOf
  <2>. QED  BY <2>1, <2>2, WFMin
<1>. QED  BY <1>1 DEF StrictSubsetOrdering

(* A row of the same kind leaves the table one of its kind.               *)
LEMMA AppendTyped ==
    ASSUME NEW S, NEW q \in Seq(S), NEW row \in S
    PROVE  Append(q, row) \in Seq(S)
  OBVIOUS

(* The larger of two, as Math.max has it.                                  *)
LEMMA MaxOfTwo ==
    ASSUME NEW m \in Int, NEW n \in Int
    PROVE  /\ Max({m, n}) \in {m, n} /\ Max({m, n}) >= m /\ Max({m, n}) >= n
<1>1. \E x \in {m, n} : \A y \in {m, n} : x >= y
  <2>1. CASE m >= n  BY <2>1
  <2>2. CASE n >= m  BY <2>2
  <2>. QED  BY <2>1, <2>2
<1>. QED  BY <1>1 DEF Max

(* The smaller of two, as Math.min has it.                                 *)
LEMMA MinOfTwo ==
    ASSUME NEW m \in Int, NEW n \in Int
    PROVE  /\ Min({m, n}) \in {m, n} /\ Min({m, n}) <= m /\ Min({m, n}) <= n
<1>1. \E x \in {m, n} : \A y \in {m, n} : x <= y
  <2>1. CASE m >= n  BY <2>1
  <2>2. CASE n >= m  BY <2>2
  <2>. QED  BY <2>1, <2>2
<1>. QED  BY <1>1 DEF Min

-----------------------------------------------------------------------------
(* The sum of a column over some rows.  MapThenSumSet adds them up one by  *)
(* one, in the order in which CHOOSE takes them.                           *)
Taken(s) == CHOOSE x \in s : TRUE

Adds(h, g, S) ==
    h = [s \in SUBSET S |-> IF s = {} THEN 0 ELSE g[Taken(s)] + h[s \ {Taken(s)}]]

Total(g, S) == (CHOOSE h : Adds(h, g, S))[S]

LEMMA AddsAt ==
    ASSUME NEW S, NEW g, NEW h, Adds(h, g, S)
    PROVE  \A s \in SUBSET S :
              /\ s = {} => h[s] = 0
              /\ s # {} => /\ Taken(s) \in s
                           /\ h[s] = g[Taken(s)] + h[s \ {Taken(s)}]
<1>. TAKE s \in SUBSET S
<1>1. h[s] = IF s = {} THEN 0 ELSE g[Taken(s)] + h[s \ {Taken(s)}]
  BY DEF Adds
<1>2. s # {} => Taken(s) \in s  BY DEF Taken
<1>. QED  BY <1>1, <1>2

LEMMA AddsAgree ==
    ASSUME NEW S, NEW T, IsFiniteSet(T), T \subseteq S,
           NEW f, NEW g, \A x \in T : f[x] = g[x],
           NEW h, Adds(h, f, S), NEW i, Adds(i, g, T)
    PROVE  h[T] = i[T]
<1>f. \A t \in SUBSET S : t = {} => h[t] = 0  BY AddsAt
<1>g. \A t \in SUBSET T : t = {} => i[t] = 0  BY AddsAt
<1>h. \A t \in SUBSET S : t # {} => Taken(t) \in t /\ h[t] = f[Taken(t)] + h[t \ {Taken(t)}]
  BY AddsAt
<1>i. \A t \in SUBSET T : t # {} => Taken(t) \in t /\ i[t] = g[Taken(t)] + i[t \ {Taken(t)}]
  BY AddsAt
<1>. DEFINE differ == {s \in SUBSET T : h[s] # i[s]}
<1>1. SUFFICES ASSUME differ # {} PROVE FALSE
  OBVIOUS
<1>2. PICK s \in differ : \A t \in differ : t \subseteq s => t = s
  <2>1. differ \subseteq SUBSET T  OBVIOUS
  <2>. HIDE DEF differ
  <2>. QED  BY <1>1, <2>1, SmallestSet
<1>3. s \in SUBSET S /\ s \in SUBSET T  OBVIOUS
<1>4. s # {}  BY <1>3, <1>f, <1>g
<1>5. PICK x \in s : x = Taken(s)  BY <1>3, <1>4, <1>i
<1>6. h[s] = f[x] + h[s \ {x}]
  <2>1. h[s] = f[Taken(s)] + h[s \ {Taken(s)}]  BY <1>3, <1>4, <1>h
  <2>. QED  BY <2>1, <1>5
<1>7. i[s] = g[x] + i[s \ {x}]
  <2>1. i[s] = g[Taken(s)] + i[s \ {Taken(s)}]  BY <1>3, <1>4, <1>i
  <2>. QED  BY <2>1, <1>5
<1>8. h[s \ {x}] = i[s \ {x}]
  <2>1. s \ {x} \in SUBSET T /\ s \ {x} \subseteq s /\ s \ {x} # s  BY <1>3, <1>5
  <2>2. s \ {x} \notin differ
    <3>. HIDE DEF differ
    <3>. QED  BY <1>2, <2>1
  <2>. QED  BY <2>1, <2>2
<1>. QED  BY <1>3, <1>5, <1>6, <1>7, <1>8

LEMMA SomethingAdds ==
    ASSUME NEW S, IsFiniteSet(S), NEW g
    PROVE  \E h : Adds(h, g, S)
<1>. DEFINE none == {s \in SUBSET S : ~ \E h : Adds(h, g, s)}
<1>1. SUFFICES ASSUME none # {} PROVE FALSE
  OBVIOUS
<1>2. PICK s \in none : \A t \in none : t \subseteq s => t = s
  <2>1. none \subseteq SUBSET S  OBVIOUS
  <2>. HIDE DEF none
  <2>. QED  BY <1>1, <2>1, SmallestSet
<1>3. s \in SUBSET S /\ ~ \E h : Adds(h, g, s)  OBVIOUS
<1>4. ASSUME NEW t \in SUBSET s, t # s
      PROVE  \E h : Adds(h, g, t)
  <2>1. t \in SUBSET S  BY <1>3
  <2>2. t \notin none
    <3>. HIDE DEF none
    <3>. QED  BY <1>2, <1>4
  <2>. QED  BY <2>1, <2>2
<1>. DEFINE adder(t) == CHOOSE h : Adds(h, g, t)
            value(t) == adder(t)[t]
<1>5. ASSUME NEW t \in SUBSET s, t # s
      PROVE  Adds(adder(t), g, t)
  BY <1>4, <1>5
<1>6. ASSUME NEW t \in SUBSET s, t # s
      PROVE  value(t) = IF t = {} THEN 0 ELSE g[Taken(t)] + value(t \ {Taken(t)})
  <2>. DEFINE less == t \ {Taken(t)}
  <2>1. Adds(adder(t), g, t)  BY <1>5, <1>6
  <2>2. t = {} => value(t) = 0
    <3>. HIDE DEF adder
    <3>. QED  BY <2>1, AddsAt
  <2>3. ASSUME t # {}
        PROVE  value(t) = g[Taken(t)] + value(less)
    <3>1. Taken(t) \in t /\ value(t) = g[Taken(t)] + adder(t)[less]
      <4>. HIDE DEF adder
      <4>. QED  BY <2>1, <2>3, AddsAt
    <3>2. less \in SUBSET s /\ less # s /\ less \subseteq t  BY <1>6, <3>1
    <3>3. Adds(adder(less), g, less)
      <4>. HIDE DEF less, adder
      <4>. QED  BY <1>5, <3>2
    <3>4. IsFiniteSet(less)  BY <1>3, <3>2, FS_Subset
    <3>5. adder(t)[less] = adder(less)[less]
      <4>. HIDE DEF less, adder
      <4>. QED  BY <2>1, <3>2, <3>3, <3>4, AddsAgree
    <3>. QED  BY <3>1, <3>5
  <2>. QED  BY <2>2, <2>3
<1>. DEFINE h == [t \in SUBSET s |-> IF t = s
                                     THEN IF s = {} THEN 0 ELSE g[Taken(s)] + value(s \ {Taken(s)})
                                     ELSE value(t)]
<1>. HIDE DEF value, adder
<1>7. ASSUME NEW t \in SUBSET s, t # {}
      PROVE  Taken(t) \in t
  BY <1>7 DEF Taken
<1>8. ASSUME NEW t \in SUBSET s
      PROVE  h[t] = IF t = {} THEN 0 ELSE g[Taken(t)] + h[t \ {Taken(t)}]
  <2>1. CASE t = {}
    <3>1. t # s => value(t) = 0  BY <1>6, <2>1
    <3>. QED  BY <2>1, <3>1
  <2>2. CASE t # {}
    <3>. DEFINE less == t \ {Taken(t)}
    <3>1. less \in SUBSET s /\ less # s  BY <1>7, <2>2
    <3>2. h[less] = value(less)  BY <3>1
    <3>3. t = s => h[t] = g[Taken(t)] + value(less)  BY <2>2
    <3>4. t # s => h[t] = g[Taken(t)] + value(less)  BY <1>6, <2>2
    <3>. QED  BY <2>2, <3>2, <3>3, <3>4
  <2>. QED  BY <2>1, <2>2
<1>9. h = [t \in SUBSET s |-> IF t = {} THEN 0 ELSE g[Taken(t)] + h[t \ {Taken(t)}]]
  <2>. DEFINE i == [t \in SUBSET s |-> IF t = {} THEN 0 ELSE g[Taken(t)] + h[t \ {Taken(t)}]]
  <2>1. \A t \in SUBSET s : h[t] = i[t]
    <3>. HIDE DEF h
    <3>. QED  BY <1>8
  <2>2. h = [t \in SUBSET s |-> h[t]]  OBVIOUS
  <2>. HIDE DEF h
  <2>. QED  BY <2>1, <2>2
<1>10. Adds(h, g, s)
  <2>. HIDE DEF h
  <2>. QED  BY <1>9 DEF Adds
<1>. QED  BY <1>3, <1>10

(* Adding up, said without the order.                                      *)
LEMMA TotalAdds ==
    ASSUME NEW S, IsFiniteSet(S), NEW g
    PROVE  /\ Total(g, {}) = 0
           /\ S # {} => Taken(S) \in S /\ Total(g, S) = g[Taken(S)] + Total(g, S \ {Taken(S)})
<1>. DEFINE adder(t) == CHOOSE h : Adds(h, g, t)
<1>1. ASSUME NEW t, IsFiniteSet(t)
      PROVE  Adds(adder(t), g, t) /\ Total(g, t) = adder(t)[t]
  BY <1>1, SomethingAdds DEF Total
<1>. HIDE DEF adder
<1>2. Total(g, {}) = 0
  <2>1. PICK h : Adds(h, g, {}) /\ Total(g, {}) = h[{}]  BY <1>1, FS_EmptySet
  <2>. QED  BY <2>1, AddsAt
<1>3. ASSUME S # {}
      PROVE  Taken(S) \in S /\ Total(g, S) = g[Taken(S)] + Total(g, S \ {Taken(S)})
  <2>. DEFINE less == S \ {Taken(S)}
  <2>1. Adds(adder(S), g, S)  BY <1>1
  <2>2. Taken(S) \in S /\ adder(S)[S] = g[Taken(S)] + adder(S)[less]
    BY <1>3, <2>1, AddsAt
  <2>3. IsFiniteSet(less) /\ less \subseteq S  BY FS_Subset
  <2>4. adder(S)[less] = adder(less)[less]
    <3>. HIDE DEF less
    <3>1. PICK h : h = adder(S)  OBVIOUS
    <3>2. PICK i : i = adder(less)  OBVIOUS
    <3>3. Adds(h, g, S) /\ Adds(i, g, less)  BY <1>1, <2>1, <2>3, <3>1, <3>2
    <3>4. h[less] = i[less]  BY <2>3, <3>3, AddsAgree
    <3>. QED  BY <3>1, <3>2, <3>4
  <2>5. Total(g, S) = adder(S)[S] /\ Total(g, less) = adder(less)[less]
    <3>. HIDE DEF less
    <3>. QED  BY <1>1, <2>3
  <2>. QED  BY <2>2, <2>4, <2>5
<1>. QED  BY <1>2, <1>3

LEMMA TotalOfNone ==
    ASSUME NEW g
    PROVE  Total(g, {}) = 0
  BY TotalAdds, FS_EmptySet

(* A sum is a number, no part of a column of prices exceeds the whole.     *)
LEMMA TotalType ==
    ASSUME NEW S, IsFiniteSet(S), NEW g, \A x \in S : g[x] \in Int
    PROVE  Total(g, S) \in Int
<1>. DEFINE odd == {s \in SUBSET S : Total(g, s) \notin Int}
<1>1. SUFFICES ASSUME odd # {} PROVE FALSE
  OBVIOUS
<1>2. PICK s \in odd : \A t \in odd : t \subseteq s => t = s
  <2>1. odd \subseteq SUBSET S  OBVIOUS
  <2>. HIDE DEF odd
  <2>. QED  BY <1>1, <2>1, SmallestSet
<1>3. s \in SUBSET S /\ IsFiniteSet(s) /\ Total(g, s) \notin Int  BY FS_Subset
<1>4. s # {}
  <2>1. Total(g, {}) = 0  BY TotalAdds
  <2>. QED  BY <1>3, <2>1
<1>5. Taken(s) \in s /\ Total(g, s) = g[Taken(s)] + Total(g, s \ {Taken(s)})
  BY <1>3, <1>4, TotalAdds
<1>6. s \ {Taken(s)} \notin odd
  <2>. HIDE DEF odd
  <2>. QED  BY <1>2, <1>5
<1>. QED  BY <1>3, <1>5, <1>6

LEMMA TotalSame ==
    ASSUME NEW S, IsFiniteSet(S), NEW f, NEW g, \A x \in S : f[x] = g[x]
    PROVE  Total(f, S) = Total(g, S)
<1>1. PICK h : Adds(h, f, S) /\ Total(f, S) = h[S]  BY SomethingAdds DEF Total
<1>2. PICK i : Adds(i, g, S) /\ Total(g, S) = i[S]  BY SomethingAdds DEF Total
<1>3. h[S] = i[S]  BY <1>1, <1>2, AddsAgree
<1>. QED  BY <1>1, <1>2, <1>3

\* Any row can be the one that is added last.
LEMMA TotalWithout ==
    ASSUME NEW S, IsFiniteSet(S), NEW g, \A x \in S : g[x] \in Int, NEW y \in S
    PROVE  Total(g, S) = g[y] + Total(g, S \ {y})
<1>. DEFINE odd == {s \in SUBSET S : \E z \in s : Total(g, s) # g[z] + Total(g, s \ {z})}
<1>1. SUFFICES ASSUME odd # {} PROVE FALSE
  OBVIOUS
<1>2. PICK s \in odd : \A t \in odd : t \subseteq s => t = s
  <2>1. odd \subseteq SUBSET S  OBVIOUS
  <2>. HIDE DEF odd
  <2>. QED  BY <1>1, <2>1, SmallestSet
<1>3. s \in SUBSET S /\ IsFiniteSet(s)  BY FS_Subset
<1>4. PICK z \in s : Total(g, s) # g[z] + Total(g, s \ {z})  OBVIOUS
<1>5. PICK x \in s : x = Taken(s) /\ Total(g, s) = g[x] + Total(g, s \ {x})
  BY <1>3, <1>4, TotalAdds
<1>6. x # z  BY <1>4, <1>5
<1>7. s \ {x} \notin odd /\ s \ {z} \notin odd
  <2>. HIDE DEF odd
  <2>. QED  BY <1>2, <1>4, <1>5
<1>8. Total(g, s \ {x}) = g[z] + Total(g, (s \ {x}) \ {z})
  BY <1>3, <1>4, <1>6, <1>7
<1>9. Total(g, s \ {z}) = g[x] + Total(g, (s \ {z}) \ {x})
  BY <1>3, <1>5, <1>6, <1>7
<1>10. PICK less : less = s \ {x, z}  OBVIOUS
<1>11. (s \ {x}) \ {z} = less /\ (s \ {z}) \ {x} = less  BY <1>10
<1>12. IsFiniteSet(less) /\ \A e \in less : g[e] \in Int  BY <1>3, <1>10, FS_Subset
<1>13. Total(g, less) \in Int  BY <1>12, TotalType
<1>14. g[x] \in Int /\ g[z] \in Int  BY <1>3
<1>15. Total(g, s \ {x}) = g[z] + Total(g, less) /\ Total(g, s \ {z}) = g[x] + Total(g, less)
  BY <1>8, <1>9, <1>11
<1>. QED  BY <1>4, <1>5, <1>13, <1>14, <1>15

LEMMA TotalWithin ==
    ASSUME NEW S, IsFiniteSet(S), NEW g, \A x \in S : g[x] \in Nat, NEW T \in SUBSET S
    PROVE  Total(g, T) \in Nat /\ Total(g, T) <= Total(g, S)
<1>. DEFINE odd == {s \in SUBSET S : ~ (Total(g, s) >= 0 /\ \A t \in SUBSET s : Total(g, t) <= Total(g, s))}
<1>a. \A s \in SUBSET S : IsFiniteSet(s) /\ Total(g, s) \in Int
  <2>. TAKE s \in SUBSET S
  <2>1. IsFiniteSet(s)  BY FS_Subset
  <2>2. \A x \in s : g[x] \in Int  OBVIOUS
  <2>. QED  BY <2>1, <2>2, TotalType
<1>1. ASSUME odd # {} PROVE FALSE
  <2>1. PICK s \in odd : \A t \in odd : t \subseteq s => t = s
    <3>1. odd \subseteq SUBSET S  OBVIOUS
    <3>. HIDE DEF odd
    <3>. QED  BY <1>1, <3>1, SmallestSet
  <2>2. s \in SUBSET S  OBVIOUS
  <2>3. s # {}
    <3>1. Total(g, {}) = 0  BY TotalAdds
    <3>. QED  BY <3>1
  <2>4. ASSUME NEW y \in s
        PROVE  /\ Total(g, s \ {y}) >= 0 /\ Total(g, s) >= Total(g, s \ {y})
               /\ \A t \in SUBSET (s \ {y}) : Total(g, t) <= Total(g, s)
    <3>1. s \ {y} \notin odd
      <4>. HIDE DEF odd
      <4>. QED  BY <2>1, <2>2
    <3>2. Total(g, s \ {y}) >= 0 /\ \A t \in SUBSET (s \ {y}) : Total(g, t) <= Total(g, s \ {y})
      BY <2>2, <3>1
    <3>3. Total(g, s) = g[y] + Total(g, s \ {y})
      <4>1. \A x \in s : g[x] \in Int  BY <2>2
      <4>. QED  BY <1>a, <2>2, <4>1, TotalWithout
    <3>4. g[y] \in Nat /\ Total(g, s \ {y}) \in Int  BY <1>a, <2>2
    <3>5. \A t \in SUBSET (s \ {y}) : Total(g, t) \in Int  BY <1>a, <2>2
    <3>. QED  BY <3>2, <3>3, <3>4, <3>5
  <2>5. PICK y \in s : TRUE  BY <2>3
  <2>6. Total(g, s) >= 0
    <3>1. s \ {y} \in SUBSET S  BY <2>2
    <3>2. Total(g, s \ {y}) \in Int /\ Total(g, s) \in Int  BY <1>a, <2>2, <3>1
    <3>3. Total(g, s \ {y}) >= 0 /\ Total(g, s) >= Total(g, s \ {y})  BY <2>4, <2>5
    <3>. QED  BY <3>2, <3>3
  <2>7. ASSUME NEW t \in SUBSET s
        PROVE  Total(g, t) <= Total(g, s)
    <3>1. CASE t = s  BY <1>a, <2>2, <3>1
    <3>2. CASE t # s
      <4>1. PICK z \in s : z \notin t  BY <3>2
      <4>2. t \in SUBSET (s \ {z})  BY <4>1
      <4>. QED  BY <2>4, <4>2
    <3>. QED  BY <3>1, <3>2
  <2>. QED  BY <2>1, <2>6, <2>7
<1>2. Total(g, S) >= 0 /\ Total(g, T) >= 0 /\ \A t \in SUBSET S : Total(g, t) <= Total(g, S)
  BY <1>1
<1>. QED  BY <1>a, <1>2

\* A new row adds its value.
LEMMA TotalWith ==
    ASSUME NEW S, IsFiniteSet(S), NEW g, NEW y, y \notin S, \A x \in S \cup {y} : g[x] \in Int
    PROVE  IsFiniteSet(S \cup {y}) /\ Total(g, S \cup {y}) = g[y] + Total(g, S)
<1>1. PICK T : T = S \cup {y}  OBVIOUS
<1>2. IsFiniteSet(T)  BY <1>1, FS_AddElement
<1>3. y \in T /\ T \ {y} = S /\ \A x \in T : g[x] \in Int  BY <1>1
<1>4. Total(g, T) = g[y] + Total(g, T \ {y})  BY <1>2, <1>3, TotalWithout
<1>. QED  BY <1>1, <1>2, <1>3, <1>4

\* What is summed up in two parts.
LEMMA TotalSplit ==
    ASSUME NEW S, IsFiniteSet(S), NEW T, IsFiniteSet(T), S \cap T = {},
           NEW g, \A x \in S \cup T : g[x] \in Int
    PROVE  Total(g, S \cup T) = Total(g, S) + Total(g, T)
<1>. DEFINE odd == {s \in SUBSET S : Total(g, s \cup T) # Total(g, s) + Total(g, T)}
<1>1. ASSUME odd # {} PROVE FALSE
  <2>1. PICK s \in odd : \A t \in odd : t \subseteq s => t = s
    <3>1. odd \subseteq SUBSET S  OBVIOUS
    <3>. HIDE DEF odd
    <3>. QED  BY <1>1, <3>1, SmallestSet
  <2>2. s \in SUBSET S /\ IsFiniteSet(s)  BY FS_Subset
  <2>3. Total(g, T) \in Int  BY TotalType
  <2>4. s # {}
    <3>1. Total(g, {}) = 0  BY TotalAdds
    <3>2. s = {} => s \cup T = T  OBVIOUS
    <3>3. Total(g, s \cup T) # Total(g, s) + Total(g, T)  OBVIOUS
    <3>4. s = {} => Total(g, s) = 0 /\ Total(g, s \cup T) = Total(g, T)
      BY <3>1, <3>2, Zenon
    <3>. HIDE DEF odd
    <3>. QED  BY <2>3, <3>3, <3>4
  <2>5. PICK y \in s : TRUE  BY <2>4
  <2>6. PICK t : t = s \ {y}  OBVIOUS
  <2>7. t \notin odd
    <3>. HIDE DEF odd
    <3>. QED  BY <2>1, <2>5, <2>6
  <2>8. Total(g, t \cup T) = Total(g, t) + Total(g, T)  BY <2>2, <2>6, <2>7
  <2>9. IsFiniteSet(t) /\ \A x \in t : g[x] \in Int  BY <2>2, <2>6, FS_Subset
  <2>10. Total(g, t) \in Int  BY <2>9, TotalType
  <2>11. Total(g, s) = g[y] + Total(g, t)
    <3>1. \A x \in s : g[x] \in Int  BY <2>2
    <3>. QED  BY <2>2, <2>5, <2>6, <3>1, TotalWithout
  <2>12. Total(g, s \cup T) = g[y] + Total(g, t \cup T)
    <3>1. PICK u : u = s \cup T  OBVIOUS
    <3>2. IsFiniteSet(u)  BY <2>2, <3>1, FS_Union
    <3>3. y \in u /\ u \ {y} = t \cup T /\ \A x \in u : g[x] \in Int
      BY <2>2, <2>5, <2>6, <3>1
    <3>4. Total(g, u) = g[y] + Total(g, u \ {y})  BY <3>2, <3>3, TotalWithout
    <3>. QED  BY <3>1, <3>3, <3>4
  <2>13. g[y] \in Int  BY <2>2, <2>5
  <2>14. Total(g, s \cup T) = Total(g, s) + Total(g, T)
    BY <2>3, <2>8, <2>10, <2>11, <2>12, <2>13
  <2>. QED  BY <2>14
<1>. QED  BY <1>1

\* Columns that add up row by row do so in total.
LEMMA TotalOfSums ==
    ASSUME NEW S, IsFiniteSet(S), NEW f, NEW g, NEW h,
           \A x \in S : f[x] \in Int /\ g[x] \in Int /\ h[x] = f[x] + g[x]
    PROVE  Total(h, S) = Total(f, S) + Total(g, S)
<1>. DEFINE odd == {s \in SUBSET S : Total(h, s) # Total(f, s) + Total(g, s)}
<1>1. ASSUME odd # {} PROVE FALSE
  <2>1. PICK s \in odd : \A t \in odd : t \subseteq s => t = s
    <3>1. odd \subseteq SUBSET S  OBVIOUS
    <3>. HIDE DEF odd
    <3>. QED  BY <1>1, <3>1, SmallestSet
  <2>2. s \in SUBSET S /\ IsFiniteSet(s)  BY FS_Subset
  <2>3. s # {}
    <3>1. Total(f, {}) = 0  BY TotalAdds
    <3>2. Total(g, {}) = 0  BY TotalAdds
    <3>3. Total(h, {}) = 0  BY TotalAdds
    <3>4. Total(h, s) # Total(f, s) + Total(g, s)  OBVIOUS
    <3>5. s = {} => Total(f, s) = 0 /\ Total(g, s) = 0 /\ Total(h, s) = 0
      BY <3>1, <3>2, <3>3, Zenon
    <3>. HIDE DEF odd
    <3>. QED  BY <3>4, <3>5
  <2>4. PICK y : y = Taken(s)  OBVIOUS
  <2>5. y \in s /\ Total(f, s) = f[y] + Total(f, s \ {y})  BY <2>2, <2>3, <2>4, TotalAdds
  <2>6. Total(g, s) = g[y] + Total(g, s \ {y})  BY <2>2, <2>3, <2>4, TotalAdds
  <2>7. Total(h, s) = h[y] + Total(h, s \ {y})  BY <2>2, <2>3, <2>4, TotalAdds
  <2>8. s \ {y} \notin odd
    <3>. HIDE DEF odd
    <3>. QED  BY <2>1, <2>5
  <2>9. Total(h, s \ {y}) = Total(f, s \ {y}) + Total(g, s \ {y})  BY <2>2, <2>8
  <2>10. PICK t : t = s \ {y}  OBVIOUS
  <2>11. IsFiniteSet(t) /\ (\A x \in t : f[x] \in Int) /\ (\A x \in t : g[x] \in Int)
    BY <2>2, <2>10, FS_Subset
  <2>12. Total(f, t) \in Int /\ Total(g, t) \in Int  BY <2>11, TotalType
  <2>13. f[y] \in Int /\ g[y] \in Int /\ h[y] = f[y] + g[y]  BY <2>2, <2>5
  <2>. QED  BY <2>5, <2>6, <2>7, <2>9, <2>10, <2>12, <2>13
<1>. QED  BY <1>1

LEMMA SumIsTotal ==
    ASSUME NEW S, IsFiniteSet(S), NEW f, DOMAIN f = S, NEW g, \A x \in S : f[x] = g[x]
    PROVE  SumFunction(f) = Total(g, S)
<1>1. SumFunction(f) = (CHOOSE h : Adds(h, f, S))[S]
  BY DEF SumFunction, SumFunctionOnSet, FoldFunctionOnSet, MapThenFoldSet, Adds, Taken
<1>2. SumFunction(f) = Total(f, S)  BY <1>1 DEF Total
<1>. QED  BY <1>2, TotalSame

\* What is summed up group by group, every row being in one group.
LEMMA TotalByKey ==
    ASSUME NEW S, IsFiniteSet(S), NEW g, \A x \in S : g[x] \in Int,
           NEW K, IsFiniteSet(K), NEW key, \A x \in S : key[x] \in K,
           NEW of, \A m \in K : \A x : x \in of[m] <=> x \in S /\ key[x] = m,
           NEW h, \A m \in K : h[m] = Total(g, of[m])
    PROVE  Total(h, K) = Total(g, S)
<1>. DEFINE group(L) == {x \in S : key[x] \in L}
            odd == {L \in SUBSET K : Total(h, L) # Total(g, group(L))}
<1>a. ASSUME NEW T \in SUBSET S
      PROVE  IsFiniteSet(T) /\ Total(g, T) \in Int
  <2>1. IsFiniteSet(T)  BY FS_Subset
  <2>2. \A x \in T : g[x] \in Int  OBVIOUS
  <2>. QED  BY <2>1, <2>2, TotalType
<1>1. ASSUME odd # {} PROVE FALSE
  <2>1. PICK L \in odd : \A M \in odd : M \subseteq L => M = L
    <3>1. odd \subseteq SUBSET K  OBVIOUS
    <3>. HIDE DEF odd
    <3>. QED  BY <1>1, <3>1, SmallestSet
  <2>2. L \in SUBSET K /\ IsFiniteSet(L) /\ Total(h, L) # Total(g, group(L))  BY FS_Subset
  <2>3. L # {}
    <3>1. L = {} => group(L) = {}  OBVIOUS
    <3>2. Total(h, {}) = 0  BY TotalOfNone
    <3>3. Total(g, {}) = 0  BY TotalOfNone
    <3>4. L = {} => Total(h, L) = Total(g, group(L))
      <4>. HIDE DEF group
      <4>. QED  BY <3>1, <3>2, <3>3, Zenon
    <3>. QED  BY <2>2, <3>4
  <2>4. PICK m \in L : TRUE  BY <2>3
  <2>5. PICK M : M = L \ {m}  OBVIOUS
  <2>6. PICK one : one = of[m]  OBVIOUS
  <2>7. Total(h, M) = Total(g, group(M))
    <3>1. M \in SUBSET K /\ M \notin odd
      <4>. HIDE DEF odd
      <4>. QED  BY <2>1, <2>2, <2>4, <2>5
    <3>. QED  BY <3>1
  <2>8. \A n \in L : h[n] \in Int
    <3>. TAKE n \in L
    <3>1. h[n] = Total(g, of[n]) /\ of[n] \in SUBSET S  BY <2>2
    <3>. QED  BY <1>a, <3>1
  <2>9. Total(h, L) = h[m] + Total(h, M)  BY <2>2, <2>4, <2>5, <2>8, TotalWithout
  <2>10. h[m] = Total(g, one)  BY <2>2, <2>6
  <2>11. one \cup group(M) = group(L) /\ one \cap group(M) = {}
    BY <2>2, <2>4, <2>5, <2>6
  <2>12. one \in SUBSET S /\ group(M) \in SUBSET S  BY <2>2, <2>4, <2>6
  <2>. HIDE DEF group
  <2>13. Total(g, one \cup group(M)) = Total(g, one) + Total(g, group(M))
    <3>1. IsFiniteSet(one) /\ IsFiniteSet(group(M))  BY <1>a, <2>12
    <3>2. \A x \in one \cup group(M) : g[x] \in Int  BY <2>12
    <3>. QED  BY <2>11, <3>1, <3>2, TotalSplit
  <2>. QED  BY <2>2, <2>7, <2>9, <2>10, <2>11, <2>13
<1>2. K \in SUBSET K /\ group(K) = S  OBVIOUS
<1>3. Total(h, K) = Total(g, group(K))  BY <1>1, <1>2
<1>. QED  BY <1>2, <1>3

LEMMA TotalOfDifferences ==
    ASSUME NEW S, IsFiniteSet(S), NEW f, NEW g, NEW h,
           \A x \in S : f[x] \in Int /\ g[x] \in Int /\ h[x] = f[x] - g[x]
    PROVE  Total(h, S) = Total(f, S) - Total(g, S)
<1>1. \A x \in S : h[x] \in Int /\ g[x] \in Int /\ f[x] = h[x] + g[x]
  <2>. TAKE x \in S
  <2>1. PICK a \in Int, b \in Int : a = f[x] /\ b = g[x]  OBVIOUS
  <2>2. h[x] = a - b  BY <2>1
  <2>. QED  BY <2>1, <2>2
<1>2. Total(f, S) = Total(h, S) + Total(g, S)  BY <1>1, TotalOfSums
<1>3. Total(h, S) \in Int /\ Total(g, S) \in Int
  <2>1. \A x \in S : h[x] \in Int  BY <1>1
  <2>2. \A x \in S : g[x] \in Int  BY <1>1
  <2>. QED  BY <2>1, <2>2, TotalType
<1>. QED  BY <1>2, <1>3

(* Quotients of the calendar: an hour, its day, its month.                 *)
LEMMA Quotient ==
    ASSUME NEW a \in Nat, NEW c \in Nat \ {0}
    PROVE  /\ a \div c \in Nat
           /\ (a \div c) * c <= a /\ a < (a \div c) * c + c
  OBVIOUS

LEMMA Product ==
    ASSUME NEW a \in Nat, NEW b \in Nat, NEW c \in Nat
    PROVE  /\ a * c \in Nat
           /\ a <= b => a * c <= b * c
           /\ (a + 1) * c = a * c + c
  OBVIOUS

LEMMA ProductOfIntegers ==
    ASSUME NEW a \in Int, NEW b \in Int, NEW c \in Nat
    PROVE  /\ a * c \in Int
           /\ a <= b => a * c <= b * c
           /\ (a + b) * c = a * c + b * c
  OBVIOUS

LEMMA QuotientGrows ==
    ASSUME NEW a \in Nat, NEW b \in Nat, a <= b, NEW c \in Nat \ {0}
    PROVE  a \div c <= b \div c
<1>. DEFINE p == a \div c
            q == b \div c
<1>1. p \in Nat /\ q \in Nat /\ p * c <= a /\ b < q * c + c  BY Quotient
<1>2. q + 1 \in Nat /\ (q + 1) * c = q * c + c
  <2>. HIDE DEF p, q
  <2>. QED  BY <1>1, Product
<1>3. q + 1 <= p => (q + 1) * c <= p * c
  <2>. HIDE DEF p, q
  <2>. QED  BY <1>1, <1>2, Product
<1>4. p * c \in Nat /\ q * c \in Nat
  <2>. HIDE DEF p, q
  <2>. QED  BY <1>1, Product
<1>. HIDE DEF p, q
<1>5. PICK x \in Nat, y \in Nat, z \in Nat : x = p * c /\ y = q * c /\ z = (q + 1) * c
  BY <1>2, <1>4
<1>6. ~ (q + 1 <= p)  BY <1>1, <1>2, <1>3, <1>5
<1>7. p <= q  BY <1>1, <1>6
<1>. QED  BY <1>7 DEF p, q

-----------------------------------------------------------------------------
(* Sums that are compared, multiples of sums, and counting as a sum.       *)
LEMMA TotalOrdered ==
    ASSUME NEW S, IsFiniteSet(S), NEW f, NEW g,
           \A x \in S : f[x] \in Int /\ g[x] \in Int /\ f[x] <= g[x]
    PROVE  /\ Total(f, S) \in Int /\ Total(g, S) \in Int
           /\ Total(f, S) <= Total(g, S)
           /\ (\E x \in S : f[x] < g[x]) => Total(f, S) < Total(g, S)
<1>1. PICK h : h = [x \in S |-> g[x] - f[x]]  OBVIOUS
<1>2. \A x \in S : g[x] \in Int /\ f[x] \in Int /\ h[x] = g[x] - f[x]  BY <1>1
<1>3. Total(h, S) = Total(g, S) - Total(f, S)  BY <1>2, TotalOfDifferences
<1>4. Total(f, S) \in Int /\ Total(g, S) \in Int
  <2>1. \A x \in S : f[x] \in Int  OBVIOUS
  <2>2. \A x \in S : g[x] \in Int  OBVIOUS
  <2>. QED  BY <2>1, <2>2, TotalType
<1>5. \A x \in S : h[x] \in Nat
  <2>. TAKE x \in S
  <2>1. PICK a \in Int, b \in Int : a = f[x] /\ b = g[x] /\ a <= b  OBVIOUS
  <2>. QED  BY <1>2, <2>1
<1>6. ASSUME NEW y \in S
      PROVE  Total(h, S) = h[y] + Total(h, S \ {y}) /\ Total(h, S \ {y}) \in Nat
  <2>1. \A x \in S : h[x] \in Int  BY <1>5
  <2>2. Total(h, S) = h[y] + Total(h, S \ {y})  BY <2>1, TotalWithout
  <2>3. PICK T : T = S \ {y} /\ T \in SUBSET S  OBVIOUS
  <2>4. Total(h, T) \in Nat  BY <1>5, <2>3, TotalWithin
  <2>. QED  BY <2>2, <2>3, <2>4
<1>7. Total(h, S) \in Nat
  <2>1. S \in SUBSET S  OBVIOUS
  <2>. QED  BY <1>5, <2>1, TotalWithin
<1>8. ASSUME NEW y \in S, f[y] < g[y]
      PROVE  Total(f, S) < Total(g, S)
  <2>1. PICK a \in Int, b \in Int : a = f[y] /\ b = g[y] /\ a < b  BY <1>8
  <2>2. h[y] = b - a  BY <1>2, <2>1
  <2>3. PICK n \in Nat : Total(h, S) = h[y] + n  BY <1>6
  <2>4. Total(g, S) - Total(f, S) = b - a + n  BY <1>3, <2>2, <2>3
  <2>. QED  BY <1>4, <2>1, <2>4
<1>. QED  BY <1>3, <1>4, <1>7, <1>8

LEMMA Distributes ==
    ASSUME NEW a \in Int, NEW b \in Int, NEW c \in Int
    PROVE  c * (a + b) = c * a + c * b /\ c * a \in Int /\ c * 0 = 0
  OBVIOUS

LEMMA TotalScaled ==
    ASSUME NEW S, IsFiniteSet(S), NEW g, NEW h, NEW c \in Int,
           \A x \in S : g[x] \in Int /\ h[x] = c * g[x]
    PROVE  Total(h, S) = c * Total(g, S)
<1>. DEFINE odd == {s \in SUBSET S : Total(h, s) # c * Total(g, s)}
<1>1. ASSUME odd # {} PROVE FALSE
  <2>1. PICK s \in odd : \A t \in odd : t \subseteq s => t = s
    <3>1. odd \subseteq SUBSET S  OBVIOUS
    <3>. HIDE DEF odd
    <3>. QED  BY <1>1, <3>1, SmallestSet
  <2>2. s \in SUBSET S /\ IsFiniteSet(s) /\ Total(h, s) # c * Total(g, s)  BY FS_Subset
  <2>3. s # {}
    <3>1. Total(h, {}) = 0 /\ Total(g, {}) = 0  BY TotalOfNone
    <3>2. c * 0 = 0  OBVIOUS
    <3>3. s = {} => Total(h, s) = 0 /\ Total(g, s) = 0  BY <3>1, Zenon
    <3>. HIDE DEF odd
    <3>. QED  BY <2>2, <3>2, <3>3
  <2>4. PICK y \in s : TRUE  BY <2>3
  <2>5. PICK t : t = s \ {y}  OBVIOUS
  <2>6. Total(h, t) = c * Total(g, t)
    <3>1. t \in SUBSET S /\ t \notin odd
      <4>. HIDE DEF odd
      <4>. QED  BY <2>1, <2>2, <2>4, <2>5
    <3>. QED  BY <3>1
  <2>. HIDE DEF odd
  <2>7. \A x \in s : g[x] \in Int  BY <2>2
  <2>8. \A x \in s : h[x] \in Int
    <3>. TAKE x \in s
    <3>1. PICK a \in Int : a = g[x]  BY <2>7
    <3>2. h[x] = c * a  BY <2>2, <3>1
    <3>. QED  BY <3>2, Distributes
  <2>9. Total(g, s) = g[y] + Total(g, t)  BY <2>2, <2>4, <2>5, <2>7, TotalWithout
  <2>10. Total(h, s) = h[y] + Total(h, t)  BY <2>2, <2>4, <2>5, <2>8, TotalWithout
  <2>11. Total(g, t) \in Int
    <3>1. IsFiniteSet(t) /\ \A x \in t : g[x] \in Int  BY <2>2, <2>5, <2>7, FS_Subset
    <3>. QED  BY <3>1, TotalType
  <2>12. PICK a \in Int, b \in Int : a = g[y] /\ b = Total(g, t)  BY <2>4, <2>7, <2>11
  <2>13. h[y] = c * a  BY <2>2, <2>4, <2>12
  <2>14. Total(h, s) = c * (a + b)  BY <2>6, <2>10, <2>12, <2>13, Distributes
  <2>. QED  BY <2>2, <2>9, <2>12, <2>14
<1>2. S \in SUBSET S  OBVIOUS
<1>. QED  BY <1>1, <1>2

\* Counting is adding up ones.
LEMMA TotalCounts ==
    ASSUME NEW S, IsFiniteSet(S), NEW one, \A x \in S : one[x] = 1
    PROVE  Total(one, S) = Cardinality(S)
<1>. DEFINE odd == {s \in SUBSET S : Total(one, s) # Cardinality(s)}
<1>1. ASSUME odd # {} PROVE FALSE
  <2>1. PICK s \in odd : \A t \in odd : t \subseteq s => t = s
    <3>1. odd \subseteq SUBSET S  OBVIOUS
    <3>. HIDE DEF odd
    <3>. QED  BY <1>1, <3>1, SmallestSet
  <2>2. s \in SUBSET S /\ IsFiniteSet(s) /\ Total(one, s) # Cardinality(s)  BY FS_Subset
  <2>3. s # {}
    <3>1. Total(one, {}) = 0 /\ Cardinality({}) = 0  BY TotalOfNone, FS_EmptySet
    <3>2. s = {} => Total(one, s) = Cardinality(s)  BY <3>1, Zenon
    <3>. HIDE DEF odd
    <3>. QED  BY <2>2, <3>2
  <2>4. PICK y \in s : TRUE  BY <2>3
  <2>5. PICK t : t = s \ {y}  OBVIOUS
  <2>6. Total(one, t) = Cardinality(t)
    <3>1. t \in SUBSET S /\ t \notin odd
      <4>. HIDE DEF odd
      <4>. QED  BY <2>1, <2>2, <2>4, <2>5
    <3>. QED  BY <3>1
  <2>. HIDE DEF odd
  <2>7. \A x \in s : one[x] \in Int  BY <2>2
  <2>8. Total(one, s) = one[y] + Total(one, t)  BY <2>2, <2>4, <2>5, <2>7, TotalWithout
  <2>9. Cardinality(t) = Cardinality(s) - 1 /\ Cardinality(s) \in Nat
    BY <2>2, <2>4, <2>5, FS_RemoveElement, FS_CardinalityType
  <2>. QED  BY <2>2, <2>4, <2>6, <2>8, <2>9
<1>2. S \in SUBSET S  OBVIOUS
<1>. QED  BY <1>1, <1>2

(* The largest and the smallest of some numbers.                           *)
LEMMA Extremes ==
    ASSUME NEW S, IsFiniteSet(S), S # {}, \A x \in S : x \in Int
    PROVE  /\ Max(S) \in S /\ \A y \in S : y <= Max(S)
           /\ Min(S) \in S /\ \A y \in S : Min(S) <= y
<1>. DEFINE Bounded(s) == /\ \E x \in s : \A y \in s : x >= y
                         /\ \E x \in s : \A y \in s : x <= y
            odd == {s \in SUBSET S : s # {} /\ ~ Bounded(s)}
<1>1. ASSUME odd # {} PROVE FALSE
  <2>1. PICK s \in odd : \A t \in odd : t \subseteq s => t = s
    <3>1. odd \subseteq SUBSET S  OBVIOUS
    <3>. HIDE DEF odd
    <3>. QED  BY <1>1, <3>1, SmallestSet
  <2>2. s \in SUBSET S /\ s # {} /\ ~ Bounded(s)  OBVIOUS
  <2>3. PICK e \in s : TRUE  BY <2>2
  <2>4. PICK t : t = s \ {e}  OBVIOUS
  <2>5. t # {} => Bounded(t)
    <3>1. t \in SUBSET S /\ t \notin odd
      <4>. HIDE DEF odd
      <4>. QED  BY <2>1, <2>2, <2>3, <2>4
    <3>. QED  BY <3>1
  <2>. HIDE DEF odd
  <2>6. e \in Int /\ \A x \in t : x \in Int  BY <2>2, <2>3, <2>4
  <2>7. CASE t = {}
    <3>1. \A y \in s : y = e  BY <2>4, <2>7
    <3>2. \A y \in s : e >= y /\ e <= y  BY <2>6, <3>1
    <3>. QED  BY <2>2, <2>3, <3>2
  <2>8. CASE t # {}
    <3>1. PICK x \in t : \A y \in t : x >= y  BY <2>5, <2>8
    <3>2. PICK z \in t : \A y \in t : z <= y  BY <2>5, <2>8
    <3>3. \E v \in s : \A y \in s : v >= y
      <4>1. CASE x >= e  BY <2>4, <3>1, <4>1
      <4>2. CASE e >= x  BY <2>3, <2>4, <2>6, <3>1, <4>2
      <4>. QED  BY <2>6, <4>1, <4>2
    <3>4. \E v \in s : \A y \in s : v <= y
      <4>1. CASE z <= e  BY <2>4, <3>2, <4>1
      <4>2. CASE e <= z  BY <2>3, <2>4, <2>6, <3>2, <4>2
      <4>. QED  BY <2>6, <4>1, <4>2
    <3>. QED  BY <2>2, <3>3, <3>4
  <2>. QED  BY <2>7, <2>8
<1>2. Bounded(S)
  <2>1. S \in SUBSET S  OBVIOUS
  <2>. QED  BY <1>1, <2>1
<1>3. Max(S) \in S /\ \A y \in S : Max(S) >= y  BY <1>2 DEF Max
<1>4. Min(S) \in S /\ \A y \in S : Min(S) <= y  BY <1>2 DEF Min
<1>. QED  BY <1>3, <1>4

-----------------------------------------------------------------------------
(* Texts.                                                                  *)
(* What holds of no characters and, with those before it, of one more,     *)
(* holds of every text.                                                    *)
LEMMA CountInduction ==
    ASSUME NEW Q \in SUBSET Nat, 0 \in Q, \A n \in Q : n + 1 \in Q
    PROVE  Q = Nat
<1>. DEFINE below == {ss \in Nat \X Nat : ss[1] < ss[2]}
            odd == Nat \ Q
<1>1. IsWellFoundedOn(below, Nat)  BY NatLessThanWellFounded DEF OpToRel
<1>2. ASSUME odd # {} PROVE FALSE
  <2>1. odd \subseteq Nat  OBVIOUS
  <2>2. PICK n \in odd : \A m \in odd : <<m, n>> \notin below
    <3>. HIDE DEF below, odd
    <3>. QED  BY <1>1, <1>2, <2>1, WFMin
  <2>3. n \in Nat \ {0}  OBVIOUS
  <2>4. n - 1 \in Nat /\ <<n - 1, n>> \in below  BY <2>3
  <2>5. n - 1 \in Q  BY <2>2, <2>4
  <2>6. n - 1 + 1 \in Q  BY <2>5
  <2>. QED  BY <2>3, <2>6
<1>. QED  BY <1>2

LEMMA TextInduction ==
    ASSUME NEW S, NEW P, <<>> \in P,
           \A s \in Seq(S), e \in S : s \in P => Append(s, e) \in P
    PROVE  \A s \in Seq(S) : s \in P
<1>. DEFINE Q == {n \in Nat : \A s \in Seq(S) : Len(s) = n => s \in P}
<1>1. 0 \in Q  OBVIOUS
<1>2. ASSUME NEW n \in Q PROVE n + 1 \in Q
  <2>1. ASSUME NEW s \in Seq(S), Len(s) = n + 1 PROVE s \in P
    <3>1. s # <<>>  BY <2>1
    <3>2. PICK u \in Seq(S), e \in S : s = Append(u, e)  BY <3>1, SequenceEmptyOrAppend
    <3>3. Len(u) = n  BY <2>1, <3>2
    <3>4. u \in P  BY <3>3
    <3>. QED  BY <3>2, <3>4
  <2>. QED  BY <2>1
<1>3. Q = Nat
  <2>1. Q \subseteq Nat  OBVIOUS
  <2>. HIDE DEF Q
  <2>. QED  BY <1>1, <1>2, <2>1, CountInduction
<1>4. \A s \in Seq(S) : Len(s) \in Nat  OBVIOUS
<1>. QED  BY <1>3, <1>4

-----------------------------------------------------------------------------
(* Folding a text from its left end.                                       *)
Folding(h, f, base, t) ==
    h = [s \in SUBSET DOMAIN t |->
            IF s = {} THEN base ELSE f[<<h[s \ {Max(s)}], t[Max(s)]>>]]

Folded(f, base, t) == (CHOOSE h : Folding(h, f, base, t))[DOMAIN t]

LEMMA LastPlace ==
    ASSUME NEW k \in Nat \ {0}
    PROVE  Max(1 .. k) = k /\ (1 .. k) \ {k} = 1 .. k - 1 /\ 1 .. k # {}
<1>1. Max(1 .. k) \in 1 .. k /\ \A i \in 1 .. k : i <= Max(1 .. k)
  <2>1. k \in Nat /\ 1 .. k \in SUBSET (1 .. k) /\ 1 .. k # {}  OBVIOUS
  <2>. QED  BY <2>1, NewestRow
<1>2. k \in 1 .. k  OBVIOUS
<1>3. k <= Max(1 .. k)  BY <1>1, <1>2
<1>4. Max(1 .. k) <= k /\ Max(1 .. k) \in Nat  BY <1>1
<1>. QED  BY <1>3, <1>4

(* Two ways to fold that take the same steps end alike.                    *)
InStep(g, h, n) ==
    /\ g[{}] = h[{}]
    /\ \A k \in 1 .. n : g[1 .. k - 1] = h[1 .. k - 1] => g[1 .. k] = h[1 .. k]

LEMMA SameSteps ==
    ASSUME NEW n \in Nat, NEW g, NEW h, InStep(g, h, n)
    PROVE  g[1 .. n] = h[1 .. n]
<1>. DEFINE Q == {k \in Nat : k <= n => g[1 .. k] = h[1 .. k]}
<1>1. 0 \in Q
  <2>1. 1 .. 0 = {}  OBVIOUS
  <2>. QED  BY <2>1 DEF InStep
<1>2. ASSUME NEW k \in Q PROVE k + 1 \in Q
  <2>1. SUFFICES ASSUME k + 1 <= n PROVE g[1 .. k + 1] = h[1 .. k + 1]  OBVIOUS
  <2>2. k \in Nat /\ g[1 .. k] = h[1 .. k]  BY <2>1
  <2>3. k + 1 \in 1 .. n /\ (k + 1) - 1 = k  BY <2>1, <2>2
  <2>. QED  BY <2>2, <2>3 DEF InStep
<1>3. Q = Nat
  <2>1. Q \subseteq Nat  OBVIOUS
  <2>. HIDE DEF Q
  <2>. QED  BY <1>1, <1>2, <2>1, CountInduction
<1>. QED  BY <1>3

(* The steps of a fold, over the first characters of a text.               *)
LEMMA FoldingAt ==
    ASSUME NEW S, NEW t \in Seq(S), NEW f, NEW base, NEW h, Folding(h, f, base, t)
    PROVE  /\ h[{}] = base
           /\ \A k \in 1 .. Len(t) : h[1 .. k] = f[<<h[1 .. k - 1], t[k]>>]
<1>1. DOMAIN t = 1 .. Len(t) /\ Len(t) \in Nat  OBVIOUS
<1>2. \A s \in SUBSET DOMAIN t :
        h[s] = IF s = {} THEN base ELSE f[<<h[s \ {Max(s)}], t[Max(s)]>>]
  BY DEF Folding
<1>3. h[{}] = base  BY <1>2
<1>4. ASSUME NEW k \in 1 .. Len(t)
      PROVE  h[1 .. k] = f[<<h[1 .. k - 1], t[k]>>]
  <2>1. 1 .. k \in SUBSET DOMAIN t  BY <1>1
  <2>2. k \in Nat \ {0}  OBVIOUS
  <2>3. Max(1 .. k) = k /\ (1 .. k) \ {k} = 1 .. k - 1 /\ 1 .. k # {}  BY <2>2, LastPlace
  <2>. QED  BY <1>2, <2>1, <2>3
<1>. QED  BY <1>3, <1>4

FoldsTo(h, f, base, t, A) ==
    /\ Folding(h, f, base, t) /\ h \in [SUBSET DOMAIN t -> A]
    /\ h[DOMAIN t] = Folded(f, base, t)

(* There is a way to fold any text.                                        *)
LEMMA SomethingFolds ==
    ASSUME NEW S, NEW A, NEW base \in A, NEW f \in [A \X S -> A]
    PROVE  \A t \in Seq(S) : \E h \in [SUBSET DOMAIN t -> A] : Folding(h, f, base, t)
<1>. DEFINE P == {t \in Seq(S) : \E h \in [SUBSET DOMAIN t -> A] : Folding(h, f, base, t)}
<1>1. <<>> \in P
  <2>. DEFINE h == [s \in {{}} |-> base]
  <2>1. DOMAIN <<>> = {} /\ SUBSET {} = {{}} /\ <<>> \in Seq(S)  OBVIOUS
  <2>2. h \in [SUBSET DOMAIN <<>> -> A]  BY <2>1
  <2>3. Folding(h, f, base, <<>>)  BY <2>1 DEF Folding
  <2>4. \E g \in [SUBSET DOMAIN <<>> -> A] : Folding(g, f, base, <<>>)  BY <2>2, <2>3
  <2>. QED  BY <2>1, <2>4
<1>2. ASSUME NEW t \in Seq(S), NEW c \in S, t \in P
      PROVE  Append(t, c) \in P
  <2>1. PICK h \in [SUBSET DOMAIN t -> A] : Folding(h, f, base, t)  BY <1>2
  <2>. DEFINE u == Append(t, c)
              n == Len(t)
              g == [s \in SUBSET DOMAIN u |->
                      IF n + 1 \in s THEN f[<<h[s \ {n + 1}], c>>] ELSE h[s]]
  <2>2. /\ u \in Seq(S) /\ DOMAIN u = 1 .. n + 1 /\ DOMAIN t = 1 .. n /\ n \in Nat
        /\ u[n + 1] = c /\ \A k \in 1 .. n : u[k] = t[k]
    OBVIOUS
  <2>3. ASSUME NEW s \in SUBSET DOMAIN u
        PROVE  /\ s \ {n + 1} \in SUBSET DOMAIN t
               /\ n + 1 \notin s => s \in SUBSET DOMAIN t
    BY <2>2
  <2>4. ASSUME NEW s \in SUBSET DOMAIN u
        PROVE  g[s] \in A /\ g[s] = IF s = {} THEN base ELSE f[<<g[s \ {Max(s)}], u[Max(s)]>>]
    <3>. HIDE DEF u, n
    <3>1. \A r \in SUBSET DOMAIN t : h[r] \in A  BY <2>1
    <3>2. CASE n + 1 \in s
      <4>1. Max(s) \in s /\ \A k \in s : k <= Max(s)
        <5>1. n + 1 \in Nat /\ s \in SUBSET (1 .. n + 1) /\ s # {}  BY <2>2, <3>2
        <5>. QED  BY <5>1, NewestRow
      <4>2. Max(s) = n + 1
        <5>1. n + 1 <= Max(s) /\ Max(s) \in 1 .. n + 1  BY <2>2, <3>2, <4>1
        <5>. QED  BY <2>2, <5>1
      <4>3. s \ {n + 1} \in SUBSET DOMAIN t /\ s \ {n + 1} \in SUBSET DOMAIN u  BY <2>3
      <4>4. g[s] = f[<<h[s \ {n + 1}], c>>] /\ g[s \ {n + 1}] = h[s \ {n + 1}]
        BY <3>2, <4>3
      <4>. QED  BY <2>2, <3>1, <3>2, <4>2, <4>3, <4>4
    <3>3. CASE n + 1 \notin s
      <4>1. s \in SUBSET DOMAIN t  BY <2>3, <3>3
      <4>2. g[s] = h[s]  BY <3>3
      <4>3. h[s] = IF s = {} THEN base ELSE f[<<h[s \ {Max(s)}], t[Max(s)]>>]
        BY <2>1, <4>1 DEF Folding
      <4>4. CASE s = {}  BY <3>1, <4>1, <4>2, <4>3, <4>4
      <4>5. CASE s # {}
        <5>1. Max(s) \in s  BY <2>2, <4>1, <4>5, NewestRow
        <5>2. u[Max(s)] = t[Max(s)]  BY <2>2, <4>1, <5>1
        <5>3. s \ {Max(s)} \in SUBSET DOMAIN u /\ n + 1 \notin s \ {Max(s)}  BY <3>3
        <5>4. g[s \ {Max(s)}] = h[s \ {Max(s)}]  BY <5>3
        <5>. QED  BY <3>1, <4>1, <4>2, <4>3, <4>5, <5>2, <5>4
      <4>. QED  BY <4>4, <4>5
    <3>. QED  BY <3>2, <3>3
  <2>5. g \in [SUBSET DOMAIN u -> A] /\ Folding(g, f, base, u)
    <3>1. g = [s \in SUBSET DOMAIN u |-> g[s]]  OBVIOUS
    <3>. HIDE DEF g, u
    <3>2. g = [s \in SUBSET DOMAIN u |-> IF s = {} THEN base ELSE f[<<g[s \ {Max(s)}], u[Max(s)]>>]]
      BY <2>4, <3>1
    <3>3. g \in [SUBSET DOMAIN u -> A]  BY <2>4, <3>1
    <3>. QED  BY <3>2, <3>3 DEF Folding
  <2>. QED  BY <2>2, <2>5
<1>3. \A t \in Seq(S) : t \in P
  <2>. HIDE DEF P
  <2>. QED  BY <1>1, <1>2, TextInduction
<1>. QED  BY <1>3

LEMMA FoldedBy ==
    ASSUME NEW S, NEW A, NEW base \in A, NEW f \in [A \X S -> A], NEW t \in Seq(S)
    PROVE  \E h : FoldsTo(h, f, base, t, A)
<1>1. PICK h \in [SUBSET DOMAIN t -> A] : Folding(h, f, base, t)  BY SomethingFolds
<1>2. PICK g : g = CHOOSE i : Folding(i, f, base, t)  OBVIOUS
<1>3. Folding(g, f, base, t)  BY <1>1, <1>2
<1>4. DOMAIN t = 1 .. Len(t) /\ Len(t) \in Nat  OBVIOUS
<1>5. h[{}] = base /\ \A k \in 1 .. Len(t) : h[1 .. k] = f[<<h[1 .. k - 1], t[k]>>]
  BY <1>1, FoldingAt
<1>6. g[{}] = base /\ \A k \in 1 .. Len(t) : g[1 .. k] = f[<<g[1 .. k - 1], t[k]>>]
  BY <1>3, FoldingAt
<1>7. g[1 .. Len(t)] = h[1 .. Len(t)]
  <2>1. InStep(g, h, Len(t))  BY <1>5, <1>6 DEF InStep
  <2>. QED  BY <1>4, <2>1, SameSteps
<1>8. g[DOMAIN t] = h[DOMAIN t]  BY <1>4, <1>7
<1>. QED  BY <1>1, <1>2, <1>8 DEF Folded, FoldsTo

Stepwise(f, base, S, A) ==
    /\ Folded(f, base, <<>>) = base
    /\ \A t \in Seq(S) : Folded(f, base, t) \in A
    /\ \A t \in Seq(S), c \in S : Folded(f, base, Append(t, c)) = f[<<Folded(f, base, t), c>>]

(* So a text is folded character by character.                             *)
LEMMA FoldedStep ==
    ASSUME NEW S, NEW A, NEW base \in A, NEW f \in [A \X S -> A]
    PROVE  Stepwise(f, base, S, A)
<1>1. ASSUME NEW t \in Seq(S) PROVE Folded(f, base, t) \in A
  <2>1. PICK h : FoldsTo(h, f, base, t, A)  BY FoldedBy
  <2>. QED  BY <2>1 DEF FoldsTo
<1>2. Folded(f, base, <<>>) = base
  <2>1. <<>> \in Seq(S) /\ DOMAIN <<>> = {}  OBVIOUS
  <2>2. PICK h : FoldsTo(h, f, base, <<>>, A)  BY <2>1, FoldedBy
  <2>3. h[{}] = base
    <3>1. Folding(h, f, base, <<>>)  BY <2>2 DEF FoldsTo
    <3>. QED  BY <2>1, <3>1 DEF Folding
  <2>. QED  BY <2>1, <2>2, <2>3 DEF FoldsTo
<1>3. ASSUME NEW t \in Seq(S), NEW c \in S
      PROVE  Folded(f, base, Append(t, c)) = f[<<Folded(f, base, t), c>>]
  <2>1. PICK u : u = Append(t, c)  OBVIOUS
  <2>2. PICK n : n = Len(t)  OBVIOUS
  <2>3. /\ u \in Seq(S) /\ DOMAIN u = 1 .. n + 1 /\ Len(u) = n + 1 /\ DOMAIN t = 1 .. n /\ n \in Nat
        /\ u[n + 1] = c /\ \A k \in 1 .. n : u[k] = t[k]
    BY <2>1, <2>2
  <2>4. PICK h : FoldsTo(h, f, base, t, A)  BY FoldedBy
  <2>5. PICK g : FoldsTo(g, f, base, u, A)  BY <2>3, FoldedBy
  <2>6. h[{}] = base /\ \A k \in 1 .. n : h[1 .. k] = f[<<h[1 .. k - 1], t[k]>>]
    <3>1. Folding(h, f, base, t)  BY <2>4 DEF FoldsTo
    <3>. QED  BY <2>2, <3>1, FoldingAt
  <2>7. g[{}] = base /\ \A k \in 1 .. n + 1 : g[1 .. k] = f[<<g[1 .. k - 1], u[k]>>]
    <3>1. Folding(g, f, base, u)  BY <2>5 DEF FoldsTo
    <3>. QED  BY <2>3, <3>1, FoldingAt
  <2>8. InStep(g, h, n)
    <3>1. \A k \in 1 .. n : k \in 1 .. n + 1  BY <2>3
    <3>. QED  BY <2>3, <2>6, <2>7, <3>1 DEF InStep
  <2>10. g[1 .. n] = h[1 .. n]  BY <2>3, <2>8, SameSteps
  <2>11. n + 1 \in 1 .. n + 1 /\ n + 1 - 1 = n  BY <2>3
  <2>12. g[1 .. n + 1] = f[<<g[1 .. n], u[n + 1]>>]
    <3>1. g[1 .. n + 1] = f[<<g[1 .. (n + 1) - 1], u[n + 1]>>]  BY <2>7, <2>11
    <3>2. 1 .. (n + 1) - 1 = 1 .. n  BY <2>3
    <3>3. g[1 .. (n + 1) - 1] = g[1 .. n]  BY <3>2
    <3>. QED  BY <3>1, <3>3, Zenon
  <2>. QED  BY <2>1, <2>3, <2>4, <2>5, <2>10, <2>12 DEF FoldsTo
<1>. QED  BY <1>1, <1>2, <1>3 DEF Stepwise

-----------------------------------------------------------------------------
LEMMA PartOfText ==
    ASSUME NEW S, NEW t \in Seq(S), NEW s \in SUBSET DOMAIN t, s # {}
    PROVE  /\ Max(s) \in DOMAIN t /\ t[Max(s)] \in S /\ s \ {Max(s)} \in SUBSET DOMAIN t
<1>1. DOMAIN t = 1 .. Len(t) /\ Len(t) \in Nat  OBVIOUS
<1>2. Max(s) \in s  BY <1>1, NewestRow
<1>. QED  BY <1>1, <1>2

(* Ways that take the same step from the same text, with the last character*)
(* of any part of it, end alike.                                           *)
Alike(g, h, t) ==
    /\ g[{}] = h[{}]
    /\ \A s \in SUBSET DOMAIN t :
          s # {} /\ g[s \ {Max(s)}] = h[s \ {Max(s)}] => g[s] = h[s]

LEMMA AlikeToTheEnd ==
    ASSUME NEW S, NEW t \in Seq(S), NEW g, NEW h, Alike(g, h, t)
    PROVE  g[DOMAIN t] = h[DOMAIN t]
<1>1. DOMAIN t = 1 .. Len(t) /\ Len(t) \in Nat  OBVIOUS
<1>2. ASSUME NEW k \in 1 .. Len(t), g[1 .. k - 1] = h[1 .. k - 1]
      PROVE  g[1 .. k] = h[1 .. k]
  <2>1. 1 .. k \in SUBSET DOMAIN t /\ k \in Nat \ {0}  BY <1>1
  <2>2. Max(1 .. k) = k /\ (1 .. k) \ {k} = 1 .. k - 1 /\ 1 .. k # {}  BY <2>1, LastPlace
  <2>. QED  BY <1>2, <2>1, <2>2 DEF Alike
<1>3. InStep(g, h, Len(t))  BY <1>2 DEF InStep, Alike
<1>. QED  BY <1>1, <1>3, SameSteps

-----------------------------------------------------------------------------
(* Texts put one behind the other.                                         *)
Flattening(g, q) ==
    g = [i \in 1 .. Len(q) |-> IF i = 1 THEN q[i] ELSE g[i - 1] \o q[i]]

Begins(r, q) == Len(q) <= Len(r) /\ \A i \in 1 .. Len(q) : q[i] = r[i]

LEMMA FlattensAlike ==
    ASSUME NEW S, NEW q \in Seq(S), NEW r \in Seq(S), Begins(r, q),
           NEW g, Flattening(g, q), NEW h, Flattening(h, r)
    PROVE  \A k \in 1 .. Len(q) : g[k] = h[k]
<1>. DEFINE Q == {k \in Nat : k \in 1 .. Len(q) => g[k] = h[k]}
<1>1. Len(q) \in Nat /\ Len(r) \in Nat /\ Len(q) <= Len(r)  BY DEF Begins
<1>2. 0 \in Q  OBVIOUS
<1>3. ASSUME NEW k \in Q PROVE k + 1 \in Q
  <2>1. SUFFICES ASSUME k + 1 \in 1 .. Len(q) PROVE g[k + 1] = h[k + 1]  OBVIOUS
  <2>2. k \in Nat /\ k + 1 \in 1 .. Len(r) /\ (k + 1) - 1 = k  BY <1>1, <2>1
  <2>3. g[k + 1] = IF k + 1 = 1 THEN q[k + 1] ELSE g[(k + 1) - 1] \o q[k + 1]
    BY <2>1 DEF Flattening
  <2>4. h[k + 1] = IF k + 1 = 1 THEN r[k + 1] ELSE h[(k + 1) - 1] \o r[k + 1]
    BY <2>2 DEF Flattening
  <2>5. q[k + 1] = r[k + 1]  BY <2>1 DEF Begins
  <2>6. k + 1 # 1 => g[k] = h[k]  BY <1>1, <2>1, <2>2
  <2>. QED  BY <2>2, <2>3, <2>4, <2>5, <2>6
<1>4. Q = Nat
  <2>1. Q \subseteq Nat  OBVIOUS
  <2>. HIDE DEF Q
  <2>. QED  BY <1>2, <1>3, <2>1, CountInduction
<1>. QED  BY <1>1, <1>4

LEMMA SomethingFlattens ==
    ASSUME NEW B
    PROVE  \A q \in Seq(Seq(B)) : \E g \in [1 .. Len(q) -> Seq(B)] : Flattening(g, q)
<1>. DEFINE P == {q \in Seq(Seq(B)) : \E g \in [1 .. Len(q) -> Seq(B)] : Flattening(g, q)}
<1>1. <<>> \in P
  <2>. DEFINE none == [i \in {} |-> i]
  <2>1. <<>> \in Seq(Seq(B)) /\ 1 .. Len(<<>>) = {}  OBVIOUS
  <2>2. none \in [1 .. Len(<<>>) -> Seq(B)] /\ Flattening(none, <<>>)  BY <2>1 DEF Flattening
  <2>. HIDE DEF none
  <2>3. \E g \in [1 .. Len(<<>>) -> Seq(B)] : Flattening(g, <<>>)  BY <2>2
  <2>. QED  BY <2>1, <2>3
<1>2. ASSUME NEW q \in Seq(Seq(B)), NEW u \in Seq(B), q \in P
      PROVE  Append(q, u) \in P
  <2>1. PICK g \in [1 .. Len(q) -> Seq(B)] : Flattening(g, q)  BY <1>2
  <2>2. PICK r, n : r = Append(q, u) /\ n = Len(q)  OBVIOUS
  <2>3. /\ r \in Seq(Seq(B)) /\ Len(r) = n + 1 /\ n \in Nat
        /\ r[n + 1] = u /\ \A k \in 1 .. n : r[k] = q[k] /\ q[k] \in Seq(B)
    BY <2>2
  <2>. DEFINE h == [i \in 1 .. n + 1 |->
                      IF i = n + 1 THEN IF n = 0 THEN u ELSE g[n] \o u ELSE g[i]]
  <2>4. ASSUME NEW i \in 1 .. n + 1
        PROVE  h[i] \in Seq(B) /\ h[i] = IF i = 1 THEN r[i] ELSE h[i - 1] \o r[i]
    <3>1. CASE i = n + 1
      <4>1. n # 0 => n \in 1 .. n /\ n # n + 1 /\ n \in 1 .. n + 1  BY <2>3
      <4>2. n # 0 => g[n] \in Seq(B) /\ h[n] = g[n]  BY <2>1, <2>2, <4>1
      <4>3. h[i] = IF n = 0 THEN u ELSE g[n] \o u  BY <3>1
      <4>4. i = 1 <=> n = 0  BY <2>3, <3>1
      <4>5. i - 1 = n /\ r[i] = u  BY <2>3, <3>1
      <4>. HIDE DEF h
      <4>. QED  BY <4>2, <4>3, <4>4, <4>5
    <3>2. CASE i # n + 1
      <4>1. i \in 1 .. n  BY <2>3, <3>2
      <4>2. h[i] = g[i] /\ g[i] \in Seq(B)  BY <2>1, <2>2, <3>2, <4>1
      <4>3. g[i] = IF i = 1 THEN q[i] ELSE g[i - 1] \o q[i]
        BY <2>1, <2>2, <4>1 DEF Flattening
      <4>4. i # 1 => h[i - 1] = g[i - 1]  BY <2>3, <4>1
      <4>. HIDE DEF h
      <4>. QED  BY <2>3, <4>1, <4>2, <4>3, <4>4
    <3>. QED  BY <3>1, <3>2
  <2>5. h \in [1 .. Len(r) -> Seq(B)] /\ Flattening(h, r)
    <3>1. h = [i \in 1 .. Len(r) |-> h[i]]  BY <2>3
    <3>. HIDE DEF h
    <3>. QED  BY <2>3, <2>4, <3>1 DEF Flattening
  <2>. HIDE DEF h
  <2>6. \E i \in [1 .. Len(r) -> Seq(B)] : Flattening(i, r)  BY <2>5
  <2>. QED  BY <2>2, <2>3, <2>6
<1>3. \A q \in Seq(Seq(B)) : q \in P
  <2>. HIDE DEF P
  <2>. QED  BY <1>1, <1>2, TextInduction
<1>. QED  BY <1>3

FlattensTo(g, q, B) ==
    Flattening(g, q) /\ g \in [1 .. Len(q) -> Seq(B)] /\ FlattenSeq(q) = g[Len(q)]

LEMMA FlattenedBy ==
    ASSUME NEW B, NEW q \in Seq(Seq(B)), Len(q) # 0
    PROVE  \E g : FlattensTo(g, q, B)
<1>1. PICK h \in [1 .. Len(q) -> Seq(B)] : Flattening(h, q)  BY SomethingFlattens
<1>2. PICK g : g = CHOOSE i : Flattening(i, q)  OBVIOUS
<1>3. Flattening(g, q)  BY <1>1, <1>2
<1>4. FlattenSeq(q) = g[Len(q)]  BY <1>2 DEF FlattenSeq, Flattening
<1>5. Len(q) \in Nat /\ Len(q) <= Len(q) /\ Len(q) \in 1 .. Len(q)  OBVIOUS
<1>6. \A k \in 1 .. Len(q) : g[k] = h[k]
  <2>1. Begins(q, q)  BY <1>5 DEF Begins
  <2>. QED  BY <1>1, <1>3, <2>1, FlattensAlike
<1>7. g[Len(q)] = h[Len(q)]  BY <1>5, <1>6
<1>. QED  BY <1>1, <1>4, <1>7 DEF FlattensTo

(* One text more comes behind those that are there.                        *)
LEMMA FlattenStep ==
    ASSUME NEW B
    PROVE  /\ FlattenSeq(<<>>) = <<>>
           /\ \A q \in Seq(Seq(B)) : FlattenSeq(q) \in Seq(B)
           /\ \A q \in Seq(Seq(B)), u \in Seq(B) : FlattenSeq(Append(q, u)) = FlattenSeq(q) \o u
<1>1. FlattenSeq(<<>>) = <<>>  BY DEF FlattenSeq
<1>2. ASSUME NEW q \in Seq(Seq(B)) PROVE FlattenSeq(q) \in Seq(B)
  <2>1. CASE Len(q) = 0
    <3>1. q = <<>>  BY <2>1
    <3>2. FlattenSeq(q) = q  BY <2>1 DEF FlattenSeq
    <3>3. q \in Seq(B)  BY <3>1
    <3>. QED  BY <3>2, <3>3, Zenon
  <2>2. CASE Len(q) # 0
    <3>1. PICK g : FlattensTo(g, q, B)  BY <2>2, FlattenedBy
    <3>2. Len(q) \in 1 .. Len(q)  BY <2>2
    <3>. QED  BY <3>1, <3>2 DEF FlattensTo
  <2>. QED  BY <2>1, <2>2
<1>3. ASSUME NEW q \in Seq(Seq(B)), NEW u \in Seq(B)
      PROVE  FlattenSeq(Append(q, u)) = FlattenSeq(q) \o u
  <2>1. PICK r, n : r = Append(q, u) /\ n = Len(q)  OBVIOUS
  <2>2. /\ r \in Seq(Seq(B)) /\ Len(r) = n + 1 /\ n \in Nat
        /\ r[n + 1] = u /\ \A k \in 1 .. n : r[k] = q[k]
    BY <2>1
  <2>3. PICK h : FlattensTo(h, r, B)
    <3>1. Len(r) # 0  BY <2>2
    <3>. QED  BY <2>2, <3>1, FlattenedBy
  <2>4. h[n + 1] = IF n + 1 = 1 THEN r[n + 1] ELSE h[(n + 1) - 1] \o r[n + 1]
    <3>1. n + 1 \in 1 .. Len(r)  BY <2>2
    <3>. QED  BY <2>3, <3>1 DEF FlattensTo, Flattening
  <2>5. CASE n = 0
    <3>1. FlattenSeq(q) = q /\ Len(q) = 0  BY <2>1, <2>5 DEF FlattenSeq
    <3>2. FlattenSeq(r) = u  BY <2>2, <2>3, <2>4, <2>5 DEF FlattensTo
    <3>3. q \o u = u
      <4>1. q = <<>>  BY <3>1
      <4>. QED  BY <4>1
    <3>. QED  BY <2>1, <3>1, <3>2, <3>3
  <2>6. CASE n # 0
    <3>1. PICK g : FlattensTo(g, q, B)  BY <2>1, <2>6, FlattenedBy
    <3>2. Begins(r, q) /\ Flattening(g, q) /\ Flattening(h, r)
      BY <2>1, <2>2, <2>3, <3>1 DEF Begins, FlattensTo
    <3>3. \A k \in 1 .. Len(q) : g[k] = h[k]  BY <2>2, <3>2, FlattensAlike
    <3>4. (n + 1) - 1 = n /\ n \in 1 .. Len(q) /\ n + 1 # 1  BY <2>1, <2>2, <2>6
    <3>5. h[n + 1] = h[n] \o u  BY <2>2, <2>4, <3>4
    <3>. QED  BY <2>1, <2>2, <2>3, <3>1, <3>3, <3>4, <3>5 DEF FlattensTo
  <2>. QED  BY <2>5, <2>6
<1>. QED  BY <1>1, <1>2, <1>3

-----------------------------------------------------------------------------
(* A text of which every character is written in a way of its own.         *)
Spelled(t, w) == FlattenSeq([k \in DOMAIN t |-> w[t[k]]])

LEMMA SpelledStep ==
    ASSUME NEW S, NEW B, NEW w \in [S -> Seq(B)]
    PROVE  /\ Spelled(<<>>, w) = <<>>
           /\ \A t \in Seq(S) : Spelled(t, w) \in Seq(B)
           /\ \A t \in Seq(S), c \in S : Spelled(Append(t, c), w) = Spelled(t, w) \o w[c]
<1>. DEFINE parts(t) == [k \in DOMAIN t |-> w[t[k]]]
<1>1. ASSUME NEW t \in Seq(S) PROVE parts(t) \in Seq(Seq(B))
  <2>1. DOMAIN t = 1 .. Len(t) /\ Len(t) \in Nat /\ \A k \in 1 .. Len(t) : t[k] \in S  OBVIOUS
  <2>2. parts(t) \in [1 .. Len(t) -> Seq(B)]  BY <2>1
  <2>. HIDE DEF parts
  <2>3. PICK n, p : n \in Nat /\ p = parts(t) /\ p \in [1 .. n -> Seq(B)]  BY <2>1, <2>2
  <2>4. p \in UNION {[1 .. m -> Seq(B)] : m \in Nat}  BY <2>3
  <2>5. p \in Seq(Seq(B))  BY <2>4, SeqDef
  <2>. QED  BY <2>3, <2>5
<1>2. parts(<<>>) = <<>>  OBVIOUS
<1>3. ASSUME NEW t \in Seq(S), NEW c \in S
      PROVE  parts(Append(t, c)) = Append(parts(t), w[c])
  <2>1. PICK u, n : u = Append(t, c) /\ n = Len(t)  OBVIOUS
  <2>2. /\ u \in Seq(S) /\ DOMAIN u = 1 .. n + 1 /\ Len(u) = n + 1 /\ DOMAIN t = 1 .. n /\ n \in Nat
        /\ u[n + 1] = c /\ \A k \in 1 .. n : u[k] = t[k]
    BY <2>1
  <2>3. PICK p, q : p = parts(u) /\ q = Append(parts(t), w[c])  OBVIOUS
  <2>4. p \in Seq(Seq(B)) /\ q \in Seq(Seq(B)) /\ parts(t) \in Seq(Seq(B))
    <3>1. parts(u) \in Seq(Seq(B)) /\ parts(t) \in Seq(Seq(B)) /\ w[c] \in Seq(B)  BY <1>1, <2>2
    <3>. HIDE DEF parts
    <3>. QED  BY <2>3, <3>1
  <2>5. Len(parts(t)) = n /\ Len(p) = n + 1 /\ Len(q) = n + 1
    <3>1. DOMAIN parts(t) = 1 .. n /\ DOMAIN p = 1 .. n + 1  BY <2>2, <2>3
    <3>. HIDE DEF parts
    <3>2. Len(parts(t)) = n /\ Len(p) = n + 1  BY <2>2, <2>4, <3>1
    <3>. QED  BY <2>3, <2>4, <3>2
  <2>6. ASSUME NEW k \in 1 .. n + 1 PROVE p[k] = q[k]
    <3>1. CASE k = n + 1
      <4>1. p[k] = w[c]  BY <2>2, <2>3, <3>1
      <4>. HIDE DEF parts
      <4>2. q[k] = w[c]  BY <2>3, <2>4, <2>5, <3>1
      <4>. QED  BY <4>1, <4>2
    <3>2. CASE k # n + 1
      <4>1. k \in 1 .. n  BY <2>2, <3>2
      <4>2. p[k] = w[t[k]] /\ parts(t)[k] = w[t[k]]  BY <2>2, <2>3, <4>1
      <4>. HIDE DEF parts
      <4>3. q[k] = parts(t)[k]  BY <2>3, <2>4, <2>5, <4>1
      <4>. QED  BY <4>2, <4>3
    <3>. QED  BY <3>1, <3>2
  <2>7. p = q
    <3>. HIDE DEF parts
    <3>. QED  BY <2>4, <2>5, <2>6, SeqEqual
  <2>. HIDE DEF parts
  <2>. QED  BY <2>1, <2>3, <2>7
<1>4. \A t : Spelled(t, w) = FlattenSeq(parts(t))  BY DEF Spelled
<1>. HIDE DEF parts
<1>5. Spelled(<<>>, w) = <<>>  BY <1>2, <1>4, FlattenStep
<1>6. \A t \in Seq(S) : Spelled(t, w) \in Seq(B)  BY <1>1, <1>4, FlattenStep
<1>7. ASSUME NEW t \in Seq(S), NEW c \in S
      PROVE  Spelled(Append(t, c), w) = Spelled(t, w) \o w[c]
  <2>1. FlattenSeq(Append(parts(t), w[c])) = FlattenSeq(parts(t)) \o w[c]
    <3>1. parts(t) \in Seq(Seq(B)) /\ w[c] \in Seq(B)  BY <1>1
    <3>. QED  BY <3>1, FlattenStep
  <2>. QED  BY <1>3, <1>4, <2>1
<1>. QED  BY <1>5, <1>6, <1>7

LEMMA SpelledOne ==
    ASSUME NEW S, NEW B, NEW w \in [S -> Seq(B)], NEW c \in S, NEW d \in S
    PROVE  /\ Spelled(<<c>>, w) = w[c]
           /\ Spelled(<<c, d>>, w) = w[c] \o w[d]
<1>0. PICK e, f : e = <<>> /\ f = <<c>>  OBVIOUS
<1>1. <<c>> = Append(e, c) /\ e \in Seq(S)  BY <1>0
<1>2. Spelled(e, w) = <<>>  BY <1>0, SpelledStep
<1>3. Spelled(Append(e, c), w) = Spelled(e, w) \o w[c]  BY <1>1, SpelledStep
<1>4. w[c] \in Seq(B)  OBVIOUS
<1>5. Spelled(<<c>>, w) = w[c]  BY <1>1, <1>2, <1>3, <1>4, ConcatEmptySeq
<1>6. <<c, d>> = Append(f, d) /\ f \in Seq(S)  BY <1>0
<1>7. Spelled(Append(f, d), w) = Spelled(f, w) \o w[d]  BY <1>6, SpelledStep
<1>. QED  BY <1>0, <1>5, <1>6, <1>7

(* Two texts are spelled one behind the other.                             *)
LEMMA SpelledConcat ==
    ASSUME NEW S, NEW B, NEW w \in [S -> Seq(B)], NEW u \in Seq(S)
    PROVE  \A v \in Seq(S) : Spelled(u \o v, w) = Spelled(u, w) \o Spelled(v, w)
<1>. DEFINE P == {v \in Seq(S) : Spelled(u \o v, w) = Spelled(u, w) \o Spelled(v, w)}
<1>0. \A t \in Seq(S), c \in S : Spelled(Append(t, c), w) = Spelled(t, w) \o w[c]  BY SpelledStep
<1>1. <<>> \in P
  <2>1. u \o <<>> = u /\ <<>> \in Seq(S)  BY ConcatEmptySeq
  <2>2. Spelled(<<>>, w) = <<>> /\ Spelled(u, w) \in Seq(B)  BY SpelledStep
  <2>3. Spelled(u, w) \o <<>> = Spelled(u, w)  BY <2>2, ConcatEmptySeq
  <2>. QED  BY <2>1, <2>2, <2>3
<1>2. ASSUME NEW v \in Seq(S), NEW c \in S, v \in P PROVE Append(v, c) \in P
  <2>1. u \o Append(v, c) = Append(u \o v, c) /\ u \o v \in Seq(S) /\ Append(v, c) \in Seq(S)  OBVIOUS
  <2>2. Spelled(Append(u \o v, c), w) = Spelled(u \o v, w) \o w[c]  BY <1>0, <2>1
  <2>3. Spelled(Append(v, c), w) = Spelled(v, w) \o w[c]  BY <1>0
  <2>4. Spelled(u \o v, w) = Spelled(u, w) \o Spelled(v, w)  BY <1>2
  <2>5. Spelled(u, w) \in Seq(B) /\ Spelled(v, w) \in Seq(B) /\ w[c] \in Seq(B)  BY SpelledStep
  <2>6. (Spelled(u, w) \o Spelled(v, w)) \o w[c] = Spelled(u, w) \o (Spelled(v, w) \o w[c])
    BY <2>5, ConcatAssociative
  <2>. QED  BY <2>1, <2>2, <2>3, <2>4, <2>6
<1>. HIDE DEF P
<1>3. \A v \in Seq(S) : v \in P  BY <1>1, <1>2, TextInduction
<1>. QED  BY <1>3 DEF P

-----------------------------------------------------------------------------
(* Short texts, and parts of texts.                                        *)
LEMMA TwoInARow ==
    ASSUME NEW p, NEW q
    PROVE  <<p>> \o <<q>> = <<p, q>> /\ Append(<<p>>, q) = <<p, q>>
<1>1. PICK C, e : C = {p, q} /\ e = <<p>>  OBVIOUS
<1>2. e \in Seq(C) /\ q \in C /\ p \in C  BY <1>1
<1>3. Append(e, q) = e \o <<q>>  BY <1>2, AppendIsConcat
<1>4. Append(e, q) \in Seq(C) /\ Len(e) = 1 /\ e[1] = p  BY <1>1, <1>2
<1>5. Len(Append(e, q)) = 2 /\ Append(e, q)[1] = p /\ Append(e, q)[2] = q
  <2>1. /\ Len(Append(e, q)) = Len(e) + 1 /\ Append(e, q)[Len(e) + 1] = q
        /\ \A i \in 1 .. Len(e) : Append(e, q)[i] = e[i]
    BY <1>2, AppendProperties
  <2>. QED  BY <1>4, <2>1
<1>6. PICK f : f = <<p, q>>  OBVIOUS
<1>7. f \in Seq(C) /\ Len(f) = 2 /\ f[1] = p /\ f[2] = q  BY <1>2, <1>6
<1>8. Append(e, q) = f  BY <1>4, <1>5, <1>7, SeqEqual
<1>. QED  BY <1>1, <1>3, <1>6, <1>8

LEMMA ThreeInARow ==
    ASSUME NEW C, NEW p \in C, NEW q \in C, NEW r \in C
    PROVE  <<p, q, r>> \in Seq(C) /\ Append(<<p, q>>, r) = <<p, q, r>>
<1>1. PICK x, y : x = <<p, q>> /\ y = <<p, q, r>>  OBVIOUS
<1>2. x \in Seq(C) /\ Len(x) = 2 /\ x[1] = p /\ x[2] = q  BY <1>1
<1>3. y \in Seq(C) /\ Len(y) = 3 /\ y[1] = p /\ y[2] = q /\ y[3] = r  BY <1>1
<1>4. PICK z : z = Append(x, r)  OBVIOUS
<1>5. z \in Seq(C) /\ Len(z) = 3 /\ z[1] = p /\ z[2] = q /\ z[3] = r
  <2>1. /\ z \in Seq(C) /\ Len(z) = Len(x) + 1 /\ z[Len(x) + 1] = r
        /\ \A i \in 1 .. Len(x) : z[i] = x[i]
    <3>1. /\ Append(x, r) \in Seq(C) /\ Len(Append(x, r)) = Len(x) + 1
          /\ \A i \in 1 .. Len(x) : Append(x, r)[i] = x[i]
          /\ Append(x, r)[Len(x) + 1] = r
      BY <1>2, AppendProperties
    <3>. QED  BY <1>4, <3>1, Zenon
  <2>. QED  BY <1>2, <2>1
<1>6. z = y  BY <1>3, <1>5, SeqEqual
<1>. QED  BY <1>1, <1>3, <1>4, <1>6

LEMMA FrontOfAppend ==
    ASSUME NEW C, NEW x \in Seq(C), NEW c \in C
    PROVE  Front(Append(x, c)) = x /\ Last(Append(x, c)) = c
<1>1. PICK u, n : u = Append(x, c) /\ n = Len(x)  OBVIOUS
<1>2. /\ u \in Seq(C) /\ Len(u) = n + 1 /\ n \in Nat /\ u[n + 1] = c
      /\ \A k \in 1 .. n : u[k] = x[k] /\ x[k] \in C
  BY <1>1
<1>3. Front(u) = SubSeq(u, 1, n) /\ Last(u) = c  BY <1>2 DEF Front, Last
<1>4. /\ SubSeq(u, 1, n) \in Seq(C)
      /\ Len(SubSeq(u, 1, n)) = IF 1 <= n THEN n - 1 + 1 ELSE 0
      /\ \A i \in 1 .. n - 1 + 1 : SubSeq(u, 1, n)[i] = u[1 + i - 1]
  <2>1. 1 \in Int /\ n \in Int /\ \A i \in 1 .. n : u[i] \in C  BY <1>2
  <2>. QED  BY <2>1, SubSeqProperties
<1>5. PICK p : p = SubSeq(u, 1, n)  OBVIOUS
<1>6. p \in Seq(C) /\ Len(p) = n /\ \A i \in 1 .. n : p[i] = x[i]  BY <1>2, <1>4, <1>5
<1>7. p = x  BY <1>1, <1>6, SeqEqual
<1>. QED  BY <1>1, <1>3, <1>5, <1>7

LEMMA PartTyped ==
    ASSUME NEW C, NEW x \in Seq(C), NEW m \in DOMAIN x, NEW n \in DOMAIN x, m <= n
    PROVE  /\ SubSeq(x, m, n) \in Seq(C) /\ Len(SubSeq(x, m, n)) = n - m + 1
           /\ DOMAIN SubSeq(x, m, n) = 1 .. n - m + 1
           /\ \A k \in 1 .. n - m + 1 : SubSeq(x, m, n)[k] = x[m + k - 1]
<1>1. DOMAIN x = 1 .. Len(x) /\ Len(x) \in Nat /\ m \in Int /\ n \in Int  OBVIOUS
<1>2. \A k \in m .. n : x[k] \in C  BY <1>1
<1>3. /\ SubSeq(x, m, n) \in Seq(C)
      /\ Len(SubSeq(x, m, n)) = IF m <= n THEN n - m + 1 ELSE 0
      /\ \A k \in 1 .. n - m + 1 : SubSeq(x, m, n)[k] = x[m + k - 1]
  BY <1>1, <1>2, SubSeqProperties
<1>4. DOMAIN SubSeq(x, m, n) = 1 .. Len(SubSeq(x, m, n))  BY <1>3, LenProperties
<1>. QED  BY <1>3, <1>4

Associates(x, y, z, C) == (x \o y) \o z = x \o (y \o z)

LEMMA Associative ==
    ASSUME NEW C, NEW x \in Seq(C), NEW y \in Seq(C), NEW z \in Seq(C)
    PROVE  Associates(x, y, z, C)
  BY ConcatAssociative DEF Associates
=============================================================================
