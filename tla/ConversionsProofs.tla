-------------------------- MODULE ConversionsProofs --------------------------
(***************************************************************************)
(* Proofs about Conversions, for texts of any length in any characters and *)
(* any length of an excerpt: a character more does to what is made of the  *)
(* text what one step of the loop does, so what is said of a text is said  *)
(* character by character.                                                 *)
(***************************************************************************)
EXTENDS MCConversions, Tables

-----------------------------------------------------------------------------
(* The steps of the loops over a text, and what each loop comes to.        *)
AddReplaced(s, c, K, blank) ==
    IF c \in K THEN Append(s, c)
    ELSE IF s # <<>> /\ Last(s) = blank THEN s ELSE Append(s, blank)

AddCollapsed(s, c) == IF c = "-" /\ s # <<>> /\ Last(s) = "-" THEN s ELSE Append(s, c)

RunsStep(C, K, blank) ==
    \A t \in Seq(C), c \in C :
       RunsReplaced(Append(t, c), K, blank) = AddReplaced(RunsReplaced(t, K, blank), c, K, blank)

(* A kept character is added, a run of others becomes one blank.           *)
LEMMA RunsReplacedStep ==
    ASSUME NEW C, NEW K, NEW blank
    PROVE  /\ RunsReplaced(<<>>, K, blank) = <<>>
           /\ \A t \in Seq(C) : RunsReplaced(t, K, blank) \in Seq(C \cup {blank})
           /\ RunsStep(C, K, blank)
<1>. DEFINE A == Seq(C \cup {blank})
            f == [p \in A \X C |-> AddReplaced(p[1], p[2], K, blank)]
<1>1. <<>> \in A /\ f \in [A \X C -> A]
  <2>1. \A s \in A, c \in C : AddReplaced(s, c, K, blank) \in A  BY DEF AddReplaced
  <2>2. <<>> \in A  OBVIOUS
  <2>. HIDE DEF A
  <2>. QED  BY <2>1, <2>2
<1>2. ASSUME NEW t \in Seq(C) PROVE RunsReplaced(t, K, blank) = Folded(f, <<>>, t)
  <2>. DEFINE Way(h) == h = [s \in SUBSET DOMAIN t |->
                IF s = {} THEN <<>> ELSE AddReplaced(h[s \ {Max(s)}], t[Max(s)], K, blank)]
  <2>1. RunsReplaced(t, K, blank) = (CHOOSE h : Way(h))[DOMAIN t]
    BY DEF RunsReplaced, FoldLeft, MapThenFoldSet, AddReplaced
  <2>. HIDE DEF A
  <2>2. PICK h : FoldsTo(h, f, <<>>, t, A)
    <3>. HIDE DEF f
    <3>. QED  BY <1>1, FoldedBy
  <2>3. Way(h)
    <3>1. ASSUME NEW s \in SUBSET DOMAIN t, s # {}
          PROVE  f[<<h[s \ {Max(s)}], t[Max(s)]>>] = AddReplaced(h[s \ {Max(s)}], t[Max(s)], K, blank)
      <4>1. s \ {Max(s)} \in SUBSET DOMAIN t /\ t[Max(s)] \in C  BY <3>1, PartOfText
      <4>2. h[s \ {Max(s)}] \in A  BY <2>2, <4>1 DEF FoldsTo
      <4>. QED  BY <4>1, <4>2
    <3>2. h = [s \in SUBSET DOMAIN t |->
                  IF s = {} THEN <<>> ELSE f[<<h[s \ {Max(s)}], t[Max(s)]>>]]
      BY <2>2 DEF FoldsTo, Folding
    <3>. HIDE DEF f
    <3>. QED  BY <3>1, <3>2
  <2>4. PICK g : g = CHOOSE i : Way(i)  OBVIOUS
  <2>5. Way(g)  BY <2>3, <2>4
  <2>6. Alike(g, h, t)  BY <2>3, <2>5 DEF Alike
  <2>7. g[DOMAIN t] = h[DOMAIN t]  BY <2>6, AlikeToTheEnd
  <2>. HIDE DEF f
  <2>. QED  BY <2>1, <2>2, <2>4, <2>7 DEF FoldsTo
<1>3. <<>> \in Seq(C)  OBVIOUS
<1>4. \A a \in A, c \in C : f[<<a, c>>] = AddReplaced(a, c, K, blank)
  <2>. HIDE DEF A
  <2>. QED  OBVIOUS
<1>. HIDE DEF A, f
<1>5. /\ Folded(f, <<>>, <<>>) = <<>>
      /\ \A t \in Seq(C) : Folded(f, <<>>, t) \in A
      /\ \A t \in Seq(C), c \in C : Folded(f, <<>>, Append(t, c)) = f[<<Folded(f, <<>>, t), c>>]
  <2>1. Stepwise(f, <<>>, C, A)  BY <1>1, FoldedStep
  <2>. QED  BY <2>1 DEF Stepwise
<1>6. RunsReplaced(<<>>, K, blank) = <<>>  BY <1>2, <1>3, <1>5
<1>7. ASSUME NEW t \in Seq(C) PROVE RunsReplaced(t, K, blank) \in Seq(C \cup {blank})
  BY <1>2, <1>5 DEF A
<1>8. ASSUME NEW t \in Seq(C), NEW c \in C
      PROVE  RunsReplaced(Append(t, c), K, blank) = AddReplaced(RunsReplaced(t, K, blank), c, K, blank)
  <2>1. Append(t, c) \in Seq(C)  OBVIOUS
  <2>2. RunsReplaced(t, K, blank) = Folded(f, <<>>, t) /\ RunsReplaced(t, K, blank) \in A  BY <1>2, <1>5
  <2>3. f[<<RunsReplaced(t, K, blank), c>>] = AddReplaced(RunsReplaced(t, K, blank), c, K, blank)
    BY <1>4, <2>2
  <2>. QED  BY <1>2, <1>5, <2>1, <2>2, <2>3
<1>. QED  BY <1>6, <1>7, <1>8 DEF RunsStep

(* A hyphen behind a hyphen is left out.                                   *)
LEMMA CollapsedStep ==
    ASSUME NEW C
    PROVE  /\ Collapsed(<<>>) = <<>>
           /\ \A t \in Seq(C) : Collapsed(t) \in Seq(C)
           /\ \A t \in Seq(C), c \in C : Collapsed(Append(t, c)) = AddCollapsed(Collapsed(t), c)
<1>. DEFINE A == Seq(C)
            f == [p \in A \X C |-> AddCollapsed(p[1], p[2])]
<1>1. <<>> \in A /\ f \in [A \X C -> A]
  <2>1. \A s \in A, c \in C : AddCollapsed(s, c) \in A  BY DEF AddCollapsed
  <2>2. <<>> \in A  OBVIOUS
  <2>. HIDE DEF A
  <2>. QED  BY <2>1, <2>2
<1>2. ASSUME NEW t \in Seq(C) PROVE Collapsed(t) = Folded(f, <<>>, t)
  <2>. DEFINE Way(h) == h = [s \in SUBSET DOMAIN t |->
                IF s = {} THEN <<>> ELSE AddCollapsed(h[s \ {Max(s)}], t[Max(s)])]
  <2>1. Collapsed(t) = (CHOOSE h : Way(h))[DOMAIN t]
    BY DEF Collapsed, FoldLeft, MapThenFoldSet, AddCollapsed
  <2>. HIDE DEF A
  <2>2. PICK h : FoldsTo(h, f, <<>>, t, A)
    <3>. HIDE DEF f
    <3>. QED  BY <1>1, FoldedBy
  <2>3. Way(h)
    <3>1. ASSUME NEW s \in SUBSET DOMAIN t, s # {}
          PROVE  f[<<h[s \ {Max(s)}], t[Max(s)]>>] = AddCollapsed(h[s \ {Max(s)}], t[Max(s)])
      <4>1. s \ {Max(s)} \in SUBSET DOMAIN t /\ t[Max(s)] \in C  BY <3>1, PartOfText
      <4>2. h[s \ {Max(s)}] \in A  BY <2>2, <4>1 DEF FoldsTo
      <4>. QED  BY <4>1, <4>2
    <3>2. h = [s \in SUBSET DOMAIN t |->
                  IF s = {} THEN <<>> ELSE f[<<h[s \ {Max(s)}], t[Max(s)]>>]]
      BY <2>2 DEF FoldsTo, Folding
    <3>. HIDE DEF f
    <3>. QED  BY <3>1, <3>2
  <2>4. PICK g : g = CHOOSE i : Way(i)  OBVIOUS
  <2>5. Way(g)  BY <2>3, <2>4
  <2>6. Alike(g, h, t)  BY <2>3, <2>5 DEF Alike
  <2>7. g[DOMAIN t] = h[DOMAIN t]  BY <2>6, AlikeToTheEnd
  <2>. HIDE DEF f
  <2>. QED  BY <2>1, <2>2, <2>4, <2>7 DEF FoldsTo
<1>3. <<>> \in Seq(C)  OBVIOUS
<1>4. \A a \in A, c \in C : f[<<a, c>>] = AddCollapsed(a, c)
  <2>. HIDE DEF A
  <2>. QED  OBVIOUS
<1>. HIDE DEF A, f
<1>5. /\ Folded(f, <<>>, <<>>) = <<>>
      /\ \A t \in Seq(C) : Folded(f, <<>>, t) \in A
      /\ \A t \in Seq(C), c \in C : Folded(f, <<>>, Append(t, c)) = f[<<Folded(f, <<>>, t), c>>]
  <2>1. Stepwise(f, <<>>, C, A)  BY <1>1, FoldedStep
  <2>. QED  BY <2>1 DEF Stepwise
<1>6. Collapsed(<<>>) = <<>>  BY <1>2, <1>3, <1>5
<1>7. ASSUME NEW t \in Seq(C) PROVE Collapsed(t) \in Seq(C)
  BY <1>2, <1>5 DEF A
<1>8. ASSUME NEW t \in Seq(C), NEW c \in C
      PROVE  Collapsed(Append(t, c)) = AddCollapsed(Collapsed(t), c)
  <2>1. Append(t, c) \in Seq(C)  OBVIOUS
  <2>2. Collapsed(t) = Folded(f, <<>>, t) /\ Collapsed(t) \in A  BY <1>2, <1>5
  <2>3. f[<<Collapsed(t), c>>] = AddCollapsed(Collapsed(t), c)  BY <1>4, <2>2
  <2>. QED  BY <1>2, <1>5, <2>1, <2>2, <2>3
<1>. QED  BY <1>6, <1>7, <1>8

(* Reading HTML: what it said so far, and whether an entity is open.       *)
ReadHtml(s, c) ==
    LET meant == {k \in DOMAIN Entities : s.open /\ Entities[k][2] = c}
    IN  IF c = "&" THEN [s EXCEPT !.open = TRUE]
        ELSE [said |-> Append(s.said, IF meant = {} THEN c
                                      ELSE Entities[CHOOSE k \in meant : TRUE][1]),
              open |-> FALSE]

Reader(html) == FoldLeft(ReadHtml, [said |-> <<>>, open |-> FALSE], html)

Readers(C) == [said : Seq(C \cup {"&", "<", "\""}), open : BOOLEAN]

LEMMA ReadTyped ==
    ASSUME NEW C, NEW s \in Readers(C), NEW c \in C
    PROVE  ReadHtml(s, c) \in Readers(C)
<1>. DEFINE meant == {k \in DOMAIN Entities : s.open /\ Entities[k][2] = c}
            B == C \cup {"&", "<", "\""}
<1>0. s = [said |-> s.said, open |-> s.open]  BY DEF Readers
<1>1. s.said \in Seq(B) /\ s.open \in BOOLEAN  BY DEF Readers
<1>2. CASE c = "&"
  <2>1. ReadHtml(s, c) = [said |-> s.said, open |-> TRUE]  BY <1>0, <1>2 DEF ReadHtml
  <2>. HIDE DEF B
  <2>2. [said |-> s.said, open |-> TRUE] \in [said : Seq(B), open : BOOLEAN]  BY <1>1
  <2>. QED  BY <2>1, <2>2 DEF Readers, B
<1>3. CASE c # "&"
  <2>1. PICK d : d = IF meant = {} THEN c ELSE Entities[CHOOSE k \in meant : TRUE][1]  OBVIOUS
  <2>2. d \in B
    <3>1. CASE meant = {}  BY <2>1, <3>1
    <3>2. CASE meant # {}
      <4>1. PICK k : k = CHOOSE m \in meant : TRUE  OBVIOUS
      <4>2. k \in meant  BY <3>2, <4>1
      <4>3. k \in 1 .. 3
        <5>1. DOMAIN Entities = 1 .. 3  BY DEF Entities
        <5>. QED  BY <4>2, <5>1
      <4>4. Entities[k][1] \in {"&", "<", "\""}
        <5>1. Entities[1][1] = "&" /\ Entities[2][1] = "<" /\ Entities[3][1] = "\""  BY DEF Entities
        <5>2. k = 1 \/ k = 2 \/ k = 3  BY <4>3
        <5>. QED  BY <5>1, <5>2
      <4>. QED  BY <2>1, <3>2, <4>1, <4>4
    <3>. QED  BY <3>1, <3>2
  <2>3. ReadHtml(s, c) = [said |-> Append(s.said, d), open |-> FALSE]  BY <1>3, <2>1 DEF ReadHtml
  <2>. HIDE DEF B
  <2>4. [said |-> Append(s.said, d), open |-> FALSE] \in [said : Seq(B), open : BOOLEAN]  BY <1>1, <2>2
  <2>. QED  BY <2>3, <2>4 DEF Readers, B
<1>. QED  BY <1>2, <1>3

(* HTML is read character by character.                                    *)
LEMMA ReaderStep ==
    ASSUME NEW C
    PROVE  /\ Reader(<<>>) = [said |-> <<>>, open |-> FALSE]
           /\ \A t \in Seq(C) : Reader(t) \in Readers(C)
           /\ \A t \in Seq(C), c \in C : Reader(Append(t, c)) = ReadHtml(Reader(t), c)
<1>. DEFINE A == Readers(C)
            f == [p \in A \X C |-> ReadHtml(p[1], p[2])]
<1>1. [said |-> <<>>, open |-> FALSE] \in A /\ f \in [A \X C -> A]
  <2>1. \A s \in A, c \in C : ReadHtml(s, c) \in A  BY ReadTyped
  <2>2. [said |-> <<>>, open |-> FALSE] \in A  BY DEF Readers
  <2>. HIDE DEF A
  <2>. QED  BY <2>1, <2>2
<1>2. ASSUME NEW t \in Seq(C) PROVE Reader(t) = Folded(f, [said |-> <<>>, open |-> FALSE], t)
  <2>. DEFINE Way(h) == h = [s \in SUBSET DOMAIN t |->
                IF s = {} THEN [said |-> <<>>, open |-> FALSE] ELSE ReadHtml(h[s \ {Max(s)}], t[Max(s)])]
  <2>1. Reader(t) = (CHOOSE h : Way(h))[DOMAIN t]
    BY DEF Reader, FoldLeft, MapThenFoldSet
  <2>. HIDE DEF A
  <2>2. PICK h : FoldsTo(h, f, [said |-> <<>>, open |-> FALSE], t, A)
    <3>. HIDE DEF f
    <3>. QED  BY <1>1, FoldedBy
  <2>3. Way(h)
    <3>1. ASSUME NEW s \in SUBSET DOMAIN t, s # {}
          PROVE  f[<<h[s \ {Max(s)}], t[Max(s)]>>] = ReadHtml(h[s \ {Max(s)}], t[Max(s)])
      <4>1. s \ {Max(s)} \in SUBSET DOMAIN t /\ t[Max(s)] \in C  BY <3>1, PartOfText
      <4>2. h[s \ {Max(s)}] \in A  BY <2>2, <4>1 DEF FoldsTo
      <4>. QED  BY <4>1, <4>2
    <3>2. h = [s \in SUBSET DOMAIN t |->
                  IF s = {} THEN [said |-> <<>>, open |-> FALSE] ELSE f[<<h[s \ {Max(s)}], t[Max(s)]>>]]
      BY <2>2 DEF FoldsTo, Folding
    <3>. HIDE DEF f
    <3>. QED  BY <3>1, <3>2
  <2>4. PICK g : g = CHOOSE i : Way(i)  OBVIOUS
  <2>5. Way(g)  BY <2>3, <2>4
  <2>6. Alike(g, h, t)  BY <2>3, <2>5 DEF Alike
  <2>7. g[DOMAIN t] = h[DOMAIN t]  BY <2>6, AlikeToTheEnd
  <2>. HIDE DEF f
  <2>. QED  BY <2>1, <2>2, <2>4, <2>7 DEF FoldsTo
<1>3. <<>> \in Seq(C)  OBVIOUS
<1>4. \A a \in A, c \in C : f[<<a, c>>] = ReadHtml(a, c)
  <2>. HIDE DEF A
  <2>. QED  OBVIOUS
<1>. HIDE DEF A, f
<1>5. /\ Folded(f, [said |-> <<>>, open |-> FALSE], <<>>) = [said |-> <<>>, open |-> FALSE]
      /\ \A t \in Seq(C) : Folded(f, [said |-> <<>>, open |-> FALSE], t) \in A
      /\ \A t \in Seq(C), c \in C :
            Folded(f, [said |-> <<>>, open |-> FALSE], Append(t, c))
                = f[<<Folded(f, [said |-> <<>>, open |-> FALSE], t), c>>]
  <2>1. Stepwise(f, [said |-> <<>>, open |-> FALSE], C, A)  BY <1>1, FoldedStep
  <2>. QED  BY <2>1 DEF Stepwise
<1>6. Reader(<<>>) = [said |-> <<>>, open |-> FALSE]  BY <1>2, <1>3, <1>5
<1>7. ASSUME NEW t \in Seq(C) PROVE Reader(t) \in Readers(C)
  BY <1>2, <1>5 DEF A
<1>8. ASSUME NEW t \in Seq(C), NEW c \in C
      PROVE  Reader(Append(t, c)) = ReadHtml(Reader(t), c)
  <2>1. Append(t, c) \in Seq(C)  OBVIOUS
  <2>2. Reader(t) = Folded(f, [said |-> <<>>, open |-> FALSE], t) /\ Reader(t) \in A  BY <1>2, <1>5
  <2>3. f[<<Reader(t), c>>] = ReadHtml(Reader(t), c)  BY <1>4, <2>2
  <2>. QED  BY <1>2, <1>5, <2>1, <2>2, <2>3
<1>. QED  BY <1>6, <1>7, <1>8

-----------------------------------------------------------------------------
(* Texts without runs of blanks, and without blanks at the ends.           *)
Has(x, K) == \E k \in DOMAIN x : x[k] \in K

Single(x, blank) == \A k \in DOMAIN x : k + 1 \in DOMAIN x => ~ (x[k] = blank /\ x[k + 1] = blank)

Normal(x, K, blank) ==
    /\ x \in Seq(K \cup {blank}) /\ Single(x, blank)
    /\ x # <<>> => x[1] # blank /\ x[Len(x)] # blank

(* What a character more makes of that.                                    *)
LEMMA OneMore ==
    ASSUME NEW C, NEW x \in Seq(C), NEW c \in C, NEW K, NEW blank
    PROVE  /\ Has(Append(x, c), K) <=> Has(x, K) \/ c \in K
           /\ Single(Append(x, c), blank) <=>
                 Single(x, blank) /\ ~ (x # <<>> /\ Last(x) = blank /\ c = blank)
<1>1. PICK u, n : u = Append(x, c) /\ n = Len(x)  OBVIOUS
<1>2. /\ u \in Seq(C) /\ DOMAIN u = 1 .. n + 1 /\ DOMAIN x = 1 .. n /\ n \in Nat
      /\ u[n + 1] = c /\ (\A k \in 1 .. n : u[k] = x[k]) /\ (x = <<>> <=> n = 0)
  BY <1>1
<1>3. Has(u, K) <=> Has(x, K) \/ c \in K
  <2>1. ASSUME Has(u, K) PROVE Has(x, K) \/ c \in K
    <3>1. PICK k \in 1 .. n + 1 : u[k] \in K  BY <1>2, <2>1 DEF Has
    <3>2. k \in 1 .. n \/ k = n + 1  BY <1>2
    <3>. QED  BY <1>2, <3>1, <3>2 DEF Has
  <2>2. ASSUME Has(x, K) PROVE Has(u, K)
    <3>1. PICK k \in 1 .. n : x[k] \in K  BY <1>2, <2>2 DEF Has
    <3>2. k \in 1 .. n + 1 /\ u[k] = x[k]  BY <1>2
    <3>. QED  BY <1>2, <3>1, <3>2 DEF Has
  <2>3. ASSUME c \in K PROVE Has(u, K)
    <3>1. n + 1 \in 1 .. n + 1  BY <1>2
    <3>. QED  BY <1>2, <2>3, <3>1 DEF Has
  <2>. QED  BY <2>1, <2>2, <2>3
<1>4. Single(u, blank) <=> Single(x, blank) /\ ~ (n # 0 /\ x[n] = blank /\ c = blank)
  <2>1. ASSUME Single(u, blank) PROVE Single(x, blank)
    <3>1. ASSUME NEW k \in 1 .. n, k + 1 \in 1 .. n PROVE ~ (x[k] = blank /\ x[k + 1] = blank)
      <4>1. k \in 1 .. n + 1 /\ k + 1 \in 1 .. n + 1 /\ u[k] = x[k] /\ u[k + 1] = x[k + 1]
        BY <1>2, <3>1
      <4>. QED  BY <1>2, <2>1, <4>1 DEF Single
    <3>. QED  BY <1>2, <3>1 DEF Single
  <2>2. ASSUME Single(u, blank), n # 0 PROVE ~ (x[n] = blank /\ c = blank)
    <3>1. n \in 1 .. n + 1 /\ n + 1 \in 1 .. n + 1 /\ u[n] = x[n]  BY <1>2, <2>2
    <3>. QED  BY <1>2, <2>2, <3>1 DEF Single
  <2>3. ASSUME Single(x, blank), ~ (n # 0 /\ x[n] = blank /\ c = blank) PROVE Single(u, blank)
    <3>1. ASSUME NEW k \in 1 .. n + 1, k + 1 \in 1 .. n + 1 PROVE ~ (u[k] = blank /\ u[k + 1] = blank)
      <4>1. k \in 1 .. n /\ u[k] = x[k]  BY <1>2, <3>1
      <4>2. CASE k = n  BY <1>2, <2>3, <4>1, <4>2
      <4>3. CASE k # n
        <5>1. k + 1 \in 1 .. n /\ u[k + 1] = x[k + 1]  BY <1>2, <4>1, <4>3
        <5>. QED  BY <1>2, <2>3, <4>1, <5>1 DEF Single
      <4>. QED  BY <4>2, <4>3
    <3>. QED  BY <1>2, <3>1 DEF Single
  <2>. QED  BY <2>1, <2>2, <2>3
<1>. QED  BY <1>1, <1>2, <1>3, <1>4 DEF Last

(* No run is left, and no kept character is lost.                          *)
LEMMA RunsGone ==
    ASSUME NEW C, NEW K, NEW blank, blank \notin K
    PROVE  \A x \in Seq(C) :
              /\ RunsReplaced(x, K, blank) \in Seq(K \cup {blank})
              /\ Single(RunsReplaced(x, K, blank), blank)
              /\ Has(RunsReplaced(x, K, blank), K) <=> Has(x, K)
<1>. DEFINE r(x) == RunsReplaced(x, K, blank)
            P == {x \in Seq(C) : /\ r(x) \in Seq(K \cup {blank}) /\ Single(r(x), blank)
                                 /\ Has(r(x), K) <=> Has(x, K)}
<1>0. /\ r(<<>>) = <<>>
      /\ \A t \in Seq(C), c \in C : r(Append(t, c)) = AddReplaced(r(t), c, K, blank)
  <2>1. RunsReplaced(<<>>, K, blank) = <<>> /\ RunsStep(C, K, blank)  BY RunsReplacedStep
  <2>. QED  BY <2>1 DEF RunsStep
<1>. HIDE DEF r
<1>1. <<>> \in P
  <2>1. <<>> \in Seq(C) /\ <<>> \in Seq(K \cup {blank}) /\ Single(<<>>, blank)  BY DEF Single
  <2>. QED  BY <1>0, <2>1
<1>2. ASSUME NEW x \in Seq(C), NEW c \in C, x \in P PROVE Append(x, c) \in P
  <2>1. PICK s, t : s = r(x) /\ t = r(Append(x, c))  OBVIOUS
  <2>2. t = AddReplaced(s, c, K, blank)  BY <1>0, <2>1
  <2>3. s \in Seq(K \cup {blank}) /\ Single(s, blank) /\ (Has(s, K) <=> Has(x, K))  BY <1>2, <2>1
  <2>4. Has(Append(x, c), K) <=> Has(x, K) \/ c \in K  BY OneMore
  <2>5. /\ t \in Seq(K \cup {blank}) /\ Single(t, blank)
        /\ Has(t, K) <=> Has(s, K) \/ c \in K
    <3>1. CASE c \in K
      <4>1. t = Append(s, c) /\ c # blank /\ c \in K \cup {blank}  BY <2>2, <3>1 DEF AddReplaced
      <4>2. Has(Append(s, c), K) /\ Single(Append(s, c), blank)
        BY <2>3, <3>1, <4>1, OneMore
      <4>. QED  BY <2>3, <3>1, <4>1, <4>2
    <3>2. CASE c \notin K /\ s # <<>> /\ Last(s) = blank
      <4>1. t = s  BY <2>2, <3>2 DEF AddReplaced
      <4>. QED  BY <2>3, <3>2, <4>1
    <3>3. CASE c \notin K /\ ~ (s # <<>> /\ Last(s) = blank)
      <4>1. t = Append(s, blank) /\ blank \in K \cup {blank}  BY <2>2, <3>3 DEF AddReplaced
      <4>2. (Has(Append(s, blank), K) <=> Has(s, K)) /\ Single(Append(s, blank), blank)
        BY <2>3, <3>3, <4>1, OneMore
      <4>. QED  BY <2>3, <3>3, <4>1, <4>2
    <3>. QED  BY <3>1, <3>2, <3>3
  <2>6. Append(x, c) \in Seq(C)  OBVIOUS
  <2>. QED  BY <2>1, <2>3, <2>4, <2>5, <2>6
<1>3. \A x \in Seq(C) : x \in P
  <2>. HIDE DEF P
  <2>. QED  BY <1>1, <1>2, TextInduction
<1>. QED  BY <1>3 DEF r

(* What has no runs is kept.                                               *)
LEMMA RunsKept ==
    ASSUME NEW K, NEW blank
    PROVE  \A x \in Seq(K \cup {blank}) : Single(x, blank) => RunsReplaced(x, K, blank) = x
<1>. DEFINE C == K \cup {blank}
            r(x) == RunsReplaced(x, K, blank)
            P == {x \in Seq(C) : Single(x, blank) => r(x) = x}
<1>0. /\ r(<<>>) = <<>>
      /\ \A t \in Seq(C), c \in C : r(Append(t, c)) = AddReplaced(r(t), c, K, blank)
  <2>. HIDE DEF C
  <2>1. RunsReplaced(<<>>, K, blank) = <<>> /\ RunsStep(C, K, blank)  BY RunsReplacedStep
  <2>. QED  BY <2>1 DEF RunsStep
<1>. HIDE DEF r
<1>1. <<>> \in P
  <2>1. <<>> \in Seq(C)  OBVIOUS
  <2>. QED  BY <1>0, <2>1
<1>2. ASSUME NEW x \in Seq(C), NEW c \in C, x \in P PROVE Append(x, c) \in P
  <2>1. Append(x, c) \in Seq(C)  OBVIOUS
  <2>2. ASSUME Single(Append(x, c), blank) PROVE r(Append(x, c)) = Append(x, c)
    <3>1. Single(x, blank) /\ ~ (x # <<>> /\ Last(x) = blank /\ c = blank)  BY <2>2, OneMore
    <3>2. r(x) = x  BY <1>2, <3>1
    <3>3. AddReplaced(x, c, K, blank) = Append(x, c)  BY <3>1 DEF AddReplaced
    <3>. QED  BY <1>0, <3>2, <3>3
  <2>. QED  BY <2>1, <2>2
<1>3. \A x \in Seq(C) : x \in P
  <2>. HIDE DEF P
  <2>. QED  BY <1>1, <1>2, TextInduction
<1>. QED  BY <1>3 DEF r

LEMMA CollapsedKept ==
    ASSUME NEW C
    PROVE  \A x \in Seq(C) : Single(x, "-") => Collapsed(x) = x
<1>. DEFINE P == {x \in Seq(C) : Single(x, "-") => Collapsed(x) = x}
<1>0. /\ Collapsed(<<>>) = <<>>
      /\ \A t \in Seq(C), c \in C : Collapsed(Append(t, c)) = AddCollapsed(Collapsed(t), c)
  BY CollapsedStep
<1>1. <<>> \in P
  <2>1. <<>> \in Seq(C)  OBVIOUS
  <2>. QED  BY <1>0, <2>1
<1>2. ASSUME NEW x \in Seq(C), NEW c \in C, x \in P PROVE Append(x, c) \in P
  <2>1. Append(x, c) \in Seq(C)  OBVIOUS
  <2>2. ASSUME Single(Append(x, c), "-") PROVE Collapsed(Append(x, c)) = Append(x, c)
    <3>1. Single(x, "-") /\ ~ (x # <<>> /\ Last(x) = "-" /\ c = "-")  BY <2>2, OneMore
    <3>2. Collapsed(x) = x  BY <1>2, <3>1
    <3>3. AddCollapsed(x, c) = Append(x, c)  BY <3>1 DEF AddCollapsed
    <3>. QED  BY <1>0, <3>2, <3>3
  <2>. QED  BY <2>1, <2>2
<1>3. \A x \in Seq(C) : x \in P
  <2>. HIDE DEF P
  <2>. QED  BY <1>1, <1>2, TextInduction
<1>. QED  BY <1>3

(* Trimming leaves what is between the first and the last character that   *)
(* is no blank.                                                            *)
LEMMA TrimmedIs ==
    ASSUME NEW C, NEW x \in Seq(C), NEW blank
    PROVE  IF \E k \in DOMAIN x : x[k] # blank
           THEN \E m, n \in DOMAIN x :
                   /\ Trimmed(x, blank) = SubSeq(x, m, n)
                   /\ m <= n /\ x[m] # blank /\ x[n] # blank
                   /\ \A k \in DOMAIN x : x[k] # blank => m <= k /\ k <= n
           ELSE Trimmed(x, blank) = <<>>
<1>. DEFINE kept == {k \in DOMAIN x : x[k] # blank}
<1>1. DOMAIN x = 1 .. Len(x) /\ Len(x) \in Nat  OBVIOUS
<1>2. CASE kept = {}  BY <1>2 DEF Trimmed
<1>3. CASE kept # {}
  <2>1. IsFiniteSet(kept) /\ \A k \in kept : k \in Int
    <3>1. IsFiniteSet(1 .. Len(x)) /\ kept \in SUBSET (1 .. Len(x))  BY <1>1, FS_Interval
    <3>2. \A k \in kept : k \in Int  BY <1>1
    <3>. HIDE DEF kept
    <3>3. IsFiniteSet(kept)  BY <3>1, FS_Subset
    <3>. QED  BY <3>2, <3>3
  <2>2. PICK m, n : m = Min(kept) /\ n = Max(kept)  OBVIOUS
  <2>3. m \in kept /\ n \in kept /\ \A k \in kept : m <= k /\ k <= n
    <3>. HIDE DEF kept
    <3>. QED  BY <1>3, <2>1, <2>2, Extremes
  <2>4. Trimmed(x, blank) = SubSeq(x, m, n)  BY <1>3, <2>2 DEF Trimmed
  <2>. QED  BY <2>3, <2>4
<1>. QED  BY <1>2, <1>3

LEMMA TrimmedNormal ==
    ASSUME NEW K, NEW blank, blank \notin K, NEW x \in Seq(K \cup {blank}), Single(x, blank)
    PROVE  /\ Normal(Trimmed(x, blank), K, blank)
           /\ Trimmed(x, blank) # <<>> <=> Has(x, K)
<1>. DEFINE C == K \cup {blank}
<1>1. DOMAIN x = 1 .. Len(x) /\ Len(x) \in Nat  OBVIOUS
<1>2. CASE ~ Has(x, K)
  <2>1. ~ \E k \in DOMAIN x : x[k] # blank  BY <1>1, <1>2 DEF Has
  <2>2. Trimmed(x, blank) = <<>>  BY <2>1, TrimmedIs
  <2>3. <<>> \in Seq(C) /\ Single(<<>>, blank)  BY DEF Single
  <2>. QED  BY <1>2, <2>2, <2>3 DEF Normal
<1>3. CASE Has(x, K)
  <2>1. \E k \in DOMAIN x : x[k] # blank  BY <1>1, <1>3 DEF Has
  <2>2. PICK m, n \in DOMAIN x :
           /\ Trimmed(x, blank) = SubSeq(x, m, n)
           /\ m <= n /\ x[m] # blank /\ x[n] # blank
    BY <2>1, TrimmedIs
  <2>3. PICK s, l : s = SubSeq(x, m, n) /\ l = n - m + 1  OBVIOUS
  <2>4. /\ s \in Seq(C) /\ Len(s) = l /\ DOMAIN s = 1 .. l
        /\ \A k \in 1 .. l : s[k] = x[m + k - 1]
    <3>. HIDE DEF C
    <3>1. x \in Seq(C)  BY DEF C
    <3>. QED  BY <2>2, <2>3, <3>1, PartTyped
  <2>5. l \in Nat \ {0} /\ m + 1 - 1 = m /\ m + l - 1 = n /\ 1 \in 1 .. l /\ l \in 1 .. l
    BY <1>1, <2>2, <2>3
  <2>6. s[1] # blank /\ s[l] # blank /\ s # <<>>
    <3>1. s[1] = x[m + 1 - 1] /\ s[l] = x[m + l - 1]  BY <2>4, <2>5
    <3>2. s # <<>>  BY <2>4, <2>5
    <3>. QED  BY <2>2, <2>5, <3>1, <3>2
  <2>7. Single(s, blank)
    <3>1. ASSUME NEW k \in 1 .. l, k + 1 \in 1 .. l PROVE ~ (s[k] = blank /\ s[k + 1] = blank)
      <4>1. s[k] = x[m + k - 1] /\ s[k + 1] = x[m + (k + 1) - 1]  BY <2>4, <3>1
      <4>2. PICK i : i = m + k - 1  OBVIOUS
      <4>3. i \in 1 .. Len(x) /\ i + 1 \in 1 .. Len(x) /\ m + (k + 1) - 1 = i + 1
        BY <1>1, <2>2, <2>3, <3>1, <4>2
      <4>4. s[k] = x[i] /\ s[k + 1] = x[i + 1]  BY <4>1, <4>2, <4>3
      <4>5. ~ (x[i] = blank /\ x[i + 1] = blank)  BY <1>1, <4>3 DEF Single
      <4>. QED  BY <4>4, <4>5
    <3>. QED  BY <2>4, <3>1 DEF Single
  <2>. QED  BY <1>3, <2>2, <2>3, <2>4, <2>6, <2>7 DEF Normal
<1>. QED  BY <1>2, <1>3

(* Nothing is left to trim, to replace or to collapse.                     *)
LEMMA NormalStays ==
    ASSUME NEW K, NEW blank, NEW x, Normal(x, K, blank)
    PROVE  /\ Trimmed(x, blank) = x /\ RunsReplaced(x, K, blank) = x
           /\ blank = "-" => Collapsed(x) = x
<1>. DEFINE C == K \cup {blank}
<1>1. x \in Seq(C) /\ Single(x, blank) /\ (x # <<>> => x[1] # blank /\ x[Len(x)] # blank)
  BY DEF Normal
<1>2. RunsReplaced(x, K, blank) = x  BY <1>1, RunsKept
<1>. HIDE DEF C
<1>3. blank = "-" => Collapsed(x) = x  BY <1>1, CollapsedKept
<1>4. DOMAIN x = 1 .. Len(x) /\ Len(x) \in Nat  BY <1>1
<1>5. CASE x = <<>>
  <2>1. ~ \E k \in DOMAIN x : x[k] # blank  BY <1>5
  <2>2. Trimmed(x, blank) = <<>>  BY <1>1, <2>1, TrimmedIs
  <2>. QED  BY <1>2, <1>3, <1>5, <2>2
<1>6. CASE x # <<>>
  <2>1. Len(x) \in 1 .. Len(x) /\ 1 \in 1 .. Len(x)  BY <1>1, <1>4, <1>6
  <2>2. \E k \in DOMAIN x : x[k] # blank  BY <1>1, <1>4, <1>6, <2>1
  <2>3. PICK m, n \in DOMAIN x :
           /\ Trimmed(x, blank) = SubSeq(x, m, n)
           /\ \A k \in DOMAIN x : x[k] # blank => m <= k /\ k <= n
    BY <1>1, <2>2, TrimmedIs
  <2>4. m <= 1 /\ Len(x) <= n  BY <1>1, <1>4, <1>6, <2>1, <2>3
  <2>5. m = 1 /\ n = Len(x)  BY <1>4, <2>3, <2>4
  <2>6. SubSeq(x, 1, Len(x)) = x  BY <1>1, SubSeqFull
  <2>. QED  BY <1>2, <1>3, <2>3, <2>5, <2>6
<1>. QED  BY <1>5, <1>6

-----------------------------------------------------------------------------
(* Letters, small and capital.                                             *)
Letter(c) == IF c \in DOMAIN Small THEN Small[c] ELSE c

(* Letter by letter.                                                       *)
LEMMA Lowered ==
    ASSUME NEW C, NEW D, \A c \in C : Letter(c) \in D, NEW u \in Seq(C)
    PROVE  /\ toLowerCase(u) \in Seq(D) /\ Len(toLowerCase(u)) = Len(u)
           /\ \A k \in 1 .. Len(u) : toLowerCase(u)[k] = Letter(u[k])
<1>1. DOMAIN u = 1 .. Len(u) /\ Len(u) \in Nat /\ \A k \in 1 .. Len(u) : u[k] \in C  OBVIOUS
<1>2. PICK n, v : n = Len(u) /\ v = toLowerCase(u)  OBVIOUS
<1>3. v = [k \in 1 .. n |-> Letter(u[k])]  BY <1>1, <1>2 DEF toLowerCase, Letter
<1>4. \A k \in 1 .. n : v[k] = Letter(u[k]) /\ v[k] \in D  BY <1>1, <1>2, <1>3
<1>5. v \in [1 .. n -> D] /\ n \in Nat  BY <1>1, <1>2, <1>3, <1>4
<1>6. v \in Seq(D)
  <2>1. v \in UNION {[1 .. m -> D] : m \in Nat}  BY <1>5
  <2>. QED  BY <2>1, SeqDef
<1>7. Len(v) = n  BY <1>5, <1>6
<1>. QED  BY <1>2, <1>4, <1>6, <1>7

LEMMA LoweredConcat ==
    ASSUME NEW C, NEW u \in Seq(C), NEW v \in Seq(C)
    PROVE  toLowerCase(u \o v) = toLowerCase(u) \o toLowerCase(v)
<1>. DEFINE D == {Letter(c) : c \in C}
<1>1. \A c \in C : Letter(c) \in D  OBVIOUS
<1>. HIDE DEF D
<1>2. PICK x, p, q, m, n : /\ x = u \o v /\ p = toLowerCase(u) /\ q = toLowerCase(v)
                           /\ m = Len(u) /\ n = Len(v)
  OBVIOUS
<1>3. /\ m \in Nat /\ n \in Nat /\ x \in Seq(C) /\ Len(x) = m + n
      /\ \A k \in 1 .. m : x[k] = u[k]
      /\ \A k \in 1 .. m + n : k \notin 1 .. m => x[k] = v[k - m]
  BY <1>2, ConcatProperties
<1>4. p \in Seq(D) /\ Len(p) = m /\ \A k \in 1 .. m : p[k] = Letter(u[k])  BY <1>1, <1>2, Lowered
<1>5. q \in Seq(D) /\ Len(q) = n /\ \A k \in 1 .. n : q[k] = Letter(v[k])  BY <1>1, <1>2, Lowered
<1>6. PICK y, z : y = toLowerCase(x) /\ z = p \o q  OBVIOUS
<1>7. y \in Seq(D) /\ Len(y) = m + n /\ \A k \in 1 .. m + n : y[k] = Letter(x[k])
  <2>1. /\ toLowerCase(x) \in Seq(D) /\ Len(toLowerCase(x)) = Len(x)
        /\ \A k \in 1 .. Len(x) : toLowerCase(x)[k] = Letter(x[k])
    BY <1>1, <1>3, Lowered
  <2>. QED  BY <1>3, <1>6, <2>1
<1>8. /\ z \in Seq(D) /\ Len(z) = m + n
      /\ \A k \in 1 .. m : z[k] = p[k]
      /\ \A k \in 1 .. m + n : k \notin 1 .. m => z[k] = q[k - m]
  <2>1. /\ p \o q \in Seq(D) /\ Len(p \o q) = Len(p) + Len(q)
        /\ \A i \in 1 .. Len(p) + Len(q) : (p \o q)[i] = IF i <= Len(p) THEN p[i] ELSE q[i - Len(p)]
    BY <1>4, <1>5, ConcatProperties
  <2>2. \A i \in 1 .. m + n : z[i] = IF i <= m THEN p[i] ELSE q[i - m]
    BY <1>4, <1>5, <1>6, <2>1
  <2>3. \A k \in 1 .. m : k \in 1 .. m + n /\ k <= m  BY <1>3
  <2>4. \A k \in 1 .. m + n : k \notin 1 .. m => ~ (k <= m)  BY <1>3
  <2>. QED  BY <1>4, <1>5, <1>6, <2>1, <2>2, <2>3, <2>4
<1>9. ASSUME NEW k \in 1 .. m + n PROVE y[k] = z[k]
  <2>1. CASE k \in 1 .. m  BY <1>3, <1>4, <1>7, <1>8, <2>1
  <2>2. CASE k \notin 1 .. m
    <3>1. k - m \in 1 .. n  BY <1>3, <2>2
    <3>. QED  BY <1>3, <1>5, <1>7, <1>8, <2>2, <3>1
  <2>. QED  BY <2>1, <2>2
<1>10. y = z  BY <1>7, <1>8, <1>9, SeqEqual
<1>. QED  BY <1>2, <1>6, <1>10

LEMMA LoweredOne ==
    ASSUME NEW C, NEW u \in Seq(C), NEW c \in C
    PROVE  /\ toLowerCase(<<c>>) = <<Letter(c)>>
           /\ toLowerCase(Append(u, c)) = Append(toLowerCase(u), Letter(c))
<1>. DEFINE D == {Letter(d) : d \in C}
<1>1. \A d \in C : Letter(d) \in D  OBVIOUS
<1>. HIDE DEF D
<1>2. PICK e, p : e = <<c>> /\ p = toLowerCase(e)  OBVIOUS
<1>3. e \in Seq(C) /\ Len(e) = 1 /\ e[1] = c  BY <1>2
<1>4. p \in Seq(D) /\ Len(p) = 1 /\ p[1] = Letter(c)  
  <2>1. /\ toLowerCase(e) \in Seq(D) /\ Len(toLowerCase(e)) = Len(e)
        /\ \A k \in 1 .. Len(e) : toLowerCase(e)[k] = Letter(e[k])
    BY <1>1, <1>3, Lowered
  <2>. QED  BY <1>2, <1>3, <2>1
<1>5. p = <<Letter(c)>>
  <2>1. <<Letter(c)>> \in Seq(D) /\ Len(<<Letter(c)>>) = 1 /\ <<Letter(c)>>[1] = Letter(c)  BY <1>1
  <2>2. PICK q : q = <<Letter(c)>>  OBVIOUS
  <2>3. q \in Seq(D) /\ Len(q) = 1 /\ q[1] = Letter(c)  BY <2>1, <2>2
  <2>4. p = q  BY <1>4, <2>3, SeqEqual
  <2>. QED  BY <2>2, <2>4
<1>6. Append(u, c) = u \o e  BY <1>2, AppendIsConcat
<1>7. toLowerCase(u \o e) = toLowerCase(u) \o p  BY <1>2, <1>3, LoweredConcat
<1>8. toLowerCase(u) \in Seq(D) /\ Letter(c) \in D  BY <1>1, Lowered
<1>9. Append(toLowerCase(u), Letter(c)) = toLowerCase(u) \o <<Letter(c)>>  BY <1>8, AppendIsConcat
<1>. QED  BY <1>2, <1>5, <1>6, <1>7, <1>9

(* Nothing is left to lower.                                               *)
LEMMA LoweredStays ==
    ASSUME NEW C, NEW u \in Seq(C), \A c \in C : Letter(c) = c
    PROVE  toLowerCase(u) = u
<1>1. \A c \in C : Letter(c) \in C  OBVIOUS
<1>2. PICK v : v = toLowerCase(u)  OBVIOUS
<1>3. v \in Seq(C) /\ Len(v) = Len(u) /\ \A k \in 1 .. Len(u) : v[k] = Letter(u[k])
  BY <1>1, <1>2, Lowered
<1>4. \A k \in 1 .. Len(u) : u[k] \in C /\ v[k] = u[k]  BY <1>3
<1>5. v = u  BY <1>3, <1>4, SeqEqual
<1>. QED  BY <1>2, <1>5

LEMMA HasConcat ==
    ASSUME NEW C, NEW u \in Seq(C), NEW v \in Seq(C), NEW K
    PROVE  Has(u \o v, K) <=> Has(u, K) \/ Has(v, K)
<1>1. PICK x, m, n : x = u \o v /\ m = Len(u) /\ n = Len(v)  OBVIOUS
<1>2. /\ m \in Nat /\ n \in Nat /\ x \in Seq(C)
      /\ DOMAIN x = 1 .. m + n /\ DOMAIN u = 1 .. m /\ DOMAIN v = 1 .. n
      /\ \A k \in 1 .. m : x[k] = u[k] /\ k \in 1 .. m + n
      /\ \A k \in 1 .. m + n : k \notin 1 .. m => x[k] = v[k - m] /\ k - m \in 1 .. n
      /\ \A k \in 1 .. n : k + m \in 1 .. m + n /\ x[k + m] = v[k]
  BY <1>1
<1>3. ASSUME Has(x, K) PROVE Has(u, K) \/ Has(v, K)
  <2>1. PICK k \in 1 .. m + n : x[k] \in K  BY <1>2, <1>3 DEF Has
  <2>. QED  BY <1>2, <2>1 DEF Has
<1>4. ASSUME Has(u, K) PROVE Has(x, K)
  <2>1. PICK k \in 1 .. m : u[k] \in K  BY <1>2, <1>4 DEF Has
  <2>. QED  BY <1>2, <2>1 DEF Has
<1>5. ASSUME Has(v, K) PROVE Has(x, K)
  <2>1. PICK k \in 1 .. n : v[k] \in K  BY <1>2, <1>5 DEF Has
  <2>. QED  BY <1>2, <2>1 DEF Has
<1>. QED  BY <1>1, <1>3, <1>4, <1>5

-----------------------------------------------------------------------------
(* Addresses.  What a slug is made of: what stands for each character of a *)
(* title or of a name, in small letters.                                   *)
Cyrillic(c) == IF c \in DOMAIN CYRILLIC_MAP THEN CYRILLIC_MAP[c] ELSE <<c>>

Translit(c) == IF c \in DOMAIN TRANSLIT_MAP THEN TRANSLIT_MAP[c] ELSE <<c>>

ShortI == {"short_i", "SHORT_I"}

SlugLetters == Alphanumeric \cup {"yo", "shch", "soft", "short_i"}

LEMMA WrittenSmall ==
    /\ \A c \in DOMAIN CYRILLIC_MAP : CYRILLIC_MAP[c] \in Seq(Alphanumeric)
    /\ \A c \in DOMAIN TRANSLIT_MAP : TRANSLIT_MAP[c] \in Seq(Alphanumeric)
<1>1. PICK a, b, d, e, f : /\ a = <<"y", "o">> /\ b = <<"s", "h", "c", "h">> /\ d = <<>>
                           /\ e = <<"j">> /\ f = <<"y">>
  OBVIOUS
<1>2. \A x \in {a, b, d, e, f} : x \in Seq(Alphanumeric)
  <2>1. a \in Seq(Alphanumeric)  BY <1>1 DEF Alphanumeric
  <2>2. b \in Seq(Alphanumeric)
    <3>1. "s" \in Alphanumeric /\ "h" \in Alphanumeric /\ "c" \in Alphanumeric  BY DEF Alphanumeric
    <3>. QED  BY <1>1, <3>1
  <2>3. d \in Seq(Alphanumeric) /\ e \in Seq(Alphanumeric) /\ f \in Seq(Alphanumeric)
    BY <1>1 DEF Alphanumeric
  <2>. QED  BY <2>1, <2>2, <2>3
<1>3. ASSUME NEW c \in DOMAIN CYRILLIC_MAP PROVE CYRILLIC_MAP[c] \in {a, b, d, e}
  BY <1>1 DEF CYRILLIC_MAP
<1>4. ASSUME NEW c \in DOMAIN TRANSLIT_MAP PROVE TRANSLIT_MAP[c] \in {a, b, d, f}
  BY <1>1 DEF TRANSLIT_MAP
<1>. QED  BY <1>2, <1>3, <1>4

(* Both maps write the letters of a slug, and of a letter other than short *)
(* i they write the same.                                                  *)
LEMMA LettersAlike ==
    ASSUME NEW c
    PROVE  /\ Cyrillic(c) \in Seq(SlugLetters \cup {c})
           /\ Letter(c) \in SlugLetters \cup {c}
           /\ Translit(Letter(c)) \in Seq(SlugLetters \cup {c})
           /\ toLowerCase(Cyrillic(c)) \in Seq(SlugLetters \cup {c})
           /\ Has(toLowerCase(Cyrillic(c)), Alphanumeric) <=> Has(Translit(Letter(c)), Alphanumeric)
           /\ c \notin ShortI => toLowerCase(Cyrillic(c)) = Translit(Letter(c))
<1>. DEFINE Z == SlugLetters \cup {c}
<1>1. Letter(c) \in Z  BY DEF Letter, Small, SlugLetters, Alphanumeric
<1>2. \A d \in Alphanumeric : Letter(d) = d  BY DEF Letter, Small, Alphanumeric
<1>3. \A u \in Seq(Alphanumeric) : toLowerCase(u) = u /\ u \in Seq(Z)
  <2>1. ASSUME NEW u \in Seq(Alphanumeric) PROVE toLowerCase(u) = u  BY <1>2, LoweredStays
  <2>2. Alphanumeric \subseteq Z  BY DEF SlugLetters
  <2>. QED  BY <2>1, <2>2, SeqMonotonic
<1>4. CASE c \in DOMAIN CYRILLIC_MAP
  <2>1. c \in {"yo", "shch", "soft", "short_i", "YO", "SHCH", "SOFT", "SHORT_I"}
    BY <1>4 DEF CYRILLIC_MAP
  <2>2. Cyrillic(c) \in Seq(Alphanumeric)
    BY <1>4, WrittenSmall DEF Cyrillic
  <2>3. Letter(c) \in {"yo", "shch", "soft", "short_i"} /\ (Letter(c) = "short_i" => c \in ShortI)
    BY <2>1 DEF Letter, Small, ShortI
  <2>4. Translit(Letter(c)) = TRANSLIT_MAP[Letter(c)]
    BY <2>3 DEF Translit, TRANSLIT_MAP
  <2>5. Translit(Letter(c)) \in Seq(Alphanumeric)
    <3>1. Letter(c) \in DOMAIN TRANSLIT_MAP  BY <2>3 DEF TRANSLIT_MAP
    <3>. QED  BY <2>4, <3>1, WrittenSmall
  <2>6. c \notin ShortI => Cyrillic(c) = Translit(Letter(c))
    BY <1>4, <2>1, <2>4 DEF Cyrillic, CYRILLIC_MAP, TRANSLIT_MAP, Letter, Small, ShortI
  <2>7. c \in ShortI => Cyrillic(c) = <<"j">> /\ Translit(Letter(c)) = <<"y">>
    BY <1>4, <2>1, <2>4 DEF Cyrillic, CYRILLIC_MAP, TRANSLIT_MAP, Letter, Small, ShortI
  <2>8. Has(<<"j">>, Alphanumeric) /\ Has(<<"y">>, Alphanumeric)  BY DEF Has, Alphanumeric
  <2>9. toLowerCase(Cyrillic(c)) = Cyrillic(c) /\ Cyrillic(c) \in Seq(Z) /\ Translit(Letter(c)) \in Seq(Z)
    BY <1>3, <2>2, <2>5
  <2>. HIDE DEF Z
  <2>. QED  BY <1>1, <2>6, <2>7, <2>8, <2>9 DEF Z
<1>5. CASE c \notin DOMAIN CYRILLIC_MAP
  <2>1. c \notin {"yo", "shch", "soft", "short_i", "YO", "SHCH", "SOFT", "SHORT_I"}
    BY <1>5 DEF CYRILLIC_MAP
  <2>2. Letter(c) \notin {"yo", "shch", "soft", "short_i"}  BY <2>1 DEF Letter, Small
  <2>3. Cyrillic(c) = <<c>>  BY <1>5 DEF Cyrillic
  <2>4. Translit(Letter(c)) = <<Letter(c)>>  BY <2>2 DEF Translit, TRANSLIT_MAP
  <2>5. c \in {c} /\ <<>> \in Seq({c})  OBVIOUS
  <2>6. toLowerCase(<<c>>) = <<Letter(c)>>  BY <2>5, LoweredOne
  <2>7. <<c>> \in Seq(Z) /\ <<Letter(c)>> \in Seq(Z)
    <3>1. c \in Z  OBVIOUS
    <3>. HIDE DEF Z
    <3>. QED  BY <1>1, <3>1
  <2>. HIDE DEF Z
  <2>. QED  BY <1>1, <2>3, <2>4, <2>6, <2>7 DEF Z
<1>. QED  BY <1>4, <1>5

(* Transliteration spells the text.                                        *)
LEMMA TransliteratedSpells ==
    ASSUME NEW S, NEW map, NEW w, w = [c \in S |-> IF c \in DOMAIN map THEN map[c] ELSE <<c>>],
           NEW t \in Seq(S)
    PROVE  Transliterated(t, map) = Spelled(t, w)
<1>1. \A k \in DOMAIN t : w[t[k]] = IF t[k] \in DOMAIN map THEN map[t[k]] ELSE <<t[k]>>
  <2>1. \A k \in DOMAIN t : t[k] \in S  OBVIOUS
  <2>. QED  BY <2>1
<1>2. [k \in DOMAIN t |-> IF t[k] \in DOMAIN map THEN map[t[k]] ELSE <<t[k]>>]
        = [k \in DOMAIN t |-> w[t[k]]]
  BY <1>1
<1>. QED  BY <1>2 DEF Transliterated, Spelled

\* In small letters, spelled as the two maps have it.
SpelledCyrillic(t) == toLowerCase(Transliterated(t, CYRILLIC_MAP))
SpelledTranslit(t) == Transliterated(toLowerCase(t), TRANSLIT_MAP)

(* The two spellings of a text differ in a short i only.                   *)
LEMMA SpelledAlike ==
    ASSUME NEW S
    PROVE  \A t \in Seq(S) :
              /\ SpelledCyrillic(t) \in Seq(S \cup SlugLetters)
              /\ SpelledTranslit(t) \in Seq(S \cup SlugLetters)
              /\ Has(SpelledCyrillic(t), Alphanumeric) <=> Has(SpelledTranslit(t), Alphanumeric)
              /\ ~ Has(t, ShortI) => SpelledCyrillic(t) = SpelledTranslit(t)
<1>. DEFINE Z == S \cup SlugLetters
            v == [c \in S |-> Cyrillic(c)]
            w == [c \in Z |-> Translit(c)]
            P == {t \in Seq(S) :
                    /\ SpelledCyrillic(t) \in Seq(Z) /\ SpelledTranslit(t) \in Seq(Z)
                    /\ Has(SpelledCyrillic(t), Alphanumeric) <=> Has(SpelledTranslit(t), Alphanumeric)
                    /\ ~ Has(t, ShortI) => SpelledCyrillic(t) = SpelledTranslit(t)}
<1>1. ASSUME NEW c \in S
      PROVE  /\ Cyrillic(c) \in Seq(Z) /\ Letter(c) \in Z /\ Translit(Letter(c)) \in Seq(Z)
             /\ toLowerCase(Cyrillic(c)) \in Seq(Z)
  <2>1. SlugLetters \cup {c} \subseteq Z  OBVIOUS
  <2>2. /\ Cyrillic(c) \in Seq(SlugLetters \cup {c})
        /\ Letter(c) \in SlugLetters \cup {c}
        /\ Translit(Letter(c)) \in Seq(SlugLetters \cup {c})
        /\ toLowerCase(Cyrillic(c)) \in Seq(SlugLetters \cup {c})
    BY LettersAlike
  <2>. HIDE DEF Z
  <2>. QED  BY <2>1, <2>2, SeqMonotonic
<1>2. v \in [S -> Seq(Z)]
  <2>. HIDE DEF Z
  <2>. QED  BY <1>1
<1>3. w \in [Z -> Seq(Z)]
  <2>1. \A c \in Z : Translit(c) \in Seq(Z)
    <3>1. ASSUME NEW c \in Z, c \in DOMAIN TRANSLIT_MAP PROVE Translit(c) \in Seq(Z)
      <4>1. Translit(c) \in Seq(Alphanumeric)  BY <3>1, WrittenSmall DEF Translit
      <4>2. Alphanumeric \subseteq Z  BY DEF SlugLetters
      <4>. HIDE DEF Z
      <4>. QED  BY <4>1, <4>2, SeqMonotonic
    <3>2. ASSUME NEW c \in Z, c \notin DOMAIN TRANSLIT_MAP PROVE Translit(c) \in Seq(Z)
      <4>. HIDE DEF Z
      <4>. QED  BY <3>2 DEF Translit
    <3>. QED  BY <3>1, <3>2
  <2>. HIDE DEF Z
  <2>. QED  BY <2>1
<1>4. ASSUME NEW t \in Seq(S)
      PROVE  Transliterated(t, CYRILLIC_MAP) = Spelled(t, v)
  <2>1. v = [c \in S |-> IF c \in DOMAIN CYRILLIC_MAP THEN CYRILLIC_MAP[c] ELSE <<c>>]
    BY DEF Cyrillic
  <2>. HIDE DEF v
  <2>. QED  BY <2>1, TransliteratedSpells
<1>5. ASSUME NEW t \in Seq(Z)
      PROVE  Transliterated(t, TRANSLIT_MAP) = Spelled(t, w)
  <2>1. w = [c \in Z |-> IF c \in DOMAIN TRANSLIT_MAP THEN TRANSLIT_MAP[c] ELSE <<c>>]
    BY DEF Translit
  <2>. HIDE DEF w, Z
  <2>. QED  BY <2>1, TransliteratedSpells
<1>6. \A c \in S : v[c] = Cyrillic(c)  OBVIOUS
<1>7. \A c \in Z : w[c] = Translit(c)  OBVIOUS
<1>8. \A t \in Seq(S) : toLowerCase(t) \in Seq(Z)
  <2>1. \A c \in S : Letter(c) \in Z  BY <1>1
  <2>. HIDE DEF Z
  <2>. QED  BY <2>1, Lowered
<1>. HIDE DEF v, w, Z
<1>9. /\ Spelled(<<>>, v) = <<>>
      /\ \A t \in Seq(S) : Spelled(t, v) \in Seq(Z)
      /\ \A t \in Seq(S), c \in S : Spelled(Append(t, c), v) = Spelled(t, v) \o v[c]
  BY <1>2, SpelledStep
<1>10. /\ Spelled(<<>>, w) = <<>>
       /\ \A t \in Seq(Z) : Spelled(t, w) \in Seq(Z)
       /\ \A t \in Seq(Z), c \in Z : Spelled(Append(t, c), w) = Spelled(t, w) \o w[c]
  BY <1>3, SpelledStep
<1>11. <<>> \in P
  <2>1. <<>> \in Seq(S) /\ <<>> \in Seq(Z)  OBVIOUS
  <2>2. toLowerCase(<<>>) = <<>>  BY DEF toLowerCase
  <2>3. SpelledCyrillic(<<>>) = <<>> /\ SpelledTranslit(<<>>) = <<>>
    BY <1>4, <1>5, <1>9, <1>10, <2>1, <2>2 DEF SpelledCyrillic, SpelledTranslit
  <2>. QED  BY <2>1, <2>3
<1>12. ASSUME NEW t \in Seq(S), NEW c \in S, t \in P PROVE Append(t, c) \in P
  <2>1. Append(t, c) \in Seq(S)  OBVIOUS
  <2>2. SpelledCyrillic(Append(t, c)) = SpelledCyrillic(t) \o toLowerCase(Cyrillic(c))
    <3>1. Transliterated(Append(t, c), CYRILLIC_MAP) = Spelled(t, v) \o Cyrillic(c)
      BY <1>4, <1>6, <1>9, <2>1
    <3>2. Spelled(t, v) \in Seq(Z) /\ Cyrillic(c) \in Seq(Z)  BY <1>1, <1>9
    <3>3. toLowerCase(Spelled(t, v) \o Cyrillic(c)) = toLowerCase(Spelled(t, v)) \o toLowerCase(Cyrillic(c))
      BY <3>2, LoweredConcat
    <3>. QED  BY <1>4, <3>1, <3>3 DEF SpelledCyrillic
  <2>3. SpelledTranslit(Append(t, c)) = SpelledTranslit(t) \o Translit(Letter(c))
    <3>1. toLowerCase(Append(t, c)) = Append(toLowerCase(t), Letter(c))  BY LoweredOne
    <3>2. toLowerCase(t) \in Seq(Z) /\ Letter(c) \in Z  BY <1>1, <1>8
    <3>3. Append(toLowerCase(t), Letter(c)) \in Seq(Z)  BY <3>2
    <3>4. Spelled(Append(toLowerCase(t), Letter(c)), w) = Spelled(toLowerCase(t), w) \o Translit(Letter(c))
      BY <1>7, <1>10, <3>2
    <3>. QED  BY <1>5, <3>1, <3>2, <3>3, <3>4 DEF SpelledTranslit
  <2>4. PICK x, y, a, b : /\ x = SpelledCyrillic(t) /\ y = SpelledTranslit(t)
                          /\ a = toLowerCase(Cyrillic(c)) /\ b = Translit(Letter(c))
    OBVIOUS
  <2>5. x \in Seq(Z) /\ y \in Seq(Z) /\ a \in Seq(Z) /\ b \in Seq(Z)  BY <1>1, <1>12, <2>4
  <2>6. (Has(x, Alphanumeric) <=> Has(y, Alphanumeric)) /\ (~ Has(t, ShortI) => x = y)
    BY <1>12, <2>4
  <2>7. (Has(a, Alphanumeric) <=> Has(b, Alphanumeric)) /\ (c \notin ShortI => a = b)
    BY <2>4, LettersAlike
  <2>8. /\ Has(x \o a, Alphanumeric) <=> Has(x, Alphanumeric) \/ Has(a, Alphanumeric)
        /\ Has(y \o b, Alphanumeric) <=> Has(y, Alphanumeric) \/ Has(b, Alphanumeric)
    BY <2>5, HasConcat
  <2>9. Has(Append(t, c), ShortI) <=> Has(t, ShortI) \/ c \in ShortI  BY OneMore
  <2>10. x \o a \in Seq(Z) /\ y \o b \in Seq(Z)  BY <2>5
  <2>11. SpelledCyrillic(Append(t, c)) = x \o a /\ SpelledTranslit(Append(t, c)) = y \o b
    BY <2>2, <2>3, <2>4
  <2>. QED  BY <2>1, <2>6, <2>7, <2>8, <2>9, <2>10, <2>11
<1>13. \A t \in Seq(S) : t \in P
  <2>. HIDE DEF P
  <2>. QED  BY <1>11, <1>12, TextInduction
<1>. QED  BY <1>13 DEF Z

LEMMA SpelledPlain ==
    ASSUME NEW S, NEW w \in [S -> Seq(S)], \A c \in S : w[c] = <<c>>
    PROVE  \A t \in Seq(S) : Spelled(t, w) = t
<1>. DEFINE P == {t \in Seq(S) : Spelled(t, w) = t}
<1>2. /\ Spelled(<<>>, w) = <<>>
      /\ \A t \in Seq(S) : Spelled(t, w) \in Seq(S)
      /\ \A t \in Seq(S), c \in S : Spelled(Append(t, c), w) = Spelled(t, w) \o w[c]
  BY SpelledStep
<1>3. <<>> \in P
  <2>1. <<>> \in Seq(S)  OBVIOUS
  <2>. QED  BY <1>2, <2>1
<1>4. ASSUME NEW t \in Seq(S), NEW c \in S, t \in P PROVE Append(t, c) \in P
  <2>1. Append(t, c) \in Seq(S)  OBVIOUS
  <2>2. Spelled(Append(t, c), w) = t \o <<c>>  BY <1>2, <1>4
  <2>3. t \o <<c>> = Append(t, c)  BY AppendIsConcat
  <2>. QED  BY <2>1, <2>2, <2>3
<1>5. \A t \in Seq(S) : t \in P
  <2>. HIDE DEF P
  <2>. QED  BY <1>3, <1>4, TextInduction
<1>. QED  BY <1>5

Slugs == Alphanumeric \cup {"-"}

(* A slug is spelled as it is.                                             *)
LEMMA SlugSpelled ==
    ASSUME NEW s \in Seq(Slugs)
    PROVE  SpelledCyrillic(s) = s /\ SpelledTranslit(s) = s
<1>. DEFINE w == [c \in Slugs |-> <<c>>]
<1>1. ASSUME NEW c \in Slugs
      PROVE  Letter(c) = c /\ c \notin DOMAIN CYRILLIC_MAP /\ c \notin DOMAIN TRANSLIT_MAP
  BY DEF Slugs, Alphanumeric, Letter, Small, CYRILLIC_MAP, TRANSLIT_MAP
<1>2. toLowerCase(s) = s  BY <1>1, LoweredStays
<1>3. w = [c \in Slugs |-> IF c \in DOMAIN CYRILLIC_MAP THEN CYRILLIC_MAP[c] ELSE <<c>>]  BY <1>1
<1>4. w = [c \in Slugs |-> IF c \in DOMAIN TRANSLIT_MAP THEN TRANSLIT_MAP[c] ELSE <<c>>]  BY <1>1
<1>5. Spelled(s, w) = s
  <2>1. w \in [Slugs -> Seq(Slugs)] /\ \A c \in Slugs : w[c] = <<c>>
    <3>1. \A c \in Slugs : <<c>> \in Seq(Slugs)  OBVIOUS
    <3>. QED  BY <3>1
  <2>. HIDE DEF w
  <2>. QED  BY <2>1, SpelledPlain
<1>. HIDE DEF w
<1>6. Transliterated(s, CYRILLIC_MAP) = s  BY <1>3, <1>5, TransliteratedSpells
<1>7. Transliterated(s, TRANSLIT_MAP) = s  BY <1>4, <1>5, TransliteratedSpells
<1>. QED  BY <1>2, <1>6, <1>7 DEF SpelledCyrillic, SpelledTranslit

Clean(x) == Trimmed(RunsReplaced(x, Alphanumeric, "-"), "-")

(* What slugify and transliterateToSlug make is in normal form,            *)
LEMMA SlugIsClean ==
    ASSUME NEW S, NEW t \in Seq(S)
    PROVE  /\ slugify(t) = Clean(SpelledCyrillic(t)) /\ Normal(slugify(t), Alphanumeric, "-")
           /\ transliterateToSlug(t) = Clean(SpelledTranslit(t))
           /\ Normal(transliterateToSlug(t), Alphanumeric, "-")
           /\ slugify(t) = <<>> <=> transliterateToSlug(t) = <<>>
           /\ ~ Has(t, ShortI) => slugify(t) = transliterateToSlug(t)
<1>. DEFINE Z == S \cup SlugLetters
<1>1. PICK x, y : x = SpelledCyrillic(t) /\ y = SpelledTranslit(t)  OBVIOUS
<1>2. /\ x \in Seq(Z) /\ y \in Seq(Z)
      /\ Has(x, Alphanumeric) <=> Has(y, Alphanumeric)
      /\ ~ Has(t, ShortI) => x = y
  BY <1>1, SpelledAlike
<1>. HIDE DEF Z
<1>3. "-" \notin Alphanumeric  BY DEF Alphanumeric
<1>4. ASSUME NEW z \in Seq(Z)
      PROVE  /\ Normal(Clean(z), Alphanumeric, "-") /\ (Clean(z) # <<>> <=> Has(z, Alphanumeric))
             /\ Collapsed(Clean(z)) = Clean(z)
             /\ Collapsed(RunsReplaced(z, Alphanumeric, "-")) = RunsReplaced(z, Alphanumeric, "-")
  <2>1. PICK r : r = RunsReplaced(z, Alphanumeric, "-")  OBVIOUS
  <2>2. /\ r \in Seq(Alphanumeric \cup {"-"}) /\ Single(r, "-")
        /\ Has(r, Alphanumeric) <=> Has(z, Alphanumeric)
    BY <1>3, <2>1, RunsGone
  <2>3. Normal(Trimmed(r, "-"), Alphanumeric, "-") /\ (Trimmed(r, "-") # <<>> <=> Has(r, Alphanumeric))
    BY <1>3, <2>2, TrimmedNormal
  <2>4. Collapsed(Trimmed(r, "-")) = Trimmed(r, "-")  BY <2>3, NormalStays
  <2>5. Collapsed(r) = r  BY <2>2, CollapsedKept
  <2>. QED  BY <2>1, <2>2, <2>3, <2>4, <2>5 DEF Clean
<1>5. slugify(t) = Collapsed(Clean(x))  BY <1>1 DEF slugify, Clean, SpelledCyrillic
<1>6. transliterateToSlug(t) = Trimmed(Collapsed(RunsReplaced(y, Alphanumeric, "-")), "-")
  BY <1>1 DEF transliterateToSlug, SpelledTranslit
<1>7. slugify(t) = Clean(x)  BY <1>2, <1>4, <1>5
<1>8. transliterateToSlug(t) = Clean(y)  BY <1>2, <1>4, <1>6 DEF Clean
<1>. QED  BY <1>1, <1>2, <1>4, <1>7, <1>8

(* and in normal form nothing changes any more.                            *)
LEMMA SlugStays ==
    ASSUME NEW s, Normal(s, Alphanumeric, "-")
    PROVE  slugify(s) = s /\ transliterateToSlug(s) = s
<1>1. s \in Seq(Slugs)  BY DEF Normal, Slugs
<1>2. SpelledCyrillic(s) = s /\ SpelledTranslit(s) = s  BY <1>1, SlugSpelled
<1>3. Clean(s) = s  BY NormalStays DEF Clean
<1>4. slugify(s) = Clean(SpelledCyrillic(s)) /\ transliterateToSlug(s) = Clean(SpelledTranslit(s))
  BY <1>1, SlugIsClean
<1>. QED  BY <1>2, <1>3, <1>4

(* Both ways of making a slug end in the normal form, for any text.        *)
LEMMA SlugsOfAnyText ==
    ASSUME NEW S, text \in Seq(S)
    PROVE  SlugsNormal
<1>1. PICK a, b : a = slugify(text) /\ b = transliterateToSlug(text)  OBVIOUS
<1>2. /\ Normal(a, Alphanumeric, "-") /\ Normal(b, Alphanumeric, "-")
      /\ a = <<>> <=> b = <<>>
      /\ ~ Has(text, ShortI) => a = b
  BY <1>1, SlugIsClean
<1>3. ASSUME NEW s \in {a, b}
      PROVE  /\ \A k \in DOMAIN s : s[k] \in Alphanumeric \cup {"-"}
             /\ \A k \in DOMAIN s : s[k] = "-" => k \notin {1, Len(s)} /\ s[k + 1] # "-"
             /\ slugify(s) = s /\ transliterateToSlug(s) = s
  <2>1. Normal(s, Alphanumeric, "-")  BY <1>2
  <2>2. /\ s \in Seq(Alphanumeric \cup {"-"}) /\ Single(s, "-")
        /\ s # <<>> => s[1] # "-" /\ s[Len(s)] # "-"
    BY <2>1 DEF Normal
  <2>3. DOMAIN s = 1 .. Len(s) /\ Len(s) \in Nat  BY <2>2
  <2>4. \A k \in DOMAIN s : s[k] \in Alphanumeric \cup {"-"}  BY <2>2, <2>3
  <2>5. ASSUME NEW k \in DOMAIN s, s[k] = "-"
        PROVE  k \notin {1, Len(s)} /\ s[k + 1] # "-"
    <3>1. s # <<>>  BY <2>2, <2>3
    <3>2. k # 1 /\ k # Len(s)  BY <2>2, <2>5, <3>1
    <3>3. k + 1 \in DOMAIN s  BY <2>3, <3>2
    <3>. QED  BY <2>2, <2>5, <3>2, <3>3 DEF Single
  <2>. QED  BY <2>1, <2>4, <2>5, SlugStays
<1>4. {"short_i", "SHORT_I"} \cap Characters = {} => Cardinality({a, b}) = 1
  <2>1. SUFFICES ASSUME {"short_i", "SHORT_I"} \cap Characters = {} PROVE Cardinality({a, b}) = 1
    OBVIOUS
  <2>2. ~ Has(text, ShortI)  BY <2>1 DEF Has, ShortI, Characters
  <2>3. {a, b} = {a}  BY <1>2, <2>2
  <2>. QED  BY <2>3, FS_Singleton
<1>5. BaseSlug(text) # <<>>  BY DEF BaseSlug
<1>6. Refused(text) <=> slugify(text) = <<>>  BY <1>1, <1>2 DEF Refused
<1>. QED  BY <1>1, <1>3, <1>4, <1>5, <1>6 DEF SlugsNormal

-----------------------------------------------------------------------------
(* The HTML of an e-mail.                                                  *)
\* The characters and names that an entity, an excerpt or a CSV has a use for.
Quote == "\""
Amp == "amp;"
Lt == "lt;"
Quot == "quot;"
Comma == ","
Space == " "

LEMMA NamesDiffer ==
    /\ Quote \notin {"&", "<", Amp, Lt, Quot, Comma, Space, Tag, LineEnd, "..."}
    /\ Amp \notin {"&", "<", Lt, Quot, Comma, Space, Tag, LineEnd, "..."}
    /\ Lt \notin {"&", "<", Quot, Comma, Space, Tag, LineEnd, "..."}
    /\ Quot \notin {"&", "<", Comma, Space, Tag, LineEnd, "..."}
    /\ Comma \notin {"&", "<", Space, Tag, LineEnd, "..."}
    /\ Space \notin {"&", "<", Tag, LineEnd, "..."}
  BY Zenon DEF Quote, Amp, Lt, Quot, Comma, Space, Tag, LineEnd

LEMMA EntitiesAre ==
    /\ Entities = <<<<"&", Amp>>, <<"<", Lt>>, <<Quote, Quot>>>>
    /\ DOMAIN Entities = 1 .. 3
    /\ Entities[1] = <<"&", Amp>> /\ Entities[2] = <<"<", Lt>> /\ Entities[3] = <<Quote, Quot>>
<1>1. Entities = <<<<"&", Amp>>, <<"<", Lt>>, <<Quote, Quot>>>>
  BY Zenon DEF Entities, Quote, Amp, Lt, Quot
<1>. QED  BY <1>1

EntityChars == {"&", Amp, Lt, Quot}

Replaces(w, S, c, by) == w = [d \in S |-> IF d = c THEN by ELSE <<d>>]

(* Replacing a character spells the text.                                  *)
LEMMA ReplacedSpells ==
    ASSUME NEW S, NEW c, NEW by, NEW t \in Seq(S), NEW w, Replaces(w, S, c, by)
    PROVE  Replaced(t, c, by) = Spelled(t, w)
<1>1. \A k \in DOMAIN t : w[t[k]] = IF t[k] = c THEN by ELSE <<t[k]>>
  <2>1. \A k \in DOMAIN t : t[k] \in S  OBVIOUS
  <2>. QED  BY <2>1 DEF Replaces
<1>2. [k \in DOMAIN t |-> IF t[k] = c THEN by ELSE <<t[k]>>] = [k \in DOMAIN t |-> w[t[k]]]
  BY <1>1
<1>. QED  BY <1>2 DEF Replaced, Spelled

LEMMA ReplacedTyped ==
    ASSUME NEW S, NEW c, NEW by \in Seq(S), NEW t \in Seq(S)
    PROVE  Replaced(t, c, by) \in Seq(S)
<1>. DEFINE w == [d \in S |-> IF d = c THEN by ELSE <<d>>]
<1>1. w \in [S -> Seq(S)]
  <2>1. \A d \in S : <<d>> \in Seq(S)  OBVIOUS
  <2>. QED  BY <2>1
<1>a. Replaces(w, S, c, by)  BY DEF Replaces
<1>. HIDE DEF w
<1>2. Replaced(t, c, by) = Spelled(t, w)  BY <1>a, ReplacedSpells
<1>3. Spelled(t, w) \in Seq(S)  BY <1>1, SpelledStep
<1>. QED  BY <1>2, <1>3

EscapeOne(t, e) == Replaced(t, e[1], <<"&", e[2]>>)

Escaping(t, es) == FoldLeft(EscapeOne, t, es)

Pairs == {Entities[k] : k \in 1 .. 3}

LEMMA EscapeTyped ==
    ASSUME NEW X, EntityChars \subseteq X, NEW t \in Seq(X), NEW e \in Pairs
    PROVE  EscapeOne(t, e) \in Seq(X)
<1>1. e[2] \in {Amp, Lt, Quot}
  <2>1. PICK k \in 1 .. 3 : e = Entities[k]  BY DEF Pairs
  <2>2. Entities[1][2] = Amp /\ Entities[2][2] = Lt /\ Entities[3][2] = Quot  BY EntitiesAre
  <2>3. k = 1 \/ k = 2 \/ k = 3  BY <2>1
  <2>. QED  BY <2>1, <2>2, <2>3
<1>2. <<"&", e[2]>> \in Seq(X)
  <2>1. "&" \in X /\ e[2] \in X  BY <1>1 DEF EntityChars
  <2>. QED  BY <2>1
<1>. QED  BY <1>2, ReplacedTyped DEF EscapeOne

(* Entity after entity, each in the whole text.                            *)
LEMMA EscapingStep ==
    ASSUME NEW X, EntityChars \subseteq X, NEW u \in Seq(X)
    PROVE  /\ Escaping(u, <<>>) = u
           /\ \A t \in Seq(Pairs) : Escaping(u, t) \in Seq(X)
           /\ \A t \in Seq(Pairs), c \in Pairs : Escaping(u, Append(t, c)) = EscapeOne(Escaping(u, t), c)
<1>. DEFINE A == Seq(X)
            f == [p \in A \X Pairs |-> EscapeOne(p[1], p[2])]
<1>1. u \in A /\ f \in [A \X Pairs -> A]
  <2>1. \A s \in A, c \in Pairs : EscapeOne(s, c) \in A  BY EscapeTyped
  <2>2. u \in A  OBVIOUS
  <2>. HIDE DEF A
  <2>. QED  BY <2>1, <2>2
<1>2. ASSUME NEW t \in Seq(Pairs) PROVE Escaping(u, t) = Folded(f, u, t)
  <2>. DEFINE Way(h) == h = [s \in SUBSET DOMAIN t |->
                IF s = {} THEN u ELSE EscapeOne(h[s \ {Max(s)}], t[Max(s)])]
  <2>1. Escaping(u, t) = (CHOOSE h : Way(h))[DOMAIN t]
    BY DEF Escaping, FoldLeft, MapThenFoldSet
  <2>. HIDE DEF A
  <2>2. PICK h : FoldsTo(h, f, u, t, A)
    <3>. HIDE DEF f
    <3>. QED  BY <1>1, FoldedBy
  <2>3. Way(h)
    <3>1. ASSUME NEW s \in SUBSET DOMAIN t, s # {}
          PROVE  f[<<h[s \ {Max(s)}], t[Max(s)]>>] = EscapeOne(h[s \ {Max(s)}], t[Max(s)])
      <4>1. s \ {Max(s)} \in SUBSET DOMAIN t /\ t[Max(s)] \in Pairs  BY <3>1, PartOfText
      <4>2. h[s \ {Max(s)}] \in A  BY <2>2, <4>1 DEF FoldsTo
      <4>. QED  BY <4>1, <4>2
    <3>2. h = [s \in SUBSET DOMAIN t |->
                  IF s = {} THEN u ELSE f[<<h[s \ {Max(s)}], t[Max(s)]>>]]
      BY <2>2 DEF FoldsTo, Folding
    <3>. HIDE DEF f
    <3>. QED  BY <3>1, <3>2
  <2>4. PICK g : g = CHOOSE i : Way(i)  OBVIOUS
  <2>5. Way(g)  BY <2>3, <2>4
  <2>6. Alike(g, h, t)  BY <2>3, <2>5 DEF Alike
  <2>7. g[DOMAIN t] = h[DOMAIN t]  BY <2>6, AlikeToTheEnd
  <2>. HIDE DEF f
  <2>. QED  BY <2>1, <2>2, <2>4, <2>7 DEF FoldsTo
<1>3. <<>> \in Seq(Pairs)  OBVIOUS
<1>4. \A a \in A, c \in Pairs : f[<<a, c>>] = EscapeOne(a, c)
  <2>. HIDE DEF A
  <2>. QED  OBVIOUS
<1>. HIDE DEF A, f
<1>5. /\ Folded(f, u, <<>>) = u
      /\ \A t \in Seq(Pairs) : Folded(f, u, t) \in A
      /\ \A t \in Seq(Pairs), c \in Pairs : Folded(f, u, Append(t, c)) = f[<<Folded(f, u, t), c>>]
  <2>1. Stepwise(f, u, Pairs, A)  BY <1>1, FoldedStep
  <2>. QED  BY <2>1 DEF Stepwise
<1>6. Escaping(u, <<>>) = u  BY <1>2, <1>3, <1>5
<1>7. ASSUME NEW t \in Seq(Pairs) PROVE Escaping(u, t) \in Seq(X)
  BY <1>2, <1>5 DEF A
<1>8. ASSUME NEW t \in Seq(Pairs), NEW c \in Pairs
      PROVE  Escaping(u, Append(t, c)) = EscapeOne(Escaping(u, t), c)
  <2>1. Append(t, c) \in Seq(Pairs)  OBVIOUS
  <2>2. Escaping(u, t) = Folded(f, u, t) /\ Escaping(u, t) \in A  BY <1>2, <1>5
  <2>3. f[<<Escaping(u, t), c>>] = EscapeOne(Escaping(u, t), c)  BY <1>4, <2>2
  <2>. QED  BY <1>2, <1>5, <2>1, <2>2, <2>3
<1>. QED  BY <1>6, <1>7, <1>8

(* All three entities, the ampersand first.                                *)
LEMMA EscapedThrice ==
    ASSUME NEW X, EntityChars \subseteq X, NEW u \in Seq(X)
    PROVE  escapeHtml(u) = Replaced(Replaced(Replaced(u, "&", <<"&", Amp>>),
                                             "<", <<"&", Lt>>),
                                    Quote, <<"&", Quot>>)
<1>1. escapeHtml(u) = Escaping(u, Entities)
  BY DEF escapeHtml, Escaping, EscapeOne, FoldLeft, MapThenFoldSet
<1>2. PICK a, b, c : a = <<"&", Amp>> /\ b = <<"<", Lt>> /\ c = <<Quote, Quot>>  OBVIOUS
<1>3. Entities = <<a, b, c>> /\ a \in Pairs /\ b \in Pairs /\ c \in Pairs
  <2>1. Entities = <<a, b, c>>  BY <1>2, EntitiesAre
  <2>2. Entities[1] = a /\ Entities[2] = b /\ Entities[3] = c  BY <2>1
  <2>. QED  BY <2>1, <2>2 DEF Pairs
<1>4. PICK r, s, t : r = <<>> /\ s = <<a>> /\ t = <<a, b>>  OBVIOUS
<1>5. /\ r \in Seq(Pairs) /\ s \in Seq(Pairs) /\ t \in Seq(Pairs)
      /\ s = Append(r, a) /\ t = Append(s, b) /\ Entities = Append(t, c)
  BY <1>3, <1>4
<1>6. \A v \in Seq(Pairs), e \in Pairs : Escaping(u, Append(v, e)) = EscapeOne(Escaping(u, v), e)
  BY EscapingStep
<1>7. Escaping(u, r) = u  BY <1>4, EscapingStep
<1>8. Escaping(u, s) = EscapeOne(u, a)  BY <1>3, <1>5, <1>6, <1>7
<1>9. Escaping(u, t) = EscapeOne(EscapeOne(u, a), b)  BY <1>3, <1>5, <1>6, <1>8
<1>10. Escaping(u, Entities) = EscapeOne(EscapeOne(EscapeOne(u, a), b), c)  BY <1>3, <1>5, <1>6, <1>9
<1>11. \A x : /\ EscapeOne(x, a) = Replaced(x, "&", <<"&", Amp>>)
              /\ EscapeOne(x, b) = Replaced(x, "<", <<"&", Lt>>)
              /\ EscapeOne(x, c) = Replaced(x, Quote, <<"&", Quot>>)
  BY <1>2 DEF EscapeOne
<1>. QED  BY <1>1, <1>10, <1>11

Escaped(c) ==
    CASE c = "&" -> <<"&", Amp>> [] c = "<" -> <<"&", Lt>>
      [] c = Quote -> <<"&", Quot>> [] OTHER -> <<c>>

(* Every character is escaped by itself: no ampersand of an entity is      *)
(* escaped again.                                                          *)
LEMMA EscapedAlone ==
    ASSUME NEW S
    PROVE  /\ escapeHtml(<<>>) = <<>>
           /\ \A t \in Seq(S) : escapeHtml(t) \in Seq(S \cup EntityChars)
           /\ \A t \in Seq(S), c \in S : escapeHtml(Append(t, c)) = escapeHtml(t) \o Escaped(c)
<1>. DEFINE X == S \cup EntityChars
            w1 == [d \in X |-> IF d = "&" THEN <<"&", Amp>> ELSE <<d>>]
            w2 == [d \in X |-> IF d = "<" THEN <<"&", Lt>> ELSE <<d>>]
            w3 == [d \in X |-> IF d = Quote THEN <<"&", Quot>> ELSE <<d>>]
            E(t) == Spelled(Spelled(Spelled(t, w1), w2), w3)
<1>1. EntityChars \subseteq X /\ S \subseteq X  OBVIOUS
<1>2. \A t \in Seq(S) : t \in Seq(X)
  <2>. HIDE DEF X
  <2>. QED  BY <1>1, SeqMonotonic
<1>3. <<"&", Amp>> \in Seq(X) /\ <<"&", Lt>> \in Seq(X) /\ <<"&", Quot>> \in Seq(X)
  <2>1. "&" \in X /\ Amp \in X /\ Lt \in X /\ Quot \in X  BY DEF EntityChars
  <2>. HIDE DEF X
  <2>2. \A p, q \in X : <<p, q>> \in Seq(X)  OBVIOUS
  <2>. QED  BY <2>1, <2>2
<1>4. w1 \in [X -> Seq(X)] /\ w2 \in [X -> Seq(X)] /\ w3 \in [X -> Seq(X)]
  <2>1. \A d \in X : <<d>> \in Seq(X)  OBVIOUS
  <2>. HIDE DEF X
  <2>. QED  BY <1>3, <2>1
<1>5. ASSUME NEW t \in Seq(X) PROVE escapeHtml(t) = E(t)
  <2>0. /\ Replaces(w1, X, "&", <<"&", Amp>>) /\ Replaces(w2, X, "<", <<"&", Lt>>)
        /\ Replaces(w3, X, Quote, <<"&", Quot>>)
    BY DEF Replaces
  <2>. HIDE DEF X, w1, w2, w3
  <2>1. Replaced(t, "&", <<"&", Amp>>) = Spelled(t, w1)  BY <2>0, ReplacedSpells
  <2>2. Spelled(t, w1) \in Seq(X)  BY <1>3, <2>1, ReplacedTyped
  <2>3. Replaced(Spelled(t, w1), "<", <<"&", Lt>>) = Spelled(Spelled(t, w1), w2)
    BY <2>0, <2>2, ReplacedSpells
  <2>4. Spelled(Spelled(t, w1), w2) \in Seq(X)  BY <1>3, <2>2, <2>3, ReplacedTyped
  <2>5. Replaced(Spelled(Spelled(t, w1), w2), Quote, <<"&", Quot>>) = E(t)
    BY <2>0, <2>4, ReplacedSpells
  <2>6. escapeHtml(t) = Replaced(Replaced(Replaced(t, "&", <<"&", Amp>>),
                                             "<", <<"&", Lt>>),
                                    Quote, <<"&", Quot>>)
    BY <1>1, EscapedThrice
  <2>. QED  BY <2>1, <2>3, <2>5, <2>6
<1>6. ASSUME NEW c \in X
      PROVE  /\ w1[c] = IF c = "&" THEN <<"&", Amp>> ELSE <<c>>
             /\ w2[c] = IF c = "<" THEN <<"&", Lt>> ELSE <<c>>
             /\ w3[c] = IF c = Quote THEN <<"&", Quot>> ELSE <<c>>
  OBVIOUS
<1>7. "&" \in X /\ Amp \in X /\ Lt \in X /\ Quot \in X  BY DEF EntityChars
<1>. HIDE DEF w1, w2, w3, X
<1>8. ASSUME NEW w, w \in {w1, w2, w3}
      PROVE  /\ Spelled(<<>>, w) = <<>>
             /\ \A t \in Seq(X) : Spelled(t, w) \in Seq(X)
             /\ \A c \in X : Spelled(<<c>>, w) = w[c]
             /\ \A c, d \in X : Spelled(<<c, d>>, w) = w[c] \o w[d]
             /\ \A t \in Seq(X), u \in Seq(X) : Spelled(t \o u, w) = Spelled(t, w) \o Spelled(u, w)
  <2>1. w \in [X -> Seq(X)]  BY <1>4, <1>8
  <2>2. Spelled(<<>>, w) = <<>> /\ \A t \in Seq(X) : Spelled(t, w) \in Seq(X)  BY <2>1, SpelledStep
  <2>3. \A c, d \in X : Spelled(<<c>>, w) = w[c] /\ Spelled(<<c, d>>, w) = w[c] \o w[d]
    BY <2>1, SpelledOne
  <2>4. \A t \in Seq(X), u \in Seq(X) : Spelled(t \o u, w) = Spelled(t, w) \o Spelled(u, w)
    BY <2>1, SpelledConcat
  <2>. QED  BY <2>2, <2>3, <2>4
<1>9. escapeHtml(<<>>) = <<>>
  <2>1. <<>> \in Seq(X)  OBVIOUS
  <2>. QED  BY <1>5, <1>8, <2>1
<1>10. ASSUME NEW t \in Seq(X) PROVE E(t) \in Seq(X)
  <2>1. Spelled(t, w1) \in Seq(X)  BY <1>8
  <2>2. Spelled(Spelled(t, w1), w2) \in Seq(X)  BY <1>8, <2>1
  <2>. QED  BY <1>8, <2>2
<1>11. ASSUME NEW c \in X PROVE Spelled(Spelled(w1[c], w2), w3) = Escaped(c) /\ w1[c] \in Seq(X)
  <2>1. w1[c] \in Seq(X)  BY <1>4
  <2>2. <<"&">> \o <<Amp>> = <<"&", Amp>> /\ <<"&">> \o <<Lt>> = <<"&", Lt>>
    BY TwoInARow
  <2>3. \A d \in {"&", Amp, Lt} : w3[d] = <<d>> /\ (d # Lt => w2[d] = <<d>>)  BY <1>6, <1>7, NamesDiffer
  <2>4. CASE c = "&"
    <3>1. w1[c] = <<"&", Amp>>  BY <1>6, <2>4
    <3>2. Spelled(<<"&", Amp>>, w2) = <<"&", Amp>>
      <4>1. w2["&"] = <<"&">> /\ w2[Amp] = <<Amp>>  BY <2>3, NamesDiffer
      <4>2. Spelled(<<"&", Amp>>, w2) = w2["&"] \o w2[Amp]  BY <1>7, <1>8
      <4>. QED  BY <2>2, <4>1, <4>2
    <3>3. Spelled(<<"&", Amp>>, w3) = <<"&", Amp>>  BY <1>7, <1>8, <2>2, <2>3
    <3>. QED  BY <2>1, <2>4, <3>1, <3>2, <3>3, NamesDiffer DEF Escaped
  <2>5. CASE c = "<"
    <3>1. w1[c] = <<c>> /\ w2[c] = <<"&", Lt>>  BY <1>6, <2>5
    <3>2. Spelled(<<c>>, w2) = <<"&", Lt>>  BY <1>8, <3>1
    <3>3. Spelled(<<"&", Lt>>, w3) = <<"&", Lt>>  BY <1>7, <1>8, <2>2, <2>3
    <3>. QED  BY <2>1, <2>5, <3>1, <3>2, <3>3, NamesDiffer DEF Escaped
  <2>6. CASE c # "&" /\ c # "<"
    <3>1. w1[c] = <<c>> /\ w2[c] = <<c>>  BY <1>6, <2>6
    <3>2. Spelled(<<c>>, w2) = <<c>> /\ Spelled(<<c>>, w3) = w3[c]  BY <1>8, <3>1
    <3>3. w3[c] = Escaped(c)  BY <1>6, <2>6 DEF Escaped
    <3>. QED  BY <2>1, <3>1, <3>2, <3>3
  <2>. QED  BY <2>4, <2>5, <2>6
<1>12. ASSUME NEW t \in Seq(X), NEW c \in X PROVE E(Append(t, c)) = E(t) \o Escaped(c)
  <2>1. Spelled(Append(t, c), w1) = Spelled(t, w1) \o w1[c]
    <3>1. w1 \in [X -> Seq(X)]  BY <1>4
    <3>2. \A u \in Seq(X), d \in X : Spelled(Append(u, d), w1) = Spelled(u, w1) \o w1[d]
      BY <3>1, SpelledStep
    <3>. QED  BY <3>2
  <2>2. PICK a, b, y : a = Spelled(t, w1) /\ b = Spelled(a, w2) /\ y = Spelled(w1[c], w2)  OBVIOUS
  <2>3. a \in Seq(X) /\ w1[c] \in Seq(X)  BY <1>8, <1>11, <2>2
  <2>4. b \in Seq(X) /\ y \in Seq(X)  BY <1>8, <2>2, <2>3
  <2>5. Spelled(a \o w1[c], w2) = b \o y  BY <1>8, <2>2, <2>3
  <2>6. Spelled(b \o y, w3) = Spelled(b, w3) \o Spelled(y, w3)  BY <1>8, <2>4
  <2>. QED  BY <1>11, <2>1, <2>2, <2>5, <2>6
<1>13. \A t \in Seq(S), c \in S : Append(t, c) \in Seq(X) /\ t \in Seq(X) /\ c \in X
  BY <1>1, <1>2
<1>14. \A t \in Seq(S) : escapeHtml(t) \in Seq(X)  BY <1>2, <1>5, <1>10
<1>15. ASSUME NEW t \in Seq(S), NEW c \in S PROVE escapeHtml(Append(t, c)) = escapeHtml(t) \o Escaped(c)
  <2>1. Append(t, c) \in Seq(X) /\ t \in Seq(X) /\ c \in X  BY <1>13
  <2>. HIDE DEF E
  <2>. QED  BY <1>5, <1>12, <2>1
<1>. QED  BY <1>9, <1>14, <1>15 DEF X

-----------------------------------------------------------------------------
(* How it is read.                                                         *)
LEMMA ReadsPlain ==
    ASSUME NEW said, NEW c, c # "&"
    PROVE  ReadHtml([said |-> said, open |-> FALSE], c) = [said |-> Append(said, c), open |-> FALSE]
<1>1. PICK s : s = [said |-> said, open |-> FALSE]  OBVIOUS
<1>2. s.said = said /\ s.open = FALSE  BY <1>1
<1>3. {k \in DOMAIN Entities : s.open /\ Entities[k][2] = c} = {}  BY <1>2
<1>4. ReadHtml(s, c) = [said |-> Append(s.said, c), open |-> FALSE]  BY <1>3 DEF ReadHtml
<1>. QED  BY <1>1, <1>2, <1>4

LEMMA ReadsEntity ==
    ASSUME NEW said, NEW k \in 1 .. 3
    PROVE  /\ ReadHtml([said |-> said, open |-> FALSE], "&") = [said |-> said, open |-> TRUE]
           /\ ReadHtml([said |-> said, open |-> TRUE], Entities[k][2])
                = [said |-> Append(said, Entities[k][1]), open |-> FALSE]
<1>1. PICK s, o : s = [said |-> said, open |-> FALSE] /\ o = [said |-> said, open |-> TRUE]  OBVIOUS
<1>2. o.said = said /\ o.open = TRUE  BY <1>1
<1>9. s = [said |-> s.said, open |-> s.open] /\ s.said = said
  <2>. HIDE DEF Entities
  <2>. QED  BY <1>1
<1>3. ReadHtml(s, "&") = o
  <2>1. ReadHtml(s, "&") = [said |-> s.said, open |-> TRUE]  BY <1>9 DEF ReadHtml
  <2>. QED  BY <1>1, <1>9, <2>1
<1>4. PICK c : c = Entities[k][2]  OBVIOUS
<1>5. c # "&"
  <2>1. k = 1 \/ k = 2 \/ k = 3  OBVIOUS
  <2>. QED  BY <1>4, <2>1, EntitiesAre, NamesDiffer
<1>6. {l \in DOMAIN Entities : o.open /\ Entities[l][2] = c} = {k}
  <2>1. \A l \in 1 .. 3 : Entities[l][2] = Entities[k][2] => l = k
    <3>1. Entities[1][2] = Amp /\ Entities[2][2] = Lt /\ Entities[3][2] = Quot  BY EntitiesAre
    <3>2. Amp # Lt /\ Amp # Quot /\ Lt # Quot  BY NamesDiffer
    <3>3. \A l \in 1 .. 3 : l = 1 \/ l = 2 \/ l = 3  OBVIOUS
    <3>. QED  BY <3>1, <3>2, <3>3
  <2>2. DOMAIN Entities = 1 .. 3  BY EntitiesAre
  <2>. QED  BY <1>2, <1>4, <2>1, <2>2
<1>7. (CHOOSE l \in {k} : TRUE) = k  OBVIOUS
<1>8. ReadHtml(o, c) = [said |-> Append(o.said, Entities[k][1]), open |-> FALSE]
  BY <1>5, <1>6, <1>7 DEF ReadHtml
<1>. QED  BY <1>1, <1>2, <1>3, <1>4, <1>8

(* An escaped character is read as itself.                                 *)
LEMMA ReadsEscaped ==
    ASSUME NEW X, EntityChars \subseteq X, NEW u \in Seq(X), NEW said, NEW c \in X,
           Reader(u) = [said |-> said, open |-> FALSE]
    PROVE  Reader(u \o Escaped(c)) = [said |-> Append(said, c), open |-> FALSE]
<1>1. \A t \in Seq(X), d \in X : Reader(Append(t, d)) = ReadHtml(Reader(t), d)  BY ReaderStep
<1>2. ASSUME NEW k \in 1 .. 3, Escaped(c) = <<"&", Entities[k][2]>>, c = Entities[k][1]
      PROVE  Reader(u \o Escaped(c)) = [said |-> Append(said, c), open |-> FALSE]
  <2>1. PICK d, v : d = Entities[k][2] /\ v = Append(u, "&")  OBVIOUS
  <2>2. "&" \in X /\ d \in X
    <3>1. k = 1 \/ k = 2 \/ k = 3  OBVIOUS
    <3>2. d \in {Amp, Lt, Quot}  BY <2>1, <3>1, EntitiesAre
    <3>. QED  BY <3>2 DEF EntityChars
  <2>3. v \in Seq(X)  BY <2>1, <2>2
  <2>4. u \o <<"&", d>> = Append(v, d)
    <3>1. v = u \o <<"&">> /\ Append(v, d) = v \o <<d>>  BY <2>1, <2>2, <2>3, AppendIsConcat
    <3>2. <<"&">> \in Seq(X) /\ <<d>> \in Seq(X)  BY <2>2
    <3>3. (u \o <<"&">>) \o <<d>> = u \o (<<"&">> \o <<d>>)  BY <3>2, ConcatAssociative
    <3>4. <<"&">> \o <<d>> = <<"&", d>>  BY TwoInARow
    <3>. QED  BY <3>1, <3>3, <3>4
  <2>5. Reader(v) = [said |-> said, open |-> TRUE]  BY <1>1, <2>1, <2>2, ReadsEntity
  <2>6. Reader(Append(v, d)) = ReadHtml([said |-> said, open |-> TRUE], d)  BY <1>1, <2>2, <2>3, <2>5
  <2>7. ReadHtml([said |-> said, open |-> TRUE], d) = [said |-> Append(said, c), open |-> FALSE]
    BY <1>2, <2>1, ReadsEntity
  <2>. QED  BY <1>2, <2>1, <2>4, <2>6, <2>7
<1>3. CASE c = "&"
  <2>1. Escaped(c) = <<"&", Entities[1][2]>> /\ c = Entities[1][1]
    BY <1>3, EntitiesAre, NamesDiffer DEF Escaped
  <2>. QED  BY <1>2, <2>1
<1>4. CASE c = "<"
  <2>1. Escaped(c) = <<"&", Entities[2][2]>> /\ c = Entities[2][1]
    BY <1>4, EntitiesAre, NamesDiffer DEF Escaped
  <2>. QED  BY <1>2, <2>1
<1>5. CASE c = Quote
  <2>1. Escaped(c) = <<"&", Entities[3][2]>> /\ c = Entities[3][1]
    BY <1>5, EntitiesAre, NamesDiffer DEF Escaped
  <2>. QED  BY <1>2, <2>1
<1>6. CASE c \notin {"&", "<", Quote}
  <2>1. Escaped(c) = <<c>>  BY <1>6 DEF Escaped
  <2>2. u \o <<c>> = Append(u, c)  BY AppendIsConcat
  <2>3. Reader(Append(u, c)) = ReadHtml([said |-> said, open |-> FALSE], c)  BY <1>1
  <2>. QED  BY <1>6, <2>1, <2>2, <2>3, ReadsPlain
<1>. QED  BY <1>3, <1>4, <1>5, <1>6

(* What was escaped is read as what was typed, and has no special character*)
(* but those of its entities.                                              *)
LEMMA EscapedIsRead ==
    ASSUME NEW S
    PROVE  \A t \in Seq(S) : HtmlRead(escapeHtml(t)) = t
<1>. DEFINE X == S \cup EntityChars
            P == {t \in Seq(S) : Reader(escapeHtml(t)) = [said |-> t, open |-> FALSE]}
<1>1. <<>> \in P
  <2>1. <<>> \in Seq(S) /\ escapeHtml(<<>>) = <<>>
    <3>1. <<>> \in Seq(S)  OBVIOUS
    <3>2. escapeHtml(<<>>) = <<>>  BY EscapedAlone
    <3>. QED  BY <3>1, <3>2
  <2>2. Reader(<<>>) = [said |-> <<>>, open |-> FALSE]  BY ReaderStep
  <2>. QED  BY <2>1, <2>2
<1>2. ASSUME NEW t \in Seq(S), NEW c \in S, t \in P PROVE Append(t, c) \in P
  <2>1. escapeHtml(t) \in Seq(X) /\ escapeHtml(Append(t, c)) = escapeHtml(t) \o Escaped(c)
    BY EscapedAlone
  <2>2. EntityChars \subseteq X /\ c \in X  OBVIOUS
  <2>3. Reader(escapeHtml(t)) = [said |-> t, open |-> FALSE]  BY <1>2
  <2>. HIDE DEF X
  <2>4. Reader(escapeHtml(t) \o Escaped(c)) = [said |-> Append(t, c), open |-> FALSE]
    BY <2>1, <2>2, <2>3, ReadsEscaped
  <2>5. Append(t, c) \in Seq(S)  OBVIOUS
  <2>. QED  BY <2>1, <2>4, <2>5
<1>3. \A t \in Seq(S) : t \in P
  <2>. HIDE DEF P
  <2>. QED  BY <1>1, <1>2, TextInduction
<1>4. \A h : HtmlRead(h) = Reader(h).said  BY Zenon DEF HtmlRead, Reader, ReadHtml
<1>. QED  BY <1>3, <1>4

LEMMA EscapedHas ==
    ASSUME NEW S, NEW K, K \cap EntityChars = {}
    PROVE  \A t \in Seq(S) : Has(escapeHtml(t), K) <=> Has(t, K \ {"<", Quote})
<1>. DEFINE X == S \cup EntityChars
            P == {t \in Seq(S) : Has(escapeHtml(t), K) <=> Has(t, K \ {"<", Quote})}
<1>1. <<>> \in P
  <2>1. <<>> \in Seq(S) /\ escapeHtml(<<>>) = <<>>
    <3>1. <<>> \in Seq(S)  OBVIOUS
    <3>2. escapeHtml(<<>>) = <<>>  BY EscapedAlone
    <3>. QED  BY <3>1, <3>2
  <2>2. ~ Has(<<>>, K) /\ ~ Has(<<>>, K \ {"<", Quote})  BY DEF Has
  <2>. QED  BY <2>1, <2>2
<1>2. ASSUME NEW t \in Seq(S), NEW c \in S, t \in P PROVE Append(t, c) \in P
  <2>1. escapeHtml(t) \in Seq(X) /\ escapeHtml(Append(t, c)) = escapeHtml(t) \o Escaped(c)
    BY EscapedAlone
  <2>2. Escaped(c) \in Seq(X) /\ (Has(Escaped(c), K) <=> c \in K \ {"<", Quote})
    <3>1. \A e : e \in EntityChars => e \in X /\ e \notin K  OBVIOUS
    <3>2. "&" \in EntityChars /\ Amp \in EntityChars /\ Lt \in EntityChars /\ Quot \in EntityChars
      BY DEF EntityChars
    <3>3. \A d, e \in X : /\ <<d>> \in Seq(X) /\ <<d, e>> \in Seq(X)
                          /\ Has(<<d>>, K) <=> d \in K
                          /\ Has(<<d, e>>, K) <=> d \in K \/ e \in K
      <4>. HIDE DEF X
      <4>. TAKE d, e \in X
      <4>1. <<d>> \in Seq(X) /\ <<d, e>> \in Seq(X)  OBVIOUS
      <4>2. Has(<<d>>, K) <=> d \in K  BY DEF Has
      <4>3. Has(<<d, e>>, K) <=> d \in K \/ e \in K
        <5>1. PICK p : p = <<d, e>>  OBVIOUS
        <5>2. DOMAIN p = {1, 2} /\ p[1] = d /\ p[2] = e  BY <5>1
        <5>3. Has(p, K) <=> d \in K \/ e \in K  BY <5>2 DEF Has
        <5>. QED  BY <5>1, <5>3
      <4>. QED  BY <4>1, <4>2, <4>3
    <3>4. c \in X  OBVIOUS
    <3>. HIDE DEF X
    <3>5. CASE c = "&"
      <4>1. Escaped(c) = <<"&", Amp>>  BY <3>5, NamesDiffer DEF Escaped
      <4>. QED  BY <3>1, <3>2, <3>3, <3>5, <4>1
    <3>6. CASE c = "<"
      <4>1. Escaped(c) = <<"&", Lt>>  BY <3>6, NamesDiffer DEF Escaped
      <4>. QED  BY <3>1, <3>2, <3>3, <3>6, <4>1
    <3>7. CASE c = Quote
      <4>1. Escaped(c) = <<"&", Quot>>  BY <3>7, NamesDiffer DEF Escaped
      <4>. QED  BY <3>1, <3>2, <3>3, <3>7, <4>1
    <3>8. CASE c \notin {"&", "<", Quote}
      <4>1. Escaped(c) = <<c>>  BY <3>8 DEF Escaped
      <4>. QED  BY <3>3, <3>4, <3>8, <4>1
    <3>. QED  BY <3>5, <3>6, <3>7, <3>8
  <2>. HIDE DEF X
  <2>3. Has(escapeHtml(t) \o Escaped(c), K) <=> Has(escapeHtml(t), K) \/ Has(Escaped(c), K)
    BY <2>1, <2>2, HasConcat
  <2>4. Has(Append(t, c), K \ {"<", Quote}) <=> Has(t, K \ {"<", Quote}) \/ c \in K \ {"<", Quote}
    BY OneMore
  <2>5. Append(t, c) \in Seq(S)  OBVIOUS
  <2>6. Has(escapeHtml(t), K) <=> Has(t, K \ {"<", Quote})  BY <1>2
  <2>. QED  BY <2>1, <2>2, <2>3, <2>4, <2>5, <2>6
<1>3. \A t \in Seq(S) : t \in P
  <2>. HIDE DEF P
  <2>. QED  BY <1>1, <1>2, TextInduction
<1>. QED  BY <1>3

-----------------------------------------------------------------------------
(* Excerpts.                                                               *)
Kept(html) == {html[k] : k \in DOMAIN html} \ {Tag, Space}

Spaces(all) == {k \in 2 .. maxLength : all[k] = Space}

Cuts(all) ==
    {n \in 1 .. maxLength : \/ all[n + 1] = Space
                            \/ n = maxLength /\ Space \notin {all[i] : i \in 1 .. maxLength}}

LEMMA ExcerptsAre ==
    /\ \A html : Stripped(html) = Trimmed(RunsReplaced(html, Kept(html), Space), Space)
    /\ \A all : Boundary(all) = IF Spaces(all) = {} THEN maxLength ELSE Max(Spaces(all)) - 1
    /\ \A all : Excerpts(all) = IF Len(all) <= maxLength THEN {all}
                                ELSE {Append(SubSeq(all, 1, k), "...") : k \in Cuts(all)}
<1>1. \A html : Stripped(html) = Trimmed(RunsReplaced(html, Kept(html), Space), Space)
  BY Zenon DEF Stripped, Kept, Space
<1>2. \A all : Boundary(all) = IF Spaces(all) = {} THEN maxLength ELSE Max(Spaces(all)) - 1
  BY Zenon DEF Boundary, Spaces, Space
<1>3. \A all : Excerpts(all) = IF Len(all) <= maxLength THEN {all}
                               ELSE {Append(SubSeq(all, 1, k), "...") : k \in Cuts(all)}
  BY Zenon DEF Excerpts, Cuts, Space
<1>. QED  BY <1>1, <1>2, <1>3, Zenon

(* What is left of a page: no tags, and no space in front.                 *)
LEMMA StrippedIs ==
    ASSUME NEW S, NEW html \in Seq(S)
    PROVE  /\ Stripped(html) \in Seq(S \cup {Space}) /\ ~ Has(Stripped(html), {Tag})
           /\ Stripped(html) # <<>> => Stripped(html)[1] # Space
<1>1. PICK K, t : K = Kept(html) /\ t = Stripped(html)  OBVIOUS
<1>2. Space \notin K /\ Tag \notin K /\ K \subseteq S
  <2>1. \A k \in DOMAIN html : html[k] \in S  OBVIOUS
  <2>. QED  BY <1>1, <2>1 DEF Kept
<1>3. PICK r : r = RunsReplaced(html, K, Space)  OBVIOUS
<1>4. r \in Seq(K \cup {Space}) /\ Single(r, Space)  BY <1>2, <1>3, RunsGone
<1>5. t = Trimmed(r, Space)  BY <1>1, <1>3, ExcerptsAre
<1>6. Normal(t, K, Space)  BY <1>2, <1>4, <1>5, TrimmedNormal
<1>7. t \in Seq(K \cup {Space}) /\ (t # <<>> => t[1] # Space)  BY <1>6 DEF Normal
<1>8. t \in Seq(S \cup {Space})
  <2>1. K \cup {Space} \subseteq S \cup {Space}  BY <1>2
  <2>. QED  BY <1>7, <2>1, SeqMonotonic
<1>9. ~ Has(t, {Tag})
  <2>1. \A k \in DOMAIN t : t[k] \in K \cup {Space}  BY <1>7
  <2>2. Tag \notin K \cup {Space}  BY <1>2, NamesDiffer
  <2>. QED  BY <2>1, <2>2 DEF Has
<1>. QED  BY <1>1, <1>7, <1>8, <1>9

(* A text that is too long is cut where a word ends.                       *)
LEMMA BoundaryIsCut ==
    ASSUME NEW C, NEW t \in Seq(C), Len(t) > maxLength, t # <<>> => t[1] # Space
    PROVE  Boundary(t) \in Cuts(t)
<1>1. maxLength \in Nat \ {0} /\ Len(t) \in Nat  BY MaxLengthAssumption
<1>2. t[1] # Space
  <2>1. t # <<>>  BY <1>1
  <2>. QED  BY <2>1
<1>3. CASE Spaces(t) = {}
  <2>1. Boundary(t) = maxLength  BY <1>3, ExcerptsAre
  <2>2. \A i \in 1 .. maxLength : i = 1 \/ i \in 2 .. maxLength  BY <1>1
  <2>3. \A i \in 1 .. maxLength : t[i] # Space  BY <1>2, <1>3, <2>2 DEF Spaces
  <2>4. Space \notin {t[i] : i \in 1 .. maxLength}  BY <2>3
  <2>5. maxLength \in 1 .. maxLength  BY <1>1
  <2>. QED  BY <2>1, <2>4, <2>5 DEF Cuts
<1>4. CASE Spaces(t) # {}
  <2>1. PICK m : m = Max(Spaces(t))  OBVIOUS
  <2>2. m \in Spaces(t)
    <3>1. IsFiniteSet(2 .. maxLength) /\ Spaces(t) \in SUBSET (2 .. maxLength)
      BY <1>1, FS_Interval DEF Spaces
    <3>2. IsFiniteSet(Spaces(t))  BY <3>1, FS_Subset
    <3>3. \A k \in Spaces(t) : k \in Int  BY <1>1 DEF Spaces
    <3>. QED  BY <1>4, <2>1, <3>2, <3>3, Extremes
  <2>3. m \in 2 .. maxLength /\ t[m] = Space  BY <2>2 DEF Spaces
  <2>4. Boundary(t) = m - 1  BY <1>4, <2>1, ExcerptsAre
  <2>5. m - 1 \in 1 .. maxLength /\ (m - 1) + 1 = m  BY <1>1, <2>3
  <2>. QED  BY <2>3, <2>4, <2>5 DEF Cuts
<1>. QED  BY <1>3, <1>4

(* An excerpt is the text or a beginning of it, and has no tags.           *)
LEMMA ExcerptIs ==
    ASSUME NEW S, NEW html \in Seq(S)
    PROVE  /\ generateExcerpt(html) \in Excerpts(Stripped(html))
           /\ generateExcerpt(html) \in Seq(S \cup {Space, "..."})
           /\ ~ Has(generateExcerpt(html), {Tag})
<1>1. PICK t, e, C : t = Stripped(html) /\ e = generateExcerpt(html) /\ C = S \cup {Space, "..."}  OBVIOUS
<1>2. t \in Seq(C) /\ ~ Has(t, {Tag}) /\ (t # <<>> => t[1] # Space)
  <2>1. t \in Seq(S \cup {Space}) /\ ~ Has(t, {Tag}) /\ (t # <<>> => t[1] # Space)
    BY <1>1, StrippedIs
  <2>2. S \cup {Space} \subseteq C  BY <1>1
  <2>. QED  BY <2>1, <2>2, SeqMonotonic
<1>3. e = IF Len(t) <= maxLength THEN t ELSE Append(SubSeq(t, 1, Boundary(t)), "...")
  BY <1>1 DEF generateExcerpt
<1>4. Excerpts(t) = IF Len(t) <= maxLength THEN {t}
                    ELSE {Append(SubSeq(t, 1, k), "...") : k \in Cuts(t)}
  BY ExcerptsAre
<1>5. CASE Len(t) <= maxLength  BY <1>1, <1>2, <1>3, <1>4, <1>5
<1>6. CASE ~ (Len(t) <= maxLength)
  <2>1. maxLength \in Nat \ {0} /\ Len(t) \in Nat /\ Len(t) > maxLength
    BY <1>2, <1>6, MaxLengthAssumption
  <2>2. PICK b : b = Boundary(t)  OBVIOUS
  <2>3. b \in Cuts(t)  BY <1>2, <2>1, <2>2, BoundaryIsCut
  <2>4. PICK p : p = SubSeq(t, 1, b)  OBVIOUS
  <2>5. e = Append(p, "...") /\ e \in Excerpts(t)  BY <1>3, <1>4, <1>6, <2>2, <2>3, <2>4
  <2>6. b \in 1 .. maxLength  BY <2>3 DEF Cuts
  <2>7. 1 \in DOMAIN t /\ b \in DOMAIN t /\ 1 <= b /\ b - 1 + 1 = b  BY <1>2, <2>1, <2>6
  <2>8. p \in Seq(C) /\ DOMAIN p = 1 .. b - 1 + 1 /\ \A k \in 1 .. b - 1 + 1 : p[k] = t[1 + k - 1]
    <3>1. PICK m : m = 1  OBVIOUS
    <3>2. m \in DOMAIN t /\ b \in DOMAIN t /\ m <= b  BY <2>7, <3>1
    <3>3. /\ SubSeq(t, m, b) \in Seq(C) /\ DOMAIN SubSeq(t, m, b) = 1 .. b - m + 1
          /\ \A k \in 1 .. b - m + 1 : SubSeq(t, m, b)[k] = t[m + k - 1]
      BY <1>2, <3>2, PartTyped
    <3>. QED  BY <2>4, <3>1, <3>3
  <2>9. ~ Has(p, {Tag})
    <3>1. ASSUME NEW k \in DOMAIN p PROVE p[k] # Tag
      <4>1. 1 + k - 1 \in DOMAIN t /\ p[k] = t[1 + k - 1]  BY <1>2, <2>1, <2>6, <2>7, <2>8
      <4>2. PICK i : i = 1 + k - 1  OBVIOUS
      <4>. QED  BY <1>2, <4>1, <4>2 DEF Has
    <3>. QED  BY <3>1 DEF Has
  <2>10. "..." \in C /\ "..." # Tag  BY <1>1 DEF Tag
  <2>11. Append(p, "...") \in Seq(C) /\ ~ Has(Append(p, "..."), {Tag})
    <3>1. Has(Append(p, "..."), {Tag}) <=> Has(p, {Tag}) \/ "..." \in {Tag}
      BY <2>8, <2>10, OneMore
    <3>. QED  BY <2>8, <2>9, <2>10, <3>1
  <2>. QED  BY <1>1, <2>5, <2>11
<1>. QED  BY <1>5, <1>6

(* Whoever does not pay is mailed an excerpt, of any page.                 *)
LEMMA TeaserOfAnyText ==
    ASSUME NEW S, text \in Seq(S)
    PROVE  TeasersStayShort
<1>1. PICK e, x, X : /\ e = generateExcerpt(text) /\ x = escapeHtml(e)
                     /\ X = S \cup {Space, "..."}
  OBVIOUS
<1>2. e \in Excerpts(Stripped(text)) /\ e \in Seq(X) /\ ~ Has(e, {Tag})  BY <1>1, ExcerptIs
<1>3. PICK Y : Y = X \cup EntityChars \cup {Prompt}  OBVIOUS
<1>4. x \in Seq(Y) /\ Prompt \in Y
  <2>1. x \in Seq(X \cup EntityChars)  BY <1>1, <1>2, EscapedAlone
  <2>2. X \cup EntityChars \subseteq Y  BY <1>3
  <2>. QED  BY <1>3, <2>1, <2>2, SeqMonotonic
<1>5. HtmlRead(x) = e  BY <1>1, <1>2, EscapedIsRead
<1>6. ~ Has(x, {Tag})
  <2>1. {Tag} \cap EntityChars = {}
    <3>1. Tag \notin {Amp, Lt, Quot}  BY NamesDiffer
    <3>2. Tag # "&"  BY DEF Tag
    <3>. QED  BY <3>1, <3>2 DEF EntityChars
  <2>2. \A t \in Seq(X) : Has(escapeHtml(t), {Tag}) <=> Has(t, {Tag} \ {"<", Quote})
    BY <2>1, EscapedHas
  <2>3. Has(e, {Tag} \ {"<", Quote}) => Has(e, {Tag})  BY DEF Has
  <2>. QED  BY <1>1, <1>2, <2>2, <2>3
<1>7. PICK b : b = Append(x, Prompt)  OBVIOUS
<1>8. buildTeaserBody(text) = b  BY <1>1, <1>7 DEF buildTeaserBody
<1>9. Front(b) = x /\ Last(b) = Prompt  BY <1>4, <1>7, FrontOfAppend
<1>10. Tag \notin {b[k] : k \in DOMAIN b}
  <2>1. Prompt # Tag  BY Zenon DEF Prompt, Tag
  <2>2. Has(b, {Tag}) <=> Has(x, {Tag}) \/ Prompt \in {Tag}  BY <1>4, <1>7, OneMore
  <2>3. ~ Has(b, {Tag})  BY <1>6, <2>1, <2>2
  <2>. QED  BY <2>3 DEF Has
<1>11. ASSUME NEW visibility \in {"free", "paid"}, NEW type \in {"free", "paid"}
       PROVE  articleEmailHtml(<<"x">>, text, IsTeaser(visibility, type)).body
                = IF visibility = "paid" /\ type = "free" THEN b ELSE text
  BY <1>8 DEF articleEmailHtml, IsTeaser
<1>12. /\ Last(b) = Prompt /\ Tag \notin {b[k] : k \in DOMAIN b}
       /\ HtmlRead(Front(b)) \in Excerpts(Stripped(text))
  BY <1>2, <1>5, <1>9, <1>10
<1>. QED  BY <1>11, <1>12 DEF TeasersStayShort

-----------------------------------------------------------------------------
(* The CSV of the subscribers, and how it is read.                         *)
Special == {Comma, Quote, LineEnd}

CsvAt(rows, row, field, mode) == [rows |-> rows, row |-> row, field |-> field, mode |-> mode]

ReadCsv(s, c) ==
    LET ended(z) == [z EXCEPT !.row = Append(@, z.field), !.field = <<>>, !.mode = "plain"]
        more(z, d) == [z EXCEPT !.field = Append(@, d)]
    IN  CASE s.mode = "quoted" -> IF c = Quote THEN [s EXCEPT !.mode = "closed"] ELSE more(s, c)
          [] s.mode # "quoted" /\ c = Quote ->
                IF s.mode = "closed" THEN [more(s, c) EXCEPT !.mode = "quoted"]
                ELSE IF s.field = <<>> THEN [s EXCEPT !.mode = "quoted"] ELSE more(s, c)
          [] s.mode # "quoted" /\ c = Comma -> ended(s)
          [] s.mode # "quoted" /\ c = LineEnd ->
                [ended(s) EXCEPT !.rows = Append(s.rows, ended(s).row), !.row = <<>>]
          [] OTHER -> more(s, c)

CsvReader(csv) == FoldLeft(ReadCsv, CsvAt(<<>>, <<>>, <<>>, "plain"), csv)

LEMMA CsvIsRead ==
    \A csv : CsvRead(csv) = Append(CsvReader(csv).rows, Append(CsvReader(csv).row, CsvReader(csv).field))
  BY Zenon DEF CsvRead, CsvReader, ReadCsv, CsvAt, Quote, Comma

(* What each character does to the place where the reader stands.          *)
LEMMA CsvParts ==
    \A R, W, F, M, X :
        /\ CsvAt(R, W, F, M).rows = R /\ CsvAt(R, W, F, M).row = W
        /\ CsvAt(R, W, F, M).field = F /\ CsvAt(R, W, F, M).mode = M
        /\ [CsvAt(R, W, F, M) EXCEPT !.mode = X] = CsvAt(R, W, F, X)
        /\ [CsvAt(R, W, F, M) EXCEPT !.field = X] = CsvAt(R, W, X, M)
        /\ [CsvAt(R, W, F, M) EXCEPT !.row = X] = CsvAt(R, X, F, M)
        /\ [CsvAt(R, W, F, M) EXCEPT !.rows = X] = CsvAt(X, W, F, M)
  BY DEF CsvAt

LEMMA CsvStep ==
    ASSUME NEW R, NEW W, NEW F, NEW c
    PROVE  /\ ReadCsv(CsvAt(R, W, F, "quoted"), c) =
                 IF c = Quote THEN CsvAt(R, W, F, "closed") ELSE CsvAt(R, W, Append(F, c), "quoted")
           /\ ReadCsv(CsvAt(R, W, F, "closed"), c) =
                 IF c = Quote THEN CsvAt(R, W, Append(F, c), "quoted")
                 ELSE IF c = Comma THEN CsvAt(R, Append(W, F), <<>>, "plain")
                 ELSE IF c = LineEnd THEN CsvAt(Append(R, Append(W, F)), <<>>, <<>>, "plain")
                 ELSE CsvAt(R, W, Append(F, c), "closed")
           /\ ReadCsv(CsvAt(R, W, F, "plain"), c) =
                 IF c = Quote THEN IF F = <<>> THEN CsvAt(R, W, F, "quoted")
                                   ELSE CsvAt(R, W, Append(F, c), "plain")
                 ELSE IF c = Comma THEN CsvAt(R, Append(W, F), <<>>, "plain")
                 ELSE IF c = LineEnd THEN CsvAt(Append(R, Append(W, F)), <<>>, <<>>, "plain")
                 ELSE CsvAt(R, W, Append(F, c), "plain")
<1>. DEFINE ended(z) == [z EXCEPT !.row = Append(@, z.field), !.field = <<>>, !.mode = "plain"]
            more(z, d) == [z EXCEPT !.field = Append(@, d)]
            endRow(z) == [ended(z) EXCEPT !.rows = Append(z.rows, ended(z).row), !.row = <<>>]
<1>1. ASSUME NEW M, NEW z, z = CsvAt(R, W, F, M)
      PROVE  /\ z.mode = M /\ z.field = F
             /\ ended(z) = CsvAt(R, Append(W, F), <<>>, "plain")
             /\ more(z, c) = CsvAt(R, W, Append(F, c), M)
             /\ \A X : [z EXCEPT !.mode = X] = CsvAt(R, W, F, X)
             /\ [more(z, c) EXCEPT !.mode = "quoted"] = CsvAt(R, W, Append(F, c), "quoted")
             /\ endRow(z) = CsvAt(Append(R, Append(W, F)), <<>>, <<>>, "plain")
  <2>1. z.mode = M /\ z.field = F /\ z.rows = R /\ z.row = W  BY <1>1, CsvParts
  <2>2. ended(z) = CsvAt(R, Append(W, F), <<>>, "plain")
    <3>1. ended(z) = [[[z EXCEPT !.row = Append(W, F)] EXCEPT !.field = <<>>] EXCEPT !.mode = "plain"]
      <4>1. ended(z) = [z EXCEPT !.row = Append(z.row, z.field), !.field = <<>>, !.mode = "plain"]
        BY Zenon
      <4>2. \A x, y, u : [z EXCEPT !.row = x, !.field = y, !.mode = u]
                           = [[[z EXCEPT !.row = x] EXCEPT !.field = y] EXCEPT !.mode = u]
        BY Zenon
      <4>. HIDE DEF ended
      <4>. QED  BY <2>1, <4>1, <4>2, Zenon
    <3>. HIDE DEF ended
    <3>2. [z EXCEPT !.row = Append(W, F)] = CsvAt(R, Append(W, F), F, M)
      <4>1. \A X : [z EXCEPT !.row = X] = CsvAt(R, X, F, M)  BY <1>1, CsvParts
      <4>. QED  BY <4>1, Zenon
    <3>3. [CsvAt(R, Append(W, F), F, M) EXCEPT !.field = <<>>] = CsvAt(R, Append(W, F), <<>>, M)
      BY CsvParts
    <3>4. [CsvAt(R, Append(W, F), <<>>, M) EXCEPT !.mode = "plain"] = CsvAt(R, Append(W, F), <<>>, "plain")
      BY CsvParts
    <3>. QED  BY <3>1, <3>2, <3>3, <3>4, Zenon
  <2>3. more(z, c) = CsvAt(R, W, Append(F, c), M)
    <3>1. more(z, c) = [z EXCEPT !.field = Append(z.field, c)]  BY Zenon
    <3>. HIDE DEF more
    <3>2. \A X : [z EXCEPT !.field = X] = CsvAt(R, W, X, M)  BY <1>1, CsvParts
    <3>. QED  BY <2>1, <3>1, <3>2, Zenon
  <2>4. \A X : [z EXCEPT !.mode = X] = CsvAt(R, W, F, X)  BY <1>1, CsvParts
  <2>5. [more(z, c) EXCEPT !.mode = "quoted"] = CsvAt(R, W, Append(F, c), "quoted")
    <3>. HIDE DEF more
    <3>1. [CsvAt(R, W, Append(F, c), M) EXCEPT !.mode = "quoted"] = CsvAt(R, W, Append(F, c), "quoted")
      BY CsvParts
    <3>. QED  BY <2>3, <3>1, Zenon
  <2>6. endRow(z) = CsvAt(Append(R, Append(W, F)), <<>>, <<>>, "plain")
    <3>1. PICK y, a, b : y = ended(z) /\ a = Append(W, F) /\ b = Append(R, a)  OBVIOUS
    <3>2. y = CsvAt(R, a, <<>>, "plain")  BY <2>2, <3>1, Zenon
    <3>3. y.row = a  BY <3>2, CsvParts
    <3>4. [y EXCEPT !.rows = b, !.row = <<>>] = [[y EXCEPT !.rows = b] EXCEPT !.row = <<>>]  BY Zenon
    <3>5. [y EXCEPT !.rows = b] = CsvAt(b, a, <<>>, "plain")  BY <3>2, CsvParts
    <3>6. [CsvAt(b, a, <<>>, "plain") EXCEPT !.row = <<>>] = CsvAt(b, <<>>, <<>>, "plain")  BY CsvParts
    <3>7. endRow(z) = [y EXCEPT !.rows = Append(z.rows, y.row), !.row = <<>>]  BY <3>1, Zenon
    <3>. HIDE DEF endRow, ended
    <3>8. endRow(z) = [y EXCEPT !.rows = b, !.row = <<>>]  BY <2>1, <3>1, <3>3, <3>7, Zenon
    <3>. QED  BY <3>1, <3>4, <3>5, <3>6, <3>8, Zenon
  <2>. QED  BY <2>1, <2>2, <2>3, <2>4, <2>5, <2>6, Zenon
<1>2. ASSUME NEW z
      PROVE  ReadCsv(z, c) =
        CASE z.mode = "quoted" -> IF c = Quote THEN [z EXCEPT !.mode = "closed"] ELSE more(z, c)
          [] z.mode # "quoted" /\ c = Quote ->
                IF z.mode = "closed" THEN [more(z, c) EXCEPT !.mode = "quoted"]
                ELSE IF z.field = <<>> THEN [z EXCEPT !.mode = "quoted"] ELSE more(z, c)
          [] z.mode # "quoted" /\ c = Comma -> ended(z)
          [] z.mode # "quoted" /\ c = LineEnd -> endRow(z)
          [] OTHER -> more(z, c)
  BY Zenon DEF ReadCsv
<1>3. Quote # Comma /\ Quote # LineEnd /\ Comma # LineEnd  BY NamesDiffer
<1>. HIDE DEF ended, more, endRow
<1>a. ASSUME NEW z
      PROVE  /\ z.mode = "quoted" =>
                   ReadCsv(z, c) = IF c = Quote THEN [z EXCEPT !.mode = "closed"] ELSE more(z, c)
             /\ z.mode # "quoted" /\ c = Quote =>
                   ReadCsv(z, c) = IF z.mode = "closed" THEN [more(z, c) EXCEPT !.mode = "quoted"]
                                   ELSE IF z.field = <<>> THEN [z EXCEPT !.mode = "quoted"] ELSE more(z, c)
             /\ z.mode # "quoted" /\ c = Comma => ReadCsv(z, c) = ended(z)
             /\ z.mode # "quoted" /\ c = LineEnd => ReadCsv(z, c) = endRow(z)
             /\ z.mode # "quoted" /\ c \notin Special => ReadCsv(z, c) = more(z, c)
  <2>1. PICK x, y, u, v, w, l, m, f :
           /\ x = [z EXCEPT !.mode = "closed"] /\ y = more(z, c) /\ u = [more(z, c) EXCEPT !.mode = "quoted"]
           /\ v = [z EXCEPT !.mode = "quoted"] /\ w = ended(z) /\ l = endRow(z)
           /\ m = z.mode /\ f = z.field
    OBVIOUS
  <2>2. ReadCsv(z, c) =
          CASE m = "quoted" -> IF c = Quote THEN x ELSE y
            [] m # "quoted" /\ c = Quote ->
                  IF m = "closed" THEN u ELSE IF f = <<>> THEN v ELSE y
            [] m # "quoted" /\ c = Comma -> w
            [] m # "quoted" /\ c = LineEnd -> l
            [] OTHER -> y
    BY <1>2, <2>1, Zenon
  <2>3. /\ m = "quoted" => ReadCsv(z, c) = IF c = Quote THEN x ELSE y
        /\ m # "quoted" /\ c = Quote =>
              ReadCsv(z, c) = IF m = "closed" THEN u ELSE IF f = <<>> THEN v ELSE y
        /\ m # "quoted" /\ c = Comma => ReadCsv(z, c) = w
        /\ m # "quoted" /\ c = LineEnd => ReadCsv(z, c) = l
        /\ m # "quoted" /\ c \notin Special => ReadCsv(z, c) = y
    BY <1>3, <2>2 DEF Special
  <2>. QED  BY <2>1, <2>3, Zenon
<1>4. PICK q, p, k : /\ q = CsvAt(R, W, F, "quoted") /\ p = CsvAt(R, W, F, "plain")
                     /\ k = CsvAt(R, W, F, "closed")
  OBVIOUS
<1>5. ReadCsv(q, c) = IF c = Quote THEN CsvAt(R, W, F, "closed") ELSE CsvAt(R, W, Append(F, c), "quoted")
  <2>1. /\ q.mode = "quoted" /\ [q EXCEPT !.mode = "closed"] = CsvAt(R, W, F, "closed")
        /\ more(q, c) = CsvAt(R, W, Append(F, c), "quoted")
    BY <1>1, <1>4
  <2>2. ReadCsv(q, c) = IF c = Quote THEN [q EXCEPT !.mode = "closed"] ELSE more(q, c)
    BY <1>a, <2>1, Zenon
  <2>. QED  BY <2>1, <2>2, Zenon
<1>6. ASSUME NEW M \in {"plain", "closed"}, NEW z, z = CsvAt(R, W, F, M)
      PROVE  /\ c = Comma => ReadCsv(z, c) = CsvAt(R, Append(W, F), <<>>, "plain")
             /\ c = LineEnd => ReadCsv(z, c) = CsvAt(Append(R, Append(W, F)), <<>>, <<>>, "plain")
             /\ c \notin Special => ReadCsv(z, c) = CsvAt(R, W, Append(F, c), M)
             /\ c = Quote /\ M = "closed" => ReadCsv(z, c) = CsvAt(R, W, Append(F, c), "quoted")
             /\ c = Quote /\ M = "plain" => ReadCsv(z, c) = IF F = <<>> THEN CsvAt(R, W, F, "quoted")
                                                            ELSE CsvAt(R, W, Append(F, c), "plain")
  <2>0. M # "quoted"  BY <1>6
  <2>1. /\ z.mode = M /\ z.field = F
        /\ ended(z) = CsvAt(R, Append(W, F), <<>>, "plain")
        /\ more(z, c) = CsvAt(R, W, Append(F, c), M)
        /\ [z EXCEPT !.mode = "quoted"] = CsvAt(R, W, F, "quoted")
        /\ [more(z, c) EXCEPT !.mode = "quoted"] = CsvAt(R, W, Append(F, c), "quoted")
        /\ endRow(z) = CsvAt(Append(R, Append(W, F)), <<>>, <<>>, "plain")
    BY <1>1, <1>6
  <2>2. /\ c = Comma => ReadCsv(z, c) = ended(z)
        /\ c = LineEnd => ReadCsv(z, c) = endRow(z)
        /\ c \notin Special => ReadCsv(z, c) = more(z, c)
        /\ c = Quote => ReadCsv(z, c) = IF M = "closed" THEN [more(z, c) EXCEPT !.mode = "quoted"]
                                        ELSE IF F = <<>> THEN [z EXCEPT !.mode = "quoted"] ELSE more(z, c)
    BY <1>a, <2>0, <2>1, Zenon
  <2>3. "plain" # "closed"  OBVIOUS
  <2>. QED  BY <2>1, <2>2, <2>3, Zenon
<1>7. /\ ReadCsv(k, c) = IF c = Quote THEN CsvAt(R, W, Append(F, c), "quoted")
                         ELSE IF c = Comma THEN CsvAt(R, Append(W, F), <<>>, "plain")
                         ELSE IF c = LineEnd THEN CsvAt(Append(R, Append(W, F)), <<>>, <<>>, "plain")
                         ELSE CsvAt(R, W, Append(F, c), "closed")
      /\ ReadCsv(p, c) = IF c = Quote THEN IF F = <<>> THEN CsvAt(R, W, F, "quoted")
                                           ELSE CsvAt(R, W, Append(F, c), "plain")
                         ELSE IF c = Comma THEN CsvAt(R, Append(W, F), <<>>, "plain")
                         ELSE IF c = LineEnd THEN CsvAt(Append(R, Append(W, F)), <<>>, <<>>, "plain")
                         ELSE CsvAt(R, W, Append(F, c), "plain")
  BY <1>3, <1>4, <1>6 DEF Special
<1>. QED  BY <1>4, <1>5, <1>7, Zenon

CsvPlaces(C) ==
    [rows : Seq(Seq(Seq(C))), row : Seq(Seq(C)), field : Seq(C), mode : {"plain", "quoted", "closed"}]

LEMMA CsvTyped ==
    ASSUME NEW C, NEW s \in CsvPlaces(C), NEW c \in C
    PROVE  ReadCsv(s, c) \in CsvPlaces(C)
<1>1. PICK R, W, F, M : R = s.rows /\ W = s.row /\ F = s.field /\ M = s.mode  OBVIOUS
<1>2. /\ R \in Seq(Seq(Seq(C))) /\ W \in Seq(Seq(C)) /\ F \in Seq(C)
      /\ M \in {"plain", "quoted", "closed"} /\ s = CsvAt(R, W, F, M)
  BY <1>1 DEF CsvPlaces, CsvAt
<1>3. \A r \in Seq(Seq(Seq(C))), w \in Seq(Seq(C)), f \in Seq(C), m \in {"plain", "quoted", "closed"} :
         CsvAt(r, w, f, m) \in CsvPlaces(C)
  BY DEF CsvPlaces, CsvAt
<1>4. Append(F, c) \in Seq(C) /\ <<>> \in Seq(C)  BY <1>2
<1>5. Append(W, F) \in Seq(Seq(C)) /\ <<>> \in Seq(Seq(C))  BY <1>2
<1>6. Append(R, Append(W, F)) \in Seq(Seq(Seq(C)))
  <2>. PICK B : B = Seq(Seq(C))  OBVIOUS
  <2>. QED  BY <1>2, <1>5
<1>7. CASE M = "quoted"
  <2>1. ReadCsv(s, c) \in {CsvAt(R, W, F, "closed"), CsvAt(R, W, Append(F, c), "quoted")}
    BY <1>2, <1>7, CsvStep
  <2>. QED  BY <1>2, <1>3, <1>4, <2>1
<1>8. CASE M # "quoted"
  <2>1. ReadCsv(s, c) \in {CsvAt(R, W, F, "quoted"), CsvAt(R, W, Append(F, c), "quoted"),
                           CsvAt(R, W, Append(F, c), "plain"), CsvAt(R, W, Append(F, c), "closed"),
                           CsvAt(R, Append(W, F), <<>>, "plain"),
                           CsvAt(Append(R, Append(W, F)), <<>>, <<>>, "plain")}
    <3>1. CASE M = "plain"  BY <1>2, <3>1, CsvStep
    <3>2. CASE M = "closed"  BY <1>2, <3>2, CsvStep
    <3>. QED  BY <1>2, <1>8, <3>1, <3>2
  <2>. QED  BY <1>2, <1>3, <1>4, <1>5, <1>6, <2>1
<1>. QED  BY <1>7, <1>8

(* A CSV is read character by character.                                   *)
LEMMA CsvReaderStep ==
    ASSUME NEW C
    PROVE  /\ CsvReader(<<>>) = CsvAt(<<>>, <<>>, <<>>, "plain")
           /\ \A t \in Seq(C) : CsvReader(t) \in CsvPlaces(C)
           /\ \A t \in Seq(C), c \in C : CsvReader(Append(t, c)) = ReadCsv(CsvReader(t), c)
<1>. DEFINE A == CsvPlaces(C)
            f == [p \in A \X C |-> ReadCsv(p[1], p[2])]
<1>1. CsvAt(<<>>, <<>>, <<>>, "plain") \in A /\ f \in [A \X C -> A]
  <2>1. \A s \in A, c \in C : ReadCsv(s, c) \in A  BY CsvTyped
  <2>2. CsvAt(<<>>, <<>>, <<>>, "plain") \in A  BY DEF CsvPlaces, CsvAt
  <2>. HIDE DEF A
  <2>. QED  BY <2>1, <2>2
<1>2. ASSUME NEW t \in Seq(C) PROVE CsvReader(t) = Folded(f, CsvAt(<<>>, <<>>, <<>>, "plain"), t)
  <2>. DEFINE Way(h) == h = [s \in SUBSET DOMAIN t |->
                IF s = {} THEN CsvAt(<<>>, <<>>, <<>>, "plain") ELSE ReadCsv(h[s \ {Max(s)}], t[Max(s)])]
  <2>1. CsvReader(t) = (CHOOSE h : Way(h))[DOMAIN t]
    BY DEF CsvReader, FoldLeft, MapThenFoldSet
  <2>. HIDE DEF A
  <2>2. PICK h : FoldsTo(h, f, CsvAt(<<>>, <<>>, <<>>, "plain"), t, A)
    <3>. HIDE DEF f
    <3>. QED  BY <1>1, FoldedBy
  <2>3. Way(h)
    <3>1. ASSUME NEW s \in SUBSET DOMAIN t, s # {}
          PROVE  f[<<h[s \ {Max(s)}], t[Max(s)]>>] = ReadCsv(h[s \ {Max(s)}], t[Max(s)])
      <4>1. s \ {Max(s)} \in SUBSET DOMAIN t /\ t[Max(s)] \in C  BY <3>1, PartOfText
      <4>2. h[s \ {Max(s)}] \in A  BY <2>2, <4>1 DEF FoldsTo
      <4>. QED  BY <4>1, <4>2
    <3>2. h = [s \in SUBSET DOMAIN t |->
                  IF s = {} THEN CsvAt(<<>>, <<>>, <<>>, "plain") ELSE f[<<h[s \ {Max(s)}], t[Max(s)]>>]]
      BY <2>2 DEF FoldsTo, Folding
    <3>. HIDE DEF f
    <3>. QED  BY <3>1, <3>2
  <2>4. PICK g : g = CHOOSE i : Way(i)  OBVIOUS
  <2>5. Way(g)  BY <2>3, <2>4
  <2>6. Alike(g, h, t)  BY <2>3, <2>5 DEF Alike
  <2>7. g[DOMAIN t] = h[DOMAIN t]  BY <2>6, AlikeToTheEnd
  <2>. HIDE DEF f
  <2>. QED  BY <2>1, <2>2, <2>4, <2>7 DEF FoldsTo
<1>3. <<>> \in Seq(C)  OBVIOUS
<1>4. \A a \in A, c \in C : f[<<a, c>>] = ReadCsv(a, c)
  <2>. HIDE DEF A
  <2>. QED  OBVIOUS
<1>. HIDE DEF A, f
<1>5. /\ Folded(f, CsvAt(<<>>, <<>>, <<>>, "plain"), <<>>) = CsvAt(<<>>, <<>>, <<>>, "plain")
      /\ \A t \in Seq(C) : Folded(f, CsvAt(<<>>, <<>>, <<>>, "plain"), t) \in A
      /\ \A t \in Seq(C), c \in C :
            Folded(f, CsvAt(<<>>, <<>>, <<>>, "plain"), Append(t, c))
                = f[<<Folded(f, CsvAt(<<>>, <<>>, <<>>, "plain"), t), c>>]
  <2>1. Stepwise(f, CsvAt(<<>>, <<>>, <<>>, "plain"), C, A)  BY <1>1, FoldedStep
  <2>. QED  BY <2>1 DEF Stepwise
<1>6. CsvReader(<<>>) = CsvAt(<<>>, <<>>, <<>>, "plain")  BY <1>2, <1>3, <1>5
<1>7. ASSUME NEW t \in Seq(C) PROVE CsvReader(t) \in CsvPlaces(C)
  BY <1>2, <1>5 DEF A
<1>8. ASSUME NEW t \in Seq(C), NEW c \in C
      PROVE  CsvReader(Append(t, c)) = ReadCsv(CsvReader(t), c)
  <2>1. Append(t, c) \in Seq(C)  OBVIOUS
  <2>2. CsvReader(t) = Folded(f, CsvAt(<<>>, <<>>, <<>>, "plain"), t) /\ CsvReader(t) \in A  BY <1>2, <1>5
  <2>3. f[<<CsvReader(t), c>>] = ReadCsv(CsvReader(t), c)  BY <1>4, <2>2
  <2>. QED  BY <1>2, <1>5, <2>1, <2>2, <2>3
<1>. QED  BY <1>6, <1>7, <1>8

(* What is written is read.                                                *)
Doubled(v) == Replaced(v, Quote, <<Quote, Quote>>)

(* A field is quoted if it has a special character; a quote in it is       *)
(* doubled.                                                                *)
LEMMA FieldIs ==
    \A v : escapeCsvField(v) = IF Has(v, Special) THEN <<Quote>> \o Doubled(v) \o <<Quote>> ELSE v
<1>1. \A v : Quoted(v) <=> {Comma, Quote, LineEnd} \cap {v[k] : k \in DOMAIN v} # {}
  BY Zenon DEF Quoted, Comma, Quote
<1>2. \A v : Quoted(v) <=> Has(v, Special)  BY <1>1 DEF Has, Special
<1>3. \A v : escapeCsvField(v) = IF Quoted(v) THEN <<Quote>> \o Doubled(v) \o <<Quote>> ELSE v
  BY Zenon DEF escapeCsvField, Doubled, Quote
<1>. QED  BY <1>2, <1>3, Zenon

LEMMA DoubledStep ==
    ASSUME NEW C, Special \subseteq C
    PROVE  /\ Doubled(<<>>) = <<>>
           /\ \A t \in Seq(C) : Doubled(t) \in Seq(C)
           /\ \A t \in Seq(C), c \in C :
                 Doubled(Append(t, c)) = IF c = Quote THEN Append(Append(Doubled(t), c), c)
                                         ELSE Append(Doubled(t), c)
<1>. DEFINE w == [d \in C |-> IF d = Quote THEN <<Quote, Quote>> ELSE <<d>>]
<1>1. Quote \in C  BY DEF Special
<1>2. \A p, q \in C : <<p>> \in Seq(C) /\ <<p, q>> \in Seq(C)  OBVIOUS
<1>3. w \in [C -> Seq(C)] /\ Replaces(w, C, Quote, <<Quote, Quote>>)  BY <1>1, <1>2 DEF Replaces
<1>4. \A c \in C : w[c] = IF c = Quote THEN <<Quote, Quote>> ELSE <<c>>  OBVIOUS
<1>. HIDE DEF w
<1>5. \A t \in Seq(C) : Doubled(t) = Spelled(t, w)
  <2>. TAKE t \in Seq(C)
  <2>. QED  BY <1>3, ReplacedSpells DEF Doubled
<1>6. Spelled(<<>>, w) = <<>> /\ \A t \in Seq(C) : Spelled(t, w) \in Seq(C)  BY <1>3, SpelledStep
<1>7. \A t \in Seq(C), c \in C : Spelled(Append(t, c), w) = Spelled(t, w) \o w[c]  BY <1>3, SpelledStep
<1>8. Doubled(<<>>) = <<>>
  <2>1. <<>> \in Seq(C)  OBVIOUS
  <2>. QED  BY <1>5, <1>6, <2>1
<1>9. ASSUME NEW t \in Seq(C), NEW c \in C
      PROVE  Doubled(Append(t, c)) = IF c = Quote THEN Append(Append(Doubled(t), c), c)
                                     ELSE Append(Doubled(t), c)
  <2>1. PICK d : d = Doubled(t)  OBVIOUS
  <2>2. d \in Seq(C) /\ Append(t, c) \in Seq(C)  BY <1>5, <1>6, <2>1
  <2>3. Doubled(Append(t, c)) = d \o w[c]  BY <1>5, <1>7, <2>1, <2>2
  <2>4. CASE c = Quote
    <3>1. w[c] = <<c, c>>  BY <1>4, <2>4
    <3>2. PICK e : e = <<c>>  OBVIOUS
    <3>3. e \in Seq(C) /\ Append(d, c) \in Seq(C)  BY <2>2, <3>2
    <3>4. <<c, c>> = e \o e  BY <3>2, TwoInARow
    <3>5. d \o (e \o e) = (d \o e) \o e  BY <2>2, <3>3, ConcatAssociative
    <3>6. d \o e = Append(d, c)  BY <2>2, <3>2, AppendIsConcat
    <3>7. Append(d, c) \o e = Append(Append(d, c), c)  BY <3>2, <3>3, AppendIsConcat
    <3>. QED  BY <2>1, <2>3, <2>4, <3>1, <3>4, <3>5, <3>6, <3>7
  <2>5. CASE c # Quote
    <3>1. w[c] = <<c>>  BY <1>4, <2>5
    <3>2. d \o <<c>> = Append(d, c)  BY <2>2, AppendIsConcat
    <3>. QED  BY <2>1, <2>3, <2>5, <3>1, <3>2
  <2>. QED  BY <2>4, <2>5
<1>10. \A t \in Seq(C) : Doubled(t) \in Seq(C)  BY <1>5, <1>6
<1>. QED  BY <1>8, <1>9, <1>10

\* Where the reader stands behind a text: in a row, at the end of a field.
FieldAt(u, R, W, v) ==
    CsvReader(u) = CsvAt(R, W, v, "plain") \/ CsvReader(u) = CsvAt(R, W, v, "closed")

QuotedIsRead(u, R, W, C) ==
    \A v \in Seq(C) : CsvReader(u \o Doubled(v)) = CsvAt(R, W, v, "quoted")

UnquotedIsRead(u, R, W, C) ==
    \A v \in Seq(C \ Special) : CsvReader(u \o v) = CsvAt(R, W, v, "plain")

FieldIsRead(u, R, W, v, C) ==
    escapeCsvField(v) \in Seq(C) /\ FieldAt(u \o escapeCsvField(v), R, W, v)

EndIsRead(u, R, W, v) ==
    /\ CsvReader(Append(u, Comma)) = CsvAt(R, Append(W, v), <<>>, "plain")
    /\ CsvReader(Append(u, LineEnd)) = CsvAt(Append(R, Append(W, v)), <<>>, <<>>, "plain")

(* Behind a quote, every character up to the next one that is not doubled  *)
(* is the field's.                                                         *)
LEMMA ReadQuoted ==
    ASSUME NEW C, Special \subseteq C, NEW u \in Seq(C), NEW R, NEW W,
           CsvReader(u) = CsvAt(R, W, <<>>, "quoted")
    PROVE  QuotedIsRead(u, R, W, C)
<1>. DEFINE P == {v \in Seq(C) : CsvReader(u \o Doubled(v)) = CsvAt(R, W, v, "quoted")}
<1>1. \A t \in Seq(C), c \in C : CsvReader(Append(t, c)) = ReadCsv(CsvReader(t), c)  BY CsvReaderStep
<1>2. <<>> \in P
  <2>1. <<>> \in Seq(C)  OBVIOUS
  <2>2. Doubled(<<>>) = <<>>  BY DoubledStep
  <2>3. u \o <<>> = u  BY ConcatEmptySeq
  <2>. QED  BY <2>1, <2>2, <2>3
<1>3. ASSUME NEW v \in Seq(C), NEW c \in C, v \in P PROVE Append(v, c) \in P
  <2>1. PICK d, x : d = Doubled(v) /\ x = u \o d  OBVIOUS
  <2>2. d \in Seq(C)  BY <2>1, DoubledStep
  <2>3. x \in Seq(C) /\ CsvReader(x) = CsvAt(R, W, v, "quoted")  BY <1>3, <2>1, <2>2
  <2>4. Append(v, c) \in Seq(C)  OBVIOUS
  <2>5. CASE c = Quote
    <3>1. Doubled(Append(v, c)) = Append(Append(d, c), c)  BY <2>1, <2>5, DoubledStep
    <3>2. u \o Append(Append(d, c), c) = Append(Append(x, c), c) /\ Append(x, c) \in Seq(C)
      <4>1. \A t \in Seq(C) : Append(t, c) \in Seq(C) /\ u \o Append(t, c) = Append(u \o t, c)  OBVIOUS
      <4>. QED  BY <2>1, <2>2, <2>3, <4>1
    <3>3. CsvReader(Append(x, c)) = CsvAt(R, W, v, "closed")
      <4>1. ReadCsv(CsvAt(R, W, v, "quoted"), c) = CsvAt(R, W, v, "closed")  BY <2>5, CsvStep
      <4>. QED  BY <1>1, <2>3, <4>1
    <3>4. CsvReader(Append(Append(x, c), c)) = CsvAt(R, W, Append(v, c), "quoted")
      <4>1. ReadCsv(CsvAt(R, W, v, "closed"), c) = CsvAt(R, W, Append(v, c), "quoted")
        BY <2>5, CsvStep
      <4>. QED  BY <1>1, <3>2, <3>3, <4>1
    <3>. QED  BY <2>4, <3>1, <3>2, <3>4
  <2>6. CASE c # Quote
    <3>1. Doubled(Append(v, c)) = Append(d, c)  BY <2>1, <2>6, DoubledStep
    <3>2. u \o Append(d, c) = Append(x, c)  BY <2>1, <2>2
    <3>3. CsvReader(Append(x, c)) = CsvAt(R, W, Append(v, c), "quoted")
      <4>1. ReadCsv(CsvAt(R, W, v, "quoted"), c) = CsvAt(R, W, Append(v, c), "quoted")
        BY <2>6, CsvStep
      <4>. QED  BY <1>1, <2>3, <4>1
    <3>. QED  BY <2>4, <3>1, <3>2, <3>3
  <2>. QED  BY <2>5, <2>6
<1>4. \A v \in Seq(C) : v \in P
  <2>. HIDE DEF P
  <2>. QED  BY <1>2, <1>3, TextInduction
<1>. QED  BY <1>4 DEF QuotedIsRead

(* Without special characters a field is read as it is.                    *)
LEMMA ReadUnquoted ==
    ASSUME NEW C, NEW u \in Seq(C), NEW R, NEW W,
           CsvReader(u) = CsvAt(R, W, <<>>, "plain")
    PROVE  UnquotedIsRead(u, R, W, C)
<1>. DEFINE D == C \ Special
            P == {v \in Seq(D) : CsvReader(u \o v) = CsvAt(R, W, v, "plain")}
<1>1. \A t \in Seq(C), c \in C : CsvReader(Append(t, c)) = ReadCsv(CsvReader(t), c)  BY CsvReaderStep
<1>2. \A c \in D : c \in C /\ c \notin Special  OBVIOUS
<1>3. \A v \in Seq(D) : v \in Seq(C)
  <2>1. D \subseteq C  OBVIOUS
  <2>. HIDE DEF D
  <2>. QED  BY <2>1, SeqMonotonic
<1>. HIDE DEF D
<1>4. <<>> \in P
  <2>1. <<>> \in Seq(D)  OBVIOUS
  <2>2. u \o <<>> = u  BY ConcatEmptySeq
  <2>. QED  BY <2>1, <2>2
<1>5. ASSUME NEW v \in Seq(D), NEW c \in D, v \in P PROVE Append(v, c) \in P
  <2>1. v \in Seq(C) /\ c \in C /\ c \notin Special  BY <1>2, <1>3
  <2>2. PICK x : x = u \o v  OBVIOUS
  <2>3. x \in Seq(C) /\ CsvReader(x) = CsvAt(R, W, v, "plain") /\ u \o Append(v, c) = Append(x, c)
    BY <1>5, <2>1, <2>2
  <2>4. c # Quote /\ c # Comma /\ c # LineEnd  BY <2>1 DEF Special
  <2>5. ReadCsv(CsvAt(R, W, v, "plain"), c) = CsvAt(R, W, Append(v, c), "plain")
    BY <2>4, CsvStep
  <2>6. CsvReader(Append(x, c)) = CsvAt(R, W, Append(v, c), "plain")  BY <1>1, <2>1, <2>3, <2>5
  <2>7. Append(v, c) \in Seq(D)  OBVIOUS
  <2>. QED  BY <2>3, <2>6, <2>7
<1>6. \A v \in Seq(D) : v \in P
  <2>. HIDE DEF P
  <2>. QED  BY <1>4, <1>5, TextInduction
<1>. QED  BY <1>6 DEF D, UnquotedIsRead

(* A field, between quotes or not.                                         *)
LEMMA ReadField ==
    ASSUME NEW C, Special \subseteq C, NEW u \in Seq(C), NEW R, NEW W,
           CsvReader(u) = CsvAt(R, W, <<>>, "plain"), NEW v \in Seq(C)
    PROVE  FieldIsRead(u, R, W, v, C)
<1>1. \A t \in Seq(C), c \in C : CsvReader(Append(t, c)) = ReadCsv(CsvReader(t), c)  BY CsvReaderStep
<1>2. CASE ~ Has(v, Special)
  <2>1. escapeCsvField(v) = v  BY <1>2, FieldIs
  <2>2. v \in Seq(C \ Special)
    <3>1. \A k \in 1 .. Len(v) : v[k] \in C \ Special  BY <1>2 DEF Has
    <3>2. v \in [1 .. Len(v) -> C] /\ Len(v) \in Nat  OBVIOUS
    <3>3. v \in [1 .. Len(v) -> C \ Special]  BY <3>1, <3>2
    <3>4. v \in UNION {[1 .. n -> C \ Special] : n \in Nat}  BY <3>2, <3>3
    <3>. QED  BY <3>4, SeqDef
  <2>3. CsvReader(u \o v) = CsvAt(R, W, v, "plain")
    <3>1. UnquotedIsRead(u, R, W, C)  BY ReadUnquoted
    <3>. QED  BY <2>2, <3>1 DEF UnquotedIsRead
  <2>. QED  BY <2>1, <2>3 DEF FieldIsRead, FieldAt
<1>3. CASE Has(v, Special)
  <2>1. PICK d, e : d = Doubled(v) /\ e = <<Quote>>  OBVIOUS
  <2>2. escapeCsvField(v) = (e \o d) \o e  BY <1>3, <2>1, FieldIs
  <2>3. Quote \in C  BY DEF Special
  <2>4. d \in Seq(C)  BY <2>1, DoubledStep
  <2>5. e \in Seq(C) /\ e \o d \in Seq(C)  BY <2>1, <2>3, <2>4
  <2>6. PICK x, y : x = Append(u, Quote) /\ y = x \o d  OBVIOUS
  <2>7. x \in Seq(C) /\ y \in Seq(C)  BY <2>3, <2>4, <2>6
  <2>8. CsvReader(x) = CsvAt(R, W, <<>>, "quoted")
    <3>1. ReadCsv(CsvAt(R, W, <<>>, "plain"), Quote) = CsvAt(R, W, <<>>, "quoted")  BY CsvStep
    <3>. QED  BY <1>1, <2>3, <2>6, <3>1
  <2>9. CsvReader(y) = CsvAt(R, W, v, "quoted")
    <3>1. QuotedIsRead(x, R, W, C)  BY <2>7, <2>8, ReadQuoted
    <3>. QED  BY <2>1, <2>6, <3>1 DEF QuotedIsRead
  <2>10. CsvReader(Append(y, Quote)) = CsvAt(R, W, v, "closed")
    <3>1. ReadCsv(CsvAt(R, W, v, "quoted"), Quote) = CsvAt(R, W, v, "closed")  BY CsvStep
    <3>. QED  BY <1>1, <2>3, <2>7, <2>9, <3>1
  <2>11. u \o ((e \o d) \o e) = Append(y, Quote)
    <3>1. u \o ((e \o d) \o e) = (u \o (e \o d)) \o e  BY <2>5, ConcatAssociative
    <3>2. (u \o e) \o d = u \o (e \o d)  BY <2>4, <2>5, ConcatAssociative
    <3>3. u \o e = x  BY <2>1, <2>3, <2>6, AppendIsConcat
    <3>4. y \o e = Append(y, Quote)  BY <2>1, <2>3, <2>7, AppendIsConcat
    <3>. QED  BY <2>6, <3>1, <3>2, <3>3, <3>4
  <2>12. (e \o d) \o e \in Seq(C)  BY <2>5
  <2>. QED  BY <2>2, <2>10, <2>11, <2>12 DEF FieldIsRead, FieldAt
<1>. QED  BY <1>2, <1>3

(* A comma ends a field, and a line end a row.                             *)
LEMMA ReadEnds ==
    ASSUME NEW C, Special \subseteq C, NEW u \in Seq(C), NEW R, NEW W, NEW v,
           FieldAt(u, R, W, v)
    PROVE  EndIsRead(u, R, W, v)
<1>1. \A c \in C : CsvReader(Append(u, c)) = ReadCsv(CsvReader(u), c)  BY CsvReaderStep
<1>2. Comma \in C /\ LineEnd \in C  BY DEF Special
<1>3. Comma # Quote /\ LineEnd # Quote /\ Comma # LineEnd  BY NamesDiffer
<1>4. ASSUME NEW M \in {"plain", "closed"}
      PROVE  /\ ReadCsv(CsvAt(R, W, v, M), Comma) = CsvAt(R, Append(W, v), <<>>, "plain")
             /\ ReadCsv(CsvAt(R, W, v, M), LineEnd) = CsvAt(Append(R, Append(W, v)), <<>>, <<>>, "plain")
  <2>1. CASE M = "plain"  BY <1>3, <2>1, CsvStep
  <2>2. CASE M = "closed"  BY <1>3, <2>2, CsvStep
  <2>. QED  BY <2>1, <2>2
<1>. QED  BY <1>1, <1>2, <1>4 DEF FieldAt, EndIsRead

-----------------------------------------------------------------------------
(* Rows.                                                                   *)
Row(e, t, a) == escapeCsvField(e) \o <<Comma>> \o escapeCsvField(t) \o <<Comma>> \o a

Behind(u, p, q, r, s, C) ==
    /\ p \o <<q>> \o r \o <<q>> \o s \in Seq(C)
    /\ u \o (p \o <<q>> \o r \o <<q>> \o s) = Append(Append(u \o p, q) \o r, q) \o s

LEMMA AllBehind ==
    ASSUME NEW C, NEW u \in Seq(C), NEW p \in Seq(C), NEW q \in C, NEW r \in Seq(C), NEW s \in Seq(C)
    PROVE  Behind(u, p, q, r, s, C)
<1>1. PICK e : e = <<q>>  OBVIOUS
<1>2. e \in Seq(C)  BY <1>1
<1>3. PICK p2, p3, p4 \in Seq(C) : p2 = p \o e /\ p3 = p2 \o r /\ p4 = p3 \o e
  <2>1. PICK a, b, c : a = p \o e /\ b = a \o r /\ c = b \o e  OBVIOUS
  <2>2. a \in Seq(C) /\ b \in Seq(C) /\ c \in Seq(C)  BY <1>2, <2>1
  <2>. QED  BY <2>1, <2>2
<1>5. PICK u1, u2, u3, u4 : u1 = u \o p /\ u2 = Append(u1, q) /\ u3 = u2 \o r /\ u4 = Append(u3, q)
  OBVIOUS
<1>6. u1 \in Seq(C) /\ u2 \in Seq(C) /\ u3 \in Seq(C) /\ u4 \in Seq(C)  BY <1>5
<1>7. \A t \in Seq(C) : Append(t, q) = t \o e
  <2>. TAKE t \in Seq(C)
  <2>. QED  BY <1>1, AppendIsConcat
<1>9. u \o p2 = u2
  <2>1. (u \o p) \o e = u \o (p \o e)
    <3>1. Associates(u, p, e, C)  BY <1>2, Associative
    <3>. QED  BY <3>1 DEF Associates
  <2>2. Append(u1, q) = u1 \o e  BY <1>6, <1>7
  <2>. QED  BY <1>3, <1>5, <2>1, <2>2
<1>10. u \o p3 = u3
  <2>1. (u \o p2) \o r = u \o (p2 \o r)
    <3>1. Associates(u, p2, r, C)  BY <1>3, Associative
    <3>. QED  BY <3>1 DEF Associates
  <2>. QED  BY <1>3, <1>5, <1>9, <2>1
<1>11. u \o p4 = u4
  <2>1. (u \o p3) \o e = u \o (p3 \o e)
    <3>1. Associates(u, p3, e, C)  BY <1>2, <1>3, Associative
    <3>. QED  BY <3>1 DEF Associates
  <2>2. Append(u3, q) = u3 \o e  BY <1>6, <1>7
  <2>. QED  BY <1>3, <1>5, <1>10, <2>1, <2>2
<1>12. u \o (p4 \o s) = u4 \o s
  <2>1. (u \o p4) \o s = u \o (p4 \o s)
    <3>1. Associates(u, p4, s, C)  BY <1>3, Associative
    <3>. QED  BY <3>1 DEF Associates
  <2>. QED  BY <1>11, <2>1
<1>13. p4 \o s \in Seq(C)  OBVIOUS
<1>. QED  BY <1>1, <1>3, <1>5, <1>12, <1>13 DEF Behind

RowIsRead(u, R, e, t, a, C) ==
    Row(e, t, a) \in Seq(C) /\ CsvReader(u \o Row(e, t, a)) = CsvAt(R, <<e, t>>, a, "plain")

(* A row that is written behind a line end is read as its fields.          *)
LEMMA ReadRow ==
    ASSUME NEW C, Special \subseteq C, NEW u \in Seq(C), NEW R,
           CsvReader(u) = CsvAt(R, <<>>, <<>>, "plain"),
           NEW e \in Seq(C), NEW t \in Seq(C), NEW a \in Seq(C \ Special)
    PROVE  RowIsRead(u, R, e, t, a, C)
<1>1. PICK n, E, T : n = <<>> /\ E = escapeCsvField(e) /\ T = escapeCsvField(t)  OBVIOUS
<1>2. Comma \in C  BY DEF Special
<1>3. PICK u1, u2, u3, u4 : u1 = u \o E /\ u2 = Append(u1, Comma) /\ u3 = u2 \o T /\ u4 = Append(u3, Comma)
  OBVIOUS
<1>4. E \in Seq(C) /\ FieldAt(u1, R, n, e)
  <2>1. CsvReader(u) = CsvAt(R, n, <<>>, "plain")  BY <1>1
  <2>2. FieldIsRead(u, R, n, e, C)  BY <2>1, ReadField
  <2>. QED  BY <1>1, <1>3, <2>2 DEF FieldIsRead
<1>5. u1 \in Seq(C) /\ u2 \in Seq(C)  BY <1>2, <1>3, <1>4
<1>6. CsvReader(u2) = CsvAt(R, Append(n, e), <<>>, "plain")
  <2>1. EndIsRead(u1, R, n, e)  BY <1>4, <1>5, ReadEnds
  <2>. QED  BY <1>3, <2>1 DEF EndIsRead
<1>7. PICK w : w = Append(n, e)  OBVIOUS
<1>8. T \in Seq(C) /\ FieldAt(u3, R, w, t)
  <2>1. CsvReader(u2) = CsvAt(R, w, <<>>, "plain")  BY <1>6, <1>7, Zenon
  <2>2. FieldIsRead(u2, R, w, t, C)  BY <1>5, <2>1, ReadField
  <2>. QED  BY <1>1, <1>3, <2>2 DEF FieldIsRead
<1>9. u3 \in Seq(C) /\ u4 \in Seq(C)  BY <1>2, <1>3, <1>5, <1>8
<1>10. CsvReader(u4) = CsvAt(R, Append(w, t), <<>>, "plain")
  <2>1. EndIsRead(u3, R, w, t)  BY <1>8, <1>9, ReadEnds
  <2>. QED  BY <1>3, <2>1 DEF EndIsRead
<1>11. CsvReader(u4 \o a) = CsvAt(R, Append(w, t), a, "plain")
  <2>1. UnquotedIsRead(u4, R, Append(w, t), C)  BY <1>9, <1>10, ReadUnquoted
  <2>. QED  BY <2>1 DEF UnquotedIsRead
<1>12. Append(w, t) = <<e, t>>
  <2>1. w = <<e>>  BY <1>1, <1>7
  <2>2. Append(<<e>>, t) = <<e, t>>  BY TwoInARow
  <2>. QED  BY <2>1, <2>2, Zenon
<1>13. a \in Seq(C)
  <2>1. C \ Special \subseteq C  OBVIOUS
  <2>. QED  BY <2>1, SeqMonotonic
<1>14. Row(e, t, a) \in Seq(C) /\ u \o Row(e, t, a) = u4 \o a
  <2>1. Behind(u, E, Comma, T, a, C)  BY <1>2, <1>4, <1>8, <1>13, AllBehind
  <2>2. Row(e, t, a) = E \o <<Comma>> \o T \o <<Comma>> \o a  BY <1>1, Zenon DEF Row
  <2>. QED  BY <1>3, <2>1, <2>2, Zenon DEF Behind
<1>. QED  BY <1>11, <1>12, <1>14, Zenon DEF RowIsRead

-----------------------------------------------------------------------------
(* Rows of subscribers.                                                    *)
Header == <<"email", Comma, "type", Comma, "subscribed_at">>

Headings == <<<<"email">>, <<"type">>, <<"subscribed_at">>>>

Subscribers(C) == [email : Seq(C), type : Seq(C), subscribed_at : Seq(C \ Special)]

AddRow(csv, s) == csv \o <<LineEnd>> \o Row(s.email, s.type, s.subscribed_at)

CsvOf(subscribers) == FoldLeft(AddRow, Header, subscribers)

LEMMA CsvIsFolded ==
    \A subscribers : csvContent(subscribers) = CsvOf(subscribers)
  BY Zenon DEF csvContent, CsvOf, AddRow, Row, Header, Comma

Worded(C) == Special \subseteq C /\ {"email", "type", "subscribed_at"} \subseteq C

LEMMA WordsDiffer ==
    \A w \in {"email", "type", "subscribed_at", "then"} : w \notin Special
<1>1. ASSUME NEW w \in {"email", "type", "subscribed_at", "then"}
      PROVE  w # Comma /\ w # Quote /\ w # LineEnd
  <2>1. CASE w = "email"  BY <2>1, Zenon DEF Comma, Quote, LineEnd
  <2>2. CASE w = "type"  BY <2>2, Zenon DEF Comma, Quote, LineEnd
  <2>3. CASE w = "subscribed_at"  BY <2>3, Zenon DEF Comma, Quote, LineEnd
  <2>4. CASE w = "then"  BY <2>4, Zenon DEF Comma, Quote, LineEnd
  <2>. QED  BY <2>1, <2>2, <2>3, <2>4
<1>. QED  BY <1>1 DEF Special

LEMMA RowTyped ==
    ASSUME NEW C, Worded(C), NEW csv \in Seq(C), NEW s \in Subscribers(C)
    PROVE  AddRow(csv, s) \in Seq(C)
<1>1. LineEnd \in C /\ Comma \in C /\ Special \subseteq C  BY DEF Worded, Special
<1>2. s.email \in Seq(C) /\ s.type \in Seq(C) /\ s.subscribed_at \in Seq(C \ Special)  BY DEF Subscribers
<1>3. PICK n : n = <<>>  OBVIOUS
<1>4. n \in Seq(C) /\ CsvReader(n) = CsvAt(<<>>, <<>>, <<>>, "plain")  BY <1>3, CsvReaderStep
<1>5. Row(s.email, s.type, s.subscribed_at) \in Seq(C)
  <2>1. RowIsRead(n, <<>>, s.email, s.type, s.subscribed_at, C)  BY <1>1, <1>2, <1>4, ReadRow
  <2>. QED  BY <2>1 DEF RowIsRead
<1>6. PICK r : r = Row(s.email, s.type, s.subscribed_at)  OBVIOUS
<1>7. csv \o <<LineEnd>> \o r \in Seq(C)
  <2>1. r \in Seq(C)  BY <1>5, <1>6
  <2>. QED  BY <1>1, <2>1
<1>. QED  BY <1>6, <1>7 DEF AddRow

LEMMA HeaderIs ==
    ASSUME NEW C, Worded(C)
    PROVE  /\ Header \in Seq(C)
           /\ CsvReader(Header) = CsvAt(<<>>, <<<<"email">>, <<"type">>>>, <<"subscribed_at">>, "plain")
<1>1. PICK n, e, t, a : n = <<>> /\ e = <<"email">> /\ t = <<"type">> /\ a = <<"subscribed_at">>  OBVIOUS
<1>2. Special \subseteq C /\ Comma \in C /\ "email" \in C /\ "type" \in C /\ "subscribed_at" \in C
  BY DEF Worded, Special
<1>3. "email" \notin Special /\ "type" \notin Special /\ "subscribed_at" \notin Special  BY WordsDiffer
<1>4. n \in Seq(C) /\ e \in Seq(C) /\ t \in Seq(C) /\ a \in Seq(C) /\ a \in Seq(C \ Special)
  BY <1>1, <1>2, <1>3
<1>5. CsvReader(n) = CsvAt(<<>>, <<>>, <<>>, "plain")  BY <1>1, CsvReaderStep
<1>6. CsvReader(n \o Row(e, t, a)) = CsvAt(<<>>, <<e, t>>, a, "plain") /\ Row(e, t, a) \in Seq(C)
  <2>1. RowIsRead(n, <<>>, e, t, a, C)  BY <1>2, <1>4, <1>5, ReadRow
  <2>. QED  BY <2>1, Zenon DEF RowIsRead
<1>7. n \o Row(e, t, a) = Row(e, t, a)  BY <1>1, <1>6, ConcatEmptySeq
<1>8. Row(e, t, a) = Header
  <2>1. escapeCsvField(e) = e /\ escapeCsvField(t) = t
    <3>1. ~ Has(e, Special) /\ ~ Has(t, Special)  BY <1>1, <1>3 DEF Has
    <3>. QED  BY <3>1, FieldIs
  <2>2. Row(e, t, a) = n \o (e \o <<Comma>> \o t \o <<Comma>> \o a)
    <3>1. Row(e, t, a) = e \o <<Comma>> \o t \o <<Comma>> \o a  BY <2>1, Zenon DEF Row
    <3>. QED  BY <1>7, <3>1, Zenon
  <2>3. n \o (e \o <<Comma>> \o t \o <<Comma>> \o a) = Append(Append(n \o e, Comma) \o t, Comma) \o a
    <3>1. Behind(n, e, Comma, t, a, C)  BY <1>2, <1>4, AllBehind
    <3>. QED  BY <3>1, Zenon DEF Behind
  <2>4. n \o e = e  BY <1>1, <1>4, ConcatEmptySeq
  <2>5. PICK x, y, z, v : /\ x = <<"email", Comma>> /\ y = <<"email", Comma, "type">>
                          /\ z = <<"email", Comma, "type", Comma>> /\ v = Header
    OBVIOUS
  <2>6. /\ x \in Seq(C) /\ y \in Seq(C) /\ z \in Seq(C) /\ v \in Seq(C)
        /\ x = Append(e, Comma) /\ y = Append(x, "type") /\ z = Append(y, Comma)
        /\ v = Append(z, "subscribed_at")
    BY <1>1, <1>2, <2>5 DEF Header
  <2>7. x \o t = y /\ z \o a = v
    <3>1. Append(x, "type") = x \o <<"type">>  BY <1>2, <2>6, AppendIsConcat
    <3>2. Append(z, "subscribed_at") = z \o <<"subscribed_at">>  BY <1>2, <2>6, AppendIsConcat
    <3>. QED  BY <1>1, <2>6, <3>1, <3>2, Zenon
  <2>. QED  BY <2>2, <2>3, <2>4, <2>5, <2>6, <2>7, Zenon
<1>. QED  BY <1>1, <1>6, <1>7, <1>8, Zenon

(* A CSV gets a row more for each subscriber.                              *)
LEMMA CsvOfStep ==
    ASSUME NEW C, Worded(C)
    PROVE  /\ CsvOf(<<>>) = Header
           /\ \A t \in Seq(Subscribers(C)) : CsvOf(t) \in Seq(C)
           /\ \A t \in Seq(Subscribers(C)), c \in Subscribers(C) : CsvOf(Append(t, c)) = AddRow(CsvOf(t), c)
<1>. DEFINE A == Seq(C)
            f == [p \in A \X Subscribers(C) |-> AddRow(p[1], p[2])]
<1>1. Header \in A /\ f \in [A \X Subscribers(C) -> A]
  <2>1. \A s \in A, c \in Subscribers(C) : AddRow(s, c) \in A  BY RowTyped
  <2>2. Header \in A  BY HeaderIs
  <2>. HIDE DEF A
  <2>. QED  BY <2>1, <2>2
<1>2. ASSUME NEW t \in Seq(Subscribers(C)) PROVE CsvOf(t) = Folded(f, Header, t)
  <2>. DEFINE Way(h) == h = [s \in SUBSET DOMAIN t |->
                IF s = {} THEN Header ELSE AddRow(h[s \ {Max(s)}], t[Max(s)])]
  <2>1. CsvOf(t) = (CHOOSE h : Way(h))[DOMAIN t]
    BY DEF CsvOf, FoldLeft, MapThenFoldSet
  <2>. HIDE DEF A
  <2>2. PICK h : FoldsTo(h, f, Header, t, A)
    <3>. HIDE DEF f
    <3>. QED  BY <1>1, FoldedBy
  <2>3. Way(h)
    <3>1. ASSUME NEW s \in SUBSET DOMAIN t, s # {}
          PROVE  f[<<h[s \ {Max(s)}], t[Max(s)]>>] = AddRow(h[s \ {Max(s)}], t[Max(s)])
      <4>1. s \ {Max(s)} \in SUBSET DOMAIN t /\ t[Max(s)] \in Subscribers(C)  BY <3>1, PartOfText
      <4>2. h[s \ {Max(s)}] \in A  BY <2>2, <4>1 DEF FoldsTo
      <4>. QED  BY <4>1, <4>2
    <3>2. h = [s \in SUBSET DOMAIN t |->
                  IF s = {} THEN Header ELSE f[<<h[s \ {Max(s)}], t[Max(s)]>>]]
      BY <2>2 DEF FoldsTo, Folding
    <3>. HIDE DEF f
    <3>. QED  BY <3>1, <3>2
  <2>4. PICK g : g = CHOOSE i : Way(i)  OBVIOUS
  <2>5. Way(g)  BY <2>3, <2>4
  <2>6. Alike(g, h, t)  BY <2>3, <2>5 DEF Alike
  <2>7. g[DOMAIN t] = h[DOMAIN t]  BY <2>6, AlikeToTheEnd
  <2>. HIDE DEF f
  <2>. QED  BY <2>1, <2>2, <2>4, <2>7 DEF FoldsTo
<1>3. <<>> \in Seq(Subscribers(C))  OBVIOUS
<1>4. \A a \in A, c \in Subscribers(C) : f[<<a, c>>] = AddRow(a, c)
  <2>. HIDE DEF A
  <2>. QED  OBVIOUS
<1>. HIDE DEF A, f
<1>5. /\ Folded(f, Header, <<>>) = Header
      /\ \A t \in Seq(Subscribers(C)) : Folded(f, Header, t) \in A
      /\ \A t \in Seq(Subscribers(C)), c \in Subscribers(C) :
            Folded(f, Header, Append(t, c)) = f[<<Folded(f, Header, t), c>>]
  <2>1. Stepwise(f, Header, Subscribers(C), A)  BY <1>1, FoldedStep
  <2>. QED  BY <2>1 DEF Stepwise
<1>6. CsvOf(<<>>) = Header  BY <1>2, <1>3, <1>5
<1>7. ASSUME NEW t \in Seq(Subscribers(C)) PROVE CsvOf(t) \in Seq(C)
  BY <1>2, <1>5 DEF A
<1>8. ASSUME NEW t \in Seq(Subscribers(C)), NEW c \in Subscribers(C)
      PROVE  CsvOf(Append(t, c)) = AddRow(CsvOf(t), c)
  <2>1. Append(t, c) \in Seq(Subscribers(C))  OBVIOUS
  <2>2. CsvOf(t) = Folded(f, Header, t) /\ CsvOf(t) \in A  BY <1>2, <1>5
  <2>3. f[<<CsvOf(t), c>>] = AddRow(CsvOf(t), c)  BY <1>4, <2>2
  <2>. QED  BY <1>2, <1>5, <2>1, <2>2, <2>3
<1>. QED  BY <1>6, <1>7, <1>8

RowOf(s) == <<s.email, s.type, s.subscribed_at>>

RowsOf(subscribers) ==
    [k \in 1 .. Len(subscribers) + 1 |-> IF k = 1 THEN Headings ELSE RowOf(subscribers[k - 1])]

LEMMA RowsAre ==
    ASSUME NEW D
    PROVE  \A t \in Seq(Subscribers(D)), s \in Subscribers(D) :
              RowsOf(Append(t, s)) = Append(RowsOf(t), RowOf(s))
<1>1. SUFFICES ASSUME NEW t \in Seq(Subscribers(D)), NEW s \in Subscribers(D)
               PROVE  RowsOf(Append(t, s)) = Append(RowsOf(t), RowOf(s))
  OBVIOUS
<1>2. PICK v, n : v = Append(t, s) /\ n = Len(t)  OBVIOUS
<1>3. PICK B : B = {RowOf(z) : z \in Subscribers(D)} \cup {Headings}  OBVIOUS
<1>4. /\ v \in Seq(Subscribers(D)) /\ Len(v) = n + 1 /\ n \in Nat /\ v[n + 1] = s
      /\ \A k \in 1 .. n : v[k] = t[k] /\ t[k] \in Subscribers(D)
  BY <1>2
<1>5. ASSUME NEW z \in Seq(Subscribers(D))
      PROVE  /\ RowsOf(z) \in Seq(B) /\ Len(RowsOf(z)) = Len(z) + 1
             /\ \A k \in 1 .. Len(z) + 1 :
                   RowsOf(z)[k] = IF k = 1 THEN Headings ELSE RowOf(z[k - 1])
  <2>1. Len(z) \in Nat /\ \A k \in 1 .. Len(z) : z[k] \in Subscribers(D)  OBVIOUS
  <2>2. ASSUME NEW k \in 1 .. Len(z) + 1
        PROVE  (IF k = 1 THEN Headings ELSE RowOf(z[k - 1])) \in B
    <3>1. k # 1 => k - 1 \in 1 .. Len(z)  BY <2>1
    <3>2. k # 1 => RowOf(z[k - 1]) \in B  BY <1>3, <2>1, <3>1
    <3>. QED  BY <1>3, <3>2
  <2>3. RowsOf(z) \in [1 .. Len(z) + 1 -> B]  BY <2>2 DEF RowsOf
  <2>4. RowsOf(z) \in UNION {[1 .. m -> B] : m \in Nat}
    <3>1. Len(z) + 1 \in Nat  BY <2>1
    <3>. QED  BY <2>3, <3>1
  <2>5. RowsOf(z) \in Seq(B)  BY <2>4, SeqDef
  <2>6. DOMAIN RowsOf(z) = 1 .. Len(z) + 1  BY DEF RowsOf
  <2>7. Len(RowsOf(z)) = Len(z) + 1  BY <2>1, <2>5, <2>6, LenProperties
  <2>8. \A k \in 1 .. Len(z) + 1 :
           RowsOf(z)[k] = IF k = 1 THEN Headings ELSE RowOf(z[k - 1])
    BY DEF RowsOf
  <2>. QED  BY <2>5, <2>7, <2>8
<1>6. PICK x, y : x = RowsOf(v) /\ y = RowsOf(t)  OBVIOUS
<1>7. /\ x \in Seq(B) /\ Len(x) = n + 2 /\ y \in Seq(B) /\ Len(y) = n + 1 /\ RowOf(s) \in B
      /\ \A k \in 1 .. n + 2 : x[k] = IF k = 1 THEN Headings ELSE RowOf(v[k - 1])
      /\ \A k \in 1 .. n + 1 : y[k] = IF k = 1 THEN Headings ELSE RowOf(t[k - 1])
  <2>1. x \in Seq(B) /\ Len(x) = n + 1 + 1
        /\ \A k \in 1 .. n + 1 + 1 : x[k] = IF k = 1 THEN Headings ELSE RowOf(v[k - 1])
    BY <1>4, <1>5, <1>6
  <2>2. y \in Seq(B) /\ Len(y) = n + 1
        /\ \A k \in 1 .. n + 1 : y[k] = IF k = 1 THEN Headings ELSE RowOf(t[k - 1])
    BY <1>2, <1>5, <1>6
  <2>3. RowOf(s) \in B  BY <1>3
  <2>4. n + 1 + 1 = n + 2  BY <1>4
  <2>. QED  BY <2>1, <2>2, <2>3, <2>4
<1>8. PICK w : w = Append(y, RowOf(s))  OBVIOUS
<1>9. /\ w \in Seq(B) /\ Len(w) = n + 2 /\ w[n + 2] = RowOf(s)
      /\ \A k \in 1 .. n + 1 : w[k] = y[k]
  <2>1. /\ w \in Seq(B) /\ Len(w) = Len(y) + 1 /\ w[Len(y) + 1] = RowOf(s)
        /\ \A k \in 1 .. Len(y) : w[k] = y[k]
    BY <1>7, <1>8, AppendProperties
  <2>2. Len(y) + 1 = n + 2  BY <1>4, <1>7
  <2>. QED  BY <1>7, <2>1, <2>2
<1>10. ASSUME NEW k \in 1 .. n + 2 PROVE x[k] = w[k]
  <2>1. CASE k = n + 2
    <3>1. k # 1 /\ k - 1 = n + 1  BY <1>4, <2>1
    <3>2. x[k] = RowOf(v[k - 1])  BY <1>7, <3>1
    <3>. QED  BY <1>4, <1>9, <2>1, <3>1, <3>2
  <2>2. CASE k # n + 2
    <3>1. k \in 1 .. n + 1  BY <1>4, <2>2
    <3>2. CASE k = 1  BY <1>7, <1>9, <3>1, <3>2
    <3>3. CASE k # 1
      <4>1. k - 1 \in 1 .. n  BY <1>4, <3>1, <3>3
      <4>2. v[k - 1] = t[k - 1]  BY <1>4, <4>1
      <4>. QED  BY <1>7, <1>9, <3>1, <3>3, <4>2
    <3>. QED  BY <3>2, <3>3
  <2>. QED  BY <2>1, <2>2
<1>11. x = w  BY <1>4, <1>7, <1>9, <1>10, SeqEqual
<1>. QED  BY <1>2, <1>6, <1>8, <1>11

(* A spreadsheet shows the headings and a row of each subscriber, whoever  *)
(* they are and however many.                                              *)
THEOREM CsvOfAnyList ==
    ASSUME NEW C, Worded(C)
    PROVE  \A subscribers \in Seq(Subscribers(C)) :
              CsvRead(csvContent(subscribers)) = RowsOf(subscribers)
<1>. DEFINE Stands(t, R, W, F) == /\ CsvReader(CsvOf(t)) = CsvAt(R, W, F, "plain")
                                  /\ Append(R, Append(W, F)) = RowsOf(t)
            P == {t \in Seq(Subscribers(C)) : \E R, W, F : Stands(t, R, W, F)}
<1>1. Special \subseteq C /\ LineEnd \in C  BY DEF Worded, Special
<1>2. /\ CsvOf(<<>>) = Header
      /\ \A t \in Seq(Subscribers(C)) : CsvOf(t) \in Seq(C)
      /\ \A t \in Seq(Subscribers(C)), c \in Subscribers(C) : CsvOf(Append(t, c)) = AddRow(CsvOf(t), c)
  BY CsvOfStep
<1>3. <<>> \in P
  <2>1. <<>> \in Seq(Subscribers(C))  OBVIOUS
  <2>2. PICK R, W, F, none : /\ R = <<>> /\ W = <<<<"email">>, <<"type">>>>
                             /\ F = <<"subscribed_at">> /\ none = <<>>
    OBVIOUS
  <2>3. CsvReader(CsvOf(none)) = CsvAt(R, W, F, "plain")  BY <1>2, <2>2, HeaderIs
  <2>4. Append(W, F) = Headings
    <3>1. PICK B : B = {<<"email">>, <<"type">>, F}  OBVIOUS
    <3>2. <<"email">> \in B /\ <<"type">> \in B /\ F \in B  BY <3>1
    <3>3. Append(<<<<"email">>, <<"type">>>>, F) = <<<<"email">>, <<"type">>, F>>
      BY <3>2, ThreeInARow
    <3>. QED  BY <2>2, <3>3 DEF Headings
  <2>5. Append(R, Headings) = RowsOf(none)
    <3>1. Append(R, Headings) = <<Headings>>  BY <2>2
    <3>2. Len(none) = 0  BY <2>2
    <3>3. RowsOf(none) = [k \in 1 .. 1 |-> Headings]  BY <3>2 DEF RowsOf
    <3>4. [k \in 1 .. 1 |-> Headings] = <<Headings>>
      <4>. HIDE DEF Headings
      <4>. QED  OBVIOUS
    <3>. QED  BY <3>1, <3>3, <3>4
  <2>6. Stands(none, R, W, F)  BY <2>3, <2>4, <2>5
  <2>. HIDE DEF Stands
  <2>. QED  BY <2>1, <2>2, <2>6
<1>4. ASSUME NEW t \in Seq(Subscribers(C)), NEW s \in Subscribers(C), t \in P
      PROVE  Append(t, s) \in P
  <2>1. PICK R, W, F : Stands(t, R, W, F)  BY <1>4
  <2>2. PICK csv, u, row : /\ csv = CsvOf(t) /\ u = Append(csv, LineEnd)
                           /\ row = Row(s.email, s.type, s.subscribed_at)
    OBVIOUS
  <2>3. csv \in Seq(C) /\ u \in Seq(C)  BY <1>1, <1>2, <2>2
  <2>4. CsvReader(csv) = CsvAt(R, W, F, "plain") /\ Append(R, Append(W, F)) = RowsOf(t)
    BY <2>1, <2>2
  <2>5. CsvReader(u) = CsvAt(RowsOf(t), <<>>, <<>>, "plain")
    <3>1. FieldAt(csv, R, W, F)  BY <2>4 DEF FieldAt
    <3>2. EndIsRead(csv, R, W, F)  BY <1>1, <2>3, <3>1, ReadEnds
    <3>. QED  BY <2>2, <2>4, <3>2, Zenon DEF EndIsRead
  <2>6. s.email \in Seq(C) /\ s.type \in Seq(C) /\ s.subscribed_at \in Seq(C \ Special)
    BY DEF Subscribers
  <2>7. /\ row \in Seq(C)
        /\ CsvReader(u \o row) = CsvAt(RowsOf(t), <<s.email, s.type>>, s.subscribed_at, "plain")
    <3>1. RowIsRead(u, RowsOf(t), s.email, s.type, s.subscribed_at, C)
      BY <1>1, <2>3, <2>5, <2>6, ReadRow
    <3>. QED  BY <2>2, <3>1, Zenon DEF RowIsRead
  <2>8. CsvOf(Append(t, s)) = u \o row
    <3>1. CsvOf(Append(t, s)) = csv \o <<LineEnd>> \o row  BY <1>2, <2>2 DEF AddRow
    <3>2. csv \o <<LineEnd>> = u  BY <1>1, <2>2, <2>3, AppendIsConcat
    <3>. QED  BY <3>1, <3>2, Zenon
  <2>9. Append(<<s.email, s.type>>, s.subscribed_at) = RowOf(s)
    <3>1. PICK B : B = {s.email, s.type, s.subscribed_at}  OBVIOUS
    <3>2. s.email \in B /\ s.type \in B /\ s.subscribed_at \in B  BY <3>1
    <3>3. Append(<<s.email, s.type>>, s.subscribed_at) = <<s.email, s.type, s.subscribed_at>>
      BY <3>2, ThreeInARow, Zenon
    <3>. QED  BY <3>3, Zenon DEF RowOf
  <2>10. RowsOf(Append(t, s)) = Append(RowsOf(t), RowOf(s))  BY RowsAre, Zenon
  <2>11. Stands(Append(t, s), RowsOf(t), <<s.email, s.type>>, s.subscribed_at)
    BY <2>7, <2>8, <2>9, <2>10, Zenon
  <2>12. Append(t, s) \in Seq(Subscribers(C))  OBVIOUS
  <2>. HIDE DEF Stands
  <2>. QED  BY <2>11, <2>12
<1>5. \A t \in Seq(Subscribers(C)) : t \in P
  <2>. HIDE DEF P
  <2>. QED  BY <1>3, <1>4, TextInduction
<1>6. ASSUME NEW t \in Seq(Subscribers(C)) PROVE CsvRead(csvContent(t)) = RowsOf(t)
  <2>1. PICK R, W, F : Stands(t, R, W, F)  BY <1>5
  <2>2. CsvRead(CsvOf(t)) = Append(R, Append(W, F))
    <3>1. CsvReader(CsvOf(t)) = CsvAt(R, W, F, "plain")  BY <2>1
    <3>2. /\ CsvReader(CsvOf(t)).rows = R /\ CsvReader(CsvOf(t)).row = W
          /\ CsvReader(CsvOf(t)).field = F
      BY <3>1, CsvParts
    <3>. QED  BY <3>2, CsvIsRead
  <2>. QED  BY <2>1, <2>2, CsvIsFolded
<1>. QED  BY <1>6

(* Whatever is typed, readers of the e-mail and of the export see it.      *)
LEMMA TypedOfAnyText ==
    ASSUME NEW S, text \in Seq(S)
    PROVE  TypedIsRead
<1>. DEFINE sub(e) == [email |-> e, type |-> <<"free">>, subscribed_at |-> <<"then">>]
            row(e) == <<e, <<"free">>, <<"then">>>>
            C == S \cup Special \cup {"email", "type", "subscribed_at", "free", "then", "x"}
<1>1. HtmlRead(escapeHtml(text)) = text  BY EscapedIsRead
<1>2. {"<", Quote} \cap {escapeHtml(text)[k] : k \in DOMAIN escapeHtml(text)} = {}
  <2>1. {"<", Quote} \cap EntityChars = {}  BY NamesDiffer DEF EntityChars
  <2>2. \A t \in Seq(S) : Has(escapeHtml(t), {"<", Quote}) <=> Has(t, {"<", Quote} \ {"<", Quote})
    BY <2>1, EscapedHas
  <2>3. ~ Has(escapeHtml(text), {"<", Quote})
    <3>1. ~ Has(text, {"<", Quote} \ {"<", Quote})  BY DEF Has
    <3>. QED  BY <2>2, <3>1
  <2>. QED  BY <2>3 DEF Has
<1>3. CsvRead(csvContent(<<sub(text), sub(<<"x">>)>>)) =
         <<Headings, row(text), row(<<"x">>)>>
  <2>1. Worded(C)  BY DEF Worded
  <2>2. PICK x, f, h : x = <<"x">> /\ f = <<"free">> /\ h = <<"then">>  OBVIOUS
  <2>3. x \in Seq(C) /\ f \in Seq(C) /\ h \in Seq(C \ Special)
    <3>1. "x" \in C /\ "free" \in C /\ "then" \in C /\ "then" \notin Special  BY WordsDiffer
    <3>. HIDE DEF C
    <3>. QED  BY <2>2, <3>1
  <2>4. text \in Seq(C)
    <3>1. S \subseteq C  OBVIOUS
    <3>. HIDE DEF C
    <3>. QED  BY <3>1, SeqMonotonic
  <2>. HIDE DEF C
  <2>5. PICK a, b : a = sub(text) /\ b = sub(<<"x">>)  OBVIOUS
  <2>6. a \in Subscribers(C) /\ b \in Subscribers(C) /\ RowOf(a) = row(text) /\ RowOf(b) = row(<<"x">>)
    BY <2>2, <2>3, <2>4, <2>5 DEF Subscribers, RowOf
  <2>7. PICK l : l = <<a, b>>  OBVIOUS
  <2>8. l \in Seq(Subscribers(C)) /\ Len(l) = 2 /\ l[1] = a /\ l[2] = b  BY <2>6, <2>7
  <2>9. CsvRead(csvContent(l)) = RowsOf(l)  BY <2>1, <2>8, CsvOfAnyList
  <2>10. RowsOf(l) = <<Headings, RowOf(a), RowOf(b)>>
    <3>1. RowsOf(l) = [k \in 1 .. 3 |-> IF k = 1 THEN Headings ELSE RowOf(l[k - 1])]
      BY <2>8 DEF RowsOf
    <3>2. PICK p, q, r : p = Headings /\ q = RowOf(a) /\ r = RowOf(b)  OBVIOUS
    <3>3. \A k \in 1 .. 3 : (IF k = 1 THEN Headings ELSE RowOf(l[k - 1])) = <<p, q, r>>[k]
      <4>1. \A k \in 1 .. 3 : k = 1 \/ k = 2 \/ k = 3  OBVIOUS
      <4>2. RowOf(l[2 - 1]) = q /\ RowOf(l[3 - 1]) = r  BY <2>8, <3>2
      <4>. QED  BY <3>2, <4>1, <4>2
    <3>4. PICK v : v = <<p, q, r>>  OBVIOUS
    <3>5. v = [k \in 1 .. 3 |-> v[k]]  BY <3>4
    <3>. QED  BY <3>1, <3>2, <3>3, <3>4, <3>5
  <2>. QED  BY <2>5, <2>6, <2>7, <2>9, <2>10
<1>. HIDE DEF C
<1>. QED  BY <1>1, <1>2, <1>3, Zenon DEF TypedIsRead, Quote, Headings

-----------------------------------------------------------------------------
(* Every text that anybody types, in whatever characters.                  *)
LEMMA TextsTyped ==
    ASSUME NEW characters
    PROVE  TextsSpec(characters) => [](text \in Seq(characters))
<1>1. text = <<>> => text \in Seq(characters)  OBVIOUS
<1>2. text \in Seq(characters) /\ [Types(characters)]_text => (text \in Seq(characters))'
  BY DEF Types
<1>. QED  BY <1>1, <1>2, PTL DEF TextsSpec

(* Whatever title an article or a publication gets, its address is in the  *)
(* normal form that the form of a publication would take, and making a slug*)
(* of a slug changes nothing.                                              *)
THEOREM AddressesNormal ==
    ASSUME NEW characters
    PROVE  TextsSpec(characters) => []SlugsNormal
<1>1. text \in Seq(characters) => SlugsNormal  BY SlugsOfAnyText
<1>. QED  BY <1>1, TextsTyped, PTL

(* Readers of an e-mail and of the export see what was typed.              *)
THEOREM WhatIsTypedIsRead ==
    ASSUME NEW characters
    PROVE  TextsSpec(characters) => []TypedIsRead
<1>1. text \in Seq(characters) => TypedIsRead  BY TypedOfAnyText
<1>. QED  BY <1>1, TextsTyped, PTL

(* Who does not pay is mailed a short excerpt of a paid article.           *)
THEOREM TeasersShort ==
    ASSUME NEW characters
    PROVE  TextsSpec(characters) => []TeasersStayShort
<1>1. text \in Seq(characters) => TeasersStayShort  BY TeaserOfAnyText
<1>. QED  BY <1>1, TextsTyped, PTL
=============================================================================
