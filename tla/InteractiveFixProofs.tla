-------------------------- MODULE InteractiveFixProofs --------------------------
(***************************************************************************)
(* Proofs about InteractiveFix and the edits of EditPlan it offers, for    *)
(* any number of files of any length.                                      *)
(***************************************************************************)
EXTENDS InteractiveFix, FiniteSetTheorems, TLAPS

-----------------------------------------------------------------------------
(* Counting, least and greatest.                                           *)

\* What holds of 0, and of a number's successor when it holds of it, holds up to n.
LEMMA CountingUp ==
  ASSUME NEW n \in Nat, NEW A \in SUBSET (0..n), 0 \in A, \A m \in A : m < n => m + 1 \in A
  PROVE  A = 0..n
<1>1. SUFFICES ASSUME NEW k \in (0..n) \ A PROVE FALSE
  OBVIOUS
<1> DEFINE B == {m \in 0..k : m \notin A}
           back == [m \in B |-> m - 1]
<1>2. IsFiniteSet(B)
  <2>1. IsFiniteSet(0..k) /\ B \in SUBSET (0..k) BY FS_Interval
  <2> QED BY <2>1, FS_Subset
<1>3. \A m \in B : m - 1 \in B
  <2>1. SUFFICES ASSUME NEW m \in 0..k, m \notin A PROVE m - 1 \in 0..k /\ m - 1 \notin A
    OBVIOUS
  <2>2. m # 0 BY <2>1
  <2>3. m - 1 \in 0..n /\ m - 1 < n /\ (m - 1) + 1 = m BY <2>2
  <2>4. m - 1 \notin A BY <2>1, <2>3
  <2> QED BY <2>2, <2>4
<1>4. back \in Injection(B, B) BY <1>3 DEF Injection, IsInjective
<1>5. back \in Surjection(B, B) BY <1>2, <1>4, FS_Injection
<1>6. k \in B BY <1>1
<1>7. PICK m \in B : back[m] = k
  <2> HIDE DEF B, back
  <2> QED BY <1>5, <1>6 DEF Surjection
<1> QED BY <1>7

\* A set of numbers up to n has a least one.
LEMMA LeastOf ==
  ASSUME NEW n \in Nat, NEW S \in SUBSET (0..n), S # {}
  PROVE  Min(S) \in S /\ \A k \in S : Min(S) <= k
<1> DEFINE A == {m \in 0..n : \A k \in S : m <= k}
<1>1. \E m \in S : \A k \in S : m <= k
  <2>1. SUFFICES ASSUME ~ \E m \in S : \A k \in S : m <= k PROVE FALSE
    OBVIOUS
  <2>2. 0 \in A /\ A \in SUBSET (0..n) OBVIOUS
  <2>3. ASSUME NEW m \in A, m < n PROVE m + 1 \in A
    <3>1. m \notin S BY <2>1, <2>3
    <3>2. \A k \in S : m < k BY <2>3, <3>1
    <3> QED BY <2>3, <3>2
  <2>4. A = 0..n
    <3> HIDE DEF A
    <3> QED BY <2>2, <2>3, CountingUp
  <2>5. n \in A BY <2>4
  <2>6. PICK k \in S : TRUE OBVIOUS
  <2>7. k = n BY <2>5, <2>6
  <2> QED BY <2>1, <2>5, <2>7
<1> QED BY <1>1 DEF Min

\* And a greatest one.
LEMMA GreatestOf ==
  ASSUME NEW n \in Nat, NEW S \in SUBSET (0..n), S # {}
  PROVE  Max(S) \in S /\ \A k \in S : k <= Max(S)
<1> DEFINE mirror == {n - k : k \in S}
<1>1. mirror \in SUBSET (0..n) /\ mirror # {}
  <2>1. \A k \in S : k \in 0..n OBVIOUS
  <2>2. \A k \in S : n - k \in 0..n BY <2>1
  <2>3. PICK k \in S : TRUE OBVIOUS
  <2> QED BY <2>2, <2>3
<1>2. Min(mirror) \in mirror /\ \A k \in mirror : Min(mirror) <= k
  <2> HIDE DEF mirror
  <2> QED BY <1>1, LeastOf
<1>3. PICK m \in S : Min(mirror) = n - m BY <1>2
<1>4. \A k \in S : n - m <= n - k BY <1>2, <1>3
<1>5. \A k \in S : k <= m BY <1>3, <1>4
<1> QED BY <1>3, <1>5 DEF Max

-----------------------------------------------------------------------------
(* Lines in order.                                                         *)

\* s goes through the numbers of S from the least to the greatest.
Ascends(s, S) ==
  /\ s \in Seq(S)
  /\ \A i, j \in DOMAIN s : i < j => s[i] < s[j]
  /\ \A x \in S : \E i \in DOMAIN s : s[i] = x

\* How InOrder grows along the text.
Grown(upto, n, S) ==
  /\ upto \in [0..n -> Seq(S)] /\ upto[0] = <<>>
  /\ \A i \in 1..n : upto[i] = IF i \in S THEN Append(upto[i - 1], i) ELSE upto[i - 1]

\* InOrder is built line by line.
LEMMA InOrderGrows ==
  ASSUME NEW d, Len(d) \in Nat, NEW S
  PROVE  \E upto : Grown(upto, Len(d), S) /\ InOrder(d, S) = upto[Len(d)]
<1> DEFINE n == Len(d)
           After(before, i) == IF i \in S THEN Append(before, i) ELSE before
           Grows(f, m) == /\ f \in [0..m -> Seq(S)] /\ f[0] = <<>>
                          /\ \A i \in 1..m : f[i] = After(f[i - 1], i)
           A == {m \in 0..n : \E f : Grows(f, m)}
           upto[i \in 0..n] == IF i = 0 THEN <<>> ELSE After(upto[i - 1], i)
<1>1. n \in Nat OBVIOUS
<1>2. InOrder(d, S) = upto[n]
  BY DEF InOrder
<1>3. ASSUME NEW before \in Seq(S), NEW i \in 1..n PROVE After(before, i) \in Seq(S)
  OBVIOUS
<1>4. ASSUME NEW f, f = [i \in 0..n |-> IF i = 0 THEN <<>> ELSE After(f[i - 1], i)]
      PROVE  upto = [i \in 0..n |-> IF i = 0 THEN <<>> ELSE After(upto[i - 1], i)]
  <2> HIDE DEF After, n
  <2> QED BY <1>4
<1> HIDE DEF n, After, upto
<1>5. 0 \in A
  <2>1. Grows([i \in 0..0 |-> <<>>], 0) BY <1>1
  <2> HIDE DEF Grows
  <2> QED BY <2>1, <1>1
<1>6. ASSUME NEW m \in A, m < n PROVE m + 1 \in A
  <2>1. PICK f : Grows(f, m) BY <1>6
  <2> DEFINE g == [i \in 0..(m + 1) |-> IF i <= m THEN f[i] ELSE After(f[m], m + 1)]
  <2>2. m \in Nat /\ m + 1 \in 1..n /\ m + 1 \in 0..n BY <1>1, <1>6
  <2>3. f[m] \in Seq(S) BY <2>1, <2>2
  <2>4. After(f[m], m + 1) \in Seq(S) BY <1>3, <2>2, <2>3
  <2>5. \A i \in 0..m : f[i] \in Seq(S) BY <2>1
  <2>6. g \in [0..(m + 1) -> Seq(S)] BY <2>2, <2>4, <2>5
  <2>7. g[0] = <<>> BY <2>1, <2>2
  <2>8. ASSUME NEW i \in 1..(m + 1) PROVE g[i] = After(g[i - 1], i)
    <3>1. CASE i <= m
      <4>1. g[i] = f[i] /\ g[i - 1] = f[i - 1] /\ i \in 1..m BY <2>2, <3>1
      <4> QED BY <2>1, <4>1
    <3>2. CASE i = m + 1
      <4>1. g[i] = After(f[m], i) /\ g[i - 1] = f[m] BY <2>2, <3>2
      <4> QED BY <4>1
    <3> QED BY <2>2, <3>1, <3>2
  <2>9. Grows(g, m + 1) BY <2>6, <2>7, <2>8
  <2> HIDE DEF Grows
  <2> QED BY <2>2, <2>9
<1>7. A = 0..n
  <2>1. A \in SUBSET (0..n) OBVIOUS
  <2> HIDE DEF A
  <2> QED BY <1>1, <1>5, <1>6, <2>1, CountingUp
<1>8. PICK f : Grows(f, n)
  <2>1. n \in A
    <3> HIDE DEF A
    <3> QED BY <1>1, <1>7
  <2> QED BY <2>1
<1>9. f = [i \in 0..n |-> IF i = 0 THEN <<>> ELSE After(f[i - 1], i)]
  <2> DEFINE h == [i \in 0..n |-> IF i = 0 THEN <<>> ELSE After(f[i - 1], i)]
  <2>1. \A i \in 0..n : f[i] = h[i] BY <1>1, <1>8
  <2> QED BY <1>8, <2>1
<1>10. upto = [i \in 0..n |-> IF i = 0 THEN <<>> ELSE After(upto[i - 1], i)]
  BY <1>4, <1>9
<1>11. upto[0] = <<>> /\ \A i \in 1..n : upto[i] = After(upto[i - 1], i)
  BY <1>1, <1>10
<1> DEFINE C == {m \in 0..n : upto[m] \in Seq(S)}
<1>12. C = 0..n
  <2>1. C \in SUBSET (0..n) /\ 0 \in C
    <3>1. upto[0] \in Seq(S)
      <4>1. <<>> \in Seq(S) OBVIOUS
      <4> QED BY <1>11, <4>1
    <3> QED BY <1>1, <3>1
  <2>2. ASSUME NEW m \in C, m < n PROVE m + 1 \in C
    <3>1. m + 1 \in 1..n /\ m + 1 \in 0..n /\ (m + 1) - 1 = m BY <1>1, <2>2
    <3> QED BY <1>3, <1>11, <2>2, <3>1
  <2> HIDE DEF C
  <2> QED BY <1>1, <2>1, <2>2, CountingUp
<1>13. upto \in [0..n -> Seq(S)] BY <1>10, <1>12
<1>14. Grown(upto, n, S) BY <1>11, <1>13 DEF After, Grown
<1> QED BY <1>2, <1>14 DEF n

\* InOrder goes through a set of lines from the first to the last.
LEMMA InOrderAscends ==
  ASSUME NEW d, Len(d) \in Nat, NEW S \in SUBSET (1..Len(d))
  PROVE  Ascends(InOrder(d, S), S)
<1> DEFINE n == Len(d)
           Upto(s, m) == /\ \A i, j \in DOMAIN s : i < j => s[i] < s[j]
                         /\ \A i \in DOMAIN s : s[i] <= m
                         /\ \A x \in S : x <= m => \E i \in DOMAIN s : s[i] = x
<1>1. PICK upto : Grown(upto, n, S) /\ InOrder(d, S) = upto[n]
  BY InOrderGrows
<1>2. /\ upto \in [0..n -> Seq(S)] /\ upto[0] = <<>>
      /\ \A i \in 1..n : upto[i] = IF i \in S THEN Append(upto[i - 1], i) ELSE upto[i - 1]
  BY <1>1 DEF Grown
<1> DEFINE C == {m \in 0..n : Upto(upto[m], m)}
<1> HIDE DEF n
<1>3. /\ n \in Nat /\ S \in SUBSET (1..n)
      /\ \A x \in S : x \in Nat /\ x <= n
  BY DEF n
<1>4. 0 \in C
  <2>1. Upto(upto[0], 0) BY <1>2, <1>3
  <2> HIDE DEF Upto
  <2> QED BY <1>3, <2>1
<1>5. ASSUME NEW m \in C, m < n PROVE m + 1 \in C
  <2>1. m \in Nat /\ m + 1 \in 1..n /\ m + 1 \in 0..n /\ (m + 1) - 1 = m BY <1>3, <1>5
  <2>2. upto[m] \in Seq(S) /\ Upto(upto[m], m) BY <1>2, <1>5, <2>1
  <2>3. CASE m + 1 \notin S
    <3>1. upto[m + 1] = upto[m] BY <1>2, <2>1, <2>3
    <3>2. \A x \in S : x <= m + 1 => x <= m BY <1>3, <2>1, <2>3
    <3>3. \A i \in DOMAIN upto[m] : upto[m][i] <= m + 1
      <4>1. \A i \in DOMAIN upto[m] : upto[m][i] \in S /\ upto[m][i] <= m BY <2>2
      <4>2. \A i \in DOMAIN upto[m] : upto[m][i] \in Nat BY <1>3, <4>1
      <4> QED BY <2>1, <4>1, <4>2
    <3>4. Upto(upto[m + 1], m + 1) BY <2>2, <3>1, <3>2, <3>3
    <3> HIDE DEF Upto
    <3> QED BY <2>1, <3>4
  <2>4. CASE m + 1 \in S
    <3> DEFINE s == upto[m]
               t == Append(s, m + 1)
    <3>1. upto[m + 1] = t BY <1>2, <2>1, <2>4
    <3> HIDE DEF s
    <3>2. s \in Seq(S) /\ Upto(s, m) BY <2>2 DEF s
    <3>3. /\ Len(s) \in Nat /\ DOMAIN s = 1..Len(s) /\ DOMAIN t = 1..(Len(s) + 1)
          /\ t[Len(s) + 1] = m + 1 /\ \A i \in DOMAIN s : t[i] = s[i] /\ s[i] \in S
      BY <3>2, <2>4
    <3> HIDE DEF t
    <3>4. \A i \in DOMAIN s : t[i] \in Nat /\ t[i] <= m
      <4>1. \A i \in DOMAIN s : s[i] \in Nat BY <1>3, <3>3
      <4> QED BY <3>2, <3>3, <4>1
    <3>5. \A i \in DOMAIN t : i \in DOMAIN s \/ i = Len(s) + 1 BY <3>3
    <3>6. \A i, j \in DOMAIN t : i < j => t[i] < t[j]
      <4>1. SUFFICES ASSUME NEW i \in DOMAIN t, NEW j \in DOMAIN t, i < j PROVE t[i] < t[j]
        OBVIOUS
      <4>2. i \in DOMAIN s BY <3>3, <3>5, <4>1
      <4>3. CASE j \in DOMAIN s BY <3>2, <3>3, <4>1, <4>2, <4>3
      <4>4. CASE j = Len(s) + 1 BY <2>1, <3>3, <3>4, <4>2, <4>4
      <4> QED BY <3>5, <4>3, <4>4
    <3>7. \A i \in DOMAIN t : t[i] <= m + 1 BY <2>1, <3>3, <3>4, <3>5
    <3>8. ASSUME NEW x \in S, x <= m + 1 PROVE \E i \in DOMAIN t : t[i] = x
      <4>1. CASE x = m + 1 BY <3>3, <4>1
      <4>2. CASE x <= m
        <5>1. PICK i \in DOMAIN s : s[i] = x BY <3>2, <4>2
        <5> QED BY <3>3, <5>1
      <4> QED BY <1>3, <2>1, <3>8, <4>1, <4>2
    <3>9. Upto(t, m + 1) BY <3>6, <3>7, <3>8
    <3> HIDE DEF Upto
    <3> QED BY <2>1, <3>1, <3>9
  <2> QED BY <2>3, <2>4
<1>6. C = 0..n
  <2>1. C \in SUBSET (0..n) OBVIOUS
  <2> HIDE DEF C
  <2> QED BY <1>3, <1>4, <1>5, <2>1, CountingUp
<1>7. upto[n] \in Seq(S) /\ Upto(upto[n], n)
  <2>1. n \in 0..n BY <1>3
  <2>2. n \in C
    <3> HIDE DEF C
    <3> QED BY <1>6, <2>1
  <2>3. Upto(upto[n], n) BY <2>2
  <2> QED BY <1>2, <2>1, <2>3
<1>8. \A x \in S : x <= n BY <1>3
<1> QED BY <1>1, <1>7, <1>8 DEF Ascends

\* A function on 1..n is a sequence of n elements.
LEMMA IsSequence ==
  ASSUME NEW n \in Nat, NEW X, NEW s \in [1..n -> X]
  PROVE  s \in Seq(X) /\ Len(s) = n /\ DOMAIN s = 1..n
OBVIOUS

\* The lines of a text of some kinds, from the first to the last.
LEMMA LinesAscend ==
  ASSUME NEW d \in Seq(LineKind), NEW kinds
  PROVE  Ascends(Lines(d, kinds), {i \in DOMAIN d : d[i] \in kinds})
<1> DEFINE S == {i \in DOMAIN d : d[i] \in kinds}
<1>1. Len(d) \in Nat /\ S \in SUBSET (1..Len(d)) OBVIOUS
<1>2. Lines(d, kinds) = InOrder(d, S) BY DEF Lines
<1> QED BY <1>1, <1>2, InOrderAscends

-----------------------------------------------------------------------------
(* The edits of the comments.                                              *)

Acts == {"rewrite", "trim", "drop", "hollow"}
EditSet == [at : Nat, to : Nat, does : Acts]

\* The lines with a comment that the plan acts on.
Acted(d) == {i \in DOMAIN d : d[i] \in Changing \ {"doubtful"}}

\* An edit of line i alone.
OfLine(e, i) ==
  /\ e \in EditSet /\ e.at = i
  /\ e.to = IF e.does = "drop" THEN i + 1 ELSE i

\* A comment's edit starts on its line and ends there or on the next.
LEMMA CommentEditIs ==
  ASSUME NEW mode \in LayoutKind, NEW kind \in Changing \ {"doubtful"}, NEW i \in Nat
  PROVE  /\ OfLine(CommentEdit(mode, kind, i), i)
         /\ mode = "compact" /\ kind = "remove" => CommentEdit(mode, kind, i).does = "drop"
<1>1. kind \in {"rewrite", "tail", "swallow", "remove"} BY DEF Changing
<1>2. CASE kind = "rewrite" BY <1>2 DEF CommentEdit, Edit, OfLine, EditSet, Acts
<1>3. CASE kind = "tail" BY <1>3 DEF CommentEdit, Edit, OfLine, EditSet, Acts
<1>4. CASE kind = "swallow" BY <1>4 DEF CommentEdit, Edit, OfLine, EditSet, Acts
<1>5. CASE kind = "remove" BY <1>5 DEF CommentEdit, Edit, OfLine, EditSet, Acts
<1> QED BY <1>1, <1>2, <1>3, <1>4, <1>5

\* The comments the plan considers, in the order of their lines.
LEMMA ConsideredIs ==
  ASSUME NEW d \in Seq(LineKind)
  PROVE  /\ Ascends(Considered(d), Acted(d))
         /\ Considered(d) \in Seq(DOMAIN d)
         /\ \A k \in DOMAIN Considered(d) :
              /\ Considered(d)[k] \in DOMAIN d /\ Considered(d)[k] \in Nat
              /\ d[Considered(d)[k]] \in Changing \ {"doubtful"}
<1>1. Ascends(Considered(d), Acted(d)) BY LinesAscend DEF Considered, Acted
<1>2. Considered(d) \in Seq(Acted(d)) BY <1>1 DEF Ascends
<1>3. \A i \in Acted(d) : i \in DOMAIN d /\ i \in Nat /\ d[i] \in Changing \ {"doubtful"}
  BY DEF Acted
<1> QED BY <1>1, <1>2, <1>3

\* There is one edit for each of them.
LEMMA CommentEditsAre ==
  ASSUME NEW mode \in LayoutKind, NEW d \in Seq(LineKind)
  PROVE  /\ CommentEdits(mode, d) \in Seq(EditSet)
         /\ Len(CommentEdits(mode, d)) = Len(Considered(d))
         /\ \A k \in DOMAIN Considered(d) :
              /\ OfLine(CommentEdits(mode, d)[k], Considered(d)[k])
              /\ mode = "compact" /\ d[Considered(d)[k]] = "remove" =>
                   CommentEdits(mode, d)[k].does = "drop"
<1> DEFINE lines == Considered(d)
           edits == CommentEdits(mode, d)
<1>1. edits = [k \in DOMAIN lines |-> CommentEdit(mode, d[lines[k]], lines[k])]
  BY DEF CommentEdits
<1>2. lines \in Seq(DOMAIN d) /\ \A k \in DOMAIN lines :
        lines[k] \in Nat /\ d[lines[k]] \in Changing \ {"doubtful"}
  BY ConsideredIs
<1> HIDE DEF lines, edits
<1>3. ASSUME NEW k \in DOMAIN lines
      PROVE  /\ OfLine(edits[k], lines[k])
             /\ mode = "compact" /\ d[lines[k]] = "remove" => edits[k].does = "drop"
  BY <1>1, <1>2, CommentEditIs
<1>4. edits \in [1..Len(lines) -> EditSet]
  <2>1. DOMAIN lines = 1..Len(lines) BY <1>2
  <2>2. \A k \in DOMAIN lines : edits[k] \in EditSet BY <1>3 DEF OfLine
  <2> QED BY <1>1, <2>1, <2>2
<1>5. Len(lines) \in Nat BY <1>2
<1>6. edits \in Seq(EditSet) /\ Len(edits) = Len(lines) BY <1>4, <1>5, IsSequence
<1> QED BY <1>3, <1>6 DEF lines, edits

\* The blank lines below a line, and above it.
LEMMA BlanksFromIs ==
  ASSUME NEW d \in Seq(LineKind), NEW i \in 1..(Len(d) + 1)
  PROVE  /\ BlanksFrom(d, i) \in 0..(Len(d) + 1 - i)
         /\ \A j \in i..(i + BlanksFrom(d, i) - 1) : d[j] = "blank"
         /\ \A n \in 0..(Len(d) + 1 - i) :
              (\A j \in i..(i + n - 1) : d[j] = "blank") => n <= BlanksFrom(d, i)
<1> DEFINE top == Len(d) + 1 - i
           S == {n \in 0..top : \A j \in i..(i + n - 1) : d[j] = "blank"}
<1>1. top \in Nat /\ S \in SUBSET (0..top) OBVIOUS
<1>2. 0 \in S BY <1>1
<1>3. Max(S) \in S /\ \A k \in S : k <= Max(S)
  <2> HIDE DEF S, top
  <2> QED BY <1>1, <1>2, GreatestOf
<1>4. BlanksFrom(d, i) = Max(S) BY DEF BlanksFrom
<1> QED BY <1>3, <1>4

\* The blank lines right above a line are all that there are.
LEMMA BlanksAboveIs ==
  ASSUME NEW d \in Seq(LineKind), NEW i \in 1..(Len(d) + 1)
  PROVE  /\ BlanksAbove(d, i) \in 0..(i - 1)
         /\ \A j \in (i - BlanksAbove(d, i))..(i - 1) : d[j] = "blank"
         /\ \A n \in 0..(i - 1) :
              (\A j \in (i - n)..(i - 1) : d[j] = "blank") => n <= BlanksAbove(d, i)
<1> DEFINE S == {n \in 0..(i - 1) : \A j \in (i - n)..(i - 1) : d[j] = "blank"}
<1>1. i - 1 \in Nat /\ S \in SUBSET (0..(i - 1)) OBVIOUS
<1>2. 0 \in S BY <1>1
<1>3. Max(S) \in S /\ \A k \in S : k <= Max(S)
  <2> HIDE DEF S
  <2> QED BY <1>1, <1>2, GreatestOf
<1>4. BlanksAbove(d, i) = Max(S) BY DEF BlanksAbove
<1> QED BY <1>3, <1>4

-----------------------------------------------------------------------------
(* The blank lines that compact takes back: the parts of Collapsed by name. *)

Compacted(d) == CommentEdits("compact", d)
MayWiden(d, k) ==
  /\ k \in DOMAIN Compacted(d) /\ k \in DOMAIN Collapsible(d)
  /\ Collapsible(d)[k] /\ Compacted(d)[k].does = "drop"
Touches(d, k) ==
  MayWiden(d, k) /\ MayWiden(d, k + 1) /\ Compacted(d)[k].to = Compacted(d)[k + 1].at
First(d, k) == Min({j \in 1..k : \A h \in j..(k - 1) : Touches(d, h)})
Taken(d, k) == Min({BlanksAbove(d, Compacted(d)[First(d, k)].at),
                      BlanksFrom(d, Compacted(d)[k].to)})
Ceiling(d, k) == IF k < Len(Compacted(d)) THEN Compacted(d)[k + 1].at ELSE Len(d) + 1
Widened(d, k) ==
  [Compacted(d)[k] EXCEPT !.to = Min({@ + Taken(d, k), Ceiling(d, k)})]

\* Collapsed in terms of its parts.
LEMMA CollapsedParts ==
  ASSUME NEW d
  PROVE  Collapsed(d) = [k \in DOMAIN Compacted(d) |->
           IF MayWiden(d, k) /\ ~Touches(d, k) THEN Widened(d, k) ELSE Compacted(d)[k]]
BY DEF Collapsed, Compacted, MayWiden, Touches, First, Taken, Ceiling, Widened

\* The lesser of two numbers.
LEMMA LesserOf ==
  ASSUME NEW a \in Nat, NEW b \in Nat
  PROVE  Min({a, b}) = IF a <= b THEN a ELSE b
<1>1. PICK n \in Nat : a <= n /\ b <= n
  <2>1. a + b \in Nat /\ a <= a + b /\ b <= a + b OBVIOUS
  <2> QED BY <2>1
<1>2. {a, b} \in SUBSET (0..n) /\ {a, b} # {} BY <1>1
<1>3. Min({a, b}) \in {a, b} /\ \A k \in {a, b} : Min({a, b}) <= k BY <1>2, LeastOf
<1> QED BY <1>3

\* Where a removal that is widened ends.
LEMMA WidenedIs ==
  ASSUME NEW d \in Seq(LineKind), NEW k \in DOMAIN Considered(d),
         Compacted(d)[k].does = "drop"
  PROVE  LET i     == Considered(d)[k]
             first == Considered(d)[First(d, k)]
             below == BlanksFrom(d, i + 1)
             above == BlanksAbove(d, first)
             ends  == i + 1 + (IF above <= below THEN above ELSE below)
         IN  /\ First(d, k) \in 1..k /\ i \in 1..Len(d) /\ first \in 1..Len(d)
             /\ \A h \in First(d, k)..(k - 1) : Touches(d, h)
             /\ \A j \in 1..k : (\A h \in j..(k - 1) : Touches(d, h)) => First(d, k) <= j
             /\ below \in Nat /\ above \in Nat /\ Ceiling(d, k) \in Nat /\ Ceiling(d, k) > i
             /\ Widened(d, k) \in EditSet
             /\ Widened(d, k).at = i /\ Widened(d, k).does = "drop"
             /\ Widened(d, k).to = IF ends <= Ceiling(d, k) THEN ends ELSE Ceiling(d, k)
<1> DEFINE lines == Considered(d)
           edits == Compacted(d)
           i == lines[k]
           J == {j \in 1..k : \A h \in j..(k - 1) : Touches(d, h)}
           m == First(d, k)
           first == lines[m]
           below == BlanksFrom(d, i + 1)
           above == BlanksAbove(d, first)
           ends  == i + 1 + (IF above <= below THEN above ELSE below)
<1>1. /\ lines \in Seq(DOMAIN d) /\ DOMAIN lines = 1..Len(lines) /\ Len(lines) \in Nat
      /\ \A h, j \in DOMAIN lines : h < j => lines[h] < lines[j]
      /\ \A h \in DOMAIN lines : lines[h] \in 1..Len(d) /\ lines[h] \in Nat
  BY ConsideredIs DEF Ascends
<1>2. edits \in Seq(EditSet) /\ Len(edits) = Len(lines)
      /\ \A h \in DOMAIN lines : OfLine(edits[h], lines[h])
  BY CommentEditsAre DEF LayoutKind, Compacted
<1>3. m \in J /\ \A j \in J : m <= j
  <2>1. k \in Nat /\ J \in SUBSET (0..k) /\ k \in J BY <1>1
  <2>2. m = Min(J) BY DEF First
  <2> HIDE DEF J, m
  <2> QED BY <2>1, <2>2, LeastOf
<1>4. m \in DOMAIN lines /\ m \in 1..k BY <1>1, <1>3
<1>5. /\ edits[k] \in EditSet /\ edits[k].at = i /\ edits[k].to = i + 1 /\ edits[k].does = "drop"
      /\ edits[m].at = first
  BY <1>2, <1>4 DEF OfLine
<1>6. i \in 1..Len(d) /\ first \in 1..Len(d) /\ Len(d) \in Nat BY <1>1, <1>4
<1>7. below \in Nat
  <2>1. i + 1 \in 1..(Len(d) + 1) BY <1>6
  <2>2. below \in 0..(Len(d) + 1 - (i + 1)) BY <2>1, BlanksFromIs
  <2> QED BY <1>6, <2>2
<1>8. above \in Nat
  <2>1. first \in 1..(Len(d) + 1) BY <1>6
  <2>2. above \in 0..(first - 1) BY <2>1, BlanksAboveIs
  <2> QED BY <1>6, <2>2
<1>9. Ceiling(d, k) \in Nat /\ Ceiling(d, k) > i
  <2>1. CASE k < Len(edits)
    <3>1. k + 1 \in DOMAIN lines /\ k < k + 1 BY <1>1, <1>2, <2>1
    <3>2. edits[k + 1].at = lines[k + 1] BY <1>2, <3>1 DEF OfLine
    <3>3. lines[k + 1] \in Nat /\ i < lines[k + 1] BY <1>1, <3>1
    <3> QED BY <1>6, <2>1, <3>2, <3>3 DEF Ceiling
  <2>2. CASE ~(k < Len(edits)) BY <1>6, <2>2 DEF Ceiling
  <2> QED BY <2>1, <2>2
<1> HIDE DEF m
<1>10. Taken(d, k) = IF above <= below THEN above ELSE below
  <2>1. Taken(d, k) = Min({above, below}) BY <1>5 DEF Taken, m
  <2> HIDE DEF above, below
  <2> QED BY <1>7, <1>8, <2>1, LesserOf
<1>11. Widened(d, k) = [edits[k] EXCEPT !.to = Min({ends, Ceiling(d, k)})]
  <2>1. edits[k].to + Taken(d, k) = ends BY <1>5, <1>10
  <2> HIDE DEF ends
  <2> QED BY <2>1 DEF Widened
<1>12. ends \in Nat BY <1>6, <1>7, <1>8
<1>13. Min({ends, Ceiling(d, k)}) = IF ends <= Ceiling(d, k) THEN ends ELSE Ceiling(d, k)
  <2> HIDE DEF ends
  <2> QED BY <1>9, <1>12, LesserOf
<1>14. /\ Widened(d, k) \in EditSet
       /\ Widened(d, k).at = i /\ Widened(d, k).does = "drop"
       /\ Widened(d, k).to = IF ends <= Ceiling(d, k) THEN ends ELSE Ceiling(d, k)
  <2> DEFINE to == IF ends <= Ceiling(d, k) THEN ends ELSE Ceiling(d, k)
  <2>1. Widened(d, k) = [edits[k] EXCEPT !.to = to] /\ to \in Nat
    <3> HIDE DEF ends, edits
    <3> QED BY <1>9, <1>11, <1>12, <1>13
  <2> HIDE DEF to
  <2>2. /\ Widened(d, k) \in EditSet /\ Widened(d, k).at = i
        /\ Widened(d, k).does = "drop" /\ Widened(d, k).to = to
    <3> HIDE DEF edits, i
    <3> QED BY <1>5, <2>1 DEF EditSet
  <2> QED BY <2>2 DEF to
<1>15. m \in 1..k /\ \A h \in m..(k - 1) : Touches(d, h) BY <1>3
<1>16. \A j \in 1..k : (\A h \in j..(k - 1) : Touches(d, h)) => m <= j BY <1>3
<1> QED BY <1>6, <1>7, <1>8, <1>9, <1>14, <1>15, <1>16 DEF m

\* An edit that begins on line i: of the lines behind it, it takes none but blank ones.
Wide(d, e, i) ==
  /\ e \in EditSet /\ e.at = i
  /\ IF e.does = "drop" THEN e.to > i ELSE e.to = i
  /\ \A j \in DOMAIN d : i < j /\ j < e.to => d[j] = "blank"

\* Compact has one edit for each comment too, and it takes blank lines only.
LEMMA CollapsedAre ==
  ASSUME NEW d \in Seq(LineKind)
  PROVE  /\ Collapsed(d) \in Seq(EditSet)
         /\ Len(Collapsed(d)) = Len(Considered(d))
         /\ \A k \in DOMAIN Considered(d) : Wide(d, Collapsed(d)[k], Considered(d)[k])
<1> DEFINE lines == Considered(d)
           edits == Compacted(d)
           all   == Collapsed(d)
<1>1. /\ DOMAIN lines = 1..Len(lines) /\ Len(lines) \in Nat
      /\ \A h \in DOMAIN lines : lines[h] \in 1..Len(d) /\ lines[h] \in Nat
  BY ConsideredIs
<1>2. /\ edits \in Seq(EditSet) /\ Len(edits) = Len(lines)
      /\ \A h \in DOMAIN lines : OfLine(edits[h], lines[h])
  BY CommentEditsAre DEF LayoutKind, Compacted
<1>3. DOMAIN edits = DOMAIN lines BY <1>1, <1>2
<1>4. all = [k \in DOMAIN lines |->
               IF MayWiden(d, k) /\ ~Touches(d, k) THEN Widened(d, k) ELSE edits[k]]
  BY <1>3, CollapsedParts
<1> HIDE DEF all
<1>5. ASSUME NEW k \in DOMAIN lines PROVE Wide(d, all[k], lines[k])
  <2>1. CASE MayWiden(d, k) /\ ~Touches(d, k)
    <3> DEFINE i == lines[k]
               below == BlanksFrom(d, i + 1)
    <3>1. edits[k].does = "drop" BY <2>1 DEF MayWiden
    <3>2. /\ Widened(d, k) \in EditSet /\ Widened(d, k).at = i
          /\ Widened(d, k).does = "drop" /\ i \in 1..Len(d)
          /\ Widened(d, k).to > i /\ Widened(d, k).to <= i + 1 + below /\ below \in Nat
      BY <3>1, WidenedIs DEF EditSet
    <3>3. i + 1 \in 1..(Len(d) + 1) BY <3>2
    <3>4. \A j \in (i + 1)..((i + 1) + below - 1) : d[j] = "blank" BY <3>3, BlanksFromIs
    <3>5. ASSUME NEW j \in DOMAIN d, i < j, j < Widened(d, k).to PROVE d[j] = "blank"
      <4>1. Widened(d, k).to \in Nat /\ j \in Nat BY <3>2, <3>5 DEF EditSet
      <4>2. j \in (i + 1)..((i + 1) + below - 1)
        <5> HIDE DEF below, i
        <5> QED BY <3>2, <3>5, <4>1
      <4> QED BY <3>4, <4>2
    <3>6. all[k] = Widened(d, k) BY <1>4, <2>1
    <3> QED BY <3>2, <3>5, <3>6 DEF Wide
  <2>2. CASE ~(MayWiden(d, k) /\ ~Touches(d, k))
    <3>1. all[k] = edits[k] BY <1>4, <2>2
    <3>2. OfLine(edits[k], lines[k]) /\ lines[k] \in Nat BY <1>1, <1>2
    <3>3. \A j \in DOMAIN d : ~(lines[k] < j /\ j < edits[k].to) BY <3>2 DEF OfLine
    <3> QED BY <3>1, <3>2, <3>3 DEF OfLine, Wide
  <2> QED BY <2>1, <2>2
<1>6. all \in [1..Len(lines) -> EditSet] BY <1>1, <1>4, <1>5 DEF Wide
<1>7. all \in Seq(EditSet) /\ Len(all) = Len(lines) BY <1>1, <1>6, IsSequence
<1> QED BY <1>5, <1>7 DEF all

-----------------------------------------------------------------------------
(* The plan, and what is offered of it.                                     *)

\* A paragraph's edit takes no line away, and there is none without prose.
LEMMA RunEditsAre ==
  ASSUME NEW d \in Seq(LineKind)
  PROVE  \A e \in ToSet(RunEdits(d)) :
           e.at \in DOMAIN d /\ d[e.at] = "prose" /\ e.to = e.at /\ e.does = "reflow"
<1> DEFINE S == {i \in DOMAIN d : d[i] = "prose" /\ (i = 1 \/ d[i - 1] # "prose")}
           heads == InOrder(d, S)
<1>1. Len(d) \in Nat /\ S \in SUBSET (1..Len(d)) OBVIOUS
<1>2. Ascends(heads, S)
  <2> HIDE DEF S
  <2> QED BY <1>1, InOrderAscends
<1>3. RunEdits(d) = [k \in DOMAIN heads |-> Edit(heads[k], heads[k], "reflow")]
  BY DEF RunEdits
<1>4. \A k \in DOMAIN heads : heads[k] \in S BY <1>2 DEF Ascends
<1> HIDE DEF heads
<1>5. SUFFICES ASSUME NEW k \in DOMAIN heads
               PROVE  LET e == Edit(heads[k], heads[k], "reflow") IN
                        e.at \in DOMAIN d /\ d[e.at] = "prose" /\ e.to = e.at /\ e.does = "reflow"
  BY <1>3 DEF ToSet
<1> QED BY <1>4 DEF Edit

\* Edits put in the order of the lines they start on.
LEMMA ByStartIs ==
  ASSUME NEW d \in Seq(LineKind), NEW edits, \A e \in edits : e.at \in DOMAIN d
  PROVE  LET starts == InOrder(d, {e.at : e \in edits})
             sorted == ByStart(d, edits)
         IN  /\ sorted \in Seq(edits) /\ Len(sorted) = Len(starts) /\ Len(starts) \in Nat
             /\ DOMAIN sorted = 1..Len(sorted)
             /\ \A k \in DOMAIN sorted : sorted[k] \in edits /\ sorted[k].at = starts[k]
<1> DEFINE S == {e.at : e \in edits}
           starts == InOrder(d, S)
           sorted == ByStart(d, edits)
<1>1. Len(d) \in Nat /\ S \in SUBSET (1..Len(d)) OBVIOUS
<1>2. Ascends(starts, S)
  <2> HIDE DEF S
  <2> QED BY <1>1, InOrderAscends
<1>3. starts \in Seq(S) BY <1>2 DEF Ascends
<1>4. sorted = [k \in DOMAIN starts |-> CHOOSE e \in edits : e.at = starts[k]]
  BY DEF ByStart
<1> HIDE DEF starts, sorted
<1>5. DOMAIN starts = 1..Len(starts) /\ Len(starts) \in Nat BY <1>3
<1>6. ASSUME NEW k \in DOMAIN starts PROVE sorted[k] \in edits /\ sorted[k].at = starts[k]
  <2>1. starts[k] \in S BY <1>3, <1>6
  <2>2. \E e \in edits : e.at = starts[k] BY <2>1
  <2> QED BY <1>4, <1>6, <2>2
<1>7. sorted \in [1..Len(starts) -> edits] BY <1>4, <1>5, <1>6
<1>8. sorted \in Seq(edits) /\ Len(sorted) = Len(starts) /\ DOMAIN sorted = 1..Len(starts)
  BY <1>5, <1>7, IsSequence
<1> QED BY <1>5, <1>6, <1>8 DEF starts, sorted

\* The edits of the comments, as the layout makes them.
Layout(mode, d) == IF mode = "compact" THEN Collapsed(d) ELSE CommentEdits(mode, d)

\* So has every layout.
LEMMA LayoutIs ==
  ASSUME NEW mode \in LayoutKind, NEW d \in Seq(LineKind)
  PROVE  /\ Layout(mode, d) \in Seq(EditSet)
         /\ Len(Layout(mode, d)) = Len(Considered(d))
         /\ DOMAIN Layout(mode, d) = DOMAIN Considered(d)
         /\ \A k \in DOMAIN Considered(d) :
              Wide(d, Layout(mode, d)[k], Considered(d)[k])
<1> DEFINE lines == Considered(d)
           plan  == Layout(mode, d)
<1>1. lines \in Seq(DOMAIN d) /\ \A k \in DOMAIN lines : lines[k] \in Nat BY ConsideredIs
<1>2. CASE mode = "compact"
  <2>1. plan = Collapsed(d) BY <1>2 DEF Layout
  <2>2. /\ plan \in Seq(EditSet) /\ Len(plan) = Len(lines)
        /\ \A k \in DOMAIN lines : Wide(d, plan[k], lines[k])
    BY <2>1, CollapsedAre
  <2> HIDE DEF plan, lines
  <2>3. DOMAIN plan = DOMAIN lines BY <1>1, <2>2
  <2> QED BY <2>2, <2>3 DEF plan, lines
<1>3. CASE mode # "compact"
  <2>1. plan = CommentEdits(mode, d) BY <1>3 DEF Layout
  <2>2. /\ plan \in Seq(EditSet) /\ Len(plan) = Len(lines)
        /\ \A k \in DOMAIN lines : OfLine(plan[k], lines[k])
    BY <2>1, CommentEditsAre
  <2> HIDE DEF plan, lines
  <2>3. DOMAIN plan = DOMAIN lines BY <1>1, <2>2
  <2>4. \A k \in DOMAIN lines : Wide(d, plan[k], lines[k])
    <3> SUFFICES ASSUME NEW k \in DOMAIN lines PROVE Wide(d, plan[k], lines[k])
      OBVIOUS
    <3>1. OfLine(plan[k], lines[k]) /\ lines[k] \in Nat BY <1>1, <2>2
    <3>2. \A j \in DOMAIN d : ~(lines[k] < j /\ j < plan[k].to) BY <3>1 DEF OfLine
    <3> QED BY <3>1, <3>2 DEF OfLine, Wide
  <2> QED BY <2>2, <2>3, <2>4 DEF plan, lines
<1> QED BY <1>2, <1>3

PlanSet(mode, d) == ToSet(Layout(mode, d)) \cup ToSet(RunEdits(d))

\* The plan is made of the edits of comments and paragraphs; without a paragraph it is the
\* edits of the comments, in their order.
LEMMA PlanIs ==
  ASSUME NEW mode \in LayoutKind, NEW d \in Seq(LineKind)
  PROVE  /\ PlanEdits(mode, d) \in Seq(PlanSet(mode, d))
         /\ Len(PlanEdits(mode, d)) \in Nat
         /\ "prose" \notin ToSet(d) => PlanEdits(mode, d) = Layout(mode, d)
<1> DEFINE edits == PlanSet(mode, d)
           lines == Considered(d)
           comments == Layout(mode, d)
           plan == PlanEdits(mode, d)
           starts == InOrder(d, {e.at : e \in edits})
<1>1. /\ comments \in Seq(EditSet) /\ Len(comments) = Len(lines) /\ DOMAIN comments = DOMAIN lines
      /\ \A k \in DOMAIN lines : Wide(d, comments[k], lines[k])
  BY LayoutIs
<1>2. /\ DOMAIN lines = 1..Len(lines) /\ Len(lines) \in Nat
      /\ \A k \in DOMAIN lines : lines[k] \in DOMAIN d /\ lines[k] \in Nat
      /\ \A h, j \in DOMAIN lines : h < j => lines[h] < lines[j]
      /\ \A x \in Acted(d) : \E k \in DOMAIN lines : lines[k] = x
      /\ \A k \in DOMAIN lines : lines[k] \in Acted(d)
  BY ConsideredIs DEF Ascends
<1>3. \A e \in ToSet(RunEdits(d)) : e.at \in DOMAIN d /\ d[e.at] = "prose" BY RunEditsAre
<1>4. \A k \in DOMAIN comments : comments[k].at = lines[k] BY <1>1 DEF Wide
<1>5. \A e \in ToSet(comments) : \E k \in DOMAIN comments : e = comments[k]
  BY DEF ToSet
<1>6. \A e \in edits : e.at \in DOMAIN d
  <2> HIDE DEF comments, lines
  <2> QED BY <1>1, <1>2, <1>3, <1>4, <1>5 DEF PlanSet, comments
<1>7. plan = ByStart(d, edits) BY DEF PlanEdits, PlanSet, Layout
<1>8. /\ plan \in Seq(edits) /\ Len(plan) = Len(starts) /\ Len(starts) \in Nat
      /\ DOMAIN plan = 1..Len(plan)
      /\ \A k \in DOMAIN plan : plan[k] \in edits /\ plan[k].at = starts[k]
  <2> HIDE DEF edits, plan
  <2> QED BY <1>6, <1>7, ByStartIs
<1>9. ASSUME "prose" \notin ToSet(d) PROVE plan = comments
  <2>1. ToSet(RunEdits(d)) = {} BY <1>3, <1>9 DEF ToSet
  <2>2. edits = ToSet(comments) BY <2>1 DEF PlanSet
  <2>3. {e.at : e \in edits} = Acted(d)
    <3> HIDE DEF comments, lines, edits
    <3>1. \A e \in edits : e.at \in Acted(d) BY <1>1, <1>2, <1>4, <1>5, <2>2
    <3>2. ASSUME NEW x \in Acted(d) PROVE \E e \in edits : e.at = x
      <4>1. PICK k \in DOMAIN lines : lines[k] = x BY <1>2
      <4>2. comments[k] \in edits /\ comments[k].at = x BY <1>1, <1>4, <2>2, <4>1 DEF ToSet
      <4> QED BY <4>2
    <3> QED BY <3>1, <3>2
  <2>4. starts = lines
    <3>1. starts = InOrder(d, Acted(d))
      <4> HIDE DEF edits
      <4> QED BY <2>3
    <3>2. lines = InOrder(d, Acted(d)) BY DEF Considered, Lines, Acted
    <3> QED BY <3>1, <3>2
  <2> HIDE DEF plan, comments, lines, edits, starts
  <2>5. DOMAIN plan = DOMAIN comments /\ DOMAIN comments = 1..Len(lines)
    BY <1>1, <1>2, <1>8, <2>4
  <2>6. ASSUME NEW k \in DOMAIN plan PROVE plan[k] = comments[k]
    <3>1. plan[k] \in ToSet(comments) /\ plan[k].at = lines[k] BY <1>8, <2>2, <2>4, <2>6
    <3>2. PICK j \in DOMAIN comments : plan[k] = comments[j] BY <1>5, <3>1
    <3>3. lines[j] = lines[k] BY <1>4, <3>1, <3>2
    <3>4. j = k
      <4>1. j \in DOMAIN lines /\ k \in DOMAIN lines /\ lines[j] \in Nat BY <1>1, <1>2, <2>5, <2>6
      <4>2. ~(j < k) /\ ~(k < j) BY <1>2, <3>3, <4>1
      <4> QED BY <1>2, <4>1, <4>2
    <3> QED BY <3>2, <3>4
  <2>7. plan = [k \in DOMAIN plan |-> plan[k]] BY <1>8
  <2>8. comments = [k \in DOMAIN comments |-> comments[k]] BY <1>1
  <2>9. [k \in DOMAIN plan |-> plan[k]] = [k \in DOMAIN comments |-> comments[k]]
    BY <2>5, <2>6
  <2> QED BY <2>7, <2>8, <2>9
<1> HIDE DEF plan, comments, edits, starts
<1>10. Len(plan) \in Nat BY <1>8
<1> QED BY <1>8, <1>9, <1>10 DEF plan, comments, edits

-----------------------------------------------------------------------------
(* What is offered.                                                        *)

\* What a file is asked about, of the plan of a layout.
OffersOf(mode, d) ==
  LET comments == Lines(d, Changing)
      edits    == PlanEdits(mode, d)
  IN  [k \in 1..Min({Len(comments), Len(edits)}) |-> [line |-> comments[k], edit |-> edits[k]]]

\* An offer is a line with an edit of the plan.
LEMMA OffersAre ==
  ASSUME NEW mode \in LayoutKind, NEW d \in Seq(LineKind)
  PROVE  OffersOf(mode, d) \in Seq([line : DOMAIN d, edit : PlanSet(mode, d)])
<1> DEFINE comments == Lines(d, Changing)
           edits == PlanEdits(mode, d)
           offers == OffersOf(mode, d)
           m == Min({Len(comments), Len(edits)})
           S == {i \in DOMAIN d : d[i] \in Changing}
           X == [line : DOMAIN d, edit : PlanSet(mode, d)]
<1>1. comments \in Seq(DOMAIN d)
  <2>1. comments \in Seq(S)
    <3> HIDE DEF S
    <3>1. Ascends(comments, S) BY LinesAscend DEF S
    <3> QED BY <3>1 DEF Ascends
  <2> QED BY <2>1
<1>2. edits \in Seq(PlanSet(mode, d)) BY PlanIs
<1>3. offers = [k \in 1..m |-> [line |-> comments[k], edit |-> edits[k]]] BY DEF OffersOf
<1> HIDE DEF comments, edits, offers
<1>4. m \in Nat /\ m <= Len(comments) /\ m <= Len(edits)
  <2>1. Len(comments) \in Nat /\ Len(edits) \in Nat BY <1>1, <1>2
  <2> QED BY <2>1, LesserOf
<1> HIDE DEF m
<1>5. offers \in [1..m -> X] BY <1>1, <1>2, <1>3, <1>4
<1>6. offers \in Seq(X)
  <2> HIDE DEF X
  <2> QED BY <1>4, <1>5, IsSequence
<1> QED BY <1>6 DEF offers

\* A file without a paragraph to reflow and without damage.
Plain(d) == ToSet(d) \cap {"prose", "doubtful"} = {}

\* There each comment is offered with its own edit.
LEMMA PlainOffers ==
  ASSUME NEW mode \in LayoutKind, NEW d \in Seq(LineKind), Plain(d)
  PROVE  /\ DOMAIN OffersOf(mode, d) = DOMAIN Considered(d)
         /\ \A k \in DOMAIN Considered(d) :
              /\ OffersOf(mode, d)[k].line = Considered(d)[k]
              /\ OffersOf(mode, d)[k].edit = Layout(mode, d)[k]
<1> DEFINE lines == Considered(d)
<1>1. \A i \in DOMAIN d : d[i] # "prose" /\ d[i] # "doubtful" BY DEF Plain, ToSet
<1>2. Lines(d, Changing) = lines
  <2>1. {i \in DOMAIN d : d[i] \in Changing} = {i \in DOMAIN d : d[i] \in Changing \ {"doubtful"}}
    BY <1>1
  <2> QED BY <2>1 DEF Lines, Considered
<1>3. PlanEdits(mode, d) = Layout(mode, d) BY PlanIs DEF Plain
<1>4. lines \in Seq(DOMAIN d) BY ConsideredIs
<1>5. Len(Layout(mode, d)) = Len(lines) BY LayoutIs
<1> HIDE DEF lines
<1>6. Len(lines) \in Nat /\ DOMAIN lines = 1..Len(lines) BY <1>4
<1>7. Min({Len(lines), Len(lines)}) = Len(lines) BY <1>6, LesserOf
<1>8. OffersOf(mode, d) =
        [k \in DOMAIN lines |-> [line |-> lines[k], edit |-> Layout(mode, d)[k]]]
  <2>1. OffersOf(mode, d) = [k \in 1..Min({Len(lines), Len(Layout(mode, d))}) |->
                                [line |-> lines[k], edit |-> Layout(mode, d)[k]]]
    BY <1>2, <1>3 DEF OffersOf
  <2> QED BY <1>5, <1>6, <1>7, <2>1
<1> QED BY <1>8 DEF lines

-----------------------------------------------------------------------------
(* The questions.                                                          *)

Asked(mode, tree, chosen) == [f \in File |-> {OffersOf(mode, tree[f])[k].line : k \in chosen[f]}]

\* What holds of the questions: one is asked about an offer of a file, only offers are
\* accepted, and until an abort the reader has said what was accepted.
Asking ==
  /\ layout \in LayoutKind /\ doc \in Trees
  /\ verdict \in {"asking", "write", "aborted"}
  /\ verdict = "asking" => at \in File /\ index \in DOMAIN OffersOf(layout, doc[at])
  /\ accepted \in [File -> SUBSET Nat]
  /\ \A f \in File : accepted[f] \subseteq DOMAIN OffersOf(layout, doc[f])
  /\ verdict # "aborted" => said = Asked(layout, doc, accepted)

\* The files are texts.
LEMMA TreeIs ==
  ASSUME NEW tree \in Trees, NEW f \in File
  PROVE  tree[f] \in Seq(LineKind)
BY TreesAssumption

\* The next question, from some file on, is about an offer.
LEMMA AskIs ==
  ASSUME NEW mode \in LayoutKind, NEW tree \in Trees, NEW from \in Nat, from >= 1,
         NEW more, more = {g \in from..Files : OffersOf(mode, tree[g]) # <<>>}, more # {}
  PROVE  Min(more) \in File /\ 1 \in DOMAIN OffersOf(mode, tree[Min(more)])
<1>1. Files \in Nat BY FilesAssumption
<1>2. more \in SUBSET (0..Files) BY <1>1
<1>3. Min(more) \in more BY <1>1, <1>2, LeastOf
<1>4. Min(more) \in File /\ OffersOf(mode, tree[Min(more)]) # <<>>
  BY <1>1, <1>3 DEF File
<1>5. OffersOf(mode, tree[Min(more)])
        \in Seq([line : DOMAIN tree[Min(more)], edit : PlanSet(mode, tree[Min(more)])])
  BY <1>4, TreeIs, OffersAre
<1>6. Len(OffersOf(mode, tree[Min(more)])) >= 1 BY <1>4, <1>5
<1> QED BY <1>4, <1>5, <1>6

\* Offers is OffersOf under the layout of the run.
LEMMA OffersIs == \A d : Offers(d) = OffersOf(layout, d)
BY DEF Offers, OffersOf

\* Ask leads to an offer or to the end.
LEMMA AskKeeps ==
  ASSUME Asking, NEW from \in Nat, from >= 1, Ask(from), UNCHANGED <<layout, doc>>
  PROVE  /\ verdict' \in {"asking", "write"}
         /\ verdict' = "asking" => at' \in File /\ index' \in DOMAIN OffersOf(layout, doc[at'])
<1> DEFINE more == {g \in from..Files : OffersOf(layout, doc[g]) # <<>>}
<1>1. {g \in from..Files : Offers(doc[g]) # <<>>} = more BY OffersIs
<1>2. /\ index' = 1
      /\ IF more # {} THEN at' = Min(more) /\ verdict' = "asking"
                      ELSE at' = Files + 1 /\ verdict' = "write"
  BY <1>1 DEF Ask
<1>3. layout \in LayoutKind /\ doc \in Trees BY DEF Asking
<1>4. more # {} => Min(more) \in File /\ 1 \in DOMAIN OffersOf(layout, doc[Min(more)])
  <2>1. SUFFICES ASSUME NEW S, S = more, S # {}
                 PROVE  Min(S) \in File /\ 1 \in DOMAIN OffersOf(layout, doc[Min(S)])
    OBVIOUS
  <2> QED BY <1>3, <2>1, AskIs
<1> QED BY <1>2, <1>4

\* The first question is about an offer.
LEMMA AskingInit == Init => Asking
<1> SUFFICES ASSUME Init PROVE Asking
  OBVIOUS
<1> DEFINE more == {g \in 1..Files : OffersOf(layout, doc[g]) # <<>>}
<1>1. layout \in LayoutKind /\ doc \in Trees /\ index = 1
      /\ accepted = [f \in File |-> {}] /\ said = [f \in File |-> {}]
  BY DEF Init
<1>2. {g \in File : Offers(doc[g]) # <<>>} = more BY OffersIs DEF File
<1>3. IF more # {} THEN at = Min(more) /\ verdict = "asking"
                   ELSE at = Files + 1 /\ verdict = "write"
  BY <1>2 DEF Init
<1>4. more # {} => Min(more) \in File /\ 1 \in DOMAIN OffersOf(layout, doc[Min(more)])
  <2>1. SUFFICES ASSUME NEW S, S = more, S # {}
                 PROVE  Min(S) \in File /\ 1 \in DOMAIN OffersOf(layout, doc[Min(S)])
    OBVIOUS
  <2> QED BY <1>1, <2>1, AskIs
<1>5. said = Asked(layout, doc, accepted)
  <2>1. \A f \in File : {OffersOf(layout, doc[f])[k].line : k \in accepted[f]} = {} BY <1>1
  <2> QED BY <1>1, <2>1 DEF Asked
<1> HIDE DEF more
<1> QED BY <1>1, <1>3, <1>4, <1>5 DEF Asking

\* The next comment of the file or the next file keeps the question about an offer.
LEMMA NextOfferKeeps ==
  ASSUME Asking, verdict = "asking", NextOffer, UNCHANGED <<layout, doc>>
  PROVE  /\ verdict' \in {"asking", "write"}
         /\ verdict' = "asking" => at' \in File /\ index' \in DOMAIN OffersOf(layout, doc[at'])
<1>1. at \in File /\ index \in DOMAIN OffersOf(layout, doc[at]) BY DEF Asking
<1>2. at + 1 \in Nat /\ at + 1 >= 1 BY <1>1, FilesAssumption DEF File
<1>3. Here = OffersOf(layout, doc[at]) BY OffersIs DEF Here
<1>4. OffersOf(layout, doc[at]) \in Seq([line : DOMAIN doc[at], edit : PlanSet(layout, doc[at])])
  BY <1>1, TreeIs, OffersAre DEF Asking
<1>5. CASE index < Len(Here)
  <2>1. index' = index + 1 /\ at' = at /\ verdict' = verdict BY <1>5 DEF NextOffer
  <2>2. index + 1 \in DOMAIN OffersOf(layout, doc[at]) BY <1>1, <1>3, <1>4, <1>5
  <2> QED BY <1>1, <2>1, <2>2
<1>6. CASE ~(index < Len(Here))
  <2>1. Ask(at + 1) BY <1>6 DEF NextOffer
  <2> QED BY <1>2, <2>1, AskKeeps
<1> QED BY <1>5, <1>6

\* Accepting some offers of the file and saying so.
LEMMA AcceptKeeps ==
  ASSUME Asking, verdict = "asking", UNCHANGED <<layout, doc>>,
         NEW from \in Nat, NEW to \in Nat,
         from..to \subseteq DOMAIN Here, Accept(from..to), Means(from, to)
  PROVE  /\ accepted' \in [File -> SUBSET Nat]
         /\ \A f \in File : accepted'[f] \subseteq DOMAIN OffersOf(layout, doc[f])
         /\ said' = Asked(layout, doc, accepted')
<1>1. at \in File /\ accepted \in [File -> SUBSET Nat] /\ said = Asked(layout, doc, accepted)
      /\ \A f \in File : accepted[f] \subseteq DOMAIN OffersOf(layout, doc[f])
  BY DEF Asking
<1>2. Here = OffersOf(layout, doc[at]) BY OffersIs DEF Here
<1>3. accepted' = [accepted EXCEPT ![at] = @ \cup (from..to)] BY DEF Accept
<1>4. said' = [said EXCEPT ![at] = @ \cup {OffersOf(layout, doc[at])[k].line : k \in from..to}]
  BY <1>2 DEF Means
<1>5. accepted' \in [File -> SUBSET Nat] BY <1>1, <1>3
<1>6. \A f \in File : accepted'[f] \subseteq DOMAIN OffersOf(layout, doc[f])
  BY <1>1, <1>2, <1>3
<1>7. said' = Asked(layout, doc, accepted')
  <2>1. said \in [File -> {said[f] : f \in File}] /\ DOMAIN said = File BY <1>1 DEF Asked
  <2>2. ASSUME NEW f \in File
        PROVE  said'[f] = {OffersOf(layout, doc[f])[k].line : k \in accepted'[f]}
    <3>0. said[f] = {OffersOf(layout, doc[f])[k].line : k \in accepted[f]} BY <1>1 DEF Asked
    <3>1. CASE f = at
      <4>1. said'[f] = said[f] \cup {OffersOf(layout, doc[f])[k].line : k \in from..to}
        BY <1>4, <2>1, <3>1
      <4>2. accepted'[f] = accepted[f] \cup (from..to) BY <1>1, <1>3, <3>1
      <4> QED BY <3>0, <4>1, <4>2
    <3>2. CASE f # at
      <4>1. said'[f] = said[f] /\ accepted'[f] = accepted[f] BY <1>1, <1>3, <1>4, <2>1, <3>2
      <4> QED BY <3>0, <4>1
    <3> QED BY <3>1, <3>2
  <2>3. said' = [f \in File |-> said'[f]] BY <1>4, <2>1
  <2> QED BY <2>2, <2>3 DEF Asked
<1> QED BY <1>5, <1>6, <1>7

\* No answer disturbs it.
LEMMA AskingKept == Asking /\ [Next]_vars => Asking'
<1> SUFFICES ASSUME Asking, [Next]_vars PROVE Asking'
  OBVIOUS
<1>1. CASE Yes
  <2>1. verdict = "asking" /\ UNCHANGED <<layout, doc>> /\ NextOffer BY <1>1 DEF Yes
  <2>2. at \in File /\ index \in DOMAIN OffersOf(layout, doc[at]) BY <2>1 DEF Asking
  <2>3. Here = OffersOf(layout, doc[at]) BY OffersIs DEF Here
  <2>4. OffersOf(layout, doc[at])
          \in Seq([line : DOMAIN doc[at], edit : PlanSet(layout, doc[at])])
    BY <2>2, TreeIs, OffersAre DEF Asking
  <2>5. index \in Nat /\ index..index = {index} /\ index..index \subseteq DOMAIN Here
    BY <2>2, <2>3, <2>4
  <2>6. Accept(index..index) /\ Means(index, index)
    BY <1>1, <2>5 DEF Yes
  <2>7. /\ accepted' \in [File -> SUBSET Nat]
        /\ \A f \in File : accepted'[f] \subseteq DOMAIN OffersOf(layout, doc[f])
        /\ said' = Asked(layout, doc, accepted')
    BY <2>1, <2>5, <2>6, AcceptKeeps
  <2> QED BY <2>1, <2>7, NextOfferKeeps DEF Asking
<1>2. CASE No
  <2>1. verdict = "asking" /\ UNCHANGED <<layout, doc, accepted, said>> /\ NextOffer
    BY <1>2 DEF No
  <2> QED BY <2>1, NextOfferKeeps DEF Asking
<1>3. CASE AllInFile
  <2>1. verdict = "asking" /\ UNCHANGED <<layout, doc>> /\ Ask(at + 1)
        /\ Accept(index..Len(Here)) /\ Means(index, Len(Here))
    BY <1>3 DEF AllInFile
  <2>2. at \in File /\ index \in DOMAIN OffersOf(layout, doc[at]) BY <2>1 DEF Asking
  <2>3. Here = OffersOf(layout, doc[at]) BY OffersIs DEF Here
  <2>4. OffersOf(layout, doc[at])
          \in Seq([line : DOMAIN doc[at], edit : PlanSet(layout, doc[at])])
    BY <2>2, TreeIs, OffersAre DEF Asking
  <2>5. index \in Nat /\ Len(Here) \in Nat /\ index..Len(Here) \subseteq DOMAIN Here
    BY <2>2, <2>3, <2>4
  <2>6. /\ accepted' \in [File -> SUBSET Nat]
        /\ \A f \in File : accepted'[f] \subseteq DOMAIN OffersOf(layout, doc[f])
        /\ said' = Asked(layout, doc, accepted')
    BY <2>1, <2>5, AcceptKeeps
  <2>7. at + 1 \in Nat /\ at + 1 >= 1 BY <2>2, FilesAssumption DEF File
  <2> QED BY <2>1, <2>6, <2>7, AskKeeps DEF Asking
<1>4. CASE NoneInFile
  <2>1. verdict = "asking" /\ UNCHANGED <<layout, doc, accepted, said>> /\ Ask(at + 1)
    BY <1>4 DEF NoneInFile
  <2>2. at \in File BY <2>1 DEF Asking
  <2>3. at + 1 \in Nat /\ at + 1 >= 1 BY <2>2, FilesAssumption DEF File
  <2> QED BY <2>1, <2>3, AskKeeps DEF Asking
<1>5. CASE Stop BY <1>5 DEF Stop, Asking
<1>6. CASE Abort BY <1>6 DEF Abort, Asking
<1>7. CASE Ended BY <1>7 DEF Ended, vars, Asking
<1>8. CASE UNCHANGED vars BY <1>8 DEF vars, Asking
<1> QED BY <1>1, <1>2, <1>3, <1>4, <1>5, <1>6, <1>7, <1>8 DEF Next

\* Whatever the answers, the reader is asked about offers, only offers are accepted, and
\* what is accepted is what was said.
THEOREM QuestionsAreOffers == Spec => []Asking
BY AskingInit, AskingKept, PTL DEF Spec

-----------------------------------------------------------------------------
(* What is written is what was answered.                                   *)

\* A line is touched by the chosen edits exactly if its own edit is one of them.
LEMMA TouchedByItsOwn ==
  ASSUME NEW mode \in LayoutKind, NEW d \in Seq(LineKind), Plain(d),
         NEW picked \in SUBSET DOMAIN OffersOf(mode, d),
         NEW i \in DOMAIN d, d[i] # "blank"
  PROVE  LET chosen == {OffersOf(mode, d)[k].edit : k \in picked} IN
         i \in {OffersOf(mode, d)[k].line : k \in picked} <=> Applied(d, chosen)[i] # "same"
<1> DEFINE lines == Considered(d)
           edits == Layout(mode, d)
           chosen == {OffersOf(mode, d)[k].edit : k \in picked}
           named == {OffersOf(mode, d)[k].line : k \in picked}
           fate == Applied(d, chosen)[i]
<1>1. /\ DOMAIN OffersOf(mode, d) = DOMAIN lines
      /\ \A k \in DOMAIN lines : OffersOf(mode, d)[k].line = lines[k]
      /\ \A k \in DOMAIN lines : OffersOf(mode, d)[k].edit = edits[k]
  BY PlainOffers
<1>2. \A k \in DOMAIN lines : Wide(d, edits[k], lines[k]) BY LayoutIs
<1>3. \A k \in DOMAIN lines : lines[k] \in DOMAIN d /\ lines[k] \in Nat BY ConsideredIs
<1>4. fate = IF \E e \in chosen : e.at <= i /\ i < e.to THEN "gone"
             ELSE IF \E e \in chosen : e.at = i THEN (CHOOSE e \in chosen : e.at = i).does
             ELSE "same"
  BY DEF Applied
<1> HIDE DEF fate, lines, edits
<1>5. \A e \in chosen : \E k \in picked : k \in DOMAIN lines /\ e = edits[k] BY <1>1
<1>6. \A x \in named : \E k \in picked : k \in DOMAIN lines /\ x = lines[k] BY <1>1
<1>7. \A k \in picked : k \in DOMAIN lines /\ edits[k] \in chosen /\ lines[k] \in named
  BY <1>1
<1> HIDE DEF chosen, named
<1>8. i \in Nat OBVIOUS
<1>9. ASSUME i \in named PROVE fate # "same"
  <2>1. PICK k \in picked : k \in DOMAIN lines /\ i = lines[k] BY <1>6, <1>9
  <2>2. edits[k] \in chosen /\ edits[k].at = i BY <1>2, <1>7, <2>1 DEF Wide
  <2> DEFINE c == CHOOSE e \in chosen : e.at = i
  <2>3. c \in chosen BY <2>2
  <2>4. c.does \in Acts BY <1>2, <1>5, <2>3 DEF Wide, EditSet
  <2>5. c.does # "same" BY <2>4 DEF Acts
  <2> HIDE DEF c
  <2> QED BY <1>4, <2>2, <2>5 DEF c
<1>10. ASSUME fate # "same" PROVE i \in named
  <2>1. PICK e \in chosen : (e.at <= i /\ i < e.to) \/ e.at = i BY <1>4, <1>10
  <2>2. PICK k \in picked : k \in DOMAIN lines /\ e = edits[k] BY <1>5
  <2>3. Wide(d, e, lines[k]) /\ lines[k] \in Nat BY <1>2, <1>3, <2>2
  <2>4. ~(lines[k] < i /\ i < e.to) BY <2>3 DEF Wide
  <2>5. e.at = lines[k] BY <2>3 DEF Wide
  <2>6. i = lines[k] BY <1>8, <2>1, <2>3, <2>4, <2>5
  <2> QED BY <1>7, <2>2, <2>6
<1> QED BY <1>9, <1>10 DEF fate, chosen, named

\* With no paragraph to reflow and no damage, every comment is asked about under its own
\* edit, and what is written is what was answered: interactive.rs:95 to 190.
THEOREM PlainAnswersAreHonoured ==
  ASSUME \A tree \in Trees : \A f \in File : Plain(tree[f])
  PROVE  Spec => []AnswersAreHonoured
<1>1. Asking => AnswersAreHonoured
  <2> SUFFICES ASSUME Asking PROVE AnswersAreHonoured
    OBVIOUS
  <2>1. layout \in LayoutKind /\ doc \in Trees
        /\ \A f \in File : accepted[f] \subseteq DOMAIN OffersOf(layout, doc[f])
    BY DEF Asking
  <2>2. \A f \in File : doc[f] \in Seq(LineKind) /\ Plain(doc[f]) BY <2>1, TreeIs
  <2>3. AskedUnderItsEdit
    <3> SUFFICES ASSUME NEW f \in File
                 PROVE  Considered(doc[f]) =
                          [k \in DOMAIN Offers(doc[f]) |-> Offers(doc[f])[k].line]
      BY DEF AskedUnderItsEdit
    <3> DEFINE lines == Considered(doc[f])
               offers == OffersOf(layout, doc[f])
    <3>1. lines \in Seq(DOMAIN doc[f]) BY <2>2, ConsideredIs
    <3>2. DOMAIN offers = DOMAIN lines /\ \A k \in DOMAIN lines : offers[k].line = lines[k]
      BY <2>1, <2>2, PlainOffers
    <3>3. Offers(doc[f]) = offers BY OffersIs
    <3> HIDE DEF lines, offers
    <3>4. lines = [k \in DOMAIN lines |-> lines[k]] BY <3>1
    <3>5. lines = [k \in DOMAIN offers |-> offers[k].line] BY <3>2, <3>4
    <3> QED BY <3>3, <3>5 DEF lines
  <2>4. WrittenAsAnswered
    <3>1. SUFFICES ASSUME verdict = "write", NEW f \in File, NEW i \in DOMAIN doc[f],
                          doc[f][i] # "blank"
                   PROVE  i \in said[f] <=> Written(f)[i] # "same"
      BY DEF WrittenAsAnswered
    <3>2. said[f] = {OffersOf(layout, doc[f])[k].line : k \in accepted[f]}
      BY <3>1 DEF Asking, Asked
    <3>3. Written(f) = Applied(doc[f], {OffersOf(layout, doc[f])[k].edit : k \in accepted[f]})
      BY OffersIs DEF Written, Chosen
    <3>4. accepted[f] \in SUBSET DOMAIN OffersOf(layout, doc[f]) BY <2>1
    <3> QED BY <2>1, <2>2, <3>1, <3>2, <3>3, <3>4, TouchedByItsOwn
  <2> QED BY <2>3, <2>4 DEF AnswersAreHonoured
<1> QED BY <1>1, QuestionsAreOffers, PTL

-----------------------------------------------------------------------------
(* No removal leaves more blank lines together than there were.            *)

\* A line with text on it only goes by its own edit, which drops it.
LEMMA GoneByItsOwn ==
  ASSUME NEW d \in Seq(LineKind), NEW e \in PlanSet("compact", d),
         NEW h \in DOMAIN d, d[h] # "blank", e.at <= h, h < e.to
  PROVE  \E k \in DOMAIN Considered(d) :
           /\ Considered(d)[k] = h /\ e = Collapsed(d)[k] /\ Compacted(d)[k].does = "drop"
<1> DEFINE lines == Considered(d)
           all   == Collapsed(d)
           edits == Compacted(d)
<1>1. /\ all \in Seq(EditSet) /\ Len(all) = Len(lines)
      /\ \A k \in DOMAIN lines : Wide(d, all[k], lines[k])
  BY CollapsedAre
<1>2. lines \in Seq(DOMAIN d) /\ \A k \in DOMAIN lines : lines[k] \in Nat BY ConsideredIs
<1>3. e \in ToSet(all)
  <2>1. e \in ToSet(all) \cup ToSet(RunEdits(d)) BY DEF PlanSet, Layout
  <2>2. ASSUME e \in ToSet(RunEdits(d)) PROVE FALSE
    <3>1. e.at \in DOMAIN d /\ e.to = e.at BY <2>2, RunEditsAre
    <3> QED BY <3>1
  <2> QED BY <2>1, <2>2
<1>4. PICK k \in DOMAIN all : e = all[k] BY <1>3 DEF ToSet
<1> HIDE DEF lines, all, edits
<1>5. k \in DOMAIN lines BY <1>1, <1>2, <1>4
<1>6. Wide(d, e, lines[k]) /\ lines[k] \in Nat BY <1>1, <1>2, <1>4, <1>5
<1>7. lines[k] = h
  <2>1. ~(lines[k] < h /\ h < e.to) /\ e.at = lines[k] BY <1>6 DEF Wide
  <2> QED BY <1>6, <2>1
<1>8. e.does = "drop"
  <2>1. e.to \in Nat /\ e.at = h BY <1>6, <1>7 DEF Wide, EditSet
  <2> QED BY <1>6, <1>7, <2>1 DEF Wide
<1>9. edits[k].does = "drop"
  <2>1. /\ edits \in Seq(EditSet) /\ Len(edits) = Len(lines)
    BY CommentEditsAre DEF LayoutKind, Compacted, edits, lines
  <2>2. k \in DOMAIN edits BY <1>2, <1>5, <2>1
  <2>3. e = IF MayWiden(d, k) /\ ~Touches(d, k) THEN Widened(d, k) ELSE edits[k]
    BY <1>4, <2>2, CollapsedParts DEF edits, all
  <2>4. MayWiden(d, k) => edits[k].does = "drop" BY DEF MayWiden, edits
  <2> QED BY <1>8, <2>3, <2>4
<1> QED BY <1>4, <1>5, <1>7, <1>9 DEF lines, all, edits

\* Neither a rewrite nor a removal YAML needs.
Ordinary(d) == ToSet(d) \cap {"rewrite", "swallow"} = {}

\* There the flags go with the edits, and every line that is dropped may take blanks.
LEMMA MayWidenIs ==
  ASSUME NEW d \in Seq(LineKind), Ordinary(d), NEW k \in DOMAIN Considered(d),
         Compacted(d)[k].does = "drop"
  PROVE  MayWiden(d, k)
<1> DEFINE lines == Considered(d)
<1>1. \A i \in DOMAIN d : d[i] # "rewrite" /\ d[i] # "swallow" BY DEF Ordinary, ToSet
<1>2. Lines(d, Changing \ {"doubtful", "rewrite"}) = lines
  <2>1. {i \in DOMAIN d : d[i] \in Changing \ {"doubtful", "rewrite"}}
          = {i \in DOMAIN d : d[i] \in Changing \ {"doubtful"}}
    BY <1>1
  <2> QED BY <2>1 DEF Lines, Considered
<1>3. Collapsible(d) = [j \in DOMAIN lines |-> d[lines[j]] # "swallow"]
  BY <1>2 DEF Collapsible
<1>4. lines \in Seq(DOMAIN d) /\ lines[k] \in DOMAIN d BY ConsideredIs
<1>5. k \in DOMAIN Compacted(d)
  <2>1. Compacted(d) \in Seq(EditSet) /\ Len(Compacted(d)) = Len(lines)
    BY CommentEditsAre DEF LayoutKind, Compacted
  <2> QED BY <1>4, <2>1
<1> HIDE DEF lines
<1>6. k \in DOMAIN lines BY DEF lines
<1>7. d[lines[k]] # "swallow" BY <1>1, <1>4
<1>8. k \in DOMAIN Collapsible(d) /\ Collapsible(d)[k] BY <1>3, <1>6, <1>7
<1> QED BY <1>5, <1>8 DEF MayWiden

\* The lines acted on, in order.
LEMMA LinesInOrder ==
  ASSUME NEW d \in Seq(LineKind)
  PROVE  LET lines == Considered(d) IN
         /\ lines \in Seq(DOMAIN d) /\ DOMAIN lines = 1..Len(lines) /\ Len(lines) \in Nat
         /\ \A h \in DOMAIN lines : h \in Nat /\ lines[h] \in Nat
         /\ \A h \in DOMAIN lines : lines[h] \in DOMAIN d /\ d[lines[h]] # "blank"
         /\ \A h, j \in DOMAIN lines : h < j => lines[h] < lines[j]
         /\ \A h, j \in DOMAIN lines : lines[h] < lines[j] => h < j
         /\ \A h, j \in DOMAIN lines : lines[h] = lines[j] => h = j
<1> DEFINE lines == Considered(d)
<1>1. /\ lines \in Seq(DOMAIN d)
      /\ \A h \in DOMAIN lines : lines[h] \in DOMAIN d /\ lines[h] \in Nat
      /\ \A h \in DOMAIN lines : d[lines[h]] \in Changing \ {"doubtful"}
  BY ConsideredIs
<1>2. \A h, j \in DOMAIN lines : h < j => lines[h] < lines[j]
  BY ConsideredIs DEF Ascends
<1> HIDE DEF lines
<1>3. DOMAIN lines = 1..Len(lines) /\ Len(lines) \in Nat BY <1>1
<1>4. \A h \in DOMAIN lines : h \in Nat BY <1>3
<1>5. \A h \in DOMAIN lines : d[lines[h]] # "blank" BY <1>1 DEF Changing
<1>6. ASSUME NEW h \in DOMAIN lines, NEW j \in DOMAIN lines
      PROVE  /\ lines[h] < lines[j] => h < j
             /\ lines[h] = lines[j] => h = j
  <2>1. h \in Nat /\ j \in Nat /\ lines[h] \in Nat /\ lines[j] \in Nat BY <1>1, <1>4
  <2>2. h < j => lines[h] < lines[j] BY <1>2
  <2>3. j < h => lines[j] < lines[h] BY <1>2
  <2> QED BY <2>1, <2>2, <2>3
<1> QED BY <1>1, <1>2, <1>3, <1>4, <1>5, <1>6 DEF lines

\* The lines p to q go, with some of the edits, and there are blank lines on both sides.
BlockGoes(d, picked, p, q) ==
  /\ \A h \in p..q : d[h] # "blank" /\ \E e \in picked : e.at <= h /\ h < e.to
  /\ p - 1 \in DOMAIN d /\ d[p - 1] = "blank"
  /\ q + 1 \in DOMAIN d /\ d[q + 1] = "blank"

\* Consecutive lines that all go, between blank lines: the last of them takes as many
\* blank lines below as there are on the shorter side.
LEMMA BlockTakesBlanks ==
  ASSUME NEW d \in Seq(LineKind), Ordinary(d), NEW picked \in SUBSET PlanSet("compact", d),
         NEW p \in DOMAIN d, NEW q \in DOMAIN d, p <= q,
         BlockGoes(d, picked, p, q)
  PROVE  LET above == BlanksAbove(d, p)
             below == BlanksFrom(d, q + 1)
         IN  \E e \in picked : /\ e.at = q
                               /\ e.to = q + 1 + (IF above <= below THEN above ELSE below)
<1> DEFINE lines == Considered(d)
           edits == Compacted(d)
           all   == Collapsed(d)
           above == BlanksAbove(d, p)
           below == BlanksFrom(d, q + 1)
           ends  == q + 1 + (IF above <= below THEN above ELSE below)
<1>1. /\ lines \in Seq(DOMAIN d) /\ DOMAIN lines = 1..Len(lines) /\ Len(lines) \in Nat
      /\ \A h \in DOMAIN lines : lines[h] \in DOMAIN d /\ d[lines[h]] # "blank"
  BY LinesInOrder
<1>2. edits \in Seq(EditSet) /\ Len(edits) = Len(lines)
      /\ \A h \in DOMAIN lines : OfLine(edits[h], lines[h])
  BY CommentEditsAre DEF LayoutKind, Compacted
<1>3. ASSUME NEW h \in p..q
      PROVE  \E k \in DOMAIN lines : /\ lines[k] = h /\ all[k] \in picked
                                     /\ edits[k].does = "drop"
  <2>1. h \in DOMAIN d /\ d[h] # "blank" BY DEF BlockGoes
  <2>2. PICK e \in picked : e.at <= h /\ h < e.to BY DEF BlockGoes
  <2>3. e \in PlanSet("compact", d) OBVIOUS
  <2>4. PICK k \in DOMAIN lines : lines[k] = h /\ e = all[k] /\ edits[k].does = "drop"
    BY <2>1, <2>2, <2>3, GoneByItsOwn
  <2> QED BY <2>2, <2>4
<1> HIDE DEF lines, edits, all
<1>4. p \in Nat /\ q \in Nat /\ p \in p..q /\ q \in p..q OBVIOUS
<1>5. PICK kp \in DOMAIN lines : lines[kp] = p BY <1>3, <1>4
<1>6. PICK kq \in DOMAIN lines : lines[kq] = q /\ all[kq] \in picked /\ edits[kq].does = "drop"
  BY <1>3, <1>4
<1>7. /\ \A h \in DOMAIN lines : h \in Nat /\ lines[h] \in Nat
      /\ \A h, j \in DOMAIN lines : h < j => lines[h] < lines[j]
      /\ \A h, j \in DOMAIN lines : lines[h] < lines[j] => h < j
      /\ \A h, j \in DOMAIN lines : lines[h] = lines[j] => h = j
  BY LinesInOrder DEF lines
<1>8. kp \in Nat /\ kq \in Nat /\ 1 <= kp /\ kp <= kq
  <2>1. kp \in Nat /\ kq \in Nat /\ 1 <= kp /\ 1 <= kq BY <1>1
  <2>2. ~(kq < kp)
    <3>1. kq < kp => q < p BY <1>5, <1>6, <1>7
    <3> QED BY <1>4, <3>1
  <2> QED BY <2>1, <2>2
<1>9. \A k \in DOMAIN lines : edits[k].does = "drop" => MayWiden(d, k)
  BY MayWidenIs DEF lines, edits
<1>10. \A k \in DOMAIN lines : edits[k].does = "drop" => edits[k].to = lines[k] + 1
  BY <1>2 DEF OfLine
<1>11. \A k \in DOMAIN lines : edits[k].at = lines[k] BY <1>2 DEF OfLine
<1>12. ASSUME NEW k \in kp..(kq - 1) PROVE Touches(d, k)
  <2>1. k \in DOMAIN lines /\ k + 1 \in DOMAIN lines /\ k \in Nat BY <1>1, <1>8
  <2>2. p <= lines[k] /\ lines[k] < q /\ lines[k] \in Nat
    <3>1. lines[k] \in Nat BY <1>7, <2>1
    <3>2. kp = k \/ kp < k BY <1>8, <2>1
    <3>3. p <= lines[k]
      <4>1. kp < k => p < lines[k] BY <1>5, <1>7, <2>1
      <4> QED BY <1>4, <1>5, <3>1, <3>2, <4>1
    <3>4. k < kq BY <1>8
    <3>5. lines[k] < q BY <1>6, <1>7, <2>1, <3>4
    <3> QED BY <3>1, <3>3, <3>5
  <2>3. lines[k] \in p..q /\ lines[k] + 1 \in p..q BY <1>4, <2>2
  <2>4. PICK k1 \in DOMAIN lines : lines[k1] = lines[k] /\ edits[k1].does = "drop"
    BY <1>3, <2>3
  <2>5. PICK k2 \in DOMAIN lines : lines[k2] = lines[k] + 1 /\ edits[k2].does = "drop"
    BY <1>3, <2>3
  <2>6. k1 = k BY <1>7, <2>1, <2>4
  <2>7. k2 = k + 1
    <3>0. k2 \in Nat BY <1>7
    <3>1. lines[k] < lines[k2] BY <2>2, <2>5
    <3>2. k < k2 BY <1>7, <2>1, <3>1
    <3>3. ~(k + 1 < k2)
      <4>1. k < k + 1 BY <2>1
      <4>2. lines[k] < lines[k + 1] /\ lines[k + 1] \in Nat BY <1>7, <2>1, <4>1
      <4>3. k + 1 < k2 => lines[k + 1] < lines[k2] BY <1>7, <2>1
      <4> QED BY <2>2, <2>5, <4>2, <4>3
    <3> QED BY <2>1, <3>0, <3>2, <3>3
  <2>8. MayWiden(d, k) /\ MayWiden(d, k + 1) BY <1>9, <2>1, <2>4, <2>5, <2>6, <2>7
  <2>9. edits[k].to = edits[k + 1].at BY <1>10, <1>11, <2>1, <2>4, <2>5, <2>6, <2>7
  <2> QED BY <2>8, <2>9 DEF Touches, edits
<1> DEFINE first == First(d, kq)
<1>13. /\ first \in 1..kq /\ \A h \in first..(kq - 1) : Touches(d, h)
       /\ \A j \in 1..kq : (\A h \in j..(kq - 1) : Touches(d, h)) => first <= j
       /\ Widened(d, kq).at = q
       /\ Widened(d, kq).to =
            LET over == BlanksAbove(d, lines[first])
                to   == q + 1 + (IF over <= below THEN over ELSE below)
            IN  IF to <= Ceiling(d, kq) THEN to ELSE Ceiling(d, kq)
  <2>1. kq \in DOMAIN Considered(d) /\ Compacted(d)[kq].does = "drop" /\ Considered(d)[kq] = q
    BY <1>6 DEF lines, edits
  <2> QED BY <2>1, WidenedIs DEF lines
<1> HIDE DEF first
<1>14. \A k \in DOMAIN lines : Touches(d, k) => /\ k + 1 \in DOMAIN lines
                                                 /\ lines[k + 1] = lines[k] + 1
  <2> SUFFICES ASSUME NEW k \in DOMAIN lines, Touches(d, k)
               PROVE  k + 1 \in DOMAIN lines /\ lines[k + 1] = lines[k] + 1
    OBVIOUS
  <2>1. /\ edits[k].does = "drop" /\ edits[k].to = edits[k + 1].at /\ k + 1 \in DOMAIN edits
    BY DEF Touches, MayWiden, edits
  <2>2. k + 1 \in DOMAIN lines
    <3>1. DOMAIN edits = DOMAIN lines BY <1>1, <1>2
    <3> QED BY <2>1, <3>1
  <2> QED BY <1>10, <1>11, <2>1, <2>2
<1>15. first = kp
  <2>1. first <= kp
    <3>1. kp \in 1..kq BY <1>8
    <3> QED BY <1>12, <1>13, <3>1
  <2>2. ASSUME first < kp PROVE FALSE
    <3>0. first \in Nat /\ 1 <= first BY <1>13
    <3>1. kp - 1 \in first..(kq - 1) /\ kp - 1 \in DOMAIN lines /\ (kp - 1) + 1 = kp
      <4>1. kp - 1 \in Nat /\ first <= kp - 1 /\ kp - 1 <= kq - 1 /\ (kp - 1) + 1 = kp
        BY <1>8, <2>2, <3>0
      <4>2. kp <= Len(lines) BY <1>1
      <4>3. kp - 1 \in DOMAIN lines
        <5>1. 1 <= kp - 1 /\ kp - 1 <= Len(lines) /\ Len(lines) \in Nat
          <6>1. first < kp /\ Len(lines) \in Nat BY <1>1, <2>2
          <6> QED BY <1>8, <3>0, <4>2, <6>1
        <5>2. kp - 1 \in 1..Len(lines) BY <4>1, <5>1
        <5> QED BY <1>1, <5>2
      <4> QED BY <1>8, <3>0, <4>1, <4>3
    <3>2. Touches(d, kp - 1) BY <1>13, <3>1
    <3>3. lines[kp] = lines[kp - 1] + 1 BY <1>14, <3>1, <3>2
    <3>4. lines[kp - 1] = p - 1
      <4>1. lines[kp - 1] \in Nat BY <1>7, <3>1
      <4> QED BY <1>4, <1>5, <3>3, <4>1
    <3> QED BY <1>1, <3>1, <3>4 DEF BlockGoes
  <2> QED BY <1>8, <1>13, <2>1, <2>2
<1>16. ~Touches(d, kq)
  <2>1. SUFFICES ASSUME Touches(d, kq) PROVE FALSE
    OBVIOUS
  <2>2. kq + 1 \in DOMAIN lines /\ lines[kq + 1] = q + 1 BY <1>6, <1>14, <2>1
  <2> QED BY <1>1, <2>2 DEF BlockGoes
<1>17. all[kq] = Widened(d, kq)
  <2>1. MayWiden(d, kq) BY <1>6, <1>9
  <2>2. kq \in DOMAIN Compacted(d) BY <1>1, <1>2, <1>6 DEF edits
  <2> QED BY <1>16, <2>1, <2>2, CollapsedParts DEF all
<1>18. /\ above \in Nat /\ below \in Nat /\ q + 1 + below <= Len(d) + 1 /\ Len(d) \in Nat
       /\ \A j \in (q + 1)..(q + 1 + below - 1) : d[j] = "blank"
  <2>1. q + 1 \in 1..(Len(d) + 1) /\ p \in 1..(Len(d) + 1) /\ Len(d) \in Nat
    BY DEF BlockGoes
  <2>2. above \in 0..(p - 1) BY <2>1, BlanksAboveIs
  <2>3. below \in 0..(Len(d) + 1 - (q + 1))
        /\ \A j \in (q + 1)..(q + 1 + below - 1) : d[j] = "blank"
    BY <2>1, BlanksFromIs
  <2> QED BY <1>4, <2>1, <2>2, <2>3
<1> HIDE DEF above, below
<1>19. Ceiling(d, kq) \in Nat /\ q + 1 + below <= Ceiling(d, kq)
  <2>1. CASE kq < Len(edits)
    <3>1. kq + 1 \in DOMAIN lines /\ kq < kq + 1 BY <1>1, <1>2, <1>8, <2>1
    <3>2. Ceiling(d, kq) = lines[kq + 1] BY <1>11, <2>1, <3>1 DEF Ceiling, edits
    <3>3. q < lines[kq + 1] /\ lines[kq + 1] \in Nat /\ d[lines[kq + 1]] # "blank"
      BY <1>1, <1>6, <1>7, <3>1
    <3>4. lines[kq + 1] \notin (q + 1)..(q + 1 + below - 1) BY <1>18, <3>3
    <3> QED BY <1>4, <1>18, <3>2, <3>3, <3>4
  <2>2. CASE ~(kq < Len(edits))
    <3>1. Ceiling(d, kq) = Len(d) + 1 BY <2>2 DEF Ceiling, edits
    <3> QED BY <1>18, <3>1
  <2> QED BY <2>1, <2>2
<1>20. ends \in Nat /\ ends <= Ceiling(d, kq) BY <1>4, <1>18, <1>19
<1>21. Widened(d, kq).to = ends
  <2>1. BlanksAbove(d, lines[first]) = above BY <1>5, <1>15 DEF above
  <2> QED BY <1>13, <1>20, <2>1
<1> QED BY <1>6, <1>13, <1>17, <1>21 DEF above, below

\* A line goes exactly if a chosen edit reaches over it.
LEMMA GoneIs ==
  ASSUME NEW mode \in LayoutKind, NEW d \in Seq(LineKind),
         NEW picked \in SUBSET PlanSet(mode, d), NEW h \in DOMAIN d
  PROVE  Applied(d, picked)[h] = "gone" <=> \E e \in picked : e.at <= h /\ h < e.to
<1> DEFINE fate == Applied(d, picked)[h]
<1>1. fate = IF \E e \in picked : e.at <= h /\ h < e.to THEN "gone"
             ELSE IF \E e \in picked : e.at = h THEN (CHOOSE e \in picked : e.at = h).does
             ELSE "same"
  BY DEF Applied
<1> HIDE DEF fate
<1>2. ASSUME NEW e \in picked PROVE e.does # "gone"
  <2>1. e \in ToSet(Layout(mode, d)) \/ e \in ToSet(RunEdits(d)) BY DEF PlanSet
  <2>2. e \in ToSet(RunEdits(d)) => e.does = "reflow" BY RunEditsAre
  <2>3. Layout(mode, d) \in Seq(EditSet) BY LayoutIs
  <2>4. e \in ToSet(Layout(mode, d)) => e.does \in Acts
    <3>1. SUFFICES ASSUME e \in ToSet(Layout(mode, d)) PROVE e.does \in Acts
      OBVIOUS
    <3>2. PICK k \in DOMAIN Layout(mode, d) : e = Layout(mode, d)[k] BY <3>1 DEF ToSet
    <3>3. e \in EditSet BY <2>3, <3>2
    <3> QED BY <3>3 DEF EditSet
  <2> QED BY <2>1, <2>2, <2>4 DEF Acts
<1>3. ASSUME \E e \in picked : e.at = h PROVE (CHOOSE e \in picked : e.at = h).does # "gone"
  <2> DEFINE c == CHOOSE e \in picked : e.at = h
  <2>1. c \in picked BY <1>3
  <2> HIDE DEF c
  <2>2. c.does # "gone" BY <1>2, <2>1
  <2> QED BY <2>2 DEF c
<1> QED BY <1>1, <1>3 DEF fate

\* The blank lines around a line.
RunAt(d, i) == BlanksAbove(d, i) + BlanksFrom(d, i)

\* The longest of the runs is no shorter than any.
LEMMA LongestRun ==
  ASSUME NEW d \in Seq(LineKind), NEW i \in DOMAIN d, NEW j \in DOMAIN d, NEW h \in i..j
  PROVE  RunAt(d, h) <= Max({RunAt(d, k) : k \in i..j})
<1> DEFINE runs == {RunAt(d, k) : k \in i..j}
           n == Len(d) + 1
<1>1. n \in Nat /\ DOMAIN d = 1..Len(d) /\ Len(d) \in Nat OBVIOUS
<1>2. \A k \in i..j : RunAt(d, k) \in 0..n
  <2> SUFFICES ASSUME NEW k \in i..j PROVE RunAt(d, k) \in 0..n
    OBVIOUS
  <2>1. k \in 1..(Len(d) + 1) BY <1>1
  <2>2. BlanksAbove(d, k) \in 0..(k - 1) BY <2>1, BlanksAboveIs
  <2>3. BlanksFrom(d, k) \in 0..(Len(d) + 1 - k) BY <2>1, BlanksFromIs
  <2> QED BY <1>1, <2>1, <2>2, <2>3 DEF RunAt
<1>3. runs \in SUBSET (0..n) /\ runs # {} /\ RunAt(d, h) \in runs BY <1>2
<1>4. \A k \in runs : k <= Max(runs)
  <2> HIDE DEF runs, n
  <2> QED BY <1>1, <1>3, GreatestOf
<1> QED BY <1>3, <1>4

\* The part of a text from line i to line j of which nothing is left but blank lines,
\* after one removal at most.
Emptied(d, picked, i, j) ==
  /\ i < j /\ d[i] = "blank" /\ d[j] = "blank"
  /\ Applied(d, picked)[i] # "gone" /\ Applied(d, picked)[j] # "gone"
  /\ \A g, h \in i..j : d[g] # "blank" /\ d[h] # "blank" => \A m \in g..h : d[m] # "blank"
  /\ \A h \in i..j : Applied(d, picked)[h] # "gone" => d[h] = "blank"

\* In an emptied part no more blank lines are left than its longest run had.
LEMMA BlanksLeft ==
  ASSUME NEW d \in Seq(LineKind), Ordinary(d), NEW picked \in SUBSET PlanSet("compact", d),
         NEW i \in DOMAIN d, NEW j \in DOMAIN d, Emptied(d, picked, i, j)
  PROVE  Cardinality({h \in i..j : Applied(d, picked)[h] # "gone"})
           <= Max({RunAt(d, h) : h \in i..j})
<1> DEFINE left == {h \in i..j : Applied(d, picked)[h] # "gone"}
           most == Max({RunAt(d, h) : h \in i..j})
           text == {h \in i..j : d[h] # "blank"}
<1>1. /\ Len(d) \in Nat /\ DOMAIN d = 1..Len(d) /\ i \in Nat /\ j \in Nat /\ i < j
      /\ 1 <= i /\ j <= Len(d)
  BY DEF Emptied
<1>2. \A h \in i..j : h \in DOMAIN d /\ h \in 1..(Len(d) + 1) /\ h \in Nat BY <1>1
<1>3. \A h \in i..j : RunAt(d, h) <= most BY LongestRun
<1>4. \A h \in i..j : /\ BlanksAbove(d, h) \in Nat /\ BlanksFrom(d, h) \in Nat
                      /\ BlanksAbove(d, h) + BlanksFrom(d, h) <= most
  <2> SUFFICES ASSUME NEW h \in i..j
               PROVE  /\ BlanksAbove(d, h) \in Nat /\ BlanksFrom(d, h) \in Nat
                      /\ BlanksAbove(d, h) + BlanksFrom(d, h) <= most
    OBVIOUS
  <2>1. h \in 1..(Len(d) + 1) BY <1>2
  <2>2. BlanksAbove(d, h) \in 0..(h - 1) BY <2>1, BlanksAboveIs
  <2>3. BlanksFrom(d, h) \in 0..(Len(d) + 1 - h) BY <2>1, BlanksFromIs
  <2>4. RunAt(d, h) <= most BY <1>3
  <2> HIDE DEF most
  <2> QED BY <2>2, <2>3, <2>4 DEF RunAt
<1>5. most \in Int
  <2> DEFINE runs == {RunAt(d, k) : k \in i..j}
             n == Len(d) + 1
  <2>1. \A k \in i..j : RunAt(d, k) \in 0..n
    <3> SUFFICES ASSUME NEW k \in i..j PROVE RunAt(d, k) \in 0..n
      OBVIOUS
    <3>1. k \in 1..(Len(d) + 1) BY <1>2
    <3>2. BlanksAbove(d, k) \in 0..(k - 1) BY <3>1, BlanksAboveIs
    <3>3. BlanksFrom(d, k) \in 0..(Len(d) + 1 - k) BY <3>1, BlanksFromIs
    <3> QED BY <1>1, <3>1, <3>2, <3>3 DEF RunAt
  <2>2. n \in Nat /\ runs \in SUBSET (0..n) /\ runs # {} BY <1>1, <2>1
  <2>3. Max(runs) \in runs
    <3> HIDE DEF runs, n
    <3> QED BY <2>2, GreatestOf
  <2> QED BY <2>2, <2>3
<1> HIDE DEF most
<1>6. /\ d[i] = "blank" /\ d[j] = "blank" /\ i \in i..j /\ j \in i..j
      /\ \A g, h \in i..j : d[g] # "blank" /\ d[h] # "blank" => \A m \in g..h : d[m] # "blank"
  BY <1>1 DEF Emptied
<1>7. \A h \in text : Applied(d, picked)[h] = "gone" BY DEF Emptied
<1>8. CASE text = {}
  <2>1. \A h \in i..j : d[h] = "blank" BY <1>8
  <2>2. j + 1 - i \in 0..(Len(d) + 1 - i) /\ i + (j + 1 - i) - 1 = j /\ i \in 1..(Len(d) + 1)
    BY <1>1
  <2>3. j + 1 - i <= BlanksFrom(d, i) BY <2>1, <2>2, BlanksFromIs
  <2>4. j + 1 - i <= most
    <3>1. BlanksAbove(d, i) \in Nat /\ BlanksFrom(d, i) \in Nat
          /\ BlanksAbove(d, i) + BlanksFrom(d, i) <= most
      BY <1>4, <1>6
    <3> QED BY <1>1, <1>5, <2>3, <3>1
  <2>5. IsFiniteSet(i..j) /\ Cardinality(i..j) = j - i + 1 BY SMTT(30), <1>1, FS_Interval
  <2>6. left \in SUBSET (i..j) OBVIOUS
  <2>7. IsFiniteSet(left) /\ Cardinality(left) <= Cardinality(i..j)
    <3> HIDE DEF left
    <3> QED BY <2>5, <2>6, FS_Subset
  <2>8. Cardinality(left) \in Nat
    <3> HIDE DEF left
    <3> QED BY <2>7, FS_CardinalityType
  <2> HIDE DEF left
  <2>9. Cardinality(left) <= most BY <1>1, <1>5, <2>4, <2>5, <2>7, <2>8
  <2> QED BY <2>9 DEF left, most
<1>9. CASE text # {}
  <2> DEFINE p == Min(text)
             q == Max(text)
  <2>1. text \in SUBSET (0..j) BY <1>1
  <2>2. p \in text /\ q \in text /\ \A h \in text : p <= h /\ h <= q
    <3> HIDE DEF text
    <3> QED BY <1>1, <1>9, <2>1, LeastOf, GreatestOf
  <2> HIDE DEF p, q
  <2>3. p \in i..j /\ q \in i..j /\ d[p] # "blank" /\ d[q] # "blank" BY <2>2
  <2>4. p \in Nat /\ q \in Nat /\ i < p /\ p <= q /\ q < j
    <3>1. p <= q BY <2>2
    <3>2. p # i /\ q # j BY <1>6, <2>3
    <3> QED BY <1>1, <2>3, <3>1, <3>2
  <2>5. \A m \in p..q : d[m] # "blank" BY <1>6, <2>3
  <2>6. \A m \in i..j : m < p \/ q < m => d[m] = "blank"
    <3> SUFFICES ASSUME NEW m \in i..j, m < p \/ q < m, d[m] # "blank" PROVE FALSE
      OBVIOUS
    <3>1. m \in text OBVIOUS
    <3>2. p <= m /\ m <= q /\ m \in Nat BY <1>1, <2>2, <3>1
    <3> QED BY <2>4, <3>2
  <2>7. BlockGoes(d, picked, p, q)
    <3>1. ASSUME NEW h \in p..q PROVE \E e \in picked : e.at <= h /\ h < e.to
      <4>1. h \in i..j BY <1>1, <2>4
      <4>2. h \in text BY <2>5, <4>1
      <4>3. Applied(d, picked)[h] = "gone" BY <1>7, <4>2
      <4>4. h \in DOMAIN d /\ "compact" \in LayoutKind BY <1>2, <4>1 DEF LayoutKind
      <4> QED BY <4>3, <4>4, GoneIs
    <3>2. p - 1 \in i..j /\ q + 1 \in i..j /\ p - 1 < p /\ q < q + 1 BY <1>1, <2>4
    <3>3. d[p - 1] = "blank" /\ d[q + 1] = "blank" BY <2>6, <3>2
    <3> QED BY <1>2, <2>5, <3>1, <3>2, <3>3 DEF BlockGoes
  <2> DEFINE above == BlanksAbove(d, p)
             below == BlanksFrom(d, q + 1)
             ends  == q + 1 + (IF above <= below THEN above ELSE below)
  <2>8. PICK e \in picked : e.at = q /\ e.to = ends
    <3>1. p \in DOMAIN d /\ q \in DOMAIN d BY <1>2, <2>3
    <3> QED BY <2>4, <2>7, <3>1, BlockTakesBlanks
  <2>9. above \in Nat /\ below \in Nat /\ above <= most /\ below <= most
    <3>1. q + 1 \in i..j BY <1>1, <2>4
    <3>2. BlanksAbove(d, p) \in Nat /\ BlanksFrom(d, p) \in Nat
          /\ BlanksAbove(d, p) + BlanksFrom(d, p) <= most
      BY <1>4, <2>3
    <3>3. BlanksAbove(d, q + 1) \in Nat /\ BlanksFrom(d, q + 1) \in Nat
          /\ BlanksAbove(d, q + 1) + BlanksFrom(d, q + 1) <= most
      BY <1>4, <3>1
    <3> QED BY <1>5, <3>2, <3>3
  <2>10. p - i <= above
    <3>1. p - i \in 0..(p - 1) /\ p - (p - i) = i /\ p \in 1..(Len(d) + 1)
      BY <1>1, <1>2, <2>3, <2>4
    <3>2. \A m \in i..(p - 1) : d[m] = "blank"
      <4>1. \A m \in i..(p - 1) : m \in i..j /\ m < p BY <1>1, <2>4
      <4> QED BY <2>6, <4>1
    <3> QED BY <3>1, <3>2, BlanksAboveIs
  <2>11. j - q <= below
    <3>1. /\ j - q \in 0..(Len(d) + 1 - (q + 1)) /\ (q + 1) + (j - q) - 1 = j
          /\ q + 1 \in 1..(Len(d) + 1)
      BY <1>1, <2>4
    <3>2. \A m \in (q + 1)..j : d[m] = "blank"
      <4>1. \A m \in (q + 1)..j : m \in i..j /\ q < m BY <1>1, <2>4
      <4> QED BY <2>6, <4>1
    <3> QED BY <3>1, <3>2, BlanksFromIs
  <2> HIDE DEF above, below
  <2>12. ends \in Nat /\ q < ends BY <2>4, <2>9
  <2>13. \A h \in left : h \in i..(p - 1) \/ h \in ends..j
    <3> SUFFICES ASSUME NEW h \in left, h \notin i..(p - 1), h \notin ends..j PROVE FALSE
      OBVIOUS
    <3>1. h \in i..j /\ Applied(d, picked)[h] # "gone" /\ h \in Nat BY <1>1
    <3>2. p <= h /\ h < ends BY <1>1, <2>4, <2>12, <3>1
    <3>3. CASE h <= q
      <4>1. h \in p..q BY <2>4, <3>1, <3>2, <3>3
      <4>2. h \in text BY <2>5, <3>1, <4>1
      <4> QED BY <1>7, <3>1, <4>2
    <3>4. CASE q < h
      <4>1. e.at <= h /\ h < e.to BY <2>4, <2>8, <3>1, <3>2, <3>4
      <4>2. h \in DOMAIN d /\ "compact" \in LayoutKind BY <1>2, <3>1 DEF LayoutKind
      <4>3. Applied(d, picked)[h] = "gone" BY <4>1, <4>2, GoneIs
      <4> QED BY <3>1, <4>3
    <3> QED BY <2>4, <3>1, <3>3, <3>4
  <2>14. /\ IsFiniteSet(i..(p - 1)) /\ Cardinality(i..(p - 1)) = p - i
         /\ IsFiniteSet(ends..j)
         /\ Cardinality(ends..j) = IF ends > j THEN 0 ELSE j - ends + 1
    <3> HIDE DEF ends
    <3>1. i \in Int /\ p - 1 \in Int /\ ~(i > p - 1) /\ (p - 1) - i + 1 = p - i BY <1>1, <2>4
    <3>2. ends \in Int /\ j \in Int BY <1>1, <2>12
    <3>3. IsFiniteSet(i..(p - 1)) /\ Cardinality(i..(p - 1)) = p - i BY <3>1, FS_Interval
    <3>4. /\ IsFiniteSet(ends..j)
          /\ Cardinality(ends..j) = IF ends > j THEN 0 ELSE j - ends + 1
      BY <3>2, FS_Interval
    <3> QED BY <3>3, <3>4
  <2> DEFINE both == (i..(p - 1)) \cup (ends..j)
  <2>15. IsFiniteSet(both) /\ Cardinality(both) <= Cardinality(i..(p - 1)) + Cardinality(ends..j)
    <3> HIDE DEF ends
    <3>1. /\ IsFiniteSet(both)
          /\ Cardinality(both) = Cardinality(i..(p - 1)) + Cardinality(ends..j)
                                   - Cardinality((i..(p - 1)) \cap (ends..j))
      BY <2>14, FS_Union
    <3>2. Cardinality((i..(p - 1)) \cap (ends..j)) \in Nat
      <4>1. (i..(p - 1)) \cap (ends..j) \in SUBSET (i..(p - 1)) OBVIOUS
      <4>2. IsFiniteSet((i..(p - 1)) \cap (ends..j)) BY <2>14, <4>1, FS_Subset
      <4> QED BY <4>2, FS_CardinalityType
    <3>3. Cardinality(i..(p - 1)) \in Nat /\ Cardinality(ends..j) \in Nat
      BY <2>14, FS_CardinalityType
    <3> HIDE DEF both
    <3> QED BY <3>1, <3>2, <3>3
  <2>16. left \in SUBSET both BY <2>13
  <2>17. IsFiniteSet(left) /\ Cardinality(left) <= Cardinality(both)
    <3> HIDE DEF left, both
    <3> QED BY <2>15, <2>16, FS_Subset
  <2>18. Cardinality(left) \in Nat /\ Cardinality(both) \in Nat
    <3> HIDE DEF left, both
    <3> QED BY <2>15, <2>17, FS_CardinalityType
  <2>19. (p - i) + (IF ends > j THEN 0 ELSE j - ends + 1) <= most
    <3>1. CASE above <= below
      <4>1. ends = q + 1 + above BY <3>1
      <4> HIDE DEF ends
      <4> QED BY <1>1, <1>5, <2>4, <2>9, <2>10, <2>11, <4>1
    <3>2. CASE ~(above <= below)
      <4>1. ends = q + 1 + below /\ below < above BY <2>9, <3>2
      <4> HIDE DEF ends
      <4> QED BY <1>1, <1>5, <2>4, <2>9, <2>10, <2>11, <4>1
    <3> QED BY <3>1, <3>2
  <2> HIDE DEF left, both, ends
  <2>20. Cardinality(left) <= most
    <3>1. Cardinality(both) <= (p - i) + (IF ends > j THEN 0 ELSE j - ends + 1)
      BY <2>14, <2>15
    <3> QED BY <1>1, <1>5, <2>4, <2>12, <2>17, <2>18, <2>19, <3>1
  <2> QED BY <2>20 DEF left, most
<1> QED BY <1>8, <1>9

\* Compact keeps its promise for every removal by itself, whatever is answered: where one
\* removal joins two runs of blank lines, no more of them are left together than the
\* longer had: transform.rs:560 to 621.
THEOREM NoRemovalWidensABlankRun == Spec => []NoNewBlankRun
<1>1. Asking => NoNewBlankRun
  <2> SUFFICES ASSUME Asking PROVE NoNewBlankRun
    OBVIOUS
  <2>1. SUFFICES ASSUME layout = "compact", NEW f \in File, NEW d, d = doc[f],
                        ToSet(d) \cap {"rewrite", "swallow"} = {},
                        NEW i \in {h \in DOMAIN d : d[h] = "blank" /\ Written(f)[h] # "gone"},
                        NEW j \in {h \in DOMAIN d : d[h] = "blank" /\ Written(f)[h] # "gone"},
                        i < j,
                        \A g, h \in i..j : d[g] # "blank" /\ d[h] # "blank" =>
                          \A m \in g..h : d[m] # "blank",
                        \A h \in i..j : Written(f)[h] # "gone" => d[h] = "blank"
                 PROVE  Cardinality({h \in i..j : Written(f)[h] # "gone"})
                          <= Max({BlanksAbove(d, h) + BlanksFrom(d, h) : h \in i..j})
    BY DEF NoNewBlankRun
  <2> DEFINE picked == Chosen(f)
  <2>2. doc \in Trees /\ layout \in LayoutKind /\ accepted[f] \subseteq DOMAIN OffersOf(layout, d)
    BY <2>1 DEF Asking
  <2>3. d \in Seq(LineKind) BY <2>1, <2>2, TreeIs
  <2>4. Ordinary(d) BY <2>1 DEF Ordinary
  <2>5. OffersOf(layout, d) \in Seq([line : DOMAIN d, edit : PlanSet(layout, d)])
    BY <2>2, <2>3, OffersAre
  <2>6. picked = {OffersOf(layout, d)[k].edit : k \in accepted[f]}
    BY <2>1, OffersIs DEF Chosen
  <2> HIDE DEF picked
  <2>7. picked \in SUBSET PlanSet("compact", d)
    <3>1. \A k \in DOMAIN OffersOf(layout, d) :
            OffersOf(layout, d)[k] \in [line : DOMAIN d, edit : PlanSet(layout, d)]
      <4> DEFINE X == [line : DOMAIN d, edit : PlanSet(layout, d)]
                 offers == OffersOf(layout, d)
      <4>1. offers \in Seq(X) BY <2>5
      <4> HIDE DEF X, offers
      <4>2. \A k \in DOMAIN offers : offers[k] \in X BY <4>1
      <4> QED BY <4>2 DEF X, offers
    <3>2. \A k \in accepted[f] : OffersOf(layout, d)[k].edit \in PlanSet(layout, d) BY <2>2, <3>1
    <3> QED BY <2>1, <2>6, <3>2
  <2>8. Written(f) = Applied(d, picked) BY <2>1 DEF Written, picked
  <2>9. i \in DOMAIN d /\ j \in DOMAIN d OBVIOUS
  <2>10. Emptied(d, picked, i, j) BY <2>1, <2>8 DEF Emptied
  <2>11. Cardinality({h \in i..j : Applied(d, picked)[h] # "gone"})
           <= Max({RunAt(d, h) : h \in i..j})
    BY <2>3, <2>4, <2>7, <2>9, <2>10, BlanksLeft
  <2> QED BY <2>8, <2>11 DEF RunAt
<1> QED BY <1>1, QuestionsAreOffers, PTL
=============================================================================
