----------------------------- MODULE EditorProofs -----------------------------
(***************************************************************************)
(* The history of the SQL editor: undoing all leads back to the text the   *)
(* editor began with and redoing all to the newest one (UndoRestores), for *)
(* any texts that are typed, pasted or set and any bounds of the model.    *)
(*                                                                         *)
(* A text is what is before a change, what it replaces and what is after   *)
(* it, joined (Joined is associative).  So the change that the history     *)
(* keeps undoes a change (AntiChangeUndoes), and an event that typing on   *)
(* has lengthened still undoes all of it (TypingOnIsUndone).               *)
(*                                                                         *)
(* The events of a history are a path between texts (Track): a selection   *)
(* is in the text it belongs to, a burst of changes leads from the text    *)
(* after it to the text before it.  The inductive invariant HistInv says   *)
(* that done is a path to the first text and undone one to the newest, and *)
(* that every generation an event or the text has names its text.  Within  *)
(* an operation (Doing) the names are those of the operation's begin.      *)
(*                                                                         *)
(* Several cursors need that normalized selections are sorted and apart    *)
(* (RangesEndApart), that the changes of an operation are then in a row, and  *)
(* that changes from the last to the first leave the rest of the row as it *)
(* was (MakeChangesIs).                                                    *)
(***************************************************************************)
EXTENDS MCPages, FiniteSetTheorems, SequenceTheorems, TLAPS

-----------------------------------------------------------------------------
\* Texts and lines: sequences that are not empty, of sequences of characters.
TextLines == Seq(STRING)
LineSeqs == Seq(TextLines)

\* Concatenation and parts of sequences under names that the provers leave alone.
Cat(s, t) == s \o t
Sub(s, m, n) == SubSeq(s, m, n)
One(e) == <<e>>
Size(s) == Len(s)
Texts == {t \in LineSeqs : Size(t) >= 1}

LEMMA CatIs ==
  ASSUME NEW S, NEW s \in Seq(S), NEW t \in Seq(S)
  PROVE  /\ Cat(s, t) \in Seq(S) /\ Size(Cat(s, t)) = Size(s) + Size(t)
         /\ \A i \in 1..Size(s) : Cat(s, t)[i] = s[i]
         /\ \A i \in 1..Size(t) : Cat(s, t)[Size(s) + i] = t[i]
<1>1. Len(s) \in Nat /\ Len(t) \in Nat
  OBVIOUS
<1>2. s \o t \in Seq(S) /\ Len(s \o t) = Len(s) + Len(t)
  BY ConcatProperties
<1>3. \A i \in 1..Len(s) + Len(t) : (s \o t)[i] = IF i <= Len(s) THEN s[i] ELSE t[i - Len(s)]
  BY ConcatProperties
<1>4. ASSUME NEW i \in 1..Len(s) PROVE (s \o t)[i] = s[i]
  BY <1>1, <1>3, <1>4
<1>5. ASSUME NEW i \in 1..Len(t) PROVE (s \o t)[Len(s) + i] = t[i]
  <2>1. Len(s) + i \in 1..Len(s) + Len(t) /\ ~(Len(s) + i <= Len(s)) /\ Len(s) + i - Len(s) = i
    BY <1>1
  <2> QED
    BY <1>3, <2>1
<1> QED
  BY <1>2, <1>4, <1>5, Zenon DEF Cat, Size

LEMMA SubIs ==
  ASSUME NEW S, NEW s \in Seq(S), NEW m \in Int, NEW n \in Int, 1 <= m, n <= Size(s)
  PROVE  /\ Sub(s, m, n) \in Seq(S)
         /\ Size(Sub(s, m, n)) = IF m <= n THEN n - m + 1 ELSE 0
         /\ \A i \in 1..n - m + 1 : Sub(s, m, n)[i] = s[m + i - 1]
<1>1. \A i \in m..n : s[i] \in S
  BY DEF Size
<1>2. /\ SubSeq(s, m, n) \in Seq(S)
      /\ Len(SubSeq(s, m, n)) = IF m <= n THEN n - m + 1 ELSE 0
      /\ \A i \in 1..n - m + 1 : SubSeq(s, m, n)[i] = s[m + i - 1]
  BY <1>1, SubSeqProperties
<1> QED
  BY <1>2, Zenon DEF Sub, Size

LEMMA OneIs ==
  ASSUME NEW S, NEW e \in S
  PROVE  One(e) \in Seq(S) /\ Size(One(e)) = 1 /\ One(e)[1] = e
BY DEF One, Size

\* Sequences with the same elements are the same.
LEMMA SameSeq ==
  ASSUME NEW S, NEW s \in Seq(S), NEW t \in Seq(S), Size(s) = Size(t), \A i \in 1..Size(s) : s[i] = t[i]
  PROVE  s = t
BY SeqEqual DEF Size

LEMMA SeqSize ==
  ASSUME NEW S, NEW s \in Seq(S)
  PROVE  /\ Size(s) \in Nat /\ DOMAIN s = 1..Size(s) /\ (s = <<>> <=> Size(s) = 0)
         /\ \A i \in 1..Size(s) : s[i] \in S
BY DEF Size

\* The same of texts.
LEMMA TextCat ==
  ASSUME NEW s \in LineSeqs, NEW t \in LineSeqs
  PROVE  /\ Cat(s, t) \in LineSeqs /\ Size(Cat(s, t)) = Size(s) + Size(t)
         /\ \A i \in 1..Size(s) : Cat(s, t)[i] = s[i]
         /\ \A i \in 1..Size(t) : Cat(s, t)[Size(s) + i] = t[i]
BY CatIs DEF LineSeqs

LEMMA TextSub ==
  ASSUME NEW s \in LineSeqs, NEW m \in Int, NEW n \in Int, 1 <= m, n <= Size(s)
  PROVE  /\ Sub(s, m, n) \in LineSeqs
         /\ Size(Sub(s, m, n)) = IF m <= n THEN n - m + 1 ELSE 0
         /\ \A i \in 1..n - m + 1 : Sub(s, m, n)[i] = s[m + i - 1]
BY SubIs DEF LineSeqs

LEMMA TextOne ==
  ASSUME NEW e \in TextLines
  PROVE  One(e) \in LineSeqs /\ Size(One(e)) = 1 /\ One(e)[1] = e
BY OneIs DEF LineSeqs

LEMMA TextTail ==
  ASSUME NEW s \in Texts
  PROVE  /\ Head(s) = s[1] /\ Tail(s) \in LineSeqs /\ Size(Tail(s)) = Size(s) - 1
         /\ \A i \in 1..Size(s) - 1 : Tail(s)[i] = s[i + 1]
BY HeadTailProperties DEF Texts, LineSeqs, Size

LEMMA TextsAre ==
  ASSUME NEW t \in Texts
  PROVE  /\ t \in LineSeqs /\ Size(t) \in Nat /\ Size(t) >= 1 /\ DOMAIN t = 1..Size(t)
         /\ \A i \in 1..Size(t) : t[i] \in TextLines /\ Size(t[i]) \in Nat
BY DEF Texts, TextLines, LineSeqs, Size

\* Texts with the same lines are the same.
LEMMA SameText ==
  ASSUME NEW a \in Texts, NEW b \in Texts, Size(a) = Size(b), \A i \in 1..Size(a) : a[i] = b[i]
  PROVE  a = b
BY SeqEqual DEF Texts, LineSeqs, Size

LEMMA LineJoin ==
  ASSUME NEW u \in TextLines, NEW v \in TextLines
  PROVE  /\ Cat(u, v) \in TextLines /\ Size(Cat(u, v)) = Size(u) + Size(v)
         /\ \A w \in TextLines : Cat(Cat(u, v), w) = Cat(u, Cat(v, w))
<1>1. \A w \in TextLines : Cat(Cat(u, v), w) = Cat(u, Cat(v, w))
  <2> TAKE w \in TextLines
  <2>1. (u \o v) \o w = u \o (v \o w)
    BY ConcatAssociative DEF TextLines
  <2> QED
    BY <2>1, Zenon DEF Cat
<1> QED
  BY <1>1, CatIs DEF TextLines, Size

\* What joining two texts gives, line by line.
LEMMA JoinedIs ==
  ASSUME NEW a \in Texts, NEW b \in Texts
  PROVE  /\ Joined(a, b) \in Texts
         /\ Size(Joined(a, b)) = Size(a) + Size(b) - 1
         /\ \A i \in 1..Size(a) - 1 : Joined(a, b)[i] = a[i]
         /\ Joined(a, b)[Size(a)] = Cat(a[Size(a)], b[1])
         /\ \A i \in 2..Size(b) : Joined(a, b)[Size(a) + i - 1] = b[i]
<1>1. a \in LineSeqs /\ b \in LineSeqs /\ Size(a) \in Nat /\ Size(a) >= 1 /\ Size(b) \in Nat /\ Size(b) >= 1
  BY TextsAre
<1> DEFINE f == Front(a)
           m == Cat(Last(a), Head(b))
           r == Tail(b)
<1>2. f \in LineSeqs /\ Size(f) = Size(a) - 1 /\ \A i \in 1..Size(a) - 1 : f[i] = a[i]
  <2>2. 1 \in Int /\ Size(a) - 1 \in Int
    BY <1>1
  <2>3. /\ Sub(a, 1, Size(a) - 1) \in LineSeqs
        /\ Size(Sub(a, 1, Size(a) - 1)) = IF 1 <= Size(a) - 1 THEN Size(a) - 1 - 1 + 1 ELSE 0
        /\ \A i \in 1..Size(a) - 1 - 1 + 1 : Sub(a, 1, Size(a) - 1)[i] = a[1 + i - 1]
    BY <1>1, <2>2, TextSub
  <2>4. f = Sub(a, 1, Size(a) - 1)
    BY Zenon DEF Front, Sub, Size
  <2> HIDE DEF f
  <2> QED
    BY <1>1, <2>3, <2>4
<1>3. m \in TextLines /\ m = Cat(a[Size(a)], b[1])
  <2>1. Head(b) = b[1] /\ Last(a) = a[Size(a)]
    BY <1>1, TextTail DEF Last, Size
  <2>2. a[Size(a)] \in TextLines /\ b[1] \in TextLines
    BY <1>1, TextsAre
  <2> QED
    BY <2>1, <2>2, LineJoin
<1>4. r \in LineSeqs /\ Size(r) = Size(b) - 1 /\ \A i \in 1..Size(b) - 1 : r[i] = b[i + 1]
  BY <1>1, TextTail
<1>5. Joined(a, b) = Cat(Cat(f, One(m)), r)
  BY Zenon DEF Joined, Cat, One
<1> HIDE DEF f, m, r
<1>6. One(m) \in LineSeqs /\ Size(One(m)) = 1 /\ One(m)[1] = m
  BY <1>3, TextOne
<1> DEFINE g == Cat(f, One(m))
<1>7. /\ g \in LineSeqs /\ Size(g) = Size(a) /\ g[Size(a)] = m
      /\ \A i \in 1..Size(a) - 1 : g[i] = a[i]
  <2>1. /\ g \in LineSeqs /\ Size(g) = Size(f) + 1
        /\ \A i \in 1..Size(f) : g[i] = f[i]
        /\ \A i \in 1..1 : g[Size(f) + i] = One(m)[i]
    BY <1>2, <1>6, TextCat
  <2> HIDE DEF g
  <2>2. g[Size(f) + 1] = m
    BY <1>6, <2>1
  <2> QED
    BY <1>1, <1>2, <2>1, <2>2
<1> HIDE DEF g
<1> DEFINE j == Cat(g, r)
<1>8. /\ j \in LineSeqs /\ Size(j) = Size(g) + Size(r)
      /\ \A i \in 1..Size(g) : j[i] = g[i]
      /\ \A i \in 1..Size(r) : j[Size(g) + i] = r[i]
  BY <1>4, <1>7, TextCat
<1>9. Joined(a, b) = j
  BY <1>5 DEF g
<1> HIDE DEF j
<1>10. /\ Size(j) >= 1 /\ Size(j) = Size(a) + Size(b) - 1
       /\ \A i \in 1..Size(a) - 1 : j[i] = a[i]
       /\ j[Size(a)] = Cat(a[Size(a)], b[1])
  BY <1>1, <1>3, <1>4, <1>7, <1>8
<1>11. ASSUME NEW i \in 2..Size(b) PROVE j[Size(a) + i - 1] = b[i]
  <2>1. i - 1 \in 1..Size(b) - 1 /\ Size(a) + (i - 1) = Size(a) + i - 1 /\ (i - 1) + 1 = i
    BY <1>1
  <2>2. j[Size(g) + (i - 1)] = r[i - 1] /\ r[i - 1] = b[(i - 1) + 1]
    BY <1>4, <1>8, <2>1
  <2> QED
    BY <1>7, <2>1, <2>2
<1>12. j \in Texts
  BY <1>8, <1>10 DEF Texts
<1> QED
  BY <1>9, <1>10, <1>11, <1>12

LEMMA JoinedAssoc ==
  ASSUME NEW a \in Texts, NEW b \in Texts, NEW c \in Texts
  PROVE  Joined(Joined(a, b), c) = Joined(a, Joined(b, c))
<1> DEFINE ab == Joined(a, b)
           bc == Joined(b, c)
           l == Joined(ab, c)
           r == Joined(a, bc)
<1>1. /\ ab \in Texts /\ Size(ab) = Size(a) + Size(b) - 1
      /\ \A i \in 1..Size(a) - 1 : ab[i] = a[i]
      /\ ab[Size(a)] = Cat(a[Size(a)], b[1])
      /\ \A i \in 2..Size(b) : ab[Size(a) + i - 1] = b[i]
  BY JoinedIs
<1>2. /\ bc \in Texts /\ Size(bc) = Size(b) + Size(c) - 1
      /\ \A i \in 1..Size(b) - 1 : bc[i] = b[i]
      /\ bc[Size(b)] = Cat(b[Size(b)], c[1])
      /\ \A i \in 2..Size(c) : bc[Size(b) + i - 1] = c[i]
  BY JoinedIs
<1> HIDE DEF ab, bc
<1>3. /\ l \in Texts /\ Size(l) = Size(ab) + Size(c) - 1
      /\ \A i \in 1..Size(ab) - 1 : l[i] = ab[i]
      /\ l[Size(ab)] = Cat(ab[Size(ab)], c[1])
      /\ \A i \in 2..Size(c) : l[Size(ab) + i - 1] = c[i]
  BY <1>1, JoinedIs
<1>4. /\ r \in Texts /\ Size(r) = Size(a) + Size(bc) - 1
      /\ \A i \in 1..Size(a) - 1 : r[i] = a[i]
      /\ r[Size(a)] = Cat(a[Size(a)], bc[1])
      /\ \A i \in 2..Size(bc) : r[Size(a) + i - 1] = bc[i]
  BY <1>2, JoinedIs
<1> HIDE DEF l, r
<1>5. /\ Size(a) \in Nat /\ Size(a) >= 1 /\ Size(b) \in Nat /\ Size(b) >= 1 /\ Size(c) \in Nat /\ Size(c) >= 1
  BY TextsAre
<1>6. Size(l) = Size(r) /\ Size(l) = Size(a) + Size(b) + Size(c) - 2
  BY <1>1, <1>2, <1>3, <1>4, <1>5
<1>7. ASSUME NEW i \in 1..Size(l) PROVE l[i] = r[i]
  <2>0. i \in Int /\ i >= 1 /\ i <= Size(a) + Size(b) + Size(c) - 2
    BY <1>5, <1>6
  <2>1. CASE i < Size(a)
    <3>1. i \in 1..Size(a) - 1 /\ i \in 1..Size(ab) - 1
      BY <1>1, <1>5, <2>0, <2>1
    <3> QED
      BY <1>1, <1>3, <1>4, <3>1
  <2>2. CASE i = Size(a)
    <3>1. CASE Size(b) = 1
      <4>1. Size(ab) = i
        BY <1>1, <1>5, <2>2, <3>1
      <4>2. l[i] = Cat(Cat(a[i], b[1]), c[1])
        BY <1>1, <1>3, <2>2, <4>1
      <4>3. r[i] = Cat(a[i], Cat(b[1], c[1]))
        BY <1>2, <1>4, <2>2, <3>1
      <4>4. a[i] \in TextLines /\ b[1] \in TextLines /\ c[1] \in TextLines
        BY <1>5, <2>0, <2>2, TextsAre
      <4> QED
        BY <4>2, <4>3, <4>4, LineJoin, Zenon
    <3>2. CASE Size(b) > 1
      <4>1. i \in 1..Size(ab) - 1 /\ 1 \in 1..Size(b) - 1
        BY <1>1, <1>5, <2>2, <3>2
      <4>2. l[i] = Cat(a[i], b[1])
        BY <1>1, <1>3, <2>2, <4>1
      <4>3. r[i] = Cat(a[i], b[1])
        BY <1>2, <1>4, <2>2, <4>1
      <4> QED
        BY <4>2, <4>3
    <3>3. Size(b) = 1 \/ Size(b) > 1
      BY <1>5
    <3> QED
      BY <3>1, <3>2, <3>3, Zenon
  <2>3. CASE i > Size(a)
    <3> DEFINE k == i - Size(a) + 1
    <3>1. k \in Int /\ k >= 2 /\ k <= Size(b) + Size(c) - 1 /\ i = Size(a) + k - 1
      BY <1>5, <2>0, <2>3
    <3> HIDE DEF k
    <3>2. r[i] = bc[k]
      BY <1>2, <1>4, <1>5, <3>1
    <3>6. Size(ab) = Size(a) + Size(b) - 1
      BY <1>1
    <3>3. CASE k < Size(b)
      <4>1. k \in 1..Size(b) - 1 /\ k \in 2..Size(b) /\ i \in 1..Size(ab) - 1
        BY <3>6, <1>5, <2>0, <3>1, <3>3
      <4> QED
        BY <1>1, <1>2, <1>3, <3>1, <3>2, <4>1
    <3>4. CASE k = Size(b)
      <4>1. k \in 2..Size(b) /\ i = Size(ab)
        BY <3>6, <1>5, <2>0, <3>1, <3>4
      <4>2. ab[i] = b[k]
        BY <1>1, <3>1, <4>1
      <4> QED
        BY <1>2, <1>3, <3>2, <3>4, <4>1, <4>2
    <3>5. CASE k > Size(b)
      <4> DEFINE n == k - Size(b) + 1
      <4>1. n \in 2..Size(c) /\ k = Size(b) + n - 1 /\ i = Size(ab) + n - 1
        BY <3>6, <1>5, <2>0, <3>1, <3>5
      <4> HIDE DEF n
      <4>2. l[i] = c[n] /\ bc[k] = c[n]
        BY <1>2, <1>3, <4>1
      <4> QED
        BY <3>2, <4>2
    <3> QED
      BY <1>5, <3>1, <3>3, <3>4, <3>5
  <2> QED
    BY <1>5, <2>0, <2>1, <2>2, <2>3
<1>8. l = r
  BY <1>3, <1>4, <1>6, <1>7, SameText
<1> QED
  BY <1>8 DEF l, r, ab, bc

-----------------------------------------------------------------------------
\* Parts of lines.
LEMMA LineSub ==
  ASSUME NEW u \in TextLines, NEW m \in Int, NEW n \in Int, 1 <= m, n <= Size(u)
  PROVE  /\ Sub(u, m, n) \in TextLines
         /\ Size(Sub(u, m, n)) = IF m <= n THEN n - m + 1 ELSE 0
         /\ \A i \in 1..n - m + 1 : Sub(u, m, n)[i] = u[m + i - 1]
BY SubIs DEF TextLines

LEMMA LineCat ==
  ASSUME NEW u \in TextLines, NEW v \in TextLines
  PROVE  /\ Cat(u, v) \in TextLines /\ Size(Cat(u, v)) = Size(u) + Size(v)
         /\ \A i \in 1..Size(u) : Cat(u, v)[i] = u[i]
         /\ \A i \in 1..Size(v) : Cat(u, v)[Size(u) + i] = v[i]
BY CatIs DEF TextLines

LEMMA SameLine ==
  ASSUME NEW u \in TextLines, NEW v \in TextLines, Size(u) = Size(v), \A i \in 1..Size(u) : u[i] = v[i]
  PROVE  u = v
BY SameSeq DEF TextLines

LEMMA LineSize ==
  ASSUME NEW u \in TextLines
  PROVE  Size(u) \in Nat
BY SeqSize DEF TextLines

LEMMA WholeLine ==
  ASSUME NEW u \in TextLines
  PROVE  Sub(u, 1, Size(u)) = u
<1> DEFINE w == Sub(u, 1, Size(u))
<1>1. Size(u) \in Nat
  BY LineSize
<1>2. w \in TextLines /\ Size(w) = IF 1 <= Size(u) THEN Size(u) - 1 + 1 ELSE 0
  BY <1>1, LineSub
<1>3. \A i \in 1..Size(u) - 1 + 1 : w[i] = u[1 + i - 1]
  BY <1>1, LineSub
<1> HIDE DEF w
<1>4. Size(w) = Size(u) /\ \A i \in 1..Size(w) : w[i] = u[i]
  BY <1>1, <1>2, <1>3
<1>5. w = u
  BY <1>2, <1>4, SameLine
<1> QED
  BY <1>5 DEF w

LEMMA AdjacentParts ==
  ASSUME NEW u \in TextLines, NEW m \in Int, NEW k \in Int, NEW n \in Int,
         1 <= m, m - 1 <= k, k <= n, n <= Size(u)
  PROVE  Cat(Sub(u, m, k), Sub(u, k + 1, n)) = Sub(u, m, n)
<1> DEFINE a == Sub(u, m, k)
           b == Sub(u, k + 1, n)
           c == Sub(u, m, n)
           d == Cat(a, b)
<1>0. Size(u) \in Nat /\ k + 1 \in Int
  BY LineSize
<1>1. a \in TextLines /\ Size(a) = k - m + 1 /\ \A i \in 1..k - m + 1 : a[i] = u[m + i - 1]
  <2>1. a \in TextLines /\ Size(a) = (IF m <= k THEN k - m + 1 ELSE 0) /\ \A i \in 1..k - m + 1 : a[i] = u[m + i - 1]
    BY <1>0, LineSub
  <2> HIDE DEF a
  <2>2. Size(a) = k - m + 1
    BY <2>1
  <2> QED
    BY <2>1, <2>2
<1>2. b \in TextLines /\ Size(b) = n - k /\ \A i \in 1..n - k : b[i] = u[k + i]
  <2>1. b \in TextLines /\ Size(b) = (IF k + 1 <= n THEN n - (k + 1) + 1 ELSE 0)
        /\ \A i \in 1..n - (k + 1) + 1 : b[i] = u[k + 1 + i - 1]
    BY <1>0, LineSub
  <2> HIDE DEF b
  <2>2. Size(b) = n - k
    BY <2>1
  <2>3. ASSUME NEW i \in 1..n - k PROVE b[i] = u[k + i]
    <3>1. i \in 1..n - (k + 1) + 1 /\ k + 1 + i - 1 = k + i
      OBVIOUS
    <3> QED
      BY <2>1, <3>1
  <2> QED
    BY <2>1, <2>2, <2>3
<1>3. c \in TextLines /\ Size(c) = n - m + 1 /\ \A i \in 1..n - m + 1 : c[i] = u[m + i - 1]
  <2>1. c \in TextLines /\ Size(c) = (IF m <= n THEN n - m + 1 ELSE 0) /\ \A i \in 1..n - m + 1 : c[i] = u[m + i - 1]
    BY <1>0, LineSub
  <2> HIDE DEF c
  <2>2. Size(c) = n - m + 1
    BY <2>1
  <2> QED
    BY <2>1, <2>2
<1> HIDE DEF a, b, c
<1>4. /\ d \in TextLines /\ Size(d) = Size(a) + Size(b)
      /\ \A i \in 1..Size(a) : d[i] = a[i]
      /\ \A i \in 1..Size(b) : d[Size(a) + i] = b[i]
  BY <1>1, <1>2, LineCat
<1> HIDE DEF d
<1>5. Size(d) = Size(c)
  BY <1>1, <1>2, <1>3, <1>4
<1>6. ASSUME NEW i \in 1..Size(d) PROVE d[i] = c[i]
  <2>1. i \in 1..n - m + 1
    BY <1>3, <1>5
  <2>2. CASE i <= k - m + 1
    BY <1>1, <1>3, <1>4, <2>1, <2>2
  <2>3. CASE i > k - m + 1
    <3> DEFINE e == i - (k - m + 1)
    <3>1. e \in 1..n - k /\ i = (k - m + 1) + e /\ k + e = m + i - 1
      BY <2>1, <2>3
    <3> HIDE DEF e
    <3>2. d[i] = b[e] /\ b[e] = u[k + e]
      BY <1>1, <1>2, <1>4, <3>1
    <3> QED
      BY <1>3, <2>1, <3>1, <3>2
  <2> QED
    BY <2>2, <2>3
<1>7. d = c
  BY <1>3, <1>4, <1>5, <1>6, SameLine
<1> QED
  BY <1>7 DEF a, b, c, d

LEMMA PartsOfCat ==
  ASSUME NEW u \in TextLines, NEW v \in TextLines
  PROVE  /\ Sub(Cat(u, v), 1, Size(u)) = u
         /\ Sub(Cat(u, v), Size(u) + 1, Size(u) + Size(v)) = v
<1> DEFINE w == Cat(u, v)
           a == Sub(w, 1, Size(u))
           b == Sub(w, Size(u) + 1, Size(u) + Size(v))
<1>0. Size(u) \in Nat /\ Size(v) \in Nat
  BY LineSize
<1>1. /\ w \in TextLines /\ Size(w) = Size(u) + Size(v)
      /\ \A i \in 1..Size(u) : w[i] = u[i]
      /\ \A i \in 1..Size(v) : w[Size(u) + i] = v[i]
  BY LineCat
<1> HIDE DEF w
<1>2. a = u
  <2>1. a \in TextLines /\ Size(a) = (IF 1 <= Size(u) THEN Size(u) - 1 + 1 ELSE 0)
        /\ \A i \in 1..Size(u) - 1 + 1 : a[i] = w[1 + i - 1]
    BY <1>0, <1>1, LineSub
  <2> HIDE DEF a
  <2>2. Size(a) = Size(u) /\ \A i \in 1..Size(a) : a[i] = u[i]
    BY <1>0, <1>1, <2>1
  <2> QED
    BY <2>1, <2>2, SameLine
<1>3. b = v
  <2> DEFINE k == Size(u)
             n == Size(v)
  <2>1. b \in TextLines /\ Size(b) = (IF k + 1 <= k + n THEN (k + n) - (k + 1) + 1 ELSE 0)
        /\ \A i \in 1..(k + n) - (k + 1) + 1 : b[i] = w[k + 1 + i - 1]
    BY <1>0, <1>1, LineSub
  <2>2. k \in Nat /\ n \in Nat /\ \A i \in 1..n : w[k + i] = v[i]
    BY <1>0, <1>1
  <2>3. n = Size(v)
    OBVIOUS
  <2> HIDE DEF b, k, n
  <2>4. Size(b) = n
    BY <2>1, <2>2
  <2>5. ASSUME NEW i \in 1..n PROVE b[i] = v[i]
    <3>1. i \in 1..(k + n) - (k + 1) + 1 /\ k + 1 + i - 1 = k + i
      BY <2>2
    <3> QED
      BY <2>1, <2>2, <3>1
  <2> QED
    BY <2>1, <2>3, <2>4, <2>5, SameLine
<1> QED
  BY <1>2, <1>3 DEF a, b, w

-----------------------------------------------------------------------------
\* Positions.
Spots == Nat \X Nat

LEMMA SpotIs ==
  /\ \A l, c : LineNo(Pos(l, c)) = l /\ Ch(Pos(l, c)) = c
  /\ \A l, c \in Nat : Pos(l, c) \in Spots
  /\ \A p \in Spots : LineNo(p) \in Nat /\ Ch(p) \in Nat /\ p = Pos(LineNo(p), Ch(p))
  /\ \A p, q \in Spots : LineNo(p) = LineNo(q) /\ Ch(p) = Ch(q) => p = q
BY DEF LineNo, Ch, Pos, Spots

\* The positions of a text, line by line.
InText(t, p) == p \in Spots /\ LineNo(p) + 1 <= Size(t) /\ Ch(p) <= Size(t[LineNo(p) + 1])

LEMMA PositionsAre ==
  ASSUME NEW t \in Texts
  PROVE  \A p : p \in Positions(t) <=> InText(t, p)
<1>1. Size(t) \in Nat /\ \A i \in 1..Size(t) : Size(t[i]) \in Nat
  BY TextsAre
<1>2. \A p : p \in Positions(t) <=>
             \E l \in 0..Size(t) - 1 : \E c \in 0..Size(t[l + 1]) : p = Pos(l, c)
  <2> DEFINE Row(l) == {Pos(l, c) : c \in 0..Size(t[l + 1])}
             K == 0..Size(t) - 1
  <2>1. Positions(t) = UNION {Row(l) : l \in K}
    BY Zenon DEF Positions, LengthAt, LastLine, Size
  <2>2. \A p, l : p \in Row(l) <=> \E c \in 0..Size(t[l + 1]) : p = Pos(l, c)
    OBVIOUS
  <2> HIDE DEF Row, K
  <2>3. \A p : p \in Positions(t) <=> \E l \in K : p \in Row(l)
    BY <2>1
  <2> QED
    BY <2>2, <2>3, Zenon DEF K
<1>3. ASSUME NEW p, NEW l \in 0..Size(t) - 1, NEW c \in 0..Size(t[l + 1]), p = Pos(l, c)
      PROVE  InText(t, p)
  <2>1. l + 1 \in 1..Size(t) /\ l \in Nat
    BY <1>1
  <2>2. c \in Nat /\ c <= Size(t[l + 1])
    BY <1>1, <2>1
  <2>3. p \in Spots /\ LineNo(p) = l /\ Ch(p) = c
    BY <1>3, <2>1, <2>2, SpotIs
  <2>4. LineNo(p) + 1 <= Size(t) /\ Ch(p) <= Size(t[LineNo(p) + 1])
    BY <1>1, <2>1, <2>2, <2>3
  <2> QED
    BY <2>3, <2>4 DEF InText
<1>4. ASSUME NEW p, InText(t, p)
      PROVE  \E l \in 0..Size(t) - 1 : \E c \in 0..Size(t[l + 1]) : p = Pos(l, c)
  <2>1. LineNo(p) \in Nat /\ Ch(p) \in Nat /\ p = Pos(LineNo(p), Ch(p))
    BY <1>4, SpotIs DEF InText
  <2>2. LineNo(p) \in 0..Size(t) - 1
    BY <1>1, <1>4, <2>1 DEF InText
  <2>3. LineNo(p) + 1 \in 1..Size(t)
    BY <1>1, <2>2
  <2>4. Ch(p) \in 0..Size(t[LineNo(p) + 1])
    BY <1>1, <1>4, <2>1, <2>3 DEF InText
  <2> QED
    BY <2>1, <2>2, <2>4, Zenon
<1> QED
  BY <1>2, <1>3, <1>4, Zenon

LEMMA EndIs ==
  ASSUME NEW t \in Texts
  PROVE  /\ LineNo(EndOf(t)) = Size(t) - 1 /\ Ch(EndOf(t)) = Size(t[Size(t)])
         /\ EndOf(t) \in Spots /\ InText(t, EndOf(t)) /\ InText(t, Pos(0, 0))
<1>1. Size(t) \in Nat /\ Size(t) >= 1 /\ \A i \in 1..Size(t) : Size(t[i]) \in Nat
  BY TextsAre
<1>2. EndOf(t) = Pos(Size(t) - 1, Size(t[Size(t) - 1 + 1]))
  BY Zenon DEF EndOf, LengthAt, LastLine, Size
<1>3. Size(t) - 1 + 1 = Size(t) /\ Size(t) - 1 \in Nat /\ Size(t[Size(t)]) \in Nat
  BY <1>1
<1>4. /\ LineNo(EndOf(t)) = Size(t) - 1 /\ Ch(EndOf(t)) = Size(t[Size(t)])
      /\ EndOf(t) \in Spots
  BY <1>2, <1>3, SpotIs
<1>5. Pos(0, 0) \in Spots /\ LineNo(Pos(0, 0)) = 0 /\ Ch(Pos(0, 0)) = 0
  BY SpotIs
<1> QED
  BY <1>1, <1>3, <1>4, <1>5 DEF InText

\* NotAfter orders them.
LEMMA OrderIs ==
  ASSUME NEW p \in Spots, NEW q \in Spots
  PROVE  /\ NotAfter(p, q) <=> LineNo(p) < LineNo(q) \/ (LineNo(p) = LineNo(q) /\ Ch(p) <= Ch(q))
         /\ Before(p, q) <=> LineNo(p) < LineNo(q) \/ (LineNo(p) = LineNo(q) /\ Ch(p) < Ch(q))
<1>1. LineNo(p) \in Nat /\ Ch(p) \in Nat /\ LineNo(q) \in Nat /\ Ch(q) \in Nat
  BY SpotIs
<1> QED
  BY <1>1 DEF NotAfter, Before

-----------------------------------------------------------------------------
\* The lines between two positions are parts of lines of the text.
LowAt(p, i) == IF i = 1 THEN Ch(p) + 1 ELSE 1
HighAt(t, p, q, i) == IF i = LineNo(q) - LineNo(p) + 1 THEN Ch(q) ELSE Size(t[LineNo(p) + i])

LEMMA BetweenIs ==
  ASSUME NEW t \in Texts, NEW p, NEW q, InText(t, p), InText(t, q), NotAfter(p, q)
  PROVE  /\ GetBetween(t, p, q) \in Texts
         /\ Size(GetBetween(t, p, q)) = LineNo(q) - LineNo(p) + 1
         /\ \A i \in 1..LineNo(q) - LineNo(p) + 1 :
              /\ GetBetween(t, p, q)[i] = Sub(t[LineNo(p) + i], LowAt(p, i), HighAt(t, p, q, i))
              /\ LineNo(p) + i \in 1..Size(t) /\ t[LineNo(p) + i] \in TextLines
              /\ LowAt(p, i) \in Int /\ HighAt(t, p, q, i) \in Int
              /\ 1 <= LowAt(p, i) /\ LowAt(p, i) - 1 <= HighAt(t, p, q, i)
              /\ HighAt(t, p, q, i) <= Size(t[LineNo(p) + i])
<1> DEFINE n == LineNo(q) - LineNo(p) + 1
           b == GetBetween(t, p, q)
<1>1. Size(t) \in Nat /\ Size(t) >= 1 /\ \A i \in 1..Size(t) : t[i] \in TextLines /\ Size(t[i]) \in Nat
  BY TextsAre
<1>2. /\ LineNo(p) \in Nat /\ Ch(p) \in Nat /\ LineNo(q) \in Nat /\ Ch(q) \in Nat
      /\ p \in Spots /\ q \in Spots
      /\ LineNo(p) + 1 <= Size(t) /\ LineNo(q) + 1 <= Size(t)
      /\ Ch(p) <= Size(t[LineNo(p) + 1]) /\ Ch(q) <= Size(t[LineNo(q) + 1])
  BY SpotIs DEF InText
<1>3. LineNo(p) < LineNo(q) \/ (LineNo(p) = LineNo(q) /\ Ch(p) <= Ch(q))
  BY <1>2, OrderIs
<1>4. n \in Nat /\ n >= 1 /\ LineNo(p) + n = LineNo(q) + 1
  BY <1>2, <1>3
<1>5. b = [i \in 1..n |-> Sub(t[LineNo(p) + i - 1 + 1], IF i = 1 THEN Ch(p) + 1 ELSE 1,
                              IF LineNo(p) + i - 1 = LineNo(q) THEN Ch(q) ELSE Size(t[LineNo(p) + i - 1 + 1]))]
  BY Zenon DEF GetBetween, LengthAt, Sub, Size
<1> HIDE DEF b, n
<1>6. ASSUME NEW i \in 1..n
      PROVE  /\ b[i] = Sub(t[LineNo(p) + i], LowAt(p, i), HighAt(t, p, q, i))
             /\ LineNo(p) + i \in 1..Size(t) /\ t[LineNo(p) + i] \in TextLines
             /\ LowAt(p, i) \in Int /\ HighAt(t, p, q, i) \in Int
             /\ 1 <= LowAt(p, i) /\ LowAt(p, i) - 1 <= HighAt(t, p, q, i)
             /\ HighAt(t, p, q, i) <= Size(t[LineNo(p) + i])
  <2>1. LineNo(p) + i - 1 + 1 = LineNo(p) + i /\ (LineNo(p) + i - 1 = LineNo(q) <=> i = n)
    BY <1>2, <1>4
  <2>2. LineNo(p) + i \in 1..Size(t)
    BY <1>1, <1>2, <1>4
  <2>3. t[LineNo(p) + i] \in TextLines /\ Size(t[LineNo(p) + i]) \in Nat
    BY <1>1, <2>2
  <2> DEFINE low == LowAt(p, i)
             high == HighAt(t, p, q, i)
  <2>4. low = (IF i = 1 THEN Ch(p) + 1 ELSE 1) /\ high = (IF i = n THEN Ch(q) ELSE Size(t[LineNo(p) + i]))
    BY Zenon DEF LowAt, HighAt, n
  <2> HIDE DEF low, high
  <2>5. b[i] = Sub(t[LineNo(p) + i], low, high)
    BY <1>5, <2>1, <2>4
  <2>6. i = 1 => Ch(p) <= Size(t[LineNo(p) + i])
    BY <1>2
  <2>7. i = n => Ch(q) <= Size(t[LineNo(p) + i])
    BY <1>2, <1>4
  <2>8. i = 1 /\ i = n => Ch(p) <= Ch(q)
    BY <1>2, <1>3, <1>4
  <2>9. low \in Int /\ high \in Int /\ 1 <= low /\ low - 1 <= high /\ high <= Size(t[LineNo(p) + i])
    BY <1>2, <2>3, <2>4, <2>6, <2>7, <2>8
  <2> QED
    BY <2>2, <2>3, <2>5, <2>9 DEF low, high
<1>7. b \in Texts /\ Size(b) = n
  <2>1. \A i \in 1..n : Sub(t[LineNo(p) + i], LowAt(p, i), HighAt(t, p, q, i)) \in TextLines
    BY <1>6, LineSub
  <2>2. \A i \in 1..n : b[i] \in TextLines
    BY <1>6, <2>1
  <2>3. b \in [1..n -> TextLines]
    BY <1>5, <2>2
  <2>4. b \in LineSeqs /\ Size(b) = n
    BY <1>4, <2>3 DEF LineSeqs, Size
  <2> QED
    BY <1>4, <2>4 DEF Texts
<1> QED
  BY <1>6, <1>7 DEF b, n

\* A text is what is between its ends.
LEMMA BetweenEnds ==
  ASSUME NEW t \in Texts
  PROVE  GetBetween(t, Pos(0, 0), EndOf(t)) = t
<1> DEFINE b == GetBetween(t, Pos(0, 0), EndOf(t))
           o == Pos(0, 0)
           e == EndOf(t)
<1>1. /\ LineNo(o) = 0 /\ Ch(o) = 0 /\ o \in Spots /\ InText(t, o) /\ InText(t, e) /\ e \in Spots
      /\ LineNo(e) = Size(t) - 1 /\ Ch(e) = Size(t[Size(t)])
  BY EndIs, SpotIs
<1>2. Size(t) \in Nat /\ Size(t) >= 1 /\ \A i \in 1..Size(t) : t[i] \in TextLines /\ Size(t[i]) \in Nat
  BY TextsAre
<1>3. NotAfter(o, e)
  <2>1. Size(t[Size(t)]) \in Nat
    BY <1>2
  <2>2. LineNo(o) < LineNo(e) \/ (LineNo(o) = LineNo(e) /\ Ch(o) <= Ch(e))
    BY <1>1, <1>2, <2>1
  <2> HIDE DEF o, e
  <2> QED
    BY <1>1, <2>2, OrderIs
<1> HIDE DEF o, e
<1>4. /\ GetBetween(t, o, e) \in Texts /\ Size(GetBetween(t, o, e)) = Size(t)
      /\ \A i \in 1..Size(t) : GetBetween(t, o, e)[i] = Sub(t[i], LowAt(o, i), HighAt(t, o, e, i))
  <2>1. LineNo(e) - LineNo(o) + 1 = Size(t) /\ \A i \in 1..Size(t) : LineNo(o) + i = i
    BY <1>1, <1>2
  <2> QED
    BY <1>1, <1>3, <2>1, BetweenIs
<1>5. ASSUME NEW i \in 1..Size(t) PROVE GetBetween(t, o, e)[i] = t[i]
  <2>1. LowAt(o, i) = 1
    BY <1>1 DEF LowAt
  <2>2. HighAt(t, o, e, i) = Size(t[i])
    BY <1>1, <1>2 DEF HighAt
  <2> QED
    BY <1>2, <1>4, <2>1, <2>2, WholeLine
<1>6. GetBetween(t, o, e) = t
  BY <1>4, <1>5, SameText
<1> QED
  BY <1>6 DEF o, e

\* What is between two positions, and then on to a third.
LEMMA BetweenJoins ==
  ASSUME NEW t \in Texts, NEW p, NEW q, NEW r, InText(t, p), InText(t, q), InText(t, r),
         NotAfter(p, q), NotAfter(q, r)
  PROVE  /\ NotAfter(p, r)
         /\ Joined(GetBetween(t, p, q), GetBetween(t, q, r)) = GetBetween(t, p, r)
<1>1. /\ LineNo(p) \in Nat /\ Ch(p) \in Nat /\ LineNo(q) \in Nat /\ Ch(q) \in Nat /\ LineNo(r) \in Nat /\ Ch(r) \in Nat
      /\ p \in Spots /\ q \in Spots /\ r \in Spots
  BY SpotIs DEF InText
<1>2. /\ LineNo(p) < LineNo(q) \/ (LineNo(p) = LineNo(q) /\ Ch(p) <= Ch(q))
      /\ LineNo(q) < LineNo(r) \/ (LineNo(q) = LineNo(r) /\ Ch(q) <= Ch(r))
  BY <1>1, OrderIs
<1>3. NotAfter(p, r)
  <2>1. LineNo(p) < LineNo(r) \/ (LineNo(p) = LineNo(r) /\ Ch(p) <= Ch(r))
    BY <1>1, <1>2
  <2> QED
    BY <1>1, <2>1, OrderIs
<1> DEFINE a == GetBetween(t, p, q)
           b == GetBetween(t, q, r)
           c == GetBetween(t, p, r)
           d == Joined(a, b)
           m == LineNo(q) - LineNo(p) + 1
           k == LineNo(r) - LineNo(q) + 1
           n == LineNo(r) - LineNo(p) + 1
<1>4. /\ a \in Texts /\ Size(a) = m
      /\ \A i \in 1..m : a[i] = Sub(t[LineNo(p) + i], LowAt(p, i), HighAt(t, p, q, i))
  BY BetweenIs
<1>5. /\ b \in Texts /\ Size(b) = k
      /\ \A i \in 1..k : b[i] = Sub(t[LineNo(q) + i], LowAt(q, i), HighAt(t, q, r, i))
  BY BetweenIs
<1>6. /\ c \in Texts /\ Size(c) = n
      /\ \A i \in 1..n : c[i] = Sub(t[LineNo(p) + i], LowAt(p, i), HighAt(t, p, r, i))
  BY <1>3, BetweenIs
<1> HIDE DEF a, b, c
<1>8. /\ m \in Nat /\ m >= 1 /\ k \in Nat /\ k >= 1 /\ n = m + k - 1
      /\ LineNo(p) + m = LineNo(q) + 1
  BY <1>1, <1>2
<1>9. \A i \in 1..n : /\ HighAt(t, p, r, i) = IF i = n THEN Ch(r) ELSE Size(t[LineNo(p) + i])
                      /\ LowAt(p, i) = IF i = 1 THEN Ch(p) + 1 ELSE 1
  BY DEF HighAt, LowAt
<1>10. \A i \in 1..m : HighAt(t, p, q, i) = IF i = m THEN Ch(q) ELSE Size(t[LineNo(p) + i])
  BY DEF HighAt
<1>11. \A i \in 1..k : /\ HighAt(t, q, r, i) = IF i = k THEN Ch(r) ELSE Size(t[LineNo(q) + i])
                       /\ LowAt(q, i) = IF i = 1 THEN Ch(q) + 1 ELSE 1
  BY DEF HighAt, LowAt
<1> HIDE DEF m, k, n
<1>7. /\ d \in Texts /\ Size(d) = m + k - 1
      /\ \A i \in 1..m - 1 : d[i] = a[i]
      /\ d[m] = Cat(a[m], b[1])
      /\ \A i \in 2..k : d[m + i - 1] = b[i]
  BY <1>4, <1>5, JoinedIs
<1> HIDE DEF d
<1>12. ASSUME NEW i \in 1..n PROVE d[i] = c[i]
  <2>1. CASE i < m
    <3>1. i \in 1..m - 1 /\ i \in 1..m /\ i # n
      BY <1>8, <2>1
    <3>2. HighAt(t, p, q, i) = HighAt(t, p, r, i)
      BY <1>8, <1>9, <1>10, <2>1, <3>1
    <3> QED
      BY <1>4, <1>6, <1>7, <3>1, <3>2
  <2>2. CASE i = m
    <3> DEFINE u == t[LineNo(p) + i]
               low == LowAt(p, i)
               mid == Ch(q)
               high == HighAt(t, p, r, i)
    <3>1. m \in 1..m /\ 1 \in 1..k /\ LineNo(q) + 1 = LineNo(p) + m
      BY <1>8
    <3>2. a[i] = Sub(u, low, mid)
      BY <1>4, <1>10, <2>2, <3>1
    <3>3. HighAt(t, q, r, 1) = high
      BY <1>8, <1>9, <1>11, <2>2, <3>1
    <3>4. b[1] = Sub(u, mid + 1, high)
      BY <1>5, <1>11, <2>2, <3>1, <3>3
    <3>5. c[i] = Sub(u, low, high)
      BY <1>6
    <3>6. u \in TextLines /\ low \in Int /\ high \in Int /\ 1 <= low /\ high <= Size(u)
      BY <1>3, BetweenIs DEF n
    <3>7. low - 1 <= mid
      <4>1. LowAt(p, i) - 1 <= HighAt(t, p, q, i)
        BY <2>2, <3>1, BetweenIs DEF m
      <4> QED
        BY <1>10, <2>2, <3>1, <4>1
    <3>8. mid <= high
      <4>1. LowAt(q, 1) - 1 <= HighAt(t, q, r, 1)
        BY <3>1, BetweenIs DEF k
      <4>2. LowAt(q, 1) = Ch(q) + 1
        BY <1>11, <3>1
      <4> HIDE DEF high
      <4> QED
        BY <1>1, <3>3, <3>6, <4>1, <4>2
    <3>9. mid \in Int
      BY <1>1
    <3> HIDE DEF u, low, mid, high
    <3>10. Cat(Sub(u, low, mid), Sub(u, mid + 1, high)) = Sub(u, low, high)
      BY <3>6, <3>7, <3>8, <3>9, AdjacentParts
    <3> QED
      BY <1>7, <2>2, <3>2, <3>4, <3>5, <3>10
  <2>3. CASE i > m
    <3> DEFINE e == i - m + 1
    <3>1. e \in 2..k /\ i = m + e - 1 /\ LineNo(q) + e = LineNo(p) + i /\ (e = k <=> i = n) /\ e # 1 /\ i # 1
          /\ e \in 1..k
      BY <1>1, <1>8, <2>3
    <3> HIDE DEF e
    <3>2. d[i] = b[e] /\ b[e] = Sub(t[LineNo(p) + i], LowAt(q, e), HighAt(t, q, r, e))
      BY <1>5, <1>7, <3>1
    <3>3. LowAt(q, e) = LowAt(p, i)
      BY <1>9, <1>11, <3>1
    <3>4. HighAt(t, q, r, e) = HighAt(t, p, r, i)
      BY <1>9, <1>11, <3>1
    <3> QED
      BY <1>6, <3>2, <3>3, <3>4
  <2> QED
    BY <1>8, <2>1, <2>2, <2>3
<1>13. d = c
  BY <1>6, <1>7, <1>8, <1>12, SameText
<1> QED
  BY <1>3, <1>13 DEF a, b, c, d

\* The end of what is before a position.
LEMMA EndOfBetween ==
  ASSUME NEW t \in Texts, NEW p, InText(t, p)
  PROVE  /\ NotAfter(Pos(0, 0), p) /\ NotAfter(p, EndOf(t))
         /\ EndOf(GetBetween(t, Pos(0, 0), p)) = p
<1> DEFINE o == Pos(0, 0)
           b == GetBetween(t, o, p)
<1>1. LineNo(o) = 0 /\ Ch(o) = 0 /\ o \in Spots /\ InText(t, o)
  BY EndIs, SpotIs
<1>2. /\ LineNo(p) \in Nat /\ Ch(p) \in Nat /\ p \in Spots
      /\ LineNo(p) + 1 <= Size(t) /\ Ch(p) <= Size(t[LineNo(p) + 1])
  BY SpotIs DEF InText
<1>3. NotAfter(o, p)
  <2>1. LineNo(o) < LineNo(p) \/ (LineNo(o) = LineNo(p) /\ Ch(o) <= Ch(p))
    BY <1>1, <1>2
  <2> HIDE DEF o
  <2> QED
    BY <1>1, <1>2, <2>1, OrderIs
<1>4. NotAfter(p, EndOf(t))
  <2> DEFINE e == EndOf(t)
  <2>1. e \in Spots /\ LineNo(e) = Size(t) - 1 /\ Ch(e) = Size(t[Size(t)])
    BY EndIs
  <2>2. Size(t) \in Nat /\ Size(t) >= 1 /\ Size(t[Size(t)]) \in Nat
    BY TextsAre
  <2>3. LineNo(p) = Size(t) - 1 => LineNo(p) + 1 = Size(t)
    BY <1>2, <2>2
  <2>4. LineNo(p) < LineNo(e) \/ (LineNo(p) = LineNo(e) /\ Ch(p) <= Ch(e))
    BY <1>2, <2>1, <2>2, <2>3
  <2> HIDE DEF e
  <2>5. NotAfter(p, e)
    BY <1>2, <2>1, <2>4, OrderIs
  <2> QED
    BY <2>5 DEF e
<1> HIDE DEF o
<1> DEFINE n == LineNo(p) + 1
<1>5. n \in Nat /\ n >= 1 /\ LineNo(p) - LineNo(o) + 1 = n /\ LineNo(o) + n = n /\ n \in 1..n
  BY <1>1, <1>2
<1>6. /\ b \in Texts /\ Size(b) = n /\ b[n] = Sub(t[n], LowAt(o, n), HighAt(t, o, p, n))
      /\ t[n] \in TextLines /\ LowAt(o, n) = 1 /\ HighAt(t, o, p, n) = Ch(p)
  <2>1. b \in Texts /\ Size(b) = n /\ b[n] = Sub(t[n], LowAt(o, n), HighAt(t, o, p, n)) /\ t[n] \in TextLines
    BY <1>1, <1>3, <1>5, BetweenIs
  <2>2. LowAt(o, n) = 1
    BY <1>1 DEF LowAt
  <2>3. HighAt(t, o, p, n) = Ch(p)
    BY <1>5 DEF HighAt
  <2> QED
    BY <2>1, <2>2, <2>3
<1> HIDE DEF b
<1>7. Size(b[n]) = Ch(p)
  <2> DEFINE u == t[n]
  <2>2. u \in TextLines /\ Ch(p) \in Int /\ Ch(p) <= Size(u)
    BY <1>2, <1>6
  <2> HIDE DEF u
  <2>3. Size(Sub(u, 1, Ch(p))) = IF 1 <= Ch(p) THEN Ch(p) - 1 + 1 ELSE 0
    BY <2>2, LineSub
  <2>1. Size(Sub(t[n], 1, Ch(p))) = IF 1 <= Ch(p) THEN Ch(p) - 1 + 1 ELSE 0
    BY <2>3 DEF u
  <2> QED
    BY <1>2, <1>6, <2>1
<1>8. LineNo(EndOf(b)) = LineNo(p) /\ Ch(EndOf(b)) = Ch(p) /\ EndOf(b) \in Spots
  <2>1. LineNo(EndOf(b)) = Size(b) - 1 /\ Ch(EndOf(b)) = Size(b[Size(b)]) /\ EndOf(b) \in Spots
    BY <1>6, EndIs
  <2> QED
    BY <1>2, <1>6, <1>7, <2>1
<1>9. EndOf(b) = p
  BY <1>2, <1>8, SpotIs
<1> QED
  BY <1>3, <1>4, <1>9 DEF b, o

-----------------------------------------------------------------------------
\* Where a position of a text is after a text is put before it that ends at p.
Shift(p, q) == Pos(LineNo(p) + LineNo(q), Ch(q) + IF LineNo(q) = 0 THEN Ch(p) ELSE 0)

LEMMA ShiftIs ==
  ASSUME NEW p \in Spots, NEW q \in Spots
  PROVE  /\ Shift(p, q) \in Spots /\ LineNo(Shift(p, q)) = LineNo(p) + LineNo(q)
         /\ Ch(Shift(p, q)) = Ch(q) + IF LineNo(q) = 0 THEN Ch(p) ELSE 0
         /\ NotAfter(p, Shift(p, q))
<1>1. LineNo(p) \in Nat /\ Ch(p) \in Nat /\ LineNo(q) \in Nat /\ Ch(q) \in Nat
  BY SpotIs
<1>2. LineNo(p) + LineNo(q) \in Nat /\ Ch(q) + (IF LineNo(q) = 0 THEN Ch(p) ELSE 0) \in Nat
  BY <1>1
<1>3. /\ Shift(p, q) \in Spots /\ LineNo(Shift(p, q)) = LineNo(p) + LineNo(q)
      /\ Ch(Shift(p, q)) = Ch(q) + IF LineNo(q) = 0 THEN Ch(p) ELSE 0
  BY <1>2, SpotIs DEF Shift
<1>4. LineNo(p) < LineNo(Shift(p, q)) \/ (LineNo(p) = LineNo(Shift(p, q)) /\ Ch(p) <= Ch(Shift(p, q)))
  BY <1>1, <1>3
<1> QED
  BY <1>3, <1>4, OrderIs

\* The first of two joined texts is what is before its end, and its positions stay.
LEMMA FirstOfJoined ==
  ASSUME NEW a \in Texts, NEW b \in Texts
  PROVE  /\ \A p : InText(a, p) => InText(Joined(a, b), p)
         /\ GetBetween(Joined(a, b), Pos(0, 0), EndOf(a)) = a
<1> DEFINE t == Joined(a, b)
           o == Pos(0, 0)
           e == EndOf(a)
           n == Size(a)
<1>1. /\ t \in Texts /\ Size(t) = n + Size(b) - 1
      /\ \A i \in 1..n - 1 : t[i] = a[i]
      /\ t[n] = Cat(a[n], b[1])
  BY JoinedIs
<1>2. /\ n \in Nat /\ n >= 1 /\ Size(b) \in Nat /\ Size(b) >= 1 /\ Size(a) = n
      /\ \A i \in 1..n : a[i] \in TextLines /\ Size(a[i]) \in Nat
      /\ b[1] \in TextLines /\ Size(b[1]) \in Nat
  BY TextsAre
<1> HIDE DEF t, n
<1>3. Size(t[n]) = Size(a[n]) + Size(b[1])
  BY <1>1, <1>2, LineCat
<1>4. \A i \in 1..n : Size(a[i]) <= Size(t[i])
  BY <1>1, <1>2, <1>3
<1>5. ASSUME NEW p, InText(a, p) PROVE InText(t, p)
  <2>1. p \in Spots /\ LineNo(p) + 1 <= n /\ Ch(p) <= Size(a[LineNo(p) + 1]) /\ LineNo(p) \in Nat /\ Ch(p) \in Nat
    BY <1>2, <1>5, SpotIs DEF InText
  <2>2. LineNo(p) + 1 \in 1..n
    BY <1>2, <2>1
  <2>3. Size(a[LineNo(p) + 1]) <= Size(t[LineNo(p) + 1]) /\ Size(a[LineNo(p) + 1]) \in Nat
    BY <1>2, <1>4, <2>2
  <2>4. Size(t[LineNo(p) + 1]) \in Nat
    <3>1. LineNo(p) + 1 \in 1..Size(t)
      BY <1>1, <1>2, <2>2
    <3> QED
      BY <1>1, <3>1, TextsAre
  <2>5. LineNo(p) + 1 <= Size(t)
    BY <1>1, <1>2, <2>1
  <2> QED
    BY <2>1, <2>3, <2>4, <2>5 DEF InText
<1>6. /\ LineNo(o) = 0 /\ Ch(o) = 0 /\ o \in Spots /\ InText(t, o)
      /\ LineNo(e) = n - 1 /\ Ch(e) = Size(a[n]) /\ e \in Spots /\ InText(a, e)
  BY <1>1, <1>2, EndIs, SpotIs
<1>7. InText(t, e)
  BY <1>5, <1>6
<1> HIDE DEF e
<1>8. NotAfter(o, e)
  BY <1>1, <1>7, EndOfBetween
<1> HIDE DEF o
<1> DEFINE c == GetBetween(t, o, e)
<1>9. /\ c \in Texts /\ Size(c) = n
      /\ \A i \in 1..n : c[i] = Sub(t[i], LowAt(o, i), HighAt(t, o, e, i))
  <2>1. LineNo(e) - LineNo(o) + 1 = n /\ \A i \in 1..n : LineNo(o) + i = i
    BY <1>2, <1>6
  <2> QED
    BY <1>1, <1>6, <1>7, <1>8, <2>1, BetweenIs
<1> HIDE DEF c
<1>10. \A i \in 1..n : /\ LowAt(o, i) = 1
                       /\ HighAt(t, o, e, i) = IF i = n THEN Size(a[n]) ELSE Size(t[i])
  BY <1>2, <1>6 DEF LowAt, HighAt
<1>11. ASSUME NEW i \in 1..n PROVE c[i] = a[i]
  <2>1. CASE i < n
    <3>1. t[i] = a[i] /\ c[i] = Sub(t[i], 1, Size(t[i]))
      BY <1>1, <1>2, <1>9, <1>10, <2>1
    <3> QED
      BY <1>2, <3>1, WholeLine
  <2>2. CASE i = n
    <3>1. c[i] = Sub(Cat(a[n], b[1]), 1, Size(a[n]))
      BY <1>1, <1>9, <1>10, <2>2
    <3>2. a[n] \in TextLines
      BY <1>2
    <3> QED
      BY <1>2, <2>2, <3>1, <3>2, PartsOfCat, Zenon
  <2> QED
    BY <1>2, <2>1, <2>2
<1>12. c = a
  BY <1>2, <1>9, <1>11, SameText
<1> QED
  BY <1>5, <1>12 DEF t, o, e, c

\* The second is what is behind, and its positions are shifted.
LEMMA SecondOfJoined ==
  ASSUME NEW a \in Texts, NEW b \in Texts
  PROVE  /\ \A q : InText(b, q) => InText(Joined(a, b), Shift(EndOf(a), q))
         /\ EndOf(Joined(a, b)) = Shift(EndOf(a), EndOf(b))
         /\ GetBetween(Joined(a, b), EndOf(a), EndOf(Joined(a, b))) = b
<1> DEFINE t == Joined(a, b)
           e == EndOf(a)
           f == EndOf(b)
           g == EndOf(t)
           n == Size(a)
           m == Size(b)
<1>1. /\ t \in Texts /\ Size(t) = n + m - 1
      /\ t[n] = Cat(a[n], b[1])
      /\ \A i \in 2..m : t[n + i - 1] = b[i]
  BY JoinedIs
<1>2. /\ n \in Nat /\ n >= 1 /\ m \in Nat /\ m >= 1
      /\ a[n] \in TextLines /\ Size(a[n]) \in Nat
      /\ \A i \in 1..m : b[i] \in TextLines /\ Size(b[i]) \in Nat
  <2>1. n \in Nat /\ n >= 1 /\ m \in Nat /\ m >= 1
    BY TextsAre
  <2>2. n \in 1..n
    BY <2>1
  <2> QED
    BY <2>1, <2>2, TextsAre
<1>3. /\ LineNo(e) = n - 1 /\ Ch(e) = Size(a[n]) /\ e \in Spots /\ InText(a, e)
      /\ LineNo(f) = m - 1 /\ Ch(f) = Size(b[m]) /\ f \in Spots
      /\ n = Size(a) /\ m = Size(b)
  BY EndIs
<1>4. LineNo(g) = Size(t) - 1 /\ Ch(g) = Size(t[Size(t)]) /\ g \in Spots /\ InText(t, g)
  BY <1>1, EndIs
<1>5. InText(t, e)
  BY <1>3, FirstOfJoined
<1> HIDE DEF t, e, f, g, n, m
<1>6. b[1] \in TextLines /\ Size(b[1]) \in Nat /\ Size(t[n]) = Size(a[n]) + Size(b[1])
  <2>1. 1 \in 1..m
    BY <1>2
  <2> QED
    BY <1>1, <1>2, <2>1, LineCat
<1>7. ASSUME NEW q, InText(b, q) PROVE InText(t, Shift(e, q))
  <2>1. q \in Spots /\ LineNo(q) + 1 <= m /\ Ch(q) <= Size(b[LineNo(q) + 1]) /\ LineNo(q) \in Nat /\ Ch(q) \in Nat
    BY <1>3, <1>7, SpotIs DEF InText
  <2>2. /\ Shift(e, q) \in Spots /\ LineNo(Shift(e, q)) = LineNo(e) + LineNo(q)
        /\ Ch(Shift(e, q)) = Ch(q) + IF LineNo(q) = 0 THEN Ch(e) ELSE 0
    BY <1>3, <2>1, ShiftIs
  <2>3. LineNo(Shift(e, q)) + 1 <= Size(t)
    BY <1>1, <1>2, <1>3, <2>1, <2>2
  <2>4. Ch(Shift(e, q)) <= Size(t[LineNo(Shift(e, q)) + 1])
    <3>1. CASE LineNo(q) = 0
      <4>1. LineNo(Shift(e, q)) + 1 = n /\ LineNo(q) + 1 = 1
        BY <1>2, <1>3, <2>2, <3>1
      <4> QED
        BY <1>2, <1>3, <1>6, <2>1, <2>2, <3>1, <4>1
    <3>2. CASE LineNo(q) > 0
      <4>1. LineNo(q) + 1 \in 2..m /\ LineNo(Shift(e, q)) + 1 = n + (LineNo(q) + 1) - 1
        BY <1>2, <1>3, <2>1, <2>2, <3>2
      <4>2. t[LineNo(Shift(e, q)) + 1] = b[LineNo(q) + 1]
        BY <1>1, <4>1
      <4> QED
        BY <2>1, <2>2, <3>2, <4>2
    <3> QED
      BY <2>1, <3>1, <3>2
  <2> QED
    BY <2>2, <2>3, <2>4 DEF InText
<1>8. g = Shift(e, f)
  <2>1. /\ Shift(e, f) \in Spots /\ LineNo(Shift(e, f)) = LineNo(e) + LineNo(f)
        /\ Ch(Shift(e, f)) = Ch(f) + IF LineNo(f) = 0 THEN Ch(e) ELSE 0
    BY <1>3, ShiftIs
  <2>2. LineNo(g) = LineNo(Shift(e, f))
    BY <1>1, <1>2, <1>3, <1>4, <2>1
  <2>3. Ch(g) = Ch(Shift(e, f))
    <3>1. CASE m = 1
      <4>1. Size(t) = n /\ LineNo(f) = 0
        BY <1>1, <1>2, <1>3, <3>1
      <4> QED
        BY <1>2, <1>3, <1>4, <1>6, <2>1, <3>1, <4>1
    <3>2. CASE m > 1
      <4>1. m \in 2..m /\ Size(t) = n + m - 1 /\ LineNo(f) # 0
        BY <1>1, <1>2, <1>3, <3>2
      <4>2. t[Size(t)] = b[m] /\ Size(b[m]) \in Nat
        BY <1>1, <1>2, <4>1
      <4> QED
        BY <1>3, <1>4, <2>1, <4>1, <4>2
    <3> QED
      BY <1>2, <3>1, <3>2
  <2> QED
    BY <1>4, <2>1, <2>2, <2>3, SpotIs
<1> DEFINE c == GetBetween(t, e, g)
<1>9. NotAfter(e, g)
  BY <1>1, <1>5, EndOfBetween DEF g
<1>10. /\ c \in Texts /\ Size(c) = m
       /\ \A i \in 1..m : c[i] = Sub(t[n + i - 1], LowAt(e, i), HighAt(t, e, g, i))
  <2>1. LineNo(g) - LineNo(e) + 1 = m /\ \A i \in 1..m : LineNo(e) + i = n + i - 1
    BY <1>1, <1>2, <1>3, <1>4
  <2> QED
    BY <1>1, <1>4, <1>5, <1>9, <2>1, BetweenIs
<1> HIDE DEF c
<1>11. ASSUME NEW i \in 1..m
       PROVE  /\ LowAt(e, i) = IF i = 1 THEN Size(a[n]) + 1 ELSE 1
              /\ HighAt(t, e, g, i) = Size(t[n + i - 1])
  <2>1. LineNo(e) + i = n + i - 1 /\ LineNo(g) - LineNo(e) + 1 = m /\ (i = m => n + i - 1 = Size(t))
    BY <1>1, <1>2, <1>3, <1>4
  <2> QED
    BY <1>3, <1>4, <2>1 DEF LowAt, HighAt
<1>12. ASSUME NEW i \in 1..m PROVE c[i] = b[i]
  <2>1. CASE i = 1
    <3>1. n + i - 1 = n
      BY <1>2, <2>1
    <3>2. c[i] = Sub(Cat(a[n], b[1]), Size(a[n]) + 1, Size(a[n]) + Size(b[1]))
      BY <1>1, <1>6, <1>10, <1>11, <2>1, <3>1
    <3> QED
      BY <1>2, <1>6, <2>1, <3>2, PartsOfCat, Zenon
  <2>2. CASE i > 1
    <3>1. i \in 2..m
      BY <1>2, <2>2
    <3>2. c[i] = Sub(b[i], 1, Size(b[i])) /\ b[i] \in TextLines
      BY <1>1, <1>2, <1>10, <1>11, <2>2, <3>1
    <3> QED
      BY <3>2, WholeLine
  <2> QED
    BY <1>2, <2>1, <2>2
<1>13. c = b
  BY <1>3, <1>10, <1>12, SameText
<1> QED
  BY <1>7, <1>8, <1>13 DEF t, e, f, g, c

\* Three texts joined, and what is between their ends.
LEMMA Pieces ==
  ASSUME NEW a \in Texts, NEW m \in Texts, NEW b \in Texts, NEW t, t = Joined(Joined(a, m), b),
         NEW f, f = EndOf(a), NEW g, g = EndOf(Joined(a, m))
  PROVE  /\ t \in Texts /\ InText(t, f) /\ InText(t, g) /\ NotAfter(f, g) /\ g = Shift(f, EndOf(m))
         /\ GetBetween(t, Pos(0, 0), f) = a
         /\ GetBetween(t, f, g) = m
         /\ GetBetween(t, g, EndOf(t)) = b
         /\ \A p : InText(a, p) => InText(t, p)
         /\ \A q : InText(b, q) => InText(t, Shift(g, q))
<1> DEFINE o == Pos(0, 0)
           am == Joined(a, m)
           mb == Joined(m, b)
           e == EndOf(t)
<1>1. am \in Texts /\ mb \in Texts /\ t \in Texts
  BY JoinedIs
<1>2. t = Joined(am, b) /\ t = Joined(a, mb)
  BY JoinedAssoc
<1> HIDE DEF am, mb
<1>3. /\ \A p : InText(am, p) => InText(t, p)
      /\ GetBetween(t, o, g) = am
  <2>1. \A p : InText(am, p) => InText(Joined(am, b), p)
    BY <1>1, FirstOfJoined
  <2>2. GetBetween(Joined(am, b), Pos(0, 0), EndOf(am)) = am
    BY <1>1, FirstOfJoined
  <2> QED
    BY <1>2, <2>1, <2>2, Zenon DEF am
<1>4. /\ \A q : InText(b, q) => InText(t, Shift(g, q))
      /\ GetBetween(t, g, EndOf(t)) = b
  <2>1. \A q : InText(b, q) => InText(Joined(am, b), Shift(EndOf(am), q))
    BY <1>1, SecondOfJoined
  <2>2. GetBetween(Joined(am, b), EndOf(am), EndOf(Joined(am, b))) = b
    BY <1>1, SecondOfJoined
  <2> QED
    BY <1>2, <2>1, <2>2, Zenon DEF am
<1>5. /\ \A p : InText(a, p) => InText(t, p)
      /\ GetBetween(t, o, f) = a
  <2>1. \A p : InText(a, p) => InText(Joined(a, mb), p)
    BY <1>1, FirstOfJoined
  <2>2. GetBetween(Joined(a, mb), Pos(0, 0), EndOf(a)) = a
    BY <1>1, FirstOfJoined
  <2> QED
    BY <1>2, <2>1, <2>2, Zenon
<1>6. InText(a, f) /\ InText(am, g) /\ f \in Spots
  BY <1>1, EndIs, Zenon DEF am
<1>7. InText(t, f) /\ InText(t, g) /\ InText(t, o)
  BY <1>1, <1>3, <1>5, <1>6, EndIs
<1>8. g = Shift(f, EndOf(m)) /\ EndOf(m) \in Spots
  BY SecondOfJoined, EndIs, Zenon
<1>9. NotAfter(f, g)
  BY <1>6, <1>8, ShiftIs, Zenon
<1>10. NotAfter(o, f)
  BY <1>1, <1>7, EndOfBetween
<1> DEFINE x == GetBetween(t, f, g)
<1>11. x \in Texts
  BY <1>1, <1>7, <1>9, BetweenIs
<1>12. Joined(GetBetween(t, o, f), x) = GetBetween(t, o, g)
  BY <1>1, <1>7, <1>9, <1>10, BetweenJoins
<1> HIDE DEF x, o
<1>13. Joined(a, x) = Joined(a, m)
  BY <1>3, <1>5, <1>12, Zenon DEF am
<1>14. x = m
  <2>1. GetBetween(Joined(a, x), EndOf(a), EndOf(Joined(a, x))) = x
    BY <1>11, SecondOfJoined
  <2>2. GetBetween(Joined(a, m), EndOf(a), EndOf(Joined(a, m))) = m
    BY SecondOfJoined
  <2> QED
    BY <1>13, <2>1, <2>2, Zenon
<1> QED
  BY <1>1, <1>3, <1>4, <1>5, <1>7, <1>8, <1>9, <1>14, Zenon DEF x, o

-----------------------------------------------------------------------------
\* A change that a text may have.
Fits(t, c) ==
  /\ c = Change(c.from, c.to, c.text) /\ c.text \in Texts
  /\ InText(t, c.from) /\ InText(t, c.to) /\ NotAfter(c.from, c.to)

\* What a change leaves before it, replaces and leaves behind it.
Pre(t, c) == GetBetween(t, Pos(0, 0), c.from)
Cut(t, c) == GetBetween(t, c.from, c.to)
Post(t, c) == GetBetween(t, c.to, EndOf(t))

LEMMA FieldsOfChange ==
  \A f, g, x : /\ Change(f, g, x).from = f /\ Change(f, g, x).to = g /\ Change(f, g, x).text = x
               /\ Change(f, g, x) = Change(Change(f, g, x).from, Change(f, g, x).to, Change(f, g, x).text)
BY DEF Change

LEMMA EndOfChange ==
  ASSUME NEW c, c.from \in Spots, c.text \in Texts
  PROVE  ChangeEnd(c) = Shift(c.from, EndOf(c.text))
<1> DEFINE f == c.from
           x == c.text
<1>1. ChangeEnd(c) = Pos(LineNo(f) + Size(x) - 1, Size(x[Size(x)]) + IF Size(x) = 1 THEN Ch(f) ELSE 0)
  BY Zenon DEF ChangeEnd, Last, Size
<1>2. LineNo(f) \in Nat /\ Ch(f) \in Nat
  BY SpotIs
<1>3. Size(x) \in Nat /\ Size(x) >= 1 /\ Size(x[Size(x)]) \in Nat
  BY TextsAre
<1>4. LineNo(EndOf(x)) = Size(x) - 1 /\ Ch(EndOf(x)) = Size(x[Size(x)])
  BY EndIs
<1> HIDE DEF f, x
<1>5. LineNo(f) + Size(x) - 1 = LineNo(f) + LineNo(EndOf(x)) /\ (Size(x) = 1 <=> LineNo(EndOf(x)) = 0)
  BY <1>2, <1>3, <1>4
<1>6. ChangeEnd(c) = Shift(f, EndOf(x))
  BY <1>1, <1>4, <1>5 DEF Shift
<1> QED
  BY <1>6 DEF f, x

LEMMA ChangeIs ==
  ASSUME NEW t \in Texts, NEW c, Fits(t, c)
  PROVE  /\ Pre(t, c) \in Texts /\ Cut(t, c) \in Texts /\ Post(t, c) \in Texts /\ c.text \in Texts
         /\ t = Joined(Joined(Pre(t, c), Cut(t, c)), Post(t, c))
         /\ Joined(Pre(t, c), Cut(t, c)) = GetBetween(t, Pos(0, 0), c.to)
         /\ Changed(t, c) = Joined(Joined(Pre(t, c), c.text), Post(t, c))
         /\ Changed(t, c) \in Texts
         /\ EndOf(Pre(t, c)) = c.from /\ EndOf(Joined(Pre(t, c), Cut(t, c))) = c.to
         /\ ChangeEnd(c) = EndOf(Joined(Pre(t, c), c.text))
<1> DEFINE o == Pos(0, 0)
           f == c.from
           g == c.to
           e == EndOf(t)
<1>1. InText(t, o) /\ InText(t, f) /\ InText(t, g) /\ InText(t, e) /\ f \in Spots /\ c.text \in Texts
  BY EndIs DEF Fits, InText
<1>2. NotAfter(o, f) /\ NotAfter(f, g) /\ NotAfter(g, e)
  BY <1>1, EndOfBetween DEF Fits
<1> HIDE DEF o, f, g, e
<1>3. /\ GetBetween(t, o, f) \in Texts /\ GetBetween(t, f, g) \in Texts /\ GetBetween(t, g, e) \in Texts
  BY <1>1, <1>2, BetweenIs
<1>4. Joined(GetBetween(t, o, f), GetBetween(t, f, g)) = GetBetween(t, o, g) /\ NotAfter(o, g)
  BY <1>1, <1>2, BetweenJoins
<1>5. Joined(GetBetween(t, o, g), GetBetween(t, g, e)) = GetBetween(t, o, e)
  BY <1>1, <1>2, <1>4, BetweenJoins
<1>6. GetBetween(t, o, e) = t
  BY BetweenEnds DEF o, e
<1>7. EndOf(GetBetween(t, o, f)) = f /\ EndOf(GetBetween(t, o, g)) = g
  BY <1>1, EndOfBetween DEF o
<1>8. Pre(t, c) = GetBetween(t, o, f) /\ Cut(t, c) = GetBetween(t, f, g) /\ Post(t, c) = GetBetween(t, g, e)
  BY Zenon DEF Pre, Cut, Post, o, f, g, e
<1>9. Changed(t, c) = Joined(Joined(Pre(t, c), c.text), Post(t, c))
  BY Zenon DEF Changed, Pre, Post
<1>10. Changed(t, c) \in Texts
  BY <1>1, <1>3, <1>8, <1>9, JoinedIs
<1>11. ChangeEnd(c) = Shift(f, EndOf(c.text))
  BY <1>1, EndOfChange DEF f
<1>12. EndOf(Joined(Pre(t, c), c.text)) = Shift(EndOf(Pre(t, c)), EndOf(c.text))
  BY <1>1, <1>3, <1>8, SecondOfJoined
<1> QED
  BY <1>1, <1>3, <1>4, <1>5, <1>6, <1>7, <1>8, <1>9, <1>10, <1>11, <1>12, Zenon DEF o, f, g

\* The change that historyChangeFromChange makes undoes the change.
THEOREM AntiChangeUndoes ==
  ASSUME NEW t \in Texts, NEW c, Fits(t, c)
  PROVE  /\ Changed(t, c) \in Texts
         /\ Fits(Changed(t, c), AntiChange(t, c))
         /\ Changed(Changed(t, c), AntiChange(t, c)) = t
<1> DEFINE n == Changed(t, c)
           h == AntiChange(t, c)
           g == ChangeEnd(c)
           f == c.from
           a == Pre(t, c)
           m == Cut(t, c)
           b == Post(t, c)
           x == c.text
<1>1. /\ a \in Texts /\ m \in Texts /\ b \in Texts /\ x \in Texts
      /\ t = Joined(Joined(a, m), b) /\ n = Joined(Joined(a, x), b)
      /\ f = EndOf(a) /\ g = EndOf(Joined(a, x))
  BY ChangeIs
<1>2. h = Change(f, g, m)
  BY Zenon DEF AntiChange, Cut
<1> HIDE DEF n, h, g, f, a, m, b, x
<1>3. /\ n \in Texts /\ InText(n, f) /\ InText(n, g) /\ NotAfter(f, g)
      /\ GetBetween(n, Pos(0, 0), f) = a /\ GetBetween(n, g, EndOf(n)) = b
  <2>1. /\ Joined(Joined(a, x), b) \in Texts
        /\ InText(Joined(Joined(a, x), b), EndOf(a)) /\ InText(Joined(Joined(a, x), b), EndOf(Joined(a, x)))
        /\ NotAfter(EndOf(a), EndOf(Joined(a, x)))
        /\ GetBetween(Joined(Joined(a, x), b), Pos(0, 0), EndOf(a)) = a
        /\ GetBetween(Joined(Joined(a, x), b), EndOf(Joined(a, x)), EndOf(Joined(Joined(a, x), b))) = b
    BY <1>1, Pieces
  <2> QED
    BY <1>1, <2>1, Zenon
<1>4. h.from = f /\ h.to = g /\ h.text = m /\ h = Change(h.from, h.to, h.text)
  <2>1. /\ Change(f, g, m).from = f /\ Change(f, g, m).to = g /\ Change(f, g, m).text = m
    BY DEF Change
  <2> QED
    BY <1>2, <2>1, Zenon
<1>5. Fits(n, h)
  BY <1>1, <1>3, <1>4, Zenon DEF Fits
<1>6. Changed(n, h) = Joined(Joined(a, m), b)
  BY <1>3, <1>4, Zenon DEF Changed
<1> QED
  BY <1>1, <1>3, <1>5, <1>6, Zenon DEF n, h

\* Typing on at the end of a change that is to be undone: it undoes both when its end moves.
LEMMA TypingOnIsUndone ==
  ASSUME NEW t \in Texts, NEW h, Fits(t, h), NEW c, Fits(t, c), c.from = h.to, c.to = h.to
  PROVE  /\ Fits(Changed(t, c), Change(h.from, ChangeEnd(c), h.text))
         /\ Changed(Changed(t, c), Change(h.from, ChangeEnd(c), h.text)) = Changed(t, h)
<1> DEFINE n == Changed(t, c)
           a == Pre(t, h)
           m == Cut(t, h)
           b == Post(t, h)
           x == c.text
           f == h.from
           g == ChangeEnd(c)
           k == Change(f, g, h.text)
           mx == Joined(m, x)
<1>1. /\ a \in Texts /\ m \in Texts /\ b \in Texts /\ h.text \in Texts
      /\ Joined(a, m) = GetBetween(t, Pos(0, 0), h.to) /\ f = EndOf(a)
      /\ Changed(t, h) = Joined(Joined(a, h.text), b)
  BY ChangeIs
<1>2. /\ x \in Texts /\ n \in Texts /\ n = Joined(Joined(Pre(t, c), x), Post(t, c))
      /\ g = EndOf(Joined(Pre(t, c), x))
  BY ChangeIs
<1>3. Pre(t, c) = Joined(a, m) /\ Post(t, c) = b
  BY <1>1, Zenon DEF Pre, Post
<1> HIDE DEF n, a, m, b, x, f, g, k
<1>4. mx \in Texts /\ Joined(Joined(a, m), x) = Joined(a, mx)
  BY <1>1, <1>2, JoinedIs, JoinedAssoc
<1> HIDE DEF mx
<1>5. n = Joined(Joined(a, mx), b) /\ g = EndOf(Joined(a, mx))
  BY <1>2, <1>3, <1>4, Zenon
<1>6. /\ InText(n, f) /\ InText(n, g) /\ NotAfter(f, g)
      /\ GetBetween(n, Pos(0, 0), f) = a /\ GetBetween(n, g, EndOf(n)) = b
  <2>1. /\ Joined(Joined(a, mx), b) \in Texts
        /\ InText(Joined(Joined(a, mx), b), EndOf(a)) /\ InText(Joined(Joined(a, mx), b), EndOf(Joined(a, mx)))
        /\ NotAfter(EndOf(a), EndOf(Joined(a, mx)))
        /\ GetBetween(Joined(Joined(a, mx), b), Pos(0, 0), EndOf(a)) = a
        /\ GetBetween(Joined(Joined(a, mx), b), EndOf(Joined(a, mx)), EndOf(Joined(Joined(a, mx), b))) = b
    BY <1>1, <1>4, Pieces
  <2> QED
    BY <1>1, <1>5, <2>1, Zenon
<1>7. k.from = f /\ k.to = g /\ k.text = h.text /\ k = Change(k.from, k.to, k.text)
  <2> DEFINE y == h.text
  <2>1. Change(f, g, y).from = f /\ Change(f, g, y).to = g /\ Change(f, g, y).text = y
    BY DEF Change
  <2>2. k = Change(f, g, y)
    BY Zenon DEF k
  <2> QED
    BY <2>1, <2>2, Zenon DEF y
<1>8. Fits(n, k)
  BY <1>1, <1>6, <1>7, Zenon DEF Fits
<1>9. Changed(n, k) = Joined(Joined(a, h.text), b)
  BY <1>6, <1>7, Zenon DEF Changed
<1> QED
  BY <1>1, <1>8, <1>9, Zenon DEF n, k, f, g

\* Every set of numbers that is not empty has a least one.
LEMMA LeastNumber ==
  ASSUME NEW T \in SUBSET Nat, T # {}
  PROVE  \E n \in T : \A m \in T : n <= m
<1>1. PICK x \in T : \A y \in T : ~ (<<y, x>> \in OpToRel(<, Nat))
  BY NatLessThanWellFounded, WFMin, Zenon
<1>2. \A y \in T : <<y, x>> \in Nat \X Nat /\ <<y, x>>[1] = y /\ <<y, x>>[2] = x
  OBVIOUS
<1>3. \A y \in T : ~ (y < x)
  BY <1>1, <1>2, Zenon DEF OpToRel
<1> QED
  BY <1>3

\* Induction from n + 1 down to 1, for a set of numbers.
LEMMA DownInduction ==
  ASSUME NEW n \in Nat, NEW U, n + 1 \in U, \A i \in 1..n : i + 1 \in U => i \in U
  PROVE  \A i \in 1..n + 1 : i \in U
<1> DEFINE T == {k \in 0..n : n + 1 - k \notin U}
<1>1. SUFFICES ASSUME T # {} PROVE FALSE
  <2> SUFFICES ASSUME NEW i \in 1..n + 1, i \notin U PROVE T # {}
    OBVIOUS
  <2>1. n + 1 - i \in 0..n /\ n + 1 - (n + 1 - i) = i
    OBVIOUS
  <2>2. n + 1 - i \in T
    BY <2>1
  <2> QED
    BY <2>2
<1>2. PICK k \in T : \A m \in T : k <= m
  <2>1. T \in SUBSET Nat
    OBVIOUS
  <2> HIDE DEF T
  <2> QED
    BY <1>1, <2>1, LeastNumber
<1>3. k # 0
  OBVIOUS
<1>4. k - 1 \in 0..n /\ k - 1 \notin T
  BY <1>2, <1>3
<1>5. n + 1 - (k - 1) \in U /\ n + 1 - k \in 1..n /\ n + 1 - (k - 1) = (n + 1 - k) + 1
  BY <1>4, <1>3
<1> QED
  BY <1>5

\* And from 0 up to n.
LEMMA UpInduction ==
  ASSUME NEW n \in Nat, NEW U, 0 \in U, \A i \in 1..n : i - 1 \in U => i \in U
  PROVE  \A i \in 0..n : i \in U
<1> DEFINE T == {k \in 0..n : k \notin U}
<1>1. SUFFICES ASSUME T # {} PROVE FALSE
  OBVIOUS
<1>2. PICK k \in T : \A m \in T : k <= m
  <2>1. T \in SUBSET Nat
    OBVIOUS
  <2> HIDE DEF T
  <2> QED
    BY <1>1, <2>1, LeastNumber
<1>3. k # 0
  OBVIOUS
<1>4. k - 1 \in 0..n /\ k - 1 \notin T /\ k \in 1..n
  BY <1>2, <1>3
<1> QED
  BY <1>4

\* The least and the greatest of some of the numbers up to n.
LEMMA LeastAndGreatest ==
  ASSUME NEW n \in Nat, NEW S \in SUBSET (0..n), S # {}
  PROVE  /\ Min(S) \in S /\ \A x \in S : Min(S) <= x
         /\ Max(S) \in S /\ \A x \in S : Max(S) >= x
<1>1. \E x \in S : \A y \in S : x <= y
  BY LeastNumber
<1>2. \E x \in S : \A y \in S : x >= y
  <2> DEFINE T == {k \in 0..n : n - k \in S}
  <2>1. PICK k \in T : \A m \in T : k <= m
    <3>1. PICK x \in S : TRUE
      OBVIOUS
    <3>2. n - x \in 0..n /\ n - (n - x) = x
      OBVIOUS
    <3>3. n - x \in T /\ T \in SUBSET Nat
      BY <3>2
    <3> HIDE DEF T
    <3> QED
      BY <3>3, LeastNumber
  <2>2. ASSUME NEW y \in S
        PROVE  n - k >= y
    <3>1. n - y \in 0..n /\ n - (n - y) = y
      OBVIOUS
    <3>2. k <= n - y
      BY <2>1, <3>1
    <3> QED
      BY <3>2
  <2> QED
    BY <2>2
<1> QED
  BY <1>1, <1>2 DEF Min, Max

-----------------------------------------------------------------------------
\* The operators that are folded over a sequence, and their folds.
Applied(kind, par, x, acc) ==
  IF kind = "push" THEN PushSelection(x, acc)
  ELSE IF kind = "change" THEN Changed(acc, x)
  ELSE IF kind = "undone" THEN Undone(x, acc)
  ELSE IF kind = "undo" THEN Undo(x, acc)
  ELSE IF kind = "make" THEN MakeChange(acc, x, par)
  ELSE IF kind = "kill" THEN Kill(acc, x)
  ELSE AddRange(acc, par[1][x], x = par[2])

Foremost(right, s) == IF right = "right" THEN Min(s) ELSE Max(s)

FoldStep(f, kind, par, right, seq, base, s) ==
  IF s = {} THEN base
  ELSE Applied(kind, par, seq[Foremost(right, s)], f[s \ {Foremost(right, s)}])

IsFold(f, kind, par, right, seq, base) ==
  f = [s \in SUBSET DOMAIN seq |-> FoldStep(f, kind, par, right, seq, base, s)]

LEMMA ForemostIs ==
  ASSUME NEW n \in Nat, NEW s \in SUBSET (1..n), s # {}, NEW right
  PROVE  /\ Foremost(right, s) \in s
         /\ \A x \in s : IF right = "right" THEN Foremost(right, s) <= x ELSE Foremost(right, s) >= x
<1>1. s \in SUBSET (0..n)
  OBVIOUS
<1> QED
  BY <1>1, LeastAndGreatest DEF Foremost

LEMMA FoldExists ==
  ASSUME NEW seq, NEW n \in Nat, DOMAIN seq = 1..n, NEW kind, NEW par, NEW right, NEW base
  PROVE  \E f : IsFold(f, kind, par, right, seq, base)
<1> DEFINE A == 1..n
           Step(f, s) == FoldStep(f, kind, par, right, seq, base, s)
           U == {k \in 0..n : \E f : \A s \in SUBSET A : Cardinality(s) <= k => f[s] = Step(f, s)}
<1>1. IsFiniteSet(A) /\ Cardinality(A) = n
  BY FS_Interval
<1> HIDE DEF A
<1>2. \A s \in SUBSET A : IsFiniteSet(s) /\ Cardinality(s) \in Nat /\ Cardinality(s) <= n
  BY <1>1, FS_Subset, FS_CardinalityType
<1>3. 0 \in U
  <2> DEFINE f == [s \in SUBSET A |-> base]
  <2>1. ASSUME NEW s \in SUBSET A, Cardinality(s) <= 0
        PROVE  f[s] = Step(f, s)
    <3>1. s = {}
      BY <1>2, <2>1, FS_EmptySet
    <3> QED
      BY <3>1 DEF FoldStep
  <2> HIDE DEF f
  <2>2. \E g : \A s \in SUBSET A : Cardinality(s) <= 0 => g[s] = Step(g, s)
    BY <2>1, Zenon
  <2> QED
    BY <2>2
<1>4. ASSUME NEW k \in 1..n, k - 1 \in U
      PROVE  k \in U
  <2>1. PICK f : \A s \in SUBSET A : Cardinality(s) <= k - 1 => f[s] = Step(f, s)
    BY <1>4, Zenon
  <2> DEFINE h == [s \in SUBSET A |-> Step(f, s)]
  <2>2. ASSUME NEW s \in SUBSET A, Cardinality(s) <= k
        PROVE  h[s] = Step(h, s)
    <3>1. CASE s = {}
      BY <3>1, Zenon DEF FoldStep
    <3>2. CASE s # {}
      <4> DEFINE r == s \ {Foremost(right, s)}
      <4>1. Foremost(right, s) \in s
        BY <3>2, ForemostIs DEF A
      <4>2. r \in SUBSET A /\ Cardinality(r) = Cardinality(s) - 1
        BY <1>2, <4>1, FS_RemoveElement
      <4>3. Cardinality(r) <= k - 1
        BY <1>2, <2>2, <4>2
      <4>4. h[r] = f[r]
        BY <2>1, <4>2, <4>3, Zenon
      <4>5. h[s] = Step(f, s)
        BY Zenon
      <4> HIDE DEF h
      <4> QED
        BY <3>2, <4>4, <4>5, Zenon DEF FoldStep
    <3> QED
      BY <3>1, <3>2
  <2> HIDE DEF h, Step
  <2>3. \E g : \A s \in SUBSET A : Cardinality(s) <= k => g[s] = Step(g, s)
    BY <2>2, Zenon
  <2> QED
    BY <2>3
<1>5. n \in U
  <2> HIDE DEF U
  <2>1. \A i \in 0..n : i \in U
    BY <1>3, <1>4, UpInduction
  <2> QED
    BY <2>1
<1>6. PICK f : \A s \in SUBSET A : Cardinality(s) <= n => f[s] = Step(f, s)
  BY <1>5, Zenon
<1> DEFINE h == [s \in SUBSET A |-> Step(f, s)]
<1>7. ASSUME NEW s \in SUBSET A
      PROVE  h[s] = f[s]
  BY <1>2, <1>6, <1>7, Zenon
<1>8. ASSUME NEW s \in SUBSET A
      PROVE  Step(f, s) = Step(h, s)
  <2>1. CASE s = {}
    BY <2>1, Zenon DEF FoldStep
  <2>2. CASE s # {}
    <3> DEFINE r == s \ {Foremost(right, s)}
    <3>1. r \in SUBSET A
      OBVIOUS
    <3>2. h[r] = f[r]
      BY <1>7, <3>1
    <3> HIDE DEF h
    <3> QED
      BY <2>2, <3>2, Zenon DEF FoldStep
  <2> QED
    BY <2>1, <2>2
<1>9. h = [s \in SUBSET A |-> Step(h, s)]
  <2>1. \A s \in SUBSET A : Step(f, s) = Step(h, s)
    BY <1>8
  <2> DEFINE F(s) == Step(f, s)
             G(s) == Step(h, s)
  <2>2. \A s \in SUBSET A : F(s) = G(s)
    BY <2>1
  <2>3. h = [s \in SUBSET A |-> F(s)]
    BY Zenon
  <2> HIDE DEF F, G, h
  <2>4. [s \in SUBSET A |-> F(s)] = [s \in SUBSET A |-> G(s)]
    BY <2>2
  <2> QED
    BY <2>3, <2>4, Zenon DEF G
<1>10. IsFold(h, kind, par, right, seq, base)
  <2> HIDE DEF h
  <2> QED
    BY <1>9, Zenon DEF IsFold, A, Step
<1> QED
  BY <1>10, Zenon

\* The values a fold goes through, from the right and from the left.
Rights(f, n) == [i \in 1..n + 1 |-> f[i..n]]
Lefts(f, n) == [i \in 0..n |-> f[1..i]]

LEMMA RightTrace ==
  ASSUME NEW seq, NEW n \in Nat, DOMAIN seq = 1..n, NEW kind, NEW par, NEW base, NEW f,
         IsFold(f, kind, par, "right", seq, base)
  PROVE  /\ Rights(f, n)[n + 1] = base /\ Rights(f, n)[1] = f[DOMAIN seq]
         /\ \A i \in 1..n : Rights(f, n)[i] = Applied(kind, par, seq[i], Rights(f, n)[i + 1])
<1> DEFINE tr == [i \in 1..n + 1 |-> f[i..n]]
<1>1. \A s \in SUBSET (1..n) : f[s] = FoldStep(f, kind, par, "right", seq, base, s)
  <2> DEFINE G(s) == FoldStep(f, kind, par, "right", seq, base, s)
  <2>1. f = [s \in SUBSET (1..n) |-> G(s)]
    BY Zenon DEF IsFold
  <2> HIDE DEF G
  <2>2. \A s \in SUBSET (1..n) : f[s] = G(s)
    BY <2>1
  <2> QED
    BY <2>2, Zenon DEF G
<1>2. tr[n + 1] = base
  <2>1. (n + 1)..n = {} /\ n + 1 \in 1..n + 1
    OBVIOUS
  <2>2. f[{}] = base
    BY <1>1, Zenon DEF FoldStep
  <2> QED
    BY <2>1, <2>2, Zenon
<1>3. tr[1] = f[DOMAIN seq]
  <2>1. 1 \in 1..n + 1
    OBVIOUS
  <2> QED
    BY <2>1, Zenon
<1>4. ASSUME NEW i \in 1..n
      PROVE  tr[i] = Applied(kind, par, seq[i], tr[i + 1])
  <2> DEFINE s == i..n
  <2>1. s \in SUBSET (1..n) /\ s # {} /\ i \in s /\ \A x \in s : i <= x
    OBVIOUS
  <2>2. s \ {i} = (i + 1)..n /\ i \in 1..n + 1 /\ i + 1 \in 1..n + 1
    OBVIOUS
  <2>3. tr[i] = f[s] /\ tr[i + 1] = f[s \ {i}]
    BY <2>2, Zenon
  <2> HIDE DEF s, tr
  <2>4. Foremost("right", s) = i
    <3>1. Foremost("right", s) \in s /\ \A x \in s : Foremost("right", s) <= x
      BY <2>1, ForemostIs
    <3> DEFINE m == Foremost("right", s)
    <3>2. m \in s /\ \A x \in s : m <= x
      BY <3>1, Zenon
    <3> HIDE DEF m
    <3>3. m \in Int /\ i \in Int /\ i <= m /\ m <= i
      BY <2>1, <3>2
    <3>4. m = i
      BY <3>3
    <3> QED
      BY <3>4, Zenon DEF m
  <2> QED
    BY <1>1, <2>1, <2>3, <2>4, Zenon DEF FoldStep
<1>5. Rights(f, n) = tr
  BY Zenon DEF Rights
<1> HIDE DEF tr
<1> QED
  BY <1>2, <1>3, <1>4, <1>5, Zenon

LEMMA LeftTrace ==
  ASSUME NEW seq, NEW n \in Nat, DOMAIN seq = 1..n, NEW kind, NEW par, NEW base, NEW f,
         IsFold(f, kind, par, "left", seq, base)
  PROVE  /\ Lefts(f, n)[0] = base /\ Lefts(f, n)[n] = f[DOMAIN seq]
         /\ \A i \in 1..n : Lefts(f, n)[i] = Applied(kind, par, seq[i], Lefts(f, n)[i - 1])
<1> DEFINE tr == [i \in 0..n |-> f[1..i]]
<1>1. \A s \in SUBSET (1..n) : f[s] = FoldStep(f, kind, par, "left", seq, base, s)
  <2> DEFINE G(s) == FoldStep(f, kind, par, "left", seq, base, s)
  <2>1. f = [s \in SUBSET (1..n) |-> G(s)]
    BY Zenon DEF IsFold
  <2> HIDE DEF G
  <2>2. \A s \in SUBSET (1..n) : f[s] = G(s)
    BY <2>1
  <2> QED
    BY <2>2, Zenon DEF G
<1>2. tr[0] = base
  <2>1. 1..0 = {} /\ 0 \in 0..n
    OBVIOUS
  <2>2. f[{}] = base
    BY <1>1, Zenon DEF FoldStep
  <2> QED
    BY <2>1, <2>2, Zenon
<1>3. tr[n] = f[DOMAIN seq]
  <2>1. n \in 0..n
    OBVIOUS
  <2> QED
    BY <2>1, Zenon
<1>4. ASSUME NEW i \in 1..n
      PROVE  tr[i] = Applied(kind, par, seq[i], tr[i - 1])
  <2> DEFINE s == 1..i
  <2>1. s \in SUBSET (1..n) /\ s # {} /\ i \in s /\ \A x \in s : i >= x
    OBVIOUS
  <2>2. s \ {i} = 1..(i - 1) /\ i \in 0..n /\ i - 1 \in 0..n
    <3>1. \A x : x \in s \ {i} <=> x \in 1..(i - 1)
      OBVIOUS
    <3> QED
      BY <3>1
  <2>3. tr[i] = f[s] /\ tr[i - 1] = f[s \ {i}]
    BY <2>2, Zenon
  <2> HIDE DEF s, tr
  <2>4. Foremost("left", s) = i
    <3>1. Foremost("left", s) \in s /\ \A x \in s : Foremost("left", s) >= x
      BY <2>1, ForemostIs
    <3> DEFINE m == Foremost("left", s)
    <3>2. m \in s /\ \A x \in s : m >= x
      BY <3>1, Zenon
    <3> HIDE DEF m
    <3>3. m \in Int /\ i \in Int /\ i >= m /\ m >= i
      BY <2>1, <3>2
    <3>4. m = i
      BY <3>3
    <3> QED
      BY <3>4, Zenon DEF m
  <2> QED
    BY <1>1, <2>1, <2>3, <2>4, Zenon DEF FoldStep
<1>5. Lefts(f, n) = tr
  BY Zenon DEF Lefts
<1> HIDE DEF tr
<1> QED
  BY <1>2, <1>3, <1>4, <1>5, Zenon

\* The folds of the model, and the values they go through.
AllPushed(sels, events) == FoldRight(PushSelection, sels, events)
AllChanged(changes, text) == FoldRight(LAMBDA c, t : Changed(t, c), changes, text)
AllUndone(events, text) == FoldRight(Undone, events, text)
AllUndo(changes, acc) == FoldRight(Undo, changes, acc)
AllMade(changes, d, origin) == FoldRight(LAMBDA c, e : MakeChange(e, c, origin), changes, d)
AllKilled(changes, acc) == FoldLeft(Kill, acc, changes)
AllAdded(seq, sel, ranges, primary) ==
  FoldLeft(LAMBDA acc, i : AddRange(acc, ranges[i], i = primary), sel, seq)

PushTrace(seq, n, base) ==
  \E tr : /\ tr[n + 1] = base /\ tr[1] = AllPushed(seq, base)
          /\ \A i \in 1..n : tr[i] = PushSelection(seq[i], tr[i + 1])

LEMMA PushFold ==
  ASSUME NEW seq, NEW n \in Nat, DOMAIN seq = 1..n, NEW base
  PROVE  PushTrace(seq, n, base)
<1> DEFINE E(f, s) == IF s = {} THEN base ELSE PushSelection(seq[Min(s)], f[s \ {Min(s)}])
           F(f, s) == FoldStep(f, "push", 0, "right", seq, base, s)
           e == CHOOSE f : f = [s \in SUBSET DOMAIN seq |-> E(f, s)]
<1>1. \A f, s : F(f, s) = E(f, s)
  BY Zenon DEF FoldStep, Applied, Foremost
<1>2. AllPushed(seq, base) = e[DOMAIN seq]
  BY DEF AllPushed, FoldRight, FoldLeft, MapThenFoldSet
<1>3. PICK h : h = [s \in SUBSET DOMAIN seq |-> F(h, s)]
  <2>1. PICK h : IsFold(h, "push", 0, "right", seq, base)
    BY FoldExists
  <2> QED
    BY <2>1, Zenon DEF IsFold
<1>4. \A x, acc : Applied("push", 0, x, acc) = PushSelection(x, acc)
  BY Zenon DEF Applied
<1> HIDE DEF E, F
<1>5. h = [s \in SUBSET DOMAIN seq |-> E(h, s)]
  BY <1>1, <1>3
<1>6. e = [s \in SUBSET DOMAIN seq |-> E(e, s)]
  BY <1>5, Zenon
<1> HIDE DEF e
<1>7. e = [s \in SUBSET DOMAIN seq |-> F(e, s)]
  BY <1>1, <1>6
<1>8. IsFold(e, "push", 0, "right", seq, base)
  BY <1>7, Zenon DEF IsFold, F
<1> DEFINE tr == Rights(e, n)
<1>9. /\ tr[n + 1] = base /\ tr[1] = e[DOMAIN seq]
      /\ \A i \in 1..n : tr[i] = Applied("push", 0, seq[i], tr[i + 1])
  BY <1>8, RightTrace
<1> HIDE DEF tr
<1>10. \A i \in 1..n : tr[i] = PushSelection(seq[i], tr[i + 1])
  BY <1>4, <1>9, Zenon
<1> QED
  BY <1>2, <1>9, <1>10, Zenon DEF PushTrace

ChangeTrace(seq, n, base) ==
  \E tr : /\ tr[n + 1] = base /\ tr[1] = AllChanged(seq, base)
          /\ \A i \in 1..n : tr[i] = Changed(tr[i + 1], seq[i])

LEMMA ChangeFold ==
  ASSUME NEW seq, NEW n \in Nat, DOMAIN seq = 1..n, NEW base
  PROVE  ChangeTrace(seq, n, base)
<1> DEFINE E(f, s) == IF s = {} THEN base ELSE Changed(f[s \ {Min(s)}], seq[Min(s)])
           F(f, s) == FoldStep(f, "change", 0, "right", seq, base, s)
           e == CHOOSE f : f = [s \in SUBSET DOMAIN seq |-> E(f, s)]
<1>1. \A f, s : F(f, s) = E(f, s)
  BY Zenon DEF FoldStep, Applied, Foremost
<1>2. AllChanged(seq, base) = e[DOMAIN seq]
  BY DEF AllChanged, FoldRight, FoldLeft, MapThenFoldSet
<1>3. PICK h : h = [s \in SUBSET DOMAIN seq |-> F(h, s)]
  <2>1. PICK h : IsFold(h, "change", 0, "right", seq, base)
    BY FoldExists
  <2> QED
    BY <2>1, Zenon DEF IsFold
<1>4. \A x, acc : Applied("change", 0, x, acc) = Changed(acc, x)
  BY Zenon DEF Applied
<1> HIDE DEF E, F
<1>5. h = [s \in SUBSET DOMAIN seq |-> E(h, s)]
  BY <1>1, <1>3
<1>6. e = [s \in SUBSET DOMAIN seq |-> E(e, s)]
  BY <1>5, Zenon
<1> HIDE DEF e
<1>7. e = [s \in SUBSET DOMAIN seq |-> F(e, s)]
  BY <1>1, <1>6
<1>8. IsFold(e, "change", 0, "right", seq, base)
  BY <1>7, Zenon DEF IsFold, F
<1> DEFINE tr == Rights(e, n)
<1>9. /\ tr[n + 1] = base /\ tr[1] = e[DOMAIN seq]
      /\ \A i \in 1..n : tr[i] = Applied("change", 0, seq[i], tr[i + 1])
  BY <1>8, RightTrace
<1> HIDE DEF tr
<1>10. \A i \in 1..n : tr[i] = Changed(tr[i + 1], seq[i])
  BY <1>4, <1>9, Zenon
<1> QED
  BY <1>2, <1>9, <1>10, Zenon DEF ChangeTrace

UndoneTrace(seq, n, base) ==
  \E tr : /\ tr[n + 1] = base /\ tr[1] = AllUndone(seq, base)
          /\ \A i \in 1..n : tr[i] = Undone(seq[i], tr[i + 1])

LEMMA UndoneFold ==
  ASSUME NEW seq, NEW n \in Nat, DOMAIN seq = 1..n, NEW base
  PROVE  UndoneTrace(seq, n, base)
<1> DEFINE E(f, s) == IF s = {} THEN base ELSE Undone(seq[Min(s)], f[s \ {Min(s)}])
           F(f, s) == FoldStep(f, "undone", 0, "right", seq, base, s)
           e == CHOOSE f : f = [s \in SUBSET DOMAIN seq |-> E(f, s)]
<1>1. \A f, s : F(f, s) = E(f, s)
  BY Zenon DEF FoldStep, Applied, Foremost
<1>2. AllUndone(seq, base) = e[DOMAIN seq]
  BY DEF AllUndone, FoldRight, FoldLeft, MapThenFoldSet
<1>3. PICK h : h = [s \in SUBSET DOMAIN seq |-> F(h, s)]
  <2>1. PICK h : IsFold(h, "undone", 0, "right", seq, base)
    BY FoldExists
  <2> QED
    BY <2>1, Zenon DEF IsFold
<1>4. \A x, acc : Applied("undone", 0, x, acc) = Undone(x, acc)
  BY Zenon DEF Applied
<1> HIDE DEF E, F
<1>5. h = [s \in SUBSET DOMAIN seq |-> E(h, s)]
  BY <1>1, <1>3
<1>6. e = [s \in SUBSET DOMAIN seq |-> E(e, s)]
  BY <1>5, Zenon
<1> HIDE DEF e
<1>7. e = [s \in SUBSET DOMAIN seq |-> F(e, s)]
  BY <1>1, <1>6
<1>8. IsFold(e, "undone", 0, "right", seq, base)
  BY <1>7, Zenon DEF IsFold, F
<1> DEFINE tr == Rights(e, n)
<1>9. /\ tr[n + 1] = base /\ tr[1] = e[DOMAIN seq]
      /\ \A i \in 1..n : tr[i] = Applied("undone", 0, seq[i], tr[i + 1])
  BY <1>8, RightTrace
<1> HIDE DEF tr
<1>10. \A i \in 1..n : tr[i] = Undone(seq[i], tr[i + 1])
  BY <1>4, <1>9, Zenon
<1> QED
  BY <1>2, <1>9, <1>10, Zenon DEF UndoneTrace

UndoTrace(seq, n, base) ==
  \E tr : /\ tr[n + 1] = base /\ tr[1] = AllUndo(seq, base)
          /\ \A i \in 1..n : tr[i] = Undo(seq[i], tr[i + 1])

LEMMA UndoFold ==
  ASSUME NEW seq, NEW n \in Nat, DOMAIN seq = 1..n, NEW base
  PROVE  UndoTrace(seq, n, base)
<1> DEFINE E(f, s) == IF s = {} THEN base ELSE Undo(seq[Min(s)], f[s \ {Min(s)}])
           F(f, s) == FoldStep(f, "undo", 0, "right", seq, base, s)
           e == CHOOSE f : f = [s \in SUBSET DOMAIN seq |-> E(f, s)]
<1>1. \A f, s : F(f, s) = E(f, s)
  BY Zenon DEF FoldStep, Applied, Foremost
<1>2. AllUndo(seq, base) = e[DOMAIN seq]
  BY DEF AllUndo, FoldRight, FoldLeft, MapThenFoldSet
<1>3. PICK h : h = [s \in SUBSET DOMAIN seq |-> F(h, s)]
  <2>1. PICK h : IsFold(h, "undo", 0, "right", seq, base)
    BY FoldExists
  <2> QED
    BY <2>1, Zenon DEF IsFold
<1>4. \A x, acc : Applied("undo", 0, x, acc) = Undo(x, acc)
  BY Zenon DEF Applied
<1> HIDE DEF E, F
<1>5. h = [s \in SUBSET DOMAIN seq |-> E(h, s)]
  BY <1>1, <1>3
<1>6. e = [s \in SUBSET DOMAIN seq |-> E(e, s)]
  BY <1>5, Zenon
<1> HIDE DEF e
<1>7. e = [s \in SUBSET DOMAIN seq |-> F(e, s)]
  BY <1>1, <1>6
<1>8. IsFold(e, "undo", 0, "right", seq, base)
  BY <1>7, Zenon DEF IsFold, F
<1> DEFINE tr == Rights(e, n)
<1>9. /\ tr[n + 1] = base /\ tr[1] = e[DOMAIN seq]
      /\ \A i \in 1..n : tr[i] = Applied("undo", 0, seq[i], tr[i + 1])
  BY <1>8, RightTrace
<1> HIDE DEF tr
<1>10. \A i \in 1..n : tr[i] = Undo(seq[i], tr[i + 1])
  BY <1>4, <1>9, Zenon
<1> QED
  BY <1>2, <1>9, <1>10, Zenon DEF UndoTrace

MakeTrace(seq, n, base, origin) ==
  \E tr : /\ tr[n + 1] = base /\ tr[1] = AllMade(seq, base, origin)
          /\ \A i \in 1..n : tr[i] = MakeChange(tr[i + 1], seq[i], origin)

LEMMA MakeFold ==
  ASSUME NEW seq, NEW n \in Nat, DOMAIN seq = 1..n, NEW base, NEW origin
  PROVE  MakeTrace(seq, n, base, origin)
<1> DEFINE E(f, s) == IF s = {} THEN base ELSE MakeChange(f[s \ {Min(s)}], seq[Min(s)], origin)
           F(f, s) == FoldStep(f, "make", origin, "right", seq, base, s)
           e == CHOOSE f : f = [s \in SUBSET DOMAIN seq |-> E(f, s)]
<1>1. \A f, s : F(f, s) = E(f, s)
  BY Zenon DEF FoldStep, Applied, Foremost
<1>2. AllMade(seq, base, origin) = e[DOMAIN seq]
  BY DEF AllMade, FoldRight, FoldLeft, MapThenFoldSet
<1>3. PICK h : h = [s \in SUBSET DOMAIN seq |-> F(h, s)]
  <2>1. PICK h : IsFold(h, "make", origin, "right", seq, base)
    BY FoldExists
  <2> QED
    BY <2>1, Zenon DEF IsFold
<1>4. \A x, acc : Applied("make", origin, x, acc) = MakeChange(acc, x, origin)
  BY Zenon DEF Applied
<1> HIDE DEF E, F
<1>5. h = [s \in SUBSET DOMAIN seq |-> E(h, s)]
  BY <1>1, <1>3
<1>6. e = [s \in SUBSET DOMAIN seq |-> E(e, s)]
  BY <1>5, Zenon
<1> HIDE DEF e
<1>7. e = [s \in SUBSET DOMAIN seq |-> F(e, s)]
  BY <1>1, <1>6
<1>8. IsFold(e, "make", origin, "right", seq, base)
  BY <1>7, Zenon DEF IsFold, F
<1> DEFINE tr == Rights(e, n)
<1>9. /\ tr[n + 1] = base /\ tr[1] = e[DOMAIN seq]
      /\ \A i \in 1..n : tr[i] = Applied("make", origin, seq[i], tr[i + 1])
  BY <1>8, RightTrace
<1> HIDE DEF tr
<1>10. \A i \in 1..n : tr[i] = MakeChange(tr[i + 1], seq[i], origin)
  BY <1>4, <1>9, Zenon
<1> QED
  BY <1>2, <1>9, <1>10, Zenon DEF MakeTrace

KillTrace(seq, n, base) ==
  \E tr : /\ tr[0] = base /\ tr[n] = AllKilled(seq, base)
          /\ \A i \in 1..n : tr[i] = Kill(tr[i - 1], seq[i])

LEMMA KillFold ==
  ASSUME NEW seq, NEW n \in Nat, DOMAIN seq = 1..n, NEW base
  PROVE  KillTrace(seq, n, base)
<1> DEFINE E(f, s) == IF s = {} THEN base ELSE Kill(f[s \ {Max(s)}], seq[Max(s)])
           F(f, s) == FoldStep(f, "kill", 0, "left", seq, base, s)
           e == CHOOSE f : f = [s \in SUBSET DOMAIN seq |-> E(f, s)]
<1>1. \A f, s : F(f, s) = E(f, s)
  BY Zenon DEF FoldStep, Applied, Foremost
<1>2. AllKilled(seq, base) = e[DOMAIN seq]
  BY DEF AllKilled, FoldRight, FoldLeft, MapThenFoldSet
<1>3. PICK h : h = [s \in SUBSET DOMAIN seq |-> F(h, s)]
  <2>1. PICK h : IsFold(h, "kill", 0, "left", seq, base)
    BY FoldExists
  <2> QED
    BY <2>1, Zenon DEF IsFold
<1>4. \A x, acc : Applied("kill", 0, x, acc) = Kill(acc, x)
  BY Zenon DEF Applied
<1> HIDE DEF E, F
<1>5. h = [s \in SUBSET DOMAIN seq |-> E(h, s)]
  BY <1>1, <1>3
<1>6. e = [s \in SUBSET DOMAIN seq |-> E(e, s)]
  BY <1>5, Zenon
<1> HIDE DEF e
<1>7. e = [s \in SUBSET DOMAIN seq |-> F(e, s)]
  BY <1>1, <1>6
<1>8. IsFold(e, "kill", 0, "left", seq, base)
  BY <1>7, Zenon DEF IsFold, F
<1> DEFINE tr == Lefts(e, n)
<1>9. /\ tr[0] = base /\ tr[n] = e[DOMAIN seq]
      /\ \A i \in 1..n : tr[i] = Applied("kill", 0, seq[i], tr[i - 1])
  BY <1>8, LeftTrace
<1> HIDE DEF tr
<1>10. \A i \in 1..n : tr[i] = Kill(tr[i - 1], seq[i])
  BY <1>4, <1>9, Zenon
<1> QED
  BY <1>2, <1>9, <1>10, Zenon DEF KillTrace

AddTrace(seq, n, base, ranges, primary) ==
  \E tr : /\ tr[0] = base /\ tr[n] = AllAdded(seq, base, ranges, primary)
          /\ \A i \in 1..n : tr[i] = AddRange(tr[i - 1], ranges[seq[i]], seq[i] = primary)

LEMMA AddFold ==
  ASSUME NEW seq, NEW n \in Nat, DOMAIN seq = 1..n, NEW base, NEW ranges, NEW primary
  PROVE  AddTrace(seq, n, base, ranges, primary)
<1> DEFINE E(f, s) == IF s = {} THEN base ELSE AddRange(f[s \ {Max(s)}], ranges[seq[Max(s)]], seq[Max(s)] = primary)
           F(f, s) == FoldStep(f, "add", <<ranges, primary>>, "left", seq, base, s)
           e == CHOOSE f : f = [s \in SUBSET DOMAIN seq |-> E(f, s)]
<1>1. \A f, s : F(f, s) = E(f, s)
  BY Zenon DEF FoldStep, Applied, Foremost
<1>2. AllAdded(seq, base, ranges, primary) = e[DOMAIN seq]
  BY DEF AllAdded, FoldRight, FoldLeft, MapThenFoldSet
<1>3. PICK h : h = [s \in SUBSET DOMAIN seq |-> F(h, s)]
  <2>1. PICK h : IsFold(h, "add", <<ranges, primary>>, "left", seq, base)
    BY FoldExists
  <2> QED
    BY <2>1, Zenon DEF IsFold
<1>4. \A x, acc : Applied("add", <<ranges, primary>>, x, acc) = AddRange(acc, ranges[x], x = primary)
  BY Zenon DEF Applied
<1> HIDE DEF E, F
<1>5. h = [s \in SUBSET DOMAIN seq |-> E(h, s)]
  BY <1>1, <1>3
<1>6. e = [s \in SUBSET DOMAIN seq |-> E(e, s)]
  BY <1>5, Zenon
<1> HIDE DEF e
<1>7. e = [s \in SUBSET DOMAIN seq |-> F(e, s)]
  BY <1>1, <1>6
<1>8. IsFold(e, "add", <<ranges, primary>>, "left", seq, base)
  BY <1>7, Zenon DEF IsFold, F
<1> DEFINE tr == Lefts(e, n)
<1>9. /\ tr[0] = base /\ tr[n] = e[DOMAIN seq]
      /\ \A i \in 1..n : tr[i] = Applied("add", <<ranges, primary>>, seq[i], tr[i - 1])
  BY <1>8, LeftTrace
<1> HIDE DEF tr
<1>10. \A i \in 1..n : tr[i] = AddRange(tr[i - 1], ranges[seq[i]], seq[i] = primary)
  BY <1>4, <1>9, Zenon
<1> QED
  BY <1>2, <1>9, <1>10, Zenon DEF AddTrace

-----------------------------------------------------------------------------
\* What is appended to a sequence, its front and the sequences it begins with.
Push(E, x) == Append(E, x)

LEMMA PushIs ==
  ASSUME NEW X, NEW E \in Seq(X), NEW x \in X
  PROVE  /\ Push(E, x) \in Seq(X) /\ Size(Push(E, x)) = Size(E) + 1
         /\ Push(E, x)[Size(E) + 1] = x
         /\ \A i \in 1..Size(E) : Push(E, x)[i] = E[i]
BY DEF Size, Push

LEMMA PrefixIs ==
  ASSUME NEW X, NEW E \in Seq(X), NEW k \in 0..Size(E)
  PROVE  /\ SubSeq(E, 1, k) \in Seq(X) /\ Size(SubSeq(E, 1, k)) = k
         /\ \A i \in 1..k : SubSeq(E, 1, k)[i] = E[i]
<1>1. Size(E) \in Nat /\ k \in Int /\ 1 <= 1 /\ k <= Size(E) /\ 1 \in Int
  BY SeqSize
<1>2. /\ Sub(E, 1, k) \in Seq(X) /\ Size(Sub(E, 1, k)) = IF 1 <= k THEN k - 1 + 1 ELSE 0
      /\ \A i \in 1..k - 1 + 1 : Sub(E, 1, k)[i] = E[1 + i - 1]
  BY <1>1, SubIs
<1>3. Size(Sub(E, 1, k)) = k /\ \A i \in 1..k : Sub(E, 1, k)[i] = E[i]
  BY <1>1, <1>2
<1> QED
  BY <1>2, <1>3, Zenon DEF Sub

LEMMA FrontIs ==
  ASSUME NEW X, NEW E \in Seq(X), E # <<>>
  PROVE  /\ Size(E) \in Nat /\ Size(E) >= 1
         /\ Front(E) \in Seq(X) /\ Size(Front(E)) = Size(E) - 1
         /\ \A i \in 1..Size(E) - 1 : Front(E)[i] = E[i]
         /\ Last(E) = E[Size(E)] /\ Last(E) \in X
         /\ E = Append(Front(E), Last(E))
<1>1. Size(E) \in Nat /\ Size(E) >= 1 /\ E[Size(E)] \in X
  BY SeqSize
<1>2. Front(E) = SubSeq(E, 1, Size(E) - 1) /\ Last(E) = E[Size(E)]
  BY Zenon DEF Front, Last, Size
<1>3. Size(E) - 1 \in 0..Size(E)
  BY <1>1
<1>4. /\ SubSeq(E, 1, Size(E) - 1) \in Seq(X) /\ Size(SubSeq(E, 1, Size(E) - 1)) = Size(E) - 1
      /\ \A i \in 1..Size(E) - 1 : SubSeq(E, 1, Size(E) - 1)[i] = E[i]
  BY <1>3, PrefixIs
<1>5. /\ Front(E) \in Seq(X) /\ Size(Front(E)) = Size(E) - 1
      /\ \A i \in 1..Size(E) - 1 : Front(E)[i] = E[i]
  BY <1>2, <1>4, Zenon
<1> DEFINE f == Front(E)
           x == Last(E)
           G == Push(f, x)
           n == Size(E)
<1>6. x \in X /\ f \in Seq(X)
  BY <1>1, <1>2, <1>5
<1> HIDE DEF f, x
<1>7. /\ G \in Seq(X) /\ Size(G) = Size(f) + 1 /\ G[Size(f) + 1] = x
      /\ \A i \in 1..Size(f) : G[i] = f[i]
  BY <1>6, PushIs
<1>8. n \in Nat /\ n >= 1 /\ Size(f) = n - 1 /\ x = E[n] /\ \A i \in 1..n - 1 : f[i] = E[i]
  BY <1>1, <1>2, <1>5, Zenon DEF f, x
<1> HIDE DEF G, n
<1>9. Size(G) = n /\ \A i \in 1..n : G[i] = E[i]
  <2>1. Size(G) = n /\ G[n] = E[n]
    BY <1>7, <1>8
  <2> SUFFICES ASSUME NEW i \in 1..n PROVE G[i] = E[i]
    BY <2>1
  <2>2. CASE i = n
    BY <2>1, <2>2
  <2>3. CASE i # n
    <3>1. i \in 1..n - 1 /\ i \in 1..Size(f)
      BY <1>8, <2>3
    <3> QED
      BY <1>7, <1>8, <3>1, Zenon
  <2> QED
    BY <2>2, <2>3
<1>10. E = G
  BY <1>7, <1>9, SameSeq DEF n
<1> QED
  BY <1>1, <1>2, <1>5, <1>10, Zenon DEF G, f, x, n, Push

-----------------------------------------------------------------------------
\* R says for what is undone which text comes before and which after it: undoing all of E,
\* from its last to its first, leads from the text t to the text s.
Path(R, E, s, t) ==
  \E tr \in [1..Size(E) + 1 -> Texts] :
    /\ tr[1] = s /\ tr[Size(E) + 1] = t
    /\ \A i \in 1..Size(E) : <<E[i], tr[i], tr[i + 1]>> \in R

LEMMA PathIsTyped ==
  ASSUME NEW X, NEW E \in Seq(X), NEW R, NEW s, NEW t, Path(R, E, s, t)
  PROVE  s \in Texts /\ t \in Texts /\ (E = <<>> => s = t)
<1> DEFINE n == Size(E)
<1>1. n \in Nat /\ (E = <<>> => n = 0)
  BY SeqSize
<1>2. PICK tr \in [1..n + 1 -> Texts] : tr[1] = s /\ tr[n + 1] = t
  BY Zenon DEF Path
<1> HIDE DEF n
<1>3. 1 \in 1..n + 1 /\ n + 1 \in 1..n + 1
  BY <1>1
<1> QED
  BY <1>1, <1>2, <1>3

LEMMA PathOfNothing ==
  ASSUME NEW R, NEW s \in Texts
  PROVE  Path(R, <<>>, s, s)
<1>1. Size(<<>>) = 0
  BY DEF Size
<1> DEFINE tr == [i \in 1..1 |-> s]
<1>2. tr \in [1..0 + 1 -> Texts] /\ tr[1] = s /\ 1..0 = {} /\ tr[0 + 1] = s
  OBVIOUS
<1> HIDE DEF tr
<1> QED
  BY <1>1, <1>2, Zenon DEF Path

LEMMA PathAppend ==
  ASSUME NEW X, NEW E \in Seq(X), NEW x \in X, NEW R, NEW s, NEW u, NEW t \in Texts,
         Path(R, E, s, u), <<x, u, t>> \in R
  PROVE  Path(R, Append(E, x), s, t)
<1> DEFINE n == Size(E)
           F == Push(E, x)
<1>1. n \in Nat
  BY SeqSize
<1>2. Size(F) = n + 1 /\ F[n + 1] = x /\ \A i \in 1..n : F[i] = E[i]
  BY PushIs
<1>3. PICK tr \in [1..n + 1 -> Texts] :
        /\ tr[1] = s /\ tr[n + 1] = u /\ \A i \in 1..n : <<E[i], tr[i], tr[i + 1]>> \in R
  BY Zenon DEF Path
<1> HIDE DEF n, F
<1> DEFINE tv == [i \in 1..(n + 1) + 1 |-> IF i = n + 2 THEN t ELSE tr[i]]
<1>4. tv \in [1..(n + 1) + 1 -> Texts] /\ tv[1] = s /\ tv[n + 1] = u /\ tv[(n + 1) + 1] = t
  BY <1>1, <1>3
<1>5. ASSUME NEW i \in 1..n + 1
      PROVE  <<F[i], tv[i], tv[i + 1]>> \in R
  <2>1. CASE i = n + 1
    <3>1. F[i] = x /\ tv[i] = u /\ tv[i + 1] = t
      BY <1>2, <1>4, <2>1, Zenon
    <3> QED
      BY <3>1
  <2>2. CASE i # n + 1
    <3>1. i \in 1..n
      BY <1>1, <2>2
    <3>2. tv[i] = tr[i] /\ tv[i + 1] = tr[i + 1]
      BY <1>1, <3>1
    <3>3. F[i] = E[i] /\ <<E[i], tr[i], tr[i + 1]>> \in R
      BY <1>2, <1>3, <3>1
    <3> HIDE DEF tv
    <3> QED
      BY <3>2, <3>3, Zenon
  <2> QED
    BY <2>1, <2>2
<1> HIDE DEF tv
<1>6. Path(R, F, s, t)
  BY <1>2, <1>4, <1>5, Zenon DEF Path
<1> QED
  BY <1>6, Zenon DEF F, Push

\* The step that is undone first.
LEMMA PathFront ==
  ASSUME NEW X, NEW E \in Seq(X), E # <<>>, NEW R, NEW s, NEW t, Path(R, E, s, t)
  PROVE  \E u \in Texts : Path(R, Front(E), s, u) /\ <<Last(E), u, t>> \in R
<1> DEFINE n == Size(E)
           F == Front(E)
<1>1. n \in Nat /\ n >= 1 /\ Size(F) = n - 1 /\ Last(E) = E[n] /\ \A i \in 1..n - 1 : F[i] = E[i]
  BY FrontIs
<1>2. PICK tr \in [1..n + 1 -> Texts] :
        /\ tr[1] = s /\ tr[n + 1] = t /\ \A i \in 1..n : <<E[i], tr[i], tr[i + 1]>> \in R
  BY Zenon DEF Path
<1> HIDE DEF n, F
<1> DEFINE tv == [i \in 1..(n - 1) + 1 |-> tr[i]]
<1>3. tv \in [1..(n - 1) + 1 -> Texts] /\ tv[1] = s /\ tv[(n - 1) + 1] = tr[n] /\ tr[n] \in Texts
  BY <1>1, <1>2
<1>4. ASSUME NEW i \in 1..n - 1
      PROVE  <<F[i], tv[i], tv[i + 1]>> \in R
  <2>1. i \in 1..n /\ tv[i] = tr[i] /\ tv[i + 1] = tr[i + 1]
    BY <1>1
  <2>2. F[i] = E[i] /\ <<E[i], tr[i], tr[i + 1]>> \in R
    BY <1>1, <1>2, <2>1
  <2> HIDE DEF tv
  <2> QED
    BY <2>1, <2>2, Zenon
<1> HIDE DEF tv
<1>5. Path(R, F, s, tr[n])
  BY <1>1, <1>3, <1>4, Zenon DEF Path
<1>6. <<E[n], tr[n], tr[n + 1]>> \in R
  BY <1>1, <1>2
<1>7. <<Last(E), tr[n], t>> \in R
  BY <1>1, <1>2, <1>6, Zenon
<1> QED
  BY <1>3, <1>5, <1>7, Zenon DEF F

LEMMA PathGrows ==
  ASSUME NEW E, NEW R, NEW Q, R \subseteq Q, NEW s, NEW t, Path(R, E, s, t)
  PROVE  Path(Q, E, s, t)
<1>1. PICK tr \in [1..Size(E) + 1 -> Texts] :
        /\ tr[1] = s /\ tr[Size(E) + 1] = t
        /\ \A i \in 1..Size(E) : <<E[i], tr[i], tr[i + 1]>> \in R
  BY Zenon DEF Path
<1>2. \A i \in 1..Size(E) : <<E[i], tr[i], tr[i + 1]>> \in Q
  BY <1>1
<1> QED
  BY <1>1, <1>2, Zenon DEF Path

\* What does not change the text may be left out at the end.
LEMMA PathPrefix ==
  ASSUME NEW X, NEW E \in Seq(X), NEW R, NEW s, NEW t, Path(R, E, s, t), NEW k \in 0..Size(E),
         \A i \in k + 1..Size(E) : \A u, v : <<E[i], u, v>> \in R => u = v
  PROVE  /\ Path(R, SubSeq(E, 1, k), s, t)
         /\ \A i \in k + 1..Size(E) : <<E[i], t, t>> \in R
<1> DEFINE n == Size(E)
           F == SubSeq(E, 1, k)
<1>1. n \in Nat /\ k \in 0..n
  BY SeqSize
<1>2. Size(F) = k /\ \A i \in 1..k : F[i] = E[i]
  BY PrefixIs
<1>3. PICK tr \in [1..n + 1 -> Texts] :
        /\ tr[1] = s /\ tr[n + 1] = t /\ \A i \in 1..n : <<E[i], tr[i], tr[i + 1]>> \in R
  BY Zenon DEF Path
<1>4. \A i \in k + 1..n : \A u, v : <<E[i], u, v>> \in R => u = v
  BY Zenon
<1> HIDE DEF n, F
<1> DEFINE U == {i \in 1..n + 1 : i >= k + 1 => tr[i] = t}
<1>5. n + 1 \in U
  BY <1>1, <1>3
<1>6. ASSUME NEW i \in 1..n, i + 1 \in U
      PROVE  i \in U
  <2>1. CASE i >= k + 1
    <3>1. i \in k + 1..n /\ i + 1 >= k + 1
      BY <1>1, <2>1
    <3>2. <<E[i], tr[i], tr[i + 1]>> \in R
      BY <1>3
    <3>3. tr[i] = tr[i + 1]
      BY <1>4, <3>1, <3>2, Zenon
    <3>4. tr[i + 1] = t
      BY <1>6, <3>1
    <3>5. tr[i] = t /\ i \in 1..n + 1
      BY <1>1, <3>3, <3>4
    <3> QED
      BY <3>5
  <2>2. CASE ~(i >= k + 1)
    BY <1>1, <2>2
  <2> QED
    BY <2>1, <2>2
<1>7. \A i \in 1..n + 1 : i \in U
  <2> HIDE DEF U
  <2> QED
    BY <1>1, <1>5, <1>6, DownInduction
<1>8. \A i \in k + 1..n + 1 : tr[i] = t
  BY <1>1, <1>7
<1> DEFINE tv == [i \in 1..k + 1 |-> tr[i]]
<1>9. tv \in [1..k + 1 -> Texts] /\ tv[1] = s /\ tv[k + 1] = t
  BY <1>1, <1>3, <1>8
<1>10. ASSUME NEW i \in 1..k
       PROVE  <<F[i], tv[i], tv[i + 1]>> \in R
  <2>1. i \in 1..n /\ tv[i] = tr[i] /\ tv[i + 1] = tr[i + 1]
    BY <1>1
  <2>2. F[i] = E[i] /\ <<E[i], tr[i], tr[i + 1]>> \in R
    BY <1>2, <1>3, <2>1
  <2> HIDE DEF tv
  <2> QED
    BY <2>1, <2>2, Zenon
<1> HIDE DEF tv
<1>11. Path(R, F, s, t)
  BY <1>2, <1>9, <1>10, Zenon DEF Path
<1>12. ASSUME NEW i \in k + 1..n
       PROVE  <<E[i], t, t>> \in R
  <2>1. i \in 1..n /\ i \in k + 1..n + 1 /\ i + 1 \in k + 1..n + 1
    BY <1>1
  <2>2. <<E[i], tr[i], tr[i + 1]>> \in R /\ tr[i] = t /\ tr[i + 1] = t
    BY <1>3, <1>8, <2>1
  <2> QED
    BY <2>2, Zenon
<1> QED
  BY <1>11, <1>12, Zenon DEF F, n

-----------------------------------------------------------------------------
\* What the history is made of.
Changes == [from : Spots, to : Spots, text : Texts]
Spans == [anchor : Spots, head : Spots]
Sels == [ranges : Seq(Spans), prim : Nat]
Bursts == [changes : Seq(Changes), generation : Nat]
Events == Sels \cup Bursts

\* The ranges lie in order, with something between any two.
Apart(ranges) ==
  \A i \in DOMAIN ranges : i > 1 => Before(To(ranges[i - 1]), From(ranges[i]))

\* A selection that a text may have.
SelIn(sel, t) ==
  /\ sel \in Sels /\ sel.prim \in DOMAIN sel.ranges
  /\ \A i \in DOMAIN sel.ranges : InText(t, sel.ranges[i].anchor) /\ InText(t, sel.ranges[i].head)
  /\ Apart(sel.ranges)

\* names gives every generation its text.
Names(names, g, t) == g \in 1..Size(names) /\ names[g] = t

\* What undoing a change and an event does.
ChangeSteps == {x \in Changes \X Texts \X Texts : Fits(x[3], x[1]) /\ x[2] = Changed(x[3], x[1])}

EventSteps(names) ==
  {x \in Events \X Texts \X Texts :
     IF IsSel(x[1]) THEN SelIn(x[1], x[3]) /\ x[2] = x[3]
     ELSE /\ x[1] \in Bursts /\ x[1].changes # <<>>
          /\ Path(ChangeSteps, x[1].changes, x[2], x[3]) /\ Names(names, x[1].generation, x[2])}

LEMMA FitsIsTyped ==
  ASSUME NEW t, NEW c, Fits(t, c)
  PROVE  c \in Changes
<1> DEFINE f == c.from
           g == c.to
           x == c.text
<1>1. c = Change(f, g, x) /\ f \in Spots /\ g \in Spots /\ x \in Texts
  BY Zenon DEF Fits, InText
<1> HIDE DEF f, g, x
<1> QED
  BY <1>1 DEF Change, Changes

LEMMA ChangeStepIs ==
  ASSUME NEW c, NEW s, NEW t
  PROVE  <<c, s, t>> \in ChangeSteps <=> t \in Texts /\ Fits(t, c) /\ s = Changed(t, c)
<1>1. <<c, s, t>>[1] = c /\ <<c, s, t>>[2] = s /\ <<c, s, t>>[3] = t
  OBVIOUS
<1>2. <<c, s, t>> \in ChangeSteps <=>
        <<c, s, t>> \in Changes \X Texts \X Texts /\ Fits(t, c) /\ s = Changed(t, c)
  BY <1>1, Zenon DEF ChangeSteps
<1>3. t \in Texts /\ Fits(t, c) => c \in Changes /\ Changed(t, c) \in Texts
  BY FitsIsTyped, AntiChangeUndoes
<1>4. <<c, s, t>> \in Changes \X Texts \X Texts <=> c \in Changes /\ s \in Texts /\ t \in Texts
  OBVIOUS
<1> QED
  BY <1>2, <1>3, <1>4, Zenon

LEMMA SelOrBurst ==
  /\ \A e \in Sels : IsSel(e) /\ e \in Events
  /\ \A e \in Bursts : ~IsSel(e) /\ e \in Events
  /\ \A e \in Events : (IsSel(e) => e \in Sels) /\ (~IsSel(e) => e \in Bursts)
<1>1. \A e \in Sels : IsSel(e)
  BY DEF Sels, IsSel
<1>2. \A e \in Bursts : ~IsSel(e)
  BY DEF Bursts, IsSel
<1> QED
  BY <1>1, <1>2, Zenon DEF Events

LEMMA EventStepIs ==
  ASSUME NEW names, NEW e, NEW s, NEW t
  PROVE  /\ e \in Sels => (<<e, s, t>> \in EventSteps(names) <=> t \in Texts /\ SelIn(e, t) /\ s = t)
         /\ e \in Bursts => (<<e, s, t>> \in EventSteps(names) <=>
                               /\ s \in Texts /\ t \in Texts /\ e.changes # <<>>
                               /\ Path(ChangeSteps, e.changes, s, t) /\ Names(names, e.generation, s))
         /\ <<e, s, t>> \in EventSteps(names) => e \in Events
<1>1. <<e, s, t>>[1] = e /\ <<e, s, t>>[2] = s /\ <<e, s, t>>[3] = t
  OBVIOUS
<1>2. <<e, s, t>> \in EventSteps(names) <=>
        /\ <<e, s, t>> \in Events \X Texts \X Texts
        /\ IF IsSel(e) THEN SelIn(e, t) /\ s = t
           ELSE /\ e \in Bursts /\ e.changes # <<>>
                /\ Path(ChangeSteps, e.changes, s, t) /\ Names(names, e.generation, s)
  BY <1>1, Zenon DEF EventSteps
<1>3. <<e, s, t>> \in Events \X Texts \X Texts <=> e \in Events /\ s \in Texts /\ t \in Texts
  OBVIOUS
<1> QED
  BY <1>2, <1>3, SelOrBurst, Zenon

\* The folds that unwind changes and events do what the relations say.
LEMMA ChangePathIs ==
  ASSUME NEW C \in Seq(Changes), NEW s, NEW t, Path(ChangeSteps, C, s, t)
  PROVE  AllChanged(C, t) = s
<1> DEFINE n == Size(C)
<1>1. n \in Nat /\ DOMAIN C = 1..n
  BY SeqSize
<1>2. PICK tv \in [1..n + 1 -> Texts] :
        /\ tv[1] = s /\ tv[n + 1] = t /\ \A i \in 1..n : <<C[i], tv[i], tv[i + 1]>> \in ChangeSteps
  BY Zenon DEF Path
<1> HIDE DEF n
<1> DEFINE all == AllChanged(C, t)
<1> HIDE DEF all
<1>4. PICK tr : /\ tr[n + 1] = t /\ tr[1] = AllChanged(C, t)
                /\ \A i \in 1..n : tr[i] = Changed(tr[i + 1], C[i])
  <2>1. ChangeTrace(C, n, t)
    BY <1>1, ChangeFold
  <2> QED
    BY <2>1, Zenon DEF ChangeTrace
<1> DEFINE U == {i \in 1..n + 1 : tr[i] = tv[i]}
<1>5. n + 1 \in U
  BY <1>1, <1>2, <1>4
<1>6. ASSUME NEW i \in 1..n, i + 1 \in U
      PROVE  i \in U
  <2>1. tr[i + 1] = tv[i + 1] /\ i \in 1..n + 1
    BY <1>1, <1>6
  <2>2. tv[i] = Changed(tv[i + 1], C[i])
    BY <1>2, ChangeStepIs
  <2>3. tr[i] = Changed(tr[i + 1], C[i])
    BY <1>4
  <2>4. tr[i] = tv[i]
    BY <2>1, <2>2, <2>3, Zenon
  <2> QED
    BY <2>1, <2>4
<1> HIDE DEF U
<1>7. 1 \in U
  <2>1. \A i \in 1..n + 1 : i \in U
    BY <1>1, <1>5, <1>6, DownInduction
  <2> QED
    BY <1>1, <2>1
<1>8. all = s
  BY <1>2, <1>4, <1>7, Zenon DEF U, all
<1> QED
  BY <1>8, Zenon DEF all

LEMMA EventPathIs ==
  ASSUME NEW names, NEW E \in Seq(Events), NEW s, NEW t, Path(EventSteps(names), E, s, t)
  PROVE  Unwind(t, E) = s
<1> DEFINE n == Size(E)
<1>1. n \in Nat /\ DOMAIN E = 1..n /\ \A i \in 1..n : E[i] \in Events
  BY SeqSize
<1>2. PICK tv \in [1..n + 1 -> Texts] :
        /\ tv[1] = s /\ tv[n + 1] = t /\ \A i \in 1..n : <<E[i], tv[i], tv[i + 1]>> \in EventSteps(names)
  BY Zenon DEF Path
<1> HIDE DEF n
<1> DEFINE all == AllUndone(E, t)
<1>4. PICK tr : /\ tr[n + 1] = t /\ tr[1] = all /\ \A i \in 1..n : tr[i] = Undone(E[i], tr[i + 1])
  <2>1. UndoneTrace(E, n, t)
    BY <1>1, UndoneFold
  <2> QED
    BY <2>1, Zenon DEF UndoneTrace
<1> HIDE DEF all
<1> DEFINE U == {i \in 1..n + 1 : tr[i] = tv[i]}
<1>5. n + 1 \in U
  BY <1>1, <1>2, <1>4
<1>6. ASSUME NEW i \in 1..n, i + 1 \in U
      PROVE  i \in U
  <2>1. tr[i + 1] = tv[i + 1] /\ i \in 1..n + 1
    BY <1>1, <1>6
  <2> DEFINE e == E[i]
             u == tv[i]
             v == tv[i + 1]
  <2>2. <<e, u, v>> \in EventSteps(names) /\ e \in Events
    BY <1>1, <1>2
  <2> HIDE DEF e, u, v
  <2>3. Undone(e, v) = u
    <3>1. CASE IsSel(e)
      <4>1. e \in Sels
        BY <2>2, <3>1, SelOrBurst
      <4>2. u = v
        BY <2>2, <4>1, EventStepIs
      <4> QED
        BY <3>1, <4>2, Zenon DEF Undone
    <3>2. CASE ~IsSel(e)
      <4>1. e \in Bursts
        BY <2>2, <3>2, SelOrBurst
      <4>2. Path(ChangeSteps, e.changes, u, v) /\ e.changes \in Seq(Changes)
        BY <2>2, <4>1, EventStepIs DEF Bursts
      <4>3. AllChanged(e.changes, v) = u
        BY <4>2, ChangePathIs
      <4> QED
        BY <3>2, <4>3, Zenon DEF Undone, AllChanged
    <3> QED
      BY <3>1, <3>2
  <2>4. tr[i] = Undone(E[i], tr[i + 1])
    BY <1>4
  <2>5. tr[i] = tv[i]
    BY <2>1, <2>3, <2>4, Zenon DEF e, u, v
  <2> QED
    BY <2>1, <2>5
<1> HIDE DEF U
<1>7. 1 \in U
  <2>1. \A i \in 1..n + 1 : i \in U
    BY <1>1, <1>5, <1>6, DownInduction
  <2> QED
    BY <1>1, <2>1
<1>8. all = s
  BY <1>2, <1>4, <1>7, Zenon DEF U
<1> QED
  BY <1>8, Zenon DEF all, Unwind, AllUndone

\* Undoing the changes of an event also makes the changes that bring it back.
LEMMA UndoPathIs ==
  ASSUME NEW C \in Seq(Changes), NEW s, NEW t, Path(ChangeSteps, C, s, t), NEW all,
         all = AllUndo(C, [text |-> t, anti |-> <<>>])
  PROVE  /\ all.text = s /\ all.anti \in Seq(Changes) /\ Size(all.anti) = Size(C)
         /\ Path(ChangeSteps, all.anti, t, s)
<1> DEFINE n == Size(C)
           b == [text |-> t, anti |-> <<>>]
<1>1. n \in Nat /\ DOMAIN C = 1..n /\ t \in Texts
  BY SeqSize, PathIsTyped
<1>2. PICK tv \in [1..n + 1 -> Texts] :
        /\ tv[1] = s /\ tv[n + 1] = t /\ \A i \in 1..n : <<C[i], tv[i], tv[i + 1]>> \in ChangeSteps
  BY Zenon DEF Path
<1>0. b.text = t /\ b.anti = <<>>
  OBVIOUS
<1> HIDE DEF n, b
<1>3. PICK tr : /\ tr[n + 1] = b /\ tr[1] = AllUndo(C, b)
                /\ \A i \in 1..n : tr[i] = Undo(C[i], tr[i + 1])
  <2>1. UndoTrace(C, n, b)
    BY <1>1, UndoFold
  <2> QED
    BY <2>1, Zenon DEF UndoTrace
<1>4. /\ tr[n + 1] = b /\ tr[1] = all
      /\ \A i \in 1..n : tr[i] = Undo(C[i], tr[i + 1])
  BY <1>3, Zenon DEF b
<1> DEFINE Good(i, a) == /\ a.text = tv[i] /\ a.anti \in Seq(Changes) /\ Size(a.anti) = n + 1 - i
                         /\ Path(ChangeSteps, a.anti, t, tv[i])
           U == {i \in 1..n + 1 : Good(i, tr[i])}
<1>5. n + 1 \in U
  <2>1. Path(ChangeSteps, <<>>, t, t) /\ <<>> \in Seq(Changes) /\ Size(<<>>) = 0
    BY <1>1, PathOfNothing DEF Size
  <2>2. n + 1 - (n + 1) = 0 /\ n + 1 \in 1..n + 1
    BY <1>1
  <2>3. Good(n + 1, b)
    BY <1>0, <1>2, <2>1, <2>2, Zenon
  <2> HIDE DEF Good
  <2> QED
    BY <1>4, <2>2, <2>3
<1>6. ASSUME NEW i \in 1..n, i + 1 \in U
      PROVE  i \in U
  <2> DEFINE a == tr[i + 1]
             c == C[i]
             u == tv[i]
             v == tv[i + 1]
             h == AntiChange(v, c)
             r == Push(a.anti, h)
  <2>1. i \in 1..n + 1 /\ n + 1 - (i + 1) + 1 = n + 1 - i /\ n + 1 - (i + 1) \in Int
    BY <1>1
  <2>2. a.text = v /\ a.anti \in Seq(Changes) /\ Size(a.anti) = n + 1 - (i + 1)
        /\ Path(ChangeSteps, a.anti, t, v)
    BY <1>6, Zenon
  <2>3. <<c, u, v>> \in ChangeSteps
    BY <1>2, Zenon
  <2>4. tr[i] = Undo(c, a)
    BY <1>4, Zenon
  <2>5. u \in Texts /\ v \in Texts
    BY <1>1, <1>2
  <2> HIDE DEF a, c, u, v, h
  <2>6. Fits(v, c) /\ u = Changed(v, c)
    BY <2>3, ChangeStepIs
  <2>7. Fits(u, h) /\ Changed(u, h) = v
    BY <2>5, <2>6, AntiChangeUndoes DEF h
  <2>8. h \in Changes /\ <<h, v, u>> \in ChangeSteps
    BY <2>5, <2>7, FitsIsTyped, ChangeStepIs
  <2>9. r \in Seq(Changes) /\ Size(r) = Size(a.anti) + 1
    BY <2>2, <2>8, PushIs
  <2>10. Path(ChangeSteps, r, t, u)
    <3>1. Path(ChangeSteps, Append(a.anti, h), t, u)
      BY <2>2, <2>5, <2>8, PathAppend
    <3> QED
      BY <3>1, Zenon DEF Push
  <2>11. tr[i].text = u /\ tr[i].anti = r
    <3> DEFINE x == Changed(a.text, c)
               y == Append(a.anti, AntiChange(a.text, c))
    <3>1. tr[i] = [text |-> x, anti |-> y]
      BY <2>4, Zenon DEF Undo
    <3>2. x = u /\ y = r
      BY <2>2, <2>6, Zenon DEF h, Push
    <3> HIDE DEF x, y, r
    <3> QED
      BY <3>1, <3>2
  <2> HIDE DEF r
  <2>12. Size(r) = n + 1 - i
    BY <2>1, <2>2, <2>9
  <2>13. Good(i, tr[i])
    BY <2>9, <2>10, <2>11, <2>12, Zenon DEF u
  <2> HIDE DEF Good
  <2> QED
    BY <2>1, <2>13
<1> HIDE DEF U
<1>7. 1 \in U
  <2>1. \A i \in 1..n + 1 : i \in U
    BY <1>1, <1>5, <1>6, DownInduction
  <2> QED
    BY <1>1, <2>1
<1>8. Good(1, all)
  BY <1>4, <1>7, Zenon DEF U
<1>9. n + 1 - 1 = n
  BY <1>1
<1> QED
  BY <1>2, <1>8, <1>9, Zenon DEF n

-----------------------------------------------------------------------------
\* The order of positions.
LEMMA OrderLaws ==
  ASSUME NEW p \in Spots, NEW q \in Spots
  PROVE  /\ NotAfter(p, q) <=> (Before(p, q) \/ p = q)
         /\ NotAfter(p, q) <=> ~Before(q, p)
         /\ ~(NotAfter(p, q) /\ Before(q, p)) /\ NotAfter(p, p)
<1>1. /\ LineNo(p) \in Nat /\ Ch(p) \in Nat /\ LineNo(q) \in Nat /\ Ch(q) \in Nat
      /\ (LineNo(p) = LineNo(q) /\ Ch(p) = Ch(q)) <=> p = q
  BY SpotIs
<1>2. \A a, b \in Spots :
        /\ NotAfter(a, b) <=> LineNo(a) < LineNo(b) \/ (LineNo(a) = LineNo(b) /\ Ch(a) <= Ch(b))
        /\ Before(a, b) <=> LineNo(a) < LineNo(b) \/ (LineNo(a) = LineNo(b) /\ Ch(a) < Ch(b))
  BY OrderIs
<1>3. /\ NotAfter(p, q) <=> LineNo(p) < LineNo(q) \/ (LineNo(p) = LineNo(q) /\ Ch(p) <= Ch(q))
      /\ Before(p, q) <=> LineNo(p) < LineNo(q) \/ (LineNo(p) = LineNo(q) /\ Ch(p) < Ch(q))
      /\ Before(q, p) <=> LineNo(q) < LineNo(p) \/ (LineNo(q) = LineNo(p) /\ Ch(q) < Ch(p))
      /\ NotAfter(p, p) <=> LineNo(p) < LineNo(p) \/ (LineNo(p) = LineNo(p) /\ Ch(p) <= Ch(p))
  BY <1>2, Zenon
<1> QED
  BY <1>1, <1>3

LEMMA OrderTrans ==
  ASSUME NEW p \in Spots, NEW q \in Spots, NEW r \in Spots, NotAfter(p, q), NotAfter(q, r)
  PROVE  /\ NotAfter(p, r)
         /\ Before(p, q) \/ Before(q, r) => Before(p, r)
<1>1. /\ LineNo(p) \in Nat /\ Ch(p) \in Nat /\ LineNo(q) \in Nat /\ Ch(q) \in Nat
      /\ LineNo(r) \in Nat /\ Ch(r) \in Nat
  BY SpotIs
<1>2. \A a, b \in Spots :
        /\ NotAfter(a, b) <=> LineNo(a) < LineNo(b) \/ (LineNo(a) = LineNo(b) /\ Ch(a) <= Ch(b))
        /\ Before(a, b) <=> LineNo(a) < LineNo(b) \/ (LineNo(a) = LineNo(b) /\ Ch(a) < Ch(b))
  BY OrderIs
<1>3. /\ LineNo(p) < LineNo(q) \/ (LineNo(p) = LineNo(q) /\ Ch(p) <= Ch(q))
      /\ LineNo(q) < LineNo(r) \/ (LineNo(q) = LineNo(r) /\ Ch(q) <= Ch(r))
      /\ NotAfter(p, r) <=> LineNo(p) < LineNo(r) \/ (LineNo(p) = LineNo(r) /\ Ch(p) <= Ch(r))
      /\ Before(p, r) <=> LineNo(p) < LineNo(r) \/ (LineNo(p) = LineNo(r) /\ Ch(p) < Ch(r))
      /\ Before(p, q) <=> LineNo(p) < LineNo(q) \/ (LineNo(p) = LineNo(q) /\ Ch(p) < Ch(q))
      /\ Before(q, r) <=> LineNo(q) < LineNo(r) \/ (LineNo(q) = LineNo(r) /\ Ch(q) < Ch(r))
  BY <1>2, Zenon
<1> QED
  BY <1>1, <1>3

\* Positions before a change stay where they are, and all others are moved into the text.
LEMMA BeforeChange ==
  ASSUME NEW t \in Texts, NEW c, Fits(t, c), NEW p, InText(t, p), NotAfter(p, c.from)
  PROVE  InText(Changed(t, c), p)
<1> DEFINE o == Pos(0, 0)
           f == c.from
           a == GetBetween(t, o, p)
           b == GetBetween(t, p, f)
           pre == Pre(t, c)
           post == Post(t, c)
           x == c.text
           n == Changed(t, c)
<1>1. InText(t, o) /\ InText(t, f) /\ NotAfter(o, p) /\ NotAfter(p, f)
  BY EndIs, EndOfBetween DEF Fits
<1>2. pre \in Texts /\ post \in Texts /\ x \in Texts /\ n = Joined(Joined(pre, x), post)
  BY ChangeIs
<1>3. pre = GetBetween(t, o, f)
  BY Zenon DEF Pre
<1> HIDE DEF o, f, pre, post, x, n
<1>4. a \in Texts /\ b \in Texts /\ Joined(a, b) = pre
  BY <1>1, <1>3, BetweenIs, BetweenJoins
<1>5. EndOf(a) = p
  BY EndOfBetween DEF o
<1> HIDE DEF a, b
<1>6. InText(a, p)
  BY <1>4, <1>5, EndIs
<1>7. InText(pre, p)
  BY <1>4, <1>6, FirstOfJoined
<1>8. InText(n, p)
  BY <1>2, <1>7, Pieces
<1> QED
  BY <1>8 DEF n

LEMMA Adjusted ==
  ASSUME NEW t \in Texts, NEW c, Fits(t, c), NEW p, InText(t, p)
  PROVE  InText(Changed(t, c), AdjustForChange(p, c))
<1> DEFINE g == ChangeEnd(c)
           pre == Pre(t, c)
           post == Post(t, c)
           x == c.text
           n == Changed(t, c)
           f == c.from
           e == c.to
<1>1. /\ pre \in Texts /\ post \in Texts /\ x \in Texts /\ n = Joined(Joined(pre, x), post)
      /\ g = EndOf(Joined(pre, x))
  BY ChangeIs
<1>2. InText(n, g) /\ \A q : InText(post, q) => InText(n, Shift(g, q))
  <2> HIDE DEF pre, post, x, n, g
  <2> QED
    BY <1>1, Pieces
<1>3. CASE Before(p, f)
  <2>1. NotAfter(p, f)
    <3>1. p \in Spots /\ f \in Spots
      BY Zenon DEF Fits, InText
    <3> HIDE DEF f
    <3> QED
      BY <1>3, <3>1, OrderLaws
  <2> QED
    BY <1>3, <2>1, BeforeChange DEF AdjustForChange
<1>4. CASE ~Before(p, f) /\ NotAfter(p, e)
  BY <1>2, <1>4, Zenon DEF AdjustForChange
<1>5. CASE ~Before(p, f) /\ ~NotAfter(p, e)
  <2> DEFINE o == Pos(0, 0)
             z == EndOf(t)
             a == GetBetween(t, o, e)
             b == GetBetween(t, e, p)
             q == EndOf(b)
  <2>1. /\ InText(t, o) /\ InText(t, e) /\ InText(t, z) /\ p \in Spots /\ e \in Spots /\ f \in Spots
        /\ NotAfter(o, e) /\ NotAfter(p, z)
    BY EndIs, EndOfBetween DEF Fits, InText
  <2>2. post = GetBetween(t, e, z)
    BY Zenon DEF Post
  <2>3. EndOf(GetBetween(t, o, p)) = p /\ EndOf(a) = e
    BY <2>1, EndOfBetween
  <2>14. g = Shift(f, EndOf(x))
    BY <1>1, <2>1, EndOfChange
  <2> HIDE DEF o, z, e, f, x, g, post, pre, n
  <2>4. NotAfter(e, p)
    BY <1>5, <2>1, OrderLaws
  <2>5. /\ a \in Texts /\ b \in Texts /\ Joined(a, b) = GetBetween(t, o, p)
        /\ GetBetween(t, p, z) \in Texts /\ Joined(b, GetBetween(t, p, z)) = post
    BY <2>1, <2>2, <2>4, BetweenIs, BetweenJoins
  <2>6. p = Shift(e, q)
    BY <2>3, <2>5, SecondOfJoined
  <2>7. InText(b, q) /\ q \in Spots
    BY <2>5, EndIs
  <2> HIDE DEF a, b, q
  <2>8. InText(post, q)
    BY <2>5, <2>7, FirstOfJoined
  <2>9. InText(n, Shift(g, q))
    BY <1>2, <2>8
  <2>10. AdjustForChange(p, c) = Shift(g, q)
    <3>1. LineNo(p) = LineNo(e) + LineNo(q) /\ Ch(p) = Ch(q) + IF LineNo(q) = 0 THEN Ch(e) ELSE 0
      BY <2>1, <2>6, <2>7, ShiftIs
    <3>2. LineNo(g) = LineNo(f) + (Size(x) - 1) /\ g \in Spots
      <4>1. EndOf(x) \in Spots /\ LineNo(EndOf(x)) = Size(x) - 1
        BY <1>1, EndIs
      <4> QED
        BY <2>1, <2>14, <4>1, ShiftIs
    <3>3. /\ LineNo(p) \in Nat /\ LineNo(e) \in Nat /\ LineNo(q) \in Nat /\ LineNo(f) \in Nat
          /\ LineNo(g) \in Nat /\ Ch(p) \in Nat /\ Ch(e) \in Nat /\ Ch(q) \in Nat /\ Ch(g) \in Nat
          /\ Size(x) \in Nat
      BY <1>1, <2>1, <2>7, <3>2, SpotIs, TextsAre
    <3>4. AdjustForChange(p, c) =
            Pos(LineNo(p) + Size(x) - (LineNo(e) - LineNo(f)) - 1,
                Ch(p) + IF LineNo(p) = LineNo(e) THEN Ch(g) - Ch(e) ELSE 0)
      BY <1>5, Zenon DEF AdjustForChange, Size, e, f, x, g
    <3>5. Shift(g, q) = Pos(LineNo(g) + LineNo(q), Ch(q) + IF LineNo(q) = 0 THEN Ch(g) ELSE 0)
      BY Zenon DEF Shift
    <3> DEFINE lp == LineNo(p)
               le == LineNo(e)
               lq == LineNo(q)
               lf == LineNo(f)
               lg == LineNo(g)
               cp == Ch(p)
               ce == Ch(e)
               cq == Ch(q)
               cg == Ch(g)
               k == Size(x)
               l1 == lp + k - (le - lf) - 1
               l2 == lg + lq
               c1 == cp + IF lp = le THEN cg - ce ELSE 0
               c2 == cq + IF lq = 0 THEN cg ELSE 0
    <3>10. AdjustForChange(p, c) = Pos(l1, c1) /\ Shift(g, q) = Pos(l2, c2)
      BY <3>4, <3>5, Zenon
    <3>6. lp \in Nat /\ le \in Nat /\ lq \in Nat /\ lf \in Nat /\ lg \in Nat /\ k \in Nat
          /\ cp \in Nat /\ ce \in Nat /\ cq \in Nat /\ cg \in Nat
          /\ lp = le + lq /\ cp = cq + (IF lq = 0 THEN ce ELSE 0) /\ lg = lf + (k - 1)
      BY <3>1, <3>2, <3>3, Zenon
    <3> HIDE DEF lp, le, lq, lf, lg, cp, ce, cq, cg, k
    <3>7. l1 = l2
      BY <3>6
    <3>8. c1 = c2
      BY <3>6
    <3> HIDE DEF l1, l2, c1, c2
    <3> QED
      BY <3>7, <3>8, <3>10, Zenon
  <2> QED
    BY <2>9, <2>10, Zenon DEF n
<1> QED
  BY <1>3, <1>4, <1>5, Zenon DEF f, e

-----------------------------------------------------------------------------
\* A range in a text, and one that is merged from two.
SpanIn(r, t) == r \in Spans /\ InText(t, r.anchor) /\ InText(t, r.head)

LEMMA PickedPos ==
  ASSUME NEW p \in Spots, NEW q \in Spots
  PROVE  /\ MinPos(p, q) \in {p, q} /\ NotAfter(MinPos(p, q), p) /\ NotAfter(MinPos(p, q), q)
         /\ MaxPos(p, q) \in {p, q} /\ NotAfter(p, MaxPos(p, q)) /\ NotAfter(q, MaxPos(p, q))
         /\ NotAfter(MinPos(p, q), MaxPos(p, q))
         /\ NotAfter(p, q) => MinPos(p, q) = p /\ MaxPos(p, q) = q
         /\ NotAfter(q, p) => MinPos(p, q) = q /\ MaxPos(p, q) = p
<1>1. /\ NotAfter(p, q) <=> ~Before(q, p)
      /\ NotAfter(q, p) <=> ~Before(p, q)
      /\ NotAfter(p, p) /\ NotAfter(q, q)
      /\ NotAfter(p, q) <=> (Before(p, q) \/ p = q)
      /\ NotAfter(q, p) <=> (Before(q, p) \/ q = p)
  BY OrderLaws
<1>2. MinPos(p, q) = IF Before(q, p) THEN q ELSE p
  BY Zenon DEF MinPos
<1>3. MaxPos(p, q) = IF Before(p, q) THEN q ELSE p
  BY Zenon DEF MaxPos
<1> QED
  BY <1>1, <1>2, <1>3

LEMMA FieldsOfSpan ==
  ASSUME NEW a, NEW h
  PROVE  /\ Span(a, h).anchor = a /\ Span(a, h).head = h
         /\ a \in Spots /\ h \in Spots => Span(a, h) \in Spans
BY DEF Span, Spans

LEMMA SpanOf ==
  ASSUME NEW t, NEW a, NEW h, InText(t, a), InText(t, h)
  PROVE  SpanIn(Span(a, h), t)
<1>1. a \in Spots /\ h \in Spots
  BY Zenon DEF InText
<1>2. Span(a, h).anchor = a /\ Span(a, h).head = h /\ Span(a, h) \in Spans
  BY <1>1, FieldsOfSpan
<1> QED
  BY <1>2, Zenon DEF SpanIn

LEMMA SpanEnds ==
  ASSUME NEW r, NEW t, SpanIn(r, t)
  PROVE  /\ InText(t, From(r)) /\ InText(t, To(r)) /\ From(r) \in Spots /\ To(r) \in Spots
         /\ NotAfter(From(r), To(r)) /\ r \in Spans
         /\ EmptyRange(r) => From(r) = r.head /\ To(r) = r.head
<1> DEFINE a == r.anchor
           h == r.head
<1>1. InText(t, a) /\ InText(t, h) /\ a \in Spots /\ h \in Spots /\ r \in Spans
  BY Zenon DEF SpanIn, InText
<1>2. From(r) = MinPos(a, h) /\ To(r) = MaxPos(a, h) /\ (EmptyRange(r) <=> a = h)
  BY Zenon DEF From, To, EmptyRange
<1> HIDE DEF a
<1> HIDE DEF h
<1>3. /\ MinPos(a, h) \in {a, h} /\ MaxPos(a, h) \in {a, h} /\ NotAfter(MinPos(a, h), MaxPos(a, h))
  BY <1>1, PickedPos
<1>4. InText(t, MinPos(a, h)) /\ InText(t, MaxPos(a, h))
  BY <1>1, <1>3
<1>5. a = h => MinPos(a, h) = h /\ MaxPos(a, h) = h
  BY <1>3
<1>6. MinPos(a, h) \in Spots /\ MaxPos(a, h) \in Spots
  BY <1>4, Zenon DEF InText
<1> QED
  BY <1>1, <1>2, <1>3, <1>4, <1>5, <1>6, Zenon DEF h

LEMMA SpanFromTo ==
  ASSUME NEW p \in Spots, NEW q \in Spots, NotAfter(p, q)
  PROVE  /\ From(Span(p, q)) = p /\ To(Span(p, q)) = q
         /\ From(Span(q, p)) = p /\ To(Span(q, p)) = q
<1>1. /\ From(Span(p, q)) = MinPos(p, q) /\ To(Span(p, q)) = MaxPos(p, q)
      /\ From(Span(q, p)) = MinPos(q, p) /\ To(Span(q, p)) = MaxPos(q, p)
  BY FieldsOfSpan, Zenon DEF From, To
<1>2. MinPos(p, q) = p /\ MaxPos(p, q) = q /\ MinPos(q, p) = p /\ MaxPos(q, p) = q
  BY PickedPos
<1> QED
  BY <1>1, <1>2, Zenon

LEMMA MergeIs ==
  ASSUME NEW t, NEW r, NEW s, SpanIn(r, t), SpanIn(s, t), NotAfter(From(r), From(s))
  PROVE  SpanIn(Merge(r, s), t) /\ From(Merge(r, s)) = From(r)
<1> DEFINE f == MinPos(From(r), From(s))
           g == MaxPos(To(r), To(s))
           a == From(r)
           b == From(s)
           c == To(r)
           d == To(s)
<1>1. /\ InText(t, a) /\ InText(t, b) /\ InText(t, c) /\ InText(t, d) /\ NotAfter(a, c)
      /\ a \in Spots /\ b \in Spots /\ c \in Spots /\ d \in Spots
  BY SpanEnds
<1>2. Merge(r, s) \in {Span(f, g), Span(g, f)}
  BY DEF Merge
<1>3. f = MinPos(a, b) /\ g = MaxPos(c, d) /\ NotAfter(a, b)
  BY Zenon
<1> HIDE DEF a, b, c, d, f, g
<1>4. f = a
  BY <1>1, <1>3, PickedPos
<1>5. g \in {c, d} /\ NotAfter(c, g)
  BY <1>1, <1>3, PickedPos
<1>6. InText(t, g) /\ g \in Spots
  BY <1>1, <1>5
<1>7. NotAfter(f, g)
  BY <1>1, <1>4, <1>5, <1>6, OrderTrans
<1>8. SpanIn(Span(f, g), t) /\ SpanIn(Span(g, f), t)
  BY <1>1, <1>4, <1>6, SpanOf
<1>9. From(Span(f, g)) = f /\ From(Span(g, f)) = f
  BY <1>1, <1>4, <1>6, <1>7, SpanFromTo
<1>10. SpanIn(Merge(r, s), t) /\ From(Merge(r, s)) = f
  BY <1>2, <1>8, <1>9
<1> QED
  BY <1>4, <1>10, Zenon DEF a

-----------------------------------------------------------------------------
\* Ranges in a text, in any order.
AllIn(ranges, t) == ranges \in Seq(Spans) /\ \A i \in 1..Size(ranges) : SpanIn(ranges[i], t)

LEMMA ApartIs ==
  ASSUME NEW ranges \in Seq(Spans)
  PROVE  Apart(ranges) <=> \A i \in 2..Size(ranges) : Before(To(ranges[i - 1]), From(ranges[i]))
<1>1. DOMAIN ranges = 1..Size(ranges) /\ Size(ranges) \in Nat
  BY SeqSize
<1>2. \A i : i \in 2..Size(ranges) <=> i \in 1..Size(ranges) /\ i > 1
  BY <1>1
<1> QED
  BY <1>1, <1>2, Zenon DEF Apart

LEMMA SelInIs ==
  ASSUME NEW sel, NEW t
  PROVE  SelIn(sel, t) <=> /\ sel \in Sels /\ sel.prim \in 1..Size(sel.ranges)
                           /\ AllIn(sel.ranges, t) /\ Apart(sel.ranges)
<1>1. SUFFICES ASSUME sel \in Sels
               PROVE  SelIn(sel, t) <=> /\ sel \in Sels /\ sel.prim \in 1..Size(sel.ranges)
                                        /\ AllIn(sel.ranges, t) /\ Apart(sel.ranges)
  BY Zenon DEF SelIn
<1>2. sel.ranges \in Seq(Spans)
  BY <1>1 DEF Sels
<1>3. DOMAIN sel.ranges = 1..Size(sel.ranges) /\ \A i \in 1..Size(sel.ranges) : sel.ranges[i] \in Spans
  BY <1>2, SeqSize
<1> QED
  BY <1>1, <1>2, <1>3, Zenon DEF SelIn, AllIn, SpanIn

LEMMA PushRange ==
  ASSUME NEW ranges, NEW t, AllIn(ranges, t), Apart(ranges), NEW r, SpanIn(r, t),
         ranges # <<>> => Before(To(Last(ranges)), From(r))
  PROVE  AllIn(Push(ranges, r), t) /\ Apart(Push(ranges, r))
<1> DEFINE n == Size(ranges)
           p == Push(ranges, r)
<1>1. ranges \in Seq(Spans) /\ r \in Spans /\ \A i \in 1..n : SpanIn(ranges[i], t)
  BY Zenon DEF AllIn, SpanIn
<1>2. p \in Seq(Spans) /\ Size(p) = n + 1 /\ p[n + 1] = r /\ \A i \in 1..n : p[i] = ranges[i]
  BY <1>1, PushIs
<1>3. n \in Nat /\ (n # 0 => ranges # <<>>)
  BY <1>1, SeqSize
<1>4. \A i \in 2..n : Before(To(ranges[i - 1]), From(ranges[i]))
  BY <1>1, ApartIs
<1>5. Last(ranges) = ranges[n]
  BY Zenon DEF Last, Size
<1> HIDE DEF n, p
<1>6. ASSUME NEW i \in 1..n + 1
      PROVE  SpanIn(p[i], t)
  <2>1. CASE i = n + 1
    BY <1>2, <2>1, Zenon
  <2>2. CASE i # n + 1
    <3>1. i \in 1..n
      BY <1>3, <2>2
    <3> QED
      BY <1>1, <1>2, <3>1, Zenon
  <2> QED
    BY <2>1, <2>2
<1>7. ASSUME NEW i \in 2..n + 1
      PROVE  Before(To(p[i - 1]), From(p[i]))
  <2>1. CASE i = n + 1
    <3>1. n # 0 /\ i - 1 = n /\ n \in 1..n
      BY <1>3, <2>1
    <3>2. p[i - 1] = Last(ranges) /\ p[i] = r
      BY <1>2, <1>5, <2>1, <3>1
    <3> QED
      BY <1>3, <3>1, <3>2, Zenon
  <2>2. CASE i # n + 1
    <3>1. i \in 2..n /\ i \in 1..n /\ i - 1 \in 1..n
      BY <1>3, <2>2
    <3>2. p[i - 1] = ranges[i - 1] /\ p[i] = ranges[i]
      BY <1>2, <3>1
    <3> QED
      BY <1>4, <3>1, <3>2
  <2> QED
    BY <2>1, <2>2
<1>8. AllIn(p, t)
  BY <1>2, <1>6, Zenon DEF AllIn
<1>9. Apart(p)
  BY <1>2, <1>7, ApartIs
<1> QED
  BY <1>8, <1>9, Zenon DEF p

LEMMA FrontRanges ==
  ASSUME NEW ranges, NEW t, AllIn(ranges, t), Apart(ranges), ranges # <<>>
  PROVE  /\ AllIn(Front(ranges), t) /\ Apart(Front(ranges)) /\ SpanIn(Last(ranges), t)
         /\ Front(ranges) # <<>> => Before(To(Last(Front(ranges))), From(Last(ranges)))
<1> DEFINE n == Size(ranges)
           p == Front(ranges)
<1>1. ranges \in Seq(Spans) /\ \A i \in 1..n : SpanIn(ranges[i], t)
  BY Zenon DEF AllIn
<1>2. /\ n \in Nat /\ n >= 1 /\ p \in Seq(Spans) /\ Size(p) = n - 1 /\ \A i \in 1..n - 1 : p[i] = ranges[i]
      /\ Last(ranges) = ranges[n]
  BY <1>1, FrontIs
<1>3. \A i \in 2..n : Before(To(ranges[i - 1]), From(ranges[i]))
  BY <1>1, ApartIs
<1>4. Last(p) = p[Size(p)] /\ (p # <<>> => Size(p) # 0)
  <2>1. Last(p) = p[Size(p)]
    BY Zenon DEF Last, Size
  <2> HIDE DEF p
  <2> QED
    BY <1>2, <2>1, SeqSize
<1> HIDE DEF n, p
<1>5. ASSUME NEW i \in 1..n - 1
      PROVE  SpanIn(p[i], t)
  <2>1. i \in 1..n
    BY <1>2
  <2> QED
    BY <1>1, <1>2, <2>1
<1>6. ASSUME NEW i \in 2..n - 1
      PROVE  Before(To(p[i - 1]), From(p[i]))
  <2>1. i \in 2..n /\ i \in 1..n - 1 /\ i - 1 \in 1..n - 1
    BY <1>2
  <2>2. p[i - 1] = ranges[i - 1] /\ p[i] = ranges[i]
    BY <1>2, <2>1
  <2> QED
    BY <1>3, <2>1, <2>2
<1>7. AllIn(p, t)
  BY <1>2, <1>5, Zenon DEF AllIn
<1>8. Apart(p)
  BY <1>2, <1>6, ApartIs
<1>9. SpanIn(Last(ranges), t)
  <2>1. n \in 1..n
    BY <1>2
  <2> QED
    BY <1>1, <1>2, <2>1, Zenon
<1>10. ASSUME p # <<>>
       PROVE  Before(To(Last(p)), From(Last(ranges)))
  <2>1. n - 1 # 0 /\ n \in 2..n /\ n - 1 \in 1..n - 1
    BY <1>2, <1>4, <1>10
  <2>2. Last(p) = ranges[n - 1]
    BY <1>2, <1>4, <2>1
  <2> QED
    BY <1>2, <1>3, <2>1, <2>2
<1> QED
  BY <1>7, <1>8, <1>9, <1>10, Zenon DEF p

-----------------------------------------------------------------------------
\* Sorting: every place is taken by one range, and the froms ascend.
LEMMA SoonerOrders ==
  ASSUME NEW t, NEW ranges, AllIn(ranges, t)
  PROVE  /\ \A i, j \in 1..Size(ranges) : i # j => Sooner(ranges, i, j) \/ Sooner(ranges, j, i)
         /\ \A i \in 1..Size(ranges) : ~Sooner(ranges, i, i)
         /\ \A i, j, k \in 1..Size(ranges) :
              Sooner(ranges, i, j) /\ Sooner(ranges, j, k) => Sooner(ranges, i, k)
         /\ \A i, j \in 1..Size(ranges) :
              Sooner(ranges, i, j) => NotAfter(From(ranges[i]), From(ranges[j]))
<1> DEFINE n == Size(ranges)
           f(i) == From(ranges[i])
           so(i, j) == Sooner(ranges, i, j)
<1>1. n \in Nat /\ \A i \in 1..n : f(i) \in Spots
  <2>1. ranges \in Seq(Spans)
    BY Zenon DEF AllIn
  <2>2. n \in Nat
    BY <2>1, SeqSize
  <2>3. \A i \in 1..n : f(i) \in Spots
    <3> TAKE i \in 1..n
    <3>1. SpanIn(ranges[i], t)
      BY Zenon DEF AllIn
    <3> QED
      BY <3>1, SpanEnds
  <2> QED
    BY <2>2, <2>3
<1>2. \A i, j : so(i, j) <=> Before(f(i), f(j)) \/ (f(i) = f(j) /\ i < j)
  BY Zenon DEF Sooner
<1> HIDE DEF n, f, so
<1>3. ASSUME NEW i \in 1..n, NEW j \in 1..n
      PROVE  /\ i # j => so(i, j) \/ so(j, i)
             /\ so(i, j) => NotAfter(f(i), f(j))
  <2>1. f(i) \in Spots /\ f(j) \in Spots /\ i \in Int /\ j \in Int
    BY <1>1
  <2>2. /\ NotAfter(f(i), f(j)) <=> (Before(f(i), f(j)) \/ f(i) = f(j))
        /\ NotAfter(f(i), f(j)) <=> ~Before(f(j), f(i))
    BY <2>1, OrderLaws
  <2> QED
    BY <1>2, <2>1, <2>2
<1>4. ASSUME NEW i \in 1..n
      PROVE  ~so(i, i)
  <2>1. f(i) \in Spots /\ i \in Int
    BY <1>1
  <2>2. NotAfter(f(i), f(i)) /\ ~(NotAfter(f(i), f(i)) /\ Before(f(i), f(i)))
    BY <2>1, OrderLaws
  <2> QED
    BY <1>2, <2>1, <2>2
<1>5. ASSUME NEW i \in 1..n, NEW j \in 1..n, NEW k \in 1..n, so(i, j), so(j, k)
      PROVE  so(i, k)
  <2>1. f(i) \in Spots /\ f(j) \in Spots /\ f(k) \in Spots /\ i \in Int /\ j \in Int /\ k \in Int
    BY <1>1
  <2>2. NotAfter(f(i), f(j)) /\ NotAfter(f(j), f(k))
    BY <1>3, <1>5
  <2>3. Before(f(i), f(j)) \/ Before(f(j), f(k)) => Before(f(i), f(k))
    BY <2>1, <2>2, OrderTrans
  <2>4. Before(f(i), f(j)) \/ (f(i) = f(j) /\ i < j)
    BY <1>2, <1>5
  <2>5. Before(f(j), f(k)) \/ (f(j) = f(k) /\ j < k)
    BY <1>2, <1>5
  <2> QED
    BY <1>2, <2>1, <2>3, <2>4, <2>5
<1> QED
  BY <1>3, <1>4, <1>5, Zenon DEF n, f, so

LEMMA Sorted ==
  ASSUME NEW t, NEW ranges, AllIn(ranges, t)
  PROVE  /\ \A k \in 1..Size(ranges) : InOrder(ranges, k) \in 1..Size(ranges)
         /\ \A i \in 1..Size(ranges) : \E k \in 1..Size(ranges) : InOrder(ranges, k) = i
         /\ \A k \in 2..Size(ranges) :
              NotAfter(From(ranges[InOrder(ranges, k - 1)]), From(ranges[InOrder(ranges, k)]))
<1> DEFINE n == Size(ranges)
           S == 1..n
           so(i, j) == Sooner(ranges, i, j)
           below(i) == {j \in S : so(j, i)}
           rank(i) == Cardinality(below(i))
<1>1. n \in Nat /\ DOMAIN ranges = S
  BY SeqSize DEF AllIn
<1>2. /\ \A i, j \in S : i # j => so(i, j) \/ so(j, i)
      /\ \A i \in S : ~so(i, i)
      /\ \A i, j, k \in S : so(i, j) /\ so(j, k) => so(i, k)
      /\ \A i, j \in S : so(i, j) => NotAfter(From(ranges[i]), From(ranges[j]))
  BY SoonerOrders
<1>3. \A k : InOrder(ranges, k) = CHOOSE i \in S : rank(i) = k - 1
  BY <1>1, Zenon DEF InOrder
<1>4. IsFiniteSet(S) /\ Cardinality(S) = n
  <2> HIDE DEF n
  <2> QED
    BY <1>1, FS_Interval
<1>5. \A i : IsFiniteSet(below(i)) /\ rank(i) \in Nat
  <2> HIDE DEF S, so
  <2> QED
    BY <1>4, FS_Subset, FS_CardinalityType
<1> HIDE DEF n, so
<1>6. ASSUME NEW i \in S
      PROVE  rank(i) \in 0..n - 1
  <2>1. below(i) \subseteq S \ {i}
    BY <1>2
  <2>2. IsFiniteSet(S \ {i}) /\ Cardinality(S \ {i}) = n - 1
    <3> HIDE DEF S
    <3> QED
      BY <1>4, FS_RemoveElement
  <2>3. rank(i) <= n - 1
    <3> HIDE DEF below, S
    <3> QED
      BY <2>1, <2>2, FS_Subset
  <2> HIDE DEF below, S
  <2> QED
    BY <1>1, <1>5, <2>3
<1>7. ASSUME NEW i \in S, NEW k \in S, so(i, k)
      PROVE  rank(i) < rank(k)
  <2>1. i \in below(k) /\ below(i) \subseteq below(k) \ {i}
    BY <1>2, <1>7
  <2> HIDE DEF below, S
  <2>2. IsFiniteSet(below(k) \ {i}) /\ Cardinality(below(k) \ {i}) = Cardinality(below(k)) - 1
    BY <1>5, <2>1, FS_RemoveElement
  <2>3. Cardinality(below(i)) <= Cardinality(below(k) \ {i})
    BY <2>1, <2>2, FS_Subset
  <2> QED
    BY <1>5, <2>2, <2>3
<1> HIDE DEF below
<1>8. ASSUME NEW k \in S
      PROVE  \E i \in S : rank(i) = k - 1
  <2> DEFINE T == (0..n - 1) \ {k - 1}
             f == [i \in S |-> rank(i)]
  <2> SUFFICES ASSUME \A i \in S : rank(i) # k - 1 PROVE FALSE
    OBVIOUS
  <2>1. f \in [S -> T]
    <3> HIDE DEF rank
    <3> QED
      BY <1>6
  <2>2. IsFiniteSet(T) /\ Cardinality(T) = n - 1
    <3> DEFINE V == 0..n - 1
    <3>1. n - 1 \in Int /\ 0 \in Int /\ n >= 1 /\ k - 1 \in V
      BY <1>1
    <3>2. IsFiniteSet(V) /\ Cardinality(V) = IF 0 > n - 1 THEN 0 ELSE n - 1 - 0 + 1
      BY <3>1, FS_Interval
    <3>3. Cardinality(V) = n
      BY <1>1, <3>1, <3>2
    <3> HIDE DEF V
    <3>4. IsFiniteSet(V \ {k - 1}) /\ Cardinality(V \ {k - 1}) = Cardinality(V) - 1
      BY <3>1, <3>2, FS_RemoveElement
    <3> QED
      BY <3>3, <3>4 DEF V
  <2>3. PICK i, j \in S : i # j /\ f[i] = f[j]
    <3>1. Cardinality(T) < Cardinality(S)
      BY <1>1, <1>4, <2>2
    <3> HIDE DEF T, f, S
    <3> QED
      BY <1>4, <2>1, <2>2, <3>1, FS_PigeonHole, Zenon
  <2>4. rank(i) = rank(j) /\ rank(i) \in Nat /\ rank(j) \in Nat
    BY <1>5, <2>3
  <2>5. so(i, j) \/ so(j, i)
    BY <1>2, <2>3
  <2> HIDE DEF rank
  <2> QED
    BY <1>7, <2>4, <2>5
<1> DEFINE o(k) == InOrder(ranges, k)
<1>9. ASSUME NEW k \in S
      PROVE  o(k) \in S /\ rank(o(k)) = k - 1
  <2>1. o(k) = CHOOSE i \in S : rank(i) = k - 1
    BY <1>3, Zenon
  <2> HIDE DEF rank, o
  <2> QED
    BY <1>8, <2>1, Zenon
<1> HIDE DEF o
<1>10. ASSUME NEW i \in S
       PROVE  \E k \in S : o(k) = i
  <2> DEFINE k == rank(i) + 1
  <2>1. k \in S /\ k - 1 = rank(i)
    <3> HIDE DEF rank
    <3> QED
      BY <1>1, <1>6
  <2>2. o(k) \in S /\ rank(o(k)) = rank(i)
    BY <1>9, <2>1
  <2>3. o(k) = i
    <3> SUFFICES ASSUME o(k) # i PROVE FALSE
      OBVIOUS
    <3>1. so(o(k), i) \/ so(i, o(k))
      BY <1>2, <2>2
    <3>2. rank(o(k)) \in Nat /\ rank(i) \in Nat
      BY <1>5
    <3> HIDE DEF rank, k
    <3> QED
      BY <1>7, <2>2, <3>1, <3>2
  <2> HIDE DEF k
  <2> QED
    BY <2>1, <2>3
<1>11. ASSUME NEW k \in 2..n
       PROVE  NotAfter(From(ranges[o(k - 1)]), From(ranges[o(k)]))
  <2>1. k \in S /\ k - 1 \in S
    BY <1>1
  <2>2. o(k) \in S /\ o(k - 1) \in S /\ rank(o(k)) = k - 1 /\ rank(o(k - 1)) = k - 1 - 1
    BY <1>9, <2>1
  <2>3. o(k) # o(k - 1) /\ ~so(o(k), o(k - 1))
    <3> HIDE DEF rank, S
    <3>1. k \in Int
      OBVIOUS
    <3>2. rank(o(k)) # rank(o(k - 1)) /\ ~(rank(o(k)) < rank(o(k - 1)))
      BY <2>2, <3>1
    <3> QED
      BY <1>7, <2>2, <3>2
  <2> QED
    BY <1>2, <2>2, <2>3
<1> QED
  BY <1>9, <1>10, <1>11, Zenon DEF o, n

\* A selection on the way to being normalized.
Half(sel, t) ==
  sel \in Sels /\ sel.prim <= Size(sel.ranges) /\ AllIn(sel.ranges, t) /\ Apart(sel.ranges)

LEMMA FieldsOfSelection ==
  ASSUME NEW ranges, NEW prim
  PROVE  /\ Selection(ranges, prim).ranges = ranges /\ Selection(ranges, prim).prim = prim
         /\ ranges \in Seq(Spans) /\ prim \in Nat => Selection(ranges, prim) \in Sels
BY DEF Selection, Sels

LEMMA HalfOf ==
  ASSUME NEW t, NEW ranges, AllIn(ranges, t), Apart(ranges), NEW prim \in Nat, prim <= Size(ranges)
  PROVE  Half(Selection(ranges, prim), t)
<1>1. ranges \in Seq(Spans)
  BY Zenon DEF AllIn
<1>2. /\ Selection(ranges, prim).ranges = ranges /\ Selection(ranges, prim).prim = prim
      /\ Selection(ranges, prim) \in Sels
  BY <1>1, FieldsOfSelection
<1> QED
  BY <1>2, Zenon DEF Half

LEMMA PushNotEmpty ==
  ASSUME NEW ranges \in Seq(Spans), NEW r \in Spans
  PROVE  /\ Push(ranges, r) # <<>> /\ Last(Push(ranges, r)) = r
         /\ Size(Push(ranges, r)) = Size(ranges) + 1
<1>1. Size(ranges) \in Nat /\ Push(ranges, r) \in Seq(Spans)
  BY SeqSize, PushIs
<1>2. Size(Push(ranges, r)) = Size(ranges) + 1 /\ Push(ranges, r)[Size(ranges) + 1] = r
  BY PushIs
<1>3. Push(ranges, r) # <<>>
  <2>1. Size(Push(ranges, r)) # 0
    BY <1>1, <1>2
  <2> QED
    BY <1>1, <2>1, SeqSize
<1>4. Last(Push(ranges, r)) = Push(ranges, r)[Size(Push(ranges, r))]
  BY Zenon DEF Last, Size
<1> QED
  BY <1>2, <1>3, <1>4, Zenon

LEMMA AddRangeIs ==
  ASSUME NEW t, NEW acc, Half(acc, t), NEW cur, SpanIn(cur, t), NEW isPrimary \in BOOLEAN,
         acc.ranges # <<>> => NotAfter(From(Last(acc.ranges)), From(cur)),
         NEW new, new = AddRange(acc, cur, isPrimary)
  PROVE  /\ Half(new, t) /\ new.ranges # <<>> /\ NotAfter(From(Last(new.ranges)), From(cur))
         /\ isPrimary \/ acc.prim >= 1 => new.prim >= 1
<1> DEFINE r == acc.ranges
           p == acc.prim
           n == Size(r)
<1>1. /\ acc \in Sels /\ p <= n /\ AllIn(r, t) /\ Apart(r)
  BY Zenon DEF Half
<1>2. r \in Seq(Spans) /\ p \in Nat /\ (r = <<>> => n = 0)
  <2>1. r \in Seq(Spans) /\ p \in Nat
    BY <1>1 DEF Sels
  <2> HIDE DEF r, p
  <2> QED
    BY <2>1, SeqSize
<1>3. n \in Nat
  <2> HIDE DEF r
  <2> QED
    BY <1>2, SeqSize
<1>4. From(cur) \in Spots /\ NotAfter(From(cur), From(cur)) /\ cur \in Spans
  BY SpanEnds, OrderLaws
<1>5. CASE r # <<>> /\ NotAfter(From(cur), To(Last(r)))
  <2> DEFINE f == Front(r)
             l == Last(r)
             m == Merge(l, cur)
             q == IF isPrimary THEN n ELSE p
             k == Push(f, m)
  <2>1. new = Selection(k, q)
    BY <1>5, Zenon DEF AddRange, Push, Size
  <2>2. /\ AllIn(f, t) /\ Apart(f) /\ SpanIn(l, t) /\ (f # <<>> => Before(To(Last(f)), From(l)))
        /\ f \in Seq(Spans) /\ Size(f) = n - 1
    <3> HIDE DEF r
    <3> QED
      BY <1>1, <1>2, <1>5, FrontRanges, FrontIs
  <2>3. NotAfter(From(l), From(cur))
    BY <1>5
  <2> HIDE DEF f, l, m, k, r, n, p
  <2>4. SpanIn(m, t) /\ From(m) = From(l) /\ m \in Spans
    BY <2>2, <2>3, MergeIs, SpanEnds DEF m
  <2>5. AllIn(k, t) /\ Apart(k)
    BY <2>2, <2>4, PushRange DEF k
  <2>6. k # <<>> /\ Last(k) = m /\ Size(k) = n
    BY <1>3, <2>2, <2>4, PushNotEmpty DEF k
  <2>7. q \in Nat /\ q <= n /\ (isPrimary \/ p >= 1 => q >= 1)
    <3>1. n >= 1
      BY <1>2, <1>3, <1>5, SeqSize DEF n
    <3> QED
      BY <1>1, <1>2, <1>3, <3>1
  <2> HIDE DEF q
  <2>8. Half(new, t)
    BY <2>1, <2>5, <2>6, <2>7, HalfOf
  <2>9. new.ranges = k /\ new.prim = q
    BY <2>1, FieldsOfSelection
  <2> QED
    BY <2>3, <2>4, <2>6, <2>7, <2>8, <2>9, Zenon DEF p
<1>6. CASE ~(r # <<>> /\ NotAfter(From(cur), To(Last(r))))
  <2> DEFINE q == IF isPrimary THEN n + 1 ELSE p
             k == Push(r, cur)
  <2>1. new = Selection(k, q)
    BY <1>6, Zenon DEF AddRange, Push, Size
  <2> HIDE DEF k, r, n, p
  <2>2. ASSUME r # <<>>
        PROVE  Before(To(Last(r)), From(cur))
    <3>1. SpanIn(Last(r), t)
      BY <1>1, <2>2, FrontRanges
    <3>2. To(Last(r)) \in Spots
      BY <3>1, SpanEnds
    <3> QED
      BY <1>4, <1>6, <2>2, <3>2, OrderLaws
  <2>3. AllIn(k, t) /\ Apart(k)
    BY <1>1, <2>2, PushRange DEF k
  <2>4. k # <<>> /\ Last(k) = cur /\ Size(k) = n + 1
    BY <1>2, <1>4, PushNotEmpty DEF k, n
  <2>5. q \in Nat /\ q <= n + 1 /\ (isPrimary \/ p >= 1 => q >= 1)
    BY <1>1, <1>2, <1>3
  <2> HIDE DEF q
  <2>6. Half(new, t)
    BY <2>1, <2>3, <2>4, <2>5, HalfOf
  <2>7. new.ranges = k /\ new.prim = q
    BY <2>1, FieldsOfSelection
  <2> QED
    BY <1>4, <2>4, <2>5, <2>6, <2>7, Zenon DEF p
<1> QED
  BY <1>5, <1>6

\* normalizeSelection: whatever ranges of a text it gets, those of the selection it makes are in
\* the text, sorted and apart, and one of them is the primary one.
THEOREM RangesEndApart ==
  ASSUME NEW t, NEW ranges, AllIn(ranges, t), NEW primary \in 1..Size(ranges)
  PROVE  SelIn(NormalizeSelection(ranges, primary), t)
<1> DEFINE n == Size(ranges)
           o == [k \in DOMAIN ranges |-> InOrder(ranges, k)]
           b == Selection(<<>>, 0)
           all == AllAdded(o, b, ranges, primary)
<1>1. n \in Nat /\ DOMAIN ranges = 1..n /\ \A i \in 1..n : SpanIn(ranges[i], t)
  BY SeqSize DEF AllIn
<1>2. DOMAIN o = 1..n /\ \A k \in 1..n : o[k] = InOrder(ranges, k)
  BY <1>1
<1>3. all = NormalizeSelection(ranges, primary)
  BY Zenon DEF NormalizeSelection, AllAdded
<1>4. /\ \A k \in 1..n : o[k] \in 1..n
      /\ \E k \in 1..n : o[k] = primary
      /\ \A k \in 2..n : NotAfter(From(ranges[o[k - 1]]), From(ranges[o[k]]))
  <2>1. /\ \A k \in 1..n : InOrder(ranges, k) \in 1..n
        /\ \E k \in 1..n : InOrder(ranges, k) = primary
        /\ \A k \in 2..n : NotAfter(From(ranges[InOrder(ranges, k - 1)]), From(ranges[InOrder(ranges, k)]))
    BY Sorted
  <2>2. \A k \in 2..n : k \in 1..n /\ k - 1 \in 1..n
    BY <1>1
  <2> HIDE DEF o, n
  <2> QED
    BY <1>2, <2>1, <2>2, Zenon
<1>5. Half(b, t) /\ b.ranges = <<>>
  <2>1. <<>> \in Seq(Spans) /\ 0 \in Nat /\ Size(<<>>) = 0 /\ 0 <= Size(<<>>)
    BY DEF Size
  <2>2. AllIn(<<>>, t)
    <3>1. 1..Size(<<>>) = {}
      BY <2>1
    <3> QED
      BY <2>1, <3>1, Zenon DEF AllIn
  <2>3. Apart(<<>>)
    <3>1. 2..Size(<<>>) = {}
      BY <2>1
    <3> QED
      BY <2>1, <3>1, ApartIs
  <2> QED
    BY <2>1, <2>2, <2>3, HalfOf, FieldsOfSelection
<1> HIDE DEF n, o, b, all
<1>6. PICK tr : /\ tr[0] = b /\ tr[n] = all
                /\ \A i \in 1..n : tr[i] = AddRange(tr[i - 1], ranges[o[i]], o[i] = primary)
  <2>1. AddTrace(o, n, b, ranges, primary)
    BY <1>1, <1>2, AddFold
  <2> QED
    BY <2>1, Zenon DEF AddTrace, all
<1> DEFINE Good(i) == /\ Half(tr[i], t)
                      /\ tr[i].ranges # <<>> => i >= 1 /\ NotAfter(From(Last(tr[i].ranges)), From(ranges[o[i]]))
                      /\ i >= 1 => tr[i].ranges # <<>>
                      /\ (\E k \in 1..i : o[k] = primary) => tr[i].prim >= 1
           U == {i \in 0..n : Good(i)}
<1>7. 0 \in U
  <2>1. 1..0 = {} /\ ~(0 >= 1) /\ 0 \in 0..n
    BY <1>1
  <2>2. Good(0)
    BY <1>5, <1>6, <2>1, Zenon
  <2> HIDE DEF Good
  <2> QED
    BY <2>1, <2>2
<1>8. ASSUME NEW i \in 1..n, i - 1 \in U
      PROVE  i \in U
  <2> DEFINE acc == tr[i - 1]
             cur == ranges[o[i]]
             new == tr[i]
             isP == o[i] = primary
  <2>1. Half(acc, t) /\ i \in 0..n /\ i >= 1
    BY <1>8
  <2>2. SpanIn(cur, t)
    BY <1>1, <1>4
  <2>3. new = AddRange(acc, cur, isP)
    BY <1>6, Zenon
  <2>4. ASSUME acc.ranges # <<>>
        PROVE  NotAfter(From(Last(acc.ranges)), From(cur))
    <3> DEFINE pre == ranges[o[i - 1]]
    <3>1. i - 1 >= 1 /\ NotAfter(From(Last(acc.ranges)), From(pre))
      BY <1>8, <2>4, Zenon
    <3>2. i \in 2..n /\ i - 1 \in 1..n
      BY <1>1, <3>1
    <3>3. NotAfter(From(pre), From(cur))
      BY <1>4, <3>2
    <3>4. SpanIn(pre, t) /\ AllIn(acc.ranges, t) /\ Apart(acc.ranges)
      BY <1>1, <1>4, <2>1, <3>2 DEF Half
    <3> HIDE DEF acc, cur, pre
    <3>5. SpanIn(Last(acc.ranges), t)
      BY <2>4, <3>4, FrontRanges
    <3>6. From(Last(acc.ranges)) \in Spots /\ From(pre) \in Spots /\ From(cur) \in Spots
      BY <2>2, <3>4, <3>5, SpanEnds
    <3> QED
      BY <3>1, <3>3, <3>6, OrderTrans
  <2>5. ASSUME \E k \in 1..i : o[k] = primary
        PROVE  isP \/ acc.prim >= 1
    <3>1. PICK k \in 1..i : o[k] = primary
      BY <2>5
    <3>2. CASE k = i
      BY <3>1, <3>2, Zenon
    <3>3. CASE k # i
      <4>1. k \in 1..i - 1
        BY <3>3
      <4>2. acc.prim >= 1
        BY <1>8, <3>1, <4>1, Zenon
      <4> QED
        BY <4>2, Zenon
    <3> QED
      BY <3>2, <3>3
  <2>6. isP \in BOOLEAN
    OBVIOUS
  <2> HIDE DEF acc, cur, new, isP
  <2>7. /\ Half(new, t) /\ new.ranges # <<>> /\ NotAfter(From(Last(new.ranges)), From(cur))
        /\ isP \/ acc.prim >= 1 => new.prim >= 1
    BY <2>1, <2>2, <2>3, <2>4, <2>6, AddRangeIs
  <2>8. Good(i)
    BY <2>1, <2>5, <2>7, Zenon DEF cur, new
  <2> HIDE DEF Good
  <2> QED
    BY <2>1, <2>8
<1>9. n \in U
  <2> HIDE DEF U
  <2>1. \A i \in 0..n : i \in U
    BY <1>1, <1>7, <1>8, UpInduction
  <2> QED
    BY <1>1, <2>1
<1>10. Half(all, t) /\ all.prim >= 1
  BY <1>4, <1>6, <1>9, Zenon
<1>11. all \in Sels /\ all.prim \in 1..Size(all.ranges) /\ AllIn(all.ranges, t) /\ Apart(all.ranges)
  <2>1. all \in Sels /\ all.prim <= Size(all.ranges) /\ AllIn(all.ranges, t) /\ Apart(all.ranges)
    BY <1>10 DEF Half
  <2>2. all.prim \in Nat /\ Size(all.ranges) \in Nat
    <3>1. all.prim \in Nat /\ all.ranges \in Seq(Spans)
      BY <2>1 DEF Sels
    <3> QED
      BY <3>1, SeqSize
  <2> QED
    BY <1>10, <2>1, <2>2
<1> QED
  BY <1>3, <1>11, SelInIs

\* A selection after a change is one of the text after it.
LEMMA SelAfterIs ==
  ASSUME NEW t \in Texts, NEW c, Fits(t, c), NEW sel, SelIn(sel, t)
  PROVE  SelIn(SelAfterChange(sel, c), Changed(t, c))
<1> DEFINE r == sel.ranges
           n == Size(r)
           m == [i \in DOMAIN sel.ranges |-> Span(AdjustForChange(sel.ranges[i].anchor, c),
                                                  AdjustForChange(sel.ranges[i].head, c))]
           u == Changed(t, c)
<1>1. sel.prim \in 1..n /\ AllIn(r, t)
  BY SelInIs
<1>2. n \in Nat /\ DOMAIN r = 1..n /\ \A i \in 1..n : SpanIn(r[i], t)
  <2>1. r \in Seq(Spans) /\ \A i \in 1..n : SpanIn(r[i], t)
    BY <1>1, Zenon DEF AllIn
  <2> HIDE DEF r
  <2> QED
    BY <2>1, SeqSize
<1>3. SelAfterChange(sel, c) = NormalizeSelection(m, sel.prim)
  BY Zenon DEF SelAfterChange
<1>4. ASSUME NEW i \in 1..n
      PROVE  SpanIn(m[i], u)
  <2> DEFINE a == sel.ranges[i].anchor
             h == sel.ranges[i].head
  <2>1. InText(t, a) /\ InText(t, h)
    BY <1>2, Zenon DEF SpanIn
  <2>2. m[i] = Span(AdjustForChange(a, c), AdjustForChange(h, c))
    BY <1>2
  <2> HIDE DEF a, h, m
  <2>3. InText(u, AdjustForChange(a, c)) /\ InText(u, AdjustForChange(h, c))
    BY <2>1, Adjusted
  <2> QED
    BY <2>2, <2>3, SpanOf
<1>5. AllIn(m, u) /\ Size(m) = n
  <2>1. m \in [1..n -> Spans]
    <3>1. \A i \in 1..n : m[i] \in Spans
      BY <1>4, Zenon DEF SpanIn
    <3>2. m = [i \in 1..n |-> m[i]]
      BY <1>2, Zenon
    <3> HIDE DEF m, n
    <3> QED
      BY <3>1, <3>2
  <2> HIDE DEF m, n
  <2>2. m \in Seq(Spans) /\ Len(m) = n
    BY <1>2, <2>1
  <2> QED
    BY <1>4, <2>2, Zenon DEF AllIn, Size
<1> HIDE DEF m
<1>6. SelIn(NormalizeSelection(m, sel.prim), u)
  BY <1>1, <1>5, RangesEndApart
<1> QED
  BY <1>3, <1>6, Zenon

-----------------------------------------------------------------------------
\* A list of events that leads from the text t back to the text s, in which every change
\* event has a selection below it.
Below(E) == \A i \in 1..Size(E) : IsSel(E[i]) \/ (i > 1 /\ IsSel(E[i - 1]))
Track(names, E, s, t) == E \in Seq(Events) /\ Path(EventSteps(names), E, s, t) /\ Below(E)
HasBurst(E) == \E i \in 1..Size(E) : ~IsSel(E[i])

LEMMA ConcatOne ==
  ASSUME NEW X, NEW E \in Seq(X), NEW x \in X
  PROVE  E \o <<x>> = Push(E, x)
BY DEF Push

LEMMA TopOf ==
  ASSUME NEW E \in Seq(Events)
  PROVE  /\ HasSelOnTop(E) <=> E # <<>> /\ IsSel(Last(E))
         /\ E # <<>> => Top(E) = Last(E) /\ Last(E) = E[Size(E)] /\ Last(E) \in Events
<1>1. HasSelOnTop(E) <=> E # <<>> /\ IsSel(Last(E))
  BY Zenon DEF HasSelOnTop, Top
<1>2. ASSUME E # <<>>
      PROVE  Top(E) = Last(E) /\ Last(E) = E[Size(E)] /\ Last(E) \in Events
  <2>1. Last(E) = E[Size(E)] /\ Last(E) \in Events
    BY <1>2, FrontIs
  <2> QED
    BY <2>1, Zenon DEF Top
<1> QED
  BY <1>1, <1>2

LEMMA PushedIs ==
  ASSUME NEW E \in Seq(Events), NEW x \in Events
  PROVE  /\ Push(E, x) \in Seq(Events) /\ Push(E, x) # <<>> /\ Last(Push(E, x)) = x
         /\ Size(Push(E, x)) = Size(E) + 1
         /\ \A i \in 1..Size(E) : Push(E, x)[i] = E[i]
         /\ HasSelOnTop(Push(E, x)) <=> IsSel(x)
         /\ HasBurst(E) \/ ~IsSel(x) => HasBurst(Push(E, x))
<1> DEFINE p == Push(E, x)
           n == Size(E)
<1>1. p \in Seq(Events) /\ Size(p) = n + 1 /\ p[n + 1] = x /\ n \in Nat
      /\ \A i \in 1..n : p[i] = E[i]
  BY PushIs, SeqSize
<1> HIDE DEF p
<1>2. p # <<>>
  <2>1. Size(p) # 0
    BY <1>1
  <2> QED
    BY <1>1, <2>1, SeqSize
<1>3. Last(p) = x
  BY <1>1, <1>2, FrontIs
<1>4. HasSelOnTop(p) <=> IsSel(x)
  BY <1>1, <1>2, <1>3, TopOf
<1>5. ASSUME HasBurst(E)
      PROVE  HasBurst(p)
  <2>1. PICK i \in 1..n : ~IsSel(E[i])
    BY <1>5, Zenon DEF HasBurst
  <2>2. i \in 1..Size(p) /\ p[i] = E[i]
    BY <1>1
  <2> QED
    BY <2>1, <2>2, Zenon DEF HasBurst
<1>6. ASSUME ~IsSel(x)
      PROVE  HasBurst(p)
  <2>1. n + 1 \in 1..Size(p)
    BY <1>1
  <2> QED
    BY <1>1, <1>6, <2>1, Zenon DEF HasBurst
<1> QED
  BY <1>1, <1>2, <1>3, <1>4, <1>5, <1>6, Zenon DEF p

LEMMA TrackPush ==
  ASSUME NEW names, NEW E, NEW s, NEW u, Track(names, E, s, u), NEW x, NEW t \in Texts,
         <<x, u, t>> \in EventSteps(names), IsSel(x) \/ HasSelOnTop(E)
  PROVE  Track(names, Push(E, x), s, t)
<1> DEFINE n == Size(E)
           p == Push(E, x)
<1>1. E \in Seq(Events) /\ Path(EventSteps(names), E, s, u) /\ Below(E) /\ x \in Events
  BY EventStepIs DEF Track
<1>2. p \in Seq(Events) /\ Size(p) = n + 1 /\ p[n + 1] = x /\ n \in Nat
      /\ \A i \in 1..n : p[i] = E[i]
  BY <1>1, PushIs, SeqSize
<1>3. Path(EventSteps(names), p, s, t)
  BY <1>1, PathAppend DEF Push
<1>4. HasSelOnTop(E) => n >= 1 /\ IsSel(E[n])
  BY <1>1, TopOf, FrontIs
<1>5. \A i \in 1..n : IsSel(E[i]) \/ (i > 1 /\ IsSel(E[i - 1]))
  BY <1>1, Zenon DEF Below
<1> HIDE DEF n, p
<1>6. ASSUME NEW i \in 1..n + 1
      PROVE  IsSel(p[i]) \/ (i > 1 /\ IsSel(p[i - 1]))
  <2>1. CASE i = n + 1
    <3>1. CASE IsSel(x)
      BY <1>2, <2>1, <3>1, Zenon
    <3>2. CASE HasSelOnTop(E)
      <4>1. n \in 1..n /\ i > 1 /\ i - 1 = n
        BY <1>2, <1>4, <2>1, <3>2
      <4> QED
        BY <1>2, <1>4, <3>2, <4>1, Zenon
    <3> QED
      BY <3>1, <3>2
  <2>2. CASE i # n + 1
    <3>1. i \in 1..n /\ (i > 1 => i - 1 \in 1..n)
      BY <1>2, <2>2
    <3> QED
      BY <1>2, <1>5, <3>1, Zenon
  <2> QED
    BY <2>1, <2>2
<1> QED
  BY <1>2, <1>3, <1>6, Zenon DEF Track, Below, p

LEMMA TrackFront ==
  ASSUME NEW names, NEW E, NEW s, NEW t, Track(names, E, s, t), E # <<>>
  PROVE  /\ \E u \in Texts : Track(names, Front(E), s, u) /\ <<Last(E), u, t>> \in EventSteps(names)
         /\ IsSel(Last(E)) \/ HasSelOnTop(Front(E))
<1> DEFINE n == Size(E)
           p == Front(E)
<1>1. E \in Seq(Events) /\ Path(EventSteps(names), E, s, t)
      /\ \A i \in 1..n : IsSel(E[i]) \/ (i > 1 /\ IsSel(E[i - 1]))
  BY Zenon DEF Track, Below
<1>2. /\ n \in Nat /\ n >= 1 /\ p \in Seq(Events) /\ Size(p) = n - 1 /\ \A i \in 1..n - 1 : p[i] = E[i]
      /\ Last(E) = E[n]
  BY <1>1, FrontIs
<1>3. PICK u \in Texts : Path(EventSteps(names), p, s, u) /\ <<Last(E), u, t>> \in EventSteps(names)
  BY <1>1, PathFront, Zenon
<1> HIDE DEF n, p
<1>4. ASSUME NEW i \in 1..n - 1
      PROVE  IsSel(p[i]) \/ (i > 1 /\ IsSel(p[i - 1]))
  <2>1. i \in 1..n /\ (i > 1 => i - 1 \in 1..n - 1)
    BY <1>2
  <2> QED
    BY <1>1, <1>2, <2>1, Zenon
<1>5. Track(names, p, s, u)
  BY <1>2, <1>3, <1>4, Zenon DEF Track, Below
<1>6. ASSUME ~IsSel(Last(E))
      PROVE  HasSelOnTop(p)
  <2>1. n \in 1..n /\ (n > 1 => n - 1 \in 1..n - 1 /\ n - 1 # 0)
    BY <1>2
  <2>2. n > 1 /\ IsSel(E[n - 1])
    BY <1>1, <1>2, <1>6, <2>1, Zenon
  <2>3. p # <<>> /\ IsSel(p[Size(p)])
    <3>1. Size(p) # 0 /\ p[n - 1] = E[n - 1]
      BY <1>2, <2>1, <2>2
    <3> QED
      BY <1>2, <2>2, <3>1, SeqSize
  <2>4. Last(p) = p[Size(p)]
    BY <1>2, <2>3, FrontIs
  <2> QED
    BY <1>2, <2>3, <2>4, TopOf
<1> QED
  BY <1>3, <1>5, <1>6, Zenon DEF p

LEMMA SelStep ==
  ASSUME NEW names, NEW e \in Events, IsSel(e), NEW u, NEW v, <<e, u, v>> \in EventSteps(names)
  PROVE  u = v /\ SelIn(e, v)
BY SelOrBurst, EventStepIs

\* Leaving out the selections on top.
LEMMA TrackPrefix ==
  ASSUME NEW names, NEW E, NEW s, NEW t, Track(names, E, s, t), NEW k \in 0..Size(E),
         \A i \in k + 1..Size(E) : IsSel(E[i])
  PROVE  /\ Track(names, SubSeq(E, 1, k), s, t)
         /\ \A i \in k + 1..Size(E) : SelIn(E[i], t)
<1> DEFINE n == Size(E)
           p == SubSeq(E, 1, k)
<1>1. E \in Seq(Events) /\ Path(EventSteps(names), E, s, t)
      /\ \A i \in 1..n : IsSel(E[i]) \/ (i > 1 /\ IsSel(E[i - 1]))
  BY Zenon DEF Track, Below
<1>2. n \in Nat /\ \A i \in 1..n : E[i] \in Events
  BY <1>1, SeqSize
<1>3. \A i \in k + 1..n : E[i] \in Events /\ IsSel(E[i])
  BY <1>2
<1>4. \A i \in k + 1..n : \A u, v : <<E[i], u, v>> \in EventSteps(names) => u = v
  BY <1>3, SelStep
<1>5. Path(EventSteps(names), p, s, t) /\ \A i \in k + 1..n : <<E[i], t, t>> \in EventSteps(names)
  BY <1>1, <1>4, PathPrefix
<1>6. p \in Seq(Events) /\ Size(p) = k /\ \A i \in 1..k : p[i] = E[i]
  BY <1>1, PrefixIs
<1> HIDE DEF n, p
<1>7. ASSUME NEW i \in 1..k
      PROVE  IsSel(p[i]) \/ (i > 1 /\ IsSel(p[i - 1]))
  <2>1. i \in 1..n /\ (i > 1 => i - 1 \in 1..k)
    BY <1>2 DEF n
  <2> QED
    BY <1>1, <1>6, <2>1, Zenon
<1>8. Track(names, p, s, t)
  BY <1>5, <1>6, <1>7, Zenon DEF Track, Below
<1>9. \A i \in k + 1..n : SelIn(E[i], t)
  BY <1>3, <1>5, SelStep
<1> QED
  BY <1>8, <1>9, Zenon DEF n, p

LEMMA TrackIsTyped ==
  ASSUME NEW names, NEW E, NEW s, NEW t, Track(names, E, s, t)
  PROVE  s \in Texts /\ t \in Texts /\ E \in Seq(Events)
BY PathIsTyped DEF Track

LEMMA ClearedIs ==
  ASSUME NEW names, NEW E, NEW s, NEW t, Track(names, E, s, t), NEW c, c = ClearSelectionEvents(E)
  PROVE  /\ Track(names, c, s, t)
         /\ c # <<>> => ~HasSelOnTop(c)
         /\ HasBurst(E) => c # <<>>
<1> DEFINE n == Size(E)
           S == {0} \cup {i \in DOMAIN E : ~IsSel(E[i])}
           k == Max(S)
<1>1. E \in Seq(Events) /\ n \in Nat /\ DOMAIN E = 1..n
  BY TrackIsTyped, SeqSize
<1>2. c = SubSeq(E, 1, k)
  BY Zenon DEF ClearSelectionEvents
<1> HIDE DEF n
<1>3. S \in SUBSET (0..n) /\ S # {}
  BY <1>1
<1>4. k \in S /\ \A x \in S : k >= x
  <2> HIDE DEF S
  <2> QED
    BY <1>1, <1>3, LeastAndGreatest
<1> HIDE DEF k
<1>5. k \in 0..n
  BY <1>3, <1>4
<1>6. ASSUME NEW i \in k + 1..n
      PROVE  IsSel(E[i])
  <2>1. i \in 1..n /\ ~(k >= i)
    BY <1>5
  <2> QED
    BY <1>1, <1>4, <2>1
<1>7. Track(names, c, s, t)
  BY <1>2, <1>5, <1>6, TrackPrefix DEF n
<1>8. c \in Seq(Events) /\ Size(c) = k /\ \A i \in 1..k : c[i] = E[i]
  BY <1>1, <1>2, <1>5, PrefixIs DEF n
<1>9. ASSUME c # <<>>
      PROVE  ~HasSelOnTop(c)
  <2>1. k \in 1..k /\ k # 0
    BY <1>5, <1>8, <1>9, SeqSize
  <2>2. ~IsSel(E[k])
    BY <1>4, <2>1
  <2>3. Last(c) = c[k]
    BY <1>8, <1>9, TopOf
  <2> QED
    BY <1>8, <2>1, <2>2, <2>3, TopOf
<1>10. ASSUME HasBurst(E)
       PROVE  c # <<>>
  <2>1. PICK i \in 1..n : ~IsSel(E[i])
    BY <1>10, Zenon DEF HasBurst, n
  <2>2. k >= i
    BY <1>1, <1>4, <2>1
  <2>3. Size(c) # 0
    BY <1>5, <1>8, <2>2
  <2> QED
    BY <1>8, <2>3, SeqSize
<1> QED
  BY <1>7, <1>9, <1>10

LEMMA PushSelectionIs ==
  ASSUME NEW names, NEW E, NEW s, NEW t, Track(names, E, s, t), NEW sel, SelIn(sel, t)
  PROVE  /\ Track(names, PushSelection(sel, E), s, t) /\ HasSelOnTop(PushSelection(sel, E))
         /\ HasBurst(E) => HasBurst(PushSelection(sel, E))
<1>1. E \in Seq(Events) /\ t \in Texts
  BY TrackIsTyped
<1>2. sel \in Sels /\ sel \in Events /\ IsSel(sel)
  BY SelOrBurst DEF SelIn
<1>3. PushSelection(sel, E) = IF HasSelOnTop(E) /\ Top(E) = sel THEN E ELSE Push(E, sel)
  BY Zenon DEF PushSelection, Push
<1>4. <<sel, t, t>> \in EventSteps(names)
  BY <1>1, <1>2, EventStepIs
<1>5. Track(names, Push(E, sel), s, t)
  BY <1>1, <1>2, <1>4, TrackPush
<1>6. HasSelOnTop(Push(E, sel)) /\ (HasBurst(E) => HasBurst(Push(E, sel)))
  BY <1>1, <1>2, PushedIs
<1> QED
  BY <1>3, <1>5, <1>6, Zenon

LEMMA ReplaceTop ==
  ASSUME NEW names, NEW E, NEW s, NEW t, Track(names, E, s, t), HasSelOnTop(E), NEW sel, SelIn(sel, t)
  PROVE  /\ Track(names, Push(Front(E), sel), s, t) /\ HasSelOnTop(Push(Front(E), sel))
         /\ HasBurst(E) => HasBurst(Push(Front(E), sel))
<1>1. E \in Seq(Events) /\ t \in Texts /\ E # <<>> /\ IsSel(Last(E)) /\ Last(E) \in Events
  BY TrackIsTyped, TopOf
<1>2. sel \in Sels /\ sel \in Events /\ IsSel(sel)
  BY SelOrBurst DEF SelIn
<1>3. PICK u \in Texts : Track(names, Front(E), s, u) /\ <<Last(E), u, t>> \in EventSteps(names)
  BY <1>1, TrackFront, Zenon
<1>4. u = t
  BY <1>1, <1>3, SelStep
<1>5. <<sel, t, t>> \in EventSteps(names)
  BY <1>1, <1>2, EventStepIs
<1>6. Track(names, Push(Front(E), sel), s, t)
  BY <1>1, <1>2, <1>3, <1>4, <1>5, TrackPush
<1>7. Front(E) \in Seq(Events)
  BY <1>1, FrontIs
<1>8. ASSUME HasBurst(E)
      PROVE  HasBurst(Front(E))
  <2>1. PICK i \in 1..Size(E) : ~IsSel(E[i])
    BY <1>8, Zenon DEF HasBurst
  <2>2. Size(E) \in Nat /\ Size(Front(E)) = Size(E) - 1 /\ Last(E) = E[Size(E)]
        /\ \A j \in 1..Size(E) - 1 : Front(E)[j] = E[j]
    BY <1>1, FrontIs
  <2>3. i # Size(E)
    BY <1>1, <2>1, <2>2
  <2>4. i \in 1..Size(E) - 1 /\ i \in 1..Size(Front(E))
    BY <2>1, <2>2, <2>3
  <2>5. ~IsSel(Front(E)[i])
    BY <2>1, <2>2, <2>4
  <2> QED
    BY <2>4, <2>5, Zenon DEF HasBurst
<1> QED
  BY <1>2, <1>6, <1>7, <1>8, PushedIs

\* The events that the next change is merged with.
LEMMA OntoIs ==
  ASSUME NEW names, NEW d, NEW s, Track(names, d.done, s, d.text), NEW o, o = LastChangeEvent(d), o # <<>>
  PROVE  Track(names, o, s, d.text) /\ ~IsSel(Last(o))
<1> DEFINE E == d.done
           t == d.text
           n == Size(E)
<1>1. E \in Seq(Events) /\ n \in Nat /\ t \in Texts
  BY TrackIsTyped, SeqSize
<1>2. CASE d.op
  <2>1. o = ClearSelectionEvents(E)
    BY <1>2, Zenon DEF LastChangeEvent
  <2>2. Track(names, o, s, t) /\ ~HasSelOnTop(o)
    BY <2>1, ClearedIs
  <2>3. o \in Seq(Events)
    BY <2>2, TrackIsTyped
  <2>4. HasSelOnTop(o) <=> o # <<>> /\ IsSel(Last(o))
    BY <2>3, TopOf
  <2> QED
    BY <2>2, <2>4
<1>3. CASE ~d.op /\ ~HasSelOnTop(E)
  <2>1. o = E
    BY <1>3, Zenon DEF LastChangeEvent
  <2> QED
    BY <1>1, <1>3, <2>1, TopOf
<1>4. CASE ~d.op /\ HasSelOnTop(E)
  <2>1. /\ Len(E) > 1 /\ ~IsSel(E[Len(E) - 1])
        /\ o = Front(E)
    BY <1>4, Zenon DEF LastChangeEvent
  <2>2. n > 1 /\ ~IsSel(E[n - 1]) /\ E # <<>> /\ IsSel(Last(E)) /\ Last(E) \in Events
    <3>1. n > 1 /\ ~IsSel(E[n - 1])
      BY <2>1, Zenon DEF Size
    <3> QED
      BY <1>1, <1>4, <3>1, TopOf
  <2>3. PICK u \in Texts : Track(names, o, s, u) /\ <<Last(E), u, t>> \in EventSteps(names)
    BY <2>1, <2>2, TrackFront, Zenon
  <2>4. u = t
    BY <2>2, <2>3, SelStep
  <2>5. o \in Seq(Events) /\ Size(o) = n - 1 /\ \A i \in 1..n - 1 : o[i] = E[i]
    BY <1>1, <2>1, <2>2, FrontIs
  <2>6. Last(o) = o[Size(o)] /\ n - 1 \in 1..n - 1
    BY <1>1, <2>2, <2>5, TopOf
  <2>7. Last(o) = E[n - 1]
    BY <2>5, <2>6
  <2> QED
    BY <2>2, <2>3, <2>4, <2>7, Zenon
<1> QED
  BY <1>2, <1>3, <1>4

\* An event with a change merged into it undoes the change too.
LEMMA MergedIs ==
  ASSUME NEW C \in Seq(Changes), C # <<>>, NEW u, NEW t, Path(ChangeSteps, C, u, t),
         NEW c, Fits(t, c), NEW e, e \in Bursts, e.changes = C, NEW m, m = Merged(e, t, c)
  PROVE  /\ m \in Bursts /\ m.generation = e.generation /\ m.changes # <<>>
         /\ Path(ChangeSteps, m.changes, u, Changed(t, c))
<1> DEFINE h == Last(C)
           new == IF c.from = c.to /\ c.from = Last(C).to
                    THEN Front(C) \o <<[Last(C) EXCEPT !.to = ChangeEnd(c)]>>
                    ELSE Append(C, AntiChange(t, c))
           x == Changed(t, c)
<1>1. m = [e EXCEPT !.changes = new]
  BY Zenon DEF Merged
<1>2. t \in Texts
  BY PathIsTyped
<1>3. new \in Seq(Changes) /\ new # <<>> /\ Path(ChangeSteps, new, u, x)
  <2>1. CASE c.from = c.to /\ c.from = h.to
    <3> DEFINE f == Front(C)
               g == Change(h.from, ChangeEnd(c), h.text)
    <3>1. f \in Seq(Changes) /\ h \in Changes
      BY FrontIs
    <3>2. PICK v \in Texts : Path(ChangeSteps, f, u, v) /\ <<h, v, t>> \in ChangeSteps
      BY PathFront, Zenon
    <3>3. Fits(t, h) /\ v = Changed(t, h)
      BY <3>2, ChangeStepIs
    <3>4. Fits(x, g) /\ Changed(x, g) = v
      <4>1. c.from = h.to /\ c.to = h.to
        BY <2>1
      <4> HIDE DEF h
      <4> QED
        BY <1>2, <3>3, <4>1, TypingOnIsUndone
    <3>5. g \in Changes /\ x \in Texts
      BY <1>2, <3>4, FitsIsTyped, AntiChangeUndoes
    <3>6. [h EXCEPT !.to = ChangeEnd(c)] = g
      <4>1. h = Change(h.from, h.to, h.text)
        BY <3>3, Zenon DEF Fits
      <4> HIDE DEF h
      <4> QED
        BY <4>1 DEF Change
    <3> HIDE DEF h, f, g, x
    <3>7. new = Push(f, g)
      <4>1. new = f \o <<g>>
        BY <2>1, <3>6, Zenon DEF f, h
      <4> QED
        BY <3>1, <3>5, <4>1, ConcatOne
    <3>8. <<g, v, x>> \in ChangeSteps
      BY <3>4, <3>5, ChangeStepIs
    <3>9. Path(ChangeSteps, Push(f, g), u, x)
      <4>1. Path(ChangeSteps, Append(f, g), u, x)
        BY <3>1, <3>2, <3>5, <3>8, PathAppend
      <4> QED
        BY <4>1, Zenon DEF Push
    <3>10. Push(f, g) \in Seq(Changes) /\ Size(Push(f, g)) = Size(f) + 1 /\ Size(f) \in Nat
      BY <3>1, <3>5, PushIs, SeqSize
    <3>11. Push(f, g) # <<>>
      <4>1. Size(Push(f, g)) # 0
        BY <3>10
      <4> QED
        BY <3>10, <4>1, SeqSize
    <3> QED
      BY <3>7, <3>9, <3>10, <3>11, Zenon
  <2>2. CASE ~(c.from = c.to /\ c.from = h.to)
    <3> DEFINE g == AntiChange(t, c)
    <3>1. x \in Texts /\ Fits(x, g) /\ Changed(x, g) = t
      BY <1>2, AntiChangeUndoes
    <3> HIDE DEF g, x
    <3>2. g \in Changes /\ <<g, t, x>> \in ChangeSteps
      BY <3>1, FitsIsTyped, ChangeStepIs
    <3>3. Path(ChangeSteps, Append(C, g), u, x)
      BY <3>1, <3>2, PathAppend
    <3>4. Push(C, g) \in Seq(Changes) /\ Size(Push(C, g)) = Size(C) + 1 /\ Size(C) \in Nat
      BY <3>2, PushIs, SeqSize
    <3>5. Push(C, g) # <<>>
      <4>1. Size(Push(C, g)) # 0
        BY <3>4
      <4> QED
        BY <3>4, <4>1, SeqSize
    <3>6. new = Push(C, g)
      BY <2>2, Zenon DEF Push, g
    <3> QED
      BY <3>3, <3>4, <3>5, <3>6, Zenon DEF Push
  <2> QED
    BY <2>1, <2>2
<1> HIDE DEF new, x
<1>4. m \in Bursts /\ m.generation = e.generation /\ m.changes = new
  BY <1>1, <1>3 DEF Bursts
<1> QED
  BY <1>3, <1>4 DEF x

LEMMA OntoExists ==
  ASSUME NEW names, NEW d, NEW s, Track(names, d.done, s, d.text), d.op, HasBurst(d.done)
  PROVE  LastChangeEvent(d) # <<>>
<1>1. LastChangeEvent(d) = ClearSelectionEvents(d.done)
  BY Zenon DEF LastChangeEvent
<1> QED
  BY <1>1, ClearedIs

-----------------------------------------------------------------------------
\* The editor's state.
Origins == {NoOrigin, "+input", "paste", "+delete", "+move", "*mouse", "setValue"}

Eds == [text : Texts, sel : Sels, done : Seq(Events), undone : Seq(Events),
        op : BOOLEAN, selOp : BOOLEAN, origin : Origins, selOrigin : Origins,
        modRecent : BOOLEAN, selRecent : BOOLEAN, sameTime : BOOLEAN,
        generation : Nat, maxGeneration : Nat]

\* The generation has its text, or belongs to the operation that runs.
Known(d, names) ==
  IF d.maxGeneration = Size(names) THEN Names(names, d.generation, d.text)
  ELSE d.op /\ HasBurst(d.done) /\ d.generation = d.maxGeneration

\* Where redoing all leads to, if u is the newest text before the operation.
Aim(d, names, u) == IF d.maxGeneration = Size(names) THEN u ELSE d.text

\* In the course of an operation: undoing all leads to s, redoing all to the newest text.
Doing(d, names, s, u) ==
  /\ d \in Eds /\ SelIn(d.sel, d.text)
  /\ Track(names, d.done, s, d.text) /\ Track(names, d.undone, Aim(d, names, u), d.text)
  /\ Size(names) \in Nat /\ d.maxGeneration >= Size(names) /\ Known(d, names)
  /\ d.selOp \/ d.selOrigin # NoOrigin => HasSelOnTop(d.done)

OntoOf(d, origin) ==
  IF d.op \/ (origin # NoOrigin /\ d.origin = origin
              /\ ((Plus(origin) /\ d.modRecent) \/ Star(origin)))
    THEN LastChangeEvent(d) ELSE <<>>

NewBurst(d, c) == [changes |-> <<AntiChange(d.text, c)>>, generation |-> d.generation]

DoneOf(d, c, origin) ==
  IF OntoOf(d, origin) # <<>>
    THEN Front(OntoOf(d, origin)) \o <<Merged(Top(OntoOf(d, origin)), d.text, c)>>
    ELSE (IF HasSelOnTop(d.done) THEN d.done ELSE PushSelection(d.sel, d.done)) \o <<NewBurst(d, c)>>

\* What a change makes of the events, without the selection after it.
LEMMA DoneOfIs ==
  ASSUME NEW names, NEW d, NEW s, NEW u, Doing(d, names, s, u), NEW c, Fits(d.text, c), NEW origin
  PROVE  Track(names, DoneOf(d, c, origin), s, Changed(d.text, c)) /\ HasBurst(DoneOf(d, c, origin))
<1> DEFINE t == d.text
           x == Changed(d.text, c)
           o == OntoOf(d, origin)
           E == DoneOf(d, c, origin)
<1>1. Track(names, d.done, s, t) /\ SelIn(d.sel, t) /\ Known(d, names)
  BY Zenon DEF Doing
<1>2. t \in Texts /\ x \in Texts
  BY <1>1, TrackIsTyped, AntiChangeUndoes
<1>3. CASE o # <<>>
  <2> DEFINE f == Front(o)
             e == Last(o)
             m == Merged(e, t, c)
  <2>1. o = LastChangeEvent(d)
    BY <1>3, Zenon DEF OntoOf
  <2>2. Track(names, o, s, t) /\ ~IsSel(e)
    BY <1>1, <1>3, <2>1, OntoIs
  <2>3. o \in Seq(Events)
    BY <2>2, TrackIsTyped
  <2>4. Top(o) = e /\ e \in Events
    BY <1>3, <2>3, TopOf
  <2>5. PICK v \in Texts : Track(names, f, s, v) /\ <<e, v, t>> \in EventSteps(names)
    BY <1>3, <2>2, TrackFront, Zenon
  <2>6. HasSelOnTop(f)
    BY <1>3, <2>2, TrackFront
  <2>7. e \in Bursts
    BY <2>2, <2>4, SelOrBurst
  <2>8. e.changes # <<>> /\ Path(ChangeSteps, e.changes, v, t) /\ Names(names, e.generation, v)
    BY <2>5, <2>7, EventStepIs
  <2>9. e.changes \in Seq(Changes)
    BY <2>7 DEF Bursts
  <2> HIDE DEF e, f, o, t, x
  <2>10. /\ m \in Bursts /\ m.generation = e.generation /\ m.changes # <<>>
         /\ Path(ChangeSteps, m.changes, v, x)
    BY <2>7, <2>8, <2>9, MergedIs DEF t, x
  <2> HIDE DEF m
  <2>11. <<m, v, x>> \in EventSteps(names) /\ m \in Events /\ ~IsSel(m)
    BY <1>2, <2>5, <2>8, <2>10, EventStepIs, SelOrBurst
  <2>12. f \in Seq(Events)
    BY <2>5, TrackIsTyped
  <2>13. E = f \o <<m>>
    BY <1>3, <2>4, Zenon DEF DoneOf, o, f, m, t
  <2>14. E = Push(f, m)
    BY <2>11, <2>12, <2>13, ConcatOne
  <2>15. Track(names, Push(f, m), s, x)
    BY <1>2, <2>5, <2>6, <2>11, TrackPush
  <2>16. HasBurst(Push(f, m))
    BY <2>11, <2>12, PushedIs
  <2> QED
    BY <2>14, <2>15, <2>16, Zenon DEF x
<1>4. CASE o = <<>>
  <2> DEFINE f == IF HasSelOnTop(d.done) THEN d.done ELSE PushSelection(d.sel, d.done)
             a == AntiChange(t, c)
             m == NewBurst(d, c)
  <2>1. ~(d.op /\ HasBurst(d.done))
    <3>1. ASSUME d.op
          PROVE  LastChangeEvent(d) = <<>>
      BY <1>4, <3>1, Zenon DEF OntoOf
    <3> QED
      BY <1>1, <3>1, OntoExists
  <2>2. Names(names, d.generation, t)
    BY <1>1, <2>1, Zenon DEF Known
  <2>3. Track(names, f, s, t) /\ HasSelOnTop(f)
    BY <1>1, PushSelectionIs, Zenon
  <2>4. Fits(x, a) /\ Changed(x, a) = t
    BY <1>2, AntiChangeUndoes
  <2> HIDE DEF t, x, a
  <2>5. a \in Changes /\ <<a, t, x>> \in ChangeSteps
    BY <1>2, <2>4, FitsIsTyped, ChangeStepIs
  <2>6. Path(ChangeSteps, Append(<<>>, a), t, x) /\ Append(<<>>, a) = <<a>>
    <3>1. Path(ChangeSteps, <<>>, t, t) /\ <<>> \in Seq(Changes)
      BY <1>2, PathOfNothing
    <3>2. Path(ChangeSteps, Append(<<>>, a), t, x)
      BY <1>2, <2>5, <3>1, PathAppend
    <3>3. Append(<<>>, a) = <<a>>
      OBVIOUS
    <3> QED
      BY <3>2, <3>3
  <2>7. m \in Bursts /\ m.changes = <<a>> /\ m.generation = d.generation
    <3>1. d.generation \in Nat
      BY DEF Doing, Eds
    <3>2. <<a>> \in Seq(Changes)
      BY <2>5
    <3>3. m = [changes |-> <<a>>, generation |-> d.generation]
      BY Zenon DEF NewBurst, a, t
    <3> HIDE DEF m
    <3> QED
      BY <3>1, <3>2, <3>3 DEF Bursts
  <2>8. m.changes # <<>>
    <3>1. <<a>> # <<>>
      OBVIOUS
    <3> QED
      BY <2>7, <3>1, Zenon
  <2> HIDE DEF m, f
  <2>9. <<m, t, x>> \in EventSteps(names) /\ m \in Events /\ ~IsSel(m)
    BY <1>2, <2>2, <2>6, <2>7, <2>8, EventStepIs, SelOrBurst
  <2>10. f \in Seq(Events)
    BY <2>3, TrackIsTyped
  <2>11. E = f \o <<m>>
    BY <1>4, Zenon DEF DoneOf, o, f, m
  <2>12. E = Push(f, m)
    BY <2>9, <2>10, <2>11, ConcatOne
  <2>13. Track(names, Push(f, m), s, x)
    BY <1>2, <2>3, <2>9, TrackPush
  <2>14. HasBurst(Push(f, m))
    BY <2>9, <2>10, PushedIs
  <2> QED
    BY <2>12, <2>13, <2>14, Zenon DEF x
<1> QED
  BY <1>3, <1>4

Added(d, done, origin) ==
  [d EXCEPT !.undone = <<>>, !.done = done,
            !.generation = d.maxGeneration + 1, !.maxGeneration = @ + 1,
            !.modRecent = TRUE, !.selRecent = TRUE, !.sameTime = TRUE,
            !.op = TRUE, !.selOp = TRUE, !.origin = origin, !.selOrigin = origin]

EdFields == {"text", "sel", "done", "undone", "op", "selOp", "origin", "selOrigin",
             "modRecent", "selRecent", "sameTime", "generation", "maxGeneration"}

TypedEd(k) ==
  /\ DOMAIN k = EdFields /\ k = [f \in DOMAIN k |-> k[f]]
  /\ k.text \in Texts /\ k.sel \in Sels /\ k.done \in Seq(Events) /\ k.undone \in Seq(Events)
  /\ k.op \in BOOLEAN /\ k.selOp \in BOOLEAN /\ k.origin \in Origins /\ k.selOrigin \in Origins
  /\ k.modRecent \in BOOLEAN /\ k.selRecent \in BOOLEAN /\ k.sameTime \in BOOLEAN
  /\ k.generation \in Nat /\ k.maxGeneration \in Nat

LEMMA EdOf ==
  ASSUME NEW k, TypedEd(k)
  PROVE  k \in Eds
BY DEF TypedEd, EdFields, Eds

LEMMA AddedIs ==
  ASSUME NEW d \in Eds, NEW done \in Seq(Events), NEW origin \in Origins, NEW h, h = Added(d, done, origin)
  PROVE  /\ h \in Eds /\ h.text = d.text /\ h.sel = d.sel /\ h.undone = <<>> /\ h.done = done
         /\ h.generation = d.maxGeneration + 1 /\ h.maxGeneration = d.maxGeneration + 1
         /\ h.op
<1>1. d.maxGeneration \in Nat /\ d.maxGeneration + 1 \in Nat /\ <<>> \in Seq(Events)
  BY DEF Eds
<1>2. h.text = d.text /\ h.sel = d.sel /\ h.undone = <<>> /\ h.done = done
  BY DEF Added, Eds
<1>3. h.generation = d.maxGeneration + 1 /\ h.maxGeneration = d.maxGeneration + 1
  BY DEF Added, Eds
<1>4. h.op
  BY DEF Added, Eds
<1>5. h.op \in BOOLEAN /\ h.selOp \in BOOLEAN /\ h.origin \in Origins /\ h.selOrigin \in Origins
      /\ h.modRecent \in BOOLEAN /\ h.selRecent \in BOOLEAN /\ h.sameTime \in BOOLEAN
  BY DEF Added, Eds
<1>6. DOMAIN h = DOMAIN d /\ h = [f \in DOMAIN h |-> h[f]]
  BY Zenon DEF Added
<1>7. DOMAIN d = EdFields /\ d.text \in Texts /\ d.sel \in Sels
  BY DEF Eds, EdFields
<1>8. TypedEd(h)
  BY <1>1, <1>2, <1>3, <1>5, <1>6, <1>7, Zenon DEF TypedEd
<1>9. h \in Eds
  BY <1>8, EdOf
<1> QED
  BY <1>2, <1>3, <1>4, <1>9

MovedTo(h, x, sel) == [h EXCEPT !.text = x, !.sel = sel]

LEMMA MovedIs ==
  ASSUME NEW h \in Eds, NEW x \in Texts, NEW sel \in Sels, NEW m, m = MovedTo(h, x, sel)
  PROVE  /\ m \in Eds /\ m.text = x /\ m.sel = sel /\ m.undone = h.undone /\ m.done = h.done
         /\ m.generation = h.generation /\ m.maxGeneration = h.maxGeneration
         /\ (m.op <=> h.op) /\ (m.selOp <=> h.selOp) /\ m.selOrigin = h.selOrigin
BY DEF Eds, MovedTo

LEMMA TrackOfNothing ==
  ASSUME NEW names, NEW t \in Texts
  PROVE  Track(names, <<>>, t, t)
<1>1. <<>> \in Seq(Events) /\ 1..Size(<<>>) = {}
  BY DEF Size
<1>2. Path(EventSteps(names), <<>>, t, t)
  BY PathOfNothing
<1> QED
  BY <1>1, <1>2, Zenon DEF Track, Below

\* makeChange keeps the history true.
LEMMA MakeChangeIs ==
  ASSUME NEW names, NEW d, NEW s, NEW u, Doing(d, names, s, u), NEW c, Fits(d.text, c),
         NEW origin \in Origins, NEW m, m = MakeChange(d, c, origin)
  PROVE  Doing(m, names, s, u) /\ (m = d \/ m.text = Changed(d.text, c))
<1>1. CASE c.text = << <<>> >> /\ c.from = c.to
  <2>1. m = d
    BY <1>1, Zenon DEF MakeChange
  <2> QED
    BY <2>1
<1>2. CASE ~(c.text = << <<>> >> /\ c.from = c.to)
  <2> DEFINE x == Changed(d.text, c)
             a == SelAfterChange(d.sel, c)
             E == DoneOf(d, c, origin)
             h == Added(d, Append(E, a), origin)
  <2>1. m = [h EXCEPT !.text = Changed(@, c), !.sel = a]
    BY <1>2, Zenon DEF MakeChange, AddChangeToHistory, Added, DoneOf, OntoOf, NewBurst
  <2>2. d \in Eds /\ SelIn(d.sel, d.text) /\ d.text \in Texts /\ d.maxGeneration >= Size(names)
        /\ Size(names) \in Nat /\ d.maxGeneration \in Nat
    BY DEF Doing, Eds
  <2>3. x \in Texts /\ SelIn(a, x)
    BY <2>2, AntiChangeUndoes, SelAfterIs
  <2>4. Track(names, E, s, x) /\ HasBurst(E)
    BY DoneOfIs
  <2>5. a \in Sels /\ a \in Events /\ IsSel(a) /\ <<a, x, x>> \in EventSteps(names)
    <3>1. a \in Sels
      BY <2>3 DEF SelIn
    <3> QED
      BY <2>3, <3>1, SelOrBurst, EventStepIs
  <2>6. E \in Seq(Events)
    BY <2>4, TrackIsTyped
  <2> HIDE DEF x, a, E
  <2>7. Track(names, Push(E, a), s, x) /\ HasBurst(Push(E, a)) /\ HasSelOnTop(Push(E, a))
        /\ Push(E, a) \in Seq(Events)
    <3>1. Track(names, Push(E, a), s, x)
      BY <2>3, <2>4, <2>5, TrackPush
    <3> QED
      BY <2>4, <2>5, <2>6, <3>1, PushedIs
  <2> DEFINE p == Push(E, a)
  <2>8. h = Added(d, p, origin)
    BY Zenon DEF Push
  <2> HIDE DEF h, p
  <2>9. /\ h \in Eds /\ h.text = d.text /\ h.sel = d.sel /\ h.undone = <<>> /\ h.done = p
        /\ h.generation = d.maxGeneration + 1 /\ h.maxGeneration = d.maxGeneration + 1
        /\ h.op
    BY <2>2, <2>7, <2>8, AddedIs DEF p
  <2>10. m = MovedTo(h, x, a)
    BY <2>1, <2>9, Zenon DEF x, MovedTo
  <2>11. /\ m \in Eds /\ m.text = x /\ m.sel = a /\ m.undone = <<>> /\ m.done = p
         /\ m.generation = d.maxGeneration + 1 /\ m.maxGeneration = d.maxGeneration + 1
         /\ m.op
    <3>1. /\ m \in Eds /\ m.text = x /\ m.sel = a /\ m.undone = h.undone /\ m.done = h.done
          /\ m.generation = h.generation /\ m.maxGeneration = h.maxGeneration
          /\ (m.op <=> h.op)
      BY <2>3, <2>5, <2>9, <2>10, MovedIs
    <3>2. m.op
      BY <2>9, <3>1
    <3> QED
      BY <2>9, <3>1, <3>2, Zenon
  <2>12. m.maxGeneration > Size(names) /\ m.generation = m.maxGeneration
    BY <2>2, <2>11
  <2>13. Aim(m, names, u) = x /\ Known(m, names)
    <3>1. m.maxGeneration # Size(names)
      BY <2>2, <2>12
    <3> QED
      BY <2>7, <2>11, <2>12, <3>1, Zenon DEF Aim, Known, p
  <2>14. Track(names, m.undone, x, x)
    BY <2>3, <2>11, TrackOfNothing
  <2>15. m.maxGeneration >= Size(names)
    BY <2>2, <2>11
  <2> QED
    BY <2>2, <2>3, <2>7, <2>11, <2>13, <2>14, <2>15, Zenon DEF Doing, x, p
<1> QED
  BY <1>1, <1>2

-----------------------------------------------------------------------------
\* Changes of a text from its beginning to its end, none before the end of another.
InRow(C, n, t) ==
  /\ n \in Nat /\ DOMAIN C = 1..n /\ \A i \in 1..n : Fits(t, C[i])
  /\ \A i \in 2..n : NotAfter(C[i - 1].to, C[i].from)

LEMMA FitsAt ==
  ASSUME NEW t, NEW c, Fits(t, c)
  PROVE  /\ c.from \in Spots /\ c.to \in Spots /\ InText(t, c.from) /\ InText(t, c.to)
         /\ NotAfter(c.from, c.to)
BY DEF Fits, InText

LEMMA RowIs ==
  ASSUME NEW C, NEW n, NEW t, InRow(C, n, t), NEW i \in 1..n, NEW j \in 1..i - 1
  PROVE  NotAfter(C[j].to, C[i].from)
<1> DEFINE Good(k) == \A l \in 1..k - 1 : NotAfter(C[l].to, C[k].from)
           U == {k \in 0..n : k >= 1 => Good(k)}
<1>1. n \in Nat /\ \A k \in 1..n : C[k].from \in Spots /\ C[k].to \in Spots /\ NotAfter(C[k].from, C[k].to)
  BY FitsAt DEF InRow
<1>2. \A k \in 2..n : NotAfter(C[k - 1].to, C[k].from)
  BY Zenon DEF InRow
<1>3. 0 \in U
  BY <1>1
<1>4. ASSUME NEW k \in 1..n, k - 1 \in U
      PROVE  k \in U
  <2>1. ASSUME NEW l \in 1..k - 1
        PROVE  NotAfter(C[l].to, C[k].from)
    <3>1. k - 1 \in 1..n /\ k \in 2..n /\ l \in 1..n /\ k - 1 >= 1
      BY <1>1, <2>1
    <3>2. NotAfter(C[k - 1].to, C[k].from)
      BY <1>2, <3>1
    <3>3. CASE l = k - 1
      BY <3>2, <3>3, Zenon
    <3>4. CASE l # k - 1
      <4>1. l \in 1..(k - 1) - 1
        BY <3>1, <3>4
      <4>2. NotAfter(C[l].to, C[k - 1].from)
        BY <1>4, <3>1, <4>1
      <4>3. /\ C[l].to \in Spots /\ C[k - 1].from \in Spots /\ C[k - 1].to \in Spots /\ C[k].from \in Spots
            /\ NotAfter(C[k - 1].from, C[k - 1].to)
        BY <1>1, <3>1
      <4>4. NotAfter(C[l].to, C[k - 1].to)
        BY <4>2, <4>3, OrderTrans
      <4> QED
        BY <3>2, <4>3, <4>4, OrderTrans
    <3> QED
      BY <3>3, <3>4
  <2>2. Good(k)
    BY <2>1, Zenon
  <2> HIDE DEF Good
  <2> QED
    BY <1>1, <2>2
<1> HIDE DEF U
<1>5. \A k \in 0..n : k \in U
  BY <1>1, <1>3, <1>4, UpInduction
<1> QED
  BY <1>1, <1>5 DEF U

\* Changes of one operation keep the history true.
LEMMA MakeChangesIs ==
  ASSUME NEW names, NEW d, NEW s, NEW u, Doing(d, names, s, u), NEW C, NEW n, InRow(C, n, d.text),
         NEW origin \in Origins
  PROVE  Doing(MakeChanges(d, C, origin), names, s, u)
<1>1. n \in Nat /\ DOMAIN C = 1..n /\ \A i \in 1..n : Fits(d.text, C[i])
  BY Zenon DEF InRow
<1>2. PICK tr : /\ tr[n + 1] = d /\ tr[1] = AllMade(C, d, origin)
                /\ \A i \in 1..n : tr[i] = MakeChange(tr[i + 1], C[i], origin)
  <2>1. MakeTrace(C, n, d, origin)
    BY <1>1, MakeFold
  <2> QED
    BY <2>1, Zenon DEF MakeTrace
<1> DEFINE Good(i) == Doing(tr[i], names, s, u) /\ \A j \in 1..i - 1 : Fits(tr[i].text, C[j])
           U == {i \in 1..n + 1 : Good(i)}
<1>3. n + 1 \in U
  <2>1. n + 1 \in 1..n + 1 /\ 1..(n + 1) - 1 = 1..n
    BY <1>1
  <2>2. Good(n + 1)
    BY <1>1, <1>2, <2>1, Zenon
  <2> HIDE DEF Good
  <2> QED
    BY <2>1, <2>2
<1>4. ASSUME NEW i \in 1..n, i + 1 \in U
      PROVE  i \in U
  <2> DEFINE e == tr[i + 1]
             m == tr[i]
             c == C[i]
  <2>1. i \in 1..n + 1 /\ i \in 1..(i + 1) - 1 /\ \A j \in 1..i - 1 : j \in 1..(i + 1) - 1
    BY <1>1
  <2>2. Doing(e, names, s, u) /\ Fits(e.text, c) /\ \A j \in 1..i - 1 : Fits(e.text, C[j])
    BY <1>4, <2>1, Zenon
  <2>3. m = MakeChange(e, c, origin)
    BY <1>2, Zenon
  <2>4. \A j \in 1..i - 1 : NotAfter(C[j].to, c.from)
    BY RowIs
  <2> HIDE DEF e, m, c
  <2>5. Doing(m, names, s, u) /\ (m = e \/ m.text = Changed(e.text, c))
    BY <2>2, <2>3, MakeChangeIs
  <2>6. e.text \in Texts
    BY <2>2, TrackIsTyped DEF Doing
  <2>7. ASSUME NEW j \in 1..i - 1
        PROVE  Fits(m.text, C[j])
    <3> DEFINE b == C[j]
    <3>1. Fits(e.text, b) /\ NotAfter(b.to, c.from)
      BY <2>2, <2>4
    <3>2. CASE m = e
      BY <3>1, <3>2, Zenon
    <3>3. CASE m.text = Changed(e.text, c)
      <4> HIDE DEF b
      <4>1. /\ b.from \in Spots /\ b.to \in Spots /\ c.from \in Spots
            /\ InText(e.text, b.from) /\ InText(e.text, b.to) /\ NotAfter(b.from, b.to)
        BY <2>2, <3>1, FitsAt
      <4>2. NotAfter(b.from, c.from)
        BY <3>1, <4>1, OrderTrans
      <4>3. InText(m.text, b.from) /\ InText(m.text, b.to)
        BY <2>2, <2>6, <3>1, <3>3, <4>1, <4>2, BeforeChange
      <4> QED
        BY <3>1, <4>3, Zenon DEF Fits, b
    <3> QED
      BY <2>5, <3>2, <3>3
  <2>8. Good(i)
    BY <2>5, <2>7, Zenon DEF m
  <2> HIDE DEF Good
  <2> QED
    BY <2>1, <2>8
<1>5. 1 \in U
  <2> HIDE DEF U
  <2>1. \A i \in 1..n + 1 : i \in U
    BY <1>1, <1>3, <1>4, DownInduction
  <2> QED
    BY <1>1, <2>1
<1>6. MakeChanges(d, C, origin) = AllMade(C, d, origin)
  BY Zenon DEF MakeChanges, AllMade
<1> QED
  BY <1>2, <1>5, <1>6, Zenon

-----------------------------------------------------------------------------
\* Selections.
Replaces(d, origin) ==
  LET canMerge == \/ Star(origin)
                  \/ /\ Plus(origin) /\ d.selRecent
                     /\ Len(Top(d.done).ranges) = Len(d.sel.ranges)
                     /\ SomethingSelected(Top(d.done)) = SomethingSelected(d.sel)
  IN  d.selOp \/ (origin # NoOrigin /\ d.selOrigin = origin
                  /\ ((d.sameTime /\ d.origin = origin) \/ canMerge))

DoneWith(d, origin) ==
  IF Replaces(d, origin) THEN Append(Front(d.done), d.sel) ELSE PushSelection(d.sel, d.done)

UndoneWith(d, clearRedo) == IF clearRedo THEN ClearSelectionEvents(d.undone) ELSE d.undone

SelAdded(d, done, undone, origin) ==
  [d EXCEPT !.done = done, !.undone = undone,
            !.selRecent = TRUE, !.sameTime = FALSE, !.selOp = TRUE, !.selOrigin = origin]

LEMMA SelAddedIs ==
  ASSUME NEW d \in Eds, NEW done \in Seq(Events), NEW undone \in Seq(Events), NEW origin \in Origins,
         NEW e, e = SelAdded(d, done, undone, origin)
  PROVE  /\ e \in Eds /\ e.text = d.text /\ e.sel = d.sel /\ e.done = done /\ e.undone = undone
         /\ e.generation = d.generation /\ e.maxGeneration = d.maxGeneration /\ (e.op <=> d.op)
<1>1. e.text = d.text /\ e.sel = d.sel /\ e.done = done /\ e.undone = undone
  BY DEF SelAdded, Eds
<1>2. e.generation = d.generation /\ e.maxGeneration = d.maxGeneration /\ (e.op <=> d.op)
  BY DEF SelAdded, Eds
<1>3. /\ e.op \in BOOLEAN /\ e.selOp \in BOOLEAN /\ e.origin \in Origins /\ e.selOrigin \in Origins
      /\ e.modRecent \in BOOLEAN /\ e.selRecent \in BOOLEAN /\ e.sameTime \in BOOLEAN
  BY DEF SelAdded, Eds
<1>4. DOMAIN e = DOMAIN d /\ e = [f \in DOMAIN e |-> e[f]]
  BY Zenon DEF SelAdded
<1>5. DOMAIN d = EdFields /\ d.text \in Texts /\ d.sel \in Sels /\ d.generation \in Nat /\ d.maxGeneration \in Nat
  BY DEF Eds, EdFields
<1>6. TypedEd(e)
  BY <1>1, <1>2, <1>3, <1>4, <1>5, Zenon DEF TypedEd
<1>7. e \in Eds
  BY <1>6, EdOf
<1> QED
  BY <1>1, <1>2, <1>7

LEMMA AddSelectionIs ==
  ASSUME NEW names, NEW d, NEW s, NEW u, Doing(d, names, s, u), NEW origin \in Origins, NEW clearRedo,
         NEW e, e = AddSelectionToHistory(d, origin, clearRedo)
  PROVE  Doing(e, names, s, u)
<1> DEFINE E == DoneWith(d, origin)
           G == UndoneWith(d, clearRedo)
           t == d.text
           a == Aim(d, names, u)
<1>1. e = SelAdded(d, E, G, origin)
  BY Zenon DEF AddSelectionToHistory, SelAdded, DoneWith, UndoneWith, Replaces
<1>2. /\ d \in Eds /\ SelIn(d.sel, t) /\ Track(names, d.done, s, t) /\ Track(names, d.undone, a, t)
      /\ Size(names) \in Nat /\ d.maxGeneration >= Size(names) /\ Known(d, names)
      /\ (d.selOp \/ d.selOrigin # NoOrigin => HasSelOnTop(d.done))
  BY Zenon DEF Doing
<1>3. Track(names, E, s, t) /\ HasSelOnTop(E) /\ (HasBurst(d.done) => HasBurst(E))
  <2>1. CASE Replaces(d, origin)
    <3>1. HasSelOnTop(d.done)
      <4>1. d.selOp \/ d.selOrigin # NoOrigin
        BY <2>1, Zenon DEF Replaces
      <4> QED
        BY <1>2, <4>1
    <3>2. E = Push(Front(d.done), d.sel)
      BY <2>1, Zenon DEF DoneWith, Push
    <3> QED
      BY <1>2, <3>1, <3>2, ReplaceTop
  <2>2. CASE ~Replaces(d, origin)
    <3>1. E = PushSelection(d.sel, d.done)
      BY <2>2, Zenon DEF DoneWith
    <3> QED
      BY <1>2, <3>1, PushSelectionIs
  <2> QED
    BY <2>1, <2>2
<1>4. Track(names, G, a, t)
  <2>1. CASE clearRedo
    <3>1. G = ClearSelectionEvents(d.undone)
      BY <2>1, Zenon DEF UndoneWith
    <3> QED
      BY <1>2, <3>1, ClearedIs
  <2>2. CASE ~clearRedo
    <3>1. G = d.undone
      BY <2>2, Zenon DEF UndoneWith
    <3> QED
      BY <1>2, <3>1
  <2> QED
    BY <2>1, <2>2
<1>5. E \in Seq(Events) /\ G \in Seq(Events)
  BY <1>3, <1>4, TrackIsTyped
<1> HIDE DEF E, G
<1>6. /\ e \in Eds /\ e.text = d.text /\ e.sel = d.sel /\ e.done = E /\ e.undone = G
      /\ e.generation = d.generation /\ e.maxGeneration = d.maxGeneration /\ (e.op <=> d.op)
  BY <1>1, <1>2, <1>5, SelAddedIs
<1>7. Aim(e, names, u) = a
  BY <1>6, Zenon DEF Aim
<1>8. Known(e, names)
  BY <1>2, <1>3, <1>6, Zenon DEF Known
<1> QED
  BY <1>2, <1>3, <1>4, <1>6, <1>7, <1>8, Zenon DEF Doing

SelSet(d, sel) == [d EXCEPT !.sel = sel]

LEMMA SelSetIs ==
  ASSUME NEW d \in Eds, NEW sel \in Sels, NEW e, e = SelSet(d, sel)
  PROVE  /\ e \in Eds /\ e.text = d.text /\ e.sel = sel /\ e.done = d.done /\ e.undone = d.undone
         /\ e.generation = d.generation /\ e.maxGeneration = d.maxGeneration /\ (e.op <=> d.op)
         /\ (e.selOp <=> d.selOp) /\ e.selOrigin = d.selOrigin
BY DEF SelSet, Eds

LEMMA DoingWithSel ==
  ASSUME NEW names, NEW d, NEW s, NEW u, Doing(d, names, s, u), NEW sel, SelIn(sel, d.text),
         NEW e, e = SelSet(d, sel)
  PROVE  Doing(e, names, s, u)
<1>1. d \in Eds /\ sel \in Sels
  BY DEF Doing, SelIn
<1>2. /\ e \in Eds /\ e.text = d.text /\ e.sel = sel /\ e.done = d.done /\ e.undone = d.undone
      /\ e.generation = d.generation /\ e.maxGeneration = d.maxGeneration /\ (e.op <=> d.op)
      /\ (e.selOp <=> d.selOp) /\ e.selOrigin = d.selOrigin
  BY <1>1, SelSetIs
<1>3. Aim(e, names, u) = Aim(d, names, u) /\ (Known(e, names) <=> Known(d, names))
  BY <1>2, Zenon DEF Aim, Known
<1> QED
  BY <1>2, <1>3, Zenon DEF Doing

LEMMA SetSelectionIs ==
  ASSUME NEW names, NEW d, NEW s, NEW u, Doing(d, names, s, u), NEW sel, SelIn(sel, d.text),
         NEW origin \in Origins
  PROVE  Doing(SetSelection(d, sel, origin), names, s, u)
<1> DEFINE e == SelSet(d, sel)
<1>1. Doing(e, names, s, u)
  BY DoingWithSel
<1>2. SetSelection(d, sel, origin) = AddSelectionToHistory(e, origin, TRUE)
  BY Zenon DEF SetSelection, SelSet
<1> HIDE DEF e
<1> QED
  BY <1>1, <1>2, AddSelectionIs, Zenon

-----------------------------------------------------------------------------
\* Events that go from one list to the other.
LEMMA TopSelection ==
  ASSUME NEW names, NEW E, NEW s, NEW t, Track(names, E, s, t), HasSelOnTop(E)
  PROVE  SelIn(Top(E), t)
<1>1. E \in Seq(Events)
  BY TrackIsTyped
<1>2. E # <<>> /\ IsSel(Last(E)) /\ Top(E) = Last(E) /\ Last(E) \in Events
  BY <1>1, TopOf
<1>3. PICK v \in Texts : Track(names, Front(E), s, v) /\ <<Last(E), v, t>> \in EventSteps(names)
  BY <1>2, TrackFront, Zenon
<1>4. SelIn(Last(E), t)
  BY <1>2, <1>3, SelStep
<1> QED
  BY <1>2, <1>4, Zenon

\* Selections pushed one after the other.
LEMMA AllPushedIs ==
  ASSUME NEW names, NEW D, NEW b, NEW t, Track(names, D, b, t), NEW A, NEW n \in Nat, DOMAIN A = 1..n,
         \A i \in 1..n : SelIn(A[i], t)
  PROVE  Track(names, AllPushed(A, D), b, t)
<1>1. PICK tr : /\ tr[n + 1] = D /\ tr[1] = AllPushed(A, D)
                /\ \A i \in 1..n : tr[i] = PushSelection(A[i], tr[i + 1])
  <2>1. PushTrace(A, n, D)
    BY PushFold
  <2> QED
    BY <2>1, Zenon DEF PushTrace
<1> DEFINE U == {i \in 1..n + 1 : Track(names, tr[i], b, t)}
<1>2. n + 1 \in U
  BY <1>1
<1>3. ASSUME NEW i \in 1..n, i + 1 \in U
      PROVE  i \in U
  <2>1. Track(names, tr[i + 1], b, t) /\ SelIn(A[i], t) /\ tr[i] = PushSelection(A[i], tr[i + 1])
        /\ i \in 1..n + 1
    BY <1>1, <1>3
  <2>2. Track(names, PushSelection(A[i], tr[i + 1]), b, t)
    BY <2>1, PushSelectionIs
  <2> QED
    BY <2>1, <2>2
<1>4. 1 \in U
  <2> HIDE DEF U
  <2>1. \A i \in 1..n + 1 : i \in U
    BY <1>2, <1>3, DownInduction
  <2> QED
    BY <2>1
<1> QED
  BY <1>1, <1>4

Rest(S, k) == SubSeq(S, 1, k - 1)
Above(S, k) == SubSeq(S, k + 1, Len(S))
Passed(S, k, D) == AllPushed(Above(S, k), D)

LEMMA PartsOfEvents ==
  ASSUME NEW names, NEW S, NEW a, NEW t, Track(names, S, a, t), NEW k \in 1..Size(S),
         \A i \in k + 1..Size(S) : IsSel(S[i])
  PROVE  /\ \E v \in Texts : Track(names, Rest(S, k), a, v) /\ <<S[k], v, t>> \in EventSteps(names)
         /\ IsSel(S[k]) \/ HasSelOnTop(Rest(S, k))
         /\ S[k] \in Events
         /\ DOMAIN Above(S, k) = 1..Size(S) - k /\ Size(S) - k \in Nat
         /\ \A i \in 1..Size(S) - k : SelIn(Above(S, k)[i], t)
         /\ Above(S, k) # <<>> => SelIn(Head(Above(S, k)), t)
<1> DEFINE n == Size(S)
           p == SubSeq(S, 1, k)
           r == Rest(S, k)
           A == Above(S, k)
<1>1. S \in Seq(Events) /\ n \in Nat /\ \A i \in 1..n : S[i] \in Events
  BY TrackIsTyped, SeqSize
<1>2. k \in 0..Size(S) /\ k - 1 \in 0..Size(S) /\ k \in 1..k
  BY <1>1
<1>3. Track(names, p, a, t) /\ \A i \in k + 1..n : SelIn(S[i], t)
  BY <1>2, TrackPrefix
<1>4. p \in Seq(Events) /\ Size(p) = k /\ \A i \in 1..k : p[i] = S[i]
  BY <1>1, <1>2, PrefixIs
<1>5. r \in Seq(Events) /\ Size(r) = k - 1 /\ \A i \in 1..k - 1 : r[i] = S[i]
  BY <1>1, <1>2, PrefixIs DEF Rest
<1>6. p # <<>> /\ Last(p) = S[k]
  <2>1. Size(p) # 0
    BY <1>2, <1>4
  <2>2. p # <<>>
    BY <1>4, <2>1, SeqSize
  <2> QED
    BY <1>2, <1>4, <2>2, TopOf
<1>7. Front(p) = r
  <2>1. Front(p) \in Seq(Events) /\ Size(Front(p)) = k - 1 /\ \A i \in 1..k - 1 : Front(p)[i] = p[i]
    BY <1>4, <1>6, FrontIs
  <2>2. \A i \in 1..k - 1 : i \in 1..k
    BY <1>2
  <2>3. \A i \in 1..k - 1 : Front(p)[i] = r[i]
    BY <1>4, <1>5, <2>1, <2>2, Zenon
  <2> HIDE DEF p, r
  <2> QED
    BY <1>5, <2>1, <2>3, SameSeq
<1>8. PICK v \in Texts : Track(names, Front(p), a, v) /\ <<Last(p), v, t>> \in EventSteps(names)
  BY <1>3, <1>6, TrackFront, Zenon
<1>9. IsSel(Last(p)) \/ HasSelOnTop(Front(p))
  BY <1>3, <1>6, TrackFront
<1>10. A \in Seq(Events) /\ Size(A) = n - k /\ \A i \in 1..n - k : A[i] = S[k + i]
  <2>1. A = Sub(S, k + 1, n)
    BY Zenon DEF Above, Sub, Size
  <2>2. k + 1 \in Int /\ n \in Int /\ 1 <= k + 1 /\ n <= Size(S)
    BY <1>1
  <2>3. /\ Sub(S, k + 1, n) \in Seq(Events)
        /\ Size(Sub(S, k + 1, n)) = IF k + 1 <= n THEN n - (k + 1) + 1 ELSE 0
        /\ \A i \in 1..n - (k + 1) + 1 : Sub(S, k + 1, n)[i] = S[k + 1 + i - 1]
    BY <1>1, <2>2, SubIs
  <2> HIDE DEF n, A
  <2>4. /\ (IF k + 1 <= n THEN n - (k + 1) + 1 ELSE 0) = n - k
        /\ n - (k + 1) + 1 = n - k /\ \A i \in 1..n - k : k + 1 + i - 1 = k + i
    BY <1>1, <1>2 DEF n
  <2> QED
    BY <2>1, <2>3, <2>4
<1> HIDE DEF n, p, r, A
<1>11. DOMAIN A = 1..n - k /\ n - k \in Nat
  BY <1>10, SeqSize
<1>12. \A i \in 1..n - k : SelIn(A[i], t)
  <2>1. \A i \in 1..n - k : k + i \in k + 1..n
    BY <1>1, <1>11
  <2> QED
    BY <1>3, <1>10, <2>1
<1>13. ASSUME A # <<>>
       PROVE  SelIn(Head(A), t)
  <2>1. Size(A) # 0 /\ Head(A) = A[1]
    BY <1>10, <1>13, SeqSize, HeadTailProperties
  <2>2. 1 \in 1..n - k
    BY <1>10, <1>11, <2>1
  <2> QED
    BY <1>12, <2>1, <2>2
<1> QED
  BY <1>1, <1>6, <1>7, <1>8, <1>9, <1>11, <1>12, <1>13, Zenon DEF n, r, A

LEMMA SelectionBack ==
  ASSUME NEW names, NEW S, NEW a, NEW t, Track(names, S, a, t), NEW D, NEW b, Track(names, D, b, t),
         NEW k \in 1..Size(S), \A i \in k + 1..Size(S) : IsSel(S[i]), IsSel(S[k])
  PROVE  /\ SelIn(S[k], t) /\ Track(names, Rest(S, k), a, t)
         /\ Track(names, PushSelection(S[k], Passed(S, k, D)), b, t)
<1>1. PICK v \in Texts : Track(names, Rest(S, k), a, v) /\ <<S[k], v, t>> \in EventSteps(names)
  BY PartsOfEvents, Zenon
<1>2. /\ S[k] \in Events /\ DOMAIN Above(S, k) = 1..Size(S) - k /\ Size(S) - k \in Nat
      /\ \A i \in 1..Size(S) - k : SelIn(Above(S, k)[i], t)
  BY PartsOfEvents
<1>3. v = t /\ SelIn(S[k], t)
  BY <1>1, <1>2, SelStep
<1>4. Track(names, Passed(S, k, D), b, t)
  BY <1>2, AllPushedIs DEF Passed
<1>5. Track(names, PushSelection(S[k], Passed(S, k, D)), b, t)
  BY <1>3, <1>4, PushSelectionIs
<1> QED
  BY <1>1, <1>3, <1>5, Zenon

SelBefore(S, k, sel) == IF Above(S, k) = <<>> THEN sel ELSE Head(Above(S, k))

LEMMA BurstBack ==
  ASSUME NEW names, NEW S, NEW a, NEW t, Track(names, S, a, t), NEW D, NEW b, Track(names, D, b, t),
         NEW k \in 1..Size(S), \A i \in k + 1..Size(S) : IsSel(S[i]), ~IsSel(S[k]),
         NEW sel, SelIn(sel, t), NEW g \in Nat, Names(names, g, t),
         NEW all, all = AllUndo(S[k].changes, [text |-> t, anti |-> <<>>]),
         NEW new, new = [changes |-> all.anti, generation |-> g]
  PROVE  /\ all.text \in Texts /\ Track(names, Rest(S, k), a, all.text)
         /\ SelIn(Top(Rest(S, k)), all.text)
         /\ S[k].generation \in Nat /\ Names(names, S[k].generation, all.text)
         /\ Track(names, Append(PushSelection(SelBefore(S, k, sel), Passed(S, k, D)), new), b, all.text)
<1> DEFINE e == S[k]
           G == PushSelection(SelBefore(S, k, sel), Passed(S, k, D))
<1>1. PICK v \in Texts : Track(names, Rest(S, k), a, v) /\ <<S[k], v, t>> \in EventSteps(names)
  BY PartsOfEvents, Zenon
<1>2. /\ S[k] \in Events /\ DOMAIN Above(S, k) = 1..Size(S) - k /\ Size(S) - k \in Nat
      /\ \A i \in 1..Size(S) - k : SelIn(Above(S, k)[i], t)
      /\ HasSelOnTop(Rest(S, k))
      /\ Above(S, k) # <<>> => SelIn(Head(Above(S, k)), t)
  BY PartsOfEvents
<1>3. e \in Bursts
  BY <1>2, SelOrBurst
<1>4. e.changes # <<>> /\ Path(ChangeSteps, e.changes, v, t) /\ Names(names, e.generation, v) /\ t \in Texts
  BY <1>1, <1>3, EventStepIs
<1>5. e.changes \in Seq(Changes) /\ e.generation \in Nat
  BY <1>3 DEF Bursts
<1>6. /\ all.text = v /\ all.anti \in Seq(Changes) /\ Size(all.anti) = Size(e.changes)
      /\ Path(ChangeSteps, all.anti, t, v)
  <2> DEFINE C == e.changes
  <2>1. C \in Seq(Changes) /\ Path(ChangeSteps, C, v, t) /\ all = AllUndo(C, [text |-> t, anti |-> <<>>])
    BY <1>4, <1>5, Zenon
  <2> HIDE DEF C
  <2>2. /\ all.text = v /\ all.anti \in Seq(Changes) /\ Size(all.anti) = Size(C)
        /\ Path(ChangeSteps, all.anti, t, v)
    BY <2>1, UndoPathIs
  <2> QED
    BY <2>2, Zenon DEF C
<1>7. all.anti # <<>>
  <2>1. Size(e.changes) # 0
    BY <1>4, <1>5, SeqSize
  <2> QED
    BY <1>6, <2>1, SeqSize
<1>8. SelIn(Top(Rest(S, k)), v)
  BY <1>1, <1>2, TopSelection
<1>9. Track(names, Passed(S, k, D), b, t)
  BY <1>2, AllPushedIs DEF Passed
<1>10. SelIn(SelBefore(S, k, sel), t)
  BY <1>2, Zenon DEF SelBefore
<1>11. Track(names, G, b, t) /\ HasSelOnTop(G) /\ G \in Seq(Events)
  BY <1>9, <1>10, PushSelectionIs, TrackIsTyped
<1> HIDE DEF e, G
<1>12. new \in Bursts /\ new.changes = all.anti /\ new.generation = g
  <2> DEFINE A == all.anti
  <2>1. A \in Seq(Changes) /\ new = [changes |-> A, generation |-> g]
    BY <1>6, Zenon
  <2> HIDE DEF A
  <2>2. new \in Bursts /\ new.changes = A /\ new.generation = g
    BY <2>1 DEF Bursts
  <2> QED
    BY <2>2, Zenon DEF A
<1>13. new.changes # <<>> /\ Path(ChangeSteps, new.changes, t, v) /\ Names(names, new.generation, t)
  BY <1>6, <1>7, <1>12, Zenon
<1>14. <<new, t, v>> \in EventSteps(names)
  BY <1>4, <1>12, <1>13, EventStepIs
<1>15. Track(names, Push(G, new), b, v)
  BY <1>11, <1>14, TrackPush
<1>16. Push(G, new) = Append(G, new)
  BY Zenon DEF Push
<1> QED
  BY <1>1, <1>4, <1>5, <1>6, <1>8, <1>15, <1>16, Zenon DEF e, G

Stop(S, selectionOnly, sel) ==
  Max({i \in DOMAIN S : ~IsSel(S[i]) \/ (selectionOnly /\ S[i] # sel)})

LEMMA StopIs ==
  ASSUME NEW S \in Seq(Events), NEW selectionOnly, NEW sel,
         \E i \in DOMAIN S : IF selectionOnly THEN IsSel(S[i]) /\ S[i] # sel ELSE ~IsSel(S[i]),
         NEW k, k = Stop(S, selectionOnly, sel)
  PROVE  k \in 1..Size(S) /\ \A i \in k + 1..Size(S) : IsSel(S[i])
<1> DEFINE n == Size(S)
           T == {i \in DOMAIN S : ~IsSel(S[i]) \/ (selectionOnly /\ S[i] # sel)}
<1>1. n \in Nat /\ DOMAIN S = 1..n
  BY SeqSize
<1> HIDE DEF n
<1>2. T # {}
  <2>1. PICK i \in DOMAIN S : IF selectionOnly THEN IsSel(S[i]) /\ S[i] # sel ELSE ~IsSel(S[i])
    OBVIOUS
  <2>2. i \in T
    BY <2>1
  <2> QED
    BY <2>2
<1>3. T \in SUBSET (0..n) /\ T \subseteq 1..n
  BY <1>1
<1>4. k = Max(T)
  BY Zenon DEF Stop
<1>5. k \in T /\ \A i \in T : k >= i
  <2> HIDE DEF T
  <2>1. Max(T) \in T /\ \A x \in T : Max(T) >= x
    BY <1>1, <1>2, <1>3, LeastAndGreatest
  <2> QED
    BY <1>4, <2>1, Zenon
<1>6. k \in 1..n
  BY <1>3, <1>5
<1>7. ASSUME NEW i \in k + 1..n
      PROVE  IsSel(S[i])
  <2>1. i \in 1..n /\ ~(k >= i)
    BY <1>6
  <2> QED
    BY <1>1, <1>5, <2>1
<1> QED
  BY <1>6, <1>7 DEF n

LeftOf(d, source, rest) == [d EXCEPT !.origin = NoOrigin, !.selOrigin = NoOrigin, ![source] = rest]
SelTaken(l, dest, sel, events) == [l EXCEPT !.sel = sel, ![dest] = events]
TextTaken(l, dest, text, sel, g, events) ==
  [l EXCEPT !.text = text, !.sel = sel, !.generation = g, ![dest] = events]

LEMMA LeftDone ==
  ASSUME NEW d \in Eds, NEW rest \in Seq(Events), NEW l, l = LeftOf(d, "done", rest)
  PROVE  /\ l \in Eds
         /\ l.text = d.text /\ l.sel = d.sel /\ l.done = rest /\ l.undone = d.undone
         /\ l.generation = d.generation /\ l.maxGeneration = d.maxGeneration
         /\ (l.op <=> d.op) /\ (l.selOp <=> d.selOp) /\ l.selOrigin = NoOrigin
<1>1. l.text = d.text /\ l.sel = d.sel /\ l.done = rest /\ l.undone = d.undone
  BY DEF LeftOf, Eds
<1>2. l.generation = d.generation /\ l.maxGeneration = d.maxGeneration
  BY DEF LeftOf, Eds
<1>3. (l.op <=> d.op) /\ (l.selOp <=> d.selOp) /\ l.selOrigin = NoOrigin
  BY DEF LeftOf, Eds
<1>4. /\ l.op \in BOOLEAN /\ l.selOp \in BOOLEAN /\ l.origin \in Origins /\ l.selOrigin \in Origins
      /\ l.modRecent \in BOOLEAN /\ l.selRecent \in BOOLEAN /\ l.sameTime \in BOOLEAN
  <2>1. l.op \in BOOLEAN /\ l.selOp \in BOOLEAN
        /\ l.modRecent \in BOOLEAN /\ l.selRecent \in BOOLEAN /\ l.sameTime \in BOOLEAN
    BY DEF LeftOf, Eds
  <2>2. l.origin = NoOrigin /\ l.selOrigin = NoOrigin
    BY DEF LeftOf, Eds
  <2>3. NoOrigin \in Origins
    BY DEF Origins
  <2> QED
    BY <2>1, <2>2, <2>3
<1>5. DOMAIN l = DOMAIN d /\ l = [f \in DOMAIN l |-> l[f]]
  BY Zenon DEF LeftOf
<1>6. /\ DOMAIN d = EdFields /\ d.text \in Texts /\ d.sel \in Sels /\ d.done \in Seq(Events)
      /\ d.undone \in Seq(Events) /\ d.generation \in Nat /\ d.maxGeneration \in Nat
  BY DEF Eds, EdFields
<1>7. TypedEd(l)
  BY <1>1, <1>2, <1>4, <1>5, <1>6, Zenon DEF TypedEd
<1>8. l \in Eds
  BY <1>7, EdOf
<1> QED
  BY <1>1, <1>2, <1>3, <1>8

LEMMA LeftUndone ==
  ASSUME NEW d \in Eds, NEW rest \in Seq(Events), NEW l, l = LeftOf(d, "undone", rest)
  PROVE  /\ l \in Eds
         /\ l.text = d.text /\ l.sel = d.sel /\ l.done = d.done /\ l.undone = rest
         /\ l.generation = d.generation /\ l.maxGeneration = d.maxGeneration
         /\ (l.op <=> d.op) /\ (l.selOp <=> d.selOp) /\ l.selOrigin = NoOrigin
<1>1. l.text = d.text /\ l.sel = d.sel /\ l.done = d.done /\ l.undone = rest
  BY DEF LeftOf, Eds
<1>2. l.generation = d.generation /\ l.maxGeneration = d.maxGeneration
  BY DEF LeftOf, Eds
<1>3. (l.op <=> d.op) /\ (l.selOp <=> d.selOp) /\ l.selOrigin = NoOrigin
  BY DEF LeftOf, Eds
<1>4. /\ l.op \in BOOLEAN /\ l.selOp \in BOOLEAN /\ l.origin \in Origins /\ l.selOrigin \in Origins
      /\ l.modRecent \in BOOLEAN /\ l.selRecent \in BOOLEAN /\ l.sameTime \in BOOLEAN
  <2>1. l.op \in BOOLEAN /\ l.selOp \in BOOLEAN
        /\ l.modRecent \in BOOLEAN /\ l.selRecent \in BOOLEAN /\ l.sameTime \in BOOLEAN
    BY DEF LeftOf, Eds
  <2>2. l.origin = NoOrigin /\ l.selOrigin = NoOrigin
    BY DEF LeftOf, Eds
  <2>3. NoOrigin \in Origins
    BY DEF Origins
  <2> QED
    BY <2>1, <2>2, <2>3
<1>5. DOMAIN l = DOMAIN d /\ l = [f \in DOMAIN l |-> l[f]]
  BY Zenon DEF LeftOf
<1>6. /\ DOMAIN d = EdFields /\ d.text \in Texts /\ d.sel \in Sels /\ d.done \in Seq(Events)
      /\ d.undone \in Seq(Events) /\ d.generation \in Nat /\ d.maxGeneration \in Nat
  BY DEF Eds, EdFields
<1>7. TypedEd(l)
  BY <1>1, <1>2, <1>4, <1>5, <1>6, Zenon DEF TypedEd
<1>8. l \in Eds
  BY <1>7, EdOf
<1> QED
  BY <1>1, <1>2, <1>3, <1>8

LEMMA SelTakenDone ==
  ASSUME NEW l \in Eds, NEW E \in Seq(Events), NEW sel \in Sels, NEW x, x = SelTaken(l, "done", sel, E)
  PROVE  /\ x \in Eds
         /\ x.text = l.text /\ x.sel = sel /\ x.done = E /\ x.undone = l.undone
         /\ x.generation = l.generation /\ x.maxGeneration = l.maxGeneration
         /\ (x.op <=> l.op) /\ (x.selOp <=> l.selOp) /\ x.selOrigin = l.selOrigin
<1>1. x \in Eds
  BY DEF SelTaken, Eds
<1>2. x.text = l.text /\ x.sel = sel /\ x.done = E /\ x.undone = l.undone
  BY DEF SelTaken, Eds
<1>3. x.generation = l.generation /\ x.maxGeneration = l.maxGeneration
  BY DEF SelTaken, Eds
<1>4. (x.op <=> l.op) /\ (x.selOp <=> l.selOp) /\ x.selOrigin = l.selOrigin
  BY DEF SelTaken, Eds
<1> QED
  BY <1>1, <1>2, <1>3, <1>4

LEMMA SelTakenUndone ==
  ASSUME NEW l \in Eds, NEW E \in Seq(Events), NEW sel \in Sels, NEW x, x = SelTaken(l, "undone", sel, E)
  PROVE  /\ x \in Eds
         /\ x.text = l.text /\ x.sel = sel /\ x.done = l.done /\ x.undone = E
         /\ x.generation = l.generation /\ x.maxGeneration = l.maxGeneration
         /\ (x.op <=> l.op) /\ (x.selOp <=> l.selOp) /\ x.selOrigin = l.selOrigin
<1>1. x \in Eds
  BY DEF SelTaken, Eds
<1>2. x.text = l.text /\ x.sel = sel /\ x.done = l.done /\ x.undone = E
  BY DEF SelTaken, Eds
<1>3. x.generation = l.generation /\ x.maxGeneration = l.maxGeneration
  BY DEF SelTaken, Eds
<1>4. (x.op <=> l.op) /\ (x.selOp <=> l.selOp) /\ x.selOrigin = l.selOrigin
  BY DEF SelTaken, Eds
<1> QED
  BY <1>1, <1>2, <1>3, <1>4

LEMMA TextTakenDone ==
  ASSUME NEW l \in Eds, NEW E \in Seq(Events), NEW sel \in Sels, NEW text \in Texts, NEW g \in Nat,
         NEW x, x = TextTaken(l, "done", text, sel, g, E)
  PROVE  /\ x \in Eds
         /\ x.text = text /\ x.sel = sel /\ x.done = E /\ x.undone = l.undone
         /\ x.generation = g /\ x.maxGeneration = l.maxGeneration
         /\ (x.op <=> l.op) /\ (x.selOp <=> l.selOp) /\ x.selOrigin = l.selOrigin
<1>1. x \in Eds
  BY DEF TextTaken, Eds
<1>2. x.text = text /\ x.sel = sel /\ x.done = E /\ x.undone = l.undone
  BY DEF TextTaken, Eds
<1>3. x.generation = g /\ x.maxGeneration = l.maxGeneration
  BY DEF TextTaken, Eds
<1>4. (x.op <=> l.op) /\ (x.selOp <=> l.selOp) /\ x.selOrigin = l.selOrigin
  BY DEF TextTaken, Eds
<1> QED
  BY <1>1, <1>2, <1>3, <1>4

LEMMA TextTakenUndone ==
  ASSUME NEW l \in Eds, NEW E \in Seq(Events), NEW sel \in Sels, NEW text \in Texts, NEW g \in Nat,
         NEW x, x = TextTaken(l, "undone", text, sel, g, E)
  PROVE  /\ x \in Eds
         /\ x.text = text /\ x.sel = sel /\ x.done = l.done /\ x.undone = E
         /\ x.generation = g /\ x.maxGeneration = l.maxGeneration
         /\ (x.op <=> l.op) /\ (x.selOp <=> l.selOp) /\ x.selOrigin = l.selOrigin
<1>1. x \in Eds
  BY DEF TextTaken, Eds
<1>2. x.text = text /\ x.sel = sel /\ x.done = l.done /\ x.undone = E
  BY DEF TextTaken, Eds
<1>3. x.generation = g /\ x.maxGeneration = l.maxGeneration
  BY DEF TextTaken, Eds
<1>4. (x.op <=> l.op) /\ (x.selOp <=> l.selOp) /\ x.selOrigin = l.selOrigin
  BY DEF TextTaken, Eds
<1> QED
  BY <1>1, <1>2, <1>3, <1>4

\* From done to undone, or back.
Sides(source, dest) == (source = "done" /\ dest = "undone") \/ (source = "undone" /\ dest = "done")

LEMMA SelTakenIs ==
  ASSUME NEW d \in Eds, NEW source, NEW dest, Sides(source, dest), NEW rest \in Seq(Events),
         NEW E \in Seq(Events), NEW sel \in Sels, NEW x, x = SelTaken(LeftOf(d, source, rest), dest, sel, E)
  PROVE  /\ x \in Eds /\ x.text = d.text /\ x.sel = sel /\ x[source] = rest /\ x[dest] = E
         /\ x.generation = d.generation /\ x.maxGeneration = d.maxGeneration
         /\ (x.selOp <=> d.selOp) /\ x.selOrigin = NoOrigin
<1> DEFINE l == LeftOf(d, source, rest)
<1>1. CASE source = "done" /\ dest = "undone"
  <2>1. l = LeftOf(d, "done", rest) /\ x = SelTaken(l, "undone", sel, E)
    BY <1>1, Zenon
  <2> HIDE DEF l
  <2>2. /\ l \in Eds /\ l.text = d.text /\ l.sel = d.sel /\ l.done = rest /\ l.undone = d.undone
        /\ l.generation = d.generation /\ l.maxGeneration = d.maxGeneration
        /\ (l.selOp <=> d.selOp) /\ l.selOrigin = NoOrigin
    BY <2>1, LeftDone
  <2>3. /\ x \in Eds /\ x.text = l.text /\ x.sel = sel /\ x.done = l.done /\ x.undone = E
        /\ x.generation = l.generation /\ x.maxGeneration = l.maxGeneration
        /\ (x.selOp <=> l.selOp) /\ x.selOrigin = l.selOrigin
    BY <2>1, <2>2, SelTakenUndone
  <2> QED
    BY <1>1, <2>2, <2>3, Zenon
<1>2. CASE source = "undone" /\ dest = "done"
  <2>1. l = LeftOf(d, "undone", rest) /\ x = SelTaken(l, "done", sel, E)
    BY <1>2, Zenon
  <2> HIDE DEF l
  <2>2. /\ l \in Eds /\ l.text = d.text /\ l.sel = d.sel /\ l.done = d.done /\ l.undone = rest
        /\ l.generation = d.generation /\ l.maxGeneration = d.maxGeneration
        /\ (l.selOp <=> d.selOp) /\ l.selOrigin = NoOrigin
    BY <2>1, LeftUndone
  <2>3. /\ x \in Eds /\ x.text = l.text /\ x.sel = sel /\ x.done = E /\ x.undone = l.undone
        /\ x.generation = l.generation /\ x.maxGeneration = l.maxGeneration
        /\ (x.selOp <=> l.selOp) /\ x.selOrigin = l.selOrigin
    BY <2>1, <2>2, SelTakenDone
  <2> QED
    BY <1>2, <2>2, <2>3, Zenon
<1> QED
  BY <1>1, <1>2 DEF Sides

LEMMA TextTakenIs ==
  ASSUME NEW d \in Eds, NEW source, NEW dest, Sides(source, dest), NEW rest \in Seq(Events),
         NEW E \in Seq(Events), NEW sel \in Sels, NEW text \in Texts, NEW g \in Nat,
         NEW x, x = TextTaken(LeftOf(d, source, rest), dest, text, sel, g, E)
  PROVE  /\ x \in Eds /\ x.text = text /\ x.sel = sel /\ x[source] = rest /\ x[dest] = E
         /\ x.generation = g /\ x.maxGeneration = d.maxGeneration
         /\ (x.selOp <=> d.selOp) /\ x.selOrigin = NoOrigin
<1> DEFINE l == LeftOf(d, source, rest)
<1>1. CASE source = "done" /\ dest = "undone"
  <2>1. l = LeftOf(d, "done", rest) /\ x = TextTaken(l, "undone", text, sel, g, E)
    BY <1>1, Zenon
  <2> HIDE DEF l
  <2>2. /\ l \in Eds /\ l.done = rest /\ l.maxGeneration = d.maxGeneration
        /\ (l.selOp <=> d.selOp) /\ l.selOrigin = NoOrigin
    BY <2>1, LeftDone
  <2>3. /\ x \in Eds /\ x.text = text /\ x.sel = sel /\ x.done = l.done /\ x.undone = E
        /\ x.generation = g /\ x.maxGeneration = l.maxGeneration
        /\ (x.selOp <=> l.selOp) /\ x.selOrigin = l.selOrigin
    BY <2>1, <2>2, TextTakenUndone
  <2> QED
    BY <1>1, <2>2, <2>3, Zenon
<1>2. CASE source = "undone" /\ dest = "done"
  <2>1. l = LeftOf(d, "undone", rest) /\ x = TextTaken(l, "done", text, sel, g, E)
    BY <1>2, Zenon
  <2> HIDE DEF l
  <2>2. /\ l \in Eds /\ l.undone = rest /\ l.maxGeneration = d.maxGeneration
        /\ (l.selOp <=> d.selOp) /\ l.selOrigin = NoOrigin
    BY <2>1, LeftUndone
  <2>3. /\ x \in Eds /\ x.text = text /\ x.sel = sel /\ x.done = E /\ x.undone = l.undone
        /\ x.generation = g /\ x.maxGeneration = l.maxGeneration
        /\ (x.selOp <=> l.selOp) /\ x.selOrigin = l.selOrigin
    BY <2>1, <2>2, TextTakenDone
  <2> QED
    BY <1>2, <2>2, <2>3, Zenon
<1> QED
  BY <1>1, <1>2 DEF Sides

\* makeChangeFromHistory, part by part.
AllOf(d, source, k) == AllUndo(d[source][k].changes, [text |-> d.text, anti |-> <<>>])
LeftAt(d, source, k) == LeftOf(d, source, Rest(d[source], k))
SelBack(d, source, dest, k) ==
  SelTaken(LeftAt(d, source, k), dest, d[source][k],
           PushSelection(d[source][k], Passed(d[source], k, d[dest])))
TextBack(d, source, dest, k) ==
  TextTaken(LeftAt(d, source, k), dest, AllOf(d, source, k).text, Top(LeftAt(d, source, k)[source]),
            d[source][k].generation,
            Append(PushSelection(SelBefore(d[source], k, d.sel), Passed(d[source], k, d[dest])),
                   [changes |-> AllOf(d, source, k).anti, generation |-> d.generation]))

LEMMA FromHistoryUnfolds ==
  ASSUME NEW d, NEW source, NEW dest, NEW selectionOnly
  PROVE  MakeChangeFromHistory(d, source, dest, selectionOnly) =
           IF IsSel(d[source][Stop(d[source], selectionOnly, d.sel)])
             THEN AddSelectionToHistory(SelBack(d, source, dest, Stop(d[source], selectionOnly, d.sel)),
                                        NoOrigin, FALSE)
             ELSE TextBack(d, source, dest, Stop(d[source], selectionOnly, d.sel))
BY Zenon DEF MakeChangeFromHistory, AllOf, LeftAt, SelBack, TextBack, SelBefore, Passed, AllPushed,
     Above, Rest, LeftOf, SelTaken, TextTaken, AllUndo, Stop

\* The text that a list of events leads to.
Goal(source, s, u) == IF source = "done" THEN s ELSE u

LEMMA DoingBack ==
  ASSUME NEW names, NEW d, NEW s, NEW u, Doing(d, names, s, u), ~d.selOp, d.maxGeneration = Size(names),
         NEW source, NEW dest, Sides(source, dest),
         NEW x \in Eds, SelIn(x.sel, x.text), Track(names, x[source], Goal(source, s, u), x.text),
         Track(names, x[dest], Goal(dest, s, u), x.text), x.maxGeneration = d.maxGeneration,
         Names(names, x.generation, x.text), x.selOp <=> d.selOp, x.selOrigin = NoOrigin
  PROVE  Doing(x, names, s, u)
<1>1. Track(names, x.done, s, x.text) /\ Track(names, x.undone, u, x.text)
  <2>1. "done" # "undone"
    OBVIOUS
  <2> QED
    BY <2>1, Zenon DEF Sides, Goal
<1>2. Aim(x, names, u) = u /\ Known(x, names)
  BY Zenon DEF Aim, Known
<1>3. Size(names) \in Nat /\ x.maxGeneration >= Size(names)
  <2>1. Size(names) \in Nat
    BY DEF Doing
  <2> QED
    BY <2>1
<1>4. ~(x.selOp \/ x.selOrigin # NoOrigin)
  OBVIOUS
<1> QED
  BY <1>1, <1>2, <1>3, <1>4, Zenon DEF Doing

\* makeChangeFromHistory keeps the history true.
LEMMA FromHistoryIs ==
  ASSUME NEW names, NEW d, NEW s, NEW u, Doing(d, names, s, u), ~d.selOp, d.maxGeneration = Size(names),
         NEW source, NEW dest, Sides(source, dest), NEW selectionOnly, Usable(d, source, selectionOnly)
  PROVE  Doing(MakeChangeFromHistory(d, source, dest, selectionOnly), names, s, u)
<1> DEFINE S == d[source]
           D == d[dest]
           k == Stop(d[source], selectionOnly, d.sel)
           a == Goal(source, s, u)
           b == Goal(dest, s, u)
           t == d.text
           r == Rest(S, k)
           new == MakeChangeFromHistory(d, source, dest, selectionOnly)
<1>1. /\ d \in Eds /\ SelIn(d.sel, t) /\ t \in Texts
      /\ Names(names, d.generation, t) /\ d.generation \in Nat
  <2>1. d \in Eds /\ SelIn(d.sel, t) /\ Known(d, names)
    BY Zenon DEF Doing
  <2>2. Names(names, d.generation, t)
    BY <2>1, Zenon DEF Known
  <2> QED
    BY <2>1, <2>2 DEF Eds
<1>2. Track(names, S, a, t) /\ Track(names, D, b, t)
  <2>1. Track(names, d.done, s, t) /\ Track(names, d.undone, Aim(d, names, u), t) /\ Aim(d, names, u) = u
    BY Zenon DEF Doing, Aim
  <2>2. "done" # "undone"
    OBVIOUS
  <2> QED
    BY <2>1, <2>2, Zenon DEF Sides, Goal
<1>3. S \in Seq(Events)
  BY <1>2, TrackIsTyped
<1>4. k \in 1..Size(S) /\ \A i \in k + 1..Size(S) : IsSel(S[i])
  <2>1. \E i \in DOMAIN S : IF selectionOnly THEN IsSel(S[i]) /\ S[i] # d.sel ELSE ~IsSel(S[i])
    BY Zenon DEF Usable
  <2> HIDE DEF S
  <2>2. k = Stop(S, selectionOnly, d.sel)
    BY Zenon DEF S
  <2> HIDE DEF k
  <2> QED
    BY <1>3, <2>1, <2>2, StopIs
<1>5. new = IF IsSel(S[k]) THEN AddSelectionToHistory(SelBack(d, source, dest, k), NoOrigin, FALSE)
            ELSE TextBack(d, source, dest, k)
  BY FromHistoryUnfolds
<1> HIDE DEF S, D, k, a, b, new
<1>6. NoOrigin \in Origins
  BY DEF Origins
<1>7. CASE IsSel(S[k])
  <2> DEFINE e == S[k]
             E == PushSelection(S[k], Passed(S, k, D))
             x == SelBack(d, source, dest, k)
  <2>1. SelIn(e, t) /\ Track(names, r, a, t) /\ Track(names, E, b, t)
    BY <1>2, <1>4, <1>7, SelectionBack
  <2>2. e \in Sels /\ r \in Seq(Events) /\ E \in Seq(Events)
    BY <2>1, TrackIsTyped DEF SelIn
  <2>3. x = SelTaken(LeftOf(d, source, r), dest, e, E)
    BY Zenon DEF SelBack, LeftAt, S, D
  <2> HIDE DEF e, E, x, r, t
  <2>4. /\ x \in Eds /\ x.text = d.text /\ x.sel = e /\ x[source] = r /\ x[dest] = E
        /\ x.generation = d.generation /\ x.maxGeneration = d.maxGeneration
        /\ (x.selOp <=> d.selOp) /\ x.selOrigin = NoOrigin
    BY <1>1, <2>2, <2>3, SelTakenIs
  <2>5. /\ SelIn(x.sel, x.text) /\ Track(names, x[source], Goal(source, s, u), x.text)
        /\ Track(names, x[dest], Goal(dest, s, u), x.text)
        /\ Names(names, x.generation, x.text)
    BY <1>1, <2>1, <2>4, Zenon DEF t, a, b
  <2>6. Doing(x, names, s, u)
    BY <2>4, <2>5, DoingBack
  <2>7. new = AddSelectionToHistory(x, NoOrigin, FALSE)
    BY <1>5, <1>7, Zenon DEF x
  <2> QED
    BY <1>6, <2>6, <2>7, AddSelectionIs DEF new
<1>8. CASE ~IsSel(S[k])
  <2> DEFINE e == S[k]
             all == AllOf(d, source, k)
             add == [changes |-> all.anti, generation |-> d.generation]
             E == Append(PushSelection(SelBefore(S, k, d.sel), Passed(S, k, D)), add)
             l == LeftAt(d, source, k)
             sel == Top(l[source])
             x == TextBack(d, source, dest, k)
  <2>1. all = AllUndo(S[k].changes, [text |-> t, anti |-> <<>>])
    BY Zenon DEF AllOf, S
  <2>2. /\ all.text \in Texts /\ Track(names, r, a, all.text)
        /\ SelIn(Top(r), all.text)
        /\ e.generation \in Nat /\ Names(names, e.generation, all.text)
        /\ Track(names, E, b, all.text)
    <3> HIDE DEF all, t
    <3> QED
      BY <1>1, <1>2, <1>4, <1>8, <2>1, BurstBack DEF t
  <2>3. r \in Seq(Events) /\ E \in Seq(Events)
    BY <2>2, TrackIsTyped
  <2>4. l = LeftOf(d, source, r)
    BY Zenon DEF LeftAt, S
  <2>5. x = TextTaken(LeftOf(d, source, r), dest, all.text, sel, e.generation, E)
    BY <2>4, Zenon DEF TextBack, S, D
  <2>6. l[source] = r
    <3> HIDE DEF l, r
    <3>1. CASE source = "done"
      <4>1. l = LeftOf(d, "done", r)
        BY <2>4, <3>1, Zenon
      <4>2. l.done = r
        BY <1>1, <2>3, <4>1, LeftDone
      <4> QED
        BY <3>1, <4>2, Zenon
    <3>2. CASE source = "undone"
      <4>1. l = LeftOf(d, "undone", r)
        BY <2>4, <3>2, Zenon
      <4>2. l.undone = r
        BY <1>1, <2>3, <4>1, LeftUndone
      <4> QED
        BY <3>2, <4>2, Zenon
    <3> QED
      BY <3>1, <3>2 DEF Sides
  <2>7. SelIn(sel, all.text) /\ sel \in Sels
    <3>1. SelIn(sel, all.text)
      BY <2>2, <2>6, Zenon
    <3> QED
      BY <3>1 DEF SelIn
  <2> DEFINE text == all.text
             g == e.generation
  <2>8. text \in Texts /\ g \in Nat /\ x = TextTaken(LeftOf(d, source, r), dest, text, sel, g, E)
    BY <2>2, <2>5, Zenon
  <2> HIDE DEF e, E, x, r, t, sel, text, g, all, l
  <2>9. /\ x \in Eds /\ x.text = text /\ x.sel = sel /\ x[source] = r /\ x[dest] = E
        /\ x.generation = g /\ x.maxGeneration = d.maxGeneration
        /\ (x.selOp <=> d.selOp) /\ x.selOrigin = NoOrigin
    BY <1>1, <2>3, <2>7, <2>8, TextTakenIs
  <2>10. /\ SelIn(x.sel, x.text) /\ Track(names, x[source], Goal(source, s, u), x.text)
         /\ Track(names, x[dest], Goal(dest, s, u), x.text)
         /\ Names(names, x.generation, x.text)
    BY <2>2, <2>7, <2>9, Zenon DEF text, g, a, b
  <2>11. Doing(x, names, s, u)
    BY <2>9, <2>10, DoingBack
  <2>12. new = x
    BY <1>5, <1>8, Zenon DEF x
  <2> QED
    BY <2>11, <2>12, Zenon DEF new
<1> QED
  BY <1>7, <1>8

-----------------------------------------------------------------------------
\* The inductive invariant of the history: what is to undo leads to the first text, what is
\* to redo to the newest, and every generation that an event or the text has names its text.
HistInv ==
  /\ textAt \in Seq(Texts) /\ ed.maxGeneration = Size(textAt)
  /\ Doing(ed, textAt, first, newest)

Begun(d, quick) ==
  [d EXCEPT !.op = FALSE, !.selOp = FALSE, !.modRecent = @ /\ quick, !.selRecent = @ /\ quick]

LEMMA BegunIs ==
  ASSUME NEW e \in Eds, NEW quick \in BOOLEAN, NEW d, d = Begun(e, quick)
  PROVE  /\ d \in Eds /\ d.text = e.text /\ d.sel = e.sel /\ d.done = e.done /\ d.undone = e.undone
         /\ d.generation = e.generation /\ d.maxGeneration = e.maxGeneration
         /\ ~d.selOp /\ d.selOrigin = e.selOrigin
<1>1. d.text = e.text /\ d.sel = e.sel /\ d.done = e.done /\ d.undone = e.undone
  BY DEF Begun, Eds
<1>2. d.generation = e.generation /\ d.maxGeneration = e.maxGeneration
  BY DEF Begun, Eds
<1>3. ~d.selOp /\ d.selOrigin = e.selOrigin /\ d.origin = e.origin /\ d.sameTime \in BOOLEAN
  BY DEF Begun, Eds
<1>4. d.op \in BOOLEAN /\ d.selOp \in BOOLEAN /\ d.modRecent \in BOOLEAN /\ d.selRecent \in BOOLEAN
  BY DEF Begun, Eds
<1>5. DOMAIN d = DOMAIN e /\ d = [f \in DOMAIN d |-> d[f]]
  BY Zenon DEF Begun
<1>6. /\ DOMAIN e = EdFields /\ e.text \in Texts /\ e.sel \in Sels /\ e.done \in Seq(Events)
      /\ e.undone \in Seq(Events) /\ e.generation \in Nat /\ e.maxGeneration \in Nat
      /\ e.origin \in Origins /\ e.selOrigin \in Origins
  BY DEF Eds, EdFields
<1>7. TypedEd(d)
  BY <1>1, <1>2, <1>3, <1>4, <1>5, <1>6, Zenon DEF TypedEd
<1>8. d \in Eds
  BY <1>7, EdOf
<1> QED
  BY <1>1, <1>2, <1>3, <1>8

\* An operation begins with the history as it is.
LEMMA BeginIs ==
  ASSUME HistInv, NEW quick \in BOOLEAN, NEW d, d = Begin(quick)
  PROVE  /\ Doing(d, textAt, first, newest) /\ ~d.selOp /\ d.maxGeneration = Size(textAt)
         /\ d.text = ed.text /\ d.sel = ed.sel /\ d.text \in Texts /\ SelIn(d.sel, d.text)
<1>1. d = Begun(ed, quick)
  BY Zenon DEF Begin, Begun
<1>2. ed \in Eds
  BY DEF HistInv, Doing
<1>3. /\ d \in Eds /\ d.text = ed.text /\ d.sel = ed.sel /\ d.done = ed.done /\ d.undone = ed.undone
      /\ d.generation = ed.generation /\ d.maxGeneration = ed.maxGeneration
      /\ ~d.selOp /\ d.selOrigin = ed.selOrigin
  BY <1>1, <1>2, BegunIs
<1>4. Aim(d, textAt, newest) = Aim(ed, textAt, newest) /\ Known(d, textAt)
  <2>1. Known(ed, textAt) /\ ed.maxGeneration = Size(textAt)
    BY Zenon DEF HistInv, Doing
  <2> QED
    BY <1>3, <2>1, Zenon DEF Aim, Known
<1>5. Doing(d, textAt, first, newest)
  BY <1>3, <1>4, Zenon DEF Doing, HistInv
<1>6. d.text \in Texts
  BY <1>3, <1>2 DEF Eds
<1>7. SelIn(d.sel, d.text)
  BY <1>5, Zenon DEF Doing
<1> QED
  BY <1>3, <1>5, <1>6, <1>7, Zenon DEF HistInv

LEMMA TrackGrows ==
  ASSUME NEW names, NEW more, \A g, t : Names(names, g, t) => Names(more, g, t),
         NEW E, NEW s, NEW t, Track(names, E, s, t)
  PROVE  Track(more, E, s, t)
<1>1. EventSteps(names) \subseteq EventSteps(more)
  <2> SUFFICES ASSUME NEW x, x \in EventSteps(names)
               PROVE  x \in EventSteps(more)
    BY Zenon
  <2>1. /\ x \in Events \X Texts \X Texts
        /\ IF IsSel(x[1]) THEN SelIn(x[1], x[3]) /\ x[2] = x[3]
           ELSE /\ x[1] \in Bursts /\ x[1].changes # <<>>
                /\ Path(ChangeSteps, x[1].changes, x[2], x[3]) /\ Names(names, x[1].generation, x[2])
    BY Zenon DEF EventSteps
  <2>2. /\ IF IsSel(x[1]) THEN SelIn(x[1], x[3]) /\ x[2] = x[3]
           ELSE /\ x[1] \in Bursts /\ x[1].changes # <<>>
                /\ Path(ChangeSteps, x[1].changes, x[2], x[3]) /\ Names(more, x[1].generation, x[2])
    BY <2>1, Zenon
  <2> QED
    BY <2>1, <2>2, Zenon DEF EventSteps
<1>2. Path(EventSteps(more), E, s, t)
  BY <1>1, PathGrows DEF Track
<1> QED
  BY <1>2, Zenon DEF Track

\* An operation that keeps the history true ends with the invariant.
LEMMA BecomesIs ==
  ASSUME HistInv, NEW d, Doing(d, textAt, first, newest), Becomes(d)
  PROVE  HistInv'
<1> DEFINE n == Size(textAt)
           m == d.maxGeneration - ed.maxGeneration
           q == [i \in 1..m |-> d.text]
           more == Cat(textAt, q)
           w == IF d.maxGeneration = ed.maxGeneration THEN newest ELSE d.text
<1>1. /\ ed' = d /\ newest' = w /\ textAt' = more /\ first' = first
  BY Zenon DEF Becomes, Cat
<1>2. /\ textAt \in Seq(Texts) /\ n \in Nat /\ ed.maxGeneration = n
      /\ d.text \in Texts /\ d.maxGeneration \in Nat /\ d.maxGeneration >= n /\ d.generation \in Nat
  BY SeqSize DEF HistInv, Doing, Eds
<1>3. m \in Nat /\ n + m = d.maxGeneration
  BY <1>2
<1> HIDE DEF m, n
<1>4. q \in Seq(Texts) /\ Size(q) = m /\ \A i \in 1..m : q[i] = d.text
  <2>1. q \in [1..m -> Texts]
    BY <1>2
  <2>2. q \in Seq(Texts) /\ Len(q) = m
    <3> HIDE DEF q
    <3> QED
      BY <1>3, <2>1
  <2> QED
    BY <2>2 DEF Size
<1> HIDE DEF q
<1>5. /\ more \in Seq(Texts) /\ Size(more) = n + m
      /\ \A i \in 1..n : more[i] = textAt[i]
      /\ \A i \in 1..m : more[n + i] = d.text
  <2>1. /\ Cat(textAt, q) \in Seq(Texts) /\ Size(Cat(textAt, q)) = Size(textAt) + Size(q)
        /\ \A i \in 1..Size(textAt) : Cat(textAt, q)[i] = textAt[i]
        /\ \A i \in 1..Size(q) : Cat(textAt, q)[Size(textAt) + i] = q[i]
    BY <1>2, <1>4, CatIs
  <2> QED
    BY <1>4, <2>1 DEF n
<1> HIDE DEF more, w
<1>6. \A g, t : Names(textAt, g, t) => Names(more, g, t)
  <2> SUFFICES ASSUME NEW g, NEW t, Names(textAt, g, t)
               PROVE  Names(more, g, t)
    BY Zenon
  <2>1. g \in 1..n /\ textAt[g] = t
    BY Zenon DEF Names, n
  <2>2. g \in 1..Size(more) /\ more[g] = t
    BY <1>2, <1>3, <1>5, <2>1
  <2> QED
    BY <2>2, Zenon DEF Names
<1>7. w = Aim(d, textAt, newest) /\ Aim(d, more, w) = w
  <2>1. d.maxGeneration = Size(more)
    BY <1>3, <1>5
  <2> QED
    BY <1>2, <2>1, Zenon DEF Aim, w, n
<1>8. Known(d, more)
  <2>1. d.maxGeneration = Size(more) /\ Known(d, textAt)
    BY <1>3, <1>5, Zenon DEF Doing
  <2>2. CASE d.maxGeneration = n
    <3>1. Names(textAt, d.generation, d.text)
      BY <2>1, <2>2, Zenon DEF Known, n
    <3> QED
      BY <1>6, <2>1, <3>1, Zenon DEF Known
  <2>3. CASE d.maxGeneration # n
    <3>1. d.generation = d.maxGeneration
      BY <2>1, <2>3, Zenon DEF Known, n
    <3>2. m \in 1..m /\ n + m \in 1..Size(more)
      BY <1>2, <1>3, <1>5, <2>3
    <3>3. more[d.generation] = d.text /\ d.generation \in 1..Size(more)
      BY <1>3, <1>5, <3>1, <3>2
    <3> QED
      BY <2>1, <3>3, Zenon DEF Known, Names
  <2> QED
    BY <2>2, <2>3
<1>9. Track(more, d.done, first, d.text) /\ Track(more, d.undone, w, d.text)
  <2>1. Track(textAt, d.done, first, d.text) /\ Track(textAt, d.undone, w, d.text)
    BY <1>7, Zenon DEF Doing
  <2> QED
    BY <1>6, <2>1, TrackGrows
<1>10. Doing(d, more, first, w)
  <2>1. /\ d \in Eds /\ SelIn(d.sel, d.text) /\ (d.selOp \/ d.selOrigin # NoOrigin => HasSelOnTop(d.done))
    BY Zenon DEF Doing
  <2>2. Size(more) \in Nat /\ d.maxGeneration >= Size(more)
    BY <1>2, <1>3, <1>5
  <2> QED
    BY <1>7, <1>8, <1>9, <2>1, <2>2, Zenon DEF Doing
<1>11. more \in Seq(Texts) /\ d.maxGeneration = Size(more)
  BY <1>3, <1>5
<1> QED
  BY <1>1, <1>10, <1>11, Zenon DEF HistInv

\* What may be typed, and what an editor begins with, are texts.
LEMMA TypedTextsAre ==
  \A text \in Typed \cup {<< <<>> >>} : text \in Texts
<1> SUFFICES ASSUME NEW text \in Typed \cup {<< <<>> >>}
             PROVE  text \in Texts
  OBVIOUS
<1>1. CASE text \in Typed
  <2>1. text \in LineSeqs /\ text # <<>>
    BY <1>1, EditorHistoryAssumption DEF LineSeqs, TextLines
  <2>2. Size(text) \in Nat /\ Size(text) # 0
    BY <2>1, SeqSize DEF LineSeqs
  <2>3. Size(text) >= 1
    BY <2>2
  <2> QED
    BY <2>1, <2>3 DEF Texts
<1>2. CASE text = << <<>> >>
  <2>1. <<>> \in TextLines
    BY DEF TextLines
  <2>2. One(<<>>) \in LineSeqs /\ Size(One(<<>>)) = 1
    BY <2>1, TextOne
  <2>3. text = One(<<>>)
    BY <1>2, Zenon DEF One
  <2> QED
    BY <2>2, <2>3 DEF Texts
<1> QED
  BY <1>1, <1>2

LEMMA OneRange ==
  ASSUME NEW t, NEW r, SpanIn(r, t)
  PROVE  SelIn(Selection(<<r>>, 1), t)
<1> DEFINE R == <<r>>
           sel == Selection(R, 1)
<1>1. r \in Spans
  BY SpanEnds
<1>2. R \in Seq(Spans) /\ Size(R) = 1 /\ R[1] = r
  BY <1>1 DEF Size
<1> HIDE DEF R
<1>3. AllIn(R, t)
  <2>1. \A i \in 1..Size(R) : R[i] = r
    BY <1>2
  <2> QED
    BY <1>2, <2>1, Zenon DEF AllIn
<1>4. Apart(R)
  <2>1. 2..Size(R) = {}
    BY <1>2
  <2> QED
    BY <1>2, <2>1, ApartIs
<1>5. sel \in Sels /\ sel.ranges = R /\ sel.prim = 1
  BY <1>2, FieldsOfSelection
<1> HIDE DEF sel
<1>6. sel.prim \in 1..Size(sel.ranges)
  BY <1>2, <1>5
<1>7. SelIn(sel, t)
  BY <1>3, <1>4, <1>5, <1>6, SelInIs, Zenon
<1> QED
  BY <1>7 DEF sel, R

LEMMA AtTop ==
  ASSUME NEW t \in Texts
  PROVE  SelIn(SimpleSelection(Pos(0, 0), Pos(0, 0)), t)
<1>1. InText(t, Pos(0, 0))
  BY EndIs
<1>2. SpanIn(Span(Pos(0, 0), Pos(0, 0)), t)
  BY <1>1, SpanOf
<1>3. SelIn(Selection(<<Span(Pos(0, 0), Pos(0, 0))>>, 1), t)
  BY <1>2, OneRange
<1> QED
  BY <1>3, Zenon DEF SimpleSelection

LEMMA NewHistoryIs ==
  ASSUME NEW t \in Texts, NEW e, e = NewHistory(t), NEW names, names = <<t>>
  PROVE  Doing(e, names, t, t) /\ e.maxGeneration = Size(names) /\ names \in Seq(Texts)
<1> DEFINE top == SimpleSelection(Pos(0, 0), Pos(0, 0))
           E == <<top>>
<1>1. names \in Seq(Texts) /\ Size(names) = 1 /\ names[1] = t
  BY DEF Size
<1>2. SelIn(top, t)
  BY AtTop
<1>3. e = [text |-> t, sel |-> top, done |-> E, undone |-> <<>>,
           op |-> FALSE, selOp |-> FALSE, origin |-> NoOrigin, selOrigin |-> NoOrigin,
           modRecent |-> FALSE, selRecent |-> FALSE, sameTime |-> TRUE,
           generation |-> 1, maxGeneration |-> 1]
  BY Zenon DEF NewHistory
<1> HIDE DEF top
<1>4. top \in Sels /\ top \in Events /\ IsSel(top) /\ <<top, t, t>> \in EventSteps(names)
  <2>1. top \in Sels
    BY <1>2 DEF SelIn
  <2> QED
    BY <1>2, <2>1, SelOrBurst, EventStepIs
<1>5. Track(names, <<>>, t, t) /\ <<>> \in Seq(Events)
  BY TrackOfNothing, TrackIsTyped
<1>6. E = Push(<<>>, top)
  BY DEF Push
<1> HIDE DEF E
<1>7. Track(names, E, t, t)
  BY <1>4, <1>5, <1>6, TrackPush
<1>8. E \in Seq(Events)
  BY <1>7, TrackIsTyped
<1>9. e.text = t /\ e.sel = top /\ e.done = E /\ e.undone = <<>>
  BY <1>3
<1>10. ~e.selOp /\ e.selOrigin = NoOrigin /\ e.generation = 1 /\ e.maxGeneration = 1
  BY <1>3
<1>11. e \in Eds
  <2>1. NoOrigin \in Origins
    BY DEF Origins
  <2>2. <<>> \in Seq(Events) /\ 1 \in Nat
    BY <1>5
  <2> QED
    BY <1>3, <1>4, <1>8, <2>1, <2>2 DEF Eds
<1>12. Aim(e, names, t) = t /\ Known(e, names) /\ Size(names) \in Nat /\ e.maxGeneration >= Size(names)
       /\ e.maxGeneration = Size(names)
  <2>1. e.maxGeneration = Size(names) /\ 1 \in 1..Size(names)
    BY <1>1, <1>10
  <2>2. Names(names, e.generation, e.text)
    BY <1>1, <1>9, <1>10, <2>1, Zenon DEF Names
  <2>3. Size(names) \in Nat /\ e.maxGeneration >= Size(names)
    BY <1>1, <2>1
  <2> QED
    BY <2>1, <2>2, <2>3, Zenon DEF Aim, Known
<1> QED
  BY <1>1, <1>2, <1>5, <1>7, <1>9, <1>10, <1>11, <1>12, Zenon DEF Doing

\* The history begins with the invariant, and again when the page is loaded again.
LEMMA HistInvInit ==
  HistoryInit => HistInv
<1> SUFFICES ASSUME HistoryInit
             PROVE  HistInv
  OBVIOUS
<1>1. PICK text \in Typed \cup {<< <<>> >>} :
        ed = NewHistory(text) /\ first = text /\ newest = text /\ textAt = <<text>>
  BY Zenon DEF HistoryInit
<1>2. text \in Texts
  BY TypedTextsAre
<1> QED
  BY <1>1, <1>2, NewHistoryIs, Zenon DEF HistInv

LEMMA ReloadKeeps ==
  ASSUME Reload
  PROVE  HistInv'
<1>1. PICK text \in Typed :
        ed' = NewHistory(text) /\ first' = text /\ newest' = text /\ textAt' = <<text>>
  BY Zenon DEF Reload
<1>2. text \in Texts
  BY TypedTextsAre
<1> QED
  BY <1>1, <1>2, NewHistoryIs, Zenon DEF HistInv

-----------------------------------------------------------------------------
\* The operations.
LEMMA ChangeFits ==
  ASSUME NEW t \in Texts, NEW f, NEW g, InText(t, f), InText(t, g), NotAfter(f, g), NEW x \in Texts
  PROVE  Fits(t, Change(f, g, x))
<1> DEFINE c == Change(f, g, x)
<1>1. c.from = f /\ c.to = g /\ c.text = x /\ c = Change(c.from, c.to, c.text)
  BY FieldsOfChange
<1> HIDE DEF c
<1>2. Fits(t, c)
  BY <1>1, Zenon DEF Fits
<1> QED
  BY <1>2, Zenon DEF c

\* What replaces the ranges of a selection are changes in a row.
LEMMA RowOfRanges ==
  ASSUME NEW t \in Texts, NEW sel, SelIn(sel, t), NEW C, NEW X, DOMAIN C = DOMAIN sel.ranges,
         \A i \in DOMAIN sel.ranges :
           X[i] \in Texts /\ C[i] = Change(From(sel.ranges[i]), To(sel.ranges[i]), X[i])
  PROVE  InRow(C, Size(sel.ranges), t)
<1> DEFINE r == sel.ranges
           n == Size(r)
<1>1. AllIn(r, t) /\ Apart(r)
  BY SelInIs
<1>2. r \in Seq(Spans) /\ \A i \in 1..n : SpanIn(r[i], t)
  BY <1>1, Zenon DEF AllIn
<1>3. n \in Nat /\ DOMAIN r = 1..n /\ \A i \in 2..n : Before(To(r[i - 1]), From(r[i]))
  BY <1>1, <1>2, SeqSize, ApartIs
<1> HIDE DEF r, n
<1>4. ASSUME NEW i \in 1..n
      PROVE  /\ Fits(t, C[i]) /\ C[i].from = From(r[i]) /\ C[i].to = To(r[i])
             /\ C[i].from \in Spots /\ C[i].to \in Spots
  <2>1. X[i] \in Texts /\ C[i] = Change(From(r[i]), To(r[i]), X[i])
    BY <1>3, Zenon DEF r
  <2>2. /\ InText(t, From(r[i])) /\ InText(t, To(r[i])) /\ From(r[i]) \in Spots /\ To(r[i]) \in Spots
        /\ NotAfter(From(r[i]), To(r[i]))
    BY <1>2, SpanEnds
  <2>3. Fits(t, Change(From(r[i]), To(r[i]), X[i]))
    BY <2>1, <2>2, ChangeFits
  <2>4. C[i].from = From(r[i]) /\ C[i].to = To(r[i])
    <3>1. /\ Change(From(r[i]), To(r[i]), X[i]).from = From(r[i])
          /\ Change(From(r[i]), To(r[i]), X[i]).to = To(r[i])
      BY FieldsOfChange
    <3> QED
      BY <2>1, <3>1, Zenon
  <2> QED
    BY <2>1, <2>2, <2>3, <2>4, Zenon
<1>5. ASSUME NEW i \in 2..n
      PROVE  NotAfter(C[i - 1].to, C[i].from)
  <2>1. i \in 1..n /\ i - 1 \in 1..n
    BY <1>3
  <2>2. Before(To(r[i - 1]), From(r[i])) /\ C[i - 1].to = To(r[i - 1]) /\ C[i].from = From(r[i])
        /\ C[i - 1].to \in Spots /\ C[i].from \in Spots
    BY <1>3, <1>4, <2>1
  <2>3. Before(C[i - 1].to, C[i].from)
    BY <2>2, Zenon
  <2> QED
    BY <2>2, <2>3, OrderLaws
<1>6. DOMAIN C = 1..n
  BY <1>3, Zenon DEF r
<1> QED
  BY <1>3, <1>4, <1>5, <1>6, Zenon DEF InRow, n, r

LEMMA InputKeeps ==
  ASSUME HistInv, NEW text \in Typed, NEW origin \in {"+input", "paste"}, NEW quick \in BOOLEAN,
         ApplyTextInput(text, origin, quick)
  PROVE  HistInv'
<1> DEFINE d == Begin(quick)
           r == d.sel.ranges
           each == origin = "paste" /\ Len(d.sel.ranges) = Len(text)
           X == [i \in DOMAIN r |-> IF each THEN <<text[i]>> ELSE text]
           C == [i \in DOMAIN r |-> Change(From(r[i]), To(r[i]), IF each THEN <<text[i]>> ELSE text)]
<1>1. Becomes(MakeChanges(d, C, origin))
  BY Zenon DEF ApplyTextInput
<1>2. /\ Doing(d, textAt, first, newest) /\ d.text \in Texts /\ SelIn(d.sel, d.text)
  BY BeginIs
<1>3. text \in Texts /\ origin \in Origins
  BY TypedTextsAre DEF Origins
<1>4. r \in Seq(Spans)
  BY <1>2, SelInIs DEF AllIn
<1> HIDE DEF d
<1>5. ASSUME NEW i \in DOMAIN r
      PROVE  (IF each THEN <<text[i]>> ELSE text) \in Texts
  <2>1. CASE each
    <3>1. i \in 1..Len(text) /\ Len(text) = Size(text)
      BY <1>4, <2>1 DEF Size
    <3>2. text[i] \in TextLines
      BY <1>3, <3>1, TextsAre
    <3>3. One(text[i]) \in LineSeqs /\ Size(One(text[i])) = 1
      BY <3>2, TextOne
    <3>4. One(text[i]) \in Texts
      BY <3>3 DEF Texts
    <3> QED
      BY <2>1, <3>4, Zenon DEF One
  <2>2. CASE ~each
    BY <1>3, <2>2, Zenon
  <2> QED
    BY <2>1, <2>2
<1>6. \A i \in DOMAIN r : X[i] \in Texts /\ C[i] = Change(From(r[i]), To(r[i]), X[i])
  BY <1>5, Zenon
<1>7. DOMAIN C = DOMAIN r
  BY Zenon
<1> HIDE DEF C, X, each
<1>8. InRow(C, Size(r), d.text)
  BY <1>2, <1>6, <1>7, RowOfRanges
<1> HIDE DEF r
<1>9. Doing(MakeChanges(d, C, origin), textAt, first, newest)
  BY <1>2, <1>3, <1>8, MakeChangesIs
<1> QED
  BY <1>1, <1>9, BecomesIs

LEMMA SetAllKeeps ==
  ASSUME HistInv, NEW text \in Typed, NEW quick \in BOOLEAN, SetAll(text, quick)
  PROVE  HistInv'
<1> DEFINE d == Begin(quick)
           top == SimpleSelection(Pos(0, 0), Pos(0, 0))
           c == Change(Pos(0, 0), EndOf(d.text), text)
           e == MakeChange(d, c, "setValue")
           f == SelSet(e, top)
           g == AddSelectionToHistory(f, NoOrigin, FALSE)
<1>1. Becomes(g)
  BY Zenon DEF SetAll, SelSet
<1>2. Doing(d, textAt, first, newest) /\ d.text \in Texts
  BY BeginIs
<1>3. text \in Texts /\ "setValue" \in Origins /\ NoOrigin \in Origins
  BY TypedTextsAre DEF Origins
<1> HIDE DEF d
<1>4. Fits(d.text, c)
  <2>1. InText(d.text, Pos(0, 0)) /\ InText(d.text, EndOf(d.text))
    BY <1>2, EndIs
  <2>2. NotAfter(Pos(0, 0), EndOf(d.text))
    BY <1>2, <2>1, EndOfBetween
  <2> QED
    BY <1>2, <1>3, <2>1, <2>2, ChangeFits
<1> HIDE DEF c
<1>5. Doing(e, textAt, first, newest)
  BY <1>2, <1>3, <1>4, MakeChangeIs
<1>6. e.text \in Texts
  BY <1>5 DEF Doing, Eds
<1> HIDE DEF e
<1>7. Doing(f, textAt, first, newest)
  BY <1>5, <1>6, AtTop, DoingWithSel
<1> HIDE DEF f
<1>8. Doing(g, textAt, first, newest)
  BY <1>3, <1>7, AddSelectionIs
<1> HIDE DEF g
<1> QED
  BY <1>1, <1>8, BecomesIs

LEMMA HistoryKeeps ==
  ASSUME HistInv, NEW source, NEW dest, Sides(source, dest), NEW selectionOnly, NEW quick \in BOOLEAN,
         History(source, dest, selectionOnly, quick)
  PROVE  HistInv'
<1> DEFINE d == Begin(quick)
           e == MakeChangeFromHistory(d, source, dest, selectionOnly)
<1>1. Usable(d, source, selectionOnly) /\ Becomes(e)
  BY Zenon DEF History
<1>2. Doing(d, textAt, first, newest) /\ ~d.selOp /\ d.maxGeneration = Size(textAt)
  BY BeginIs
<1> HIDE DEF d
<1>3. Doing(e, textAt, first, newest)
  BY <1>1, <1>2, FromHistoryIs
<1> HIDE DEF e
<1> QED
  BY <1>1, <1>3, BecomesIs

\* The cursor stays in the text, and behind whatever was before it.
LEMMA MoveIs ==
  ASSUME NEW t \in Texts, NEW p, InText(t, p), NEW dir \in {-1, 1}, NEW m, m = MoveH(t, p, dir)
  PROVE  InText(t, m) /\ \A q : InText(t, q) /\ Before(q, p) => NotAfter(q, m)
<1> DEFINE l == LineNo(p)
           c == Ch(p)
           n == Size(t)
           Lg(i) == Size(t[i])
<1>1. p \in Spots /\ l \in Nat /\ c \in Nat /\ l + 1 <= n /\ c <= Lg(l + 1)
  BY SpotIs DEF InText
<1>2. n \in Nat /\ n >= 1 /\ \A i \in 1..n : Lg(i) \in Nat
  BY TextsAre
<1>3. \A i : LengthAt(t, i) = Lg(i + 1)
  BY Zenon DEF LengthAt, Size
<1>4. LastLine(t) = n - 1
  BY DEF LastLine, Size
<1> HIDE DEF l, c, n, Lg
<1>5. ASSUME NEW q, InText(t, q), Before(q, p)
      PROVE  /\ q \in Spots /\ LineNo(q) \in Nat /\ Ch(q) \in Nat /\ LineNo(q) + 1 <= n
             /\ Ch(q) <= Lg(LineNo(q) + 1)
             /\ LineNo(q) < l \/ (LineNo(q) = l /\ Ch(q) < c)
  <2>1. q \in Spots /\ LineNo(q) + 1 <= n /\ Ch(q) <= Lg(LineNo(q) + 1)
    BY <1>5 DEF InText, n, Lg
  <2>2. LineNo(q) \in Nat /\ Ch(q) \in Nat
    BY <2>1, SpotIs
  <2>3. LineNo(q) < l \/ (LineNo(q) = l /\ Ch(q) < c)
    BY <1>1, <1>5, <2>1, OrderIs DEF l, c
  <2> QED
    BY <2>1, <2>2, <2>3
<1>6. CASE c + dir \in 0..Lg(l + 1)
  <2>1. m = Pos(l, c + dir)
    BY <1>3, <1>6, Zenon DEF MoveH, l, c
  <2>2. c + dir \in Nat /\ c + dir <= Lg(l + 1)
    <3>1. l + 1 \in 1..n
      BY <1>1, <1>2
    <3> QED
      BY <1>1, <1>2, <1>6, <3>1
  <2>3. LineNo(m) = l /\ Ch(m) = c + dir /\ m \in Spots
    BY <1>1, <2>1, <2>2, SpotIs
  <2>4. InText(t, m)
    BY <1>1, <2>2, <2>3 DEF InText, n, Lg
  <2>5. ASSUME NEW q, InText(t, q), Before(q, p)
        PROVE  NotAfter(q, m)
    <3>1. /\ q \in Spots /\ LineNo(q) \in Nat /\ Ch(q) \in Nat
          /\ LineNo(q) < l \/ (LineNo(q) = l /\ Ch(q) < c)
      BY <1>5, <2>5
    <3>2. LineNo(q) < l \/ (LineNo(q) = l /\ Ch(q) <= c + dir)
      BY <1>1, <3>1
    <3> QED
      BY <2>3, <3>1, <3>2, OrderIs
  <2> QED
    BY <2>4, <2>5
<1>7. CASE c + dir \notin 0..Lg(l + 1) /\ l + dir \notin 0..n - 1
  <2>1. m = p
    BY <1>3, <1>4, <1>7, Zenon DEF MoveH, l, c
  <2>2. ASSUME NEW q, InText(t, q), Before(q, p)
        PROVE  NotAfter(q, m)
    BY <1>1, <1>5, <2>1, <2>2, OrderLaws
  <2> QED
    BY <2>1, <2>2
<1>8. CASE c + dir \notin 0..Lg(l + 1) /\ l + dir \in 0..n - 1
  <2>1. m = Pos(l + dir, IF dir < 0 THEN Lg(l - 1 + 1) ELSE 0)
    BY <1>3, <1>4, <1>8, Zenon DEF MoveH, l, c
  <2>2. CASE dir = 1
    <3>1. m = Pos(l + 1, 0) /\ l + 1 \in Nat /\ l + 2 <= n
      BY <1>1, <1>2, <1>8, <2>1, <2>2
    <3>2. LineNo(m) = l + 1 /\ Ch(m) = 0 /\ m \in Spots
      BY <3>1, SpotIs
    <3>3. InText(t, m)
      <4>1. l + 1 + 1 \in 1..n
        BY <1>1, <1>2, <3>1
      <4>2. Lg(l + 1 + 1) \in Nat
        BY <1>2, <4>1
      <4>3. LineNo(m) + 1 <= n /\ Ch(m) <= Lg(LineNo(m) + 1)
        BY <3>2, <4>1, <4>2
      <4> QED
        BY <3>2, <4>3 DEF InText, n, Lg
    <3>4. ASSUME NEW q, InText(t, q), Before(q, p)
          PROVE  NotAfter(q, m)
      <4>1. /\ q \in Spots /\ LineNo(q) \in Nat /\ (LineNo(q) < l \/ LineNo(q) = l)
        BY <1>5, <3>4
      <4>2. LineNo(q) < LineNo(m)
        BY <1>1, <3>2, <4>1
      <4> QED
        BY <3>2, <4>1, <4>2, OrderIs
    <3> QED
      BY <3>3, <3>4
  <2>3. CASE dir = -1
    <3>1. m = Pos(l - 1, Lg(l)) /\ l - 1 \in Nat /\ l \in 1..n /\ c = 0
      <4>1. l + 1 \in 1..n
        BY <1>1, <1>2
      <4>2. l - 1 \in Nat /\ l \in 1..n /\ c = 0
        BY <1>1, <1>2, <1>8, <2>3, <4>1
      <4>3. l + dir = l - 1 /\ l - 1 + 1 = l /\ dir < 0
        BY <1>1, <2>3
      <4> QED
        BY <2>1, <4>2, <4>3
    <3>2. Lg(l) \in Nat
      BY <1>2, <3>1
    <3>3. LineNo(m) = l - 1 /\ Ch(m) = Lg(l) /\ m \in Spots
      BY <3>1, <3>2, SpotIs
    <3>4. InText(t, m)
      <4>1. LineNo(m) + 1 = l /\ l <= n
        BY <1>1, <1>2, <3>3
      <4>2. LineNo(m) + 1 <= n /\ Ch(m) <= Lg(LineNo(m) + 1)
        BY <1>2, <3>2, <3>3, <4>1
      <4> QED
        BY <3>3, <4>2 DEF InText, n, Lg
    <3>5. ASSUME NEW q, InText(t, q), Before(q, p)
          PROVE  NotAfter(q, m)
      <4>1. /\ q \in Spots /\ LineNo(q) \in Nat /\ Ch(q) \in Nat
            /\ LineNo(q) < l \/ (LineNo(q) = l /\ Ch(q) < c)
            /\ Ch(q) <= Lg(LineNo(q) + 1)
        BY <1>5, <3>5
      <4>2. LineNo(q) < l
        BY <1>1, <3>1, <4>1
      <4>3. CASE LineNo(q) = l - 1
        <5>1. LineNo(q) + 1 = l
          BY <1>1, <4>3
        <5>2. Ch(q) <= Lg(l)
          BY <4>1, <5>1
        <5> QED
          BY <3>3, <4>1, <4>3, <5>2, OrderIs
      <4>4. CASE LineNo(q) # l - 1
        <5>1. LineNo(q) < l - 1
          BY <1>1, <4>1, <4>2, <4>4
        <5> QED
          BY <3>3, <4>1, <5>1, OrderIs
      <4> QED
        BY <4>3, <4>4
    <3> QED
      BY <3>4, <3>5
  <2> QED
    BY <2>2, <2>3
<1> QED
  BY <1>6, <1>7, <1>8

LEMMA AllInOf ==
  ASSUME NEW t, NEW R, NEW n \in Nat, DOMAIN R = 1..n, R = [i \in 1..n |-> R[i]],
         \A i \in 1..n : SpanIn(R[i], t)
  PROVE  AllIn(R, t) /\ Size(R) = n
<1>1. \A i \in 1..n : R[i] \in Spans
  BY Zenon DEF SpanIn
<1>2. R \in Seq(Spans) /\ Len(R) = n
  BY <1>1
<1> QED
  BY <1>2, Zenon DEF AllIn, Size

LEMMA ExtendedIn ==
  ASSUME NEW t, NEW r, SpanIn(r, t), NEW p, InText(t, p), NEW shift
  PROVE  SpanIn(ExtendRange(r, p, shift), t)
<1>1. InText(t, r.anchor)
  BY Zenon DEF SpanIn
<1>2. SpanIn(Span(r.anchor, p), t) /\ SpanIn(Span(p, p), t)
  BY <1>1, SpanOf
<1> QED
  BY <1>2, Zenon DEF ExtendRange

\* Where a range goes with the cursor.
HeadAfter(t, r, dir, shift) ==
  IF shift \/ EmptyRange(r) THEN MoveH(t, r.head, dir)
  ELSE IF dir < 0 THEN From(r) ELSE To(r)

LEMMA MoveCursorKeeps ==
  ASSUME HistInv, NEW dir \in {-1, 1}, NEW shift \in BOOLEAN, NEW quick \in BOOLEAN,
         MoveCursor(dir, shift, quick)
  PROVE  HistInv'
<1> DEFINE d == Begin(quick)
           r == d.sel.ranges
           n == Size(r)
           R == [i \in DOMAIN r |-> ExtendRange(r[i], HeadAfter(d.text, r[i], dir, shift), shift)]
           sel == NormalizeSelection(R, d.sel.prim)
           e == SetSelection(d, sel, "+move")
<1>1. Becomes(e)
  BY Zenon DEF MoveCursor, HeadAfter
<1>2. Doing(d, textAt, first, newest) /\ d.text \in Texts /\ SelIn(d.sel, d.text)
  BY BeginIs
<1> HIDE DEF d
<1>3. AllIn(r, d.text) /\ d.sel.prim \in 1..n
  BY <1>2, SelInIs
<1>4. r \in Seq(Spans) /\ \A i \in 1..n : SpanIn(r[i], d.text)
  BY <1>3, Zenon DEF AllIn
<1> HIDE DEF r
<1>5. n \in Nat /\ DOMAIN r = 1..n
  BY <1>4, SeqSize
<1> HIDE DEF n
<1>6. ASSUME NEW i \in 1..n
      PROVE  SpanIn(R[i], d.text)
  <2> DEFINE h == HeadAfter(d.text, r[i], dir, shift)
             x == r[i]
  <2>1. SpanIn(x, d.text)
    BY <1>4
  <2>2. R[i] = ExtendRange(x, h, shift)
    BY <1>5
  <2> HIDE DEF R, x
  <2>3. InText(d.text, x.head)
    BY <2>1, Zenon DEF SpanIn
  <2>4. InText(d.text, MoveH(d.text, x.head, dir)) /\ InText(d.text, From(x)) /\ InText(d.text, To(x))
    BY <1>2, <2>1, <2>3, MoveIs, SpanEnds
  <2>5. InText(d.text, h)
    BY <2>4, Zenon DEF HeadAfter, x
  <2> HIDE DEF h
  <2> QED
    BY <2>1, <2>2, <2>5, ExtendedIn
<1>7. DOMAIN R = 1..n /\ R = [i \in 1..n |-> R[i]]
  BY <1>5, Zenon
<1> HIDE DEF R
<1>8. AllIn(R, d.text) /\ d.sel.prim \in 1..Size(R)
  BY <1>3, <1>5, <1>6, <1>7, AllInOf DEF n
<1>9. SelIn(sel, d.text)
  BY <1>8, RangesEndApart
<1> HIDE DEF sel
<1>10. "+move" \in Origins
  BY DEF Origins
<1>11. Doing(e, textAt, first, newest)
  BY <1>2, <1>9, <1>10, SetSelectionIs
<1> HIDE DEF e
<1> QED
  BY <1>1, <1>11, BecomesIs

\* The ranges without one of them, or with one of them in another place.
LEMMA WithoutRange ==
  ASSUME NEW t, NEW R, AllIn(R, t), NEW i \in 1..Size(R), Size(R) > 1
  PROVE  LET S == SubSeq(R, 1, i - 1) \o SubSeq(R, i + 1, Len(R))
         IN  AllIn(S, t) /\ 1 \in 1..Size(S)
<1> DEFINE n == Size(R)
           a == Sub(R, 1, i - 1)
           b == Sub(R, i + 1, n)
           S == Cat(a, b)
<1>1. R \in Seq(Spans) /\ n \in Nat /\ \A j \in 1..n : SpanIn(R[j], t)
  BY SeqSize DEF AllIn
<1>2. /\ 1 \in Int /\ i - 1 \in Int /\ i + 1 \in Int /\ n \in Int /\ 1 <= 1 /\ 1 <= i + 1
      /\ i - 1 <= n /\ n <= n /\ n > 1 /\ i \in Nat
  BY <1>1
<1>3. a \in Seq(Spans) /\ Size(a) = i - 1 /\ \A j \in 1..i - 1 : a[j] = R[j]
  <2>1. /\ a \in Seq(Spans) /\ Size(a) = IF 1 <= i - 1 THEN i - 1 - 1 + 1 ELSE 0
        /\ \A j \in 1..i - 1 - 1 + 1 : a[j] = R[1 + j - 1]
    BY <1>1, <1>2, SubIs
  <2> HIDE DEF a, n
  <2>2. i - 1 - 1 + 1 = i - 1 /\ (IF 1 <= i - 1 THEN i - 1 - 1 + 1 ELSE 0) = i - 1
        /\ \A j \in 1..i - 1 : 1 + j - 1 = j
    BY <1>2
  <2> QED
    BY <2>1, <2>2
<1>4. b \in Seq(Spans) /\ Size(b) = n - i /\ \A j \in 1..n - i : b[j] = R[i + j]
  <2>1. /\ b \in Seq(Spans) /\ Size(b) = IF i + 1 <= n THEN n - (i + 1) + 1 ELSE 0
        /\ \A j \in 1..n - (i + 1) + 1 : b[j] = R[i + 1 + j - 1]
    BY <1>1, <1>2, SubIs
  <2>2. n - (i + 1) + 1 = n - i /\ (IF i + 1 <= n THEN n - (i + 1) + 1 ELSE 0) = n - i
        /\ \A j \in 1..n - i : i + 1 + j - 1 = i + j
    <3> HIDE DEF n
    <3>1. i <= n
      BY <1>1 DEF n
    <3> QED
      BY <1>2, <3>1
  <2> HIDE DEF b, n
  <2> QED
    BY <2>1, <2>2
<1>5. i <= n
  BY <1>1
<1> HIDE DEF a, b, n
<1>6. /\ S \in Seq(Spans) /\ Size(S) = (i - 1) + (n - i)
      /\ \A j \in 1..i - 1 : S[j] = a[j]
      /\ \A j \in 1..n - i : S[(i - 1) + j] = b[j]
  BY <1>3, <1>4, CatIs
<1> HIDE DEF S
<1>7. Size(S) = n - 1 /\ 1 \in 1..Size(S)
  <2>1. (i - 1) + (n - i) = n - 1 /\ 1 \in 1..n - 1
    BY <1>2
  <2> QED
    BY <1>6, <2>1
<1>8. ASSUME NEW j \in 1..n - 1
      PROVE  SpanIn(S[j], t)
  <2>1. CASE j <= i - 1
    <3>1. j \in 1..i - 1 /\ j \in 1..n
      BY <1>1, <1>2, <2>1
    <3>2. S[j] = R[j]
      BY <1>3, <1>6, <3>1
    <3> QED
      BY <1>1, <3>1, <3>2
  <2>2. CASE ~(j <= i - 1)
    <3> DEFINE q == j - (i - 1)
    <3>1. q \in 1..n - i /\ (i - 1) + q = j /\ i + q \in 1..n
      BY <1>1, <1>2, <1>5, <2>2
    <3> HIDE DEF q
    <3>2. S[j] = R[i + q]
      BY <1>4, <1>6, <3>1
    <3> QED
      BY <1>1, <3>1, <3>2
  <2> QED
    BY <2>1, <2>2
<1>9. AllIn(S, t)
  BY <1>6, <1>7, <1>8, Zenon DEF AllIn
<1>10. S = SubSeq(R, 1, i - 1) \o SubSeq(R, i + 1, Len(R))
  BY Zenon DEF S, Cat, a, b, Sub, n, Size
<1> QED
  BY <1>7, <1>9, <1>10, Zenon

LEMMA WithRange ==
  ASSUME NEW t, NEW R, AllIn(R, t), NEW i \in 1..Size(R), NEW x, SpanIn(x, t)
  PROVE  AllIn([R EXCEPT ![i] = x], t) /\ Size([R EXCEPT ![i] = x]) = Size(R)
<1> DEFINE n == Size(R)
           S == [R EXCEPT ![i] = x]
<1>1. R \in Seq(Spans) /\ n \in Nat /\ DOMAIN R = 1..n /\ \A j \in 1..n : SpanIn(R[j], t)
  BY SeqSize DEF AllIn
<1>2. DOMAIN S = 1..n /\ S = [j \in 1..n |-> S[j]]
  BY <1>1
<1>3. \A j \in 1..n : S[j] = IF j = i THEN x ELSE R[j]
  BY <1>1
<1> HIDE DEF S
<1>4. \A j \in 1..n : SpanIn(S[j], t)
  BY <1>1, <1>3
<1>5. AllIn(S, t) /\ Size(S) = n
  BY <1>1, <1>2, <1>4, AllInOf
<1> QED
  BY <1>5 DEF S

LEMMA AllInPush ==
  ASSUME NEW t, NEW R, AllIn(R, t), NEW x, SpanIn(x, t)
  PROVE  AllIn(Append(R, x), t) /\ Size(Append(R, x)) = Size(R) + 1 /\ Size(R) \in Nat
<1> DEFINE n == Size(R)
           S == Push(R, x)
<1>1. R \in Seq(Spans) /\ n \in Nat /\ \A j \in 1..n : SpanIn(R[j], t)
  BY SeqSize DEF AllIn
<1>2. x \in Spans
  BY DEF SpanIn
<1>3. S \in Seq(Spans) /\ Size(S) = n + 1 /\ S[n + 1] = x /\ \A j \in 1..n : S[j] = R[j]
  BY <1>1, <1>2, PushIs
<1> HIDE DEF n, S
<1>4. ASSUME NEW j \in 1..n + 1
      PROVE  SpanIn(S[j], t)
  <2>1. CASE j = n + 1
    BY <1>3, <2>1, Zenon
  <2>2. CASE j # n + 1
    <3>1. j \in 1..n
      BY <1>1, <2>2
    <3> QED
      BY <1>1, <1>3, <3>1
  <2> QED
    BY <2>1, <2>2
<1>5. AllIn(S, t)
  BY <1>3, <1>4, Zenon DEF AllIn
<1> QED
  BY <1>1, <1>3, <1>5, Zenon DEF S, n, Push

LEMMA ClickKeeps ==
  ASSUME HistInv, NEW pos \in Positions(ed.text), NEW held, NEW quick \in BOOLEAN,
         LeftButtonSelect(pos, held, quick)
  PROVE  HistInv'
<1> DEFINE d == Begin(quick)
           t == d.text
           r == d.sel.ranges
           n == Size(r)
           hit == {i \in DOMAIN r : NotAfter(From(r[i]), pos) /\ NotAfter(pos, To(r[i]))}
           i == Min(hit)
           sel == IF held # "ctrl" THEN Selection(<<ExtendRange(Primary(d.sel), pos, held = "shift")>>, 1)
                  ELSE IF hit = {} THEN NormalizeSelection(Append(r, Span(pos, pos)), Len(r) + 1)
                  ELSE IF Len(r) > 1 /\ EmptyRange(r[i])
                    THEN NormalizeSelection(SubSeq(r, 1, i - 1) \o SubSeq(r, i + 1, Len(r)), 1)
                  ELSE NormalizeSelection([r EXCEPT ![i] = Span(pos, pos)], d.sel.prim)
           e == SetSelection(d, sel, "*mouse")
<1>1. Becomes(e)
  BY Zenon DEF LeftButtonSelect
<1>2. Doing(d, textAt, first, newest) /\ t \in Texts /\ SelIn(d.sel, t) /\ t = ed.text
  BY BeginIs
<1>3. InText(t, pos) /\ SpanIn(Span(pos, pos), t)
  <2>1. InText(ed.text, pos)
    BY <1>2, PositionsAre
  <2> QED
    BY <1>2, <2>1, SpanOf
<1> HIDE DEF d, t
<1>4. AllIn(r, t) /\ d.sel.prim \in 1..n /\ Primary(d.sel) = r[d.sel.prim]
  <2>1. AllIn(r, t) /\ d.sel.prim \in 1..n
    BY <1>2, SelInIs
  <2> QED
    BY <2>1, Zenon DEF Primary
<1>5. r \in Seq(Spans) /\ \A j \in 1..n : SpanIn(r[j], t)
  BY <1>4, Zenon DEF AllIn
<1> HIDE DEF r
<1>6. n \in Nat /\ DOMAIN r = 1..n /\ n = Len(r)
  BY <1>5, SeqSize DEF Size
<1> HIDE DEF n
<1>7. ASSUME held # "ctrl"
      PROVE  SelIn(sel, t)
  <2>1. SpanIn(Primary(d.sel), t)
    BY <1>4, <1>5
  <2>2. SpanIn(ExtendRange(Primary(d.sel), pos, held = "shift"), t)
    BY <1>3, <2>1, ExtendedIn
  <2>3. SelIn(Selection(<<ExtendRange(Primary(d.sel), pos, held = "shift")>>, 1), t)
    BY <2>2, OneRange
  <2>4. SelIn(sel, t)
    BY <1>7, <2>3, Zenon
  <2> QED
    BY <2>4
<1>8. ASSUME ~(held # "ctrl"), hit = {}
      PROVE  SelIn(sel, t)
  <2> DEFINE R == Append(r, Span(pos, pos))
  <2>1. AllIn(R, t) /\ Size(R) = n + 1
    BY <1>3, <1>4, AllInPush DEF n
  <2> HIDE DEF R
  <2>2. n + 1 \in 1..Size(R)
    BY <1>6, <2>1
  <2>3. SelIn(NormalizeSelection(R, n + 1), t)
    BY <2>1, <2>2, RangesEndApart
  <2>4. sel = NormalizeSelection(R, n + 1)
    BY <1>6, <1>8, Zenon DEF R
  <2> QED
    BY <2>3, <2>4, Zenon
<1>9. ASSUME ~(held # "ctrl"), hit # {}
      PROVE  SelIn(sel, t)
  <2>1. i \in 1..n
    <3>1. hit \in SUBSET (0..n) /\ hit \subseteq 1..n
      BY <1>6
    <3> HIDE DEF hit
    <3>2. i \in hit
      BY <1>6, <1>9, <3>1, LeastAndGreatest
    <3> QED
      BY <3>1, <3>2
  <2>2. CASE Len(r) > 1 /\ EmptyRange(r[i])
    <3>1. sel = NormalizeSelection(SubSeq(r, 1, i - 1) \o SubSeq(r, i + 1, Len(r)), 1)
      BY <1>9, <2>2, Zenon
    <3> HIDE DEF i, sel
    <3> DEFINE S == SubSeq(r, 1, i - 1) \o SubSeq(r, i + 1, Len(r))
    <3>2. AllIn(S, t) /\ 1 \in 1..Size(S)
      <4>1. Size(r) > 1 /\ i \in 1..Size(r)
        BY <1>6, <2>1, <2>2 DEF n
      <4> QED
        BY <1>4, <4>1, WithoutRange
    <3> HIDE DEF S
    <3>3. SelIn(NormalizeSelection(S, 1), t)
      BY <3>2, RangesEndApart
    <3> QED
      BY <3>1, <3>3, Zenon DEF S
  <2>3. CASE ~(Len(r) > 1 /\ EmptyRange(r[i]))
    <3>1. sel = NormalizeSelection([r EXCEPT ![i] = Span(pos, pos)], d.sel.prim)
      BY <1>9, <2>3, Zenon
    <3> HIDE DEF i, sel
    <3> DEFINE S == [r EXCEPT ![i] = Span(pos, pos)]
    <3>2. AllIn(S, t) /\ Size(S) = Size(r)
      BY <1>3, <1>4, <2>1, WithRange DEF n
    <3> HIDE DEF S
    <3>3. SelIn(NormalizeSelection(S, d.sel.prim), t)
      BY <1>4, <3>2, RangesEndApart DEF n
    <3> QED
      BY <3>1, <3>3, Zenon DEF S
  <2> QED
    BY <2>2, <2>3
<1>10. SelIn(sel, t)
  BY <1>7, <1>8, <1>9
<1> HIDE DEF sel
<1>11. "*mouse" \in Origins
  BY DEF Origins
<1>12. Doing(e, textAt, first, newest)
  BY <1>2, <1>10, <1>11, SetSelectionIs DEF t
<1> HIDE DEF e
<1> QED
  BY <1>1, <1>12, BecomesIs

\* Changes in a row, one after the other.
LEMMA RowPush ==
  ASSUME NEW t, NEW C \in Seq(Changes), InRow(C, Size(C), t), NEW x, Fits(t, x),
         C # <<>> => NotAfter(Last(C).to, x.from)
  PROVE  /\ Push(C, x) \in Seq(Changes) /\ Push(C, x) # <<>> /\ Last(Push(C, x)) = x
         /\ InRow(Push(C, x), Size(Push(C, x)), t)
<1> DEFINE n == Size(C)
           S == Push(C, x)
<1>1. x \in Changes
  BY FitsIsTyped
<1>2. /\ n \in Nat /\ \A i \in 1..n : Fits(t, C[i])
      /\ \A i \in 2..n : NotAfter(C[i - 1].to, C[i].from)
  BY Zenon DEF InRow
<1>3. S \in Seq(Changes) /\ Size(S) = n + 1 /\ S[n + 1] = x /\ \A i \in 1..n : S[i] = C[i]
  BY <1>1, PushIs
<1>4. C # <<>> => Last(C) = C[n]
  BY FrontIs
<1>5. C # <<>> <=> n # 0
  BY SeqSize
<1> HIDE DEF n, S
<1>6. DOMAIN S = 1..n + 1 /\ S # <<>>
  <2>1. Size(S) # 0
    BY <1>2, <1>3
  <2> QED
    BY <1>3, <2>1, SeqSize
<1>7. Last(S) = x
  BY <1>3, <1>6, FrontIs
<1>8. ASSUME NEW i \in 1..n + 1
      PROVE  Fits(t, S[i])
  <2>1. CASE i = n + 1
    BY <1>3, <2>1, Zenon
  <2>2. CASE i # n + 1
    <3>1. i \in 1..n
      BY <1>2, <2>2
    <3> QED
      BY <1>2, <1>3, <3>1
  <2> QED
    BY <2>1, <2>2
<1>9. ASSUME NEW i \in 2..n + 1
      PROVE  NotAfter(S[i - 1].to, S[i].from)
  <2>1. CASE i = n + 1
    <3>1. n \in 1..n /\ n # 0 /\ i - 1 = n
      BY <1>2, <2>1
    <3>2. S[i] = x /\ S[i - 1] = Last(C) /\ C # <<>>
      BY <1>3, <1>4, <1>5, <2>1, <3>1
    <3> QED
      BY <3>2, Zenon
  <2>2. CASE i # n + 1
    <3>1. i \in 2..n /\ i \in 1..n /\ i - 1 \in 1..n
      BY <1>2, <2>2
    <3> QED
      BY <1>2, <1>3, <3>1
  <2> QED
    BY <2>1, <2>2
<1>10. InRow(S, Size(S), t)
  <2>1. n + 1 \in Nat
    BY <1>2
  <2> QED
    BY <1>3, <1>6, <1>8, <1>9, <2>1, Zenon DEF InRow
<1> QED
  BY <1>3, <1>6, <1>7, <1>10, Zenon DEF S

LEMMA RowFront ==
  ASSUME NEW t, NEW C \in Seq(Changes), InRow(C, Size(C), t), C # <<>>
  PROVE  /\ Front(C) \in Seq(Changes) /\ InRow(Front(C), Size(Front(C)), t) /\ Fits(t, Last(C))
         /\ Front(C) # <<>> => NotAfter(Last(Front(C)).to, Last(C).from)
<1> DEFINE n == Size(C)
           S == Front(C)
<1>1. /\ n \in Nat /\ \A i \in 1..n : Fits(t, C[i])
      /\ \A i \in 2..n : NotAfter(C[i - 1].to, C[i].from)
  BY Zenon DEF InRow
<1>2. n >= 1 /\ S \in Seq(Changes) /\ Size(S) = n - 1 /\ Last(C) = C[n] /\ \A i \in 1..n - 1 : S[i] = C[i]
  BY FrontIs
<1>3. DOMAIN S = 1..Size(S) /\ (S # <<>> => Last(S) = S[Size(S)] /\ Size(S) # 0)
  BY <1>2, FrontIs, SeqSize
<1> HIDE DEF n, S
<1>4. Fits(t, Last(C))
  <2>1. n \in 1..n
    BY <1>1, <1>2
  <2> QED
    BY <1>1, <1>2, <2>1, Zenon
<1>5. \A i \in 1..n - 1 : Fits(t, S[i])
  <2>1. \A i \in 1..n - 1 : i \in 1..n
    BY <1>1
  <2> QED
    BY <1>1, <1>2, <2>1, Zenon
<1>6. ASSUME NEW i \in 2..n - 1
      PROVE  NotAfter(S[i - 1].to, S[i].from)
  <2>1. i \in 2..n /\ i \in 1..n - 1 /\ i - 1 \in 1..n - 1
    BY <1>1
  <2> QED
    BY <1>1, <1>2, <2>1, Zenon
<1>7. InRow(S, Size(S), t)
  <2>1. n - 1 \in Nat
    BY <1>1, <1>2
  <2> QED
    BY <1>2, <1>3, <1>5, <1>6, <2>1, Zenon DEF InRow
<1>8. ASSUME S # <<>>
      PROVE  NotAfter(Last(S).to, Last(C).from)
  <2>1. Last(S) = S[n - 1] /\ n - 1 # 0
    BY <1>2, <1>3, <1>8, Zenon
  <2>2. n \in 2..n /\ n - 1 \in 1..n - 1
    BY <1>1, <1>2, <2>1
  <2>3. NotAfter(C[n - 1].to, C[n].from)
    BY <1>1, <2>2
  <2> QED
    BY <1>2, <2>1, <2>2, <2>3, Zenon
<1> QED
  BY <1>2, <1>4, <1>7, <1>8, Zenon DEF S

\* The ranges to kill, on the way.
Killed(acc, t) == acc \in Seq(Changes) /\ InRow(acc, Size(acc), t)

LEMMA KillIs ==
  ASSUME NEW t \in Texts, NEW acc, Killed(acc, t), NEW c, Fits(t, c),
         acc # <<>> => NotAfter(Last(acc).from, c.from), NEW new, new = Kill(acc, c)
  PROVE  Killed(new, t) /\ new # <<>> /\ NotAfter(Last(new).from, c.from)
<1> DEFINE l == Last(acc)
<1>1. acc \in Seq(Changes) /\ InRow(acc, Size(acc), t)
  BY Zenon DEF Killed
<1>2. /\ c.from \in Spots /\ c.to \in Spots /\ InText(t, c.from) /\ InText(t, c.to)
      /\ NotAfter(c.from, c.to) /\ NotAfter(c.from, c.from) /\ c.text \in Texts
  BY FitsAt, OrderLaws DEF Fits
<1>3. CASE acc # <<>> /\ NotAfter(c.from, l.to)
  <2> DEFINE m == Change(MinPos(l.from, c.from), c.to, c.text)
             f == Front(acc)
  <2>1. new = Push(f, m)
    BY <1>3, Zenon DEF Kill, Push
  <2>2. /\ f \in Seq(Changes) /\ InRow(f, Size(f), t) /\ Fits(t, l)
        /\ f # <<>> => NotAfter(Last(f).to, l.from)
    BY <1>1, <1>3, RowFront
  <2> HIDE DEF l, f
  <2>3. l.from \in Spots /\ InText(t, l.from) /\ NotAfter(l.from, c.from)
    BY <1>3, <2>2, FitsAt DEF l
  <2>4. MinPos(l.from, c.from) = l.from
    BY <1>2, <2>3, PickedPos
  <2>5. m = Change(l.from, c.to, c.text)
    BY <2>4, Zenon
  <2> HIDE DEF m
  <2>6. NotAfter(l.from, c.to)
    BY <1>2, <2>3, OrderTrans
  <2>7. Fits(t, m) /\ m.from = l.from
    <3>1. Fits(t, Change(l.from, c.to, c.text))
      BY <1>2, <2>3, <2>6, ChangeFits
    <3>2. Change(l.from, c.to, c.text).from = l.from
      BY FieldsOfChange
    <3> QED
      BY <2>5, <3>1, <3>2, Zenon
  <2>8. /\ Push(f, m) \in Seq(Changes) /\ Push(f, m) # <<>> /\ Last(Push(f, m)) = m
        /\ InRow(Push(f, m), Size(Push(f, m)), t)
    <3>1. f # <<>> => NotAfter(Last(f).to, m.from)
      BY <2>2, <2>7, Zenon
    <3> QED
      BY <2>2, <2>7, <3>1, RowPush
  <2> QED
    BY <2>1, <2>3, <2>7, <2>8, Zenon DEF Killed
<1>4. CASE ~(acc # <<>> /\ NotAfter(c.from, l.to))
  <2>1. new = Push(acc, c)
    BY <1>4, Zenon DEF Kill, Push
  <2>2. ASSUME acc # <<>>
        PROVE  NotAfter(l.to, c.from)
    <3>1. Fits(t, l)
      BY <1>1, <2>2, RowFront
    <3> HIDE DEF l
    <3>2. l.to \in Spots
      BY <3>1, FitsAt
    <3> QED
      BY <1>2, <1>4, <2>2, <3>2, OrderLaws
  <2>3. /\ Push(acc, c) \in Seq(Changes) /\ Push(acc, c) # <<>> /\ Last(Push(acc, c)) = c
        /\ InRow(Push(acc, c), Size(Push(acc, c)), t)
    BY <1>1, <2>2, RowPush
  <2> QED
    BY <1>2, <2>1, <2>3, Zenon DEF Killed
<1> QED
  BY <1>3, <1>4

LEMMA AllKilledIs ==
  ASSUME NEW t \in Texts, NEW C, NEW n \in Nat, DOMAIN C = 1..n, \A i \in 1..n : Fits(t, C[i]),
         \A i \in 2..n : NotAfter(C[i - 1].from, C[i].from)
  PROVE  Killed(AllKilled(C, <<>>), t)
<1>1. PICK tr : /\ tr[0] = <<>> /\ tr[n] = AllKilled(C, <<>>)
                /\ \A i \in 1..n : tr[i] = Kill(tr[i - 1], C[i])
  <2>1. KillTrace(C, n, <<>>)
    BY KillFold
  <2> QED
    BY <2>1, Zenon DEF KillTrace
<1> DEFINE Good(i) == Killed(tr[i], t) /\ (tr[i] # <<>> => i >= 1 /\ NotAfter(Last(tr[i]).from, C[i].from))
           U == {i \in 0..n : Good(i)}
<1>2. 0 \in U
  <2>1. <<>> \in Seq(Changes) /\ Size(<<>>) = 0 /\ 1..Size(<<>>) = {} /\ 2..Size(<<>>) = {}
        /\ DOMAIN <<>> = 1..Size(<<>>) /\ Size(<<>>) \in Nat /\ 0 \in 0..n
    BY DEF Size
  <2>2. Killed(<<>>, t)
    BY <2>1, Zenon DEF Killed, InRow
  <2>3. Good(0)
    BY <1>1, <2>2, Zenon
  <2> HIDE DEF Good
  <2> QED
    BY <2>1, <2>3
<1>3. ASSUME NEW i \in 1..n, i - 1 \in U
      PROVE  i \in U
  <2> DEFINE acc == tr[i - 1]
             new == tr[i]
             c == C[i]
  <2>1. Killed(acc, t) /\ (acc # <<>> => i - 1 >= 1 /\ NotAfter(Last(acc).from, C[i - 1].from))
    BY <1>3
  <2>2. new = Kill(acc, c) /\ Fits(t, c) /\ i >= 1 /\ i \in 0..n
    BY <1>1
  <2>3. ASSUME acc # <<>>
        PROVE  NotAfter(Last(acc).from, c.from)
    <3> DEFINE b == C[i - 1]
    <3>1. i \in 2..n /\ i - 1 \in 1..n
      BY <2>1, <2>3
    <3>2. NotAfter(Last(acc).from, b.from) /\ NotAfter(b.from, c.from) /\ Fits(t, b)
      BY <2>1, <2>3, <3>1
    <3>3. Fits(t, Last(acc))
      BY <2>1, <2>3, RowFront DEF Killed
    <3> HIDE DEF acc, b, c
    <3>4. Last(acc).from \in Spots /\ b.from \in Spots /\ c.from \in Spots
      BY <2>2, <3>2, <3>3, FitsAt
    <3> QED
      BY <3>2, <3>4, OrderTrans
  <2> HIDE DEF acc, new, c
  <2>4. Killed(new, t) /\ new # <<>> /\ NotAfter(Last(new).from, c.from)
    BY <2>1, <2>2, <2>3, KillIs
  <2>5. Good(i)
    BY <2>2, <2>4, Zenon DEF new, c
  <2> HIDE DEF Good
  <2> QED
    BY <2>2, <2>5
<1>4. n \in U
  <2> HIDE DEF U
  <2>1. \A i \in 0..n : i \in U
    BY <1>2, <1>3, UpInduction
  <2> QED
    BY <2>1
<1> QED
  BY <1>1, <1>4

\* What is deleted where nothing is selected: from a cursor to the character next to it.
NearTo(t, r, dir) ==
  Change(MinPos(MoveH(t, r.head, dir), r.head), MaxPos(MoveH(t, r.head, dir), r.head), << <<>> >>)

LEMMA NearIs ==
  ASSUME NEW t \in Texts, NEW r, SpanIn(r, t), EmptyRange(r), NEW dir \in {-1, 1},
         NEW c, c = NearTo(t, r, dir)
  PROVE  /\ Fits(t, c) /\ NotAfter(c.from, r.head) /\ r.head \in Spots
         /\ \A q : InText(t, q) /\ Before(q, r.head) => NotAfter(q, c.from)
<1> DEFINE p == r.head
           m == MoveH(t, p, dir)
           f == MinPos(m, p)
           g == MaxPos(m, p)
           x == << <<>> >>
<1>1. InText(t, p)
  BY Zenon DEF SpanIn
<1> HIDE DEF p
<1>2. InText(t, m) /\ \A q : InText(t, q) /\ Before(q, p) => NotAfter(q, m)
  BY <1>1, MoveIs
<1> HIDE DEF m
<1>3. p \in Spots /\ m \in Spots
  BY <1>1, <1>2 DEF InText
<1>4. /\ f \in {m, p} /\ g \in {m, p} /\ NotAfter(f, g) /\ NotAfter(f, p)
  BY <1>3, PickedPos
<1> HIDE DEF f, g
<1>5. InText(t, f) /\ InText(t, g)
  BY <1>1, <1>2, <1>4
<1>6. x \in Texts
  BY TypedTextsAre
<1> HIDE DEF x
<1>7. Fits(t, Change(f, g, x)) /\ Change(f, g, x).from = f
  BY <1>4, <1>5, <1>6, ChangeFits, FieldsOfChange
<1>8. c = Change(f, g, x)
  BY Zenon DEF NearTo, f, g, m, p, x
<1>9. ASSUME NEW q, InText(t, q), Before(q, p)
      PROVE  NotAfter(q, f)
  <2>1. q \in Spots
    BY <1>9 DEF InText
  <2>2. NotAfter(q, m) /\ NotAfter(q, p)
    BY <1>2, <1>3, <1>9, <2>1, OrderLaws
  <2> QED
    BY <1>4, <2>2
<1> QED
  BY <1>3, <1>4, <1>7, <1>8, <1>9, Zenon DEF p

LEMMA DeleteKeeps ==
  ASSUME HistInv, NEW dir \in {-1, 1}, NEW quick \in BOOLEAN, DeleteH(dir, quick)
  PROVE  HistInv'
<1> DEFINE d == Begin(quick)
           t == d.text
           r == d.sel.ranges
           n == Size(r)
           near == [i \in DOMAIN r |-> NearTo(t, r[i], dir)]
           all == Replaced(d.sel, << <<>> >>)
           C == IF SomethingSelected(d.sel) THEN all ELSE AllKilled(near, <<>>)
           e == MakeChanges(d, C, "+delete")
<1>1. Becomes(e)
  BY Zenon DEF DeleteH, NearTo, AllKilled
<1>2. Doing(d, textAt, first, newest) /\ t \in Texts /\ SelIn(d.sel, t)
  BY BeginIs
<1>3. << <<>> >> \in Texts /\ "+delete" \in Origins
  BY TypedTextsAre DEF Origins
<1> HIDE DEF d, t
<1>4. AllIn(r, t) /\ Apart(r)
  BY <1>2, SelInIs
<1>5. r \in Seq(Spans) /\ \A i \in 1..n : SpanIn(r[i], t)
  BY <1>4, Zenon DEF AllIn
<1>6. DOMAIN all = DOMAIN r
  BY Zenon DEF Replaced
<1>7. \A i \in DOMAIN r : all[i] = Change(From(r[i]), To(r[i]), << <<>> >>)
  BY Zenon DEF Replaced
<1>8. SomethingSelected(d.sel) \/ \A i \in DOMAIN r : EmptyRange(r[i])
  BY Zenon DEF SomethingSelected
<1>9. Doing(e, textAt, first, newest)
  <2>1. CASE SomethingSelected(d.sel)
    <3> DEFINE X == [i \in DOMAIN r |-> << <<>> >>]
    <3>1. C = all
      BY <2>1, Zenon
    <3>2. \A i \in DOMAIN r : X[i] \in Texts /\ all[i] = Change(From(r[i]), To(r[i]), X[i])
      BY <1>3, <1>7, Zenon
    <3> HIDE DEF X, all, C
    <3>3. InRow(all, Size(r), t)
      BY <1>2, <1>6, <3>2, RowOfRanges
    <3> HIDE DEF r
    <3>4. Doing(MakeChanges(d, all, "+delete"), textAt, first, newest)
      BY <1>2, <1>3, <3>3, MakeChangesIs DEF t
    <3> QED
      BY <3>1, <3>4, Zenon
  <2>2. CASE ~SomethingSelected(d.sel)
    <3>1. C = AllKilled(near, <<>>)
      BY <2>2, Zenon
    <3> HIDE DEF r, C, all
    <3>2. n \in Nat /\ DOMAIN r = 1..n /\ \A i \in 2..n : Before(To(r[i - 1]), From(r[i]))
      BY <1>4, <1>5, SeqSize, ApartIs
    <3>3. \A i \in 1..n : EmptyRange(r[i])
      BY <1>8, <2>2, <3>2, Zenon
    <3> HIDE DEF n
    <3>4. DOMAIN near = 1..n /\ \A i \in 1..n : near[i] = NearTo(t, r[i], dir)
      BY <3>2, Zenon
    <3> HIDE DEF near
    <3>5. \A i \in 1..n :
            /\ Fits(t, near[i]) /\ NotAfter(near[i].from, r[i].head) /\ r[i].head \in Spots
            /\ \A q : InText(t, q) /\ Before(q, r[i].head) => NotAfter(q, near[i].from)
      BY <1>2, <1>5, <3>3, <3>4, NearIs
    <3>6. ASSUME NEW i \in 2..n
          PROVE  NotAfter(near[i - 1].from, near[i].from)
      <4> DEFINE h == i - 1
      <4>1. i \in 1..n /\ h \in 1..n
        BY <3>2
      <4>2. Before(To(r[h]), From(r[i]))
        BY <3>2
      <4> HIDE DEF h
      <4>3. From(r[i]) = r[i].head /\ To(r[h]) = r[h].head /\ InText(t, r[h].head)
        <5>1. SpanIn(r[i], t) /\ SpanIn(r[h], t) /\ EmptyRange(r[i]) /\ EmptyRange(r[h])
          BY <1>5, <3>3, <4>1
        <5>2. From(r[i]) = r[i].head /\ To(r[h]) = r[h].head
          BY <5>1, SpanEnds
        <5> QED
          BY <5>1, <5>2, Zenon DEF SpanIn
      <4>4. NotAfter(r[h].head, near[i].from)
        BY <3>5, <4>1, <4>2, <4>3
      <4>5. /\ near[h].from \in Spots /\ near[i].from \in Spots /\ r[h].head \in Spots
            /\ NotAfter(near[h].from, r[h].head)
        BY <3>5, <4>1, FitsAt
      <4> QED
        BY <4>4, <4>5, OrderTrans DEF h
    <3>7. Killed(AllKilled(near, <<>>), t)
      <4>1. \A i \in 1..n : Fits(t, near[i])
        BY <3>5
      <4> QED
        BY <1>2, <3>2, <3>4, <3>6, <4>1, AllKilledIs
    <3> DEFINE K == AllKilled(near, <<>>)
    <3>8. InRow(K, Size(K), t)
      BY <3>7, Zenon DEF Killed
    <3> HIDE DEF K
    <3>9. Doing(MakeChanges(d, K, "+delete"), textAt, first, newest)
      BY <1>2, <1>3, <3>8, MakeChangesIs DEF t
    <3> QED
      BY <3>1, <3>9, Zenon DEF K
  <2> QED
    BY <2>1, <2>2
<1> HIDE DEF e
<1> QED
  BY <1>1, <1>9, BecomesIs

-----------------------------------------------------------------------------
LEMMA HistInvStep ==
  ASSUME HistInv, HistoryNext
  PROVE  HistInv'
<1>1. CASE Reload
  BY <1>1, ReloadKeeps
<1>2. ASSUME NEW quick \in BOOLEAN,
             NEW text \in Typed, NEW origin \in {"+input", "paste"}, ApplyTextInput(text, origin, quick)
      PROVE  HistInv'
  BY <1>2, InputKeeps
<1>3. ASSUME NEW quick \in BOOLEAN, NEW dir \in {-1, 1}, DeleteH(dir, quick)
      PROVE  HistInv'
  BY <1>3, DeleteKeeps
<1>4. ASSUME NEW quick \in BOOLEAN, NEW dir \in {-1, 1}, NEW shift \in BOOLEAN,
             MoveCursor(dir, shift, quick)
      PROVE  HistInv'
  BY <1>4, MoveCursorKeeps
<1>5. ASSUME NEW quick \in BOOLEAN, NEW pos \in Positions(ed.text), NEW held,
             LeftButtonSelect(pos, held, quick)
      PROVE  HistInv'
  BY <1>5, ClickKeeps
<1>6. ASSUME NEW quick \in BOOLEAN, NEW text \in Typed, SetAll(text, quick)
      PROVE  HistInv'
  BY <1>6, SetAllKeeps
<1>7. ASSUME NEW quick \in BOOLEAN, NEW selectionOnly \in BOOLEAN,
             \/ History("done", "undone", selectionOnly, quick)
             \/ History("undone", "done", selectionOnly, quick)
      PROVE  HistInv'
  <2>1. Sides("done", "undone") /\ Sides("undone", "done")
    BY Zenon DEF Sides
  <2> QED
    BY <1>7, <2>1, HistoryKeeps
<1> QED
  BY <1>1, <1>2, <1>3, <1>4, <1>5, <1>6, <1>7, Zenon DEF HistoryNext

LEMMA HistInvStutters ==
  ASSUME HistInv, UNCHANGED historyVars
  PROVE  HistInv'
<1>1. ed' = ed /\ first' = first /\ newest' = newest /\ textAt' = textAt
  BY DEF historyVars
<1> QED
  BY <1>1, Zenon DEF HistInv

LEMMA HistInvRestores ==
  HistInv => UndoRestores
<1> SUFFICES ASSUME HistInv
             PROVE  UndoRestores
  OBVIOUS
<1> DEFINE t == ed.text
           n == Size(ed.sel.ranges)
           r == ed.sel.ranges
<1>1. /\ ed \in Eds /\ SelIn(ed.sel, t) /\ Track(textAt, ed.done, first, t)
      /\ Track(textAt, ed.undone, newest, t) /\ Names(textAt, ed.generation, t)
  <2>1. Doing(ed, textAt, first, newest) /\ ed.maxGeneration = Size(textAt)
    BY Zenon DEF HistInv
  <2> QED
    BY <2>1, Zenon DEF Doing, Aim, Known
<1>2. t \in Texts
  BY <1>1, TrackIsTyped
<1>3. Unwind(t, ed.done) = first /\ Unwind(t, ed.undone) = newest
  <2>1. /\ ed.done \in Seq(Events) /\ Path(EventSteps(textAt), ed.done, first, t)
        /\ ed.undone \in Seq(Events) /\ Path(EventSteps(textAt), ed.undone, newest, t)
    BY <1>1, Zenon DEF Track
  <2> QED
    BY <2>1, EventPathIs
<1>4. ASSUME NEW events \in {ed.done, ed.undone}, NEW i \in DOMAIN events
      PROVE  IsSel(events[i]) \/ (i > 1 /\ IsSel(events[i - 1]))
  <2>1. events \in Seq(Events) /\ Below(events)
    BY <1>1 DEF Track
  <2>2. DOMAIN events = 1..Size(events)
    BY <2>1, SeqSize
  <2> QED
    BY <1>4, <2>1, <2>2, Zenon DEF Below
<1>5. textAt[ed.generation] = t
  BY <1>1, Zenon DEF Names
<1>6. AllIn(r, t) /\ Apart(r)
  BY <1>1, SelInIs
<1> HIDE DEF t
<1>7. ASSUME NEW i \in DOMAIN r
      PROVE  {r[i].anchor, r[i].head} \subseteq Positions(t)
  <2>1. r \in Seq(Spans) /\ \A j \in 1..n : SpanIn(r[j], t)
    BY <1>6, Zenon DEF AllIn
  <2>2. DOMAIN r = 1..n
    BY <2>1, SeqSize
  <2> HIDE DEF r, n
  <2>3. InText(t, r[i].anchor) /\ InText(t, r[i].head)
    BY <2>1, <2>2 DEF SpanIn
  <2> QED
    BY <1>2, <2>3, PositionsAre
<1>8. \A i \in DOMAIN r : i > 1 => Before(To(r[i - 1]), From(r[i]))
  BY <1>6, Zenon DEF Apart
<1> QED
  BY <1>3, <1>4, <1>5, <1>7, <1>8, Zenon DEF UndoRestores, t

-----------------------------------------------------------------------------
\* HistInv is an invariant of the editor's part of the pages: the other parts leave the
\* editor as it is.
THEOREM HistInvInvariant == MCSpec => []HistInv
<1>1. MCInit => HistInv
  BY HistInvInit DEF MCInit
<1>2. HistInv /\ [MCNext]_mcVars => HistInv'
  <2>1. ASSUME HistInv, HistoryStep
        PROVE  HistInv'
    BY <2>1, HistInvStep, Zenon DEF HistoryStep
  <2>2. ASSUME HistInv, Counter \/ Metrics(MetricsNext) \/ PickerStep \/ UNCHANGED mcVars
        PROVE  HistInv'
    <3>1. UNCHANGED historyVars
      BY <2>2, Zenon DEF Counter, Metrics, PickerStep, mcVars
    <3> QED
      BY <2>2, <3>1, HistInvStutters
  <2> QED
    BY <2>1, <2>2, Zenon DEF MCNext
<1> QED
  BY <1>1, <1>2, PTL DEF MCSpec

\* UndoRestores: whatever was typed, deleted, set, undone and redone, with several cursors
\* too, the history leads back to the first text and forth to the newest.
THEOREM EditorUndoes == MCSpec => []UndoRestores
<1>1. HistInv => UndoRestores
  BY HistInvRestores
<1> QED
  BY <1>1, HistInvInvariant, PTL

=============================================================================
