---------------------------- MODULE Digest_proofs ----------------------------
(***************************************************************************)
(* For all archives: what shares a digest with what is stored under it,    *)
(* outline and all, is the same.  Marks are what the hash had been fed     *)
(* with before each entry and in the end; each is a prefix of the digest.  *)
(* Up to the first entry in which two archives of one outline differ their *)
(* marks agree; the contents they differ in begin at one place of one      *)
(* digest, so that one is the longer, and goes on where the other has the  *)
(* prefix of its next entry, or its end.  Where the argument needs an      *)
(* induction it takes the least number that would be an exception.         *)
(***************************************************************************)
EXTENDS Digest, SequenceTheorems, WellFoundedInduction, TLAPS

\* What the hash has seen of an archive.
HashedEntry == {e \in Entry : Hashable(e) /\ (e.type # "file" => e.content = <<>>)}

Marks(m, f, h) ==
  /\ m \in [0..Len(f) -> Seq(Token)]
  /\ m[0] = <<>>
  /\ \A i \in 1..Len(f) : m[i] = m[i - 1] \o Hashed(f[i])
  /\ m[Len(f)] = h

Fed(f, h) == f \in Seq(HashedEntry) /\ \E m : Marks(m, f, h)

\* h goes on from s.
Begins(s, h) == Len(s) <= Len(h) /\ \A k \in 1..Len(s) : s[k] = h[k]

-----------------------------------------------------------------------------
\* Every number but the first comes after another.
LEMMA LeastNumber ==
  ASSUME NEW T \in SUBSET Nat, T # {}
  PROVE  \E n \in T : \A k \in T : n <= k
<1>1. PICK n \in T : \A k \in T : ~(<<k, n>> \in OpToRel(<, Nat))
  <2>1. IsWellFoundedOn(OpToRel(<, Nat), Nat)
    BY NatLessThanWellFounded
  <2> QED
    BY <2>1, WFMin
<1>2. ASSUME NEW k \in T PROVE n <= k
  <2>1. <<k, n>> \in Nat \X Nat
    OBVIOUS
  <2>2. ~(k < n)
    BY <1>1, <2>1 DEF OpToRel
  <2> QED
    BY <2>2
<1> QED
  BY <1>2

\* Every number but the last comes before another.
LEMMA GreatestNumber ==
  ASSUME NEW n \in Nat, NEW T \in SUBSET (0..n), T # {}
  PROVE  \E j \in T : \A k \in T : k <= j
<1> DEFINE U == {n - j : j \in T}
<1>1. \A j \in T : j \in 0..n /\ n - j \in Nat
  OBVIOUS
<1>2. U \in SUBSET Nat /\ U # {}
  BY <1>1
<1> HIDE DEF U
<1>3. PICK u \in U : \A k \in U : u <= k
  BY <1>2, LeastNumber
<1> USE DEF U
<1>4. PICK j \in T : u = n - j
  BY <1>3
<1>5. ASSUME NEW k \in T PROVE k <= j
  <2>1. n - j <= n - k
    BY <1>3, <1>4
  <2>2. k \in 0..n /\ j \in 0..n
    BY <1>1
  <2> QED
    BY <2>1, <2>2
<1> QED
  BY <1>5

LEMMA SameLength ==
  ASSUME NEW a \in Nat, NEW b \in Nat, 1..a = 1..b
  PROVE  a = b
<1>1. ASSUME a < b PROVE FALSE
  <2>1. b \in 1..b /\ b \notin 1..a
    BY <1>1
  <2> QED
    BY <2>1
<1>2. ASSUME b < a PROVE FALSE
  <2>1. a \in 1..a /\ a \notin 1..b
    BY <1>2
  <2> QED
    BY <2>1
<1> QED
  BY <1>1, <1>2

LEMMA Concat ==
  ASSUME NEW s \in Seq(Token), NEW t \in Seq(Token)
  PROVE  /\ s \o t \in Seq(Token)
         /\ Len(s) \in Nat /\ Len(t) \in Nat /\ Len(s \o t) = Len(s) + Len(t)
         /\ \A k \in 1..Len(s) : (s \o t)[k] = s[k]
         /\ \A k \in 1..Len(t) : (s \o t)[Len(s) + k] = t[k]
<1>1. Len(s) \in Nat /\ Len(t) \in Nat
  BY LenProperties
<1>2. \A k \in 1..Len(t) : /\ Len(s) + k \in 1..Len(s) + Len(t)
                            /\ ~(Len(s) + k <= Len(s)) /\ (Len(s) + k) - Len(s) = k
  BY <1>1
<1> QED
  BY <1>1, <1>2, ConcatProperties

LEMMA Associative ==
  ASSUME NEW s \in Seq(Token), NEW t \in Seq(Token), NEW u \in Seq(Token)
  PROVE  s \o (t \o u) = (s \o t) \o u
  BY ConcatAssociative

\* What an entry adds begins with a prefix.
LEMMA HashedType ==
  ASSUME NEW e \in HashedEntry
  PROVE  /\ Hashed(e) \in Seq(Token)
         /\ Len(Hashed(e)) >= 1
         /\ Hashed(e)[1] \in Prefix
<1>1. e.name \in Seq(Token) /\ e.content \in Seq(Token)
  BY DEF HashedEntry, Entry
<1>2. ASSUME NEW p \in Prefix
      PROVE  /\ <<p>> \o e.name \in Seq(Token)
             /\ Len(<<p>> \o e.name) >= 1
             /\ (<<p>> \o e.name)[1] = p
  <2>1. <<p>> \in Seq(Token) /\ Len(<<p>>) = 1 /\ <<p>>[1] = p
    BY DigestAssumption
  <2> QED
    BY <1>1, <2>1, Concat
<1>3. ASSUME e.type = "file"
      PROVE  /\ (<<"file:">> \o e.name) \o e.content \in Seq(Token)
             /\ Len((<<"file:">> \o e.name) \o e.content) >= 1
             /\ ((<<"file:">> \o e.name) \o e.content)[1] = "file:"
  <2> DEFINE s == <<"file:">> \o e.name
  <2>1. "file:" \in Prefix
    BY DEF Prefix
  <2>2. s \in Seq(Token) /\ Len(s) >= 1 /\ s[1] = "file:"
    BY <1>2, <2>1
  <2> HIDE DEF s
  <2>3. /\ s \o e.content \in Seq(Token)
        /\ Len(s \o e.content) >= 1
        /\ (s \o e.content)[1] = "file:"
    BY <1>1, <2>2, Concat
  <2> QED
    BY <2>3 DEF s
<1>4. "file:" \in Prefix /\ "dir:" \in Prefix
  BY DEF Prefix
<1> QED
  BY <1>2, <1>3, <1>4 DEF Hashed

-----------------------------------------------------------------------------
(* Marks.  *)

LEMMA BeginsConcat ==
  ASSUME NEW s \in Seq(Token), NEW t \in Seq(Token), NEW h \in Seq(Token),
         Begins(s \o t, h)
  PROVE  Begins(s, h)
<1>1. Len(s) \in Nat /\ Len(t) \in Nat /\ Len(h) \in Nat
  BY LenProperties
<1>2. Len(s \o t) = Len(s) + Len(t)
  BY ConcatProperties
<1>3. \A k \in 1..Len(s) : (s \o t)[k] = s[k] /\ k \in 1..Len(s \o t)
  BY <1>1, <1>2, ConcatProperties
<1> QED
  BY <1>1, <1>2, <1>3 DEF Begins

\* Every mark is a prefix of the digest: after the last that is not comes one that is.
LEMMA MarksBegin ==
  ASSUME NEW f \in Seq(HashedEntry), NEW h, NEW m, Marks(m, f, h),
         NEW i \in 0..Len(f)
  PROVE  Begins(m[i], h)
<1> DEFINE n == Len(f)
           T == {j \in 0..n : ~Begins(m[j], h)}
<1>1. n \in Nat /\ h \in Seq(Token) /\ Len(h) \in Nat
  BY LenProperties DEF Marks
<1>2. T = {}
  <2> SUFFICES ASSUME T # {} PROVE FALSE
    OBVIOUS
  <2> HIDE DEF n
  <2>1. T \in SUBSET (0..n)
    OBVIOUS
  <2> HIDE DEF T
  <2>2. PICK j \in T : \A k \in T : k <= j
    BY <1>1, <2>1, GreatestNumber
  <2>3. j \in 0..n /\ ~Begins(m[j], h)
    BY <2>2 DEF T
  <2>4. j # n
    BY <1>1, <2>3 DEF Begins, Marks, n
  <2>5. j + 1 \in 1..n /\ j + 1 \in 0..n /\ (j + 1) - 1 = j /\ ~(j + 1 <= j)
    BY <1>1, <2>3, <2>4
  <2>6. Begins(m[j + 1], h)
    BY <2>2, <2>5 DEF T
  <2>7. m[j + 1] = m[j] \o Hashed(f[j + 1])
    BY <2>5 DEF Marks, n
  <2>8. m[j] \in Seq(Token) /\ Hashed(f[j + 1]) \in Seq(Token)
    <3>1. f[j + 1] \in HashedEntry
      BY <2>5, ElementOfSeq DEF n
    <3> QED
      BY <2>3, <3>1, HashedType DEF Marks, n
  <2> QED
    BY <1>1, <2>3, <2>6, <2>7, <2>8, BeginsConcat
<1> QED
  BY <1>2

\* Equal entries have equal marks.
LEMMA MarksAgree ==
  ASSUME NEW f \in Seq(HashedEntry), NEW g \in Seq(HashedEntry), NEW h, NEW m, NEW w,
         Marks(m, f, h), Marks(w, g, h), Len(f) = Len(g),
         NEW i \in 0..Len(f), \A j \in 1..i : f[j] = g[j]
  PROVE  m[i] = w[i]
<1> DEFINE T == {j \in 0..i : m[j] # w[j]}
<1>1. T = {}
  <2> SUFFICES ASSUME T # {} PROVE FALSE
    OBVIOUS
  <2> T \subseteq Nat
    OBVIOUS
  <2> HIDE DEF T
  <2>1. PICK j \in T : \A k \in T : j <= k
    BY LeastNumber
  <2> USE DEF T
  <2>2. j # 0
    BY <2>1 DEF Marks
  <2>3. j \in 1..i /\ j \in 1..Len(f) /\ j - 1 \in 0..i /\ j - 1 \notin T
    BY <2>1, <2>2, LenProperties
  <2>4. m[j - 1] = w[j - 1] /\ f[j] = g[j]
    BY <2>3
  <2>5. m[j] = w[j]
    BY <2>3, <2>4 DEF Marks
  <2> QED
    BY <2>1, <2>5
<1> QED
  BY <1>1

-----------------------------------------------------------------------------
\* Where both go on from the same place, they go on alike.
LEMMA SharedContent ==
  ASSUME NEW s \in Seq(Token), NEW c \in Seq(Token), NEW d \in Seq(Token), NEW h \in Seq(Token),
         Begins(s \o c, h), Begins(s \o d, h)
  PROVE  /\ \A k \in 1..Len(d) : k \in 1..Len(c) => c[k] = d[k]
         /\ Len(c) < Len(d) => /\ Len(s \o c) + 1 <= Len(h)
                              /\ h[Len(s \o c) + 1] = d[Len(c) + 1]
<1>1. /\ Len(s) \in Nat /\ Len(c) \in Nat /\ Len(d) \in Nat /\ Len(h) \in Nat
      /\ Len(s \o c) = Len(s) + Len(c) /\ Len(s \o d) = Len(s) + Len(d)
  BY Concat, LenProperties
<1>2. ASSUME NEW t \in Seq(Token), Begins(s \o t, h), NEW k \in 1..Len(t)
      PROVE  h[Len(s) + k] = t[k] /\ Len(s) + k <= Len(h)
  <2>1. /\ Len(t) \in Nat /\ Len(s \o t) = Len(s) + Len(t)
        /\ (s \o t)[Len(s) + k] = t[k]
    BY Concat
  <2>2. Len(s) + k \in 1..Len(s \o t)
    BY <1>1, <2>1
  <2>3. h[Len(s) + k] = (s \o t)[Len(s) + k] /\ Len(s \o t) <= Len(h)
    BY <1>2, <2>2 DEF Begins
  <2>4. \A a, b \in Nat : \A l \in 1..a : a <= b => l <= b
    OBVIOUS
  <2>5. Len(s \o t) \in Nat
    BY <1>1, <2>1
  <2> QED
    BY <1>1, <2>1, <2>2, <2>3, <2>4, <2>5
<1>3. ASSUME Len(c) < Len(d)
      PROVE  Len(s \o c) + 1 <= Len(h) /\ h[Len(s \o c) + 1] = d[Len(c) + 1]
  <2>1. Len(c) + 1 \in 1..Len(d) /\ Len(s \o c) + 1 = Len(s) + (Len(c) + 1)
    BY <1>1, <1>3
  <2>2. h[Len(s) + (Len(c) + 1)] = d[Len(c) + 1] /\ Len(s) + (Len(c) + 1) <= Len(h)
    BY <1>2, <2>1
  <2> QED
    BY <2>1, <2>2
<1> QED
  BY <1>2, <1>3

\* What comes after s.
LEMMA NextToken ==
  ASSUME NEW s \in Seq(Token), NEW e \in Seq(Token), NEW h, Begins(s \o e, h), Len(e) >= 1
  PROVE  h[Len(s) + 1] = e[1]
<1>1. /\ Len(s) \in Nat /\ Len(e) \in Nat /\ Len(s \o e) = Len(s) + Len(e)
      /\ (s \o e)[Len(s) + 1] = e[1]
  BY Concat
<1>2. Len(s) + 1 \in 1..Len(s \o e)
  BY <1>1
<1> QED
  BY <1>1, <1>2 DEF Begins

\* At the first entry in which they differ, neither content is the shorter one.
LEMMA NotShorter ==
  ASSUME NEW f \in Seq(HashedEntry), NEW g \in Seq(HashedEntry), NEW h, NEW m, NEW w,
         Marks(m, f, h), Marks(w, g, h), Len(f) = Len(g), Clear(g),
         NEW i \in 1..Len(f), m[i - 1] = w[i - 1],
         f[i].type = "file", g[i].type = "file", f[i].name = g[i].name
  PROVE  /\ Len(f[i].content) >= Len(g[i].content)
         /\ \A k \in 1..Len(g[i].content) :
              k \in 1..Len(f[i].content) => f[i].content[k] = g[i].content[k]
<1> DEFINE c == f[i].content
           d == g[i].content
           s == m[i - 1] \o (<<"file:">> \o f[i].name)
<1>1. f[i] \in HashedEntry /\ g[i] \in HashedEntry
  BY ElementOfSeq
<1>2. f[i].name \in Seq(Token) /\ c \in Seq(Token) /\ d \in Seq(Token)
  BY <1>1 DEF HashedEntry, Entry
<1>3. i \in 0..Len(f) /\ i - 1 \in 0..Len(f) /\ Len(f) \in Nat
  BY LenProperties
<1>4. m[i - 1] \in Seq(Token) /\ h \in Seq(Token)
  BY <1>3 DEF Marks
<1>5. <<"file:">> \in Seq(Token)
  BY DigestAssumption DEF Prefix
<1>6. <<"file:">> \o f[i].name \in Seq(Token)
  BY <1>2, <1>5, Concat
<1>7. s \in Seq(Token)
  BY <1>4, <1>6, Concat
<1>8. ASSUME NEW x \in Seq(Token)
      PROVE  m[i - 1] \o ((<<"file:">> \o f[i].name) \o x) = s \o x
  <2> DEFINE u == <<"file:">> \o f[i].name
             v == m[i - 1]
  <2>1. u \in Seq(Token) /\ v \in Seq(Token)
    BY <1>4, <1>6
  <2> HIDE DEF u, v
  <2>2. v \o (u \o x) = (v \o u) \o x
    BY <1>8, <2>1, Associative, Zenon
  <2> QED
    BY <2>2 DEF u, v
<1>9. m[i] = s \o c /\ w[i] = s \o d
  <2>1. Hashed(f[i]) = (<<"file:">> \o f[i].name) \o c
    BY DEF Hashed
  <2>2. Hashed(g[i]) = (<<"file:">> \o f[i].name) \o d
    BY DEF Hashed
  <2>3. m[i] = m[i - 1] \o Hashed(f[i]) /\ w[i] = m[i - 1] \o Hashed(g[i])
    BY DEF Marks
  <2> HIDE DEF s
  <2> QED
    BY <1>2, <1>8, <2>1, <2>2, <2>3
<1>10. Begins(s \o c, h) /\ Begins(s \o d, h)
  <2>1. Begins(m[i], h) /\ Begins(w[i], h)
    BY <1>3, MarksBegin
  <2> HIDE DEF s, c, d
  <2> QED
    BY <1>9, <2>1
<1>11. d \in Seq(Token) /\ \A k \in 1..Len(d) : d[k] \notin Prefix
  <2>1. i \in DOMAIN g
    BY LenProperties
  <2>2. DOMAIN d = 1..Len(d)
    BY <1>2, LenProperties
  <2> QED
    BY <1>2, <2>1, <2>2 DEF Clear
<1>12. i # Len(f) => \E e \in Seq(Token) : Len(e) >= 1 /\ e[1] \in Prefix /\ Begins(m[i] \o e, h)
  <2> SUFFICES ASSUME i # Len(f)
               PROVE  \E e \in Seq(Token) :
                        Len(e) >= 1 /\ e[1] \in Prefix /\ Begins(m[i] \o e, h)
    OBVIOUS
  <2>1. i + 1 \in 1..Len(f) /\ (i + 1) - 1 = i /\ i + 1 \in 0..Len(f)
    BY <1>3
  <2>2. f[i + 1] \in HashedEntry
    BY <2>1, ElementOfSeq
  <2>3. m[i + 1] = m[(i + 1) - 1] \o Hashed(f[i + 1])
    BY <2>1 DEF Marks
  <2>4. Begins(m[i + 1], h)
    BY <2>1, MarksBegin
  <2> QED
    BY <2>1, <2>2, <2>3, <2>4, HashedType
<1>13. i = Len(f) => m[i] = h
  BY DEF Marks
<1> HIDE DEF s, c, d
<1>14. ASSUME Len(c) < Len(d) PROVE FALSE
  <2>1. Len(s \o c) + 1 <= Len(h) /\ h[Len(s \o c) + 1] = d[Len(c) + 1]
    BY <1>2, <1>4, <1>7, <1>10, <1>14, SharedContent
  <2>2. Len(c) \in Nat /\ Len(d) \in Nat /\ Len(h) \in Nat /\ s \o c \in Seq(Token)
    BY <1>2, <1>4, <1>7, Concat, LenProperties
  <2>3. d[Len(c) + 1] \notin Prefix
    BY <1>11, <1>14, <2>2
  <2>4. CASE i = Len(f)
    BY <1>9, <1>13, <2>1, <2>2, <2>4
  <2>5. CASE i # Len(f)
    <3>1. PICK e \in Seq(Token) : Len(e) >= 1 /\ e[1] \in Prefix /\ Begins((s \o c) \o e, h)
      BY <1>9, <1>12, <2>5
    <3>2. h[Len(s \o c) + 1] = e[1]
      BY <2>2, <3>1, NextToken
    <3> QED
      BY <2>1, <2>3, <3>1, <3>2
  <2> QED
    BY <2>4, <2>5
<1>15. \A k \in 1..Len(d) : k \in 1..Len(c) => c[k] = d[k]
  BY <1>2, <1>4, <1>7, <1>10, SharedContent
<1>16. Len(c) >= Len(d)
  BY <1>2, <1>14, LenProperties
<1> QED
  BY <1>15, <1>16 DEF c, d

\* Two builds of one outline and one digest are one.
THEOREM DigestInjective ==
  ASSUME NEW f, NEW g, NEW h, Fed(f, h), Fed(g, h),
         Outline(f) = Outline(g), Clear(f), Clear(g)
  PROVE  f = g
<1> f \in Seq(HashedEntry) /\ g \in Seq(HashedEntry)
  BY DEF Fed
<1>1. PICK m : Marks(m, f, h)
  BY DEF Fed
<1>2. PICK w : Marks(w, g, h)
  BY DEF Fed
<1>3. Len(f) \in Nat /\ DOMAIN f = 1..Len(f) /\ Len(g) \in Nat /\ DOMAIN g = 1..Len(g)
  BY LenProperties
<1>4. Len(f) = Len(g)
  <2>1. DOMAIN Outline(f) = DOMAIN f /\ DOMAIN Outline(g) = DOMAIN g
    BY DEF Outline
  <2>2. 1..Len(f) = 1..Len(g)
    BY <1>3, <2>1
  <2> QED
    BY <1>3, <2>2, SameLength
<1>5. \A i \in 1..Len(f) : f[i].type = g[i].type /\ f[i].name = g[i].name
  <2> SUFFICES ASSUME NEW i \in 1..Len(f)
               PROVE  f[i].type = g[i].type /\ f[i].name = g[i].name
    OBVIOUS
  <2>1. Outline(f)[i] = <<f[i].type, f[i].name>>
    BY <1>3 DEF Outline
  <2>2. Outline(g)[i] = <<g[i].type, g[i].name>>
    BY <1>3, <1>4 DEF Outline
  <2> QED
    BY <2>1, <2>2
<1> DEFINE T == {i \in 1..Len(f) : f[i] # g[i]}
<1>6. T = {}
  <2> SUFFICES ASSUME T # {} PROVE FALSE
    OBVIOUS
  <2> T \subseteq Nat
    BY <1>3
  <2> HIDE DEF T
  <2>1. PICK i \in T : \A k \in T : i <= k
    BY LeastNumber
  <2> USE DEF T
  <2>2. i \in 1..Len(f) /\ i - 1 \in 0..Len(f) /\ \A j \in 1..(i - 1) : f[j] = g[j]
    BY <1>3, <2>1
  <2>3. m[i - 1] = w[i - 1]
    BY <1>1, <1>2, <1>4, <2>2, MarksAgree
  <2>4. f[i] \in HashedEntry /\ g[i] \in HashedEntry
    BY <1>4, <2>2, ElementOfSeq
  <2>5. f[i].content = g[i].content
    <3>1. CASE f[i].type # "file"
      BY <1>5, <2>2, <2>4, <3>1 DEF HashedEntry
    <3>2. CASE f[i].type = "file"
      <4>1. g[i].type = "file" /\ f[i].name = g[i].name
        BY <1>5, <2>2, <3>2
      <4> DEFINE c == f[i].content
                 d == g[i].content
      <4>2. c \in Seq(Token) /\ d \in Seq(Token)
        BY <2>4 DEF HashedEntry, Entry
      <4>3. /\ Len(c) >= Len(d)
            /\ \A k \in 1..Len(d) : k \in 1..Len(c) => c[k] = d[k]
        BY <1>1, <1>2, <1>4, <2>2, <2>3, <3>2, <4>1, NotShorter
      <4>4. Len(d) >= Len(c)
        BY <1>1, <1>2, <1>4, <2>2, <2>3, <3>2, <4>1, NotShorter
      <4> HIDE DEF c, d
      <4>5. Len(c) = Len(d)
        BY <4>2, <4>3, <4>4, LenProperties
      <4>6. c = d
        BY <4>2, <4>3, <4>5, SeqEqual
      <4> QED
        BY <4>6 DEF c, d
    <3> QED
      BY <3>1, <3>2
  <2>6. \A x \in HashedEntry : x = [type |-> x.type, name |-> x.name, content |-> x.content]
    BY DEF HashedEntry, Entry
  <2>7. f[i].type = g[i].type /\ f[i].name = g[i].name
    BY <1>5, <2>2
  <2>8. f[i] = g[i]
    BY <2>4, <2>5, <2>6, <2>7
  <2> QED
    BY <2>1, <2>8
<1> QED
  BY <1>4, <1>6, SeqEqual

-----------------------------------------------------------------------------
(* The registry knows where its digests come from.  *)

Inv ==
  /\ left \in Seq(Entry)
  /\ \A i \in DOMAIN left : left[i].type # "file" => left[i].content = <<>>
  /\ Fed(fed, hasher)
  /\ \A s \in stored : Fed(s.fed, s.digest)

LEMMA FedNothing == Fed(<<>>, <<>>)
<1> DEFINE m == [i \in 0..0 |-> <<>>]
<1>1. Marks(m, <<>>, <<>>)
  BY DEF Marks
<1> QED
  BY <1>1 DEF Fed

LEMMA FedMore ==
  ASSUME NEW f, NEW h, Fed(f, h), NEW e \in HashedEntry
  PROVE  Fed(Append(f, e), h \o Hashed(e))
<1> DEFINE n == Len(f)
           g == Append(f, e)
<1>1. f \in Seq(HashedEntry) /\ n \in Nat
  BY LenProperties DEF Fed
<1>2. PICK m : Marks(m, f, h)
  BY DEF Fed
<1>3. /\ g \in Seq(HashedEntry) /\ Len(g) = n + 1
      /\ \A i \in 1..n : g[i] = f[i]
      /\ g[n + 1] = e
  BY <1>1, AppendProperties
<1>4. h \in Seq(Token) /\ h \o Hashed(e) \in Seq(Token)
  <2>1. h \in Seq(Token)
    BY <1>1, <1>2 DEF Marks
  <2> QED
    BY <2>1, HashedType, Concat
<1> DEFINE w == [i \in 0..(n + 1) |-> IF i = n + 1 THEN h \o Hashed(e) ELSE m[i]]
<1> HIDE DEF g, n
<1>5. w \in [0..(n + 1) -> Seq(Token)]
  BY <1>1, <1>2, <1>4 DEF Marks, n
<1>6. w[0] = <<>> /\ w[n + 1] = h \o Hashed(e)
  BY <1>1, <1>2 DEF Marks
<1>7. ASSUME NEW i \in 1..(n + 1) PROVE w[i] = w[i - 1] \o Hashed(g[i])
  <2>1. CASE i = n + 1
    <3>1. i - 1 = n /\ n \in 0..(n + 1) /\ n # n + 1
      BY <1>1, <2>1
    <3>2. w[i - 1] = h
      BY <1>2, <3>1 DEF Marks, n
    <3> QED
      BY <1>3, <1>6, <2>1, <3>2
  <2>2. CASE i # n + 1
    <3>1. i \in 1..n /\ i - 1 \in 0..(n + 1) /\ i - 1 # n + 1
      BY <1>1, <2>2
    <3>2. w[i] = m[i] /\ w[i - 1] = m[i - 1]
      BY <2>2, <3>1
    <3>3. m[i] = m[i - 1] \o Hashed(f[i])
      BY <1>2, <3>1 DEF Marks, n
    <3> QED
      BY <1>3, <3>1, <3>2, <3>3
  <2> QED
    BY <2>1, <2>2
<1>8. Marks(w, g, h \o Hashed(e))
  BY <1>3, <1>5, <1>6, <1>7 DEF Marks
<1> QED
  BY <1>3, <1>8 DEF Fed, g

LEMMA InvInit == Init => Inv
  BY FedNothing DEF Init, Inv

LEMMA InvStep == Inv /\ [Next]_vars => Inv'
<1> SUFFICES ASSUME Inv, [Next]_vars PROVE Inv'
  OBVIOUS
<1> USE DEF Inv
<1>1. CASE Receive
  BY <1>1, FedNothing, DigestAssumption DEF Receive
<1>2. CASE HashEntry
  <2>1. /\ Head(left) \in Entry /\ Tail(left) \in Seq(Entry)
        /\ Head(left) = left[1]
        /\ \A i \in DOMAIN Tail(left) : i + 1 \in DOMAIN left /\ Tail(left)[i] = left[i + 1]
        /\ 1 \in DOMAIN left
    BY <1>2, HeadTailProperties, LenProperties, EmptySeq DEF HashEntry
  <2>2. \A i \in DOMAIN left' : left'[i].type # "file" => left'[i].content = <<>>
    BY <1>2, <2>1 DEF HashEntry
  <2>3. CASE Hashable(Head(left))
    <3>1. Head(left) \in HashedEntry
      BY <2>1, <2>3 DEF HashedEntry
    <3>2. Fed(fed', hasher')
      BY <1>2, <2>3, <3>1, FedMore DEF HashEntry
    <3> QED
      BY <1>2, <2>1, <2>2, <3>2 DEF HashEntry
  <2>4. CASE ~Hashable(Head(left))
    BY <1>2, <2>1, <2>2, <2>4 DEF HashEntry
  <2> QED
    BY <2>3, <2>4
<1>3. CASE SkipWrite \/ WriteFails
  BY <1>3 DEF SkipWrite, WriteFails, Answer
<1>4. CASE Write
  <2>1. stored' = stored \cup {[digest |-> hasher, fed |-> fed]} /\ UNCHANGED <<left, hasher, fed>>
    BY <1>4 DEF Write, Answer
  <2> QED
    BY <2>1
<1>5. CASE UNCHANGED vars
  BY <1>5 DEF vars
<1>6. CASE HashFails
  BY <1>6 DEF HashFails
<1> QED
  BY <1>1, <1>2, <1>3, <1>4, <1>5, <1>6 DEF Next

\* Whatever has been pushed before, a push whose write is skipped because of its digest
\* finds its own files stored, as far as outlines agree and contents hold no prefix.
THEOREM DigestsDiscern == Spec => []DigestDiscerns
<1>1. Inv => DigestDiscerns
  BY DigestInjective DEF Inv, DigestDiscerns
<1> QED
  BY <1>1, InvInit, InvStep, PTL DEF Spec

=============================================================================
