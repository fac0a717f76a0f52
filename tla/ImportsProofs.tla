---------------------------- MODULE ImportsProofs ----------------------------
(***************************************************************************)
(* Imports, for any number of threads, modules and nested imports and      *)
(* calls: what is being imported is listed as in progress until two        *)
(* imports of one module are let in at once, and while one thread does the *)
(* importing that never happens, its context comes back, its output is     *)
(* kept and no module is run to its end twice.                             *)
(*                                                                         *)
(* The inductive invariant says of every frame of a stack what it has      *)
(* saved: the text and the speaker of the frames below it.  Of the list it *)
(* says where the entries that imports will remove are, and what a search  *)
(* has passed.                                                             *)
(***************************************************************************)
EXTENDS Imports, FiniteSetTheorems, SequenceTheorems, WellFoundedInduction, NaturalsInduction, TLAPS

-----------------------------------------------------------------------------
\* Every set of naturals that is not empty has a least element.
LEMMA LeastOfNaturals ==
    ASSUME NEW S \in SUBSET Nat, S # {}
    PROVE  \E m \in S : \A n \in S : m <= n
<1>1. PICK m \in S : \A n \in S : ~(<<n, m>> \in OpToRel(<, Nat))
  BY WFMin, NatLessThanWellFounded, Zenon
<1>2. \A n \in S : ~(n < m)
  BY <1>1, Zenon DEF OpToRel
<1> QED
  BY <1>2

\* What Max and Min are of a set of numbers with that bound.
LEMMA MaxIs ==
    ASSUME NEW S \in SUBSET Nat, NEW m \in S, \A n \in S : n <= m
    PROVE  Max(S) = m
<1>1. \E x \in S : \A y \in S : x >= y
  OBVIOUS
<1>2. Max(S) \in S /\ \A y \in S : Max(S) >= y
  BY <1>1 DEF Max
<1>3. Max(S) \in Nat /\ m \in Nat /\ Max(S) >= m /\ Max(S) <= m
  BY <1>2
<1> QED
  BY <1>3

LEMMA MinOfOne ==
    ASSUME NEW m \in Nat
    PROVE  Min({m}) = m
  BY DEF Min

\* The members of r are those of s but the one at i, each from a place of its own.
Without(s, i, r) ==
    \E old \in [DOMAIN r -> DOMAIN s] :
       /\ \A j \in DOMAIN r : old[j] # i /\ r[j] = s[old[j]]
       /\ \A j, k \in DOMAIN r : old[j] = old[k] => j = k
       /\ \A k \in DOMAIN s : k # i => \E j \in DOMAIN r : old[j] = k

LEMMA RemoveAtFacts ==
    ASSUME NEW S, NEW s \in Seq(S), NEW i \in DOMAIN s
    PROVE  RemoveAt(s, i) \in Seq(S) /\ Without(s, i, RemoveAt(s, i))
<1>1. PICK n \in Nat : n = Len(s) /\ DOMAIN s = 1..n /\ (\A j \in 1..n : s[j] \in S) /\ i \in 1..n
  BY LenProperties, ElementOfSeq
<1> DEFINE a == SubSeq(s, 1, i - 1)
           b == SubSeq(s, i + 1, n)
           r == a \o b
<1>5. RemoveAt(s, i) = r
  BY <1>1 DEF RemoveAt
<1>6. a \in Seq(S) /\ Len(a) = i - 1 /\ \A j \in 1..(i - 1) : a[j] = s[j]
  <2>1. \A j \in 1..(i - 1) : s[j] \in S
    BY <1>1
  <2>2. 1 \in Int /\ i - 1 \in Int /\ i - 1 - 1 + 1 = i - 1 /\ (~(1 <= i - 1) => i - 1 = 0)
    BY <1>1
  <2>3. \A j \in Nat : 1 + j - 1 = j
    OBVIOUS
  <2> QED
    BY <2>1, <2>2, <2>3, SubSeqProperties
<1>7. b \in Seq(S) /\ Len(b) = n - i /\ \A j \in 1..(n - i) : b[j] = s[j + i]
  <2>1. \A j \in (i + 1)..n : s[j] \in S
    BY <1>1
  <2>2. i + 1 \in Int /\ n \in Int /\ n - (i + 1) + 1 = n - i /\ (~(i + 1 <= n) => n - i = 0)
    BY <1>1
  <2>3. \A j \in Nat : (i + 1) + j - 1 = j + i
    BY <1>1
  <2>4. /\ b \in Seq(S)
        /\ Len(b) = IF i + 1 <= n THEN n - (i + 1) + 1 ELSE 0
        /\ \A j \in 1..n - (i + 1) + 1 : b[j] = s[(i + 1) + j - 1]
    BY <2>1, <2>2, SubSeqProperties
  <2> HIDE DEF b
  <2>5. \A j \in 1..(n - i) : j \in Nat /\ j \in 1..n - (i + 1) + 1
    BY <1>1, <2>2
  <2> QED
    BY <2>2, <2>3, <2>4, <2>5
<1> HIDE DEF a, b
<1>8. /\ r \in Seq(S) /\ Len(r) = n - 1
      /\ \A j \in 1..(n - 1) : r[j] = IF j <= i - 1 THEN a[j] ELSE b[j - (i - 1)]
  <2>1. (i - 1) + (n - i) = n - 1
    BY <1>1
  <2>2. /\ r \in Seq(S) /\ Len(r) = Len(a) + Len(b)
        /\ \A j \in 1..Len(a) + Len(b) : r[j] = IF j <= Len(a) THEN a[j] ELSE b[j - Len(a)]
    BY <1>6, <1>7, ConcatProperties
  <2> QED
    BY <1>6, <1>7, <2>1, <2>2
<1> HIDE DEF r
<1>10. DOMAIN r = 1..(n - 1)
  BY <1>8, LenProperties
<1> DEFINE old == [j \in 1..(n - 1) |-> IF j <= i - 1 THEN j ELSE j + 1]
<1>9. \A j \in 1..(n - 1) : old[j] \in 1..n /\ old[j] # i /\ r[j] = s[old[j]]
  <2> SUFFICES ASSUME NEW j \in 1..(n - 1) PROVE old[j] \in 1..n /\ old[j] # i /\ r[j] = s[old[j]]
    OBVIOUS
  <2>1. CASE j <= i - 1
    <3>1. j \in 1..(i - 1) /\ j \in 1..n /\ j # i
      BY <2>1, <1>1
    <3>2. r[j] = a[j]
      BY <2>1, <1>8
    <3> QED
      BY <2>1, <3>1, <3>2, <1>6
  <2>2. CASE ~(j <= i - 1)
    <3>1. j - (i - 1) \in 1..(n - i) /\ (j - (i - 1)) + i = j + 1
      BY <2>2, <1>1
    <3>2. r[j] = b[j - (i - 1)]
      BY <2>2, <1>8
    <3>3. r[j] = s[j + 1]
      BY <3>1, <3>2, <1>7
    <3> QED
      BY <3>3, <2>2, <1>1
  <2> QED
    BY <2>1, <2>2
<1>11. \A j, k \in 1..(n - 1) : old[j] = old[k] => j = k
  BY <1>1
<1>12. ASSUME NEW k \in 1..n, k # i PROVE \E j \in 1..(n - 1) : old[j] = k
  <2>1. CASE k < i
    <3>1. k \in 1..(n - 1) /\ old[k] = k
      BY <2>1, <1>1
    <3> QED
      BY <3>1
  <2>2. CASE k > i
    <3>1. k - 1 \in 1..(n - 1) /\ old[k - 1] = k
      BY <2>2, <1>1
    <3> QED
      BY <3>1
  <2> QED
    BY <1>1, <1>12, <2>1, <2>2
<1>13. old \in [1..(n - 1) -> 1..n]
  BY <1>9
<1> HIDE DEF old
<1>14. Without(s, i, r)
  <2>1. /\ \A j \in DOMAIN r : old[j] # i /\ r[j] = s[old[j]]
        /\ \A j, k \in DOMAIN r : old[j] = old[k] => j = k
        /\ \A k \in DOMAIN s : k # i => \E j \in DOMAIN r : old[j] = k
    BY <1>1, <1>9, <1>10, <1>11, <1>12
  <2>2. old \in [DOMAIN r -> DOMAIN s]
    BY <1>1, <1>10, <1>13
  <2> QED
    BY <2>1, <2>2, Zenon DEF Without
<1> QED
  BY <1>5, <1>8, <1>14

-----------------------------------------------------------------------------
\* FlattenSeq is defined by a recursive function; it exists, and so does what it
\* says of a sequence with one more member, because a least length for which
\* either fails would be the successor of one for which it holds.
Flattening(ss, f) == f = [i \in 1..Len(ss) |-> IF i = 1 THEN ss[i] ELSE f[i - 1] \o ss[i]]

LEMMA FlatteningExists ==
    ASSUME NEW S, NEW ss \in Seq(S)
    PROVE  \E f : Flattening(ss, f)
<1> DEFINE Upto(n, f) == f = [i \in 1..n |-> IF i = 1 THEN ss[i] ELSE f[i - 1] \o ss[i]]
           Bad == {n \in Nat : ~\E f : Upto(n, f)}
<1>1. Upto(0, [i \in 1..0 |-> ss[i]])
  OBVIOUS
<1>2. ASSUME NEW n \in Nat, NEW f, Upto(n, f) PROVE \E g : Upto(n + 1, g)
  <2> DEFINE g == [i \in 1..(n + 1) |-> IF i = 1 THEN ss[i] ELSE f[i - 1] \o ss[i]]
  <2>1. \A i \in 1..n : g[i] = f[i]
    <3>1. \A i \in 1..n : f[i] = IF i = 1 THEN ss[i] ELSE f[i - 1] \o ss[i]
      BY <1>2
    <3> QED
      BY <3>1
  <2>2. \A i \in 1..(n + 1) : i # 1 => i - 1 \in 1..n
    OBVIOUS
  <2>3. \A i \in 1..(n + 1) : (IF i = 1 THEN ss[i] ELSE f[i - 1] \o ss[i])
                                  = (IF i = 1 THEN ss[i] ELSE g[i - 1] \o ss[i])
    BY <2>1, <2>2
  <2>4. Upto(n + 1, g)
    BY <2>3
  <2> QED
    BY <2>4
<1> HIDE DEF Upto
<1>3. Bad = {}
  <2> SUFFICES ASSUME Bad # {} PROVE FALSE
    OBVIOUS
  <2>1. PICK m \in Bad : \A n \in Bad : m <= n
    BY LeastOfNaturals
  <2>2. m # 0
    BY <1>1
  <2>3. m - 1 \in Nat /\ m - 1 \notin Bad /\ (m - 1) + 1 = m
    BY <2>1, <2>2
  <2> QED
    BY <1>2, <2>3
<1>4. Len(ss) \in Nat
  BY LenProperties
<1>5. \E f : Upto(Len(ss), f)
  BY <1>3, <1>4
<1> QED
  BY <1>5 DEF Upto, Flattening

LEMMA FlattenIs ==
    ASSUME NEW S, NEW ss \in Seq(S), Len(ss) # 0
    PROVE  \E f : Flattening(ss, f) /\ FlattenSeq(ss) = f[Len(ss)]
<1> DEFINE f == CHOOSE g : Flattening(ss, g)
<1>1. Flattening(ss, f)
  BY FlatteningExists
<1>2. FlattenSeq(ss) = f[Len(ss)]
  BY DEF FlattenSeq, Flattening
<1> QED
  BY <1>1, <1>2

LEMMA FlatteningValues ==
    ASSUME NEW ss, NEW f, Flattening(ss, f), NEW i \in 1..Len(ss)
    PROVE  f[i] = IF i = 1 THEN ss[i] ELSE f[i - 1] \o ss[i]
<1>1. f = [j \in 1..Len(ss) |-> IF j = 1 THEN ss[j] ELSE f[j - 1] \o ss[j]]
  BY DEF Flattening
<1> QED
  BY <1>1

\* What is flattened of the first n members does not depend on the rest, and is
\* a sequence of what they are sequences of.
LEMMA FlattenPrefix ==
    ASSUME NEW T, NEW ss \in Seq(Seq(T)), NEW tt \in Seq(Seq(T)), NEW f, NEW g,
           Flattening(ss, f), Flattening(tt, g), NEW n \in Nat,
           n <= Len(ss), n <= Len(tt), \A i \in 1..n : ss[i] = tt[i]
    PROVE  \A i \in 1..n : f[i] = g[i] /\ f[i] \in Seq(T)
<1> DEFINE Bad == {i \in 1..n : ~(f[i] = g[i] /\ f[i] \in Seq(T))}
<1> SUFFICES ASSUME Bad # {} PROVE FALSE
  OBVIOUS
<1>1. PICK m \in Bad : \A i \in Bad : m <= i
  <2>1. Bad \in SUBSET Nat
    OBVIOUS
  <2> QED
    BY <2>1, LeastOfNaturals
<1>2. m \in 1..Len(ss) /\ m \in 1..Len(tt) /\ ss[m] = tt[m]
  BY LenProperties
<1>3. ss[m] \in Seq(T)
  BY <1>2, ElementOfSeq
<1>4. m # 1
  BY <1>2, <1>3, FlatteningValues
<1>5. m - 1 \in 1..n /\ m - 1 \notin Bad
  BY <1>1, <1>4
<1>6. f[m] = f[m - 1] \o ss[m] /\ g[m] = g[m - 1] \o tt[m]
  <2>1. f[m] = IF m = 1 THEN ss[m] ELSE f[m - 1] \o ss[m]
    BY <1>2, FlatteningValues
  <2>2. g[m] = IF m = 1 THEN tt[m] ELSE g[m - 1] \o tt[m]
    BY <1>2, FlatteningValues
  <2> QED
    BY <1>4, <2>1, <2>2
<1>7. f[m - 1] = g[m - 1] /\ f[m - 1] \in Seq(T)
  BY <1>5
<1>8. f[m] = g[m]
  BY <1>2, <1>6, <1>7
<1>9. f[m] \in Seq(T)
  BY <1>3, <1>6, <1>7, ConcatProperties
<1> QED
  BY <1>8, <1>9

LEMMA FlattenType ==
    ASSUME NEW T, NEW ss \in Seq(Seq(T))
    PROVE  FlattenSeq(ss) \in Seq(T)
<1>1. CASE Len(ss) = 0
  <2>1. ss = <<>> /\ FlattenSeq(ss) = ss
    BY <1>1, EmptySeq DEF FlattenSeq
  <2> QED
    BY <2>1, EmptySeq
<1>2. CASE Len(ss) # 0
  <2>1. PICK f : Flattening(ss, f) /\ FlattenSeq(ss) = f[Len(ss)]
    BY <1>2, FlattenIs
  <2>2. Len(ss) \in Nat /\ Len(ss) \in 1..Len(ss)
    BY <1>2, LenProperties
  <2>3. \A i \in 1..Len(ss) : f[i] = f[i] /\ f[i] \in Seq(T)
    BY <2>1, <2>2, FlattenPrefix
  <2> QED
    BY <2>1, <2>2, <2>3
<1> QED
  BY <1>1, <1>2

LEMMA FlattenAppend ==
    ASSUME NEW T, NEW ss \in Seq(Seq(T)), NEW s \in Seq(T)
    PROVE  FlattenSeq(Append(ss, s)) = FlattenSeq(ss) \o s
<1> DEFINE tt == Append(ss, s)
           n == Len(ss)
<1>1. /\ tt \in Seq(Seq(T)) /\ Len(tt) = n + 1 /\ n \in Nat
      /\ \A i \in 1..n : tt[i] = ss[i]
      /\ tt[n + 1] = s
  BY AppendProperties, LenProperties
<1> HIDE DEF tt
<1>2. PICK g : Flattening(tt, g) /\ FlattenSeq(tt) = g[n + 1]
  <2>1. Len(tt) # 0
    BY <1>1
  <2> QED
    BY <2>1, <1>1, FlattenIs
<1>3. g[n + 1] = IF n + 1 = 1 THEN s ELSE g[n] \o s
  <2>1. n + 1 \in 1..Len(tt) /\ (n + 1) - 1 = n
    BY <1>1
  <2> QED
    BY <2>1, <1>1, <1>2, FlatteningValues
<1>4. CASE n = 0
  <2>1. ss = <<>> /\ FlattenSeq(ss) = ss
    BY <1>4, EmptySeq DEF FlattenSeq
  <2>2. ss \o s = s
    BY <2>1, ConcatEmptySeq
  <2> QED
    BY <1>2, <1>3, <1>4, <2>1, <2>2 DEF tt
<1>5. CASE n # 0
  <2>1. PICK f : Flattening(ss, f) /\ FlattenSeq(ss) = f[n]
    BY <1>5, FlattenIs
  <2>2. n <= Len(ss) /\ n <= Len(tt) /\ \A i \in 1..n : ss[i] = tt[i]
    BY <1>1
  <2>3. \A i \in 1..n : f[i] = g[i] /\ f[i] \in Seq(T)
    <3> HIDE DEF n
    <3> QED
      BY <1>1, <1>2, <2>1, <2>2, FlattenPrefix
  <2>4. f[n] = g[n]
    BY <1>1, <1>5, <2>3
  <2> QED
    BY <1>1, <1>2, <1>3, <1>5, <2>1, <2>4 DEF tt
<1> QED
  BY <1>4, <1>5

-----------------------------------------------------------------------------
\* Entering an import or a call, leaving it, and saving the context in it.
LEMMA Push ==
    ASSUME NEW fs \in Seq(Frames), fs # <<>>, NEW f \in Frames
    PROVE  /\ Append(fs, f) \in Seq(Frames)
           /\ Append(fs, f) # <<>>
           /\ Len(fs) \in Nat /\ Len(fs) >= 1 /\ Len(Append(fs, f)) = Len(fs) + 1
           /\ \A i \in 1..Len(fs) : Append(fs, f)[i] = fs[i]
           /\ Append(fs, f)[Len(fs) + 1] = f
           /\ Head(Append(fs, f)) = Head(fs)
<1>1. Len(fs) \in Nat \ {0}
  BY EmptySeq
<1> QED
  BY <1>1, AppendProperties, HeadTailAppend

LEMMA Pop ==
    ASSUME NEW fs \in Seq(Frames), Len(fs) > 1
    PROVE  /\ Front(fs) \in Seq(Frames)
           /\ Front(fs) # <<>>
           /\ Len(fs) \in Nat /\ Len(Front(fs)) = Len(fs) - 1
           /\ \A i \in 1..(Len(fs) - 1) : Front(fs)[i] = fs[i]
           /\ Last(fs) = fs[Len(fs)] /\ Last(fs) \in Frames
           /\ Head(Front(fs)) = Head(fs)
<1> DEFINE n == Len(fs)
<1>1. n \in Nat /\ n = Len(fs) /\ \A i \in 1..n : fs[i] \in Frames
  BY LenProperties, ElementOfSeq
<1> HIDE DEF n
<1>2. n > 1
  BY <1>1
<1>3. /\ \A i \in 1..(n - 1) : fs[i] \in Frames
      /\ 1 \in Int /\ n - 1 \in Int /\ 1 <= n - 1 /\ (n - 1) - 1 + 1 = n - 1
      /\ \A i \in Nat : 1 + i - 1 = i
  BY <1>1, <1>2
<1>4. /\ SubSeq(fs, 1, n - 1) \in Seq(Frames)
      /\ Len(SubSeq(fs, 1, n - 1)) = n - 1
      /\ \A i \in 1..(n - 1) : SubSeq(fs, 1, n - 1)[i] = fs[i]
  BY <1>3, SubSeqProperties
<1>5. SubSeq(fs, 1, n - 1) # <<>>
  BY <1>3, <1>4, EmptySeq
<1>6. Head(SubSeq(fs, 1, n - 1)) = Head(fs)
  <2>1. fs # <<>>
    BY <1>1, <1>2, EmptySeq
  <2>2. 1 \in 1..(n - 1)
    BY <1>3
  <2>3. Head(fs) = fs[1] /\ Head(SubSeq(fs, 1, n - 1)) = SubSeq(fs, 1, n - 1)[1]
    BY <2>1, <1>4, <1>5
  <2> QED
    BY <2>2, <2>3, <1>4
<1>7. n \in 1..n
  BY <1>1, <1>2
<1> QED
  BY <1>1, <1>4, <1>5, <1>6, <1>7 DEF Front, Last

LEMMA PushPop ==
    ASSUME NEW fs \in Seq(Frames), fs # <<>>, NEW f \in Frames
    PROVE  Front(Append(fs, f)) = fs /\ Last(Append(fs, f)) = f
<1> DEFINE gs == Append(fs, f)
<1>1. /\ gs \in Seq(Frames) /\ Len(fs) \in Nat /\ Len(fs) >= 1 /\ Len(gs) = Len(fs) + 1
      /\ \A i \in 1..Len(fs) : gs[i] = fs[i]
      /\ gs[Len(fs) + 1] = f
  BY Push
<1> HIDE DEF gs
<1>2. Len(gs) > 1
  BY <1>1
<1>3. /\ Front(gs) \in Seq(Frames) /\ Len(Front(gs)) = Len(gs) - 1
      /\ \A i \in 1..(Len(gs) - 1) : Front(gs)[i] = gs[i]
      /\ Last(gs) = gs[Len(gs)]
  BY <1>1, <1>2, Pop
<1>4. Len(gs) - 1 = Len(fs)
  BY <1>1
<1>5. Front(gs) = fs
  BY <1>1, <1>3, <1>4, SeqEqual
<1> QED
  BY <1>1, <1>3, <1>5 DEF gs

LEMMA PopPush ==
    ASSUME NEW fs \in Seq(Frames), Len(fs) > 1
    PROVE  fs = Append(Front(fs), Last(fs))
<1> DEFINE gs == Front(fs)
           hs == Append(gs, Last(fs))
<1>1. /\ gs \in Seq(Frames) /\ gs # <<>> /\ Len(fs) \in Nat /\ Len(gs) = Len(fs) - 1
      /\ \A i \in 1..(Len(fs) - 1) : gs[i] = fs[i]
      /\ Last(fs) = fs[Len(fs)] /\ Last(fs) \in Frames
  BY Pop
<1> HIDE DEF gs
<1>2. /\ hs \in Seq(Frames) /\ Len(hs) = Len(gs) + 1
      /\ \A i \in 1..Len(gs) : hs[i] = gs[i]
      /\ hs[Len(gs) + 1] = Last(fs)
  BY <1>1, Push
<1> HIDE DEF hs
<1>3. Len(hs) = Len(fs) /\ Len(gs) + 1 = Len(fs)
  BY <1>1, <1>2
<1>4. \A i \in 1..Len(fs) : hs[i] = fs[i]
  <2>1. ASSUME NEW i \in 1..Len(gs) PROVE hs[i] = fs[i]
    BY <2>1, <1>1, <1>2
  <2>2. \A i \in 1..Len(fs) : i \in 1..Len(gs) \/ i = Len(fs)
    BY <1>1
  <2> QED
    BY <2>1, <2>2, <1>1, <1>2, <1>3
<1> QED
  BY <1>2, <1>3, <1>4, SeqEqual DEF hs, gs

WithContext(fs, c, d) == [[fs EXCEPT ![Len(fs)].cur = c] EXCEPT ![Len(fs)].ns = d]

ContextSaved(gs, fs, c, d) ==
    /\ gs \in Seq(Frames) /\ Len(gs) = Len(fs) /\ gs # <<>>
    /\ Head(gs).unit = Head(fs).unit
    /\ \A i \in 1..Len(fs) : /\ gs[i].kind = fs[i].kind /\ gs[i].unit = fs[i].unit
                             /\ gs[i].env = fs[i].env /\ gs[i].saved = fs[i].saved /\ gs[i].n = fs[i].n
                             /\ i # Len(fs) => gs[i] = fs[i]
    /\ gs[Len(fs)].cur = c /\ gs[Len(fs)].ns = d

Replaced(fs, i, f) == [fs EXCEPT ![i] = f]

LEMMA ReplacedFacts ==
    ASSUME NEW fs \in Seq(Frames), NEW i \in 1..Len(fs), NEW f \in Frames
    PROVE  /\ Replaced(fs, i, f) \in Seq(Frames) /\ Len(Replaced(fs, i, f)) = Len(fs)
           /\ \A j \in 1..Len(fs) : Replaced(fs, i, f)[j] = IF j = i THEN f ELSE fs[j]
<1>1. \A S : \A s \in Seq(S) : \A k \in 1..Len(s) : \A x \in S :
         /\ [s EXCEPT ![k] = x] \in Seq(S) /\ Len([s EXCEPT ![k] = x]) = Len(s)
         /\ \A j \in 1..Len(s) : [s EXCEPT ![k] = x][j] = IF j = k THEN x ELSE s[j]
  BY ExceptSeq
<1> QED
  BY <1>1 DEF Replaced

LEMMA SaveContext ==
    ASSUME NEW fs \in Seq(Frames), fs # <<>>, NEW c \in Units, NEW d \in Units
    PROVE  ContextSaved(WithContext(fs, c, d), fs, c, d)
<1> DEFINE n == Len(fs)
           gs == WithContext(fs, c, d)
           e == [[fs[n] EXCEPT !.cur = c] EXCEPT !.ns = d]
<1>1. n \in Nat /\ n = Len(fs) /\ n >= 1 /\ n \in 1..n /\ DOMAIN fs = 1..n /\ fs[n] \in Frames
  BY EmptySeq, LenProperties, ElementOfSeq
<1>2. /\ e \in Frames /\ e.kind = fs[n].kind /\ e.unit = fs[n].unit /\ e.env = fs[n].env
      /\ e.saved = fs[n].saved /\ e.n = fs[n].n /\ e.cur = c /\ e.ns = d
  BY <1>1 DEF Frames
<1>3. gs = Replaced(fs, n, e)
  <2> HIDE DEF n
  <2>1. DOMAIN fs = 1..n /\ n \in DOMAIN fs /\ Len(fs) = n
    BY <1>1
  <2> QED
    BY <2>1 DEF WithContext, Replaced
<1> HIDE DEF e, gs
<1>4. gs \in Seq(Frames) /\ Len(gs) = n /\ \A j \in 1..n : gs[j] = IF j = n THEN e ELSE fs[j]
  <2> HIDE DEF n
  <2>1. n \in 1..Len(fs) /\ e \in Frames
    BY <1>1, <1>2
  <2>2. /\ gs \in Seq(Frames) /\ Len(gs) = Len(fs)
        /\ \A j \in 1..Len(fs) : gs[j] = IF j = n THEN e ELSE fs[j]
    <3>1. /\ Replaced(fs, n, e) \in Seq(Frames) /\ Len(Replaced(fs, n, e)) = Len(fs)
          /\ \A j \in 1..Len(fs) : Replaced(fs, n, e)[j] = IF j = n THEN e ELSE fs[j]
      BY <2>1, ReplacedFacts
    <3> QED
      BY <1>3, <3>1, Zenon
  <2>3. n = Len(fs)
    BY <1>1
  <2> QED
    BY <2>2, <2>3, Zenon
<1>5. gs # <<>>
  BY <1>1, <1>4, EmptySeq
<1>6. Head(gs) = gs[1] /\ Head(fs) = fs[1] /\ 1 \in 1..n
  <2>1. 1 \in 1..n
    BY <1>1
  <2> HIDE DEF n
  <2>2. Head(fs) = fs[1]
    OBVIOUS
  <2>3. Head(gs) = gs[1]
    BY <1>4, <1>5
  <2> QED
    BY <2>1, <2>2, <2>3
<1>7. ContextSaved(gs, fs, c, d)
  BY <1>1, <1>2, <1>4, <1>5, <1>6 DEF ContextSaved
<1> QED
  BY <1>7 DEF gs

-----------------------------------------------------------------------------
\* A set of numbers up to n that is not empty has a greatest.
LEMMA MaxExists ==
    ASSUME NEW n \in Nat, NEW S \in SUBSET (1..n), S # {}
    PROVE  Max(S) \in S
<1> DEFINE Below == {n - i : i \in S}
<1>1. Below \in SUBSET Nat /\ Below # {}
  <2>1. \A i \in S : n - i \in Nat
    <3>1. \A i \in 1..n : n - i \in Nat
      OBVIOUS
    <3> QED
      BY <3>1
  <2> HIDE DEF Below
  <2>2. \A k \in Below : k \in Nat
    BY <2>1 DEF Below
  <2>3. PICK i \in S : TRUE
    OBVIOUS
  <2>4. n - i \in Below
    BY DEF Below
  <2> QED
    BY <2>2, <2>4
<1>2. PICK m \in Below : \A k \in Below : m <= k
  BY <1>1, LeastOfNaturals
<1>3. PICK i \in S : m = n - i
  OBVIOUS
<1>4. \A j \in S : n - i <= n - j
  BY <1>2, <1>3
<1>5. \A j \in S : i >= j
  BY <1>4
<1>6. \E x \in S : \A y \in S : x >= y
  BY <1>5
<1> QED
  BY <1>6 DEF Max

\* The text and the speaker of one more frame, and of frames that agree.
LEMMA TextStep ==
    ASSUME NEW fs, NEW n \in Nat
    PROVE  TextAt(fs, n + 1) = IF fs[n + 1].kind = "import" THEN fs[n + 1].unit ELSE TextAt(fs, n)
<1> DEFINE S(k) == {i \in 1..k : fs[i].kind = "import"}
<1>1. CASE fs[n + 1].kind = "import"
  <2>1. S(n + 1) \in SUBSET Nat /\ n + 1 \in S(n + 1) /\ \A k \in S(n + 1) : k <= n + 1
    BY <1>1
  <2>2. Max(S(n + 1)) = n + 1
    BY <2>1, MaxIs
  <2> QED
    BY <1>1, <2>2 DEF TextAt
<1>2. CASE fs[n + 1].kind # "import"
  <2>1. S(n + 1) = S(n)
    BY <1>2
  <2> QED
    BY <1>2, <2>1 DEF TextAt
<1> QED
  BY <1>1, <1>2

LEMMA SpeakerStep ==
    ASSUME NEW fs, NEW n \in Nat
    PROVE  SpeakerAt(fs, n + 1) = IF fs[n + 1].unit # Program THEN fs[n + 1].unit ELSE SpeakerAt(fs, n)
<1> DEFINE S(k) == {i \in 1..k : fs[i].unit # Program}
<1>1. CASE fs[n + 1].unit # Program
  <2>1. S(n + 1) \in SUBSET Nat /\ n + 1 \in S(n + 1) /\ \A k \in S(n + 1) : k <= n + 1
    BY <1>1
  <2>2. Max(S(n + 1)) = n + 1 /\ S(n + 1) # {}
    BY <2>1, MaxIs
  <2> QED
    BY <1>1, <2>2 DEF SpeakerAt
<1>2. CASE fs[n + 1].unit = Program
  <2>1. S(n + 1) = S(n)
    BY <1>2
  <2> QED
    BY <1>2, <2>1 DEF SpeakerAt
<1> QED
  BY <1>1, <1>2

LEMMA SameContext ==
    ASSUME NEW fs, NEW gs, NEW n \in Nat, n >= 1, fs[1].kind = "import",
           \A i \in 1..n : fs[i].kind = gs[i].kind /\ fs[i].unit = gs[i].unit
    PROVE  TextAt(fs, n) = TextAt(gs, n) /\ SpeakerAt(fs, n) = SpeakerAt(gs, n)
<1>1. TextAt(fs, n) = TextAt(gs, n)
  <2> DEFINE S(hs) == {i \in 1..n : hs[i].kind = "import"}
  <2>1. S(fs) = S(gs) /\ S(fs) \in SUBSET (1..n) /\ 1 \in S(fs)
    OBVIOUS
  <2>2. Max(S(fs)) \in S(fs)
    BY <2>1, MaxExists
  <2> QED
    BY <2>1, <2>2 DEF TextAt
<1>2. SpeakerAt(fs, n) = SpeakerAt(gs, n)
  <2> DEFINE S(hs) == {i \in 1..n : hs[i].unit # Program}
  <2>1. S(fs) = S(gs) /\ S(fs) \in SUBSET (1..n)
    OBVIOUS
  <2>2. CASE S(fs) = {}
    BY <2>1, <2>2 DEF SpeakerAt
  <2>3. CASE S(fs) # {}
    <3>1. Max(S(fs)) \in S(fs)
      BY <2>1, <2>3, MaxExists
    <3> QED
      BY <2>1, <2>3, <3>1 DEF SpeakerAt
  <2> QED
    BY <2>2, <2>3
<1> QED
  BY <1>1, <1>2

\* The output saved in a frame comes after that saved in the frames below.
LEMMA SavedType ==
    ASSUME NEW fs \in Seq(Frames)
    PROVE  /\ [i \in DOMAIN fs |-> fs[i].saved] \in Seq(Seq(Units))
           /\ Len([i \in DOMAIN fs |-> fs[i].saved]) = Len(fs)
           /\ SavedOutput(fs) \in Seq(Units)
<1> DEFINE n == Len(fs)
           ss == [i \in 1..n |-> fs[i].saved]
<1>1. n \in Nat /\ DOMAIN fs = 1..n /\ \A i \in 1..n : fs[i] \in Frames
  BY LenProperties, ElementOfSeq
<1>2. \A i \in 1..n : fs[i].saved \in Seq(Units)
  BY <1>1 DEF Frames
<1>3. ss \in [1..n -> Seq(Units)]
  BY <1>2
<1>4. ss \in Seq(Seq(Units)) /\ Len(ss) = n
  <2> HIDE DEF n
  <2> QED
    BY <1>1, <1>3
<1>5. ss = [i \in DOMAIN fs |-> fs[i].saved]
  BY <1>1
<1> HIDE DEF ss
<1>6. FlattenSeq(ss) \in Seq(Units)
  BY <1>4, FlattenType
<1> QED
  BY <1>4, <1>5, <1>6 DEF SavedOutput

LEMMA SavedPush ==
    ASSUME NEW fs \in Seq(Frames), fs # <<>>, NEW f \in Frames
    PROVE  SavedOutput(Append(fs, f)) = SavedOutput(fs) \o f.saved
<1> DEFINE gs == Append(fs, f)
           ss == [i \in DOMAIN fs |-> fs[i].saved]
           tt == [i \in DOMAIN gs |-> gs[i].saved]
           n == Len(fs)
<1>1. /\ gs \in Seq(Frames) /\ n \in Nat /\ Len(gs) = n + 1 /\ \A i \in 1..n : gs[i] = fs[i]
      /\ gs[n + 1] = f
  BY Push
<1> HIDE DEF gs
<1>2. DOMAIN gs = 1..(n + 1) /\ DOMAIN fs = 1..n
  BY <1>1, LenProperties
<1>3. ss \in Seq(Seq(Units)) /\ Len(ss) = n /\ tt \in Seq(Seq(Units)) /\ Len(tt) = n + 1
  BY <1>1, SavedType
<1>4. f.saved \in Seq(Units)
  BY DEF Frames
<1>5. /\ Append(ss, f.saved) \in Seq(Seq(Units)) /\ Len(Append(ss, f.saved)) = n + 1
      /\ \A i \in 1..n : Append(ss, f.saved)[i] = ss[i]
      /\ Append(ss, f.saved)[n + 1] = f.saved
  BY <1>3, <1>4, AppendProperties
<1>6. \A i \in 1..(n + 1) : tt[i] = Append(ss, f.saved)[i]
  <2> HIDE DEF n
  <2>1. \A i \in 1..(n + 1) : i \in 1..n \/ i = n + 1
    BY <1>1
  <2>2. \A i \in 1..n : tt[i] = fs[i].saved /\ ss[i] = fs[i].saved
    BY <1>1, <1>2
  <2>3. tt[n + 1] = f.saved
    BY <1>1, <1>2
  <2> QED
    BY <2>1, <2>2, <2>3, <1>5
<1> HIDE DEF ss, tt, n
<1>7. tt = Append(ss, f.saved)
  BY <1>3, <1>5, <1>6, SeqEqual
<1> QED
  BY <1>3, <1>4, <1>7, FlattenAppend DEF SavedOutput, ss, tt, gs

LEMMA SavedSame ==
    ASSUME NEW fs \in Seq(Frames), NEW gs \in Seq(Frames), Len(fs) = Len(gs),
           \A i \in 1..Len(fs) : fs[i].saved = gs[i].saved
    PROVE  SavedOutput(fs) = SavedOutput(gs)
<1>1. DOMAIN fs = 1..Len(fs) /\ DOMAIN gs = 1..Len(fs)
  BY LenProperties
<1>2. [i \in DOMAIN fs |-> fs[i].saved] = [i \in DOMAIN gs |-> gs[i].saved]
  BY <1>1
<1> QED
  BY <1>2 DEF SavedOutput

-----------------------------------------------------------------------------
\* Every thread is in the main program at the bottom, inside of an import while
\* it reads or finishes one, where it started if it has done nothing yet, and at the
\* beginning of the list unless it searches it.
StackOK(t) ==
    /\ frames[t][1].kind = "import"
    /\ \A i \in 2..Len(frames[t]) : /\ frames[t][i].kind = "import" => frames[t][i].unit \in Modules
                                    /\ frames[t][i].kind = "call" => frames[t][i].saved = <<>>
    /\ pc[t] \in {"read", "ended", "failed"} => Importing(t)
    /\ pc[t] \notin {"looked", "closing", "dropping"} => search[t] = Start(0)
    /\ t \notin users => Len(frames[t]) = 1 /\ pc[t] \in {"run", "raised"}

StacksOK == \A t \in Threads : StackOK(t)

\* Import n of module m is at place i of thread t: a frame of its stack, or 0 when the
\* frame is gone and its entry is to be removed.
Holds(t, i, m, n) == /\ i \in 2..Len(frames[t])
                     /\ frames[t][i].kind = "import"
                     /\ frames[t][i].unit = m /\ frames[t][i].n = n
Removes(t, m, n) == Leaving(t) /\ asked[t] = m /\ search[t].own = n
Has(t, i, m, n) == Holds(t, i, m, n) \/ (i = 0 /\ Removes(t, m, n))

HeldOnce ==
    \A t, u \in Threads : \A i, j \in Nat : \A m, n, k :
        Has(t, i, m, n) /\ Has(u, j, m, k) => t = u /\ i = j

\* No two entries are of the same import; and of the same module, until two imports of
\* one were let in at once.  Until then the entry of every import under way is there.
Numbered ==
    /\ \A i \in DOMAIN in_progress : in_progress[i].n <= imports
    /\ \A i, j \in DOMAIN in_progress : in_progress[i].n = in_progress[j].n => i = j
OneOfEach == \A i, j \in DOMAIN in_progress : in_progress[i].unit = in_progress[j].unit => i = j
AllListed ==
    \A t \in Threads : \A i \in Nat : \A m, n :
        Has(t, i, m, n) => \E k \in DOMAIN in_progress : in_progress[k] = Entry(m, n)
Apart == ~doubled => /\ HeldOnce /\ OneOfEach /\ AllListed
                     /\ \A t \in Threads : Leaving(t) => ~Equal(t)

\* While one thread imports, all that is listed is its own; what its search has
\* passed is not what it looks for.
Alone(t) ==
    /\ ~doubled /\ accused = {}
    /\ \A k \in DOMAIN in_progress : \E i \in Nat : \E n : Has(t, i, in_progress[k].unit, n)
    /\ pc[t] = "looked" =>
          IF Equal(t) THEN asked[t] \in Listed
          ELSE \A k \in DOMAIN in_progress : k <= search[t].at => in_progress[k].unit # asked[t]
    /\ pc[t] = "absent" => asked[t] \notin Listed
    /\ Leaving(t) => \E k \in DOMAIN in_progress : k > search[t].at /\ in_progress[k].n = search[t].own

AloneOK == \A t \in Threads : users \subseteq {t} => Alone(t)

\* While one thread imports, what it is importing is not cached.
Fresh(t) == /\ reloaded = {}
            /\ Inside(t) \cap cache = {}
            /\ pc[t] \in {"looked", "absent"} => asked[t] \notin cache

LoadsOK == loaded = cache /\ \A t \in Threads : users \subseteq {t} => Fresh(t)

\* The context of a thread is that of the unit it runs, and each frame has saved
\* that of the frames below.
Back(t, n) == current = TextAt(frames[t], n) /\ namespace = SpeakerAt(frames[t], n)

SavedBelow(t) ==
    \A i \in 2..Len(frames[t]) : /\ frames[t][i].env = TextAt(frames[t], i - 1)
                                 /\ frames[t][i].cur = TextAt(frames[t], i - 1)
                                 /\ frames[t][i].ns = SpeakerAt(frames[t], i - 1)

Context(t) ==
    LET n == Len(frames[t])
    IN  /\ SavedBelow(t)
        /\ pc[t] \notin {"read", "ended", "failed"} => Back(t, n) /\ global_env = TextAt(frames[t], n)
        /\ pc[t] \in {"read", "ended", "failed"} => Back(t, n - 1)
        /\ pc[t] = "read" => global_env = TextAt(frames[t], n - 1)

ContextOK == \A t \in Threads : users \subseteq {t} => Context(t)

\* The debugger has been sent all lines; the pieces of a thread's output make up
\* what was printed, of which an import that has not emptied the buffer holds the
\* last piece twice.
StreamOK == cursor = Len(output) /\ shown = printed

Pieces(t) ==
    IF pc[t] = "read"
    THEN Top(t).saved = output /\ SavedOutput(Front(frames[t])) \o output = printed
    ELSE SavedOutput(frames[t]) \o output = printed

OutputOK == \A t \in Threads : users \subseteq {t} /\ ~misread => Pieces(t)

-----------------------------------------------------------------------------
\* The frames of a thread, and what a step of another thread leaves alone.
LEMMA TopFacts ==
    ASSUME TypeOK, NEW t \in Threads
    PROVE  /\ frames[t] \in Seq(Frames) /\ frames[t] # <<>>
           /\ Len(frames[t]) \in Nat /\ Len(frames[t]) >= 1
           /\ Top(t) = frames[t][Len(frames[t])] /\ Top(t) \in Frames
           /\ Head(frames[t]) = frames[t][1]
<1>1. frames[t] \in Seq(Frames) /\ frames[t] # <<>>
  BY DEF TypeOK
<1>2. Len(frames[t]) \in Nat \ {0}
  BY <1>1, EmptySeq
<1>3. Top(t) = frames[t][Len(frames[t])]
  BY DEF Top, Last
<1>4. Len(frames[t]) \in 1..Len(frames[t])
  BY <1>2
<1> QED
  BY <1>1, <1>2, <1>3, <1>4, ElementOfSeq

LEMMA FrameFields ==
    ASSUME NEW f \in Frames
    PROVE  /\ f.kind \in {"import", "call"} /\ f.unit \in Units /\ f.env \in Units
           /\ f.saved \in Seq(Units) /\ f.cur \in Units /\ f.ns \in Units /\ f.n \in Nat
  BY DEF Frames

\* Above the program there are imports of modules, and calls, which save no output.
LEMMA InnerFrame ==
    ASSUME StacksOK, NEW t \in Threads, NEW i \in 2..Len(frames[t])
    PROVE  /\ frames[t][i].kind = "import" => frames[t][i].unit \in Modules
           /\ frames[t][i].kind = "call" => frames[t][i].saved = <<>>
<1>1. StackOK(t)
  BY DEF StacksOK
<1> QED
  BY <1>1 DEF StackOK

LEMMA ChangedStack ==
    ASSUME TypeOK, NEW t \in Threads, NEW gs \in Seq(Frames), gs # <<>>,
           Head(gs).unit = Program, frames' = [frames EXCEPT ![t] = gs]
    PROVE  /\ frames' \in [Threads -> Seq(Frames)]
           /\ \A u \in Threads : frames'[u] # <<>> /\ Head(frames'[u]).unit = Program
           /\ frames'[t] = gs
           /\ \A u \in Threads : u # t => frames'[u] = frames[u]
  BY DEF TypeOK

\* What an import saves, and a call.
LEMMA NewFrame ==
    ASSUME NEW k \in {"import", "call"}, NEW u \in Units, NEW n \in Nat, NEW e \in Units, NEW s \in Seq(Units),
           NEW c \in Units, NEW d \in Units
    PROVE  /\ Frame(k, u, n, e, s, c, d) \in Frames
           /\ Frame(k, u, n, e, s, c, d).kind = k /\ Frame(k, u, n, e, s, c, d).unit = u
           /\ Frame(k, u, n, e, s, c, d).env = e /\ Frame(k, u, n, e, s, c, d).saved = s
           /\ Frame(k, u, n, e, s, c, d).cur = c /\ Frame(k, u, n, e, s, c, d).ns = d
           /\ Frame(k, u, n, e, s, c, d).n = n
  BY DEF Frame, Frames

\* The line printed is the one the debugger is sent.
LEMMA LineSent ==
    ASSUME NEW o \in Seq(Units), NEW x \in Units
    PROVE  SubSeq(Append(o, x), Len(o) + 1, Len(Append(o, x))) = <<x>>
<1> DEFINE a == Append(o, x)
           n == Len(o)
<1>1. n \in Nat /\ a \in Seq(Units) /\ Len(a) = n + 1 /\ a[n + 1] = x
  BY AppendProperties, LenProperties
<1> HIDE DEF a, n
<1>2. /\ n + 1 \in Int /\ \A i \in (n + 1)..(n + 1) : a[i] \in Units
      /\ (n + 1) - (n + 1) + 1 = 1 /\ (n + 1) + 1 - 1 = n + 1
  BY <1>1
<1>3. /\ SubSeq(a, n + 1, n + 1) \in Seq(Units)
      /\ Len(SubSeq(a, n + 1, n + 1)) = 1
      /\ SubSeq(a, n + 1, n + 1)[1] = x
  BY <1>1, <1>2, SubSeqProperties
<1>4. SubSeq(a, n + 1, n + 1) = <<x>>
  <2>1. <<x>> \in Seq(Units) /\ Len(<<x>>) = 1 /\ <<x>>[1] = x
    OBVIOUS
  <2>2. \A i \in 1..1 : SubSeq(a, n + 1, n + 1)[i] = <<x>>[i]
    BY <1>3, <2>1
  <2> QED
    BY <1>3, <2>1, <2>2, SeqEqual
<1> QED
  BY <1>1, <1>4 DEF a, n

-----------------------------------------------------------------------------
LEMMA PrintLineEffect ==
    ASSUME TypeOK, StreamOK, NEW t \in Threads, PrintLine(t)
    PROVE  /\ output' = Append(output, Top(t).unit) /\ output' \in Seq(Units)
           /\ printed' = Append(printed, Top(t).unit) /\ printed' \in Seq(Units)
           /\ shown' = printed' /\ cursor' = Len(output')
           /\ cursor' \in Nat
<1>1. Top(t).unit \in Units
  BY TopFacts, FrameFields
<1>2. output \in Seq(Units) /\ printed \in Seq(Units) /\ shown = printed /\ cursor = Len(output)
  BY DEF TypeOK, StreamOK
<1>3. /\ output' = Append(output, Top(t).unit) /\ printed' = Append(printed, Top(t).unit)
      /\ shown' = shown \o SubSeq(output', cursor + 1, Len(output')) /\ cursor' = Len(output')
  BY DEF PrintLine
<1>4. output' \in Seq(Units) /\ printed' \in Seq(Units)
  BY <1>1, <1>2, <1>3, AppendProperties
<1>5. shown' = printed \o <<Top(t).unit>>
  BY <1>1, <1>2, <1>3, LineSent
<1>6. printed' = printed \o <<Top(t).unit>>
  BY <1>1, <1>2, <1>3, AppendIsConcat
<1> QED
  BY <1>3, <1>4, <1>5, <1>6, LenProperties

\* Front of what is rejoined comes the saved output.
LEMMA FinishImportEffect ==
    ASSUME TypeOK, StacksOK, NEW t \in Threads, FinishImport(t)
    PROVE  /\ Len(frames[t]) > 1 /\ Top(t).kind = "import" /\ Top(t).unit \in Modules
           /\ output' \in Seq(Units) /\ Len(output') = Len(output) + Len(Top(t).saved)
           /\ Len(output) \in Nat /\ Len(Top(t).saved) \in Nat
           /\ frames' = [frames EXCEPT ![t] = Front(frames[t])]
<1>1. Importing(t)
  BY DEF FinishImport, StacksOK, StackOK
<1>2. Len(frames[t]) > 1 /\ Top(t).kind = "import"
  BY <1>1 DEF Importing
<1>3. Len(frames[t]) \in 2..Len(frames[t]) /\ Top(t) = frames[t][Len(frames[t])]
  BY <1>2, TopFacts
<1>4. Top(t).unit \in Modules
  <2>1. frames[t][Len(frames[t])].kind = "import" => frames[t][Len(frames[t])].unit \in Modules
    BY <1>3, InnerFrame
  <2> QED
    BY <1>2, <1>3, <2>1
<1>5. Top(t).saved \in Seq(Units) /\ output \in Seq(Units)
  BY TopFacts, FrameFields DEF TypeOK
<1>6. output' = Top(t).saved \o output
  BY DEF FinishImport, Rejoined
<1>7. frames' = [frames EXCEPT ![t] = Front(frames[t])]
  BY DEF FinishImport
<1>8. output' \in Seq(Units) /\ Len(output') = Len(Top(t).saved) + Len(output)
  BY <1>5, <1>6, ConcatProperties
<1> QED
  BY <1>2, <1>4, <1>5, <1>7, <1>8, LenProperties

LEMMA StreamStep ==
    ASSUME TypeOK, StacksOK, StreamOK, [Next]_vars
    PROVE  StreamOK'
<1> USE DEF StreamOK
<1>1. ASSUME NEW t \in Threads, PrintLine(t) PROVE StreamOK'
  BY <1>1, PrintLineEffect
<1>2. ASSUME NEW t \in Threads, RunModule(t) PROVE StreamOK'
  <2>1. output' = <<>> /\ cursor' = 0 /\ UNCHANGED <<shown, printed>>
    BY <1>2 DEF RunModule, FreshCursor, history
  <2> QED
    BY <2>1, EmptySeq
<1>3. ASSUME NEW t \in Threads, FinishImport(t) PROVE StreamOK'
  <2>1. cursor' = cursor + Len(Top(t).saved) /\ UNCHANGED <<shown, printed>>
    BY <1>3 DEF FinishImport
  <2> QED
    BY <1>3, <2>1, FinishImportEffect
<1>4. ASSUME NEW t \in Threads,
             \/ \E m \in Modules : LookUp(t, m)
             \/ Compare(t) \/ Circular(t) \/ NotInProgress(t) \/ LeaveImport(t)
             \/ StartImport(t) \/ Misread(t)
             \/ \E u \in Units : Call(t, u)
             \/ Return(t) \/ Fail(t) \/ Catch(t) \/ EndModule(t)
      PROVE  UNCHANGED <<output, cursor, printed, shown>>
  BY <1>4 DEF LookUp, Compare, Circular, NotInProgress, LeaveImport, StartImport, Misread, Call, Return, Fail, Catch, EndModule, runtimeVars, history
<1>5. CASE UNCHANGED vars
  BY <1>5 DEF vars, runtimeVars, history
<1> QED
  BY <1>1, <1>2, <1>3, <1>4, <1>5 DEF Next

-----------------------------------------------------------------------------
\* What each action that changes a stack makes of it.
LEMMA StartImportEffect ==
    ASSUME TypeOK, NEW t \in Threads, StartImport(t)
    PROVE  LET f == Frame("import", asked[t], imports + 1, global_env, output, current, namespace)
           IN  /\ f \in Frames /\ asked[t] \in Modules
               /\ frames' = [frames EXCEPT ![t] = Append(frames[t], f)]
               /\ in_progress' = Append(in_progress, Entry(asked[t], imports + 1))
               /\ pc' = [pc EXCEPT ![t] = "read"]
               /\ imports' = imports + 1 /\ imports \in Nat
<1>1. asked[t] \in Modules
  BY DEF StartImport, TypeOK
<1>2. Frame("import", asked[t], imports + 1, global_env, output, current, namespace) \in Frames
  <2>1. /\ asked[t] \in Units /\ global_env \in Units /\ output \in Seq(Units)
        /\ current \in Units /\ namespace \in Units /\ imports + 1 \in Nat
    BY <1>1 DEF TypeOK
  <2> QED
    BY <2>1, NewFrame
<1>3. imports \in Nat /\ imports' = imports + 1
  BY DEF StartImport, TypeOK
<1> QED
  BY <1>1, <1>2, <1>3 DEF StartImport, ThreadGoes

LEMMA CallEffect ==
    ASSUME TypeOK, NEW t \in Threads, NEW u \in Units, Call(t, u)
    PROVE  LET f == Frame("call", u, 0, global_env, <<>>, current, namespace)
           IN  /\ f \in Frames
               /\ frames' = [frames EXCEPT ![t] = Append(frames[t], f)]
<1>1. Frame("call", u, 0, global_env, <<>>, current, namespace) \in Frames
  <2>1. global_env \in Units /\ <<>> \in Seq(Units) /\ current \in Units /\ namespace \in Units /\ 0 \in Nat
    BY EmptySeq DEF TypeOK
  <2> QED
    BY <2>1, NewFrame
<1> QED
  BY <1>1 DEF Call

LEMMA RunModuleEffect ==
    ASSUME TypeOK, NEW t \in Threads, RunModule(t), NEW gs,
           gs = WithContext(frames[t], current, namespace)
    PROVE  /\ frames' = [frames EXCEPT ![t] = gs]
           /\ gs \in Seq(Frames) /\ Len(gs) = Len(frames[t]) /\ gs # <<>>
           /\ Head(gs).unit = Program
           /\ \A i \in 1..Len(gs) :
                 /\ gs[i].kind = frames[t][i].kind /\ gs[i].unit = frames[t][i].unit
                 /\ gs[i].env = frames[t][i].env /\ gs[i].saved = frames[t][i].saved /\ gs[i].n = frames[t][i].n
                 /\ i # Len(gs) => gs[i] = frames[t][i]
           /\ gs[Len(gs)].cur = current /\ gs[Len(gs)].ns = namespace
<1>1. frames[t] \in Seq(Frames) /\ frames[t] # <<>> /\ Head(frames[t]).unit = Program
  BY DEF TypeOK
<1>2. current \in Units /\ namespace \in Units
  BY DEF TypeOK
<1>3. frames' = [frames EXCEPT ![t] = gs]
  <2>1. frames \in [Threads -> Seq(Frames)]
    BY DEF TypeOK
  <2>2. frames' = [frames EXCEPT ![t][Len(frames[t])].cur = current,
                                 ![t][Len(frames[t])].ns = namespace]
    BY DEF RunModule
  <2>3. frames'[t] = WithContext(frames[t], current, namespace)
    BY <2>1, <2>2, Zenon DEF WithContext
  <2>4. \A u \in Threads : u # t => frames'[u] = frames[u]
    BY <2>1, <2>2
  <2>5. frames' = [u \in Threads |-> frames'[u]]
    BY <2>1, <2>2
  <2> QED
    BY <2>1, <2>3, <2>4, <2>5
<1>4. ContextSaved(gs, frames[t], current, namespace)
  BY <1>1, <1>2, SaveContext
<1> QED
  BY <1>1, <1>3, <1>4 DEF ContextSaved

LEMMA ReturnEffect ==
    ASSUME TypeOK, StacksOK, NEW t \in Threads, Return(t)
    PROVE  /\ Len(frames[t]) > 1 /\ Top(t).kind = "call"
           /\ frames' = [frames EXCEPT ![t] = Front(frames[t])]
<1>1. Top(t).kind = "call"
  BY DEF Return, Calling
<1>2. Len(frames[t]) # 1
  BY <1>1, TopFacts DEF StacksOK, StackOK
<1>3. Len(frames[t]) > 1
  <2>1. Len(frames[t]) \in Nat /\ Len(frames[t]) >= 1
    BY TopFacts
  <2>2. \A k \in Nat : k >= 1 /\ k # 1 => k > 1
    OBVIOUS
  <2> QED
    BY <1>2, <2>1, <2>2, Zenon
<1>4. frames' = [frames EXCEPT ![t] = Front(frames[t])]
  BY DEF Return
<1> QED
  BY <1>1, <1>3, <1>4

\* A thread's stack grows, loses its top, or keeps its height.
LEMMA PushedStack ==
    ASSUME TypeOK, NEW t \in Threads, NEW f \in Frames,
           frames' = [frames EXCEPT ![t] = Append(frames[t], f)]
    PROVE  /\ frames' \in [Threads -> Seq(Frames)]
           /\ \A u \in Threads : frames'[u] # <<>> /\ Head(frames'[u]).unit = Program
           /\ \A u \in Threads : u # t => frames'[u] = frames[u]
           /\ Len(frames'[t]) = Len(frames[t]) + 1
           /\ \A i \in 1..Len(frames[t]) : frames'[t][i] = frames[t][i]
           /\ frames'[t][Len(frames[t]) + 1] = f
           /\ frames'[t] = Append(frames[t], f)
           /\ Front(frames'[t]) = frames[t]
<1> DEFINE gs == Append(frames[t], f)
<1>1. frames[t] \in Seq(Frames) /\ frames[t] # <<>> /\ Head(frames[t]).unit = Program
  BY DEF TypeOK
<1>2. /\ gs \in Seq(Frames) /\ gs # <<>> /\ Len(gs) = Len(frames[t]) + 1
      /\ \A i \in 1..Len(frames[t]) : gs[i] = frames[t][i]
      /\ gs[Len(frames[t]) + 1] = f
      /\ Head(gs).unit = Program /\ Front(gs) = frames[t]
  BY <1>1, Push, PushPop
<1> HIDE DEF gs
<1>3. frames' = [frames EXCEPT ![t] = gs]
  BY DEF gs
<1>4. /\ frames' \in [Threads -> Seq(Frames)]
      /\ \A u \in Threads : frames'[u] # <<>> /\ Head(frames'[u]).unit = Program
      /\ frames'[t] = gs
      /\ \A u \in Threads : u # t => frames'[u] = frames[u]
  BY <1>2, <1>3, ChangedStack
<1> QED
  BY <1>2, <1>4 DEF gs

LEMMA PoppedStack ==
    ASSUME TypeOK, NEW t \in Threads, Len(frames[t]) > 1,
           frames' = [frames EXCEPT ![t] = Front(frames[t])]
    PROVE  /\ frames' \in [Threads -> Seq(Frames)]
           /\ \A u \in Threads : frames'[u] # <<>> /\ Head(frames'[u]).unit = Program
           /\ \A u \in Threads : u # t => frames'[u] = frames[u]
           /\ Len(frames'[t]) = Len(frames[t]) - 1
           /\ \A i \in 1..(Len(frames[t]) - 1) : frames'[t][i] = frames[t][i]
           /\ frames'[t] = Front(frames[t])
           /\ frames[t] = Append(frames'[t], Top(t))
<1> DEFINE gs == Front(frames[t])
<1>1. frames[t] \in Seq(Frames) /\ frames[t] # <<>> /\ Head(frames[t]).unit = Program
  BY DEF TypeOK
<1>2. /\ gs \in Seq(Frames) /\ gs # <<>> /\ Len(gs) = Len(frames[t]) - 1
      /\ \A i \in 1..(Len(frames[t]) - 1) : gs[i] = frames[t][i]
      /\ Head(gs).unit = Program
  BY <1>1, Pop
<1>3. frames[t] = Append(gs, Top(t))
  BY <1>1, PopPush DEF Top
<1> HIDE DEF gs
<1>4. frames' = [frames EXCEPT ![t] = gs]
  BY DEF gs
<1>5. /\ frames' \in [Threads -> Seq(Frames)]
      /\ \A u \in Threads : frames'[u] # <<>> /\ Head(frames'[u]).unit = Program
      /\ frames'[t] = gs
      /\ \A u \in Threads : u # t => frames'[u] = frames[u]
  BY <1>2, <1>4, ChangedStack
<1> QED
  BY <1>2, <1>3, <1>5 DEF gs

-----------------------------------------------------------------------------
\* Leaving takes at most one entry out of the list.
LEMMA LeaveEffect ==
    ASSUME TypeOK, NEW t \in Threads, LeaveImport(t)
    PROVE  /\ in_progress' \in Seq([unit : Modules, n : Nat])
           /\ \/ Equal(t)
              \/ AtEnd(t) /\ in_progress' = in_progress
              \/ /\ AtOwn(t) /\ NextAt(t) \in DOMAIN in_progress
                 /\ Without(in_progress, NextAt(t), in_progress')
           /\ \/ in_progress' = in_progress
              \/ \E i \in DOMAIN in_progress : Without(in_progress, i, in_progress')
<1>1. in_progress \in Seq([unit : Modules, n : Nat]) /\ search[t].at \in Nat
  BY DEF TypeOK
<1>2. PICK l \in Nat : l = Len(in_progress) /\ DOMAIN in_progress = 1..l
  BY <1>1, LenProperties
<1>3. ASSUME NEW i, in_progress' = NoLongerInProgress(t, i)
      PROVE  /\ in_progress' \in Seq([unit : Modules, n : Nat])
             /\ i \in DOMAIN in_progress => Without(in_progress, i, in_progress')
             /\ i \notin DOMAIN in_progress => in_progress' = in_progress
  <2>1. CASE i \in DOMAIN in_progress
    <3>1. in_progress' = RemoveAt(in_progress, i)
      BY <1>3, <2>1 DEF NoLongerInProgress
    <3> QED
      BY <1>1, <2>1, <3>1, RemoveAtFacts
  <2>2. CASE i \notin DOMAIN in_progress
    BY <1>1, <1>3, <2>2 DEF NoLongerInProgress
  <2> QED
    BY <2>1, <2>2
<1>4. CASE Equal(t) /\ in_progress' = NoLongerInProgress(t, search[t].at)
  BY <1>3, <1>4
<1>5. CASE AtOwn(t) /\ in_progress' = NoLongerInProgress(t, NextAt(t))
  <2>1. NextAt(t) \in DOMAIN in_progress
    BY <1>1, <1>2, <1>5 DEF AtOwn, AtEnd, NextAt
  <2> QED
    BY <1>3, <1>5, <2>1
<1>6. CASE AtEnd(t) /\ in_progress' = in_progress
  BY <1>1, <1>6
<1> QED
  BY <1>4, <1>5, <1>6 DEF LeaveImport

LEMMA TypeStep ==
    ASSUME TypeOK, StacksOK, StreamOK, [Next]_vars
    PROVE  TypeOK'
<1>1. ASSUME NEW t \in Threads, PrintLine(t) PROVE TypeOK'
  <2>1. /\ output' \in Seq(Units) /\ printed' \in Seq(Units) /\ shown' \in Seq(Units)
        /\ cursor' \in 0..Len(output')
    BY <1>1, PrintLineEffect
  <2> QED
    BY <1>1, <2>1 DEF TypeOK, PrintLine, resolverVars, threadVars
<1>2. ASSUME NEW t \in Threads, NEW m \in Modules, LookUp(t, m) PROVE TypeOK'
  <2>1. Modules \subseteq Units
    BY DEF Units
  <2> QED
    BY <1>2, <2>1 DEF TypeOK, LookUp, ThreadGoes, runtimeVars, resolverVars
<1>3. ASSUME NEW t \in Threads, StartImport(t) PROVE TypeOK'
  <2>1. Program \in Units /\ Program \notin Modules
    BY ImportsAssumption DEF Units
  <2>2. asked[t] \in Modules
    BY <1>3 DEF TypeOK, StartImport
  <2>3. /\ asked' = [asked EXCEPT ![t] = Program]
        /\ doubled' \in BOOLEAN
        /\ UNCHANGED <<runtimeVars, cache, search, printed, shown, loaded, reloaded, accused, users, calls, misread>>
    BY <1>3 DEF StartImport
  <2>4. /\ in_progress' = Append(in_progress, Entry(asked[t], imports + 1)) /\ pc' = [pc EXCEPT ![t] = "read"]
        /\ imports' = imports + 1 /\ imports \in Nat
    BY <1>3, StartImportEffect
  <2>5. in_progress' \in Seq([unit : Modules, n : Nat])
    <3>1. Entry(asked[t], imports + 1) \in [unit : Modules, n : Nat]
      BY <2>2, <2>4 DEF Entry
    <3> QED
      BY <2>4, <3>1, AppendProperties DEF TypeOK
  <2>6. /\ frames' \in [Threads -> Seq(Frames)]
        /\ \A u \in Threads : frames'[u] # <<>> /\ Head(frames'[u]).unit = Program
    BY <1>3, StartImportEffect, PushedStack
  <2> QED
    <3>1. /\ pc' \in [Threads -> {"run", "looked", "absent", "read", "raised", "ended", "failed", "closing", "dropping"}]
          /\ asked' \in [Threads -> Units]
          /\ \A u \in Threads : asked'[u] \in Modules <=> pc'[u] \in {"looked", "absent", "closing", "dropping"}
      BY <2>1, <2>3, <2>4 DEF TypeOK
    <3>2. imports' \in Nat
      BY <2>4
    <3> QED
      BY <2>3, <2>5, <2>6, <3>1, <3>2 DEF TypeOK, runtimeVars
<1>4. ASSUME NEW t \in Threads, Misread(t) PROVE TypeOK'
  BY <1>4 DEF TypeOK, Misread, ThreadGoes, runtimeVars, resolverVars
<1>5. ASSUME NEW t \in Threads, RunModule(t) PROVE TypeOK'
  <2>1. /\ frames' \in [Threads -> Seq(Frames)]
        /\ \A u \in Threads : frames'[u] # <<>> /\ Head(frames'[u]).unit = Program
    BY <1>5, RunModuleEffect, ChangedStack
  <2>2. Top(t).unit \in Units
    BY TopFacts, FrameFields
  <2>3. /\ output' = <<>> /\ cursor' = 0 /\ pc[t] = "read" /\ pc' = [pc EXCEPT ![t] = "run"]
        /\ current' = Top(t).unit /\ namespace' = Top(t).unit /\ global_env' = Top(t).unit
        /\ UNCHANGED <<resolverVars, asked, search, history>>
    BY <1>5 DEF RunModule, FreshCursor, ThreadGoes
  <2>4. output' \in Seq(Units) /\ cursor' \in 0..Len(output')
    BY <2>3, EmptySeq
  <2> QED
    BY <2>1, <2>2, <2>3, <2>4 DEF TypeOK, resolverVars, history
<1>6. ASSUME NEW t \in Threads, NEW u \in Units, Call(t, u) PROVE TypeOK'
  <2>1. /\ frames' \in [Threads -> Seq(Frames)]
        /\ \A v \in Threads : frames'[v] # <<>> /\ Head(frames'[v]).unit = Program
    BY <1>6, CallEffect, PushedStack
  <2>2. calls' \in Nat
    BY <1>6 DEF TypeOK, Call
  <2> QED
    BY <1>6, <2>1, <2>2 DEF TypeOK, Call, resolverVars
<1>7. ASSUME NEW t \in Threads, Return(t) PROVE TypeOK'
  <2>1. /\ frames' \in [Threads -> Seq(Frames)]
        /\ \A v \in Threads : frames'[v] # <<>> /\ Head(frames'[v]).unit = Program
    BY <1>7, ReturnEffect, PoppedStack
  <2>2. Top(t).ns \in Units
    BY TopFacts, FrameFields
  <2> QED
    BY <1>7, <2>1, <2>2 DEF TypeOK, Return, resolverVars, history
<1>8. ASSUME NEW t \in Threads, Fail(t) \/ Catch(t) PROVE TypeOK'
  BY <1>8 DEF TypeOK, Fail, Catch, ThreadGoes, runtimeVars, resolverVars, history
<1>9. ASSUME NEW t \in Threads, EndModule(t) PROVE TypeOK'
  <2>1. Top(t).cur \in Units /\ Top(t).ns \in Units
    BY TopFacts, FrameFields
  <2> QED
    BY <1>9, <2>1 DEF TypeOK, EndModule, ThreadGoes, resolverVars, history
<1>10. ASSUME NEW t \in Threads, FinishImport(t) PROVE TypeOK'
  <2>1. /\ frames' \in [Threads -> Seq(Frames)]
        /\ \A v \in Threads : frames'[v] # <<>> /\ Head(frames'[v]).unit = Program
    BY <1>10, FinishImportEffect, PoppedStack
  <2>2. Top(t).env \in Units /\ Top(t).unit \in Modules
    BY <1>10, FinishImportEffect, TopFacts, FrameFields
  <2>3. output' \in Seq(Units) /\ cursor' \in 0..Len(output')
    <3>1. cursor' = cursor + Len(Top(t).saved) /\ cursor = Len(output)
      BY <1>10 DEF FinishImport, StreamOK
    <3> QED
      BY <1>10, <3>1, FinishImportEffect
  <2>4. Top(t).n \in Nat /\ Top(t).unit \in Units /\ Program \in Units
    BY TopFacts, FrameFields DEF Units
  <2>5. /\ global_env' = Top(t).env
        /\ \/ pc' = [pc EXCEPT ![t] = "closing"]
           \/ pc' = [pc EXCEPT ![t] = "dropping"]
        /\ asked' = [asked EXCEPT ![t] = Top(t).unit]
        /\ search' = [search EXCEPT ![t] = Start(Top(t).n)]
        /\ cache' \in {cache, cache \cup {Top(t).unit}}
        /\ loaded' \in {loaded, loaded \cup {Top(t).unit}}
        /\ reloaded' \in {reloaded, reloaded \cup {Top(t).unit}}
        /\ UNCHANGED <<current, namespace, in_progress, printed, shown, accused, users, imports, calls, misread, doubled>>
    BY <1>10 DEF FinishImport, ThreadGoes
  <2>6. Start(Top(t).n) \in [at : Nat, met : Units, own : Nat]
    BY <2>4 DEF Start
  <2> QED
    BY <2>1, <2>2, <2>3, <2>4, <2>5, <2>6 DEF TypeOK
<1>12. ASSUME NEW t \in Threads, Compare(t) PROVE TypeOK'
  <2>1. NextAt(t) \in DOMAIN in_progress
    <3>1. in_progress \in Seq([unit : Modules, n : Nat]) /\ search[t].at \in Nat
      BY DEF TypeOK
    <3>2. Len(in_progress) \in Nat /\ DOMAIN in_progress = 1..Len(in_progress)
      BY <3>1, LenProperties
    <3> QED
      BY <1>12, <3>1, <3>2 DEF Compare, AtEnd, NextAt
  <2>2. in_progress[NextAt(t)] \in [unit : Modules, n : Nat]
    BY <2>1, ElementOfSeq, LenProperties DEF TypeOK
  <2>3. in_progress[NextAt(t)].unit \in Units
    BY <2>2 DEF Units
  <2>4. search' \in [Threads -> [at : Nat, met : Units, own : Nat]]
    <3>1. search \in [Threads -> [at : Nat, met : Units, own : Nat]]
      BY DEF TypeOK
    <3>2. search' = [search EXCEPT ![t] = [at |-> NextAt(t), met |-> in_progress[NextAt(t)].unit, own |-> search[t].own]]
      BY <1>12 DEF Compare
    <3>3. NextAt(t) \in Nat
      BY <3>1 DEF NextAt
    <3> QED
      BY <2>3, <3>1, <3>2, <3>3
  <2> QED
    BY <1>12, <2>4 DEF TypeOK, Compare, runtimeVars, resolverVars, history
<1>13. ASSUME NEW t \in Threads, Circular(t) \/ NotInProgress(t) PROVE TypeOK'
  <2>1. Program \in Units /\ Program \notin Modules /\ Start(0) \in [at : Nat, met : Units, own : Nat]
    BY ImportsAssumption DEF Units, Start
  <2>2. asked[t] \in Modules
    BY <1>13 DEF TypeOK, Circular, NotInProgress
  <2>3. CASE Circular(t)
    <3>1. accused' \in {accused, accused \cup {asked[t]}}
      BY <2>3 DEF Circular
    <3> QED
      BY <2>1, <2>2, <2>3, <3>1 DEF TypeOK, Circular, ThreadGoes, runtimeVars, resolverVars
  <2>4. CASE NotInProgress(t)
    BY <2>1, <2>2, <2>4 DEF TypeOK, NotInProgress, ThreadGoes, runtimeVars, resolverVars, history
  <2> QED
    BY <1>13, <2>3, <2>4
<1>14. ASSUME NEW t \in Threads, LeaveImport(t) PROVE TypeOK'
  <2>1. Program \in Units /\ Program \notin Modules /\ Start(0) \in [at : Nat, met : Units, own : Nat]
    BY ImportsAssumption DEF Units, Start
  <2>2. in_progress' \in Seq([unit : Modules, n : Nat])
    BY <1>14, LeaveEffect
  <2>3. /\ pc' = [pc EXCEPT ![t] = "run"] \/ pc' = [pc EXCEPT ![t] = "raised"]
        /\ asked' = [asked EXCEPT ![t] = Program] /\ search' = [search EXCEPT ![t] = Start(0)]
        /\ UNCHANGED <<runtimeVars, cache, frames, history>>
    BY <1>14 DEF LeaveImport, ThreadGoes
  <2> QED
    BY <2>1, <2>2, <2>3 DEF TypeOK, runtimeVars, history
<1>11. CASE UNCHANGED vars
  BY <1>11 DEF TypeOK, vars, runtimeVars, resolverVars, threadVars, history
<1> QED
  BY <1>1, <1>2, <1>3, <1>4, <1>5, <1>6, <1>7, <1>8, <1>9, <1>10, <1>11, <1>12, <1>13, <1>14 DEF Next

-----------------------------------------------------------------------------
\* What a thread may do.  Only its own steps change its stack and its place, and
\* make it a user.
StepOf(t) ==
    \/ PrintLine(t) \/ \E m \in Modules : LookUp(t, m)
    \/ Compare(t) \/ Circular(t) \/ NotInProgress(t) \/ LeaveImport(t)
    \/ StartImport(t) \/ Misread(t) \/ RunModule(t)
    \/ \E u \in Units : Call(t, u)
    \/ Return(t) \/ Fail(t) \/ Catch(t) \/ EndModule(t) \/ FinishImport(t)

LEMMA OthersUnchanged ==
    ASSUME TypeOK, StacksOK, NEW t \in Threads, NEW u \in Threads, u # t,
           StepOf(t)
    PROVE  /\ frames'[u] = frames[u] /\ pc'[u] = pc[u] /\ asked'[u] = asked[u] /\ search'[u] = search[u]
           /\ u \in users' <=> u \in users
<1>0. /\ frames \in [Threads -> Seq(Frames)] /\ DOMAIN pc = Threads /\ DOMAIN asked = Threads
      /\ DOMAIN search = Threads /\ DOMAIN frames = Threads
  BY DEF TypeOK
<1>1. CASE PrintLine(t) \/ \E m \in Modules : LookUp(t, m)
  BY <1>0, <1>1 DEF PrintLine, LookUp, threadVars, ThreadGoes
<1>2. CASE StartImport(t)
  BY <1>0, <1>2 DEF StartImport, ThreadGoes
<1>3. CASE Misread(t) \/ Fail(t) \/ Catch(t) \/ EndModule(t)
  BY <1>0, <1>3 DEF Misread, Fail, Catch, EndModule, ThreadGoes, history
<1>4. CASE RunModule(t)
  <2>1. frames'[u] = frames[u]
    BY <1>4, RunModuleEffect, ChangedStack
  <2> QED
    BY <1>0, <1>4, <2>1 DEF RunModule, ThreadGoes, history
<1>5. CASE \E m \in Units : Call(t, m)
  BY <1>0, <1>5 DEF Call
<1>6. CASE Return(t) \/ FinishImport(t)
  BY <1>0, <1>6 DEF Return, FinishImport, ThreadGoes, history
<1>7. CASE Compare(t) \/ Circular(t) \/ NotInProgress(t) \/ LeaveImport(t)
  BY <1>0, <1>7 DEF Compare, Circular, NotInProgress, LeaveImport, ThreadGoes, history
<1> QED
  BY <1>1, <1>2, <1>3, <1>4, <1>5, <1>6, <1>7 DEF StepOf

LEMMA PlaceFacts ==
    ASSUME TypeOK, NEW t \in Threads, NEW there, ThreadGoes(t, there)
    PROVE  pc'[t] = there
  BY DEF ThreadGoes, TypeOK

LEMMA StackStep ==
    ASSUME TypeOK, StacksOK, NEW t \in Threads,
           StepOf(t)
    PROVE  StackOK(t)'
<1>0. StackOK(t)
  BY DEF StacksOK
<1>1. /\ frames[t] \in Seq(Frames) /\ frames[t] # <<>> /\ Len(frames[t]) \in Nat /\ Len(frames[t]) >= 1
      /\ Top(t) = frames[t][Len(frames[t])]
  BY TopFacts
<1>2. CASE PrintLine(t) \/ \E m \in Modules : LookUp(t, m)
  <2>1. UNCHANGED <<frames, search>> /\ t \in users' /\ (pc' = pc \/ pc'[t] = "looked")
    BY <1>2, PlaceFacts DEF PrintLine, LookUp, threadVars, TypeOK
  <2> QED
    BY <2>1, <1>0, <1>2 DEF StackOK, Importing, Top, PrintLine, threadVars
<1>8. CASE Compare(t) \/ Circular(t) \/ NotInProgress(t) \/ LeaveImport(t)
  <2>1. UNCHANGED <<frames, users>> /\ pc[t] \notin {"run", "raised"}
    BY <1>8 DEF Compare, Circular, NotInProgress, LeaveImport, Leaving, history
  <2>2. /\ pc'[t] \notin {"read", "ended", "failed"}
        /\ pc'[t] \notin {"looked", "closing", "dropping"} => search'[t] = Start(0)
    <3>1. CASE Compare(t)
      BY <3>1 DEF Compare, Leaving
    <3>2. CASE Circular(t) \/ NotInProgress(t) \/ LeaveImport(t)
      <4>1. pc'[t] \in {"raised", "absent", "run"}
        BY <3>2, PlaceFacts DEF Circular, NotInProgress, LeaveImport
      <4>2. search'[t] = Start(0)
        BY <3>2 DEF Circular, NotInProgress, LeaveImport, TypeOK
      <4> QED
        BY <4>1, <4>2
    <3> QED
      BY <1>8, <3>1, <3>2
  <2> QED
    BY <1>0, <2>1, <2>2 DEF StackOK
<1>3. CASE Misread(t) \/ Fail(t) \/ Catch(t) \/ EndModule(t)
  <2>1. UNCHANGED <<frames, users, search>> /\ pc[t] \notin {"looked", "closing", "dropping"}
    BY <1>3 DEF Misread, Fail, Catch, EndModule, history
  <2>2. CASE Misread(t) \/ EndModule(t)
    <3>1. Importing(t) /\ Importing(t)'
      BY <1>0, <2>1, <2>2 DEF StackOK, Misread, EndModule, Importing, Top
    <3> QED
      BY <1>0, <1>1, <2>1, <3>1 DEF StackOK, Importing
  <2>3. CASE Fail(t) \/ Catch(t)
    <3>1. pc'[t] \in {"run", "raised"}
      BY <2>3, PlaceFacts DEF Fail, Catch
    <3> QED
      BY <1>0, <2>1, <3>1 DEF StackOK
  <2> QED
    BY <1>3, <2>2, <2>3
<1>4. CASE StartImport(t)
  <2>0. /\ pc[t] = "absent" /\ pc'[t] = "read" /\ t \in users /\ users' = users
        /\ search'[t] = Start(0)
    BY <1>0, <1>4, PlaceFacts DEF StartImport, StackOK
  <2> DEFINE f == Frame("import", asked[t], imports + 1, global_env, output, current, namespace)
  <2>1. f \in Frames /\ asked[t] \in Modules /\ frames' = [frames EXCEPT ![t] = Append(frames[t], f)]
    BY <1>4, StartImportEffect
  <2>2. f.kind = "import" /\ f.unit = asked[t]
    BY DEF Frame
  <2> HIDE DEF f
  <2>3. /\ Len(frames'[t]) = Len(frames[t]) + 1
        /\ \A i \in 1..Len(frames[t]) : frames'[t][i] = frames[t][i]
        /\ frames'[t][Len(frames[t]) + 1] = f
    BY <2>1, PushedStack
  <2>4. Top(t)' = f
    BY <2>3 DEF Top, Last
  <2>5. Importing(t)'
    BY <1>1, <2>2, <2>3, <2>4 DEF Importing
  <2>6. frames'[t][1].kind = "import"
    BY <1>0, <1>1, <2>3 DEF StackOK
  <2>7. ASSUME NEW i \in 2..Len(frames'[t])
        PROVE  /\ frames'[t][i].kind = "import" => frames'[t][i].unit \in Modules
               /\ frames'[t][i].kind = "call" => frames'[t][i].saved = <<>>
    <3>1. CASE i \in 2..Len(frames[t])
      <4>1. frames'[t][i] = frames[t][i]
        BY <1>1, <2>3, <3>1
      <4> QED
        BY <3>1, <4>1, InnerFrame
    <3>2. CASE i = Len(frames[t]) + 1
      <4>1. frames'[t][i] = f
        BY <2>3, <3>2
      <4> QED
        BY <2>1, <2>2, <4>1
    <3>3. i \in 2..Len(frames[t]) \/ i = Len(frames[t]) + 1
      BY <1>1, <2>3
    <3> QED
      BY <3>1, <3>2, <3>3
  <2> QED
    BY <2>0, <2>5, <2>6, <2>7 DEF StackOK
<1>5. CASE RunModule(t)
  <2> DEFINE gs == WithContext(frames[t], current, namespace)
  <2>1. /\ frames' = [frames EXCEPT ![t] = gs] /\ gs \in Seq(Frames) /\ gs # <<>> /\ Head(gs).unit = Program
        /\ Len(gs) = Len(frames[t])
        /\ \A i \in 1..Len(gs) : /\ gs[i].kind = frames[t][i].kind /\ gs[i].unit = frames[t][i].unit
                                 /\ gs[i].saved = frames[t][i].saved
    BY <1>5, RunModuleEffect
  <2> HIDE DEF gs
  <2>2. frames'[t] = gs
    BY <2>1, ChangedStack
  <2>3. pc'[t] = "run" /\ users' = users /\ t \in users /\ search'[t] = Start(0)
    BY <1>0, <1>5, PlaceFacts DEF RunModule, history, StackOK
  <2> QED
    BY <1>0, <1>1, <2>1, <2>2, <2>3 DEF StackOK
<1>6. ASSUME NEW u \in Units, Call(t, u) PROVE StackOK(t)'
  <2> DEFINE f == Frame("call", u, 0, global_env, <<>>, current, namespace)
  <2>1. f \in Frames /\ frames' = [frames EXCEPT ![t] = Append(frames[t], f)]
    BY <1>6, CallEffect
  <2>2. f.kind = "call" /\ f.saved = <<>>
    BY DEF Frame
  <2> HIDE DEF f
  <2>3. /\ Len(frames'[t]) = Len(frames[t]) + 1
        /\ \A i \in 1..Len(frames[t]) : frames'[t][i] = frames[t][i]
        /\ frames'[t][Len(frames[t]) + 1] = f
    BY <2>1, PushedStack
  <2>4. pc[t] = "run" /\ pc' = pc /\ t \in users' /\ search' = search
    BY <1>6 DEF Call
  <2>5. frames'[t][1].kind = "import"
    BY <1>0, <1>1, <2>3 DEF StackOK
  <2>6. ASSUME NEW i \in 2..Len(frames'[t])
        PROVE  /\ frames'[t][i].kind = "import" => frames'[t][i].unit \in Modules
               /\ frames'[t][i].kind = "call" => frames'[t][i].saved = <<>>
    <3>1. CASE i \in 2..Len(frames[t])
      <4>1. frames'[t][i] = frames[t][i]
        BY <1>1, <2>3, <3>1
      <4> QED
        BY <3>1, <4>1, InnerFrame
    <3>2. CASE i = Len(frames[t]) + 1
      <4>1. frames'[t][i] = f
        BY <2>3, <3>2
      <4> QED
        BY <2>2, <4>1
    <3>3. i \in 2..Len(frames[t]) \/ i = Len(frames[t]) + 1
      BY <1>1, <2>3
    <3> QED
      BY <3>1, <3>2, <3>3
  <2> QED
    BY <1>0, <2>4, <2>5, <2>6 DEF StackOK
<1>7. CASE Return(t) \/ FinishImport(t)
  <2>1. Len(frames[t]) > 1 /\ frames' = [frames EXCEPT ![t] = Front(frames[t])]
    BY <1>7, ReturnEffect, FinishImportEffect
  <2>2. /\ Len(frames'[t]) = Len(frames[t]) - 1
        /\ \A i \in 1..(Len(frames[t]) - 1) : frames'[t][i] = frames[t][i]
    BY <2>1, PoppedStack
  <2>3. /\ pc'[t] \notin {"read", "ended", "failed"}
        /\ pc'[t] \notin {"looked", "closing", "dropping"} => search'[t] = Start(0)
    <3>1. CASE Return(t)
      BY <1>0, <3>1 DEF Return, StackOK
    <3>2. CASE FinishImport(t)
      <4>1. pc'[t] \in {"closing", "dropping"}
        BY <3>2, PlaceFacts DEF FinishImport
      <4> QED
        BY <4>1
    <3> QED
      BY <1>7, <3>1, <3>2
  <2>4. users' = users /\ t \in users
    BY <1>0, <2>1, <1>7 DEF StackOK, Return, FinishImport, history
  <2>5. frames'[t][1].kind = "import"
    BY <1>0, <1>1, <2>1, <2>2 DEF StackOK
  <2>6. \A i \in 2..Len(frames'[t]) : i \in 2..Len(frames[t]) /\ i \in 1..(Len(frames[t]) - 1)
    BY <1>1, <2>2
  <2> QED
    BY <1>0, <2>2, <2>3, <2>4, <2>5, <2>6 DEF StackOK
<1> QED
  BY <1>2, <1>3, <1>4, <1>5, <1>6, <1>7, <1>8 DEF StepOf

LEMMA StacksStep == TypeOK /\ StacksOK /\ [Next]_vars => StacksOK'
<1> SUFFICES ASSUME TypeOK, StacksOK, [Next]_vars PROVE StacksOK'
  OBVIOUS
<1>1. CASE UNCHANGED vars
  BY <1>1 DEF StacksOK, StackOK, Importing, Top, vars, threadVars, history
<1>2. ASSUME NEW t \in Threads, StepOf(t)
      PROVE  StacksOK'
  <2>1. StackOK(t)'
    BY <1>2, StackStep
  <2>2. ASSUME NEW u \in Threads, u # t PROVE StackOK(u)'
    <3>1. frames'[u] = frames[u] /\ pc'[u] = pc[u] /\ search'[u] = search[u] /\ (u \in users' <=> u \in users)
      BY <1>2, <2>2, OthersUnchanged
    <3>2. StackOK(u)
      BY DEF StacksOK
    <3> QED
      BY <3>1, <3>2 DEF StackOK, Importing, Top
  <2>3. \A u \in Threads : StackOK(u)'
    BY <2>1, <2>2
  <2> QED
    BY <2>3 DEF StacksOK
<1> QED
  BY <1>1, <1>2 DEF Next, StepOf

-----------------------------------------------------------------------------
\* Starting an import adds a place where a module is held, finishing one moves it to
\* 0, leaving it takes that away, and nothing else changes the places.
LEMMA HoldsAfterStart ==
    ASSUME TypeOK, NEW t \in Threads, StartImport(t),
           NEW u \in Threads, NEW i \in Nat, NEW m, NEW n
    PROVE  Holds(u, i, m, n)' <=>
              Holds(u, i, m, n) \/ (u = t /\ i = Len(frames[t]) + 1 /\ m = asked[t] /\ n = imports + 1)
<1> DEFINE f == Frame("import", asked[t], imports + 1, global_env, output, current, namespace)
<1>1. f \in Frames /\ frames' = [frames EXCEPT ![t] = Append(frames[t], f)]
  BY StartImportEffect
<1>2. f.kind = "import" /\ f.unit = asked[t] /\ f.n = imports + 1
  BY DEF Frame
<1> HIDE DEF f
<1>3. /\ \A v \in Threads : v # t => frames'[v] = frames[v]
      /\ Len(frames'[t]) = Len(frames[t]) + 1
      /\ \A j \in 1..Len(frames[t]) : frames'[t][j] = frames[t][j]
      /\ frames'[t][Len(frames[t]) + 1] = f
  BY <1>1, PushedStack
<1>4. Len(frames[t]) \in Nat /\ Len(frames[t]) >= 1
  BY TopFacts
<1>5. CASE u # t
  BY <1>3, <1>5 DEF Holds
<1>6. CASE u = t /\ i \in 1..Len(frames[t])
  <2>1. frames'[t][i] = frames[t][i] /\ (i \in 2..Len(frames'[t]) <=> i \in 2..Len(frames[t]))
        /\ i # Len(frames[t]) + 1
    BY <1>3, <1>4, <1>6
  <2> QED
    BY <1>6, <2>1 DEF Holds
<1>7. CASE u = t /\ i = Len(frames[t]) + 1
  <2>1. i \in 2..Len(frames'[t]) /\ i \notin 2..Len(frames[t])
    BY <1>3, <1>4, <1>7
  <2> QED
    BY <1>2, <1>3, <1>7, <2>1 DEF Holds
<1>8. CASE u = t /\ i \notin 1..Len(frames[t]) /\ i # Len(frames[t]) + 1
  <2>1. i \notin 2..Len(frames'[t]) /\ i \notin 2..Len(frames[t])
    BY <1>3, <1>4, <1>8
  <2> QED
    BY <1>8, <2>1 DEF Holds
<1> QED
  BY <1>5, <1>6, <1>7, <1>8

LEMMA HoldsAfterPop ==
    ASSUME TypeOK, StacksOK, NEW t \in Threads, Return(t) \/ FinishImport(t),
           NEW u \in Threads, NEW i \in Nat, NEW m, NEW n
    PROVE  Holds(u, i, m, n)' <=> Holds(u, i, m, n) /\ ~(FinishImport(t) /\ u = t /\ i = Len(frames[t]))
<1>1. Len(frames[t]) > 1 /\ frames' = [frames EXCEPT ![t] = Front(frames[t])]
  BY ReturnEffect, FinishImportEffect
<1>2. /\ \A v \in Threads : v # t => frames'[v] = frames[v]
      /\ Len(frames'[t]) = Len(frames[t]) - 1
      /\ \A j \in 1..(Len(frames[t]) - 1) : frames'[t][j] = frames[t][j]
  BY <1>1, PoppedStack
<1>3. Len(frames[t]) \in Nat /\ Top(t) = frames[t][Len(frames[t])]
  BY TopFacts
<1>4. CASE u # t
  BY <1>2, <1>4 DEF Holds
<1>5. CASE u = t /\ i # Len(frames[t])
  <2>1. CASE i \in 2..Len(frames[t])
    <3>1. i \in 2..Len(frames'[t]) /\ i \in 1..(Len(frames[t]) - 1)
      BY <1>2, <1>3, <1>5, <2>1
    <3> QED
      BY <1>2, <1>5, <2>1, <3>1 DEF Holds
  <2>2. CASE i \notin 2..Len(frames[t])
    <3>1. i \notin 2..Len(frames'[t])
      BY <1>2, <1>3, <1>5, <2>2
    <3> QED
      BY <1>5, <2>2, <3>1 DEF Holds
  <2> QED
    BY <2>1, <2>2
<1>6. CASE u = t /\ i = Len(frames[t])
  <2>1. i \notin 2..Len(frames'[t])
    BY <1>2, <1>3, <1>6
  <2>2. ~FinishImport(t) => frames[t][i].kind = "call"
    BY <1>3, <1>6, ReturnEffect
  <2> QED
    BY <1>6, <2>1, <2>2 DEF Holds
<1> QED
  BY <1>4, <1>5, <1>6

LEMMA HoldsElse ==
    ASSUME TypeOK, StacksOK, NEW t \in Threads, StepOf(t), ~FinishImport(t), ~StartImport(t),
           NEW u \in Threads, NEW i \in Nat, NEW m, NEW n
    PROVE  Holds(u, i, m, n)' <=> Holds(u, i, m, n)
<1>1. CASE \/ PrintLine(t) \/ \E x \in Modules : LookUp(t, x)
           \/ Compare(t) \/ Circular(t) \/ NotInProgress(t) \/ LeaveImport(t)
           \/ Misread(t) \/ Fail(t) \/ Catch(t) \/ EndModule(t)
  <2>1. UNCHANGED frames
    BY <1>1 DEF PrintLine, LookUp, Compare, Circular, NotInProgress, LeaveImport, Misread, Fail, Catch,
                EndModule, threadVars
  <2> QED
    BY <2>1 DEF Holds
<1>2. CASE Return(t)
  BY <1>2, HoldsAfterPop
<1>3. CASE RunModule(t)
  <2> DEFINE gs == WithContext(frames[t], current, namespace)
  <2>1. /\ frames' = [frames EXCEPT ![t] = gs] /\ gs \in Seq(Frames) /\ gs # <<>> /\ Head(gs).unit = Program
        /\ Len(gs) = Len(frames[t])
        /\ \A j \in 1..Len(gs) : gs[j].kind = frames[t][j].kind /\ gs[j].unit = frames[t][j].unit
                                 /\ gs[j].n = frames[t][j].n
    BY <1>3, RunModuleEffect
  <2> HIDE DEF gs
  <2>2. frames'[t] = gs /\ \A v \in Threads : v # t => frames'[v] = frames[v]
    BY <2>1, ChangedStack
  <2>3. Len(frames[t]) \in Nat
    BY TopFacts
  <2>4. \A j \in 2..Len(gs) : j \in 1..Len(gs)
    BY <2>1, <2>3
  <2> QED
    BY <2>1, <2>2, <2>4 DEF Holds
<1>4. ASSUME NEW x \in Units, Call(t, x) PROVE Holds(u, i, m, n)' <=> Holds(u, i, m, n)
  <2> DEFINE f == Frame("call", x, 0, global_env, <<>>, current, namespace)
  <2>1. f \in Frames /\ frames' = [frames EXCEPT ![t] = Append(frames[t], f)]
    BY <1>4, CallEffect
  <2>2. f.kind = "call"
    BY DEF Frame
  <2> HIDE DEF f
  <2>3. /\ \A v \in Threads : v # t => frames'[v] = frames[v]
        /\ Len(frames'[t]) = Len(frames[t]) + 1
        /\ \A j \in 1..Len(frames[t]) : frames'[t][j] = frames[t][j]
        /\ frames'[t][Len(frames[t]) + 1] = f
    BY <2>1, PushedStack
  <2>4. Len(frames[t]) \in Nat
    BY TopFacts
  <2>5. CASE u # t
    BY <2>3, <2>5 DEF Holds
  <2>6. CASE u = t /\ i = Len(frames[t]) + 1
    <3>1. i \notin 2..Len(frames[t])
      BY <2>4, <2>6
    <3> QED
      BY <2>2, <2>3, <2>6, <3>1 DEF Holds
  <2>7. CASE u = t /\ i # Len(frames[t]) + 1
    <3>1. (i \in 2..Len(frames'[t]) <=> i \in 2..Len(frames[t])) /\ (i \in 2..Len(frames[t]) => i \in 1..Len(frames[t]))
      BY <2>3, <2>4, <2>7
    <3> QED
      BY <2>3, <2>7, <3>1 DEF Holds
  <2> QED
    BY <2>5, <2>6, <2>7
<1> QED
  BY <1>1, <1>2, <1>3, <1>4 DEF StepOf

\* The import a thread finishes is the one of its last frame.
LEMMA FinishedPlace ==
    ASSUME TypeOK, StacksOK, NEW t \in Threads, FinishImport(t), NEW m, NEW n
    PROVE  Holds(t, Len(frames[t]), m, n) <=> m = Top(t).unit /\ n = Top(t).n
<1>1. Len(frames[t]) > 1 /\ Top(t).kind = "import"
  BY FinishImportEffect
<1>2. Len(frames[t]) \in 2..Len(frames[t]) /\ Top(t) = frames[t][Len(frames[t])]
  BY <1>1, TopFacts
<1> QED
  BY <1>1, <1>2 DEF Holds

\* Which steps change what a thread is about to remove.
LEMMA RemovesStep ==
    ASSUME TypeOK, StacksOK, NEW t \in Threads, StepOf(t), NEW u \in Threads, NEW m, NEW n
    PROVE  /\ u # t => (Removes(u, m, n)' <=> Removes(u, m, n))
           /\ Compare(t) => (Removes(t, m, n)' <=> Removes(t, m, n))
           /\ FinishImport(t) => (Removes(t, m, n)' <=> m = Top(t).unit /\ n = Top(t).n)
           /\ LeaveImport(t) => ~Leaving(t)'
           /\ ~Compare(t) /\ ~FinishImport(t) /\ ~LeaveImport(t) => ~Leaving(t) /\ ~Leaving(t)'
<1>0. /\ pc \in [Threads -> {"run", "looked", "absent", "read", "raised", "ended", "failed", "closing", "dropping"}]
      /\ asked \in [Threads -> Units] /\ search \in [Threads -> [at : Nat, met : Units, own : Nat]]
  BY DEF TypeOK
<1>1. u # t => (Removes(u, m, n)' <=> Removes(u, m, n))
  BY OthersUnchanged DEF Removes, Leaving
<1>2. Compare(t) => (Removes(t, m, n)' <=> Removes(t, m, n))
  BY <1>0 DEF Compare, Removes, Leaving
<1>3. FinishImport(t) => (Removes(t, m, n)' <=> m = Top(t).unit /\ n = Top(t).n)
  <2> SUFFICES ASSUME FinishImport(t) PROVE Removes(t, m, n)' <=> m = Top(t).unit /\ n = Top(t).n
    OBVIOUS
  <2>1. pc'[t] \in {"closing", "dropping"} /\ asked'[t] = Top(t).unit /\ search'[t] = Start(Top(t).n)
    BY <1>0, PlaceFacts DEF FinishImport
  <2> QED
    BY <2>1 DEF Removes, Leaving, Start
<1>4. LeaveImport(t) => ~Leaving(t)'
  <2> SUFFICES ASSUME LeaveImport(t) PROVE pc'[t] \in {"run", "raised"}
    BY DEF Leaving
  <2> QED
    BY PlaceFacts DEF LeaveImport
<1>5. ASSUME ~Compare(t), ~FinishImport(t), ~LeaveImport(t) PROVE ~Leaving(t) /\ ~Leaving(t)'
  <2>1. CASE PrintLine(t) \/ \E x \in Modules : LookUp(t, x)
    BY <1>0, <2>1 DEF PrintLine, LookUp, Leaving, threadVars, ThreadGoes
  <2>2. CASE Circular(t) \/ NotInProgress(t) \/ StartImport(t) \/ Misread(t) \/ RunModule(t)
    BY <1>0, <2>2 DEF Circular, NotInProgress, StartImport, Misread, RunModule, Leaving, ThreadGoes
  <2>3. CASE Return(t) \/ Fail(t) \/ Catch(t) \/ EndModule(t) \/ \E x \in Units : Call(t, x)
    BY <1>0, <2>3 DEF Return, Fail, Catch, EndModule, Call, Leaving, ThreadGoes
  <2> QED
    BY <1>5, <2>1, <2>2, <2>3 DEF StepOf
<1> QED
  BY <1>1, <1>2, <1>3, <1>4, <1>5

LEMMA HasAfterStart ==
    ASSUME TypeOK, StacksOK, NEW t \in Threads, StartImport(t),
           NEW u \in Threads, NEW i \in Nat, NEW m, NEW n
    PROVE  Has(u, i, m, n)' <=>
              Has(u, i, m, n) \/ (u = t /\ i = Len(frames[t]) + 1 /\ m = asked[t] /\ n = imports + 1)
<1>1. ~Compare(t) /\ ~FinishImport(t) /\ ~LeaveImport(t) /\ StepOf(t)
  BY DEF StartImport, Compare, FinishImport, LeaveImport, Leaving, StepOf
<1>2. Removes(u, m, n)' <=> Removes(u, m, n)
  <2>1. CASE u = t
    <3>1. ~Leaving(t) /\ ~Leaving(t)'
      BY <1>1, RemovesStep
    <3> QED
      BY <2>1, <3>1 DEF Removes
  <2>2. CASE u # t
    BY <1>1, <2>2, RemovesStep
  <2> QED
    BY <2>1, <2>2
<1> QED
  BY <1>2, HoldsAfterStart DEF Has

LEMMA HasAfterFinish ==
    ASSUME TypeOK, StacksOK, NEW t \in Threads, FinishImport(t),
           NEW u \in Threads, NEW i \in Nat, NEW m, NEW n
    PROVE  /\ Has(u, i, m, n)' <=>
                 \/ Has(u, i, m, n) /\ ~(u = t /\ i = Len(frames[t]))
                 \/ u = t /\ i = 0 /\ m = Top(t).unit /\ n = Top(t).n
           /\ Len(frames[t]) > 1
           /\ Has(t, Len(frames[t]), m, n) <=> m = Top(t).unit /\ n = Top(t).n
<1>1. StepOf(t) /\ ~Leaving(t)
  BY DEF FinishImport, Leaving, StepOf
<1>2. Len(frames[t]) \in Nat /\ Len(frames[t]) > 1
  BY FinishImportEffect, TopFacts
<1>3. Holds(u, i, m, n)' <=> Holds(u, i, m, n) /\ ~(u = t /\ i = Len(frames[t]))
  BY HoldsAfterPop
<1>4. u # t => (Removes(u, m, n)' <=> Removes(u, m, n))
  BY <1>1, RemovesStep
<1>5. Removes(t, m, n)' <=> m = Top(t).unit /\ n = Top(t).n
  BY <1>1, RemovesStep
<1>6. Holds(t, Len(frames[t]), m, n) <=> m = Top(t).unit /\ n = Top(t).n
  BY FinishedPlace
<1> QED
  BY <1>1, <1>2, <1>3, <1>4, <1>5, <1>6 DEF Has, Removes

LEMMA HasAfterLeave ==
    ASSUME TypeOK, StacksOK, NEW t \in Threads, LeaveImport(t),
           NEW u \in Threads, NEW i \in Nat, NEW m, NEW n
    PROVE  /\ Has(u, i, m, n)' <=> Has(u, i, m, n) /\ ~(u = t /\ i = 0)
           /\ Has(t, 0, asked[t], search[t].own)
<1>1. StepOf(t) /\ Leaving(t) /\ ~FinishImport(t) /\ ~StartImport(t)
  BY DEF LeaveImport, Leaving, FinishImport, StartImport, StepOf
<1>2. Holds(u, i, m, n)' <=> Holds(u, i, m, n)
  BY <1>1, HoldsElse
<1>3. u # t => (Removes(u, m, n)' <=> Removes(u, m, n))
  BY <1>1, RemovesStep
<1>4. ~Removes(t, m, n)'
  BY <1>1, RemovesStep DEF Removes
<1>5. i = 0 => ~Holds(u, i, m, n)
  BY DEF Holds
<1> QED
  BY <1>1, <1>2, <1>3, <1>4, <1>5 DEF Has, Removes

LEMMA HasElse ==
    ASSUME TypeOK, StacksOK, NEW t \in Threads, StepOf(t), ~FinishImport(t), ~StartImport(t), ~LeaveImport(t),
           NEW u \in Threads, NEW i \in Nat, NEW m, NEW n
    PROVE  Has(u, i, m, n)' <=> Has(u, i, m, n)
<1>1. Holds(u, i, m, n)' <=> Holds(u, i, m, n)
  BY HoldsElse
<1>2. Removes(u, m, n)' <=> Removes(u, m, n)
  <2>1. CASE u # t \/ Compare(t)
    BY <2>1, RemovesStep
  <2>2. CASE u = t /\ ~Compare(t)
    <3>1. ~Leaving(t) /\ ~Leaving(t)'
      BY <2>2, RemovesStep
    <3> QED
      BY <2>2, <3>1 DEF Removes
  <2> QED
    BY <2>1, <2>2
<1> QED
  BY <1>1, <1>2 DEF Has

\* The modules a thread is inside of are those it holds; those in its hand are those
\* it has at any place.
LEMMA InsideIsHeld ==
    ASSUME TypeOK, NEW t \in Threads, NEW m
    PROVE  /\ m \in Inside(t) <=> \E i \in Nat : \E n : Holds(t, i, m, n)
           /\ m \in InHand(t) <=> \E i \in Nat : \E n : Has(t, i, m, n)
<1>1. Len(frames[t]) \in Nat
  BY TopFacts
<1>2. \A i \in 2..Len(frames[t]) : i \in Nat
  BY <1>1
<1>3. m \in Inside(t) <=> \E i \in Nat : \E n : Holds(t, i, m, n)
  BY <1>2 DEF Inside, Holds
<1>4. m \in InHand(t) <=> m \in Inside(t) \/ (Leaving(t) /\ asked[t] = m)
  BY DEF InHand
<1>5. (\E i \in Nat : \E n : i = 0 /\ Removes(t, m, n)) <=> Leaving(t) /\ asked[t] = m
  BY DEF Removes
<1>6. (\E i \in Nat : \E n : Has(t, i, m, n)) <=>
         (\E i \in Nat : \E n : Holds(t, i, m, n)) \/ (\E i \in Nat : \E n : i = 0 /\ Removes(t, m, n))
  BY DEF Has
<1> QED
  BY <1>3, <1>4, <1>5, <1>6

LEMMA UsersGrow == TypeOK /\ [Next]_vars => users \subseteq users'
<1> SUFFICES ASSUME TypeOK, [Next]_vars PROVE users \subseteq users'
  OBVIOUS
<1>1. CASE UNCHANGED vars
  BY <1>1 DEF vars, history
<1>2. ASSUME NEW t \in Threads, StepOf(t) PROVE users \subseteq users'
  BY <1>2 DEF StepOf, PrintLine, LookUp, Compare, Circular, NotInProgress, LeaveImport, StartImport, Misread,
              RunModule, Call, Return, Fail, Catch, EndModule, FinishImport, history
<1> QED
  BY <1>1, <1>2 DEF Next, StepOf

-----------------------------------------------------------------------------
\* The list after a step: one entry more, one less, or as it was.
LEMMA ListStep ==
    ASSUME TypeOK, NEW t \in Threads, StepOf(t)
    PROVE  /\ doubled => doubled'
           /\ StartImport(t) =>
                 \E l \in Nat :
                    /\ DOMAIN in_progress = 1..l /\ DOMAIN in_progress' = 1..(l + 1)
                    /\ \A i \in 1..l : in_progress'[i] = in_progress[i]
                    /\ in_progress'[l + 1] = Entry(asked[t], imports + 1)
                    /\ imports \in Nat /\ imports' = imports + 1
           /\ ~StartImport(t) => imports' = imports /\ doubled' = doubled
           /\ ~StartImport(t) /\ ~LeaveImport(t) => in_progress' = in_progress
<1>1. ASSUME StartImport(t)
      PROVE  \E l \in Nat :
                /\ DOMAIN in_progress = 1..l /\ DOMAIN in_progress' = 1..(l + 1)
                /\ \A i \in 1..l : in_progress'[i] = in_progress[i]
                /\ in_progress'[l + 1] = Entry(asked[t], imports + 1)
                /\ imports \in Nat /\ imports' = imports + 1
  <2>1. /\ in_progress' = Append(in_progress, Entry(asked[t], imports + 1)) /\ asked[t] \in Modules
        /\ imports' = imports + 1 /\ imports \in Nat
    BY <1>1, StartImportEffect
  <2>2. in_progress \in Seq([unit : Modules, n : Nat]) /\ Entry(asked[t], imports + 1) \in [unit : Modules, n : Nat]
    BY <2>1 DEF TypeOK, Entry
  <2> DEFINE e == Entry(asked[t], imports + 1)
             r == Append(in_progress, e)
  <2> HIDE DEF e
  <2>3. /\ Len(in_progress) \in Nat /\ DOMAIN in_progress = 1..Len(in_progress)
        /\ r \in Seq([unit : Modules, n : Nat]) /\ Len(r) = Len(in_progress) + 1
        /\ \A i \in 1..Len(in_progress) : r[i] = in_progress[i]
        /\ r[Len(in_progress) + 1] = e
    BY <2>2, AppendProperties, LenProperties DEF e
  <2>4. DOMAIN r = 1..(Len(in_progress) + 1)
    BY <2>3, LenProperties
  <2> QED
    BY <2>1, <2>3, <2>4 DEF e
<1>2. ~StartImport(t) => imports' = imports /\ doubled' = doubled
  BY DEF StepOf, PrintLine, LookUp, Compare, Circular, NotInProgress, LeaveImport, Misread,
         RunModule, Call, Return, Fail, Catch, EndModule, FinishImport, history
<1>4. doubled => doubled'
  <2>1. CASE StartImport(t)
    BY <2>1, Zenon DEF StartImport
  <2> QED
    BY <1>2, <2>1
<1>3. ASSUME ~StartImport(t), ~LeaveImport(t) PROVE in_progress' = in_progress
  BY <1>3 DEF StepOf, PrintLine, LookUp, Compare, Circular, NotInProgress, Misread,
         RunModule, Call, Return, Fail, Catch, EndModule, FinishImport, resolverVars
<1> QED
  BY <1>1, <1>2, <1>3, <1>4, Zenon

LEMMA NumberedStep ==
    ASSUME TypeOK, Numbered, [Next]_vars
    PROVE  Numbered'
<1>1. CASE UNCHANGED vars
  BY <1>1 DEF Numbered, vars, resolverVars, history
<1>2. ASSUME NEW t \in Threads, StepOf(t), StartImport(t) PROVE Numbered'
  <2>1. PICK l \in Nat : /\ DOMAIN in_progress = 1..l /\ DOMAIN in_progress' = 1..(l + 1)
                         /\ \A i \in 1..l : in_progress'[i] = in_progress[i]
                         /\ in_progress'[l + 1] = Entry(asked[t], imports + 1)
                         /\ imports \in Nat /\ imports' = imports + 1
    BY <1>2, ListStep
  <2>2. in_progress'[l + 1].n = imports + 1
    BY <2>1 DEF Entry
  <2>3. \A i \in 1..l : in_progress[i].n \in Nat /\ in_progress[i].n <= imports
    <3>1. in_progress \in [1..l -> [unit : Modules, n : Nat]]
      BY <2>1, LenProperties DEF TypeOK
    <3> QED
      BY <2>1, <3>1 DEF Numbered
  <2>4. \A i \in 1..(l + 1) : i \in 1..l \/ i = l + 1
    OBVIOUS
  <2>5. \A i \in 1..(l + 1) : in_progress'[i].n <= imports'
    BY <2>1, <2>2, <2>3, <2>4
  <2>6. \A i, j \in 1..(l + 1) : in_progress'[i].n = in_progress'[j].n => i = j
    <3>1. \A i \in 1..l : in_progress'[i].n # imports + 1 /\ in_progress'[i].n = in_progress[i].n
      BY <2>1, <2>3
    <3> QED
      BY <2>1, <2>2, <2>4, <3>1 DEF Numbered
  <2> QED
    BY <2>1, <2>5, <2>6 DEF Numbered
<1>3. ASSUME NEW t \in Threads, StepOf(t), LeaveImport(t), ~StartImport(t) PROVE Numbered'
  <2>1. in_progress' = in_progress \/ \E i \in DOMAIN in_progress : Without(in_progress, i, in_progress')
    BY <1>3, LeaveEffect
  <2>2. imports' = imports
    BY <1>3, ListStep
  <2>3. CASE in_progress' = in_progress
    BY <2>2, <2>3 DEF Numbered
  <2>4. ASSUME NEW i \in DOMAIN in_progress, Without(in_progress, i, in_progress') PROVE Numbered'
    BY <2>2, <2>4 DEF Numbered, Without
  <2> QED
    BY <2>1, <2>3, <2>4
<1>4. ASSUME NEW t \in Threads, StepOf(t), ~LeaveImport(t), ~StartImport(t) PROVE Numbered'
  BY <1>4, ListStep DEF Numbered
<1> QED
  BY <1>1, <1>2, <1>3, <1>4 DEF Next, StepOf

\* Where the entry of the import that a thread leaves is; what goes is this entry.
LEMMA OwnEntry ==
    ASSUME TypeOK, Apart, Numbered, ~doubled, NEW t \in Threads, Leaving(t)
    PROVE  /\ Has(t, 0, asked[t], search[t].own)
           /\ ~Equal(t)
           /\ \E k \in DOMAIN in_progress :
                 /\ in_progress[k] = Entry(asked[t], search[t].own)
                 /\ \A j \in DOMAIN in_progress :
                       in_progress[j].unit = asked[t] \/ in_progress[j].n = search[t].own => j = k
<1>1. Has(t, 0, asked[t], search[t].own)
  BY DEF Has, Removes
<1>2. ~Equal(t) /\ OneOfEach /\ AllListed
  BY DEF Apart
<1>3. PICK k \in DOMAIN in_progress : in_progress[k] = Entry(asked[t], search[t].own)
  BY <1>1, <1>2 DEF AllListed
<1>4. in_progress[k].unit = asked[t] /\ in_progress[k].n = search[t].own
  BY <1>3 DEF Entry
<1> QED
  BY <1>1, <1>2, <1>3, <1>4 DEF Numbered, OneOfEach

LEMMA ApartStep ==
    ASSUME TypeOK, StacksOK, Numbered, Apart, [Next]_vars
    PROVE  Apart'
<1>1. CASE UNCHANGED vars
  <2>1. UNCHANGED <<in_progress, doubled, pc, frames, asked, search>>
    BY <1>1 DEF vars, resolverVars, threadVars, history
  <2>2. \A u \in Threads : \A i \in Nat : \A m, n : Has(u, i, m, n)' <=> Has(u, i, m, n)
    BY <2>1 DEF Has, Holds, Removes, Leaving
  <2>3. HeldOnce => HeldOnce'
    <3> SUFFICES ASSUME HeldOnce,
                        NEW u \in Threads, NEW v \in Threads, NEW i \in Nat, NEW j \in Nat, NEW m, NEW n, NEW k,
                        Has(u, i, m, n)', Has(v, j, m, k)'
                 PROVE  u = v /\ i = j
      BY Zenon DEF HeldOnce
    <3> QED
      BY <2>2 DEF HeldOnce
  <2>4. (OneOfEach => OneOfEach') /\ (AllListed => AllListed')
    BY <2>1, <2>2 DEF OneOfEach, AllListed
  <2>5. \A u \in Threads : (Leaving(u) => ~Equal(u)) => (Leaving(u) => ~Equal(u))'
    BY <2>1 DEF Leaving, Equal
  <2> QED
    BY <2>1, <2>3, <2>4, <2>5, Zenon DEF Apart
<1>2. ASSUME NEW t \in Threads, StepOf(t) PROVE Apart'
  <2> SUFFICES ASSUME ~doubled' PROVE (HeldOnce /\ OneOfEach /\ AllListed /\ \A u \in Threads : Leaving(u) => ~Equal(u))'
    BY Zenon DEF Apart
  <2>0. ~doubled /\ HeldOnce /\ OneOfEach /\ AllListed /\ \A u \in Threads : Leaving(u) => ~Equal(u)
    BY <1>2, ListStep DEF Apart
  <2>1. ASSUME NEW u \in Threads, u # t PROVE (Leaving(u) => ~Equal(u))'
    BY <1>2, <2>0, <2>1, OthersUnchanged DEF Leaving, Equal
  <2>2. CASE StartImport(t)
    <3>1. PICK l \in Nat : /\ DOMAIN in_progress = 1..l /\ DOMAIN in_progress' = 1..(l + 1)
                           /\ \A i \in 1..l : in_progress'[i] = in_progress[i]
                           /\ in_progress'[l + 1] = Entry(asked[t], imports + 1)
      BY <1>2, <2>2, ListStep
    <3>2. \A u \in Threads : asked[t] \notin Listed /\ asked[t] \notin InHand(u)
      BY <2>2 DEF StartImport
    <3>3. \A u \in Threads : \A i \in Nat : \A n : ~Has(u, i, asked[t], n)
      BY <3>2, InsideIsHeld
    <3>4. \A i \in 1..l : in_progress[i].unit # asked[t]
      BY <3>1, <3>2 DEF Listed, Range
    <3>5. \A u \in Threads : \A i \in Nat : \A m, n :
             Has(u, i, m, n)' <=> Has(u, i, m, n) \/ (u = t /\ i = Len(frames[t]) + 1 /\ m = asked[t] /\ n = imports + 1)
      BY <2>2, HasAfterStart
    <3>6. HeldOnce'
      <4> SUFFICES ASSUME NEW u \in Threads, NEW v \in Threads, NEW i \in Nat, NEW j \in Nat, NEW m, NEW n, NEW k,
                          Has(u, i, m, n)', Has(v, j, m, k)'
                   PROVE  u = v /\ i = j
        BY Zenon DEF HeldOnce
      <4> QED
        BY <2>0, <3>3, <3>5 DEF HeldOnce
    <3>7. \A i \in 1..(l + 1) : i \in 1..l \/ i = l + 1
      OBVIOUS
    <3>8. OneOfEach'
      <4>1. in_progress'[l + 1].unit = asked[t]
        BY <3>1 DEF Entry
      <4>2. \A i, j \in 1..l : in_progress'[i].unit = in_progress'[j].unit => i = j
        BY <2>0, <3>1 DEF OneOfEach
      <4>3. \A i \in 1..l : in_progress'[i].unit # asked[t]
        BY <3>1, <3>4
      <4>4. \A i, j \in 1..(l + 1) : in_progress'[i].unit = in_progress'[j].unit => i = j
        BY <3>7, <4>1, <4>2, <4>3
      <4> QED
        BY <3>1, <4>4 DEF OneOfEach
    <3>9. AllListed'
      <4> SUFFICES ASSUME NEW u \in Threads, NEW i \in Nat, NEW m, NEW n, Has(u, i, m, n)'
                   PROVE  \E k \in 1..(l + 1) : in_progress'[k] = Entry(m, n)
        BY <3>1 DEF AllListed
      <4>1. CASE Has(u, i, m, n)
        <5>1. PICK k \in 1..l : in_progress[k] = Entry(m, n)
          BY <2>0, <3>1, <4>1 DEF AllListed
        <5>2. k \in 1..(l + 1) /\ in_progress'[k] = Entry(m, n)
          BY <3>1, <5>1
        <5> QED
          BY <5>2
      <4>2. CASE m = asked[t] /\ n = imports + 1
        <5>1. l + 1 \in 1..(l + 1)
          OBVIOUS
        <5> QED
          BY <3>1, <4>2, <5>1
      <4> QED
        BY <3>5, <4>1, <4>2
    <3>10. ~Leaving(t)'
      BY <2>2, PlaceFacts DEF StartImport, Leaving
    <3> QED
      BY <2>1, <3>6, <3>8, <3>9, <3>10
  <2>3. CASE FinishImport(t)
    <3>1. /\ \A u \in Threads : \A i \in Nat : \A m, n :
                Has(u, i, m, n)' <=>
                   \/ Has(u, i, m, n) /\ ~(u = t /\ i = Len(frames[t]))
                   \/ u = t /\ i = 0 /\ m = Top(t).unit /\ n = Top(t).n
          /\ Len(frames[t]) > 1 /\ Len(frames[t]) \in Nat
          /\ \A m, n : Has(t, Len(frames[t]), m, n) <=> m = Top(t).unit /\ n = Top(t).n
      BY <2>3, HasAfterFinish, TopFacts
    <3>2. in_progress' = in_progress
      BY <2>3 DEF FinishImport
    <3>3. OneOfEach'
      BY <2>0, <3>2 DEF OneOfEach
    <3>4. Has(t, Len(frames[t]), Top(t).unit, Top(t).n)
      BY <3>1
    <3>5. AllListed'
      <4> SUFFICES ASSUME NEW u \in Threads, NEW i \in Nat, NEW m, NEW n, Has(u, i, m, n)'
                   PROVE  \E k \in DOMAIN in_progress : in_progress[k] = Entry(m, n)
        BY <3>2 DEF AllListed
      <4>1. Has(u, i, m, n) \/ (m = Top(t).unit /\ n = Top(t).n)
        BY <3>1
      <4> QED
        BY <2>0, <3>1, <3>4, <4>1 DEF AllListed
    <3>6. HeldOnce'
      <4> SUFFICES ASSUME NEW u \in Threads, NEW v \in Threads, NEW i \in Nat, NEW j \in Nat, NEW m, NEW n, NEW k,
                          Has(u, i, m, n)', Has(v, j, m, k)'
                   PROVE  u = v /\ i = j
        BY Zenon DEF HeldOnce
      <4>1. ASSUME NEW x \in Threads, NEW y \in Nat, NEW o, Has(x, y, Top(t).unit, o)
            PROVE  x = t /\ y = Len(frames[t])
        BY <2>0, <3>1, <3>4, <4>1 DEF HeldOnce
      <4>2. CASE Has(u, i, m, n) /\ Has(v, j, m, k)
        BY <2>0, <4>2 DEF HeldOnce
      <4>3. CASE m = Top(t).unit
        BY <3>1, <4>1, <4>3
      <4> QED
        BY <3>1, <4>2, <4>3
    <3>7. (Leaving(t) => ~Equal(t))'
      <4>1. asked'[t] \in Modules /\ search'[t] = Start(Top(t).n)
        BY <2>3, FinishImportEffect DEF FinishImport, TypeOK
      <4> QED
        BY <4>1, ImportsAssumption DEF Equal, Start
    <3> QED
      BY <2>1, <3>3, <3>5, <3>6, <3>7
  <2>4. CASE LeaveImport(t)
    <3>0. Leaving(t)
      BY <2>4 DEF LeaveImport
    <3>1. \A u \in Threads : \A i \in Nat : \A m, n : Has(u, i, m, n)' <=> Has(u, i, m, n) /\ ~(u = t /\ i = 0)
      BY <2>4, HasAfterLeave
    <3>2. HeldOnce'
      <4> SUFFICES ASSUME NEW u \in Threads, NEW v \in Threads, NEW i \in Nat, NEW j \in Nat, NEW m, NEW n, NEW k,
                          Has(u, i, m, n)', Has(v, j, m, k)'
                   PROVE  u = v /\ i = j
        BY Zenon DEF HeldOnce
      <4> QED
        BY <2>0, <3>1 DEF HeldOnce
    <3>3. ~Leaving(t)'
      BY <1>2, <2>4, RemovesStep
    <3>4. CASE AtEnd(t) /\ in_progress' = in_progress
      <4>1. OneOfEach' /\ AllListed'
        BY <2>0, <3>1, <3>4 DEF OneOfEach, AllListed
      <4> QED
        BY <2>1, <3>2, <3>3, <4>1
    <3>5. CASE AtOwn(t) /\ NextAt(t) \in DOMAIN in_progress /\ Without(in_progress, NextAt(t), in_progress')
      <4>1. OneOfEach'
        BY <2>0, <3>5 DEF OneOfEach, Without
      <4>2. AllListed'
        <5> SUFFICES ASSUME NEW u \in Threads, NEW i \in Nat, NEW m, NEW n, Has(u, i, m, n)'
                     PROVE  \E k \in DOMAIN in_progress' : in_progress'[k] = Entry(m, n)
          BY DEF AllListed
        <5>1. Has(u, i, m, n) /\ ~(u = t /\ i = 0)
          BY <3>1
        <5>2. PICK k \in DOMAIN in_progress : in_progress[k] = Entry(m, n)
          BY <2>0, <5>1 DEF AllListed
        <5>3. k # NextAt(t)
          <6> SUFFICES ASSUME k = NextAt(t) PROVE FALSE
            OBVIOUS
          <6>1. in_progress[k].n = search[t].own
            BY <3>5 DEF AtOwn
          <6>2. in_progress[k] = Entry(asked[t], search[t].own)
            BY <2>0, <3>0, <6>1, OwnEntry
          <6>3. m = asked[t]
            BY <5>2, <6>2 DEF Entry
          <6>4. Has(t, 0, asked[t], search[t].own)
            BY <2>4, HasAfterLeave
          <6> QED
            BY <2>0, <5>1, <6>3, <6>4 DEF HeldOnce
        <5>4. PICK old \in [DOMAIN in_progress' -> DOMAIN in_progress] :
                 /\ \A j \in DOMAIN in_progress' : in_progress'[j] = in_progress[old[j]]
                 /\ \A x \in DOMAIN in_progress : x # NextAt(t) => \E j \in DOMAIN in_progress' : old[j] = x
          BY <3>5 DEF Without
        <5> QED
          BY <5>2, <5>3, <5>4
      <4> QED
        BY <2>1, <3>2, <3>3, <4>1, <4>2
    <3> QED
      BY <2>0, <2>4, <3>0, <3>4, <3>5, LeaveEffect
  <2>5. CASE ~StartImport(t) /\ ~FinishImport(t) /\ ~LeaveImport(t)
    <3>1. \A u \in Threads : \A i \in Nat : \A m, n : Has(u, i, m, n)' <=> Has(u, i, m, n)
      BY <1>2, <2>5, HasElse
    <3>2. in_progress' = in_progress
      BY <1>2, <2>5, ListStep
    <3>3. HeldOnce' /\ OneOfEach' /\ AllListed'
      <4>1. HeldOnce'
        <5> SUFFICES ASSUME NEW u \in Threads, NEW v \in Threads, NEW i \in Nat, NEW j \in Nat, NEW m, NEW n, NEW k,
                            Has(u, i, m, n)', Has(v, j, m, k)'
                     PROVE  u = v /\ i = j
          BY Zenon DEF HeldOnce
        <5> QED
          BY <2>0, <3>1 DEF HeldOnce
      <4>2. OneOfEach'
        BY <2>0, <3>2 DEF OneOfEach
      <4>3. AllListed'
        BY <2>0, <3>1, <3>2 DEF AllListed
      <4> QED
        BY <4>1, <4>2, <4>3
    <3>4. (Leaving(t) => ~Equal(t))'
      <4>1. CASE Compare(t) /\ Leaving(t)
        <5>1. ~AtOwn(t) /\ ~AtEnd(t) /\ ~Equal(t)
          BY <4>1 DEF Compare
        <5>2. NextAt(t) \in DOMAIN in_progress /\ in_progress[NextAt(t)].n # search[t].own
          <6>1. in_progress \in Seq([unit : Modules, n : Nat]) /\ search[t].at \in Nat
            BY DEF TypeOK
          <6>2. Len(in_progress) \in Nat /\ DOMAIN in_progress = 1..Len(in_progress)
            BY <6>1, LenProperties
          <6> QED
            BY <5>1, <6>1, <6>2 DEF AtEnd, AtOwn, NextAt
        <5>3. in_progress[NextAt(t)].unit # asked[t]
          <6> SUFFICES ASSUME in_progress[NextAt(t)].unit = asked[t] PROVE FALSE
            OBVIOUS
          <6>1. in_progress[NextAt(t)] = Entry(asked[t], search[t].own)
            BY <2>0, <4>1, <5>2, OwnEntry
          <6> QED
            BY <5>2, <6>1 DEF Entry
        <5>4. search'[t].met = in_progress[NextAt(t)].unit /\ asked' = asked
          BY <4>1 DEF Compare, TypeOK
        <5> QED
          BY <5>3, <5>4 DEF Equal
      <4>2. CASE Compare(t) /\ ~Leaving(t)
        BY <4>2 DEF Compare, Leaving
      <4>3. CASE ~Compare(t)
        <5>1. ~Leaving(t)'
          BY <1>2, <2>5, <4>3, RemovesStep
        <5> QED
          BY <5>1
      <4> QED
        BY <4>1, <4>2, <4>3
    <3> QED
      BY <2>1, <3>3, <3>4
  <2> QED
    BY <2>2, <2>3, <2>4, <2>5
<1> QED
  BY <1>1, <1>2 DEF Next, StepOf

-----------------------------------------------------------------------------
\* While only t imports, calls and prints, a step is one of t or changes nothing
\* but the place of a thread that has done nothing yet.
Untouched(t) == /\ UNCHANGED <<runtimeVars, resolverVars, frames, asked, search, history>>
                /\ pc'[t] = pc[t]

LEMMA AloneStep ==
    ASSUME TypeOK, StacksOK, [Next]_vars, NEW t \in Threads, users' \subseteq {t}
    PROVE  StepOf(t) \/ Untouched(t)
<1>1. CASE UNCHANGED vars
  BY <1>1 DEF vars, threadVars, Untouched
<1>2. ASSUME NEW s \in Threads, StepOf(s), s # t PROVE Untouched(t)
  <2>1. s \notin users' /\ s \notin users
    BY <1>2, UsersGrow DEF Next, StepOf
  <2>2. Len(frames[s]) = 1 /\ pc[s] \in {"run", "raised"} /\ Top(s) = frames[s][1] /\ frames[s][1].kind = "import"
    BY <2>1, TopFacts DEF StacksOK, StackOK
  <2>3. ~PrintLine(s) /\ ~(\E m \in Modules : LookUp(s, m)) /\ ~(\E u \in Units : Call(s, u))
    BY <2>1 DEF PrintLine, LookUp, Call
  <2>4. ~StartImport(s) /\ ~Misread(s) /\ ~RunModule(s) /\ ~FinishImport(s)
    BY <2>2 DEF StartImport, Misread, RunModule, FinishImport
  <2>8. ~Compare(s) /\ ~Circular(s) /\ ~NotInProgress(s) /\ ~LeaveImport(s)
    BY <2>2 DEF Compare, Circular, NotInProgress, LeaveImport, Leaving
  <2>5. ~Return(s) /\ ~EndModule(s)
    BY <2>2 DEF Return, EndModule, Calling, Importing
  <2>6. Fail(s) \/ Catch(s)
    BY <1>2, <2>3, <2>4, <2>5, <2>8 DEF StepOf
  <2>7. pc'[t] = pc[t]
    BY <1>2, OthersUnchanged
  <2> QED
    BY <2>6, <2>7 DEF Fail, Catch, Untouched
<1> QED
  BY <1>1, <1>2 DEF Next, StepOf

\* The steps of the one thread that imports: no module is let in twice, no circular
\* import is reported where there is none, and what it removes is found.
LEMMA ListAlone ==
    ASSUME TypeOK, TypeOK', StacksOK, Numbered, Apart, NEW t \in Threads, users \subseteq {t}, Alone(t), StepOf(t)
    PROVE  Alone(t)'
<1> DEFINE Own(k) == \E i \in Nat : \E n : Has(t, i, in_progress[k].unit, n)
           Looking == pc[t] = "looked" =>
                         IF Equal(t) THEN asked[t] \in Listed
                         ELSE \A k \in DOMAIN in_progress : k <= search[t].at => in_progress[k].unit # asked[t]
           Found == Leaving(t) => \E k \in DOMAIN in_progress : k > search[t].at /\ in_progress[k].n = search[t].own
<1>0. /\ ~doubled /\ accused = {} /\ Looking /\ Found
      /\ \A k \in DOMAIN in_progress : Own(k)
      /\ pc[t] = "absent" => asked[t] \notin Listed
      /\ HeldOnce /\ OneOfEach /\ AllListed
  BY DEF Alone, Apart
<1>1. SUFFICES /\ ~doubled' /\ accused' = {} /\ Looking' /\ Found'
               /\ \A k \in DOMAIN in_progress' : \E i \in Nat : \E n : Has(t, i, in_progress[k].unit, n)'
               /\ (pc[t] = "absent" => asked[t] \notin Listed)'
  BY Zenon DEF Alone
<1>2. in_progress \in Seq([unit : Modules, n : Nat]) /\ search[t].at \in Nat /\ asked[t] \in Units
  BY DEF TypeOK
<1>3. PICK l \in Nat : l = Len(in_progress) /\ DOMAIN in_progress = 1..l
  BY <1>2, LenProperties
<1>4. CASE StartImport(t)
  <2>1. PICK x \in Nat : /\ DOMAIN in_progress = 1..x /\ DOMAIN in_progress' = 1..(x + 1)
                         /\ \A i \in 1..x : in_progress'[i] = in_progress[i]
                         /\ in_progress'[x + 1] = Entry(asked[t], imports + 1)
    BY <1>4, ListStep
  <2>2. asked[t] \notin Listed
    BY <1>0, <1>4 DEF StartImport
  <2>3. \A u \in Threads : asked[t] \notin InHand(u)
    <3>1. ASSUME NEW u \in Threads, u # t PROVE InHand(u) = {}
      <4>1. Len(frames[u]) = 1 /\ pc[u] \in {"run", "raised"}
        BY <3>1 DEF StacksOK, StackOK
      <4> QED
        BY <4>1 DEF InHand, Inside, Leaving
    <3>2. asked[t] \notin InHand(t)
      <4> SUFFICES ASSUME NEW i \in Nat, NEW n, Has(t, i, asked[t], n) PROVE FALSE
        BY InsideIsHeld
      <4>1. PICK k \in DOMAIN in_progress : in_progress[k] = Entry(asked[t], n)
        BY <1>0 DEF AllListed
      <4> QED
        BY <2>2, <4>1 DEF Listed, Range, Entry
    <3> QED
      BY <3>1, <3>2
  <2>4. ~doubled'
    <3>1. doubled' = (doubled \/ \E u \in Threads : asked[t] \in Listed \cup InHand(u))
      BY <1>4, Zenon DEF StartImport
    <3> QED
      BY <1>0, <2>2, <2>3, <3>1
  <2>5. pc'[t] = "read" /\ accused' = accused
    BY <1>4, PlaceFacts DEF StartImport
  <2>6. \A k \in DOMAIN in_progress' : \E i \in Nat : \E n : Has(t, i, in_progress[k].unit, n)'
    <3>1. \A i \in Nat : \A m, n :
             Has(t, i, m, n)' <=> Has(t, i, m, n) \/ (i = Len(frames[t]) + 1 /\ m = asked[t] /\ n = imports + 1)
      BY <1>4, HasAfterStart
    <3>2. in_progress'[x + 1].unit = asked[t]
      BY <2>1 DEF Entry
    <3>3. Len(frames[t]) + 1 \in Nat
      BY TopFacts
    <3>4. \A k \in 1..(x + 1) : k \in 1..x \/ k = x + 1
      OBVIOUS
    <3> SUFFICES ASSUME NEW k \in 1..(x + 1) PROVE \E i \in Nat : \E n : Has(t, i, in_progress[k].unit, n)'
      BY <2>1
    <3>5. CASE k \in 1..x
      <4>1. PICK i \in Nat : \E n : Has(t, i, in_progress[k].unit, n)
        BY <1>0, <2>1, <3>5
      <4>2. in_progress'[k].unit = in_progress[k].unit
        BY <2>1, <3>5
      <4> QED
        BY <3>1, <4>1, <4>2
    <3>6. CASE k = x + 1
      BY <3>1, <3>2, <3>3, <3>6
    <3> QED
      BY <3>4, <3>5, <3>6
  <2> QED
    BY <1>0, <2>4, <2>5, <2>6 DEF Leaving
<1>5. CASE FinishImport(t)
  <2>1. /\ \A i \in Nat : \A m, n :
              Has(t, i, m, n)' <=> \/ Has(t, i, m, n) /\ i # Len(frames[t])
                                   \/ i = 0 /\ m = Top(t).unit /\ n = Top(t).n
        /\ Len(frames[t]) > 1 /\ Len(frames[t]) \in Nat
        /\ \A m, n : Has(t, Len(frames[t]), m, n) <=> m = Top(t).unit /\ n = Top(t).n
    BY <1>5, HasAfterFinish, TopFacts
  <2>2. UNCHANGED <<in_progress, doubled, accused>>
    BY <1>5 DEF FinishImport
  <2>3. search'[t] = Start(Top(t).n) /\ pc'[t] \in {"closing", "dropping"}
    BY <1>5, PlaceFacts DEF FinishImport, TypeOK
  <2>4. Found'
    <3>1. Has(t, Len(frames[t]), Top(t).unit, Top(t).n)
      BY <2>1
    <3>2. PICK k \in DOMAIN in_progress : in_progress[k] = Entry(Top(t).unit, Top(t).n)
      BY <1>0, <2>1, <3>1 DEF AllListed
    <3>3. k > 0 /\ in_progress[k].n = Top(t).n
      BY <1>3, <3>2 DEF Entry
    <3>4. search'[t].at = 0 /\ search'[t].own = Top(t).n
      BY <2>3 DEF Start
    <3> QED
      BY <2>2, <3>3, <3>4
  <2>5. \A k \in DOMAIN in_progress' : \E i \in Nat : \E n : Has(t, i, in_progress[k].unit, n)'
    <3> SUFFICES ASSUME NEW k \in DOMAIN in_progress PROVE \E i \in Nat : \E n : Has(t, i, in_progress[k].unit, n)'
      BY <2>2
    <3>1a. PICK i \in Nat : \E n : Has(t, i, in_progress[k].unit, n)
      BY <1>0
    <3>1. PICK n : Has(t, i, in_progress[k].unit, n)
      BY <3>1a
    <3>2. CASE i = Len(frames[t])
      BY <2>1, <2>2, <3>1, <3>2
    <3>3. CASE i # Len(frames[t])
      BY <2>1, <2>2, <3>1, <3>3
    <3> QED
      BY <3>2, <3>3
  <2> QED
    BY <1>0, <2>2, <2>3, <2>4, <2>5
<1>6. CASE LeaveImport(t)
  <2>1. Leaving(t) /\ UNCHANGED <<doubled, accused>>
    BY <1>6 DEF LeaveImport, history
  <2>2. pc'[t] \in {"run", "raised"}
    BY <1>6, PlaceFacts DEF LeaveImport
  <2>3. ~AtEnd(t)
    <3>1. PICK k \in DOMAIN in_progress : k > search[t].at
      BY <1>0, <2>1
    <3> QED
      BY <1>2, <1>3, <3>1 DEF AtEnd, NextAt
  <2>4. PICK own \in DOMAIN in_progress :
           \A j \in DOMAIN in_progress : in_progress[j].unit = asked[t] \/ in_progress[j].n = search[t].own => j = own
    BY <1>0, <2>1, OwnEntry
  <2>5. AtOwn(t) /\ NextAt(t) \in DOMAIN in_progress /\ Without(in_progress, NextAt(t), in_progress')
    BY <1>0, <1>6, <2>1, <2>3, LeaveEffect, OwnEntry
  <2>6. NextAt(t) = own
    BY <2>4, <2>5 DEF AtOwn
  <2>7. \A k \in DOMAIN in_progress' : \E i \in Nat : \E n : Has(t, i, in_progress[k].unit, n)'
    <3> SUFFICES ASSUME NEW k \in DOMAIN in_progress' PROVE \E i \in Nat : \E n : Has(t, i, in_progress[k].unit, n)'
      OBVIOUS
    <3>1. PICK j \in DOMAIN in_progress : j # own /\ in_progress'[k] = in_progress[j]
      BY <2>5, <2>6 DEF Without
    <3>2a. PICK i \in Nat : \E n : Has(t, i, in_progress[j].unit, n)
      BY <1>0
    <3>2. PICK n : Has(t, i, in_progress[j].unit, n)
      BY <3>2a
    <3>3. i # 0
      BY <2>4, <3>1, <3>2 DEF Has, Holds, Removes
    <3>4. \A m : Has(t, i, m, n)' <=> Has(t, i, m, n) /\ i # 0
      BY <1>6, HasAfterLeave
    <3>5. in_progress'[k].unit = in_progress[j].unit
      BY <3>1
    <3> QED
      BY <3>2, <3>3, <3>4, <3>5
  <2> QED
    BY <1>0, <2>1, <2>2, <2>7 DEF Leaving
<1>7. CASE ~StartImport(t) /\ ~FinishImport(t) /\ ~LeaveImport(t)
  <2>1. \A i \in Nat : \A m, n : Has(t, i, m, n)' <=> Has(t, i, m, n)
    BY <1>7, HasElse
  <2>2. in_progress' = in_progress /\ doubled' = doubled
    BY <1>7, ListStep
  <2>3. \A k \in DOMAIN in_progress' : \E i \in Nat : \E n : Has(t, i, in_progress[k].unit, n)'
    BY <1>0, <2>1, <2>2
  <2>4. Listed' = Listed
    BY <2>2 DEF Listed
  <2>5. CASE Compare(t)
    <3>1. /\ UNCHANGED <<pc, asked, accused>> /\ ~Equal(t) /\ ~AtEnd(t) /\ ~AtOwn(t)
          /\ search'[t] = [at |-> NextAt(t), met |-> in_progress[NextAt(t)].unit, own |-> search[t].own]
          /\ pc[t] # "absent"
      BY <2>5 DEF Compare, TypeOK, history, Leaving
    <3>2. NextAt(t) = search[t].at + 1 /\ NextAt(t) \in DOMAIN in_progress
      BY <1>2, <1>3, <3>1 DEF AtEnd, NextAt
    <3>3. Looking'
      <4> SUFFICES ASSUME pc[t] = "looked"
                   PROVE  IF Equal(t)' THEN asked[t] \in Listed
                          ELSE \A k \in DOMAIN in_progress : k <= NextAt(t) => in_progress[k].unit # asked[t]
        BY <2>2, <2>4, <3>1
      <4>1. Equal(t)' <=> in_progress[NextAt(t)].unit = asked[t]
        BY <3>1 DEF Equal
      <4>2. CASE in_progress[NextAt(t)].unit = asked[t]
        BY <3>2, <4>1, <4>2 DEF Listed, Range
      <4>3. CASE in_progress[NextAt(t)].unit # asked[t]
        <5>1. \A k \in DOMAIN in_progress : k <= NextAt(t) => k <= search[t].at \/ k = NextAt(t)
          BY <1>2, <1>3, <3>2
        <5>2. \A k \in DOMAIN in_progress : k <= search[t].at => in_progress[k].unit # asked[t]
          BY <1>0, <3>1
        <5> QED
          BY <4>1, <4>3, <5>1, <5>2
      <4> QED
        BY <4>2, <4>3
    <3>4. Found'
      <4> SUFFICES ASSUME Leaving(t)
                   PROVE  \E k \in DOMAIN in_progress : k > NextAt(t) /\ in_progress[k].n = search[t].own
        BY <2>2, <3>1 DEF Leaving
      <4>1. PICK k \in DOMAIN in_progress : k > search[t].at /\ in_progress[k].n = search[t].own
        BY <1>0
      <4>2. k # NextAt(t)
        BY <3>1, <4>1 DEF AtOwn
      <4>3. k > NextAt(t)
        BY <1>2, <1>3, <3>2, <4>1, <4>2
      <4> QED
        BY <4>1, <4>3
    <3> QED
      BY <1>0, <2>2, <2>3, <3>1, <3>3, <3>4
  <2>6. ASSUME ~Compare(t) PROVE Found'
    <3>1. ~Leaving(t)'
      BY <1>7, <2>6, RemovesStep
    <3> QED
      BY <3>1
  <2>7. CASE \E m \in Modules : LookUp(t, m)
    <3>0. PICK m \in Modules : LookUp(t, m)
      BY <2>7
    <3>1. /\ search'[t] = Start(0) /\ asked'[t] = m /\ pc'[t] = "looked" /\ accused' = accused /\ ~Compare(t)
      <4>1. pc[t] = "run" /\ search' = search
        BY <3>0 DEF LookUp
      <4>2. search[t] = Start(0)
        BY <4>1 DEF StacksOK, StackOK
      <4> QED
        BY <3>0, <4>1, <4>2, PlaceFacts DEF LookUp, TypeOK, Compare, Leaving
    <3>2. Looking'
      <4>1. ~Equal(t)'
        BY <3>1, ImportsAssumption DEF Equal, Start
      <4>2. \A k \in DOMAIN in_progress' : ~(k <= search'[t].at)
        BY <1>3, <2>2, <3>1 DEF Start
      <4> QED
        BY <4>1, <4>2
    <3> QED
      BY <1>0, <2>2, <2>3, <2>6, <3>1, <3>2
  <2>8. CASE Circular(t)
    <3>1. pc[t] = "looked" /\ Equal(t) /\ ~Compare(t) /\ accused' = IF asked[t] \in Inside(t) THEN accused ELSE accused \cup {asked[t]}
      BY <2>8 DEF Circular, Compare
    <3>2. asked[t] \in Listed
      BY <1>0, <3>1
    <3>3. PICK k \in DOMAIN in_progress : in_progress[k].unit = asked[t]
      BY <3>2 DEF Listed, Range
    <3>4a. PICK i \in Nat : \E n : Has(t, i, asked[t], n)
      BY <1>0, <3>3
    <3>4. PICK n : Has(t, i, asked[t], n)
      BY <3>4a
    <3>5. Holds(t, i, asked[t], n)
      BY <3>1, <3>4 DEF Has, Removes, Leaving
    <3>6. asked[t] \in Inside(t)
      BY <3>5, InsideIsHeld
    <3>7. pc'[t] = "raised"
      BY <2>8, PlaceFacts DEF Circular
    <3> QED
      BY <1>0, <2>2, <2>3, <2>6, <3>1, <3>6, <3>7
  <2>9. CASE NotInProgress(t)
    <3>1. pc[t] = "looked" /\ ~Equal(t) /\ AtEnd(t) /\ ~Compare(t) /\ accused' = accused /\ asked' = asked
      BY <2>9 DEF NotInProgress, AtEnd, Compare, history
    <3>2. \A k \in DOMAIN in_progress : k <= search[t].at
      BY <1>2, <1>3, <3>1 DEF AtEnd, NextAt
    <3>3. asked[t] \notin Listed
      BY <1>0, <3>1, <3>2 DEF Listed, Range
    <3>4. pc'[t] = "absent"
      BY <2>9, PlaceFacts DEF NotInProgress
    <3> QED
      BY <1>0, <2>2, <2>3, <2>4, <2>6, <3>1, <3>3, <3>4
  <2>10. CASE \/ PrintLine(t) \/ Misread(t) \/ RunModule(t) \/ \E u \in Units : Call(t, u)
              \/ Return(t) \/ Fail(t) \/ Catch(t) \/ EndModule(t)
    <3>1. accused' = accused /\ ~Compare(t)
      BY <2>10 DEF PrintLine, Misread, RunModule, Call, Return, Fail, Catch, EndModule, Compare, Leaving, history
    <3>2. pc'[t] \notin {"looked", "absent"}
      BY <2>10, PlaceFacts DEF PrintLine, Misread, RunModule, Call, Return, Fail, Catch, EndModule, threadVars
    <3> QED
      BY <1>0, <2>2, <2>3, <2>6, <3>1, <3>2
  <2> QED
    BY <1>7, <2>5, <2>7, <2>8, <2>9, <2>10 DEF StepOf
<1> QED
  BY <1>4, <1>5, <1>6, <1>7

LEMMA AloneOKStep ==
    ASSUME TypeOK, TypeOK', StacksOK, Numbered, Apart, AloneOK, [Next]_vars
    PROVE  AloneOK'
<1> SUFFICES ASSUME NEW t \in Threads, users' \subseteq {t} PROVE Alone(t)'
  BY DEF AloneOK
<1>1. Alone(t) /\ users \subseteq {t}
  BY UsersGrow DEF AloneOK
<1>2. CASE StepOf(t)
  BY <1>1, <1>2, ListAlone
<1>3. CASE Untouched(t)
  <2>1. UNCHANGED <<in_progress, frames, asked, search, doubled, accused>> /\ pc'[t] = pc[t]
    BY <1>3 DEF Untouched, resolverVars, history
  <2>2. \A i \in Nat : \A m, n : Has(t, i, m, n)' <=> Has(t, i, m, n)
    BY <2>1 DEF Has, Holds, Removes, Leaving
  <2>3. (Leaving(t)' <=> Leaving(t)) /\ (Equal(t)' <=> Equal(t)) /\ Listed' = Listed
    BY <2>1 DEF Leaving, Equal, Listed
  <2>4. \A k \in DOMAIN in_progress' : \E i \in Nat : \E n : Has(t, i, in_progress[k].unit, n)'
    BY <1>1, <2>1, <2>2 DEF Alone
  <2> QED
    BY <1>1, <2>1, <2>3, <2>4 DEF Alone
<1> QED
  BY <1>2, <1>3, AloneStep

\* What a thread is inside of, after its own steps.
LEMMA InsideStep ==
    ASSUME TypeOK, TypeOK', StacksOK, HeldOnce, NEW t \in Threads, StepOf(t)
    PROVE  /\ StartImport(t) => Inside(t)' = Inside(t) \cup {asked[t]}
           /\ FinishImport(t) => Inside(t)' = Inside(t) \ {Top(t).unit}
           /\ ~FinishImport(t) /\ ~StartImport(t) => Inside(t)' = Inside(t)
<1>0. \A m : m \in Inside(t)' <=> \E i \in Nat : \E n : Holds(t, i, m, n)'
  <2>1. frames'[t] \in Seq(Frames)
    BY DEF TypeOK
  <2>2. Len(frames'[t]) \in Nat
    BY <2>1, LenProperties
  <2>3. \A i \in 2..Len(frames'[t]) : i \in Nat
    BY <2>2
  <2> QED
    BY <2>3 DEF Inside, Holds
<1>1. \A m : m \in Inside(t) <=> \E i \in Nat : \E n : Holds(t, i, m, n)
  BY InsideIsHeld
<1>2. Len(frames[t]) \in Nat /\ Len(frames[t]) + 1 \in Nat
  BY TopFacts
<1>3. ASSUME StartImport(t) PROVE Inside(t)' = Inside(t) \cup {asked[t]}
  <2>1. \A i \in Nat : \A m, n :
           Holds(t, i, m, n)' <=> Holds(t, i, m, n) \/ (i = Len(frames[t]) + 1 /\ m = asked[t] /\ n = imports + 1)
    BY <1>3, HoldsAfterStart
  <2>2. \A m : m \in Inside(t)' <=> m \in Inside(t) \/ m = asked[t]
    BY <1>0, <1>1, <1>2, <2>1
  <2> QED
    BY <2>2
<1>4. ASSUME FinishImport(t) PROVE Inside(t)' = Inside(t) \ {Top(t).unit}
  <2>1. \A i \in Nat : \A m, n : Holds(t, i, m, n)' <=> Holds(t, i, m, n) /\ i # Len(frames[t])
    BY <1>4, HoldsAfterPop
  <2>2. \A m, n : Holds(t, Len(frames[t]), m, n) <=> m = Top(t).unit /\ n = Top(t).n
    BY <1>4, FinishedPlace
  <2>3. Top(t).unit \in Modules
    BY <1>4, FinishImportEffect
  <2>4. \A i \in Nat : \A n : Holds(t, i, Top(t).unit, n) => i = Len(frames[t])
    BY <1>2, <2>2, <2>3 DEF HeldOnce, Has
  <2>5. \A m : m \in Inside(t)' <=> m \in Inside(t) /\ m # Top(t).unit
    <3> SUFFICES ASSUME NEW m PROVE m \in Inside(t)' <=> m \in Inside(t) /\ m # Top(t).unit
      OBVIOUS
    <3>1. CASE m = Top(t).unit
      BY <1>0, <2>1, <2>4, <3>1
    <3>2. CASE m # Top(t).unit
      BY <1>0, <1>1, <2>1, <2>2, <3>2
    <3> QED
      BY <3>1, <3>2
  <2> QED
    BY <2>5
<1>5. ASSUME ~FinishImport(t), ~StartImport(t) PROVE Inside(t)' = Inside(t)
  <2>1. \A i \in Nat : \A m, n : Holds(t, i, m, n)' <=> Holds(t, i, m, n)
    BY <1>5, HoldsElse
  <2>2. \A m : m \in Inside(t)' <=> m \in Inside(t)
    BY <1>0, <1>1, <2>1
  <2> QED
    BY <2>2
<1> QED
  BY <1>3, <1>4, <1>5

LEMMA FreshStep ==
    ASSUME TypeOK, TypeOK', StacksOK, HeldOnce, loaded = cache, NEW t \in Threads, Fresh(t), StepOf(t)
    PROVE  Fresh(t)'
<1>1. ASSUME NEW m \in Modules, LookUp(t, m) PROVE Fresh(t)'
  <2>1. UNCHANGED <<frames, cache, reloaded>> /\ asked'[t] = m /\ m \notin cache
    BY <1>1 DEF LookUp, resolverVars, TypeOK
  <2> QED
    BY <2>1 DEF Fresh, Inside
<1>2. CASE StartImport(t)
  <2>1. /\ pc[t] = "absent" /\ UNCHANGED <<cache, reloaded>>
    BY <1>2 DEF StartImport
  <2>2. pc'[t] = "read"
    BY <1>2, PlaceFacts DEF StartImport
  <2>3. Inside(t)' = Inside(t) \cup {asked[t]}
    BY <1>2, InsideStep
  <2> QED
    BY <2>1, <2>2, <2>3 DEF Fresh
<1>3. CASE FinishImport(t)
  <2>1. Inside(t)' = Inside(t) \ {Top(t).unit}
    BY <1>3, InsideStep
  <2>2. Top(t).unit \in Inside(t)
    <3>1. Len(frames[t]) > 1 /\ Top(t).kind = "import"
      BY <1>3, FinishImportEffect
    <3>2. Len(frames[t]) \in 2..Len(frames[t]) /\ Top(t) = frames[t][Len(frames[t])]
      BY <3>1, TopFacts
    <3> QED
      BY <3>1, <3>2 DEF Inside
  <2>3. Top(t).unit \notin loaded
    BY <2>2 DEF Fresh
  <2>4. cache' \subseteq cache \cup {Top(t).unit} /\ reloaded' = reloaded
    BY <1>3, <2>3 DEF FinishImport
  <2>5. pc'[t] \notin {"looked", "absent"}
    BY <1>3, PlaceFacts DEF FinishImport
  <2> QED
    BY <2>1, <2>4, <2>5 DEF Fresh
<1>4. CASE Compare(t) \/ Circular(t) \/ NotInProgress(t) \/ LeaveImport(t)
  <2>1. UNCHANGED <<cache, reloaded, frames>>
    BY <1>4 DEF Compare, Circular, NotInProgress, LeaveImport, resolverVars, history
  <2>2. pc'[t] \in {"looked", "absent"} => asked'[t] = asked[t] /\ pc[t] \in {"looked", "absent"}
    <3>1. CASE Compare(t)
      BY <3>1 DEF Compare
    <3>2. CASE NotInProgress(t)
      BY <3>2 DEF NotInProgress
    <3>3. CASE Circular(t) \/ LeaveImport(t)
      <4>1. pc'[t] \in {"run", "raised"}
        BY <3>3, PlaceFacts DEF Circular, LeaveImport
      <4> QED
        BY <4>1
    <3> QED
      BY <1>4, <3>1, <3>2, <3>3
  <2> QED
    BY <2>1, <2>2 DEF Fresh, Inside
<1>5. ASSUME \/ PrintLine(t) \/ Misread(t) \/ RunModule(t) \/ \E u \in Units : Call(t, u)
             \/ Return(t) \/ Fail(t) \/ Catch(t) \/ EndModule(t)
      PROVE  Fresh(t)'
  <2>1. UNCHANGED <<cache, reloaded>>
    BY <1>5 DEF PrintLine, Misread, RunModule, Call, Return, Fail, Catch, EndModule, resolverVars, history
  <2>2. pc'[t] \notin {"looked", "absent"}
    BY <1>5, PlaceFacts DEF PrintLine, Misread, RunModule, Call, Return, Fail, Catch, EndModule, threadVars
  <2>3. ~FinishImport(t) /\ ~StartImport(t)
    BY <1>5 DEF PrintLine, Misread, RunModule, Call, Return, Fail, Catch, EndModule, FinishImport, StartImport
  <2>4. Inside(t)' = Inside(t)
    BY <2>3, InsideStep
  <2> QED
    BY <2>1, <2>2, <2>4 DEF Fresh
<1> QED
  BY <1>1, <1>2, <1>3, <1>4, <1>5 DEF StepOf

LEMMA LoadsStep ==
    ASSUME TypeOK, TypeOK', StacksOK, Apart, AloneOK, LoadsOK, [Next]_vars
    PROVE  LoadsOK'
<1>1. loaded' = cache'
  <2>1. CASE UNCHANGED vars
    BY <2>1 DEF LoadsOK, vars, resolverVars, history
  <2>2. ASSUME NEW t \in Threads, StepOf(t) PROVE loaded' = cache'
    BY <2>2 DEF LoadsOK, StepOf, PrintLine, LookUp, Compare, Circular, NotInProgress, LeaveImport,
                StartImport, Misread, RunModule, Call, Return, Fail, Catch, EndModule, FinishImport, resolverVars, history
  <2> QED
    BY <2>1, <2>2 DEF Next, StepOf
<1>2. ASSUME NEW t \in Threads, users' \subseteq {t} PROVE Fresh(t)'
  <2>1. Fresh(t) /\ loaded = cache /\ HeldOnce
    BY <1>2, UsersGrow DEF LoadsOK, AloneOK, Alone, Apart
  <2>2. CASE StepOf(t)
    BY <2>1, <2>2, FreshStep
  <2>3. CASE Untouched(t)
    BY <2>1, <2>3 DEF Untouched, Fresh, Inside, resolverVars, history
  <2> QED
    BY <1>2, <2>2, <2>3, AloneStep
<1> QED
  BY <1>1, <1>2 DEF LoadsOK

-----------------------------------------------------------------------------
\* Where the stack keeps its frames, or the parts of them that count, the text and
\* the speaker are the same after a step.
LEMMA KeptContext ==
    ASSUME TypeOK, StacksOK, NEW t \in Threads, NEW n \in Nat,
           \A i \in 1..n : frames'[t][i].kind = frames[t][i].kind /\ frames'[t][i].unit = frames[t][i].unit
    PROVE  \A i \in 1..n : /\ TextAt(frames'[t], i) = TextAt(frames[t], i)
                           /\ SpeakerAt(frames'[t], i) = SpeakerAt(frames[t], i)
<1> SUFFICES ASSUME NEW i \in 1..n
             PROVE  /\ TextAt(frames'[t], i) = TextAt(frames[t], i)
                    /\ SpeakerAt(frames'[t], i) = SpeakerAt(frames[t], i)
  OBVIOUS
<1>1. frames[t][1].kind = "import"
  BY DEF StacksOK, StackOK
<1>2. i \in Nat /\ i >= 1 /\ 1..i \subseteq 1..n
  OBVIOUS
<1>3. \A j \in 1..i : frames[t][j].kind = frames'[t][j].kind /\ frames[t][j].unit = frames'[t][j].unit
  BY <1>2
<1>4. TextAt(frames[t], i) = TextAt(frames'[t], i) /\ SpeakerAt(frames[t], i) = SpeakerAt(frames'[t], i)
  BY <1>1, <1>2, <1>3, SameContext
<1> QED
  BY <1>4

LEMMA ContextStart ==
    ASSUME TypeOK, StacksOK, NEW t \in Threads, Context(t), StartImport(t)
    PROVE  Context(t)'
<1> DEFINE f == Frame("import", asked[t], imports + 1, global_env, output, current, namespace)
<1>0. PICK n \in Nat : n = Len(frames[t]) /\ n >= 1
  BY TopFacts
<1>1. f \in Frames /\ frames' = [frames EXCEPT ![t] = Append(frames[t], f)]
  BY StartImportEffect
<1>2. f.env = global_env /\ f.cur = current /\ f.ns = namespace
  BY DEF Frame
<1> HIDE DEF f
<1>3. /\ Len(frames'[t]) = n + 1
      /\ \A i \in 1..n : frames'[t][i] = frames[t][i]
      /\ frames'[t][n + 1] = f
  BY <1>0, <1>1, PushedStack
<1>5. /\ global_env = TextAt(frames[t], n) /\ current = TextAt(frames[t], n) /\ namespace = SpeakerAt(frames[t], n)
      /\ UNCHANGED <<global_env, current, namespace>>
  BY <1>0 DEF StartImport, Context, Back, runtimeVars
<1>6. \A i \in 1..n : /\ TextAt(frames'[t], i) = TextAt(frames[t], i)
                      /\ SpeakerAt(frames'[t], i) = SpeakerAt(frames[t], i)
  BY <1>3, KeptContext
<1>7. \A i \in 2..n : /\ frames[t][i].env = TextAt(frames[t], i - 1)
                      /\ frames[t][i].cur = TextAt(frames[t], i - 1)
                      /\ frames[t][i].ns = SpeakerAt(frames[t], i - 1)
  BY <1>0 DEF Context, SavedBelow
<1>8. pc'[t] = "read"
  BY PlaceFacts DEF StartImport
<1>9. n \in 1..n /\ (n + 1) - 1 = n
  BY <1>0
<1>10. SavedBelow(t)'
  <2>1. ASSUME NEW i \in 2..(n + 1)
        PROVE  /\ frames'[t][i].env = TextAt(frames'[t], i - 1)
               /\ frames'[t][i].cur = TextAt(frames'[t], i - 1)
               /\ frames'[t][i].ns = SpeakerAt(frames'[t], i - 1)
    <3>1. CASE i = n + 1
      BY <3>1, <1>2, <1>3, <1>5, <1>6, <1>9
    <3>2. CASE i # n + 1
      <4>1. i \in 2..n /\ i \in 1..n /\ i - 1 \in 1..n
        BY <3>2
      <4> QED
        BY <4>1, <1>3, <1>6, <1>7
    <3> QED
      BY <3>1, <3>2
  <2> QED
    BY <1>3, <2>1 DEF SavedBelow
<1>11. Back(t, n)' /\ global_env' = TextAt(frames'[t], n)
  BY <1>5, <1>6, <1>9 DEF Back
<1> QED
  BY <1>3, <1>8, <1>9, <1>10, <1>11 DEF Context

LEMMA ContextRun ==
    ASSUME TypeOK, StacksOK, NEW t \in Threads, Context(t), RunModule(t)
    PROVE  Context(t)'
<1> DEFINE gs == WithContext(frames[t], current, namespace)
<1>0. PICK n \in Nat : n = Len(frames[t]) /\ n >= 2
  <2>1. Importing(t)
    BY DEF RunModule, StacksOK, StackOK
  <2> QED
    BY <2>1, TopFacts DEF Importing
<1>1. /\ frames' = [frames EXCEPT ![t] = gs] /\ gs \in Seq(Frames) /\ gs # <<>> /\ Head(gs).unit = Program
      /\ Len(gs) = Len(frames[t])
      /\ \A i \in 1..Len(gs) :
            /\ gs[i].kind = frames[t][i].kind /\ gs[i].unit = frames[t][i].unit
            /\ gs[i].env = frames[t][i].env
            /\ i # Len(gs) => gs[i] = frames[t][i]
      /\ gs[Len(gs)].cur = current /\ gs[Len(gs)].ns = namespace
  BY RunModuleEffect
<1> HIDE DEF gs
<1>2. frames'[t] = gs
  BY <1>1, ChangedStack
<1>3. /\ Len(frames'[t]) = n
      /\ \A i \in 1..n : /\ frames'[t][i].kind = frames[t][i].kind
                         /\ frames'[t][i].unit = frames[t][i].unit
                         /\ frames'[t][i].env = frames[t][i].env
                         /\ i # n => frames'[t][i] = frames[t][i]
      /\ frames'[t][n].cur = current /\ frames'[t][n].ns = namespace
  BY <1>0, <1>1, <1>2
<1>4. \A i \in 1..n : /\ TextAt(frames'[t], i) = TextAt(frames[t], i)
                      /\ SpeakerAt(frames'[t], i) = SpeakerAt(frames[t], i)
  BY <1>3, KeptContext
<1>5. current = TextAt(frames[t], n - 1) /\ namespace = SpeakerAt(frames[t], n - 1)
  BY <1>0 DEF RunModule, Context, Back
<1>6. \A i \in 2..n : /\ frames[t][i].env = TextAt(frames[t], i - 1)
                      /\ frames[t][i].cur = TextAt(frames[t], i - 1)
                      /\ frames[t][i].ns = SpeakerAt(frames[t], i - 1)
  BY <1>0 DEF Context, SavedBelow
<1>7. n - 1 \in Nat /\ n - 1 \in 1..n /\ (n - 1) + 1 = n /\ n \in 2..n /\ n \in 1..n
  BY <1>0
<1>8. SavedBelow(t)'
  <2>1. ASSUME NEW i \in 2..n
        PROVE  /\ frames'[t][i].env = TextAt(frames'[t], i - 1)
               /\ frames'[t][i].cur = TextAt(frames'[t], i - 1)
               /\ frames'[t][i].ns = SpeakerAt(frames'[t], i - 1)
    <3>1. i \in 1..n /\ i - 1 \in 1..n
      OBVIOUS
    <3>2. CASE i = n
      BY <3>1, <3>2, <1>3, <1>4, <1>5, <1>6
    <3>3. CASE i # n
      BY <3>1, <3>3, <1>3, <1>4, <1>6
    <3> QED
      BY <3>2, <3>3
  <2> QED
    BY <1>3, <2>1 DEF SavedBelow
<1>9. Top(t) = frames[t][n] /\ Top(t).kind = "import" /\ Top(t).unit \in Modules
  <2>1. Importing(t)
    BY DEF RunModule, StacksOK, StackOK
  <2>2. Top(t) = frames[t][n]
    BY <1>0, TopFacts
  <2>3. Top(t).kind = "import"
    BY <2>1 DEF Importing
  <2>4. frames[t][n].kind = "import" => frames[t][n].unit \in Modules
    BY <1>0, <1>7, InnerFrame
  <2> QED
    BY <2>2, <2>3, <2>4
<1>10. TextAt(frames'[t], n) = Top(t).unit /\ SpeakerAt(frames'[t], n) = Top(t).unit
  <2>1. Top(t).unit # Program
    BY <1>9, ImportsAssumption
  <2>2. frames'[t][n].kind = "import" /\ frames'[t][n].unit = Top(t).unit
    BY <1>3, <1>7, <1>9
  <2>3. TextAt(frames'[t], (n - 1) + 1) = Top(t).unit /\ SpeakerAt(frames'[t], (n - 1) + 1) = Top(t).unit
    BY <1>7, <2>1, <2>2, TextStep, SpeakerStep
  <2> QED
    BY <1>7, <2>3
<1>11. /\ current' = Top(t).unit /\ namespace' = Top(t).unit /\ global_env' = Top(t).unit
       /\ pc'[t] = "run"
  BY PlaceFacts DEF RunModule
<1> QED
  BY <1>3, <1>8, <1>10, <1>11 DEF Context, Back

LEMMA ContextCall ==
    ASSUME TypeOK, StacksOK, NEW t \in Threads, Context(t), NEW u \in Units, Call(t, u)
    PROVE  Context(t)'
<1> DEFINE f == Frame("call", u, 0, global_env, <<>>, current, namespace)
<1>0. PICK n \in Nat : n = Len(frames[t]) /\ n >= 1
  BY TopFacts
<1>1. f \in Frames /\ frames' = [frames EXCEPT ![t] = Append(frames[t], f)]
  BY CallEffect
<1>2. f.env = global_env /\ f.cur = current /\ f.ns = namespace /\ f.kind = "call" /\ f.unit = u
  BY DEF Frame
<1> HIDE DEF f
<1>3. /\ Len(frames'[t]) = n + 1
      /\ \A i \in 1..n : frames'[t][i] = frames[t][i]
      /\ frames'[t][n + 1] = f
  BY <1>0, <1>1, PushedStack
<1>4. /\ global_env = TextAt(frames[t], n) /\ current = TextAt(frames[t], n) /\ namespace = SpeakerAt(frames[t], n)
      /\ UNCHANGED <<global_env, current, pc>> /\ pc[t] = "run"
      /\ namespace' = IF u = Program THEN namespace ELSE u
  BY <1>0 DEF Call, Context, Back
<1>5. \A i \in 1..n : /\ TextAt(frames'[t], i) = TextAt(frames[t], i)
                      /\ SpeakerAt(frames'[t], i) = SpeakerAt(frames[t], i)
  BY <1>3, KeptContext
<1>6. \A i \in 2..n : /\ frames[t][i].env = TextAt(frames[t], i - 1)
                      /\ frames[t][i].cur = TextAt(frames[t], i - 1)
                      /\ frames[t][i].ns = SpeakerAt(frames[t], i - 1)
  BY <1>0 DEF Context, SavedBelow
<1>7. n \in 1..n /\ (n + 1) - 1 = n
  BY <1>0
<1>8. SavedBelow(t)'
  <2>1. ASSUME NEW i \in 2..(n + 1)
        PROVE  /\ frames'[t][i].env = TextAt(frames'[t], i - 1)
               /\ frames'[t][i].cur = TextAt(frames'[t], i - 1)
               /\ frames'[t][i].ns = SpeakerAt(frames'[t], i - 1)
    <3>1. CASE i = n + 1
      BY <3>1, <1>2, <1>3, <1>4, <1>5, <1>7
    <3>2. CASE i # n + 1
      <4>1. i \in 2..n /\ i \in 1..n /\ i - 1 \in 1..n
        BY <3>2
      <4> QED
        BY <4>1, <1>3, <1>5, <1>6
    <3> QED
      BY <3>1, <3>2
  <2> QED
    BY <1>3, <2>1 DEF SavedBelow
<1>9. /\ TextAt(frames'[t], n + 1) = TextAt(frames'[t], n)
      /\ SpeakerAt(frames'[t], n + 1) = IF u # Program THEN u ELSE SpeakerAt(frames'[t], n)
  BY <1>2, <1>3, TextStep, SpeakerStep
<1>10. /\ current' = TextAt(frames'[t], n + 1) /\ global_env' = TextAt(frames'[t], n + 1)
       /\ namespace' = SpeakerAt(frames'[t], n + 1)
  BY <1>4, <1>5, <1>7, <1>9
<1> QED
  BY <1>3, <1>4, <1>8, <1>10 DEF Context, Back

LEMMA ContextPop ==
    ASSUME TypeOK, StacksOK, NEW t \in Threads, Context(t), Return(t) \/ FinishImport(t)
    PROVE  Context(t)'
<1>1. Len(frames[t]) > 1 /\ frames' = [frames EXCEPT ![t] = Front(frames[t])]
  BY ReturnEffect, FinishImportEffect
<1>0. PICK n \in Nat : n = Len(frames[t]) /\ n >= 2
  BY <1>1, TopFacts
<1>2. /\ Len(frames'[t]) = n - 1
      /\ \A i \in 1..(n - 1) : frames'[t][i] = frames[t][i]
  BY <1>0, <1>1, PoppedStack
<1>3. n - 1 \in Nat /\ n - 1 \in 1..(n - 1) /\ (n - 1) + 1 = n /\ n \in 2..n /\ 2..(n - 1) \subseteq 2..n
  BY <1>0
<1>4. \A i \in 1..(n - 1) : /\ TextAt(frames'[t], i) = TextAt(frames[t], i)
                            /\ SpeakerAt(frames'[t], i) = SpeakerAt(frames[t], i)
  BY <1>2, <1>3, KeptContext
<1>5. \A i \in 2..n : /\ frames[t][i].env = TextAt(frames[t], i - 1)
                      /\ frames[t][i].cur = TextAt(frames[t], i - 1)
                      /\ frames[t][i].ns = SpeakerAt(frames[t], i - 1)
  BY <1>0 DEF Context, SavedBelow
<1>6. SavedBelow(t)'
  <2>1. ASSUME NEW i \in 2..(n - 1)
        PROVE  /\ frames'[t][i].env = TextAt(frames'[t], i - 1)
               /\ frames'[t][i].cur = TextAt(frames'[t], i - 1)
               /\ frames'[t][i].ns = SpeakerAt(frames'[t], i - 1)
    <3>1. i \in 2..n /\ i \in 1..(n - 1) /\ i - 1 \in 1..(n - 1)
      OBVIOUS
    <3> QED
      BY <3>1, <1>2, <1>4, <1>5
  <2> QED
    BY <1>2, <2>1 DEF SavedBelow
<1>7. Top(t) = frames[t][n]
  BY <1>0, TopFacts
<1>8. CASE Return(t)
  <2>1. /\ pc' = pc /\ pc[t] \in {"run", "raised"} /\ UNCHANGED <<global_env, current>>
        /\ namespace' = Top(t).ns
    BY <1>8 DEF Return
  <2>2. current = TextAt(frames[t], n) /\ global_env = TextAt(frames[t], n)
    BY <1>0, <2>1 DEF Context, Back
  <2>3. frames[t][n].kind = "call"
    BY <1>7, <1>8, ReturnEffect
  <2>4. TextAt(frames[t], (n - 1) + 1) = TextAt(frames[t], n - 1)
    BY <1>3, <2>3, TextStep
  <2>5. current' = TextAt(frames'[t], n - 1) /\ global_env' = TextAt(frames'[t], n - 1)
    BY <1>3, <1>4, <2>1, <2>2, <2>4
  <2>6. namespace' = SpeakerAt(frames'[t], n - 1)
    BY <1>3, <1>4, <1>5, <1>7, <2>1
  <2> QED
    BY <1>2, <1>6, <2>1, <2>5, <2>6 DEF Context, Back
<1>9. CASE FinishImport(t)
  <2>1. /\ pc[t] \in {"ended", "failed"} /\ UNCHANGED <<current, namespace>> /\ global_env' = Top(t).env
    BY <1>9 DEF FinishImport
  <2>2. pc'[t] \in {"closing", "dropping"}
    BY <1>9, PlaceFacts DEF FinishImport
  <2>3. current = TextAt(frames[t], n - 1) /\ namespace = SpeakerAt(frames[t], n - 1)
    BY <1>0, <2>1 DEF Context, Back
  <2>4. current' = TextAt(frames'[t], n - 1) /\ namespace' = SpeakerAt(frames'[t], n - 1)
    BY <1>3, <1>4, <2>1, <2>3
  <2>5. global_env' = TextAt(frames'[t], n - 1)
    BY <1>3, <1>4, <1>5, <1>7, <2>1
  <2> QED
    BY <1>2, <1>6, <2>2, <2>4, <2>5 DEF Context, Back
<1> QED
  BY <1>8, <1>9

LEMMA ContextOwnStep ==
    ASSUME TypeOK, StacksOK, NEW t \in Threads, Context(t), StepOf(t)
    PROVE  Context(t)'
<1>1. CASE \/ PrintLine(t) \/ \E m \in Modules : LookUp(t, m)
           \/ Compare(t) \/ Circular(t) \/ NotInProgress(t) \/ LeaveImport(t)
           \/ Fail(t) \/ Catch(t)
  <2>1. /\ UNCHANGED <<frames, current, namespace, global_env>>
        /\ pc[t] \notin {"read", "ended", "failed"}
    BY <1>1 DEF PrintLine, LookUp, Compare, Circular, NotInProgress, LeaveImport, Leaving, Fail, Catch,
                runtimeVars, threadVars
  <2>2. pc'[t] \notin {"read", "ended", "failed"}
    BY <1>1, <2>1, PlaceFacts DEF PrintLine, LookUp, Compare, Circular, NotInProgress, LeaveImport, Fail, Catch,
                                  threadVars
  <2> QED
    BY <2>1, <2>2 DEF Context, Back, SavedBelow
<1>2. CASE Misread(t)
  <2>1. UNCHANGED <<frames, current, namespace>> /\ pc[t] = "read"
    BY <1>2 DEF Misread, runtimeVars
  <2>2. pc'[t] = "failed"
    BY <1>2, PlaceFacts DEF Misread
  <2> QED
    BY <2>1, <2>2 DEF Context, Back, SavedBelow
<1>3. CASE EndModule(t)
  <2>1. UNCHANGED frames /\ current' = Top(t).cur /\ namespace' = Top(t).ns /\ Importing(t)
    BY <1>3 DEF EndModule
  <2>2. pc'[t] \in {"ended", "failed"}
    BY <1>3, PlaceFacts DEF EndModule
  <2>3. PICK n \in Nat : n = Len(frames[t]) /\ n >= 2
    BY <2>1, TopFacts DEF Importing
  <2>4. Top(t) = frames[t][n] /\ n \in 2..n
    BY <2>3, TopFacts
  <2>5. Top(t).cur = TextAt(frames[t], n - 1) /\ Top(t).ns = SpeakerAt(frames[t], n - 1)
    BY <2>3, <2>4 DEF Context, SavedBelow
  <2>6. SavedBelow(t)' /\ Len(frames'[t]) = n
    BY <2>1, <2>3 DEF Context, SavedBelow
  <2>7. current' = TextAt(frames'[t], n - 1) /\ namespace' = SpeakerAt(frames'[t], n - 1)
    BY <2>1, <2>5
  <2> QED
    BY <2>2, <2>6, <2>7 DEF Context, Back
<1> QED
  BY <1>1, <1>2, <1>3, ContextStart, ContextRun, ContextCall, ContextPop DEF StepOf

LEMMA ContextStep ==
    ASSUME TypeOK, StacksOK, ContextOK, [Next]_vars
    PROVE  ContextOK'
<1> SUFFICES ASSUME NEW t \in Threads, users' \subseteq {t} PROVE Context(t)'
  BY DEF ContextOK
<1>1. Context(t)
  BY UsersGrow DEF ContextOK
<1>2. CASE StepOf(t)
  BY <1>1, <1>2, ContextOwnStep
<1>3. CASE Untouched(t)
  BY <1>1, <1>3 DEF Untouched, Context, Back, SavedBelow, runtimeVars
<1> QED
  BY <1>2, <1>3, AloneStep

-----------------------------------------------------------------------------
\* The pieces of the output, put together, are moved and never changed.
LEMMA PiecesOwnStep ==
    ASSUME TypeOK, TypeOK', StacksOK, StreamOK, NEW t \in Threads, Pieces(t), StepOf(t), ~misread'
    PROVE  Pieces(t)'
<1>0. /\ frames[t] \in Seq(Frames) /\ frames[t] # <<>> /\ frames'[t] \in Seq(Frames)
      /\ output \in Seq(Units) /\ printed \in Seq(Units) /\ output' \in Seq(Units)
  BY DEF TypeOK
<1>1. CASE PrintLine(t)
  <2>1. /\ output' = Append(output, Top(t).unit) /\ printed' = Append(printed, Top(t).unit)
        /\ Top(t).unit \in Units
    BY <1>1, PrintLineEffect, TopFacts, FrameFields
  <2>2. UNCHANGED <<frames, pc>> /\ pc[t] = "run"
    BY <1>1 DEF PrintLine, threadVars
  <2>3. SavedOutput(frames[t]) \o output = printed
    BY <2>2 DEF Pieces
  <2>4. SavedOutput(frames[t]) \in Seq(Units)
    BY <1>0, SavedType
  <2>5. output' = output \o <<Top(t).unit>> /\ printed' = printed \o <<Top(t).unit>>
    BY <1>0, <2>1, AppendIsConcat
  <2>6. <<Top(t).unit>> \in Seq(Units)
    BY <2>1
  <2>7. SavedOutput(frames[t]) \o output' = printed'
    BY <1>0, <2>3, <2>4, <2>5, <2>6, ConcatAssociative
  <2> QED
    BY <2>2, <2>7 DEF Pieces
<1>2. CASE \/ \E m \in Modules : LookUp(t, m)
           \/ Compare(t) \/ Circular(t) \/ NotInProgress(t) \/ LeaveImport(t)
           \/ Fail(t) \/ Catch(t) \/ EndModule(t)
  <2>1. UNCHANGED <<frames, output, printed>> /\ pc[t] # "read"
    BY <1>2 DEF LookUp, Compare, Circular, NotInProgress, LeaveImport, Leaving, Fail, Catch, EndModule,
                runtimeVars, history
  <2>2. pc'[t] # "read"
    BY <1>2, <2>1, PlaceFacts DEF LookUp, Compare, Circular, NotInProgress, LeaveImport, Fail, Catch, EndModule
  <2> QED
    BY <2>1, <2>2 DEF Pieces
<1>3. CASE StartImport(t)
  <2> DEFINE f == Frame("import", asked[t], imports + 1, global_env, output, current, namespace)
  <2>1. f \in Frames /\ frames' = [frames EXCEPT ![t] = Append(frames[t], f)]
    BY <1>3, StartImportEffect
  <2>2. f.saved = output
    BY DEF Frame
  <2> HIDE DEF f
  <2>3. Front(frames'[t]) = frames[t] /\ Len(frames'[t]) = Len(frames[t]) + 1
        /\ frames'[t][Len(frames[t]) + 1] = f
    BY <2>1, PushedStack
  <2>4. Top(t)' = f
    BY <2>3 DEF Top, Last
  <2>5. UNCHANGED <<output, printed>> /\ pc[t] = "absent"
    BY <1>3 DEF StartImport, runtimeVars
  <2>6. pc'[t] = "read"
    BY <1>3, PlaceFacts DEF StartImport
  <2> QED
    BY <2>2, <2>3, <2>4, <2>5, <2>6 DEF Pieces
<1>4. CASE Misread(t)
  BY <1>4 DEF Misread
<1>5. CASE RunModule(t)
  <2> DEFINE gs == WithContext(frames[t], current, namespace)
  <2>1. /\ frames' = [frames EXCEPT ![t] = gs] /\ gs \in Seq(Frames) /\ gs # <<>> /\ Head(gs).unit = Program
        /\ Len(gs) = Len(frames[t])
        /\ \A i \in 1..Len(gs) : gs[i].saved = frames[t][i].saved
    BY <1>5, RunModuleEffect
  <2> HIDE DEF gs
  <2>2. frames'[t] = gs
    BY <2>1, ChangedStack
  <2>3. SavedOutput(frames'[t]) = SavedOutput(frames[t])
    BY <1>0, <2>1, <2>2, SavedSame
  <2>4. Len(frames[t]) > 1
    BY <1>5 DEF RunModule, StacksOK, StackOK, Importing
  <2>5. Top(t).saved = output /\ SavedOutput(Front(frames[t])) \o output = printed
    BY <1>5 DEF RunModule, Pieces
  <2>6. /\ Front(frames[t]) \in Seq(Frames) /\ Front(frames[t]) # <<>>
        /\ frames[t] = Append(Front(frames[t]), Top(t))
    BY <1>0, <2>4, Pop, PopPush DEF Top
  <2>7. SavedOutput(frames[t]) = printed
    BY <2>5, <2>6, SavedPush, TopFacts
  <2>8. output' = <<>> /\ printed' = printed
    BY <1>5 DEF RunModule, history
  <2>9. pc'[t] = "run"
    BY <1>5, PlaceFacts DEF RunModule
  <2> QED
    BY <1>0, <2>3, <2>7, <2>8, <2>9, ConcatEmptySeq DEF Pieces
<1>6. ASSUME NEW u \in Units, Call(t, u) PROVE Pieces(t)'
  <2> DEFINE f == Frame("call", u, 0, global_env, <<>>, current, namespace)
  <2>1. f \in Frames /\ frames' = [frames EXCEPT ![t] = Append(frames[t], f)]
    BY <1>6, CallEffect
  <2>2. f.saved = <<>>
    BY DEF Frame
  <2> HIDE DEF f
  <2>3. frames'[t] = Append(frames[t], f)
    BY <2>1, PushedStack
  <2>4. SavedOutput(frames'[t]) = SavedOutput(frames[t]) \o <<>> /\ SavedOutput(frames[t]) \in Seq(Units)
    BY <1>0, <2>1, <2>2, <2>3, SavedPush, SavedType
  <2>5. SavedOutput(frames'[t]) = SavedOutput(frames[t])
    BY <2>4, ConcatEmptySeq
  <2>6. UNCHANGED <<pc, output, printed>> /\ pc[t] = "run"
    BY <1>6 DEF Call
  <2> QED
    BY <2>5, <2>6 DEF Pieces
<1>7. CASE Return(t) \/ FinishImport(t)
  <2>1. Len(frames[t]) > 1 /\ frames' = [frames EXCEPT ![t] = Front(frames[t])]
    BY <1>7, ReturnEffect, FinishImportEffect
  <2>2. frames[t] = Append(frames'[t], Top(t)) /\ frames'[t] # <<>>
    BY <2>1, PoppedStack
  <2>3. Top(t) \in Frames /\ Top(t).saved \in Seq(Units)
    BY TopFacts, FrameFields
  <2>4. SavedOutput(frames[t]) = SavedOutput(frames'[t]) \o Top(t).saved
    BY <1>0, <2>2, <2>3, SavedPush
  <2>5. SavedOutput(frames'[t]) \in Seq(Units)
    BY <1>0, SavedType
  <2>6. printed' = printed /\ pc[t] # "read" /\ output' = Top(t).saved \o output
    <3>1. CASE Return(t)
      <4>1. Len(frames[t]) \in 2..Len(frames[t]) /\ Top(t) = frames[t][Len(frames[t])]
        BY <2>1, TopFacts
      <4>2. Top(t).saved = <<>>
        BY <3>1, <4>1, ReturnEffect DEF StacksOK, StackOK
      <4>3. output' = output /\ printed' = printed /\ pc[t] # "read"
        BY <3>1 DEF Return, history
      <4> QED
        BY <1>0, <4>2, <4>3, ConcatEmptySeq
    <3>2. CASE FinishImport(t)
      BY <3>2 DEF FinishImport, Rejoined
    <3> QED
      BY <1>7, <3>1, <3>2
  <2>7. pc'[t] # "read"
    BY <1>7, PlaceFacts DEF Return, FinishImport
  <2>8. SavedOutput(frames[t]) \o output = printed
    BY <2>6 DEF Pieces
  <2>9. (SavedOutput(frames'[t]) \o Top(t).saved) \o output
            = SavedOutput(frames'[t]) \o (Top(t).saved \o output)
    <3>1. \A a, b, c \in Seq(Units) : (a \o b) \o c = a \o (b \o c)
      BY ConcatAssociative
    <3> QED
      BY <1>0, <2>3, <2>5, <3>1
  <2>10. SavedOutput(frames'[t]) \o output' = printed'
    BY <2>4, <2>6, <2>8, <2>9
  <2> QED
    BY <2>7, <2>10 DEF Pieces
<1> QED
  BY <1>1, <1>2, <1>3, <1>4, <1>5, <1>6, <1>7 DEF StepOf

LEMMA OutputStep ==
    ASSUME TypeOK, TypeOK', StacksOK, StreamOK, OutputOK, [Next]_vars
    PROVE  OutputOK'
<1> SUFFICES ASSUME NEW t \in Threads, users' \subseteq {t}, ~misread' PROVE Pieces(t)'
  BY DEF OutputOK
<1>1. misread => misread'
  <2>1. CASE UNCHANGED vars
    BY <2>1 DEF vars, history
  <2>2. ASSUME NEW s \in Threads, StepOf(s) PROVE misread => misread'
    BY <2>2 DEF StepOf, PrintLine, LookUp, Compare, Circular, NotInProgress, LeaveImport,
                StartImport, Misread, RunModule, Call, Return, Fail, Catch, EndModule, FinishImport, history
  <2> QED
    BY <2>1, <2>2 DEF Next, StepOf
<1>2. Pieces(t)
  BY <1>1, UsersGrow DEF OutputOK
<1>3. CASE StepOf(t)
  BY <1>2, <1>3, PiecesOwnStep
<1>4. CASE Untouched(t)
  BY <1>2, <1>4 DEF Untouched, Pieces, Top, runtimeVars, history
<1> QED
  BY <1>3, <1>4, AloneStep

-----------------------------------------------------------------------------
IInv == /\ TypeOK /\ StacksOK
        /\ Numbered /\ Apart /\ AloneOK
        /\ LoadsOK /\ ContextOK
        /\ StreamOK /\ OutputOK

LEMMA InitialFrames ==
    ASSUME Init, NEW t \in Threads
    PROVE  /\ frames[t] = <<Frame("import", Program, 0, Program, <<>>, Program, Program)>>
           /\ frames[t] \in Seq(Frames) /\ frames[t] # <<>> /\ Len(frames[t]) = 1
           /\ frames[t][1].kind = "import" /\ frames[t][1].unit = Program /\ frames[t][1].saved = <<>>
           /\ Head(frames[t]).unit = Program
<1> DEFINE f == Frame("import", Program, 0, Program, <<>>, Program, Program)
<1>1. f \in Frames /\ f.kind = "import" /\ f.unit = Program /\ f.saved = <<>>
  <2>1. Program \in Units /\ <<>> \in Seq(Units)
    BY EmptySeq DEF Units
  <2>2. f \in Frames
    BY <2>1 DEF Frame, Frames
  <2> QED
    BY <2>2 DEF Frame
<1> HIDE DEF f
<1>2. frames[t] = <<f>>
  BY DEF Init, f
<1> QED
  BY <1>1, <1>2 DEF f

LEMMA InitIInv == Init => IInv
<1> SUFFICES ASSUME Init PROVE IInv
  OBVIOUS
<1>1. TypeOK
  <2>1. Program \in Units /\ Program \notin Modules
    BY ImportsAssumption DEF Units
  <2>2. \A t \in Threads : frames[t] \in Seq(Frames) /\ frames[t] # <<>> /\ Head(frames[t]).unit = Program
    BY InitialFrames
  <2>3. frames \in [Threads -> Seq(Frames)]
    BY <2>2 DEF Init
  <2>4. <<>> \in Seq(Units) /\ <<>> \in Seq([unit : Modules, n : Nat]) /\ Len(<<>>) = 0
    BY EmptySeq
  <2>5. search \in [Threads -> [at : Nat, met : Units, own : Nat]]
    BY <2>1 DEF Init, Start
  <2>6. cache \subseteq Modules /\ loaded \cup reloaded \cup accused \subseteq Modules /\ users \subseteq Threads
    BY DEF Init
  <2>7. /\ in_progress \in Seq([unit : Modules, n : Nat]) /\ output \in Seq(Units) /\ cursor \in 0..Len(output)
        /\ printed \in Seq(Units) /\ shown \in Seq(Units)
    BY <2>4 DEF Init
  <2>8. global_env \in Units /\ current \in Units /\ namespace \in Units
    BY <2>1 DEF Init
  <2>9. /\ pc \in [Threads -> {"run", "looked", "absent", "read", "raised", "ended", "failed", "closing", "dropping"}]
        /\ asked \in [Threads -> Units]
        /\ \A t \in Threads : asked[t] \in Modules <=> pc[t] \in {"looked", "absent", "closing", "dropping"}
    BY <2>1 DEF Init
  <2>10. imports \in Nat /\ calls \in Nat /\ misread \in BOOLEAN /\ doubled \in BOOLEAN
    BY DEF Init
  <2> QED
    BY <2>2, <2>3, <2>5, <2>6, <2>7, <2>8, <2>9, <2>10 DEF TypeOK
<1>2. \A t \in Threads : /\ StackOK(t) /\ Inside(t) = {} /\ ~Leaving(t) /\ pc[t] = "run"
                         /\ \A i \in Nat : \A m, n : ~Has(t, i, m, n)
  <2> SUFFICES ASSUME NEW t \in Threads
               PROVE  /\ StackOK(t) /\ Inside(t) = {} /\ ~Leaving(t) /\ pc[t] = "run"
                      /\ \A i \in Nat : \A m, n : ~Has(t, i, m, n)
    OBVIOUS
  <2>1. Len(frames[t]) = 1 /\ frames[t][1].kind = "import" /\ pc[t] = "run" /\ search[t] = Start(0)
    BY InitialFrames DEF Init
  <2>2. 2..Len(frames[t]) = {}
    BY <2>1
  <2> QED
    BY <2>1, <2>2 DEF StackOK, Inside, Has, Holds, Removes, Leaving
<1>3. Numbered /\ Apart /\ AloneOK
  <2>1. in_progress = <<>> /\ DOMAIN in_progress = {} /\ ~doubled /\ accused = {}
    BY DEF Init
  <2>2. HeldOnce /\ OneOfEach /\ AllListed
    BY <1>2, <2>1 DEF HeldOnce, OneOfEach, AllListed
  <2> QED
    BY <1>2, <2>1, <2>2 DEF Numbered, Apart, AloneOK, Alone
<1>4. LoadsOK /\ StreamOK
  BY <1>2 DEF LoadsOK, Fresh, StreamOK, Init
<1>5. ContextOK
  <2> SUFFICES ASSUME NEW t \in Threads PROVE Context(t)
    BY DEF ContextOK
  <2>1. Len(frames[t]) = 1 /\ frames[t][1].kind = "import" /\ frames[t][1].unit = Program
    BY InitialFrames
  <2>2. TextAt(frames[t], 0 + 1) = Program
    <3>1. 0 \in Nat /\ 0 + 1 = 1
      OBVIOUS
    <3>2. TextAt(frames[t], 0 + 1)
              = IF frames[t][0 + 1].kind = "import" THEN frames[t][0 + 1].unit ELSE TextAt(frames[t], 0)
      BY <3>1, TextStep, Zenon
    <3> QED
      BY <2>1, <3>1, <3>2
  <2>3. SpeakerAt(frames[t], 0 + 1) = Program
    <3>1. SpeakerAt(frames[t], 0) = Program
      BY DEF SpeakerAt
    <3>2. 0 \in Nat /\ 0 + 1 = 1
      OBVIOUS
    <3>3. SpeakerAt(frames[t], 0 + 1)
              = IF frames[t][0 + 1].unit # Program THEN frames[t][0 + 1].unit ELSE SpeakerAt(frames[t], 0)
      BY <3>2, SpeakerStep, Zenon
    <3> QED
      BY <2>1, <3>1, <3>2, <3>3
  <2>4. SavedBelow(t)
    <3>1. 2..Len(frames[t]) = {}
      BY <2>1
    <3> QED
      BY <3>1 DEF SavedBelow
  <2>5. pc[t] = "run" /\ current = Program /\ namespace = Program /\ global_env = Program
    BY DEF Init
  <2> QED
    BY <2>1, <2>2, <2>3, <2>4, <2>5 DEF Context, Back
<1>6. OutputOK
  <2> SUFFICES ASSUME NEW t \in Threads PROVE Pieces(t)
    BY DEF OutputOK
  <2>1. frames[t] \in Seq(Frames) /\ Len(frames[t]) = 1 /\ frames[t][1].saved = <<>>
    BY InitialFrames
  <2>2. [i \in DOMAIN frames[t] |-> frames[t][i].saved] = << <<>> >>
    BY <2>1, LenProperties
  <2>3. SavedOutput(frames[t]) = FlattenSeq(<< <<>> >>)
    BY <2>2 DEF SavedOutput
  <2>4. FlattenSeq(<< <<>> >>) = <<>>
    <3>1. << <<>> >> \in Seq(Seq(Units)) /\ Len(<< <<>> >>) = 1 /\ << <<>> >>[1] = <<>>
      BY EmptySeq
    <3> DEFINE ss == << <<>> >>
    <3> HIDE DEF ss
    <3>2. ss \in Seq(Seq(Units)) /\ Len(ss) = 1 /\ ss[1] = <<>>
      BY <3>1 DEF ss
    <3>3. PICK f : Flattening(ss, f) /\ FlattenSeq(ss) = f[Len(ss)]
      <4>1. Len(ss) # 0
        BY <3>2
      <4>2. ss \in Seq(Seq(Units))
        BY <3>2
      <4> QED
        BY <4>1, <4>2, FlattenIs, Zenon
    <3>4. 1 \in 1..Len(ss)
      BY <3>2
    <3>5. f[1] = IF 1 = 1 THEN ss[1] ELSE f[1 - 1] \o ss[1]
      BY <3>3, <3>4, FlatteningValues
    <3> QED
      BY <3>2, <3>3, <3>5 DEF ss
  <2>5. pc[t] = "run" /\ output = <<>> /\ printed = <<>>
    BY DEF Init
  <2> QED
    BY <2>3, <2>4, <2>5 DEF Pieces
<1> QED
  BY <1>1, <1>2, <1>3, <1>4, <1>5, <1>6 DEF IInv, StacksOK

LEMMA StepIInv == IInv /\ [Next]_vars => IInv'
<1> SUFFICES ASSUME IInv, [Next]_vars PROVE IInv'
  OBVIOUS
<1>1. TypeOK'
  BY TypeStep DEF IInv
<1>2. StacksOK'
  BY StacksStep DEF IInv
<1>3. Numbered' /\ Apart'
  BY NumberedStep, ApartStep DEF IInv
<1>4. AloneOK'
  BY <1>1, AloneOKStep DEF IInv
<1>5. LoadsOK'
  BY <1>1, LoadsStep DEF IInv
<1>6. ContextOK'
  BY ContextStep DEF IInv
<1>7. StreamOK'
  BY StreamStep DEF IInv
<1>8. OutputOK'
  BY <1>1, OutputStep DEF IInv
<1> QED
  BY <1>1, <1>2, <1>3, <1>4, <1>5, <1>6, <1>7, <1>8 DEF IInv

LEMMA InvariantHolds == Spec => []IInv
  BY InitIInv, StepIInv, PTL DEF Spec

-----------------------------------------------------------------------------
\* Types, and the debugger never ahead of the output.
THEOREM ImportsTypeOK == Spec => []TypeOK
<1>1. IInv => TypeOK
  BY DEF IInv
<1> QED
  BY <1>1, InvariantHolds, PTL

\* However many threads import, and fail to, and however the list shifts under their
\* searches: as long as no module was let in twice at once, what is being imported is
\* in progress.  With one thread none ever is, only true cycles are refused, and
\* nothing stays in progress.
THEOREM ImportsInProgressIsHeld == Spec => []InProgressIsHeld
<1>1. IInv => InProgressIsHeld
  <2> SUFFICES ASSUME IInv PROVE InProgressIsHeld
    OBVIOUS
  <2>1. ASSUME ~doubled, NEW t \in Threads PROVE InHand(t) \subseteq Listed
    <3> SUFFICES ASSUME NEW m \in InHand(t) PROVE m \in Listed
      OBVIOUS
    <3>1a. PICK i \in Nat : \E n : Has(t, i, m, n)
      BY InsideIsHeld DEF IInv
    <3>1. PICK n : Has(t, i, m, n)
      BY <3>1a
    <3>2. PICK k \in DOMAIN in_progress : in_progress[k] = Entry(m, n)
      BY <2>1, <3>1 DEF IInv, Apart, AllListed
    <3> QED
      BY <3>2 DEF Listed, Range, Entry
  <2>2. ASSUME NEW t \in Threads, users \subseteq {t}
        PROVE  ~doubled /\ accused = {} /\ OneOfEach /\ Listed \subseteq InHand(t)
    <3>1. Alone(t) /\ TypeOK
      BY <2>2 DEF IInv, AloneOK
    <3>2. ~doubled /\ accused = {} /\ OneOfEach
      BY <3>1 DEF IInv, Alone, Apart
    <3>3. ASSUME NEW m \in Listed PROVE m \in InHand(t)
      <4>1. PICK k \in DOMAIN in_progress : m = in_progress[k].unit
        BY DEF Listed, Range
      <4>2a. PICK i \in Nat : \E n : Has(t, i, m, n)
        BY <3>1, <4>1 DEF Alone
      <4>2. PICK n : Has(t, i, m, n)
        BY <4>2a
      <4> QED
        BY <3>1, <4>2, InsideIsHeld
    <3> QED
      BY <3>2, <3>3
  <2>3. ASSUME OneThread
        PROVE  /\ \A i, j \in DOMAIN in_progress : in_progress[i].unit = in_progress[j].unit => i = j
               /\ Listed = UNION {InHand(t) : t \in Threads}
               /\ accused = {}
    <3>1. PICK t \in Threads : users \subseteq {t}
      BY <2>3 DEF OneThread
    <3>2. ~doubled /\ accused = {} /\ OneOfEach /\ Listed \subseteq InHand(t)
      BY <3>1, <2>2
    <3>3. \A u \in Threads : InHand(u) \subseteq Listed
      BY <2>1, <3>2
    <3>4. Listed = UNION {InHand(u) : u \in Threads}
      BY <3>2, <3>3
    <3> QED
      BY <3>2, <3>4 DEF OneOfEach
  <2> QED
    BY <2>1, <2>3, Zenon DEF InProgressIsHeld
<1> QED
  BY <1>1, InvariantHolds, PTL

\* After any nesting of imports and calls, ended or failed, the unit that goes on
\* has its own environment, module and namespace.
THEOREM ImportsContextRestored == Spec => []ContextRestored
<1>1. IInv => ContextRestored
  <2> SUFFICES ASSUME IInv, OneThread, NEW t \in users, pc[t] = "run"
               PROVE  current = TextOf(t) /\ global_env = TextOf(t) /\ namespace = SpeakerOf(t)
    BY DEF ContextRestored
  <2>1. t \in Threads /\ users \subseteq {t}
    BY DEF IInv, TypeOK, OneThread
  <2>2. Context(t)
    BY <2>1 DEF IInv, ContextOK
  <2> QED
    BY <2>2 DEF Context, Back, TextOf, SpeakerOf
<1> QED
  BY <1>1, InvariantHolds, PTL

\* No import loses, repeats or moves a line, unless a text did not parse; and the
\* debugger is sent each line once, in order.
THEOREM ImportsOutputKept == Spec => []OutputKept
<1>1. IInv => OutputKept
  <2> SUFFICES ASSUME IInv PROVE OutputKept
    OBVIOUS
  <2>1. DebuggerStream
    BY DEF IInv, StreamOK, DebuggerStream
  <2>2. ASSUME ~misread, OneThread, NEW t \in users PROVE Complete(t)
    <3>1. t \in Threads /\ users \subseteq {t}
      BY <2>2 DEF IInv, TypeOK, OneThread
    <3>2. Pieces(t)
      BY <2>2, <3>1 DEF IInv, OutputOK
    <3> QED
      BY <3>2 DEF Pieces, Complete
  <2> QED
    BY <2>1, <2>2 DEF OutputKept, ImportsKeepOutput
<1> QED
  BY <1>1, InvariantHolds, PTL

\* While one thread imports, no module's text runs to its end twice: what is being
\* imported is not in the cache, at whatever depth.
THEOREM ImportsLoadedOnce == Spec => []LoadedOnce
<1>1. IInv => LoadedOnce
  <2> SUFFICES ASSUME IInv, NEW t \in Threads, users \subseteq {t} PROVE reloaded = {}
    BY DEF LoadedOnce, OneThread
  <2> QED
    BY DEF IInv, LoadsOK, Fresh
<1> QED
  BY <1>1, InvariantHolds, PTL

=============================================================================
