----------------------------- MODULE SequenceFacts -----------------------------
(***************************************************************************)
(* Sequences, element by element: what concatenating, cutting and splicing *)
(* them gives at each position.                                            *)
(***************************************************************************)
EXTENDS Integers, Sequences, SequenceTheorems, TLAPS

(* A concatenation, element by element.                                    *)
LEMMA ConcatFacts ==
  ASSUME NEW S, NEW p \in Seq(S), NEW q \in Seq(S)
  PROVE  /\ p \o q \in Seq(S)
         /\ Len(p \o q) = Len(p) + Len(q)
         /\ \A j \in 1 .. Len(p) : (p \o q)[j] = p[j]
         /\ \A j \in 1 .. Len(q) : (p \o q)[Len(p) + j] = q[j]
<1> DEFINE u == p \o q
<1>1. /\ u \in Seq(S)
      /\ Len(u) = Len(p) + Len(q)
      /\ \A j \in 1 .. Len(p) + Len(q) :
           u[j] = IF j <= Len(p) THEN p[j] ELSE q[j - Len(p)]
  BY ConcatProperties, Zenon
<1>2. Len(p) \in Nat /\ Len(q) \in Nat
  BY LenProperties
<1> HIDE DEF u
<1>3. \A j \in 1 .. Len(p) : u[j] = p[j]
  BY <1>1, <1>2
<1>4. ASSUME NEW j \in 1 .. Len(q) PROVE u[Len(p) + j] = q[j]
  <2>1. Len(p) + j \in 1 .. Len(p) + Len(q) /\ ~(Len(p) + j <= Len(p)) /\ Len(p) + j - Len(p) = j
    BY <1>2
  <2> QED BY <2>1, <1>1
<1> QED BY <1>1, <1>3, <1>4 DEF u

(* The first a elements of a sequence, and those from b on.                *)
LEMMA PrefixFacts ==
  ASSUME NEW S, NEW s \in Seq(S), NEW a \in 0 .. Len(s)
  PROVE  /\ SubSeq(s, 1, a) \in Seq(S)
         /\ Len(SubSeq(s, 1, a)) = a
         /\ \A j \in 1 .. a : SubSeq(s, 1, a)[j] = s[j]
<1>1. Len(s) \in Nat /\ \A j \in 1 .. Len(s) : s[j] \in S
  BY LenProperties, ElementOfSeq
<1> QED BY <1>1, SubSeqProperties

LEMMA SuffixFacts ==
  ASSUME NEW S, NEW s \in Seq(S), NEW b \in 1 .. Len(s) + 1
  PROVE  /\ SubSeq(s, b, Len(s)) \in Seq(S)
         /\ Len(SubSeq(s, b, Len(s))) = Len(s) + 1 - b
         /\ \A j \in 1 .. Len(s) + 1 - b : SubSeq(s, b, Len(s))[j] = s[b - 1 + j]
<1>1. Len(s) \in Nat /\ \A j \in 1 .. Len(s) : s[j] \in S
  BY LenProperties, ElementOfSeq
<1> QED BY <1>1, SubSeqProperties

(* A sequence with one element left out, and one with a stretch replaced   *)
(* by an element.                                                          *)
LEMMA WithoutFacts ==
  ASSUME NEW S, NEW s \in Seq(S), NEW i \in 1 .. Len(s)
  PROVE  LET r == SubSeq(s, 1, i - 1) \o SubSeq(s, i + 1, Len(s))
         IN  /\ r \in Seq(S)
             /\ Len(r) = Len(s) - 1
             /\ \A j \in 1 .. i - 1 : r[j] = s[j]
             /\ \A j \in i .. Len(s) - 1 : r[j] = s[j + 1]
<1> DEFINE p == SubSeq(s, 1, i - 1)
           q == SubSeq(s, i + 1, Len(s))
           r == p \o q
<1>1. Len(s) \in Nat
  BY LenProperties
<1>2. /\ p \in Seq(S)
      /\ Len(p) = i - 1
      /\ \A j \in 1 .. i - 1 : p[j] = s[j]
  BY <1>1, PrefixFacts
<1>3. /\ q \in Seq(S)
      /\ Len(q) = Len(s) - i
      /\ \A j \in 1 .. Len(s) - i : q[j] = s[i + j]
  <2>1. i + 1 \in 1 .. Len(s) + 1 /\ Len(s) + 1 - (i + 1) = Len(s) - i
    BY <1>1
  <2>2. \A j \in 1 .. Len(s) - i : q[j] = s[i + 1 - 1 + j]
    BY <2>1, SuffixFacts
  <2> QED BY <2>1, <2>2, SuffixFacts
<1> HIDE DEF p, q
<1>4. /\ r \in Seq(S)
      /\ Len(r) = Len(p) + Len(q)
      /\ \A j \in 1 .. Len(p) : r[j] = p[j]
      /\ \A j \in 1 .. Len(q) : r[Len(p) + j] = q[j]
  <2>1. p \in Seq(S) /\ q \in Seq(S)
    BY <1>2, <1>3
  <2> QED BY <2>1, ConcatFacts
<1> HIDE DEF r
<1>5. Len(r) = Len(s) - 1 /\ \A j \in 1 .. i - 1 : r[j] = s[j]
  BY <1>1, <1>2, <1>3, <1>4
<1>6. ASSUME NEW j \in i .. Len(s) - 1 PROVE r[j] = s[j + 1]
  <2>1. /\ j - i + 1 \in 1 .. Len(q) /\ j - i + 1 \in 1 .. Len(s) - i
        /\ Len(p) + (j - i + 1) = j /\ i + (j - i + 1) = j + 1
    BY <1>1, <1>2, <1>3
  <2>2. r[Len(p) + (j - i + 1)] = q[j - i + 1] /\ q[j - i + 1] = s[i + (j - i + 1)]
    BY <1>3, <1>4, <2>1
  <2> QED BY <2>1, <2>2
<1> QED BY <1>4, <1>5, <1>6 DEF r, p, q

Splice(s, a, x, b) == SubSeq(s, 1, a) \o <<x>> \o SubSeq(s, b, Len(s))

IsSplice(r, s, a, x, b) ==
  /\ Len(r) = a + 1 + (Len(s) + 1 - b)
  /\ \A j \in 1 .. a : r[j] = s[j]
  /\ r[a + 1] = x
  /\ \A j \in a + 2 .. Len(r) : r[j] = s[j - a - 2 + b]

LEMMA SpliceFacts ==
  ASSUME NEW S, NEW s \in Seq(S), NEW a \in 0 .. Len(s), NEW b \in a + 1 .. Len(s) + 1,
         NEW x \in S
  PROVE  Splice(s, a, x, b) \in Seq(S) /\ IsSplice(Splice(s, a, x, b), s, a, x, b)
<1> DEFINE p == SubSeq(s, 1, a)
           q == SubSeq(s, b, Len(s))
           o == <<x>>
           u == p \o o
           r == u \o q
<1>1. Len(s) \in Nat
  BY LenProperties
<1>2. /\ p \in Seq(S)
      /\ Len(p) = a
      /\ \A j \in 1 .. a : p[j] = s[j]
  BY PrefixFacts
<1>3. /\ q \in Seq(S)
      /\ Len(q) = Len(s) + 1 - b
      /\ \A j \in 1 .. Len(s) + 1 - b : q[j] = s[b - 1 + j]
  <2>1. b \in 1 .. Len(s) + 1
    BY <1>1
  <2> QED BY <2>1, SuffixFacts
<1>4. o \in Seq(S) /\ Len(o) = 1 /\ o[1] = x
  OBVIOUS
<1> HIDE DEF p, q, o
<1>5. /\ u \in Seq(S)
      /\ Len(u) = Len(p) + Len(o)
      /\ \A j \in 1 .. Len(p) : u[j] = p[j]
      /\ \A j \in 1 .. Len(o) : u[Len(p) + j] = o[j]
  <2>1. p \in Seq(S) /\ o \in Seq(S)
    BY <1>2, <1>4
  <2> QED BY <2>1, ConcatFacts
<1> HIDE DEF u
<1>6. /\ r \in Seq(S)
      /\ Len(r) = Len(u) + Len(q)
      /\ \A j \in 1 .. Len(u) : r[j] = u[j]
      /\ \A j \in 1 .. Len(q) : r[Len(u) + j] = q[j]
  <2>1. u \in Seq(S) /\ q \in Seq(S)
    BY <1>3, <1>5
  <2> QED BY <2>1, ConcatFacts
<1> HIDE DEF r
<1>7. Len(r) = a + 1 + (Len(s) + 1 - b)
  BY <1>1, <1>2, <1>3, <1>4, <1>5, <1>6
<1>8. /\ \A j \in 1 .. a : r[j] = s[j]
      /\ r[a + 1] = x
  <2>1. Len(u) = a + 1 /\ u[a + 1] = x /\ \A j \in 1 .. a : u[j] = s[j]
    BY <1>1, <1>2, <1>4, <1>5
  <2> QED BY <1>1, <2>1, <1>6
<1>9. ASSUME NEW j \in a + 2 .. Len(r) PROVE r[j] = s[j - a - 2 + b]
  <2>1. /\ j - (a + 1) \in 1 .. Len(q) /\ j - (a + 1) \in 1 .. Len(s) + 1 - b
        /\ Len(u) + (j - (a + 1)) = j /\ b - 1 + (j - (a + 1)) = j - a - 2 + b
    BY <1>1, <1>2, <1>3, <1>4, <1>5, <1>7
  <2>2. r[Len(u) + (j - (a + 1))] = q[j - (a + 1)]
    BY <1>6, <2>1
  <2>3. q[j - (a + 1)] = s[b - 1 + (j - (a + 1))]
    BY <1>3, <2>1
  <2> QED BY <2>1, <2>2, <2>3
<1>10. IsSplice(r, s, a, x, b)
  BY <1>7, <1>8, <1>9 DEF IsSplice
<1>11. r = Splice(s, a, x, b)
  BY Zenon DEF Splice, r, u, p, q, o
<1> QED BY <1>6, <1>10, <1>11
===============================================================================
