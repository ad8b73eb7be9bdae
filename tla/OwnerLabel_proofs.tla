-------------------------- MODULE OwnerLabel_proofs --------------------------
(***************************************************************************)
(* What ownerLabelValue makes of names of every length.  The loop keeps an *)
(* invariant of what it has built (LoopInv); the trims and the cut keep    *)
(* contiguous parts of it; the lemmas about Max and Min find the ends of   *)
(* these parts.                                                            *)
(***************************************************************************)
EXTENDS OwnerLabel, WellFoundedInduction, TLAPS

\* A non-empty set of natural numbers has a minimum, and Min is it.
LEMMA MinIsLeast ==
  ASSUME NEW S \in SUBSET Nat, S # {}
  PROVE  Min(S) \in S /\ \A x \in S : Min(S) <= x
<1> DEFINE Less == OpToRel(<, Nat)
<1>1. IsWellFoundedOn(Less, Nat)
  BY NatLessThanWellFounded
<1>2. PICK m \in S : \A y \in S : <<y, m>> \notin Less
  <2> HIDE DEF Less
  <2> QED BY <1>1, WFMin
<1>3. \A y \in S : m <= y
  <2> SUFFICES ASSUME NEW y \in S, y < m
               PROVE  FALSE
    OBVIOUS
  <2>1. <<y, m>> \in Nat \X Nat /\ <<y, m>>[1] < <<y, m>>[2]
    OBVIOUS
  <2>2. <<y, m>> \in Less
    BY <2>1, Zenon DEF OpToRel
  <2> QED BY <1>2, <2>2
<1> QED BY <1>3 DEF Min

\* A non-empty set of natural numbers with an upper bound has a maximum.
LEMMA MaxIsGreatest ==
  ASSUME NEW n \in Nat, NEW S \in SUBSET (0..n), S # {}
  PROVE  Max(S) \in S /\ \A x \in S : x <= Max(S)
<1> DEFINE T == {n - x : x \in S}
<1>1. T \in SUBSET Nat /\ T # {}
  <2>1. \A x \in S : x \in Int /\ 0 <= x /\ x <= n
    OBVIOUS
  <2>2. \A x \in S : n - x \in Nat
    BY <2>1
  <2> QED BY <2>2
<1>2. Min(T) \in T /\ \A x \in T : Min(T) <= x
  <2> HIDE DEF T
  <2> QED BY <1>1, MinIsLeast
<1>3. PICK m \in S : Min(T) = n - m
  BY <1>2
<1>4. \A x \in S : x <= m
  BY <1>2, <1>3
<1> QED BY <1>4 DEF Max

-----------------------------------------------------------------------------
(* Parts of a sequence. *)

Bytes == Kept \cup {"-"}
Collapsed(s) == \A k \in 1..(Len(s) - 1) : ~(s[k] = "-" /\ s[k + 1] = "-")

\* t is what is left of s without its first m and some of its last characters.
PartFrom(t, s, m) ==
  /\ t \in Seq(Bytes)
  /\ m \in Nat /\ m + Len(t) <= Len(s)
  /\ \A k \in 1..Len(t) : t[k] = s[m + k]

\* Nothing in the middle is taken out, so no two dashes come together.
LEMMA PartsStayCollapsed ==
  ASSUME NEW s \in Seq(Bytes), NEW t \in Seq(Bytes), NEW m \in Nat, PartFrom(t, s, m), Collapsed(s)
  PROVE  Collapsed(t)
<1> SUFFICES ASSUME NEW k \in 1..(Len(t) - 1), t[k] = "-", t[k + 1] = "-"
             PROVE  FALSE
  BY DEF Collapsed
<1>1. k \in 1..Len(t) /\ k + 1 \in 1..Len(t) /\ m + k \in 1..(Len(s) - 1)
  BY DEF PartFrom
<1>2. s[m + k] = "-" /\ s[m + (k + 1)] = "-"
  BY <1>1 DEF PartFrom
<1>3. m + (k + 1) = (m + k) + 1
  BY <1>1
<1> QED BY <1>1, <1>2, <1>3 DEF Collapsed

\* Trimming on the right keeps a front part that does not end in a dash.
LEMMA TrimRightSound ==
  ASSUME NEW s \in Seq(Bytes)
  PROVE  /\ PartFrom(TrimRight(s), s, 0)
         /\ TrimRight(s) # <<>> => TrimRight(s)[Len(TrimRight(s))] \in Kept
         /\ \A k \in Letters(s) : k <= Len(TrimRight(s))
<1> DEFINE S == {0} \cup Letters(s)
           n == Max(S)
<1>1. Len(s) \in Nat /\ S \in SUBSET (0..Len(s)) /\ S # {}
  BY DEF Letters
<1>2. n \in S /\ \A x \in S : x <= n
  <2> HIDE DEF S
  <2> QED BY <1>1, MaxIsGreatest
<1>3. TrimRight(s) = SubSeq(s, 1, n) /\ n \in 0..Len(s)
  BY <1>1, <1>2 DEF TrimRight
<1>4. Len(TrimRight(s)) = n /\ TrimRight(s) \in Seq(Bytes) /\ \A k \in 1..n : TrimRight(s)[k] = s[k]
  <2> HIDE DEF n
  <2> QED BY <1>3
<1>5. TrimRight(s) # <<>> => TrimRight(s)[Len(TrimRight(s))] \in Kept
  <2> SUFFICES ASSUME TrimRight(s) # <<>>
               PROVE  n \in Letters(s)
    <3> HIDE DEF n
    <3> QED BY <1>4 DEF Letters, Bytes
  <2>1. n # 0
    <3> HIDE DEF n
    <3> QED BY <1>4
  <2> QED BY <2>1, <1>2
<1> QED
  <2> HIDE DEF n
  <2> QED BY <1>1, <1>2, <1>3, <1>4, <1>5 DEF PartFrom

\* Trimming keeps a part that neither starts nor ends with a dash.
LEMMA TrimSound ==
  ASSUME NEW s \in Seq(Bytes)
  PROVE  /\ \E m \in Nat : PartFrom(Trim(s), s, m)
         /\ Trim(s) # <<>> => Trim(s)[1] \in Kept /\ Trim(s)[Len(Trim(s))] \in Kept
<1>1. CASE Letters(s) = {}
  <2>1. Trim(s) = <<>>
    BY <1>1 DEF Trim
  <2>2. PartFrom(<<>>, s, 0)
    BY DEF PartFrom
  <2> QED BY <2>1, <2>2
<1>2. CASE Letters(s) # {}
  <2> DEFINE t == TrimRight(s)
             f == Min(Letters(s))
  <2>1. f \in Letters(s)
    <3>1. Letters(s) \in SUBSET Nat
      BY DEF Letters
    <3> QED BY <3>1, <1>2, MinIsLeast
  <2>2. PartFrom(t, s, 0) /\ t \in Seq(Bytes) /\ f \in 1..Len(t)
    <3>1. PartFrom(t, s, 0) /\ f <= Len(t)
      BY <2>1, TrimRightSound
    <3> QED BY <3>1, <2>1 DEF Letters, PartFrom
  <2>3. Trim(s) = SubSeq(t, f, Len(t))
    BY <1>2 DEF Trim
  <2> HIDE DEF t, f
  <2>4. /\ Trim(s) \in Seq(Bytes) /\ Len(Trim(s)) = Len(t) - f + 1
        /\ \A k \in 1..Len(Trim(s)) : Trim(s)[k] = t[f + k - 1]
    BY <2>2, <2>3
  <2>5. PartFrom(Trim(s), s, f - 1)
    <3>1. \A k \in 1..Len(Trim(s)) : Trim(s)[k] = s[(f - 1) + k]
      <4> SUFFICES ASSUME NEW k \in 1..Len(Trim(s))
                   PROVE  Trim(s)[k] = s[(f - 1) + k]
        OBVIOUS
      <4>1. f + k - 1 \in 1..Len(t) /\ f + k - 1 = 0 + (f + k - 1) /\ f + k - 1 = (f - 1) + k
        BY <2>2, <2>4
      <4>2. t[f + k - 1] = s[0 + (f + k - 1)]
        BY <4>1, <2>2 DEF PartFrom
      <4> QED BY <4>1, <4>2, <2>4
    <3>2. f - 1 \in Nat /\ (f - 1) + Len(Trim(s)) <= Len(s)
      BY <2>2, <2>4 DEF PartFrom
    <3> QED BY <3>1, <3>2, <2>4 DEF PartFrom
  <2>6. Trim(s)[1] \in Kept
    <3>1. Trim(s)[1] = t[f] /\ t[f] = s[0 + f]
      BY <2>2, <2>4 DEF PartFrom
    <3> QED BY <3>1, <2>1 DEF Letters, Bytes
  <2>7. Trim(s)[Len(Trim(s))] \in Kept
    <3>1. Trim(s)[Len(Trim(s))] = t[Len(t)] /\ t # <<>>
      BY <2>2, <2>4
    <3> QED BY <3>1, TrimRightSound DEF t
  <2> QED BY <2>2, <2>5, <2>6, <2>7
<1> QED BY <1>1, <1>2

LEMMA SuffixShape ==
  /\ Suffix \in Seq(Bytes)
  /\ Len(Suffix) = 1 + Digits
  /\ Suffix[1] = "-" /\ \A k \in 2..Len(Suffix) : Suffix[k] = "alnum"
  /\ MaxCore \in Nat /\ Word <= MaxCore /\ MaxCore = Limit - (1 + Digits)
<1>1. \A k \in 1..(1 + Digits) : (IF k = 1 THEN "-" ELSE "alnum") \in Bytes
  BY DEF Bytes, Kept
<1>2. 1 + Digits \in Nat
  BY LabelAssumption
<1>3. Suffix \in Seq(Bytes) /\ Len(Suffix) = 1 + Digits
  <2> HIDE DEF Bytes
  <2> QED BY <1>1, <1>2 DEF Suffix
<1> QED BY <1>3, LabelAssumption DEF Suffix, MaxCore

\* The core of every label fits, has kept characters at both ends, and is as free
\* of double dashes as what the loop has built.
LEMMA CoreSound ==
  ASSUME NEW s \in Seq(Bytes), Collapsed(s)
  PROVE  /\ Core(s) \in Seq(Bytes)
         /\ Len(Core(s)) \in 1..MaxCore
         /\ Core(s)[1] \in Kept /\ Core(s)[Len(Core(s))] \in Kept
         /\ Collapsed(Core(s))
<1> DEFINE t == Trim(s)
           c == Cut(t)
<1>1. /\ t \in Seq(Bytes) /\ Collapsed(t)
      /\ t # <<>> => t[1] \in Kept /\ t[Len(t)] \in Kept
  <2>1. PICK m \in Nat : PartFrom(t, s, m)
    BY TrimSound
  <2>2. t \in Seq(Bytes)
    BY <2>1 DEF PartFrom
  <2> QED BY <2>1, <2>2, TrimSound, PartsStayCollapsed
<1> HIDE DEF t
<1>2. /\ c \in Seq(Bytes) /\ Collapsed(c) /\ Len(c) <= MaxCore
      /\ c # <<>> => c[1] \in Kept /\ c[Len(c)] \in Kept
  <2>1. CASE Len(t) > MaxCore
    <3> DEFINE u == SubSeq(t, 1, MaxCore)
    <3>1. u \in Seq(Bytes) /\ Len(u) = MaxCore /\ \A k \in 1..MaxCore : u[k] = t[k]
      BY <2>1, <1>1, SuffixShape
    <3>2. PartFrom(u, t, 0)
      BY <3>1, <2>1, <1>1, SuffixShape DEF PartFrom
    <3>3. Collapsed(u)
      BY <3>1, <3>2, <1>1, PartsStayCollapsed
    <3> HIDE DEF u
    <3>4. c = TrimRight(u)
      BY <2>1 DEF Cut, u
    <3>5. /\ PartFrom(c, u, 0) /\ c \in Seq(Bytes)
          /\ c # <<>> => c[Len(c)] \in Kept
      <4> HIDE DEF c
      <4> QED BY <3>1, <3>4, TrimRightSound DEF PartFrom
    <3>6. Collapsed(c)
      <4> HIDE DEF c
      <4> QED BY <3>1, <3>3, <3>5, PartsStayCollapsed
    <3>7. Len(c) <= MaxCore
      BY <3>1, <3>5 DEF PartFrom
    <3>8. ASSUME c # <<>>
          PROVE  c[1] \in Kept
      <4>1. 1 \in 1..Len(c) /\ 0 + 1 = 1
        BY <3>5, <3>8
      <4>2. c[1] = u[0 + 1] /\ 1 \in 1..MaxCore
        BY <4>1, <3>5, <3>7, SuffixShape DEF PartFrom
      <4>3. c[1] = t[1] /\ t # <<>>
        BY <4>1, <4>2, <3>1, <2>1, SuffixShape
      <4> QED BY <4>3, <1>1
    <3> QED BY <3>5, <3>6, <3>7, <3>8
  <2>2. CASE ~(Len(t) > MaxCore)
    BY <2>2, <1>1, SuffixShape DEF Cut
  <2> QED BY <2>1, <2>2
<1> HIDE DEF c
<1>3. CASE c = <<>>
  <2>1. Core(s) = [k \in 1..Word |-> "alnum"]
    BY <1>3 DEF Core, c, t
  <2>2. Core(s) \in Seq(Bytes) /\ Len(Core(s)) = Word /\ \A k \in 1..Word : Core(s)[k] = "alnum"
    <3>1. "alnum" \in Bytes /\ Word \in Nat
      BY LabelAssumption DEF Bytes, Kept
    <3> HIDE DEF Bytes
    <3> QED BY <2>1, <3>1
  <2>3. 1 \in 1..Word /\ Word \in 1..Word /\ Word \in 1..MaxCore
    BY LabelAssumption, SuffixShape
  <2>4. Collapsed(Core(s))
    BY <2>2, LabelAssumption DEF Collapsed
  <2> QED BY <2>2, <2>3, <2>4 DEF Kept
<1>4. CASE c # <<>>
  <2>1. Core(s) = c
    BY <1>4 DEF Core, c, t
  <2>2. Len(c) \in 1..MaxCore
    BY <1>2, <1>4, SuffixShape
  <2> QED BY <1>2, <1>4, <2>1, <2>2
<1> QED BY <1>3, <1>4

\* Nothing of s is written as it is.
NoneKept(s) == \A k \in 1..Len(s) : s[k] \notin Kept

\* The first character to be kept when one more character is read.
LEMMA FrontOfAppend ==
  ASSUME NEW A, NEW s \in Seq(A), NEW x \in A
  PROVE  /\ \A c : Front(Append(s, x), c) <=> Front(s, c) \/ (x = c /\ NoneKept(s))
         /\ NoneKept(Append(s, x)) <=> NoneKept(s) /\ x \notin Kept
<1> DEFINE a == Append(s, x)
<1>1. /\ Len(s) \in Nat /\ Len(a) = Len(s) + 1 /\ a[Len(s) + 1] = x
      /\ \A k \in 1..Len(s) : a[k] = s[k]
  OBVIOUS
<1> HIDE DEF a
<1>2. ASSUME NEW c, Front(a, c) PROVE Front(s, c) \/ (x = c /\ NoneKept(s))
  <2>1. PICK f \in 1..Len(a) : a[f] = c /\ \A k \in 1..(f - 1) : a[k] \notin Kept
    BY <1>2 DEF Front
  <2>2. CASE f \in 1..Len(s)
    <3>1. s[f] = c /\ \A k \in 1..(f - 1) : s[k] \notin Kept
      BY <2>1, <2>2, <1>1
    <3> QED BY <2>2, <3>1 DEF Front
  <2>3. CASE f = Len(s) + 1
    BY <2>1, <2>3, <1>1 DEF NoneKept
  <2> QED BY <2>2, <2>3, <1>1
<1>3. ASSUME NEW c, Front(s, c) PROVE Front(a, c)
  <2>1. PICK f \in 1..Len(s) : s[f] = c /\ \A k \in 1..(f - 1) : s[k] \notin Kept
    BY <1>3 DEF Front
  <2>2. f \in 1..Len(a) /\ a[f] = c /\ \A k \in 1..(f - 1) : a[k] \notin Kept
    BY <2>1, <1>1
  <2> QED BY <2>2 DEF Front
<1>4. ASSUME NEW c, x = c, NoneKept(s) PROVE Front(a, c)
  <2>1. /\ Len(s) + 1 \in 1..Len(a) /\ a[Len(s) + 1] = c
        /\ \A k \in 1..((Len(s) + 1) - 1) : a[k] \notin Kept
    BY <1>1, <1>4 DEF NoneKept
  <2> QED BY <2>1 DEF Front
<1>5. NoneKept(a) <=> NoneKept(s) /\ x \notin Kept
  <2>1. Len(s) + 1 \in 1..Len(a) /\ \A k \in 1..Len(a) : k \in 1..Len(s) \/ k = Len(s) + 1
    BY <1>1
  <2>2. \A k \in 1..Len(s) : k \in 1..Len(a)
    BY <1>1
  <2> QED BY <2>1, <2>2, <1>1 DEF NoneKept
<1> QED BY <1>2, <1>3, <1>4, <1>5 DEF a

\* Either nothing is kept, or something is first.
LEMMA KeptHasFront ==
  ASSUME NEW s \in Seq(Characters)
  PROVE  NoneKept(s) \/ \E c \in Kept : Front(s, c)
<1> SUFFICES ASSUME ~NoneKept(s)
             PROVE  \E c \in Kept : Front(s, c)
  OBVIOUS
<1> DEFINE K == {k \in 1..Len(s) : s[k] \in Kept}
           f == Min(K)
<1>1. K \in SUBSET Nat /\ K # {}
  BY DEF NoneKept
<1>2. f \in K /\ \A x \in K : f <= x
  <2> HIDE DEF K
  <2> QED BY <1>1, MinIsLeast
<1> HIDE DEF f
<1>3. f \in 1..Len(s) /\ s[f] \in Kept /\ \A k \in 1..(f - 1) : s[k] \notin Kept
  BY <1>2
<1> QED BY <1>3 DEF Front

\* The core starts with the first character that was kept, if there is one.
LEMMA CoreFront ==
  ASSUME NEW s \in Seq(Bytes)
  PROVE  /\ \A c \in Kept : Front(s, c) => Core(s)[1] = c
         /\ NoneKept(s) => Core(s)[1] = "alnum"
<1>0. \A k \in 1..Len(s) : s[k] # "-" <=> s[k] \in Kept
  <2>1. \A k \in 1..Len(s) : s[k] \in Bytes
    OBVIOUS
  <2> QED BY <2>1 DEF Bytes, Kept
<1>1. ASSUME NEW c \in Kept, Front(s, c)
      PROVE  Core(s)[1] = c
  <2>1. PICK f \in 1..Len(s) : s[f] = c /\ \A k \in 1..(f - 1) : s[k] \notin Kept
    BY <1>1 DEF Front
  <2>2. \A k \in 1..Len(s) : k \in Letters(s) <=> s[k] \in Kept
    BY <1>0 DEF Letters
  <2>3. f \in Letters(s) /\ Letters(s) \in SUBSET Nat
    BY <2>1, <2>2 DEF Letters
  <2>4. Min(Letters(s)) = f
    <3>1. Min(Letters(s)) \in Letters(s) /\ Min(Letters(s)) <= f
      BY <2>3, MinIsLeast
    <3>2. Min(Letters(s)) \in 1..Len(s) /\ ~(Min(Letters(s)) \in 1..(f - 1))
      BY <3>1, <2>1, <2>2 DEF Letters
    <3> QED BY <3>1, <3>2
  <2> DEFINE r == TrimRight(s)
             t == Trim(s)
  <2>5. r \in Seq(Bytes) /\ f \in 1..Len(r) /\ r[f] = c
    <3>1. PartFrom(r, s, 0) /\ f <= Len(r)
      BY <2>3, TrimRightSound
    <3>2. f \in 1..Len(r)
      BY <3>1, <2>1 DEF PartFrom
    <3>3. r[f] = s[0 + f]
      BY <3>1, <3>2 DEF PartFrom
    <3> QED BY <3>1, <3>2, <3>3, <2>1 DEF PartFrom
  <2>6. t = SubSeq(r, f, Len(r))
    BY <2>3, <2>4 DEF Trim
  <2> HIDE DEF r, t
  <2>7. t \in Seq(Bytes) /\ Len(t) \in Nat \ {0} /\ t[1] = c
    BY <2>5, <2>6
  <2>8. Cut(t) # <<>> /\ Cut(t)[1] = c
    <3>1. CASE Len(t) > MaxCore
      <4> DEFINE u == SubSeq(t, 1, MaxCore)
      <4>1. u \in Seq(Bytes) /\ Len(u) = MaxCore /\ 1 \in 1..Len(u) /\ u[1] = c
        BY <3>1, <2>7, SuffixShape, LabelAssumption
      <4> HIDE DEF u
      <4>2. 1 \in Letters(u)
        BY <4>1 DEF Letters, Kept
      <4>3. PartFrom(TrimRight(u), u, 0) /\ 1 <= Len(TrimRight(u))
        BY <4>1, <4>2, TrimRightSound
      <4>4. TrimRight(u) # <<>> /\ TrimRight(u)[1] = u[0 + 1]
        BY <4>3, <4>1 DEF PartFrom
      <4> QED BY <3>1, <4>1, <4>4 DEF Cut, u
    <3>2. CASE ~(Len(t) > MaxCore)
      BY <3>2, <2>7 DEF Cut
    <3> QED BY <3>1, <3>2
  <2> QED BY <2>8 DEF Core, t
<1>2. ASSUME NoneKept(s)
      PROVE  Core(s)[1] = "alnum"
  <2>1. Letters(s) = {}
    BY <1>0, <1>2 DEF NoneKept, Letters
  <2>2. Trim(s) = <<>>
    BY <2>1 DEF Trim
  <2>3. Cut(<<>>) = <<>>
    BY SuffixShape DEF Cut
  <2> QED BY <2>2, <2>3, LabelAssumption DEF Core
<1> QED BY <1>1, <1>2

\* A core with the hash behind it is right but for its first character.
LEMMA LabelSound ==
  ASSUME NEW s \in Seq(Bytes), Collapsed(s)
  PROVE  LET l == Core(s) \o Suffix IN
           /\ l \in Seq(Bytes) /\ l # <<>>
           /\ l[1] = Core(s)[1] /\ l[1] \in Kept
           /\ IsValidLabelValue([l EXCEPT ![1] = "alnum"])
           /\ Collapsed(l)
<1> DEFINE c == Core(s)
           l == c \o Suffix
<1>1. /\ c \in Seq(Bytes) /\ Len(c) \in 1..MaxCore
      /\ c[1] \in Kept /\ c[Len(c)] \in Kept /\ Collapsed(c)
  BY CoreSound
<1> HIDE DEF c
<1>2. /\ l \in Seq(Bytes) /\ Len(l) = Len(c) + (1 + Digits)
      /\ \A k \in 1..Len(c) : l[k] = c[k]
      /\ \A k \in (Len(c) + 1)..Len(l) : l[k] = Suffix[k - Len(c)]
  <2> HIDE DEF Bytes
  <2> QED BY <1>1, SuffixShape, LabelAssumption
<1>3. /\ 1 \in 1..Len(c) /\ l[1] = c[1]
      /\ Len(c) + 1 \in (Len(c) + 1)..Len(l) /\ l[Len(c) + 1] = "-"
      /\ \A k \in (Len(c) + 2)..Len(l) : l[k] = "alnum"
  BY <1>1, <1>2, SuffixShape, LabelAssumption
<1> HIDE DEF l
<1>4. IsValidLabelValue([l EXCEPT ![1] = "alnum"])
  <2> DEFINE v == [l EXCEPT ![1] = "alnum"]
  <2>1. Len(v) = Len(l) /\ v[1] = "alnum" /\ \A k \in 2..Len(l) : v[k] = l[k]
    BY <1>2, <1>1, LabelAssumption
  <2>2. Len(l) \in 1..Limit /\ Len(l) \in (Len(c) + 2)..Len(l) /\ Len(l) \in 2..Len(l)
    BY <1>1, <1>2, SuffixShape, LabelAssumption
  <2>3. \A k \in 1..Len(l) : l[k] # "other"
    <3>1. \A k \in 1..Len(l) : l[k] \in Bytes
      BY <1>2
    <3> QED BY <3>1 DEF Bytes, Kept
  <2>4. \A k \in 1..Len(v) : v[k] # "other"
    BY <2>1, <2>2, <2>3
  <2>5. v[Len(v)] = "alnum"
    BY <2>1, <2>2, <1>3
  <2> HIDE DEF v
  <2> QED BY <2>1, <2>2, <2>4, <2>5 DEF IsValidLabelValue
<1>5. Collapsed(l)
  <2> SUFFICES ASSUME NEW k \in 1..(Len(l) - 1), l[k] = "-", l[k + 1] = "-"
               PROVE  FALSE
    BY DEF Collapsed
  <2>1. CASE k < Len(c)
    <3>1. k \in 1..(Len(c) - 1) /\ k \in 1..Len(c) /\ k + 1 \in 1..Len(c)
      BY <2>1, <1>1
    <3> QED BY <3>1, <1>1, <1>2 DEF Collapsed
  <2>2. CASE k = Len(c)
    <3>1. k \in 1..Len(c)
      BY <2>2, <1>1
    <3> QED BY <2>2, <3>1, <1>1, <1>2 DEF Kept
  <2>3. CASE k > Len(c)
    <3>1. k + 1 \in (Len(c) + 2)..Len(l)
      BY <2>3, <1>1, <1>2
    <3> QED BY <3>1, <1>3
  <2> QED BY <2>1, <2>2, <2>3, <1>1
<1>6. l # <<>>
  BY <1>2, <1>1, LabelAssumption
<1> QED BY <1>1, <1>2, <1>3, <1>4, <1>5, <1>6 DEF l, c

-----------------------------------------------------------------------------
(* The loop. *)

Read == SubSeq(owner, 1, i - 1)

\* What has been built starts as what has been read, has no double dashes, and the
\* flag says how it ends.
LoopInv ==
  /\ TypeOK
  /\ \A c \in Kept : Front(Read, c) <=> Front(b, c)
  /\ NoneKept(Read) <=> NoneKept(b)
  /\ Collapsed(b)
  /\ prevDash = (b # <<>> /\ b[Len(b)] = "-")

LabelInv == LoopInv /\ WrongOnlyInFront /\ DashesCollapsed

\* What one byte more does to the builder.
LEMMA AppendCollapsed ==
  ASSUME NEW s \in Seq(Bytes), Collapsed(s), NEW c \in Bytes,
         ~(c = "-" /\ s # <<>> /\ s[Len(s)] = "-")
  PROVE  /\ Append(s, c) \in Seq(Bytes)
         /\ Append(s, c) # <<>> /\ Append(s, c)[Len(Append(s, c))] = c
         /\ Collapsed(Append(s, c))
<1>1. /\ Append(s, c) \in Seq(Bytes) /\ Len(Append(s, c)) = Len(s) + 1 /\ Len(s) \in Nat
      /\ Append(s, c)[Len(s) + 1] = c
      /\ \A k \in 1..Len(s) : Append(s, c)[k] = s[k]
  OBVIOUS
<1>2. Collapsed(Append(s, c))
  <2> DEFINE a == Append(s, c)
  <2> SUFFICES ASSUME NEW k \in 1..(Len(a) - 1), a[k] = "-", a[k + 1] = "-"
               PROVE  FALSE
    BY DEF Collapsed
  <2>1. CASE k < Len(s)
    BY <2>1, <1>1 DEF Collapsed
  <2>2. CASE k = Len(s)
    BY <2>2, <1>1
  <2> QED BY <2>1, <2>2, <1>1
<1> QED BY <1>1, <1>2

LEMMA InitSound == Init => LabelInv
<1> SUFFICES ASSUME Init PROVE LabelInv
  OBVIOUS
<1>1. \A s \in Names : Len(s) \in Nat /\ s \in Seq(Characters)
  BY LabelAssumption DEF Names
<1>2. b = <<>> /\ label = <<>> /\ Len(b) = 0 /\ prevDash = FALSE /\ owner \in Names /\ i = 1
  BY DEF Init
<1>3. TypeOK
  <2>1. <<>> \in Seq(Kept \cup {"-"}) /\ <<>> \in Seq(Characters)
    OBVIOUS
  <2>2. i \in 1..(Len(owner) + 1)
    BY <1>1, <1>2
  <2> QED BY <1>2, <2>1, <2>2, Zenon DEF TypeOK
<1>4. Collapsed(b)
  BY <1>2 DEF Collapsed
<1>6. /\ \A c \in Kept : Front(Read, c) <=> Front(b, c)
      /\ NoneKept(Read) <=> NoneKept(b)
  <2>1. Len(Read) = 0
    BY <1>1, <1>2 DEF Read
  <2> QED BY <1>2, <2>1 DEF Front, NoneKept
<1>5. prevDash = (b # <<>> /\ b[Len(b)] = "-")
  BY <1>2, Zenon
<1> QED BY <1>2, <1>3, <1>4, <1>5, <1>6, Zenon DEF LabelInv, LoopInv, WrongOnlyInFront, DashesCollapsed

LEMMA StepSound ==
  ASSUME LabelInv, [Next]_vars
  PROVE  LabelInv'
<1>1. Len(owner) \in Nat /\ owner \in Seq(Characters) /\ b \in Seq(Bytes)
  BY LabelAssumption DEF LabelInv, LoopInv, TypeOK, Names, Bytes
<1>6. ASSUME UNCHANGED <<owner, i, b, prevDash>>
      PROVE  /\ Read' = Read /\ NoneKept(Read)' = NoneKept(Read) /\ NoneKept(b)' = NoneKept(b)
             /\ \A c \in Kept : Front(Read, c)' = Front(Read, c) /\ Front(b, c)' = Front(b, c)
             /\ Collapsed(b)' = Collapsed(b)
  BY <1>6 DEF Read, Front, NoneKept, Collapsed
<1>2. CASE KeepName
  <2>1. label' = owner /\ UNCHANGED <<owner, i, b, prevDash>> /\ IsValidLabelValue(owner)
    BY <1>2 DEF KeepName
  <2>2. LoopInv'
    <3>1. TypeOK'
      BY <2>1, <1>1 DEF LabelInv, LoopInv, TypeOK
    <3> QED BY <2>1, <3>1, <1>6, Zenon DEF LabelInv, LoopInv
  <2>3. WrongOnlyInFront'
    <3>1. [owner EXCEPT ![1] = "alnum"] = owner /\ owner[1] = "alnum" /\ 1 \in 1..Len(owner)
      BY <2>1, <1>1 DEF IsValidLabelValue
    <3>2. ~Front(owner, "_") /\ ~Front(owner, ".")
      <4>1. \A f \in 1..Len(owner) : f = 1 \/ 1 \in 1..(f - 1)
        BY <1>1
      <4> QED BY <3>1, <4>1 DEF Front, Kept
    <3> QED BY <2>1, <3>1, <3>2, Zenon DEF WrongOnlyInFront
  <2> QED BY <2>1, <2>2, <2>3 DEF LabelInv, DashesCollapsed
<1>3. CASE ReadByte
  <2>1. label = <<>> /\ UNCHANGED <<owner, label>> /\ i' = i + 1 /\ i' \in 1..(Len(owner) + 1)
    BY <1>3, <1>1 DEF ReadByte, LabelInv, LoopInv, TypeOK
  <2>2. b' \in Seq(Bytes) /\ Collapsed(b') /\ prevDash' \in BOOLEAN
        /\ prevDash' = (b' # <<>> /\ b'[Len(b')] = "-")
    <3>1. CASE owner[i] \in Kept
      <4>1. b' = Append(b, owner[i]) /\ prevDash' = FALSE /\ owner[i] \in Bytes /\ owner[i] # "-"
        BY <1>3, <3>1 DEF ReadByte, AppendKept, Bytes, Kept
      <4> HIDE DEF Bytes
      <4> QED BY <4>1, <1>1, AppendCollapsed DEF LabelInv, LoopInv
    <3>2. CASE owner[i] \notin Kept /\ prevDash
      BY <1>1, <1>3, <3>2 DEF ReadByte, AppendDash, LabelInv, LoopInv, TypeOK
    <3>3. CASE owner[i] \notin Kept /\ ~prevDash
      <4>1. b' = Append(b, "-") /\ prevDash' = TRUE /\ "-" \in Bytes
        BY <1>3, <3>3 DEF ReadByte, AppendDash, Bytes
      <4> QED BY <4>1, <3>3, <1>1, AppendCollapsed DEF LabelInv, LoopInv
    <3> QED BY <3>1, <3>2, <3>3 DEF LabelInv, LoopInv, TypeOK
  <2>3. Read' = Append(Read, owner[i]) /\ Read \in Seq(Characters) /\ owner[i] \in Characters
    <3>1. i \in 1..Len(owner)
      BY <1>3, <1>1 DEF ReadByte, LabelInv, LoopInv, TypeOK
    <3> QED BY <2>1, <3>1, <1>1 DEF Read
  <2>4. /\ \A c \in Kept : Front(Read', c) <=> Front(b', c)
        /\ NoneKept(Read') <=> NoneKept(b')
    <3>1. /\ \A c \in Kept : Front(Read, c) <=> Front(b, c)
          /\ NoneKept(Read) <=> NoneKept(b)
      BY DEF LabelInv, LoopInv
    <3>2. /\ \A c \in Kept : Front(Read', c) <=> Front(Read, c) \/ (owner[i] = c /\ NoneKept(Read))
          /\ NoneKept(Read') <=> NoneKept(Read) /\ owner[i] \notin Kept
      <4> HIDE DEF Characters
      <4> QED BY <2>3, FrontOfAppend
    <3>3. CASE owner[i] \in Kept
      <4>1. b' = Append(b, owner[i]) /\ owner[i] \in Bytes
        BY <1>3, <3>3 DEF ReadByte, AppendKept, Bytes
      <4>2. /\ \A c \in Kept : Front(b', c) <=> Front(b, c) \/ (owner[i] = c /\ NoneKept(b))
            /\ NoneKept(b') <=> NoneKept(b) /\ owner[i] \notin Kept
        <5> HIDE DEF Bytes
        <5> QED BY <4>1, <1>1, FrontOfAppend
      <4> QED BY <3>1, <3>2, <4>2
    <3>4. CASE owner[i] \notin Kept /\ prevDash
      <4>1. b' = b
        BY <1>3, <3>4 DEF ReadByte, AppendDash
      <4> QED BY <3>1, <3>2, <3>4, <4>1
    <3>5. CASE owner[i] \notin Kept /\ ~prevDash
      <4>1. b' = Append(b, "-") /\ "-" \in Bytes /\ "-" \notin Kept
        BY <1>3, <3>5 DEF ReadByte, AppendDash, Bytes, Kept
      <4>2. /\ \A c \in Kept : Front(b', c) <=> Front(b, c) \/ ("-" = c /\ NoneKept(b))
            /\ NoneKept(b') <=> NoneKept(b) /\ "-" \notin Kept
        <5> HIDE DEF Bytes
        <5> QED BY <4>1, <1>1, FrontOfAppend
      <4> QED BY <3>1, <3>2, <3>5, <4>1, <4>2
    <3> QED BY <3>3, <3>4, <3>5
  <2>5. LoopInv'
    <3>1. TypeOK'
      BY <2>1, <2>2 DEF LabelInv, LoopInv, TypeOK, Bytes
    <3> QED BY <2>2, <2>4, <3>1, Zenon DEF LoopInv, Front, NoneKept, Collapsed
  <2> QED BY <2>1, <2>5 DEF LabelInv, WrongOnlyInFront, DashesCollapsed
<1>4. CASE Finish
  <2>1. label' = Core(b) \o Suffix /\ UNCHANGED <<owner, i, b, prevDash>>
    BY <1>4 DEF Finish
  <2>2. /\ label' \in Seq(Bytes) /\ label' # <<>> /\ label'[1] = Core(b)[1] /\ label'[1] \in Kept
        /\ IsValidLabelValue([label' EXCEPT ![1] = "alnum"]) /\ Collapsed(label')
    BY <2>1, <1>1, LabelSound DEF LabelInv, LoopInv
  <2>3. LoopInv'
    <3>1. label' \in Seq(Characters)
      BY <2>2 DEF Bytes, Characters
    <3>2. TypeOK'
      BY <2>1, <3>1 DEF LabelInv, LoopInv, TypeOK
    <3> QED BY <2>1, <3>2, <1>6, Zenon DEF LabelInv, LoopInv
  <2>4. Read = owner
    BY <1>4, <1>1 DEF Finish, Read, LabelInv, LoopInv, TypeOK
  <2>5. label'[1] # "alnum" <=> Front(owner, "_") \/ Front(owner, ".")
    <3>1. \A c \in Kept : Front(owner, c) => label'[1] = c
      BY <2>2, <2>4, <1>1, CoreFront DEF LabelInv, LoopInv
    <3>2. NoneKept(owner) => label'[1] = "alnum"
      BY <2>2, <2>4, <1>1, CoreFront DEF LabelInv, LoopInv
    <3>3. NoneKept(owner) \/ \E c \in Kept : Front(owner, c)
      BY <1>1, KeptHasFront
    <3> QED BY <3>1, <3>2, <3>3 DEF Kept
  <2>6. WrongOnlyInFront'
    BY <2>1, <2>2, <2>5, Zenon DEF WrongOnlyInFront, Front, IsValidLabelValue
  <2>7. DashesCollapsed'
    BY <2>2 DEF DashesCollapsed, Collapsed
  <2> QED BY <2>3, <2>6, <2>7 DEF LabelInv
<1>5. CASE UNCHANGED vars
  <2>1. TypeOK'
    BY <1>5 DEF vars, LabelInv, LoopInv, TypeOK
  <2>2. LoopInv'
    BY <1>5, <2>1, <1>6, Zenon DEF vars, LabelInv, LoopInv
  <2>3. WrongOnlyInFront' /\ DashesCollapsed'
    BY <1>5 DEF vars, LabelInv, WrongOnlyInFront, DashesCollapsed, Front, IsValidLabelValue
  <2> QED BY <2>2, <2>3 DEF LabelInv
<1> QED BY <1>2, <1>3, <1>4, <1>5 DEF Next

LEMMA AlwaysSound == Spec => []LabelInv
  BY InitSound, StepSound, PTL DEF Spec

\* Whatever the name and however long, its label is within the limit, made of label
\* characters and right at its end; only a dot or an underscore may stand in front
\* (persistent.go ownerLabelValue).
THEOREM LabelsAreNearlyValid == Spec => []WrongOnlyInFront
  BY AlwaysSound, PTL DEF LabelInv

\* No sanitized label has two dashes side by side, at the seam to the hash or where a
\* long name is cut either (persistent.go ownerLabelValue: prevDash and the trims).
THEOREM LabelsAreCollapsed == Spec => []DashesCollapsed
  BY AlwaysSound, PTL DEF LabelInv
=============================================================================
