------------------------ MODULE PracticeBoard_proofs ------------------------
(***************************************************************************)
(* Proofs about PracticeBoard, for any boards, limits, bounds and lookups: *)
(* types; that a page of the schedule has periods and every period a page; *)
(* that what is sent without touching the period leaves it alone; and that *)
(* a page without unsaved changes shows what the display has.              *)
(*                                                                         *)
(*   PracticeData   boards are Sound: in the order in which they are sent, *)
(*                  one of their periods active, and a start that goes     *)
(*                  with their clock; plans have room for their periods.   *)
(*   FreshInv       what is under way and fresh was built from a board     *)
(*                  that says the same of the period as the display.       *)
(*   CleanInv       one command is under way and carries what the page     *)
(*                  shows, unless the page has been misled.                *)
(***************************************************************************)
EXTENDS PracticeBoard, NumberFacts, SequenceTheorems, TLAPS

-----------------------------------------------------------------------------
(* The periods of a unit.                                                  *)

LEMMA UnitPrefixesStep ==
  ASSUME NEW S, NEW s \in Seq(S), NEW u
  PROVE  /\ UnitPrefixes(s, u) \in [0..Len(s) -> Seq(S)]
         /\ UnitPrefixes(s, u)[0] = <<>>
         /\ \A n \in 0..Len(s) - 1 : UnitPrefixes(s, u)[n + 1] =
              IF s[n + 1].unit = u THEN Append(UnitPrefixes(s, u)[n], s[n + 1]) ELSE UnitPrefixes(s, u)[n]
<1>0. Len(s) \in Nat /\ \A i \in 1..Len(s) : s[i] \in S
  BY ElementOfSeq, LenProperties
<1> DEFINE l == Len(s)
           next(g, n) == IF s[n + 1].unit = u THEN Append(g[n], s[n + 1]) ELSE g[n]
           Built(n, g) == /\ g \in [0..n -> Seq(S)] /\ g[0] = <<>>
                             /\ \A k \in 0..n - 1 : g[k + 1] = next(g, k)
           Has(n) == \E g : Built(n, g)
           Missing == {n \in 0..l : ~Has(n)}
<1>00. l \in Nat /\ \A i \in 1..l : s[i] \in S
  BY <1>0
<1> HIDE DEF l
<1>1. Missing = {}
  <2> SUFFICES ASSUME Missing # {} PROVE FALSE
    OBVIOUS
  <2>1. Missing \in SUBSET Nat
    BY <1>00
  <2>2. PICK n \in Missing : \A m \in Missing : n <= m
    BY <2>1, LeastNumber
  <2>3. n \in Nat /\ n <= l
    BY <1>00, <2>2
  <2>4. Has(0)
    <3>1. [k \in 0..0 |-> <<>>] \in [0..0 -> Seq(S)] /\ [k \in 0..0 |-> <<>>][0] = <<>>
      BY EmptySeq
    <3>2. 0..0 - 1 = {}
      OBVIOUS
    <3>3. Built(0, [k \in 0..0 |-> <<>>])
      BY <3>1, <3>2
    <3>4. QED
      BY <3>3
  <2> HIDE DEF Has
  <2>5. n >= 1
    BY <2>2, <2>3, <2>4
  <2>6. n - 1 \in 0..l /\ n - 1 \notin Missing
    BY <1>00, <2>2, <2>3, <2>5
  <2>7. PICK g : Built(n - 1, g)
    BY <2>6 DEF Has
  <2>8. PICK e : e = next(g, n - 1)
    OBVIOUS
  <2>9. e \in Seq(S)
    <3>1. g[n - 1] \in Seq(S)
      BY <2>3, <2>5, <2>7
    <3>2. (n - 1) + 1 = n /\ s[n] \in S
      BY <1>00, <2>3, <2>5
    <3>3. Append(g[n - 1], s[n]) \in Seq(S)
      BY <3>1, <3>2, AppendProperties
    <3>4. QED
      BY <2>8, <3>1, <3>2, <3>3
  <2> DEFINE h == [k \in 0..n |-> IF k = n THEN e ELSE g[k]]
  <2>10. h \in [0..n -> Seq(S)] /\ h[0] = <<>>
    BY <2>3, <2>5, <2>7, <2>9
  <2>11. ASSUME NEW k \in 0..n - 1 PROVE h[k + 1] = next(h, k)
    <3>1. h[k] = g[k]
      BY <2>3, <2>5
    <3>2. CASE k = n - 1
      <4>1. h[k + 1] = e
        BY <2>3, <2>5, <3>2
      <4>2. QED
        BY <2>8, <3>1, <3>2, <4>1
    <3>3. CASE k # n - 1
      <4>1. k \in 0..(n - 1) - 1
        BY <2>3, <2>5, <3>3
      <4>2. h[k + 1] = g[k + 1]
        BY <2>3, <2>5, <4>1
      <4>3. g[k + 1] = next(g, k)
        BY <2>7, <4>1
      <4>4. QED
        BY <3>1, <4>2, <4>3
    <3>4. QED
      BY <3>2, <3>3
  <2>12. Built(n, h)
    BY <2>10, <2>11
  <2>13. Has(n)
    BY <2>12 DEF Has
  <2>14. n \notin Missing
    BY <2>13
  <2>15. QED
    BY <2>2, <2>14
<1> HIDE DEF Has
<1>2. Has(l)
  BY <1>00, <1>1
<1>3. PICK g : Built(l, g)
  BY <1>2 DEF Has
<1> DEFINE step(g0, n) == IF n = 0 THEN <<>> ELSE IF s[n].unit = u THEN Append(g0[n - 1], s[n]) ELSE g0[n - 1]
<1>4. g = [n \in 0..l |-> step(g, n)]
  <2>1. ASSUME NEW n \in 0..l PROVE g[n] = step(g, n)
    <3>1. CASE n = 0
      BY <1>3, <3>1
    <3>2. CASE n # 0
      <4>1. PICK k \in 0..l - 1 : k + 1 = n /\ k = n - 1
        BY <1>00, <3>2
      <4>2. g[k + 1] = next(g, k)
        BY <1>3
      <4>3. QED
        BY <3>2, <4>1, <4>2
    <3>3. QED
      BY <3>1, <3>2
  <2>2. QED
    BY <1>3, <2>1
<1>5. UnitPrefixes(s, u) = [n \in 0..l |-> step(UnitPrefixes(s, u), n)]
  BY <1>4 DEF UnitPrefixes, l
<1> DEFINE f == UnitPrefixes(s, u)
<1>6. f = [n \in 0..l |-> step(f, n)]
  BY <1>5
<1> HIDE DEF f
<1>7. f[0] = <<>>
  <2>1. 0 \in 0..l
    BY <1>00
  <2>2. QED
    BY <1>6, <2>1
<1>8. ASSUME NEW n \in 0..l - 1 PROVE f[n + 1] = next(f, n)
  <2>1. n + 1 \in 0..l /\ n + 1 # 0 /\ (n + 1) - 1 = n
    BY <1>00
  <2>2. f[n + 1] = step(f, n + 1)
    BY <1>6, <2>1
  <2>3. QED
    BY <2>1, <2>2
<1>9. DOMAIN f = 0..l
  BY <1>6
<1> HIDE DEF next, step
<1> DEFINE Wrong == {n \in 0..l : f[n] \notin Seq(S)}
<1>10. Wrong = {}
  <2> SUFFICES ASSUME Wrong # {} PROVE FALSE
    OBVIOUS
  <2>1. Wrong \in SUBSET Nat
    BY <1>00
  <2>2. PICK n \in Wrong : \A m \in Wrong : n <= m
    BY <2>1, LeastNumber
  <2>3. n \in Nat /\ n <= l
    BY <1>00, <2>2
  <2>4. n # 0
    <3>1. f[0] \in Seq(S)
      BY <1>7, EmptySeq
    <3>2. QED
      BY <2>2, <3>1
  <2>5. PICK k \in 0..l - 1 : k + 1 = n
    BY <1>00, <2>3, <2>4
  <2>6. k \notin Wrong /\ k \in 0..l
    BY <1>00, <2>2, <2>3, <2>5
  <2>7. f[k] \in Seq(S) /\ s[k + 1] \in S
    BY <1>00, <2>6, <2>5, <2>3
  <2>8. Append(f[k], s[k + 1]) \in Seq(S)
    BY <2>7, AppendProperties
  <2>9. f[n] \in Seq(S)
    BY <1>8, <2>5, <2>7, <2>8 DEF next
  <2>10. QED
    BY <2>2, <2>9
<1>11. f \in [0..l -> Seq(S)]
  BY <1>6, <1>9, <1>10
<1>12. QED
  BY <1>7, <1>8, <1>11 DEF f, l, next

\* t begins with s.
Continues(s, t) == Len(s) <= Len(t) /\ \A k \in 1..Len(s) : t[k] = s[k]

\* A prefix of a unit only grows.
LEMMA UnitPrefixesGrow ==
  ASSUME NEW S, NEW s \in Seq(S), NEW u
  PROVE  \A i \in 0..Len(s) : \A j \in i..Len(s) :
           Continues(UnitPrefixes(s, u)[i], UnitPrefixes(s, u)[j])
<1>0. SUFFICES ASSUME NEW i \in 0..Len(s), NEW j \in i..Len(s)
               PROVE  Continues(UnitPrefixes(s, u)[i], UnitPrefixes(s, u)[j])
  OBVIOUS
<1> DEFINE l == Len(s)
           f == UnitPrefixes(s, u)
<1>1. /\ f \in [0..l -> Seq(S)]
      /\ \A n \in 0..l - 1 : f[n + 1] = IF s[n + 1].unit = u THEN Append(f[n], s[n + 1]) ELSE f[n]
  BY UnitPrefixesStep
<1>2. l \in Nat /\ (\A n \in 1..l : s[n] \in S) /\ i \in 0..l /\ j \in i..l
  BY ElementOfSeq, LenProperties
<1> HIDE DEF l, f
<1>3. \A n \in 0..l : f[n] \in Seq(S) /\ Len(f[n]) \in Nat
  BY <1>1, LenProperties
<1> DEFINE Grown(n) == Len(f[i]) <= Len(f[n]) /\ \A k \in 1..Len(f[i]) : f[n][k] = f[i][k]
           Wrong == {n \in i..l : ~Grown(n)}
<1>4. Wrong = {}
  <2> SUFFICES ASSUME Wrong # {} PROVE FALSE
    OBVIOUS
  <2>1. Wrong \in SUBSET Nat
    BY <1>2
  <2>2. PICK n \in Wrong : \A m \in Wrong : n <= m
    BY <2>1, LeastNumber
  <2>3. n \in Nat /\ n <= l /\ i <= n
    BY <1>2, <2>2
  <2>4. Grown(i)
    BY <1>2, <1>3
  <2> HIDE DEF Grown
  <2>5. n # i
    BY <2>2, <2>4
  <2>6. PICK m \in i..l : m + 1 = n
    BY <1>2, <2>3, <2>5
  <2>7. m \notin Wrong /\ m \in 0..l /\ m \in 0..l - 1
    BY <1>2, <2>2, <2>3, <2>6
  <2>8. Grown(m)
    BY <2>6, <2>7
  <2>9. f[n] = f[m] \/ f[n] = Append(f[m], s[n])
    BY <1>1, <2>6, <2>7
  <2>10. f[m] \in Seq(S) /\ s[n] \in S /\ Len(f[m]) \in Nat /\ Len(f[i]) \in Nat
    BY <1>2, <1>3, <2>3, <2>6, <2>7
  <2>11. CASE f[n] = f[m]
    <3>1. Grown(n)
      BY <2>8, <2>11 DEF Grown
    <3>2. QED
      BY <2>2, <3>1
  <2>12. CASE f[n] = Append(f[m], s[n])
    <3>1. /\ Len(f[n]) = Len(f[m]) + 1
          /\ \A k \in 1..Len(f[m]) : f[n][k] = f[m][k]
      BY <2>10, <2>12, AppendProperties
    <3>2. Len(f[i]) <= Len(f[m]) /\ \A k \in 1..Len(f[i]) : f[m][k] = f[i][k]
      BY <2>8 DEF Grown
    <3>3. Len(f[i]) <= Len(f[n])
      BY <2>10, <3>1, <3>2
    <3>4. ASSUME NEW k \in 1..Len(f[i]) PROVE f[n][k] = f[i][k]
      <4>1. k \in 1..Len(f[m])
        BY <2>10, <3>2
      <4>2. QED
        BY <3>1, <3>2, <4>1
    <3>5. Grown(n)
      BY <3>3, <3>4 DEF Grown
    <3>6. QED
      BY <2>2, <3>5
  <2>13. QED
    BY <2>9, <2>11, <2>12
<1>5. j \in i..l /\ j \notin Wrong
  BY <1>2, <1>4
<1>6. Grown(j)
  BY <1>5
<1>7. QED
  BY <1>6 DEF f, Continues

LEMMA OfUnitMembers ==
  ASSUME NEW S, NEW s \in Seq(S), NEW u
  PROVE  /\ OfUnit(s, u) \in Seq(S)
         /\ \A k \in 1..Len(OfUnit(s, u)) :
              OfUnit(s, u)[k].unit = u /\ \E i \in 1..Len(s) : OfUnit(s, u)[k] = s[i]
         /\ \A i \in 1..Len(s) : s[i].unit = u =>
              /\ Len(UnitPrefixes(s, u)[i]) \in 1..Len(OfUnit(s, u))
              /\ OfUnit(s, u)[Len(UnitPrefixes(s, u)[i])] = s[i]
<1>0. \A i \in 0..Len(s) : \A j \in i..Len(s) :
        Continues(UnitPrefixes(s, u)[i], UnitPrefixes(s, u)[j])
  BY UnitPrefixesGrow
<1> DEFINE l == Len(s)
           f == UnitPrefixes(s, u)
<1>1. /\ f \in [0..l -> Seq(S)] /\ f[0] = <<>>
      /\ \A n \in 0..l - 1 : f[n + 1] = IF s[n + 1].unit = u THEN Append(f[n], s[n + 1]) ELSE f[n]
  BY UnitPrefixesStep
<1>2. l \in Nat /\ (\A n \in 1..l : s[n] \in S)
  <2>1. l \in Nat
    BY LenProperties
  <2>2. \A n \in 1..l : s[n] \in S
    BY ElementOfSeq
  <2>3. QED
    BY <2>1, <2>2
<1>3. \A i \in 0..l : \A j \in i..l : Continues(f[i], f[j])
  BY <1>0 DEF l, f
<1>4. OfUnit(s, u) = f[l]
  BY DEF OfUnit
<1> HIDE DEF l, f
<1>5. \A n \in 0..l : f[n] \in Seq(S) /\ Len(f[n]) \in Nat
  BY <1>1, LenProperties
<1> DEFINE Members(n) == \A k \in 1..Len(f[n]) : f[n][k].unit = u /\ \E i \in 1..n : f[n][k] = s[i]
           Wrong == {n \in 0..l : ~Members(n)}
<1>6. Wrong = {}
  <2> SUFFICES ASSUME Wrong # {} PROVE FALSE
    OBVIOUS
  <2>1. Wrong \in SUBSET Nat
    BY <1>2
  <2>2. PICK n \in Wrong : \A m \in Wrong : n <= m
    BY <2>1, LeastNumber
  <2>3. n \in Nat /\ n <= l
    BY <1>2, <2>2
  <2>4. Members(0)
    <3>1. Len(f[0]) = 0
      BY <1>1, EmptySeq
    <3>2. QED
      BY <3>1
  <2> HIDE DEF Members
  <2>5. n # 0
    BY <2>2, <2>4
  <2>6. PICK m \in 0..l - 1 : m + 1 = n
    BY <1>2, <2>3, <2>5
  <2>7. m \notin Wrong /\ m \in 0..l
    BY <1>2, <2>2, <2>3, <2>6
  <2>8. Members(m)
    BY <2>6, <2>7
  <2>9. f[m] \in Seq(S) /\ s[n] \in S /\ Len(f[m]) \in Nat
    BY <1>2, <1>5, <2>3, <2>6, <2>7
  <2>10. CASE s[n].unit # u
    <3>1. f[n] = f[m]
      BY <1>1, <2>6, <2>10
    <3>2. Members(n)
      BY <2>3, <2>6, <2>8, <3>1 DEF Members
    <3>3. QED
      BY <2>2, <3>2
  <2>11. CASE s[n].unit = u
    <3>1. f[n] = Append(f[m], s[n])
      BY <1>1, <2>6, <2>11
    <3>2. /\ Len(f[n]) = Len(f[m]) + 1
          /\ \A k \in 1..Len(f[m]) : f[n][k] = f[m][k]
          /\ f[n][Len(f[m]) + 1] = s[n]
      BY <2>9, <3>1, AppendProperties
    <3>3. ASSUME NEW k \in 1..Len(f[n]) PROVE f[n][k].unit = u /\ \E i \in 1..n : f[n][k] = s[i]
      <4>1. CASE k \in 1..Len(f[m])
        <5>1. f[m][k].unit = u /\ \E i \in 1..m : f[m][k] = s[i]
          BY <2>8, <4>1 DEF Members
        <5>2. PICK i \in 1..m : f[m][k] = s[i]
          BY <5>1
        <5>3. i \in 1..n
          BY <2>3, <2>6
        <5>4. QED
          BY <3>2, <4>1, <5>1, <5>2, <5>3
      <4>2. CASE k = Len(f[m]) + 1
        <5>1. f[n][k] = s[n] /\ n \in 1..n
          BY <2>3, <2>5, <3>2, <4>2
        <5>2. QED
          BY <2>11, <5>1
      <4>3. k \in 1..Len(f[m]) \/ k = Len(f[m]) + 1
        BY <2>9, <3>2
      <4>4. QED
        BY <4>1, <4>2, <4>3
    <3>4. Members(n)
      BY <3>3 DEF Members
    <3>5. QED
      BY <2>2, <3>4
  <2>12. QED
    BY <2>10, <2>11
<1>7. Members(l)
  <2>1. l \in 0..l /\ l \notin Wrong
    BY <1>2, <1>6
  <2> HIDE DEF Members
  <2>2. QED
    BY <2>1
<1>8. ASSUME NEW i \in 1..l, s[i].unit = u
      PROVE  Len(f[i]) \in 1..Len(f[l]) /\ f[l][Len(f[i])] = s[i]
  <2>1. PICK m \in 0..l - 1 : m + 1 = i
    BY <1>2
  <2>2. f[i] = Append(f[m], s[i])
    BY <1>1, <1>8, <2>1
  <2>3. f[m] \in Seq(S) /\ Len(f[m]) \in Nat /\ s[i] \in S /\ i \in 0..l /\ l \in i..l
    BY <1>2, <1>5, <2>1
  <2>4. Len(f[i]) = Len(f[m]) + 1 /\ f[i][Len(f[m]) + 1] = s[i]
    BY <2>2, <2>3, AppendProperties
  <2>5. Len(f[i]) <= Len(f[l]) /\ \A k \in 1..Len(f[i]) : f[l][k] = f[i][k]
    BY <1>3, <2>3 DEF Continues
  <2>6. Len(f[l]) \in Nat
    BY <1>2, <1>5
  <2>7. Len(f[i]) \in 1..Len(f[i]) /\ Len(f[i]) \in 1..Len(f[l])
    BY <2>3, <2>4, <2>5, <2>6
  <2>8. QED
    BY <2>4, <2>5, <2>7
<1>9. f[l] \in Seq(S)
  BY <1>2, <1>5
<1>10. QED
  BY <1>4, <1>7, <1>8, <1>9 DEF l, f

\* The periods after p up to q are all of unit u, or none of them is.
AllOf(s, u, p, q) == \A i \in p + 1..q : s[i].unit = u
NoneOf(s, u, p, q) == \A i \in p + 1..q : s[i].unit # u

\* Periods of another unit are left out,
LEMMA UnitPrefixesSkip ==
  ASSUME NEW S, NEW s \in Seq(S), NEW u, NEW p \in 0..Len(s), NEW q \in p..Len(s),
         NoneOf(s, u, p, q)
  PROVE  UnitPrefixes(s, u)[q] = UnitPrefixes(s, u)[p]
<1> DEFINE l == Len(s)
           f == UnitPrefixes(s, u)
<1>1. /\ \A n \in 0..l - 1 : f[n + 1] = IF s[n + 1].unit = u THEN Append(f[n], s[n + 1]) ELSE f[n]
  BY UnitPrefixesStep
<1>2. l \in Nat /\ p \in Nat /\ q \in Nat /\ p <= q /\ q <= l
  BY LenProperties
<1> HIDE DEF l, f
<1> DEFINE Wrong == {n \in p..q : f[n] # f[p]}
<1>3. Wrong = {}
  <2> SUFFICES ASSUME Wrong # {} PROVE FALSE
    OBVIOUS
  <2>1. Wrong \in SUBSET Nat
    BY <1>2
  <2>2. PICK n \in Wrong : \A m \in Wrong : n <= m
    BY <2>1, LeastNumber
  <2>3. n \in Nat /\ n <= q /\ p <= n /\ n # p
    BY <1>2, <2>2
  <2>4. PICK m \in p..q : m + 1 = n
    BY <1>2, <2>3
  <2>5. m \notin Wrong /\ m \in 0..l - 1 /\ n \in p + 1..q
    BY <1>2, <2>2, <2>3, <2>4
  <2>6. f[n] = f[m]
    BY <1>1, <2>4, <2>5 DEF NoneOf
  <2>7. f[m] = f[p]
    BY <2>4, <2>5
  <2>8. QED
    BY <2>2, <2>6, <2>7
<1>4. QED
  BY <1>2, <1>3 DEF f

\* and those of the unit taken as they come.
LEMMA UnitPrefixesTake ==
  ASSUME NEW S, NEW s \in Seq(S), NEW u, NEW p \in 0..Len(s), NEW q \in p..Len(s),
         NEW first \in Nat, first = p + 1, UnitPrefixes(s, u)[p] = <<>>, AllOf(s, u, p, q)
  PROVE  UnitPrefixes(s, u)[q] = SubSeq(s, first, q)
<1> DEFINE l == Len(s)
           f == UnitPrefixes(s, u)
<1>1. /\ f \in [0..l -> Seq(S)]
      /\ \A n \in 0..l - 1 : f[n + 1] = IF s[n + 1].unit = u THEN Append(f[n], s[n + 1]) ELSE f[n]
  BY UnitPrefixesStep
<1>2. l \in Nat /\ p \in Nat /\ q \in Nat /\ p <= q /\ q <= l
  BY LenProperties
<1>3. (\A n \in 1..l : s[n] \in S) /\ l = Len(s)
  BY ElementOfSeq
<1>4. f[p] = <<>>
  OBVIOUS
<1> HIDE DEF l, f
<1> DEFINE Taken(n) == f[n] = SubSeq(s, p + 1, n)
           Wrong == {n \in p..q : ~Taken(n)}
<1> HIDE DEF Taken
<1>5. Wrong = {}
  <2> SUFFICES ASSUME Wrong # {} PROVE FALSE
    OBVIOUS
  <2>1. Wrong \in SUBSET Nat
    BY <1>2
  <2>2. PICK n \in Wrong : \A m \in Wrong : n <= m
    BY <2>1, LeastNumber
  <2>3. n \in Nat /\ n <= q /\ p <= n
    BY <1>2, <2>2
  <2>4. Taken(p)
    <3>1. SubSeq(s, p + 1, p) = <<>>
      BY <1>2, SubSeqEmpty
    <3>2. QED
      BY <1>4, <3>1 DEF Taken
  <2>5. n # p
    BY <2>2, <2>4
  <2>6. PICK m \in p..q : m + 1 = n /\ m = n - 1
    BY <1>2, <2>3, <2>5
  <2>7. m \notin Wrong /\ m \in 0..l - 1 /\ n \in p + 1..q /\ n \in 1..l
    BY <1>2, <2>2, <2>3, <2>5, <2>6
  <2>8. f[m] = SubSeq(s, p + 1, m)
    BY <2>6, <2>7 DEF Taken
  <2>9. f[n] = Append(f[m], s[n])
    <3>1. s[n].unit = u
      BY <2>7 DEF AllOf
    <3>2. QED
      BY <1>1, <2>6, <2>7, <3>1
  <2>10. f[m] \in Seq(S) /\ s[n] \in S
    BY <1>1, <1>2, <1>3, <2>7
  <2>11. f[n] = f[m] \o <<s[n]>>
    BY <2>9, <2>10, AppendIsConcat
  <2>12. SubSeq(s, p + 1, n) = SubSeq(s, p + 1, m) \o <<s[n]>>
    <3>1. p + 1 \in 1..Len(s) /\ n \in p + 1..Len(s)
      BY <1>2, <1>3, <2>3, <2>5
    <3>2. SubSeq(s, p + 1, n) = SubSeq(s, p + 1, n - 1) \o <<s[n]>>
      BY <3>1, SubSeqRecursiveSecond
    <3>3. QED
      BY <2>6, <3>2
  <2>13. Taken(n)
    BY <2>8, <2>11, <2>12 DEF Taken
  <2>14. QED
    BY <2>2, <2>13
<1>6. Taken(q)
  <2>1. q \in p..q /\ q \notin Wrong
    BY <1>2, <1>5
  <2>2. QED
    BY <2>1
<1>7. QED
  BY <1>6 DEF f, Taken

\* A plan that has its offense first is its own offense and defense.
LEMMA JoinedUnits ==
  ASSUME NEW S, NEW a \in Seq(S), NEW b \in Seq(S),
         \A i \in 1..Len(a) : a[i].unit = "offense", \A i \in 1..Len(b) : b[i].unit = "defense"
  PROVE  OfUnit(a \o b, "offense") = a /\ OfUnit(a \o b, "defense") = b
<1> DEFINE s == a \o b
           l == Len(a)
           n == Len(s)
<1>1. /\ s \in Seq(S) /\ l \in Nat /\ Len(b) \in Nat /\ n = l + Len(b)
      /\ \A i \in 1..l + Len(b) : s[i] = IF i <= l THEN a[i] ELSE b[i - l]
  BY ConcatProperties, LenProperties
<1>2. \A i \in 1..l : s[i].unit = "offense"
  <2>1. ASSUME NEW i \in 1..l PROVE s[i].unit = "offense"
    <3>1. s[i] = a[i]
      BY <1>1
    <3>2. QED
      BY <3>1
  <2>2. QED
    BY <2>1
<1>3. \A i \in l + 1..n : s[i].unit = "defense"
  <2>1. ASSUME NEW i \in l + 1..n PROVE s[i].unit = "defense"
    <3>1. s[i] = b[i - l] /\ i - l \in 1..Len(b)
      BY <1>1
    <3>2. QED
      BY <3>1
  <2>2. QED
    BY <2>1
<1>4. SubSeq(s, 1, l) = a /\ SubSeq(s, l + 1, n) = b
  <2>1. SubSeq(s, 1, l) \in Seq(S) /\ Len(SubSeq(s, 1, l)) = l /\ \A i \in 1..l : SubSeq(s, 1, l)[i] = s[i]
    <3>1. \A i \in 1..l : s[i] \in S
      BY <1>1, ElementOfSeq
    <3>2. /\ SubSeq(s, 1, l) \in Seq(S)
          /\ Len(SubSeq(s, 1, l)) = IF 1 <= l THEN l - 1 + 1 ELSE 0
          /\ \A i \in 1..l - 1 + 1 : SubSeq(s, 1, l)[i] = s[1 + i - 1]
      BY <1>1, <3>1, SubSeqProperties
    <3>3. QED
      BY <1>1, <3>2
  <2>2. SubSeq(s, 1, l) = a
    <3>1. \A i \in 1..l : SubSeq(s, 1, l)[i] = a[i]
      BY <1>1, <2>1
    <3>2. QED
      BY <1>1, <2>1, <3>1, SeqEqual
  <2>3. /\ SubSeq(s, l + 1, n) \in Seq(S) /\ Len(SubSeq(s, l + 1, n)) = Len(b)
        /\ \A i \in 1..Len(b) : SubSeq(s, l + 1, n)[i] = b[i]
    <3>1. \A i \in l + 1..n : s[i] \in S
      BY <1>1, ElementOfSeq
    <3>2. /\ SubSeq(s, l + 1, n) \in Seq(S)
          /\ Len(SubSeq(s, l + 1, n)) = IF l + 1 <= n THEN n - (l + 1) + 1 ELSE 0
          /\ \A i \in 1..n - (l + 1) + 1 : SubSeq(s, l + 1, n)[i] = s[l + 1 + i - 1]
      BY <1>1, <3>1, SubSeqProperties
    <3>3. ASSUME NEW i \in 1..Len(b) PROVE SubSeq(s, l + 1, n)[i] = b[i]
      <4>1. i \in 1..n - (l + 1) + 1 /\ l + 1 + i - 1 = l + i /\ l + i \in 1..l + Len(b) /\ ~(l + i <= l)
            /\ (l + i) - l = i
        BY <1>1
      <4>2. SubSeq(s, l + 1, n)[i] = s[l + i]
        BY <3>2, <4>1
      <4>3. s[l + i] = b[(l + i) - l]
        BY <1>1, <4>1
      <4>4. QED
        BY <4>1, <4>2, <4>3
    <3>4. Len(SubSeq(s, l + 1, n)) = Len(b)
      BY <1>1, <3>2
    <3>5. QED
      BY <3>2, <3>3, <3>4
  <2>4. QED
    BY <1>1, <2>2, <2>3, SeqEqual
<1>5. 0 \in 0..n /\ l \in 0..n /\ n \in l..n /\ l \in 0..l /\ l + 1 \in Nat /\ 1 \in Nat /\ 0 + 1 = 1
  BY <1>1
<1> HIDE DEF s, l
<1>6. OfUnit(s, "offense") = a
  <2>1. PICK z : z = 0
    OBVIOUS
  <2>2. z \in 0..n /\ l \in z..n /\ 1 = z + 1 /\ 1 \in Nat
    BY <1>5, <2>1
  <2>3. UnitPrefixes(s, "offense")[z] = <<>>
    BY <1>1, <2>1, UnitPrefixesStep
  <2>4. AllOf(s, "offense", z, l)
    BY <1>2, <2>1 DEF AllOf
  <2>5. UnitPrefixes(s, "offense")[l] = SubSeq(s, 1, l)
    BY <1>1, <2>2, <2>3, <2>4, UnitPrefixesTake
  <2>6. NoneOf(s, "offense", l, n)
    BY <1>3 DEF NoneOf
  <2>7. UnitPrefixes(s, "offense")[n] = UnitPrefixes(s, "offense")[l]
    BY <1>1, <1>5, <2>6, UnitPrefixesSkip
  <2>8. QED
    BY <1>4, <2>5, <2>7 DEF OfUnit
<1>7. OfUnit(s, "defense") = b
  <2>1. UnitPrefixes(s, "defense")[0] = <<>>
    BY <1>1, UnitPrefixesStep
  <2>2. NoneOf(s, "defense", 0, l)
    BY <1>2 DEF NoneOf
  <2>3. UnitPrefixes(s, "defense")[l] = UnitPrefixes(s, "defense")[0]
    BY <1>1, <1>5, <2>2, UnitPrefixesSkip
  <2>4. AllOf(s, "defense", l, n)
    BY <1>3 DEF AllOf
  <2>5. UnitPrefixes(s, "defense")[l] = <<>>
    BY <2>1, <2>3
  <2>6. UnitPrefixes(s, "defense")[n] = SubSeq(s, l + 1, n)
    BY <1>1, <1>5, <2>4, <2>5, UnitPrefixesTake
  <2>7. QED
    BY <1>4, <2>6 DEF OfUnit
<1>8. QED
  BY <1>6, <1>7 DEF s

-----------------------------------------------------------------------------
(* The order in which a plan is sent.                                      *)

\* The periods of a unit that are sent.
Few(s, u) == SubSeq(OfUnit(s, u), 1, AtMost(MaxDrillsPerUnit, Len(OfUnit(s, u))))

LEMMA SerializedJoins == \A s : Serialized(s) = Few(s, "offense") \o Few(s, "defense")
  BY DEF Serialized, Few

LEMMA FewFacts ==
  ASSUME NEW S, NEW s \in Seq(S), NEW u
  PROVE  /\ Few(s, u) \in Seq(S) /\ Len(Few(s, u)) \in Nat /\ Len(Few(s, u)) <= MaxDrillsPerUnit
         /\ \A k \in 1..Len(Few(s, u)) : Few(s, u)[k].unit = u
         /\ \A k \in 1..Len(Few(s, u)) : \E i \in 1..Len(s) : Few(s, u)[k] = s[i]
         /\ Len(OfUnit(s, u)) <= MaxDrillsPerUnit => Few(s, u) = OfUnit(s, u)
<1> DEFINE o == OfUnit(s, u)
           n == AtMost(MaxDrillsPerUnit, Len(o))
<1>1. /\ o \in Seq(S)
      /\ \A k \in 1..Len(o) : o[k].unit = u /\ \E i \in 1..Len(s) : o[k] = s[i]
  BY OfUnitMembers
<1> HIDE DEF o
<1>2. Len(o) \in Nat /\ \A k \in 1..Len(o) : o[k] \in S
  BY <1>1, LenProperties, ElementOfSeq
<1>3. n \in Nat /\ n <= Len(o) /\ n <= MaxDrillsPerUnit /\ (Len(o) <= MaxDrillsPerUnit => n = Len(o))
  BY <1>2, PracticeAssumption DEF AtMost
<1> HIDE DEF n
<1>4. \A k \in 1..n : o[k] \in S
  BY <1>2, <1>3
<1>5. /\ SubSeq(o, 1, n) \in Seq(S)
      /\ Len(SubSeq(o, 1, n)) = IF 1 <= n THEN n - 1 + 1 ELSE 0
      /\ \A k \in 1..n - 1 + 1 : SubSeq(o, 1, n)[k] = o[1 + k - 1]
  BY <1>3, <1>4, SubSeqProperties
<1>6. Few(s, u) = SubSeq(o, 1, n)
  BY DEF Few, o, n
<1>7. Len(Few(s, u)) = n /\ \A k \in 1..n : Few(s, u)[k] = o[k]
  BY <1>3, <1>5, <1>6
<1>8. Len(o) <= MaxDrillsPerUnit => Few(s, u) = o
  BY <1>1, <1>3, <1>6, SubSeqFull
<1>9. \A k \in 1..n : Few(s, u)[k].unit = u
  <2>1. ASSUME NEW k \in 1..n PROVE Few(s, u)[k].unit = u
    <3>1. k \in 1..Len(o) /\ Few(s, u)[k] = o[k]
      BY <1>2, <1>3, <1>7
    <3>2. QED
      BY <1>1, <3>1
  <2>2. QED
    BY <2>1
<1>10. \A k \in 1..n : \E i \in 1..Len(s) : Few(s, u)[k] = s[i]
  <2>1. ASSUME NEW k \in 1..n PROVE \E i \in 1..Len(s) : Few(s, u)[k] = s[i]
    <3>1. k \in 1..Len(o) /\ Few(s, u)[k] = o[k]
      BY <1>2, <1>3, <1>7
    <3>2. QED
      BY <1>1, <3>1
  <2>2. QED
    BY <2>1
<1>11. Few(s, u) \in Seq(S)
  BY <1>5, <1>6
<1>12. QED
  BY <1>3, <1>7, <1>8, <1>9, <1>10, <1>11 DEF o

LEMMA SerializedFacts ==
  ASSUME NEW S, NEW s \in Seq(S)
  PROVE  /\ Serialized(s) \in Seq(S)
         /\ Serialized(Serialized(s)) = Serialized(s)
         /\ \A u \in Units : Len(OfUnit(Serialized(s), u)) <= MaxDrillsPerUnit
         /\ IdsOf(Serialized(s)) \subseteq IdsOf(s)
<1> DEFINE a == Few(s, "offense")
           b == Few(s, "defense")
           t == Serialized(s)
<1>1. /\ a \in Seq(S) /\ Len(a) \in Nat /\ Len(a) <= MaxDrillsPerUnit
      /\ \A k \in 1..Len(a) : a[k].unit = "offense"
      /\ \A k \in 1..Len(a) : \E i \in 1..Len(s) : a[k] = s[i]
  BY FewFacts
<1>2. /\ b \in Seq(S) /\ Len(b) \in Nat /\ Len(b) <= MaxDrillsPerUnit
      /\ \A k \in 1..Len(b) : b[k].unit = "defense"
      /\ \A k \in 1..Len(b) : \E i \in 1..Len(s) : b[k] = s[i]
  BY FewFacts
<1>3. t = a \o b
  BY SerializedJoins
<1> HIDE DEF a, b, t
<1>4. t \in Seq(S) /\ Len(t) = Len(a) + Len(b)
      /\ \A i \in 1..Len(a) + Len(b) : t[i] = IF i <= Len(a) THEN a[i] ELSE b[i - Len(a)]
  BY <1>1, <1>2, <1>3, ConcatProperties
<1>5. OfUnit(t, "offense") = a /\ OfUnit(t, "defense") = b
  BY <1>1, <1>2, <1>3, JoinedUnits
<1>6. Few(t, "offense") = a /\ Few(t, "defense") = b
  BY <1>1, <1>2, <1>4, <1>5, FewFacts
<1>7. Serialized(t) = t
  BY <1>3, <1>6, SerializedJoins
<1>8. \A u \in Units : Len(OfUnit(t, u)) <= MaxDrillsPerUnit
  BY <1>1, <1>2, <1>5 DEF Units
<1>9. IdsOf(t) \subseteq IdsOf(s)
  <2>1. DOMAIN t = 1..Len(t) /\ DOMAIN s = 1..Len(s)
    BY <1>4, LenProperties
  <2>2. ASSUME NEW i \in 1..Len(t) PROVE \E j \in 1..Len(s) : t[i] = s[j]
    <3>1. CASE i <= Len(a)
      <4>1. i \in 1..Len(a) + Len(b) /\ i \in 1..Len(a)
        BY <1>1, <1>2, <1>4, <3>1
      <4>2. t[i] = a[i]
        BY <1>4, <3>1, <4>1
      <4>3. QED
        BY <1>1, <4>1, <4>2
    <3>2. CASE ~(i <= Len(a))
      <4>1. t[i] = b[i - Len(a)] /\ i - Len(a) \in 1..Len(b)
        BY <1>1, <1>2, <1>4, <3>2
      <4>2. QED
        BY <1>2, <4>1
    <3>3. QED
      BY <3>1, <3>2
  <2>3. ASSUME NEW id \in IdsOf(t) PROVE id \in IdsOf(s)
    <3>1. PICK i \in 1..Len(t) : id = t[i].id
      BY <2>1 DEF IdsOf
    <3>2. PICK j \in 1..Len(s) : t[i] = s[j]
      BY <2>2
    <3>3. QED
      BY <2>1, <3>1, <3>2 DEF IdsOf
  <2>4. QED
    BY <2>3
<1>10. QED
  BY <1>4, <1>7, <1>8, <1>9 DEF t

\* A plan within the limits is sent whole.
LEMMA SerializedWhole ==
  ASSUME NEW s \in Seq(Drills), \A u \in Units : Len(OfUnit(s, u)) <= MaxDrillsPerUnit
  PROVE  IdsOf(Serialized(s)) = IdsOf(s)
<1> DEFINE a == OfUnit(s, "offense")
           b == OfUnit(s, "defense")
           t == Serialized(s)
<1>1. a \in Seq(Drills) /\ b \in Seq(Drills)
  BY OfUnitMembers
<1>2. Few(s, "offense") = a /\ Few(s, "defense") = b
  BY FewFacts DEF Units
<1>3. t = a \o b
  BY <1>2, SerializedJoins
<1>4. \A i \in 1..Len(s) : s[i].unit = "offense" =>
        Len(UnitPrefixes(s, "offense")[i]) \in 1..Len(a) /\ a[Len(UnitPrefixes(s, "offense")[i])] = s[i]
  BY OfUnitMembers
<1>5. \A i \in 1..Len(s) : s[i].unit = "defense" =>
        Len(UnitPrefixes(s, "defense")[i]) \in 1..Len(b) /\ b[Len(UnitPrefixes(s, "defense")[i])] = s[i]
  BY OfUnitMembers
<1>6. \A i \in 1..Len(s) : s[i].unit \in Units
  <2>1. ASSUME NEW i \in 1..Len(s) PROVE s[i].unit \in Units
    <3>1. s[i] \in Drills
      BY ElementOfSeq
    <3>2. QED
      BY <3>1 DEF Drills
  <2>2. QED
    BY <2>1
<1> HIDE DEF a, b, t
<1>7. /\ t \in Seq(Drills) /\ Len(t) = Len(a) + Len(b) /\ Len(a) \in Nat /\ Len(b) \in Nat
      /\ \A i \in 1..Len(a) + Len(b) : t[i] = IF i <= Len(a) THEN a[i] ELSE b[i - Len(a)]
  BY <1>1, <1>3, ConcatProperties, LenProperties
<1>8. DOMAIN t = 1..Len(t) /\ DOMAIN s = 1..Len(s)
  BY <1>7, LenProperties
<1>9. ASSUME NEW i \in 1..Len(s) PROVE \E j \in 1..Len(t) : t[j] = s[i]
  <2>1. CASE s[i].unit = "offense"
    <3>1. PICK k \in 1..Len(a) : a[k] = s[i]
      BY <1>4, <2>1
    <3>2. k \in 1..Len(t) /\ t[k] = s[i]
      BY <1>7, <3>1
    <3>3. QED
      BY <3>2
  <2>2. CASE s[i].unit = "defense"
    <3>1. PICK k \in 1..Len(b) : b[k] = s[i]
      BY <1>5, <2>2
    <3>2. PICK j : j = Len(a) + k
      OBVIOUS
    <3>3. j \in 1..Len(t) /\ j \in 1..Len(a) + Len(b) /\ ~(j <= Len(a)) /\ j - Len(a) = k
      BY <1>7, <3>2
    <3>4. t[j] = b[j - Len(a)]
      BY <1>7, <3>3
    <3>5. QED
      BY <3>1, <3>3, <3>4
  <2>3. QED
    BY <1>6, <2>1, <2>2 DEF Units
<1>10. ASSUME NEW id \in IdsOf(s) PROVE id \in IdsOf(t)
  <2>1. PICK i \in 1..Len(s) : id = s[i].id
    BY <1>8 DEF IdsOf
  <2>2. PICK j \in 1..Len(t) : t[j] = s[i]
    BY <1>9
  <2>3. QED
    BY <1>8, <2>1, <2>2 DEF IdsOf
<1>11. IdsOf(t) \subseteq IdsOf(s)
  BY SerializedFacts DEF t
<1>12. QED
  BY <1>10, <1>11 DEF t

\* The period after the n-th adds one to its unit.
UnitStep(s, u, n) ==
  Len(UnitPrefixes(s, u)[n + 1]) = Len(UnitPrefixes(s, u)[n]) + IF s[n + 1].unit = u THEN 1 ELSE 0

\* How many periods of a unit there are among the first n.
LEMMA UnitCounts ==
  ASSUME NEW S, NEW s \in Seq(S), NEW u
  PROVE  /\ \A n \in 0..Len(s) : Len(UnitPrefixes(s, u)[n]) \in Nat
         /\ Len(UnitPrefixes(s, u)[0]) = 0
         /\ \A n \in 0..Len(s) - 1 : UnitStep(s, u, n)
<1> DEFINE l == Len(s)
           f == UnitPrefixes(s, u)
<1>1. /\ f \in [0..l -> Seq(S)] /\ f[0] = <<>>
      /\ \A n \in 0..l - 1 : f[n + 1] = IF s[n + 1].unit = u THEN Append(f[n], s[n + 1]) ELSE f[n]
  BY UnitPrefixesStep
<1>2. l \in Nat /\ \A n \in 1..l : s[n] \in S
  <2>1. l \in Nat
    BY LenProperties
  <2>2. \A n \in 1..l : s[n] \in S
    BY ElementOfSeq
  <2>3. QED
    BY <2>1, <2>2
<1> HIDE DEF l, f
<1>3. \A n \in 0..l : Len(f[n]) \in Nat
  BY <1>1, LenProperties
<1>4. ASSUME NEW n \in 0..l - 1
      PROVE  Len(f[n + 1]) = Len(f[n]) + IF s[n + 1].unit = u THEN 1 ELSE 0
  <2>1. n \in 0..l /\ n + 1 \in 1..l
    BY <1>2
  <2>2. f[n] \in Seq(S) /\ s[n + 1] \in S /\ Len(f[n]) \in Nat
    BY <1>1, <1>2, <1>3, <2>1
  <2>3. CASE s[n + 1].unit = u
    <3>1. f[n + 1] = Append(f[n], s[n + 1])
      BY <1>1, <2>3
    <3>2. Len(f[n + 1]) = Len(f[n]) + 1
      BY <2>2, <3>1, AppendProperties
    <3>3. QED
      BY <2>3, <3>2
  <2>4. CASE s[n + 1].unit # u
    <3>1. f[n + 1] = f[n]
      BY <1>1, <2>4
    <3>2. QED
      BY <2>2, <2>4, <3>1
  <2>5. QED
    BY <2>3, <2>4
<1>5. Len(f[0]) = 0
  BY <1>1, EmptySeq
<1>6. QED
  BY <1>3, <1>4, <1>5 DEF l, f, UnitStep

\* Up to m, the periods of t are of the units of those of s, k of which are left
\* out before the i-th.
SameUnits(s, t, i, k, m) == \A n \in 1..m : t[n].unit = s[IF n < i THEN n ELSE n + k].unit

LEMMA NoMoreOfUnit ==
  ASSUME NEW S, NEW s \in Seq(S), NEW t \in Seq(S), NEW u, NEW i \in Nat, NEW k \in Nat,
         NEW m \in 0..Len(t), m + k <= Len(s), SameUnits(s, t, i, k, m)
  PROVE  Len(UnitPrefixes(t, u)[m]) <= Len(OfUnit(s, u))
<1> DEFINE f == UnitPrefixes(s, u)
           g == UnitPrefixes(t, u)
           l == Len(s)
           lt == Len(t)
           at(n) == IF n < i THEN n ELSE n + k
<1>1. (\A n \in 0..l : Len(f[n]) \in Nat) /\ \A n \in 0..l - 1 : UnitStep(s, u, n)
  BY UnitCounts
<1>2. /\ \A n \in 0..lt : Len(g[n]) \in Nat
      /\ Len(g[0]) = 0
      /\ \A n \in 0..lt - 1 : UnitStep(t, u, n)
  BY UnitCounts
<1>3. l \in Nat /\ lt \in Nat /\ m \in Nat /\ m <= lt /\ m + k <= l
  BY LenProperties
<1>4. \A j \in 0..l : \A n \in j..l : Len(f[j]) <= Len(f[n])
  <2>1. \A j \in 0..l : \A n \in j..l : Continues(f[j], f[n])
    BY UnitPrefixesGrow
  <2>2. QED
    BY <2>1 DEF Continues
<1>5. OfUnit(s, u) = f[l]
  BY DEF OfUnit
<1> HIDE DEF f, g, l, lt
<1>6. \A n \in 0..m : at(n) \in 0..l
  BY <1>3
<1> DEFINE Fewer(n) == Len(g[n]) <= Len(f[at(n)])
           Wrong == {n \in 0..m : ~Fewer(n)}
<1>7. Wrong = {}
  <2> SUFFICES ASSUME Wrong # {} PROVE FALSE
    OBVIOUS
  <2>1. Wrong \in SUBSET Nat
    BY <1>3
  <2>2. PICK n \in Wrong : \A j \in Wrong : n <= j
    BY <2>1, LeastNumber
  <2>3. n \in Nat /\ n <= m
    BY <1>3, <2>2
  <2>4. Fewer(0)
    <3>1. at(0) \in 0..l
      BY <1>3, <1>6
    <3>2. Len(f[at(0)]) \in Nat
      BY <1>1, <3>1
    <3>3. QED
      BY <1>2, <3>2
  <2> HIDE DEF Fewer
  <2>5. n # 0
    BY <2>2, <2>4
  <2>6. PICK j \in 0..m - 1 : j + 1 = n /\ j = n - 1
    BY <1>3, <2>3, <2>5
  <2>7. j \notin Wrong /\ j \in 0..m /\ j \in 0..lt - 1 /\ n \in 1..m
    BY <1>3, <2>2, <2>3, <2>5, <2>6
  <2>8. Fewer(j)
    BY <2>6, <2>7
  <2>9. PICK r \in 0..l - 1 : r + 1 = at(n) /\ at(j) <= r /\ at(j) \in 0..l
    <3>1. at(n) \in 1..l /\ at(j) < at(n) /\ at(j) \in 0..l
      BY <1>3, <2>3, <2>5, <2>6
    <3>2. QED
      BY <1>3, <3>1
  <2> HIDE DEF at
  <2>10. r \in 0..l /\ r \in at(j)..l
    BY <1>3, <2>9
  <2>11. /\ Len(f[at(j)]) <= Len(f[r])
         /\ Len(f[at(j)]) \in Nat /\ Len(f[r]) \in Nat /\ Len(g[j]) \in Nat
    BY <1>1, <1>2, <1>3, <1>4, <2>7, <2>9, <2>10
  <2>12. Len(f[at(n)]) = Len(f[r]) + IF s[r + 1].unit = u THEN 1 ELSE 0
    BY <1>1, <2>9 DEF UnitStep, f
  <2>13. Len(g[n]) = Len(g[j]) + IF t[n].unit = u THEN 1 ELSE 0
    BY <1>2, <2>6, <2>7 DEF UnitStep, g
  <2>14. t[n].unit = s[r + 1].unit
    BY <2>7, <2>9 DEF SameUnits, at
  <2>15. Len(g[j]) <= Len(f[at(j)])
    BY <2>8 DEF Fewer
  <2>16. Len(g[n]) <= Len(f[at(n)])
    <3>1. CASE t[n].unit = u
      <4>1. Len(g[n]) = Len(g[j]) + 1 /\ Len(f[at(n)]) = Len(f[r]) + 1
        BY <2>12, <2>13, <2>14, <3>1
      <4>2. \A v, w, x \in Nat : v <= w /\ w <= x => v + 1 <= x + 1
        OBVIOUS
      <4>3. Len(g[j]) + 1 <= Len(f[r]) + 1
        BY <2>11, <2>15, <4>2
      <4>4. QED
        BY <4>1, <4>3
    <3>2. CASE t[n].unit # u
      <4>1. Len(g[n]) = Len(g[j]) + 0 /\ Len(f[at(n)]) = Len(f[r]) + 0
        BY <2>12, <2>13, <2>14, <3>2
      <4>2. \A v, w, x \in Nat : v <= w /\ w <= x => v + 0 <= x + 0
        OBVIOUS
      <4>3. Len(g[j]) + 0 <= Len(f[r]) + 0
        BY <2>11, <2>15, <4>2
      <4>4. QED
        BY <4>1, <4>3
    <3>3. QED
      BY <3>1, <3>2
  <2>17. QED
    BY <2>2, <2>16 DEF Fewer
<1>8. m \in 0..m /\ m \notin Wrong /\ at(m) \in 0..l /\ l \in at(m)..l /\ l \in 0..l
  BY <1>3, <1>6, <1>7
<1> HIDE DEF at
<1>9. Len(g[m]) <= Len(f[at(m)])
  <2> HIDE DEF Fewer
  <2>1. Fewer(m)
    BY <1>8
  <2>2. QED
    BY <2>1 DEF Fewer
<1>10. Len(f[at(m)]) <= Len(f[l]) /\ {Len(g[m]), Len(f[at(m)]), Len(f[l])} \subseteq Nat
  BY <1>1, <1>2, <1>3, <1>4, <1>8
<1>11. QED
  BY <1>5, <1>9, <1>10 DEF g

-----------------------------------------------------------------------------
(* No edit gives a unit more periods than it may have.                     *)

WithinLimits(s) == \A u \in Units : Len(OfUnit(s, u)) <= MaxDrillsPerUnit

LEMMA UnitLengths ==
  ASSUME NEW S, NEW s \in Seq(S), NEW u
  PROVE  Len(OfUnit(s, u)) \in Nat
<1>1. OfUnit(s, u) \in Seq(S)
  BY OfUnitMembers
<1>2. QED
  BY <1>1, LenProperties

\* Edits that leave the unit of every period leave the units within the limit.
LEMMA UnitsKept ==
  ASSUME NEW s \in Seq(Drills), NEW t \in Seq(Drills), Len(t) = Len(s),
         \A n \in 1..Len(s) : t[n].unit = s[n].unit, WithinLimits(s)
  PROVE  WithinLimits(t)
<1> SUFFICES ASSUME NEW u \in Units PROVE Len(OfUnit(t, u)) <= MaxDrillsPerUnit
  BY DEF WithinLimits
<1>1. PICK m : m = Len(t)
  OBVIOUS
<1>2. PICK k : k = 0
  OBVIOUS
<1>3. Len(s) \in Nat /\ m \in Nat /\ m \in 0..Len(t) /\ m + k <= Len(s) /\ k \in Nat
  BY <1>1, <1>2, LenProperties
<1>4. SameUnits(s, t, k, k, m)
  <2>1. ASSUME NEW n \in 1..m PROVE t[n].unit = s[IF n < k THEN n ELSE n + k].unit
    <3>1. (IF n < k THEN n ELSE n + k) = n
      BY <1>2, <1>3
    <3>2. n \in 1..Len(s)
      BY <1>1
    <3>3. QED
      BY <3>1, <3>2
  <2>2. QED
    BY <2>1 DEF SameUnits
<1>5. Len(UnitPrefixes(t, u)[m]) <= Len(OfUnit(s, u))
  BY <1>3, <1>4, NoMoreOfUnit
<1>6. OfUnit(t, u) = UnitPrefixes(t, u)[m]
  BY <1>1 DEF OfUnit
<1>7. Len(OfUnit(s, u)) <= MaxDrillsPerUnit
  BY DEF WithinLimits
<1>8. Len(OfUnit(s, u)) \in Nat /\ Len(OfUnit(t, u)) \in Nat /\ MaxDrillsPerUnit \in Nat
  BY UnitLengths, PracticeAssumption
<1>9. QED
  BY <1>5, <1>6, <1>7, <1>8

LEMMA DrillAdded ==
  ASSUME NEW s \in Seq(Drills), NEW e \in Drills, WithinLimits(s),
         Len(OfUnit(s, e.unit)) < MaxDrillsPerUnit
  PROVE  Append(s, e) \in Seq(Drills) /\ WithinLimits(Append(s, e))
<1>1. PICK t : t = Append(s, e)
  OBVIOUS
<1>2. PICK m : m = Len(s)
  OBVIOUS
<1>3. /\ t \in Seq(Drills) /\ m \in Nat /\ Len(t) = m + 1
      /\ \A n \in 1..m : t[n] = s[n]
      /\ t[m + 1] = e
  BY <1>1, <1>2, AppendProperties, LenProperties
<1>4. ASSUME NEW u \in Units PROVE Len(OfUnit(t, u)) <= MaxDrillsPerUnit
  <2>1. PICK k : k = 0
    OBVIOUS
  <2>2. m \in 0..Len(t) /\ m + k <= Len(s) /\ k \in Nat /\ m \in 0..Len(t) - 1
    BY <1>2, <1>3, <2>1
  <2>3. SameUnits(s, t, k, k, m)
    <3>1. ASSUME NEW n \in 1..m PROVE t[n].unit = s[IF n < k THEN n ELSE n + k].unit
      <4>1. (IF n < k THEN n ELSE n + k) = n
        BY <1>3, <2>1
      <4>2. QED
        BY <1>3, <4>1
    <3>2. QED
      BY <3>1 DEF SameUnits
  <2>4. Len(UnitPrefixes(t, u)[m]) <= Len(OfUnit(s, u))
    BY <1>3, <2>2, <2>3, NoMoreOfUnit
  <2>5. UnitStep(t, u, m)
    BY <1>3, <2>2, UnitCounts
  <2>6. OfUnit(t, u) = UnitPrefixes(t, u)[m + 1]
    BY <1>3 DEF OfUnit
  <2>7. Len(OfUnit(t, u)) = Len(UnitPrefixes(t, u)[m]) + IF e.unit = u THEN 1 ELSE 0
    BY <1>3, <2>5, <2>6 DEF UnitStep
  <2>8. PICK x \in Nat : x = Len(UnitPrefixes(t, u)[m])
    BY <1>3, <2>2, UnitCounts
  <2>9. PICK y \in Nat : y = Len(OfUnit(s, u))
    BY UnitLengths
  <2>10. y <= MaxDrillsPerUnit
    BY <2>9 DEF WithinLimits
  <2>11. e.unit = u => y < MaxDrillsPerUnit
    BY <2>9
  <2>12. x <= y /\ MaxDrillsPerUnit \in Nat
    BY <2>4, <2>8, <2>9, PracticeAssumption
  <2>13. CASE e.unit = u
    <3>1. Len(OfUnit(t, u)) = x + 1
      BY <2>7, <2>8, <2>13
    <3>2. y < MaxDrillsPerUnit
      BY <2>11, <2>13
    <3>3. x + 1 <= MaxDrillsPerUnit
      BY <2>12, <3>2
    <3>4. QED
      BY <3>1, <3>3
  <2>14. CASE e.unit # u
    <3>1. Len(OfUnit(t, u)) = x + 0
      BY <2>7, <2>8, <2>14
    <3>2. x + 0 <= MaxDrillsPerUnit
      BY <2>10, <2>12
    <3>3. QED
      BY <3>1, <3>2
  <2>15. QED
    BY <2>13, <2>14
<1>5. QED
  BY <1>1, <1>3, <1>4 DEF WithinLimits

LEMMA RemoveAtFacts ==
  ASSUME NEW S, NEW s \in Seq(S), NEW i \in 1..Len(s)
  PROVE  /\ RemoveAt(s, i) \in Seq(S) /\ Len(RemoveAt(s, i)) = Len(s) - 1
         /\ \A n \in 1..Len(s) - 1 : RemoveAt(s, i)[n] = s[IF n < i THEN n ELSE n + 1]
<1> DEFINE a == SubSeq(s, 1, i - 1)
           b == SubSeq(s, i + 1, Len(s))
<1>1. PICK l \in Nat : l = Len(s) /\ i \in 1..l /\ i \in Nat
  BY LenProperties
<1>2. \A n \in 1..l : s[n] \in S
  BY <1>1, ElementOfSeq
<1>3. a \in Seq(S) /\ Len(a) = i - 1 /\ \A n \in 1..i - 1 : a[n] = s[n]
  <2>1. \A n \in 1..i - 1 : s[n] \in S
    BY <1>1, <1>2
  <2>2. /\ SubSeq(s, 1, i - 1) \in Seq(S)
        /\ Len(SubSeq(s, 1, i - 1)) = IF 1 <= i - 1 THEN (i - 1) - 1 + 1 ELSE 0
        /\ \A n \in 1..(i - 1) - 1 + 1 : SubSeq(s, 1, i - 1)[n] = s[1 + n - 1]
    BY <1>1, <2>1, SubSeqProperties
  <2>3. QED
    BY <1>1, <2>2
<1>4. b \in Seq(S) /\ Len(b) = l - i /\ \A n \in 1..l - i : b[n] = s[i + n]
  <2>1. \A n \in i + 1..l : s[n] \in S
    BY <1>1, <1>2
  <2>2. /\ SubSeq(s, i + 1, l) \in Seq(S)
        /\ Len(SubSeq(s, i + 1, l)) = IF i + 1 <= l THEN l - (i + 1) + 1 ELSE 0
        /\ \A n \in 1..l - (i + 1) + 1 : SubSeq(s, i + 1, l)[n] = s[(i + 1) + n - 1]
    BY <1>1, <2>1, SubSeqProperties
  <2>3. ASSUME NEW n \in 1..l - i PROVE b[n] = s[i + n]
    <3>1. n \in 1..l - (i + 1) + 1 /\ (i + 1) + n - 1 = i + n
      BY <1>1
    <3>2. QED
      BY <1>1, <2>2, <3>1
  <2>4. QED
    BY <1>1, <2>2, <2>3
<1>5. RemoveAt(s, i) = a \o b
  BY DEF RemoveAt
<1> HIDE DEF a, b
<1>6. /\ a \o b \in Seq(S) /\ Len(a \o b) = Len(a) + Len(b)
      /\ \A n \in 1..Len(a) + Len(b) : (a \o b)[n] = IF n <= Len(a) THEN a[n] ELSE b[n - Len(a)]
  BY <1>3, <1>4, ConcatProperties
<1>7. ASSUME NEW n \in 1..l - 1 PROVE (a \o b)[n] = s[IF n < i THEN n ELSE n + 1]
  <2>1. n \in 1..Len(a) + Len(b)
    BY <1>1, <1>3, <1>4
  <2>2. CASE n < i
    <3>1. n <= Len(a) /\ n \in 1..i - 1
      BY <1>1, <1>3, <2>2
    <3>2. QED
      BY <1>3, <1>6, <2>1, <2>2, <3>1
  <2>3. CASE ~(n < i)
    <3>1. ~(n <= Len(a)) /\ n - Len(a) \in 1..l - i /\ i + (n - Len(a)) = n + 1
      BY <1>1, <1>3, <2>3
    <3>2. (a \o b)[n] = b[n - Len(a)]
      BY <1>6, <2>1, <3>1
    <3>3. QED
      BY <1>4, <2>3, <3>1, <3>2
  <2>4. QED
    BY <2>2, <2>3
<1>8. QED
  BY <1>1, <1>3, <1>4, <1>5, <1>6, <1>7

LEMMA DrillRemoved ==
  ASSUME NEW s \in Seq(Drills), NEW i \in 1..Len(s), WithinLimits(s)
  PROVE  RemoveAt(s, i) \in Seq(Drills) /\ WithinLimits(RemoveAt(s, i))
<1>1. PICK t : t = RemoveAt(s, i)
  OBVIOUS
<1>2. PICK m : m = Len(s) - 1
  OBVIOUS
<1>3. PICK k : k = 1
  OBVIOUS
<1>4. /\ t \in Seq(Drills) /\ Len(t) = m
      /\ \A n \in 1..m : t[n] = s[IF n < i THEN n ELSE n + 1]
  BY <1>1, <1>2, RemoveAtFacts
<1>5. m \in 0..Len(t) /\ m + k <= Len(s) /\ k \in Nat /\ i \in Nat
  BY <1>2, <1>3, <1>4, LenProperties
<1>6. SameUnits(s, t, i, k, m)
  BY <1>3, <1>4 DEF SameUnits
<1>7. ASSUME NEW u \in Units PROVE Len(OfUnit(t, u)) <= MaxDrillsPerUnit
  <2>1. Len(UnitPrefixes(t, u)[m]) <= Len(OfUnit(s, u))
    BY <1>4, <1>5, <1>6, NoMoreOfUnit
  <2>2. OfUnit(t, u) = UnitPrefixes(t, u)[m]
    BY <1>4 DEF OfUnit
  <2>3. Len(OfUnit(s, u)) \in Nat /\ Len(OfUnit(t, u)) \in Nat /\ MaxDrillsPerUnit \in Nat
    BY <1>4, UnitLengths, PracticeAssumption
  <2>4. QED
    BY <2>1, <2>2, <2>3 DEF WithinLimits
<1>8. QED
  BY <1>1, <1>4, <1>7 DEF WithinLimits

LEMMA InsertAtFacts ==
  ASSUME NEW S, NEW s \in Seq(S), NEW i \in 1..Len(s) + 1, NEW e \in S
  PROVE  InsertAt(s, i, e) \in Seq(S) /\ Len(InsertAt(s, i, e)) = Len(s) + 1
<1> DEFINE a == SubSeq(s, 1, i - 1)
           b == SubSeq(s, i, Len(s))
<1>1. PICK l \in Nat : l = Len(s) /\ i \in 1..l + 1 /\ i \in Nat
  BY LenProperties
<1>2. \A n \in 1..l : s[n] \in S
  BY <1>1, ElementOfSeq
<1>3. a \in Seq(S) /\ Len(a) = i - 1
  <2>1. \A n \in 1..i - 1 : s[n] \in S
    BY <1>1, <1>2
  <2>2. /\ SubSeq(s, 1, i - 1) \in Seq(S)
        /\ Len(SubSeq(s, 1, i - 1)) = IF 1 <= i - 1 THEN (i - 1) - 1 + 1 ELSE 0
    BY <1>1, <2>1, SubSeqProperties
  <2>3. QED
    BY <1>1, <2>2
<1>4. b \in Seq(S) /\ Len(b) = l - i + 1
  <2>1. \A n \in i..l : s[n] \in S
    BY <1>1, <1>2
  <2>2. /\ SubSeq(s, i, l) \in Seq(S)
        /\ Len(SubSeq(s, i, l)) = IF i <= l THEN l - i + 1 ELSE 0
    BY <1>1, <2>1, SubSeqProperties
  <2>3. QED
    BY <1>1, <2>2
<1>5. <<e>> \in Seq(S) /\ Len(<<e>>) = 1
  OBVIOUS
<1>6. InsertAt(s, i, e) = (a \o <<e>>) \o b
  BY DEF InsertAt
<1> HIDE DEF a, b
<1>7. a \o <<e>> \in Seq(S) /\ Len(a \o <<e>>) = (i - 1) + 1
  BY <1>3, <1>5, ConcatProperties
<1>8. (a \o <<e>>) \o b \in Seq(S) /\ Len((a \o <<e>>) \o b) = Len(a \o <<e>>) + Len(b)
  BY <1>4, <1>7, ConcatProperties
<1>9. QED
  BY <1>1, <1>4, <1>6, <1>7, <1>8

\* Moving a period within its unit puts a period of the unit in the place of each.
LEMMA DrillMoved ==
  ASSUME NEW s \in Seq(Drills), NEW u \in Units, WithinLimits(s),
         NEW from \in DOMAIN OfUnit(s, u), NEW to \in DOMAIN OfUnit(s, u), NEW t,
         t = [i \in DOMAIN s |-> IF s[i].unit = u
                THEN InsertAt(RemoveAt(OfUnit(s, u), from), to, OfUnit(s, u)[from])[Len(UnitPrefixes(s, u)[i])]
                ELSE s[i]]
  PROVE  t \in Seq(Drills) /\ WithinLimits(t)
<1> DEFINE o == OfUnit(s, u)
           Ours == {d \in Drills : d.unit = u}
           moved == InsertAt(RemoveAt(o, from), to, o[from])
<1>1. /\ o \in Seq(Drills) /\ \A k \in 1..Len(o) : o[k].unit = u
      /\ \A i \in 1..Len(s) : s[i].unit = u => Len(UnitPrefixes(s, u)[i]) \in 1..Len(o)
  BY OfUnitMembers
<1>2. Len(o) \in Nat /\ DOMAIN o = 1..Len(o) /\ o \in [1..Len(o) -> Drills]
  BY <1>1, LenProperties
<1>3. o \in Seq(Ours)
  <2>1. \A k \in 1..Len(o) : o[k] \in Ours
    BY <1>1, <1>2
  <2>2. o \in [1..Len(o) -> Ours]
    BY <1>2, <2>1
  <2> HIDE DEF o, Ours
  <2>3. QED
    BY <1>2, <2>2, SeqDef
<1>4. from \in 1..Len(o) /\ to \in 1..Len(o)
  BY <1>2
<1> HIDE DEF o, Ours
<1>5. RemoveAt(o, from) \in Seq(Ours) /\ Len(RemoveAt(o, from)) = Len(o) - 1
  BY <1>3, <1>4, RemoveAtFacts
<1>6. o[from] \in Ours
  BY <1>3, <1>4, ElementOfSeq
<1>7. to \in 1..Len(RemoveAt(o, from)) + 1
  BY <1>2, <1>4, <1>5
<1>8. moved \in Seq(Ours) /\ Len(moved) = Len(RemoveAt(o, from)) + 1
  BY <1>5, <1>6, <1>7, InsertAtFacts
<1>9. Len(moved) = Len(o)
  BY <1>2, <1>5, <1>8
<1>10. t = [i \in DOMAIN s |-> IF s[i].unit = u THEN moved[Len(UnitPrefixes(s, u)[i])] ELSE s[i]]
  BY DEF o
<1> HIDE DEF moved
<1>11. Len(s) \in Nat /\ DOMAIN s = 1..Len(s)
  BY LenProperties
<1>12. ASSUME NEW i \in 1..Len(s) PROVE t[i] \in Drills /\ t[i].unit = s[i].unit
  <2>1. CASE s[i].unit = u
    <3>1. Len(UnitPrefixes(s, u)[i]) \in 1..Len(moved)
      BY <1>1, <1>9, <2>1
    <3>2. moved[Len(UnitPrefixes(s, u)[i])] \in Ours
      BY <1>8, <3>1, ElementOfSeq
    <3>3. t[i] = moved[Len(UnitPrefixes(s, u)[i])]
      BY <1>10, <1>11, <2>1
    <3>4. QED
      BY <2>1, <3>2, <3>3 DEF Ours
  <2>2. CASE s[i].unit # u
    <3>1. t[i] = s[i] /\ s[i] \in Drills
      BY <1>10, <1>11, <2>2, ElementOfSeq
    <3>2. QED
      BY <3>1
  <2>3. QED
    BY <2>1, <2>2
<1>13. t \in [1..Len(s) -> Drills]
  BY <1>10, <1>11, <1>12
<1>14. t \in Seq(Drills)
  BY <1>11, <1>13, SeqDef
<1>15. Len(t) = Len(s)
  BY <1>11, <1>13, <1>14, LenProperties
<1>16. QED
  BY <1>12, <1>14, <1>15, UnitsKept

\* A period that is changed stays in its unit.
LEMMA DrillChanged ==
  ASSUME NEW s \in Seq(Drills), WithinLimits(s), NEW i \in DOMAIN s, NEW e \in Drills,
         e.unit = s[i].unit
  PROVE  [s EXCEPT ![i] = e] \in Seq(Drills) /\ WithinLimits([s EXCEPT ![i] = e])
<1>1. PICK t : t = [s EXCEPT ![i] = e]
  OBVIOUS
<1>2. Len(s) \in Nat /\ DOMAIN s = 1..Len(s) /\ s \in [1..Len(s) -> Drills]
  BY LenProperties
<1>3. t \in [1..Len(s) -> Drills]
  BY <1>1, <1>2
<1>4. t \in Seq(Drills)
  BY <1>2, <1>3, SeqDef
<1>5. Len(t) = Len(s)
  BY <1>2, <1>3, <1>4, LenProperties
<1>6. \A n \in 1..Len(s) : t[n].unit = s[n].unit
  BY <1>1, <1>2
<1>7. QED
  BY <1>1, <1>4, <1>5, <1>6, UnitsKept

-----------------------------------------------------------------------------
(* The pages of the schedule.                                              *)

\* Pages of a unit hold all of its periods, and the last of them holds one.
LEMMA PageFacts ==
  ASSUME NEW n \in Nat
  PROVE  /\ PagesFor(n) \in Nat
         /\ n <= PageSize * PagesFor(n) /\ PageSize * PagesFor(n) <= n + PageSize - 1
<1>1. PageSize \in Nat \ {0}
  BY ScheduleAssumption
<1>2. PICK m \in Nat : m = n + PageSize - 1
  BY <1>1
<1>3. m \div PageSize \in Nat
  BY <1>1
<1>4. PageSize * (m \div PageSize) <= m
  BY <1>1
<1>5. m < PageSize * (m \div PageSize) + PageSize
  BY <1>1
<1>6. PagesFor(n) = m \div PageSize
  BY <1>2 DEF PagesFor
<1>7. PICK q \in Nat : q = m \div PageSize
  BY <1>3
<1>8. PICK y \in Nat : y = PageSize * q
  BY <1>1
<1>9. n <= y /\ y <= n + PageSize - 1
  BY <1>1, <1>2, <1>4, <1>5, <1>7, <1>8
<1>10. QED
  BY <1>6, <1>7, <1>8, <1>9

PageOf(x, j) == SubSeq(x, PageSize * j + 1, AtMost(PageSize * j + PageSize, Len(x)))

LEMMA PageHolds ==
  ASSUME NEW S, NEW x \in Seq(S), NEW j \in Nat, j < PagesFor(Len(x))
  PROVE  /\ PageOf(x, j) # <<>>
         /\ \A k \in 1..Len(x) : PageSize * j < k /\ k <= PageSize * j + PageSize =>
              x[k] \in ToSet(PageOf(x, j))
<1>1. PageSize \in Nat \ {0}
  BY ScheduleAssumption
<1>2. PICK l \in Nat : l = Len(x)
  BY LenProperties
<1>3. PICK q \in Nat : q = PagesFor(l) /\ PageSize * q <= l + PageSize - 1
  BY <1>2, PageFacts
<1>4. PICK y \in Nat : y = PageSize * j
  BY <1>1
<1>5. y + PageSize <= PageSize * q
  <2>1. j + 1 <= q
    BY <1>2, <1>3
  <2>2. PageSize * (j + 1) <= PageSize * q
    BY <1>1, <2>1
  <2>3. PageSize * (j + 1) = y + PageSize
    BY <1>1, <1>4
  <2>4. QED
    BY <2>2, <2>3
<1>6. y + 1 <= l
  <2>1. PageSize * q \in Nat
    BY <1>1
  <2>2. QED
    BY <1>1, <1>3, <1>5, <2>1
<1>7. PICK r \in Nat : r = AtMost(y + PageSize, l)
  BY <1>1 DEF AtMost
<1>8. y + 1 <= r /\ r <= l /\ \A k \in 1..l : k <= y + PageSize => k <= r
  BY <1>1, <1>6, <1>7 DEF AtMost
<1>9. PageOf(x, j) = SubSeq(x, y + 1, r)
  BY <1>2, <1>4, <1>7 DEF PageOf
<1>10. \A i \in y + 1..r : x[i] \in S
  <2>1. \A i \in 1..l : x[i] \in S
    BY <1>2, ElementOfSeq
  <2>2. QED
    BY <1>8, <2>1
<1>11. /\ SubSeq(x, y + 1, r) \in Seq(S)
       /\ Len(SubSeq(x, y + 1, r)) = IF y + 1 <= r THEN r - (y + 1) + 1 ELSE 0
       /\ \A i \in 1..r - (y + 1) + 1 : SubSeq(x, y + 1, r)[i] = x[(y + 1) + i - 1]
  BY <1>10, SubSeqProperties
<1>12. Len(SubSeq(x, y + 1, r)) = r - y
  BY <1>8, <1>11
<1>13. SubSeq(x, y + 1, r) # <<>>
  <2>1. r - y # 0
    BY <1>8
  <2>2. Len(<<>>) = 0
    BY EmptySeq
  <2>3. QED
    BY <1>12, <2>1, <2>2
<1>14. ASSUME NEW k \in 1..Len(x), PageSize * j < k, k <= PageSize * j + PageSize
       PROVE  x[k] \in ToSet(SubSeq(x, y + 1, r))
  <2>1. k \in 1..l /\ y < k /\ k <= r
    BY <1>2, <1>4, <1>8, <1>14
  <2>2. PICK i : i = k - y
    OBVIOUS
  <2>3. i \in 1..r - (y + 1) + 1 /\ (y + 1) + i - 1 = k /\ i \in 1..r - y
    BY <2>1, <2>2
  <2>4. SubSeq(x, y + 1, r)[i] = x[k]
    BY <1>11, <2>3
  <2>5. DOMAIN SubSeq(x, y + 1, r) = 1..r - y
    BY <1>11, <1>12, LenProperties
  <2>6. QED
    BY <2>3, <2>4, <2>5 DEF ToSet
<1>15. QED
  BY <1>9, <1>13, <1>14

\* Every period of a unit is on one of its pages.
LEMMA PageForPeriod ==
  ASSUME NEW S, NEW x \in Seq(S), NEW k \in 1..Len(x)
  PROVE  \E j \in Nat : j < PagesFor(Len(x)) /\ x[k] \in ToSet(PageOf(x, j))
<1>1. PageSize \in Nat \ {0}
  BY ScheduleAssumption
<1>2. PICK l \in Nat : l = Len(x) /\ k \in 1..l
  BY LenProperties
<1>3. PICK m \in Nat : m = k - 1
  BY <1>2
<1>4. PICK j \in Nat : j = m \div PageSize
  BY <1>1
<1>5. PageSize * j <= m
  BY <1>1, <1>4
<1>6. m < PageSize * j + PageSize
  BY <1>1, <1>4
<1>7. PICK y \in Nat : y = PageSize * j
  BY <1>1
<1>8. PICK q \in Nat : q = PagesFor(l) /\ l <= PageSize * q
  BY PageFacts
<1>9. j < q
  <2>1. SUFFICES ASSUME q <= j PROVE FALSE
    OBVIOUS
  <2>2. PageSize * q <= PageSize * j
    BY <1>1, <2>1
  <2>3. PageSize * q \in Nat
    BY <1>1
  <2>4. QED
    BY <1>2, <1>3, <1>5, <1>7, <1>8, <2>2, <2>3
<1>10. PageSize * j < k /\ k <= PageSize * j + PageSize
  BY <1>1, <1>2, <1>3, <1>5, <1>6, <1>7
<1>11. x[k] \in ToSet(PageOf(x, j))
  BY <1>2, <1>8, <1>9, <1>10, PageHolds
<1>12. QED
  BY <1>2, <1>8, <1>9, <1>11

LEMMA PageCounts ==
  ASSUME NEW s \in Seq(Drills)
  PROVE  /\ PagesFor(Len(OfUnit(s, "offense"))) \in Nat /\ PagesFor(Len(OfUnit(s, "defense"))) \in Nat
         /\ PageCount(s) \in Nat /\ PageCount(s) >= 1
         /\ LET sum == PagesFor(Len(OfUnit(s, "offense"))) + PagesFor(Len(OfUnit(s, "defense")))
            IN sum > 0 => PageCount(s) = sum
<1>1. Len(OfUnit(s, "offense")) \in Nat /\ Len(OfUnit(s, "defense")) \in Nat
  BY UnitLengths
<1>2. PagesFor(Len(OfUnit(s, "offense"))) \in Nat /\ PagesFor(Len(OfUnit(s, "defense"))) \in Nat
  BY <1>1, PageFacts
<1>3. QED
  BY <1>2 DEF PageCount

LEMMA CardsFromUnits ==
  ASSUME NEW s, NEW p
  PROVE  CardsOn(s, p) = IF p < PagesFor(Len(OfUnit(s, "offense")))
           THEN PageOf(OfUnit(s, "offense"), p)
           ELSE PageOf(OfUnit(s, "defense"), p - PagesFor(Len(OfUnit(s, "offense"))))
  BY DEF CardsOn, PageOf

LEMMA CardsOnEveryPage ==
  ASSUME NEW s \in Seq(Drills), s # <<>>, NEW p \in 0..PageCount(s) - 1
  PROVE  CardsOn(s, p) # <<>>
<1> DEFINE o == OfUnit(s, "offense")
           d == OfUnit(s, "defense")
<1>1. o \in Seq(Drills) /\ d \in Seq(Drills)
  BY OfUnitMembers
<1>2. PICK no \in Nat : no = Len(o)
  BY <1>1, LenProperties
<1>3. PICK nd \in Nat : nd = Len(d)
  BY <1>1, LenProperties
<1>4. no > 0 \/ nd > 0
  <2>1. 1 \in 1..Len(s)
    BY EmptySeq
  <2>2. s[1] \in Drills
    BY <2>1, ElementOfSeq
  <2>3. s[1].unit = "offense" \/ s[1].unit = "defense"
    BY <2>2 DEF Drills, Units
  <2>4. CASE s[1].unit = "offense"
    <3>1. Len(UnitPrefixes(s, "offense")[1]) \in 1..Len(o)
      BY <2>1, <2>4, OfUnitMembers
    <3>2. QED
      BY <1>2, <3>1
  <2>5. CASE s[1].unit = "defense"
    <3>1. Len(UnitPrefixes(s, "defense")[1]) \in 1..Len(d)
      BY <2>1, <2>5, OfUnitMembers
    <3>2. QED
      BY <1>3, <3>1
  <2>6. QED
    BY <2>3, <2>4, <2>5
<1>5. PICK po \in Nat : po = PagesFor(no) /\ no <= PageSize * po
  BY PageFacts
<1>6. PICK pd \in Nat : pd = PagesFor(nd) /\ nd <= PageSize * pd
  BY PageFacts
<1>7. po + pd > 0
  <2>1. SUFFICES ASSUME po = 0, pd = 0 PROVE FALSE
    BY <1>5, <1>6
  <2>2. PageSize * 0 = 0
    BY ScheduleAssumption
  <2>3. QED
    BY <1>4, <1>5, <1>6, <2>1, <2>2
<1>8. PageCount(s) = po + pd
  BY <1>2, <1>3, <1>5, <1>6, <1>7, PageCounts
<1>9. p \in Nat /\ p < po + pd
  BY <1>8
<1>10. CardsOn(s, p) = IF p < po THEN PageOf(o, p) ELSE PageOf(d, p - po)
  BY <1>2, <1>5, CardsFromUnits
<1> HIDE DEF o, d
<1>11. CASE p < po
  <2>1. PageOf(o, p) # <<>>
    BY <1>1, <1>2, <1>5, <1>9, <1>11, PageHolds
  <2>2. QED
    BY <1>10, <1>11, <2>1
<1>12. CASE ~(p < po)
  <2>1. PICK j \in Nat : j = p - po /\ j < pd
    BY <1>9, <1>12
  <2>2. PageOf(d, j) # <<>>
    BY <1>1, <1>3, <1>6, <2>1, PageHolds
  <2>3. QED
    BY <1>10, <1>12, <2>1, <2>2
<1>13. QED
  BY <1>11, <1>12

LEMMA CardsOfEveryPeriod ==
  ASSUME NEW s \in Seq(Drills), NEW i \in DOMAIN s
  PROVE  \E n \in 0..(PageCount(s) - 1) : s[i] \in ToSet(CardsOn(s, n))
<1> DEFINE o == OfUnit(s, "offense")
           d == OfUnit(s, "defense")
<1>1. o \in Seq(Drills) /\ d \in Seq(Drills)
  BY OfUnitMembers
<1>2. i \in 1..Len(s) /\ s[i] \in Drills
  BY LenProperties, ElementOfSeq
<1>3. s[i].unit = "offense" \/ s[i].unit = "defense"
  BY <1>2 DEF Drills, Units
<1>4. PICK po \in Nat : po = PagesFor(Len(o))
  BY PageCounts
<1>5. PICK pd \in Nat : pd = PagesFor(Len(d))
  BY PageCounts
<1>6. po + pd > 0 => PageCount(s) = po + pd
  BY <1>4, <1>5, PageCounts
<1>7. \A p : CardsOn(s, p) = IF p < po THEN PageOf(o, p) ELSE PageOf(d, p - po)
  BY <1>4, CardsFromUnits
<1>8. CASE s[i].unit = "offense"
  <2>1. PICK k \in 1..Len(o) : o[k] = s[i]
    BY <1>2, <1>8, OfUnitMembers
  <2> HIDE DEF o, d
  <2>2. PICK j \in Nat : j < po /\ s[i] \in ToSet(PageOf(o, j))
    BY <1>1, <1>4, <2>1, PageForPeriod
  <2>3. j \in 0..(PageCount(s) - 1)
    BY <1>4, <1>5, <1>6, <2>2
  <2>4. CardsOn(s, j) = PageOf(o, j)
    BY <1>7, <2>2
  <2>5. QED
    BY <2>2, <2>3, <2>4
<1>9. CASE s[i].unit = "defense"
  <2>1. PICK k \in 1..Len(d) : d[k] = s[i]
    BY <1>2, <1>9, OfUnitMembers
  <2> HIDE DEF o, d
  <2>2. PICK j \in Nat : j < pd /\ s[i] \in ToSet(PageOf(d, j))
    BY <1>1, <1>5, <2>1, PageForPeriod
  <2>3. PICK n : n = po + j
    OBVIOUS
  <2>4. n \in 0..(PageCount(s) - 1) /\ ~(n < po) /\ n - po = j
    BY <1>4, <1>5, <1>6, <2>2, <2>3
  <2>5. CardsOn(s, n) = PageOf(d, j)
    BY <1>7, <2>4
  <2>6. QED
    BY <2>2, <2>4, <2>5
<1>10. QED
  BY <1>3, <1>8, <1>9

LEMMA PracticeBounds ==
  /\ MaxDrillsPerUnit \in Nat /\ MaxAssignments \in Nat /\ MaxLength \in Nat
  /\ MaxActs \in Nat /\ MaxFailures \in Nat /\ MaxTime \in Nat /\ MaxTime >= 1
  /\ MaxDrillIds \in Nat /\ MaxLookups \in Nat
  BY PracticeAssumption

LEMMA PageShownRange ==
  ASSUME NEW b \in PracticeBoards, NEW t \in Nat
  PROVE  PageShown(b, t) \in {NoPage} \cup 0..(PageCount(b.drills) - 1)
<1>1. PICK pages \in Nat : pages = PageCount(b.drills) /\ pages >= 1
  BY PageCounts DEF PracticeBoards
<1>2. b.drills \in Seq(Drills) /\ b.left \in Nat /\ b.startedAt \in Nat /\ b.overviewUntil \in Nat
  BY DEF PracticeBoards
<1>3. \A n \in Int : AtLeastZero(n) \in Nat
  BY DEF AtLeastZero
<1>4. \A n \in Nat : AtMost(pages - 1, n) \in 0..pages - 1
  BY <1>1 DEF AtMost
<1>5. ManualPreview(b, t) = NoPreview \/ ManualPreview(b, t).page \in 0..pages - 1
  <2>1. t - (b.overviewUntil - pages) \in Int
    BY <1>1, <1>2
  <2>2. PICK e \in Nat : e = AtLeastZero(t - (b.overviewUntil - pages))
    BY <1>3, <2>1
  <2>3. ManualPreview(b, t) = IF b.overviewUntil <= t THEN NoPreview
          ELSE [until |-> b.overviewUntil, page |-> AtMost(pages - 1, e)]
    BY <1>1, <2>2 DEF ManualPreview
  <2>4. AtMost(pages - 1, e) \in 0..pages - 1
    BY <1>4
  <2>5. QED
    BY <2>3, <2>4
<1>6. AutomaticPreview(b, t) = NoPreview \/ AutomaticPreview(b, t).page \in 0..pages - 1
  <2>1. CASE ActiveDrills(b) = {}
    BY <2>1 DEF AutomaticPreview
  <2>2. CASE ActiveDrills(b) # {}
    <3> DEFINE i == CHOOSE j \in ActiveDrills(b) : TRUE
               left == b.left - AtLeastZero(t - b.startedAt)
               length == b.drills[i].length
               elapsed == AtLeastZero(length - left)
               cycle == IF PreviewInterval > pages + 1 THEN PreviewInterval ELSE pages + 1
               position == (elapsed - PreviewInterval) % cycle
    <3>1. i \in DOMAIN b.drills
      BY <2>2 DEF ActiveDrills
    <3> HIDE DEF i
    <3>2. b.drills[i] \in Drills
      BY <1>2, <3>1, LenProperties, ElementOfSeq
    <3>3. length \in Nat
      <4>1. PICK n \in 0..MaxLength : n = length
        BY <3>2 DEF Drills
      <4>2. n \in Nat
        BY PracticeBounds
      <4>3. QED
        BY <4>1, <4>2
    <3>4. left \in Int
      <4>0. t - b.startedAt \in Int
        BY <1>2
      <4>1. AtLeastZero(t - b.startedAt) \in Nat
        BY <1>3, <4>0
      <4>2. QED
        BY <1>2, <4>1
    <3> HIDE DEF left, length
    <3>5. elapsed \in Nat
      BY <1>3, <3>3, <3>4
    <3>6. cycle \in Nat \ {0} /\ PreviewInterval \in Nat
      BY <1>1, ScheduleAssumption
    <3> HIDE DEF elapsed, cycle
    <3>7. position \in Nat
      BY <3>5, <3>6
    <3> HIDE DEF position
    <3>8. AutomaticPreview(b, t) = NoPreview
          \/ AutomaticPreview(b, t) = [until |-> t + pages - position, page |-> AtMost(pages - 1, position)]
      BY <1>1 DEF AutomaticPreview, position, cycle, elapsed, length, left, i
    <3>9. AtMost(pages - 1, position) \in 0..pages - 1
      BY <1>4, <3>7
    <3>10. QED
      BY <3>8, <3>9
  <2>3. QED
    BY <2>1, <2>2
<1>7. t % pages \in 0..pages - 1
  BY <1>1
<1>8. QED
  BY <1>1, <1>5, <1>6, <1>7 DEF PageShown

-----------------------------------------------------------------------------
(* Boards, and what they say of the period that is on.                     *)

\* The boards that are sent, shown and saved.
SoundBoards == {b \in PracticeBoards : Sound(b)}

LEMMA IdsAreIds == ASSUME NEW s \in Seq(Drills) PROVE IdsOf(s) \subseteq 1..MaxDrillIds /\ NoDrill \notin IdsOf(s)
<1>1. ASSUME NEW i \in DOMAIN s PROVE s[i].id \in 1..MaxDrillIds
  <2>1. s[i] \in Drills
    BY LenProperties, ElementOfSeq
  <2>2. QED
    BY <2>1 DEF Drills
<1>2. IdsOf(s) \subseteq 1..MaxDrillIds
  BY <1>1 DEF IdsOf
<1>3. QED
  BY <1>2 DEF NoDrill

LEMMA SoundFacts ==
  ASSUME NEW b \in SoundBoards
  PROVE  /\ b \in PracticeBoards /\ b.drills \in Seq(Drills) /\ Serialized(b.drills) = b.drills
         /\ b.active \in 0..MaxDrillIds /\ b.status \in Statuses
         /\ b.left \in Nat /\ b.startedAt \in Nat /\ b.overviewUntil \in Nat
         /\ b.weather \in BOOLEAN /\ b.logo \in BOOLEAN
         /\ b.active \in IdsOf(b.drills) \/ (b.active = NoDrill /\ b.status = "idle")
         /\ b.startedAt # NoTime <=> b.status = "running" /\ b.left > 0
  BY DEF SoundBoards, Sound, PracticeBoards

LEMMA RemainingType ==
  ASSUME NEW b \in PracticeBoards, NEW t \in Nat
  PROVE  Remaining(b, t) \in Nat
<1>1. b.left \in Nat /\ b.startedAt \in Nat
  BY DEF PracticeBoards
<1>2. QED
  BY <1>1 DEF Remaining, AtLeastZero

\* A snapshot says the same of the period at the moment at which it is taken.
LEMMA SnapshotSound ==
  ASSUME NEW b \in SoundBoards, now \in Nat, now >= 1
  PROVE  /\ SnapshotBoard(b) \in SoundBoards
         /\ SnapshotBoard(b).drills = b.drills /\ SnapshotBoard(b).active = b.active
         /\ SnapshotBoard(b).status = b.status
         /\ SamePeriod(SnapshotBoard(b), b)
<1>1. PICK r \in Nat : r = Remaining(b, now)
  BY RemainingType, SoundFacts
<1>2. PICK since : since = IF b.status # "running" \/ r = 0 THEN NoTime
                           ELSE IF b.startedAt > now THEN b.startedAt ELSE now
  OBVIOUS
<1>3. since \in Nat /\ (since # NoTime <=> b.status = "running" /\ r > 0)
  BY <1>1, <1>2, SoundFacts DEF NoTime
<1>4. PICK s : s = [b EXCEPT !.left = r, !.startedAt = since]
  OBVIOUS
<1>5. SnapshotBoard(b) = s
  BY <1>1, <1>2, <1>4 DEF SnapshotBoard
<1>6. b \in PracticeBoards
  BY SoundFacts
<1>7. /\ s.drills = b.drills /\ s.active = b.active /\ s.status = b.status
      /\ s.left = r /\ s.startedAt = since
  BY <1>4, <1>6 DEF PracticeBoards
<1>8. s \in PracticeBoards
  BY <1>1, <1>3, <1>4, <1>6 DEF PracticeBoards
<1>9. s \in SoundBoards
  <2>1. Serialized(s.drills) = s.drills
    BY <1>7, SoundFacts
  <2>2. s.active \in IdsOf(s.drills) \/ (s.active = NoDrill /\ s.status = "idle")
    BY <1>7, SoundFacts
  <2>3. s.startedAt # NoTime <=> s.status = "running" /\ s.left > 0
    BY <1>3, <1>7
  <2>4. QED
    BY <1>8, <2>1, <2>2, <2>3 DEF SoundBoards, Sound
<1>10. Remaining(s, now) = r
  BY <1>1, <1>2, <1>7, SoundFacts DEF Remaining, AtLeastZero, NoTime
<1>11. AtLeastZero(s.startedAt - now) = AtLeastZero(b.startedAt - now)
  <2>1. b.startedAt \in Nat /\ (b.startedAt # NoTime <=> b.status = "running" /\ b.left > 0) /\ b.left \in Nat
    BY SoundFacts
  <2>2. b.startedAt > now => r = b.left
    BY <1>1, <2>1 DEF Remaining, AtLeastZero, NoTime
  <2>3. QED
    BY <1>2, <1>3, <1>7, <2>1, <2>2 DEF AtLeastZero, NoTime
<1>12. QED
  BY <1>1, <1>5, <1>7, <1>9, <1>10, <1>11 DEF SamePeriod

\* What two boards say of the period is the same a moment later.
LEMMA TimeUsesUp ==
  ASSUME NEW b \in SoundBoards, NEW t \in Nat
  PROVE  /\ Remaining(b, t + 1) = IF b.status = "running" /\ AtLeastZero(b.startedAt - t) = 0
                                  THEN AtLeastZero(Remaining(b, t) - 1) ELSE Remaining(b, t)
         /\ AtLeastZero(b.startedAt - (t + 1)) = AtLeastZero(AtLeastZero(b.startedAt - t) - 1)
<1>1. /\ b.startedAt \in Nat /\ b.left \in Nat
      /\ b.startedAt # NoTime <=> b.status = "running" /\ b.left > 0
  BY SoundFacts
<1>2. AtLeastZero(b.startedAt - (t + 1)) = AtLeastZero(AtLeastZero(b.startedAt - t) - 1)
  BY <1>1 DEF AtLeastZero
<1>3. CASE b.status = "running" /\ b.left > 0
  BY <1>1, <1>3 DEF Remaining, AtLeastZero, NoTime
<1>4. CASE ~(b.status = "running" /\ b.left > 0)
  BY <1>1, <1>4 DEF Remaining, AtLeastZero, NoTime
<1>5. QED
  BY <1>2, <1>3, <1>4

\* What SamePeriod says, at time t.
SamePeriodAt(b, c, t) ==
  /\ b.active = c.active /\ b.status = c.status
  /\ Remaining(b, t) = Remaining(c, t)
  /\ AtLeastZero(b.startedAt - t) = AtLeastZero(c.startedAt - t)

LEMMA PeriodLasts ==
  ASSUME NEW b \in SoundBoards, NEW c \in SoundBoards, NEW t \in Nat, SamePeriodAt(b, c, t)
  PROVE  SamePeriodAt(b, c, t + 1)
<1>1. Remaining(b, t + 1) = Remaining(c, t + 1)
  BY TimeUsesUp DEF SamePeriodAt
<1>2. AtLeastZero(b.startedAt - (t + 1)) = AtLeastZero(c.startedAt - (t + 1))
  BY TimeUsesUp DEF SamePeriodAt
<1>3. QED
  BY <1>1, <1>2 DEF SamePeriodAt

LEMMA PeriodRelation ==
  \A b, c, d : /\ SamePeriod(b, b)
               /\ SamePeriod(b, c) => SamePeriod(c, b)
               /\ SamePeriod(b, c) /\ SamePeriod(c, d) => SamePeriod(b, d)
  BY DEF SamePeriod

\* The board that is built from a plan and a board.
LEMMA BoardWithSound ==
  ASSUME NEW s \in Seq(Drills), NEW b \in SoundBoards, now \in Nat, now >= 1
  PROVE  /\ BoardWith(s, b) \in SoundBoards /\ BoardWith(s, b).drills = Serialized(s)
         /\ b.active \in IdsOf(Serialized(s)) =>
              BoardWith(s, b).active = b.active /\ BoardWith(s, b).status = b.status
              /\ SamePeriod(BoardWith(s, b), b)
         /\ b.active \notin IdsOf(Serialized(s)) => BoardWith(s, b).status = "idle"
<1> DEFINE base == [SnapshotBoard(b) EXCEPT !.drills = Serialized(s)]
           blank == [base EXCEPT !.active = NoDrill, !.status = "idle", !.left = 0, !.startedAt = NoTime]
<1>1. PICK n \in SoundBoards : /\ n = SnapshotBoard(b) /\ n.active = b.active /\ n.status = b.status
                               /\ SamePeriod(n, b)
  BY SnapshotSound
<1>2. Serialized(s) \in Seq(Drills) /\ Serialized(Serialized(s)) = Serialized(s)
  BY SerializedFacts
<1>3. n \in PracticeBoards
  BY SoundFacts
<1>4. base = [n EXCEPT !.drills = Serialized(s)]
  BY <1>1
<1> HIDE DEF base
<1>5. /\ base.drills = Serialized(s) /\ base.active = b.active /\ base.status = b.status
      /\ base.left = n.left /\ base.startedAt = n.startedAt
  BY <1>1, <1>3, <1>4 DEF PracticeBoards
<1>6. base \in PracticeBoards
  BY <1>2, <1>3, <1>4 DEF PracticeBoards
<1>7. BoardWith(s, b) = IF b.active \in IdsOf(base.drills) THEN base ELSE blank
  BY DEF BoardWith, base
<1>8. CASE b.active \in IdsOf(Serialized(s))
  <2>1. base.startedAt # NoTime <=> base.status = "running" /\ base.left > 0
    BY <1>1, <1>5, SoundFacts
  <2>2. base \in SoundBoards
    BY <1>2, <1>5, <1>6, <1>8, <2>1 DEF SoundBoards, Sound
  <2>3. SamePeriod(base, n)
    BY <1>1, <1>5 DEF SamePeriod, Remaining
  <2>4. SamePeriod(base, b)
    BY <1>1, <2>3, PeriodRelation
  <2>5. BoardWith(s, b) = base
    BY <1>5, <1>7, <1>8
  <2>6. QED
    BY <1>5, <1>8, <2>2, <2>4, <2>5
<1>9. CASE b.active \notin IdsOf(Serialized(s))
  <2>1. blank \in PracticeBoards
    <3>1. NoDrill \in 0..MaxDrillIds /\ "idle" \in Statuses /\ 0 \in Nat /\ NoTime \in Nat
      BY PracticeBounds DEF NoDrill, Statuses, NoTime
    <3>2. PICK x : x = [base EXCEPT !.active = NoDrill, !.status = "idle"]
      OBVIOUS
    <3>3. x \in PracticeBoards
      BY <1>6, <3>1, <3>2 DEF PracticeBoards
    <3>4. blank = [x EXCEPT !.left = 0, !.startedAt = NoTime]
      BY <1>6, <3>2 DEF PracticeBoards
    <3>5. [x EXCEPT !.left = 0, !.startedAt = NoTime] \in PracticeBoards
      BY <3>1, <3>3 DEF PracticeBoards
    <3>6. QED
      BY <3>4, <3>5
  <2>2. /\ blank.drills = Serialized(s) /\ blank.active = NoDrill /\ blank.status = "idle"
        /\ blank.startedAt = NoTime
    BY <1>5, <1>6 DEF PracticeBoards
  <2> HIDE DEF blank
  <2>3. blank \in SoundBoards
    BY <1>2, <2>1, <2>2 DEF SoundBoards, Sound
  <2>4. BoardWith(s, b) = blank
    BY <1>5, <1>7, <1>9
  <2>5. QED
    BY <1>9, <2>2, <2>3, <2>4
<1>10. QED
  BY <1>8, <1>9

-----------------------------------------------------------------------------
(* The data of the page.                                                   *)

PracticeKinds == {"save", "preview", "logo", "timer", "weather", "preload"}
BoardCalls == [id : Nat, kind : PracticeKinds, board : SoundBoards, back : SoundBoards,
               stage : {"sent", "stored"}, fresh : BOOLEAN]
Waits == [kind : {"weather", "logo"}, plan : Seq(Drills), board : SoundBoards, fresh : BOOLEAN]
Preloads == [id : PreloadIds, board : SoundBoards]
PreloadChoices == PreloadIds \cup {NoPreload}

PlanTypes ==
  /\ now \in 1..MaxTime /\ now \in Nat /\ now >= 1
  /\ plan \in Seq(Drills) /\ WithinLimits(plan) /\ unit \in Units /\ drillIds \in 0..MaxDrillIds
BoardTypes ==
  /\ board \in SoundBoards /\ display \in SoundBoards
  /\ dirty \in BOOLEAN /\ sending \in BOOLEAN /\ misled \in BOOLEAN
  /\ boardCalls \in SUBSET BoardCalls /\ \E n \in Nat : \A c \in boardCalls : c.id <= n
WaitTypes == lookups \in SUBSET Waits
PreloadTypes ==
  /\ preloads \in SUBSET Preloads /\ listed \in SUBSET Preloads /\ chosen \in PreloadChoices
  /\ keeping \in {NotKeeping} \cup [id : PreloadChoices, board : SoundBoards]
  /\ removing \in [id : PreloadChoices, chosen : PreloadChoices]
PracticeData == PlanTypes /\ BoardTypes /\ WaitTypes /\ PreloadTypes

LEMMA PracticeDataTypes == PracticeData => PracticeTypeOK
<1> SUFFICES ASSUME PracticeData PROVE PracticeTypeOK
  OBVIOUS
<1>1. now \in 1..MaxTime /\ plan \in Seq(Drills) /\ unit \in Units
  BY DEF PracticeData, PlanTypes
<1>2. board \in PracticeBoards /\ display \in PracticeBoards
  BY DEF PracticeData, BoardTypes, SoundBoards
<1>3. dirty \in BOOLEAN /\ sending \in BOOLEAN /\ misled \in BOOLEAN
  BY DEF PracticeData, BoardTypes
<1>4. ASSUME NEW c \in boardCalls
      PROVE  c.board \in PracticeBoards /\ c.back \in PracticeBoards /\ c.stage \in {"sent", "stored"}
  <2>1. c \in BoardCalls
    BY DEF PracticeData, BoardTypes
  <2>2. QED
    BY <2>1, SoundFacts DEF BoardCalls
<1>5. ASSUME NEW l \in lookups
      PROVE  l.kind \in {"weather", "logo"} /\ l.board \in PracticeBoards /\ l.plan \in Seq(Drills)
  <2>1. l \in Waits
    BY DEF PracticeData, WaitTypes
  <2>2. QED
    BY <2>1, SoundFacts DEF Waits
<1>6. ASSUME NEW p \in preloads \cup listed PROVE p.id \in PreloadIds /\ p.board \in PracticeBoards
  <2>1. p \in Preloads
    BY DEF PracticeData, PreloadTypes
  <2>2. QED
    BY <2>1, SoundFacts DEF Preloads
<1>7. chosen \in PreloadIds \cup {NoPreload}
  BY DEF PracticeData, PreloadTypes, PreloadChoices
<1>8. QED
  BY <1>1, <1>2, <1>3, <1>4, <1>5, <1>6, <1>7 DEF PracticeTypeOK

-----------------------------------------------------------------------------
(* What the page sends.                                                    *)

\* The next number after those of the commands under way.
LEMMA NextCallId ==
  ASSUME BoardTypes
  PROVE  1 + Max({0} \cup {c.id : c \in boardCalls}) \in Nat
<1> DEFINE S == {0} \cup {c.id : c \in boardCalls}
<1>1. \A c \in boardCalls : c.id \in Nat
  BY DEF BoardTypes, BoardCalls
<1>2. S \in SUBSET Nat /\ S # {}
  BY <1>1
<1>3. PICK b \in Nat : \A n \in S : n <= b
  BY DEF BoardTypes
<1>4. PICK m \in S : \A n \in S : n <= m
  <2> HIDE DEF S
  <2>1. QED
    BY <1>2, <1>3, GreatestNumber
<1>5. \A n \in S : m >= n
  <2>1. m \in Nat /\ \A n \in S : n \in Nat /\ n <= m
    BY <1>2, <1>4
  <2>2. QED
    BY <2>1
<1>6. Max(S) \in S
  <2> HIDE DEF S
  <2>1. QED
    BY <1>4, <1>5 DEF Max
<1>7. Max(S) \in Nat
  BY <1>2, <1>6
<1>8. QED
  BY <1>7

LEMMA PeriodNow == \A b, c : SamePeriod(b, c) <=> SamePeriodAt(b, c, now)
  BY DEF SamePeriod, SamePeriodAt

LEMMA PeriodAtRelation ==
  \A b, c, d, t : /\ SamePeriodAt(b, b, t)
                  /\ SamePeriodAt(b, c, t) => SamePeriodAt(c, b, t)
                  /\ SamePeriodAt(b, c, t) /\ SamePeriodAt(c, d, t) => SamePeriodAt(b, d, t)
  BY DEF SamePeriodAt

\* A command that leaves now.
Leaves(call, what, b, back, fresh) ==
  /\ call \in BoardCalls /\ call.kind = what /\ call.back = back /\ call.stage = "sent" /\ call.fresh = fresh
  /\ board' = call.board /\ call.board.drills = b.drills /\ SamePeriodAt(call.board, b, now)
  /\ boardCalls' = boardCalls \cup {call}

LEMMA Dispatched ==
  ASSUME PracticeData, NEW what \in PracticeKinds, NEW b \in SoundBoards, NEW back \in SoundBoards,
         NEW fresh \in BOOLEAN, Dispatch(what, b, back, fresh)
  PROVE  /\ \E call : Leaves(call, what, b, back, fresh)
         /\ sending' \in BOOLEAN /\ misled' \in BOOLEAN
         /\ ~misled' => ~misled /\ boardCalls = {} /\ b.drills = Serialized(plan')
<1>1. now \in Nat /\ now >= 1
  BY DEF PracticeData, PlanTypes
<1>2. PICK s \in SoundBoards : /\ s = SnapshotBoard(b) /\ s.drills = b.drills /\ SamePeriod(s, b)
  BY <1>1, SnapshotSound
<1>3. PICK n \in Nat : n = 1 + Max({0} \cup {c.id : c \in boardCalls})
  BY NextCallId DEF PracticeData
<1>4. PICK call : call = [id |-> n, kind |-> what, board |-> s, back |-> back, stage |-> "sent", fresh |-> fresh]
  OBVIOUS
<1>5. /\ call \in BoardCalls /\ call.kind = what /\ call.back = back /\ call.stage = "sent"
      /\ call.fresh = fresh /\ call.board = s
  BY <1>4 DEF BoardCalls
<1>6. boardCalls' = boardCalls \cup {call} /\ board' = s
  BY <1>2, <1>3, <1>4 DEF Dispatch
<1>7. SamePeriodAt(s, b, now)
  BY <1>2, PeriodNow
<1>8. Leaves(call, what, b, back, fresh)
  BY <1>2, <1>5, <1>6, <1>7 DEF Leaves
<1>9. sending' \in BOOLEAN
  BY DEF Dispatch
<1>10. misled' = (misled \/ boardCalls # {} \/ b.drills # Serialized(plan'))
  BY DEF Dispatch
<1>11. misled' \in BOOLEAN
  BY <1>10, Zenon
<1>12. ~misled' => ~misled /\ boardCalls = {} /\ b.drills = Serialized(plan')
  BY <1>10
<1>13. QED
  BY <1>8, <1>9, <1>11, <1>12

-----------------------------------------------------------------------------
(* What the presses send.                                                  *)

LEMMA DrillOfFacts ==
  ASSUME NEW s \in Seq(Drills), NEW id \in IdsOf(s)
  PROVE  DrillOf(s, id) \in Drills /\ DrillOf(s, id).length \in Nat
<1>1. PICK i \in DOMAIN s : i = CHOOSE j \in DOMAIN s : s[j].id = id
  BY DEF IdsOf
<1>2. DrillOf(s, id) = s[i]
  BY <1>1 DEF DrillOf
<1>3. s[i] \in Drills
  BY LenProperties, ElementOfSeq
<1>4. PICK n \in 0..MaxLength : n = s[i].length
  BY <1>3 DEF Drills
<1>5. n \in Nat
  BY PracticeBounds
<1>6. QED
  BY <1>2, <1>3, <1>4, <1>5

\* Another period of the board is made active.
LEMMA ActiveBoard ==
  ASSUME NEW b \in SoundBoards, NEW id \in IdsOf(b.drills)
  PROVE  [b EXCEPT !.active = id] \in SoundBoards /\ [b EXCEPT !.active = id].drills = b.drills
         /\ [b EXCEPT !.active = id].active = id
<1>1. PICK c : c = [b EXCEPT !.active = id]
  OBVIOUS
<1>2. b \in PracticeBoards /\ id \in 0..MaxDrillIds
  BY SoundFacts, IdsAreIds
<1>3. c \in PracticeBoards
  BY <1>1, <1>2 DEF PracticeBoards
<1>4. c.drills = b.drills /\ c.active = id /\ c.status = b.status /\ c.left = b.left /\ c.startedAt = b.startedAt
  BY <1>1, <1>2 DEF PracticeBoards
<1>5. Serialized(c.drills) = c.drills /\ (c.startedAt # NoTime <=> c.status = "running" /\ c.left > 0)
  BY <1>4, SoundFacts
<1>6. QED
  BY <1>1, <1>3, <1>4, <1>5 DEF SoundBoards, Sound

\* A time since which the period runs, if it runs and has time left.
ClockSet(st, l, t) == t # NoTime <=> st = "running" /\ l > 0

Timed(b, st, l, t, o) == [b EXCEPT !.status = st, !.left = l, !.startedAt = t, !.overviewUntil = o]

\* The clock of the active period is set.
LEMMA TimedBoard ==
  ASSUME NEW b \in SoundBoards, b.active \in IdsOf(b.drills), NEW st \in Statuses, NEW l \in Nat,
         NEW t \in Nat, ClockSet(st, l, t), NEW o \in Nat
  PROVE  Timed(b, st, l, t, o) \in SoundBoards /\ Timed(b, st, l, t, o).drills = b.drills
<1>1. PICK x : x = [b EXCEPT !.status = st, !.left = l]
  OBVIOUS
<1>2. PICK c : c = [x EXCEPT !.startedAt = t, !.overviewUntil = o]
  OBVIOUS
<1>3. b \in PracticeBoards
  BY SoundFacts
<1>4. x \in PracticeBoards
  BY <1>1, <1>3 DEF PracticeBoards
<1>5. c \in PracticeBoards
  BY <1>2, <1>4 DEF PracticeBoards
<1>6. x.drills = b.drills /\ x.active = b.active /\ x.status = st /\ x.left = l
  BY <1>1, <1>3 DEF PracticeBoards
<1>7. c.drills = b.drills /\ c.active = b.active /\ c.status = st /\ c.left = l /\ c.startedAt = t
  BY <1>2, <1>4, <1>6 DEF PracticeBoards
<1>8. Serialized(c.drills) = c.drills
  BY <1>7, SoundFacts
<1>9. c \in SoundBoards
  BY <1>5, <1>7, <1>8 DEF SoundBoards, Sound, ClockSet
<1>10. c = Timed(b, st, l, t, o)
  BY <1>1, <1>2, <1>3 DEF PracticeBoards, Timed
<1>11. QED
  BY <1>7, <1>9, <1>10

\* What is not about the period is changed.
LEMMA LabelledBoard ==
  ASSUME NEW b \in SoundBoards, NEW o \in Nat, NEW w \in BOOLEAN, NEW g \in BOOLEAN,
         NEW c \in {[b EXCEPT !.overviewUntil = o], [b EXCEPT !.weather = w], [b EXCEPT !.logo = g]}
  PROVE  c \in SoundBoards /\ c.drills = b.drills /\ \A t : SamePeriodAt(c, b, t)
<1>1. b \in PracticeBoards
  BY SoundFacts
<1>2. c \in PracticeBoards
  BY <1>1 DEF PracticeBoards
<1>3. c.drills = b.drills /\ c.active = b.active /\ c.status = b.status /\ c.left = b.left /\ c.startedAt = b.startedAt
  BY <1>1 DEF PracticeBoards
<1>4. Serialized(c.drills) = c.drills /\ (c.startedAt # NoTime <=> c.status = "running" /\ c.left > 0)
      /\ (c.active \in IdsOf(c.drills) \/ (c.active = NoDrill /\ c.status = "idle"))
  BY <1>3, SoundFacts
<1>5. c \in SoundBoards
  BY <1>2, <1>4 DEF SoundBoards, Sound
<1>6. \A t : SamePeriodAt(c, b, t)
  BY <1>3 DEF SamePeriodAt, Remaining
<1>7. QED
  BY <1>3, <1>5, <1>6

\* A command that is not about the clock leaves the period of "from" alone.
Keeps(what, b, from) ==
  what # "timer" /\ from.status # "idle" /\ from.active \in IdsOf(b.drills) => SamePeriodAt(b, from, now)

Pressed ==
  \E what \in PracticeKinds, b \in SoundBoards :
    Send(what, b) /\ b.drills = Serialized(plan) /\ Keeps(what, b, board)

LEMMA PressedWith ==
  ASSUME NEW what \in PracticeKinds, NEW b \in SoundBoards, Send(what, b), b.drills = Serialized(plan),
         what = "timer" \/ Keeps(what, b, board)
  PROVE  Pressed
  BY DEF Pressed, Keeps

LEMMA CurrentFacts ==
  ASSUME PracticeData
  PROVE  /\ CurrentBoard \in SoundBoards /\ CurrentBoard.drills = Serialized(plan)
         /\ board.active \in IdsOf(Serialized(plan)) =>
              CurrentBoard.active = board.active /\ CurrentBoard.status = board.status
              /\ SamePeriodAt(CurrentBoard, board, now)
         /\ board.active \notin IdsOf(Serialized(plan)) => CurrentBoard.status = "idle"
         /\ IdsOf(Serialized(plan)) = IdsOf(plan)
<1>1. plan \in Seq(Drills) /\ board \in SoundBoards /\ now \in Nat /\ now >= 1 /\ WithinLimits(plan)
  BY DEF PracticeData, PlanTypes, BoardTypes
<1>2. IdsOf(Serialized(plan)) = IdsOf(plan)
  BY <1>1, SerializedWhole DEF WithinLimits
<1>3. QED
  BY <1>1, <1>2, BoardWithSound, PeriodNow DEF CurrentBoard

LEMMA PagesOfPlan == PracticeData => PageCount(Serialized(plan)) \in Nat /\ now \in Nat /\ now >= 1
<1> SUFFICES ASSUME PracticeData PROVE PageCount(Serialized(plan)) \in Nat /\ now \in Nat /\ now >= 1
  OBVIOUS
<1>1. plan \in Seq(Drills) /\ now \in Nat /\ now >= 1
  BY DEF PracticeData, PlanTypes
<1>2. Serialized(plan) \in Seq(Drills)
  BY <1>1, SerializedFacts
<1>3. QED
  BY <1>1, <1>2, PageCounts

LEMMA SavePressed == PracticeData /\ SaveBoard => Pressed
<1> SUFFICES ASSUME PracticeData, SaveBoard PROVE Pressed
  OBVIOUS
<1>1. PICK c \in SoundBoards : c = CurrentBoard
  BY CurrentFacts
<1>2. c.drills = Serialized(plan)
  BY <1>1, CurrentFacts, SoundFacts
<1>3. CASE c.status = "idle" /\ c.active # NoDrill
  <2>1. c.active \in IdsOf(c.drills) /\ c.drills \in Seq(Drills) /\ c \in PracticeBoards /\ c.startedAt = NoTime
    BY <1>3, SoundFacts
  <2>2. PICK l \in Nat : l = DrillOf(c.drills, c.active).length
    BY <2>1, DrillOfFacts
  <2>3. PICK b : b = [c EXCEPT !.left = l]
    OBVIOUS
  <2>4. b \in PracticeBoards
    BY <2>1, <2>3 DEF PracticeBoards
  <2>5. b.drills = c.drills /\ b.active = c.active /\ b.status = "idle" /\ b.startedAt = NoTime
    BY <1>3, <2>1, <2>3 DEF PracticeBoards
  <2>6. Serialized(b.drills) = b.drills
    BY <2>5, SoundFacts
  <2>7. b \in SoundBoards
    BY <2>1, <2>4, <2>5, <2>6 DEF SoundBoards, Sound
  <2>8. Send("save", b)
    BY <1>1, <1>3, <2>2, <2>3 DEF SaveBoard
  <2>9. ~(board.status # "idle" /\ board.active \in IdsOf(b.drills))
    BY <1>1, <1>2, <1>3, <2>5, CurrentFacts
  <2>10. Keeps("save", b, board)
    BY <2>9 DEF Keeps
  <2>11. QED
    BY <1>2, <2>5, <2>7, <2>8, <2>10, PressedWith DEF PracticeKinds
<1>4. CASE ~(c.status = "idle" /\ c.active # NoDrill)
  <2>1. Send("save", c)
    BY <1>1, <1>4 DEF SaveBoard
  <2>2. Keeps("save", c, board)
    BY <1>1, <1>2, CurrentFacts DEF Keeps
  <2>3. QED
    BY <1>2, <2>1, <2>2, PressedWith DEF PracticeKinds
<1>5. QED
  BY <1>3, <1>4

LEMMA LabelPressed ==
  ASSUME PracticeData, NEW what \in PracticeKinds, NEW b \in SoundBoards, Send(what, b),
         b.drills = CurrentBoard.drills, \A t : SamePeriodAt(b, CurrentBoard, t)
  PROVE  Pressed
<1>1. b.drills = Serialized(plan)
  BY CurrentFacts
<1>2. SamePeriodAt(b, CurrentBoard, now)
  OBVIOUS
<1>3. board.active \in IdsOf(b.drills) => SamePeriodAt(CurrentBoard, board, now)
  BY <1>1, CurrentFacts
<1>4. Keeps(what, b, board)
  BY <1>2, <1>3, PeriodAtRelation DEF Keeps
<1>5. QED
  BY <1>1, <1>4, PressedWith

LEMMA PreviewPressed == PracticeData /\ (PreviewSchedule \/ RemoveSchoolLogo) => Pressed
<1> SUFFICES ASSUME PracticeData, PreviewSchedule \/ RemoveSchoolLogo PROVE Pressed
  OBVIOUS
<1>1. PICK c \in SoundBoards : c = CurrentBoard
  BY CurrentFacts
<1>2. CASE PreviewSchedule
  <2>1. PICK o \in Nat : o = now + PageCount(Serialized(plan))
    BY PagesOfPlan
  <2>2. PICK b : b = [c EXCEPT !.overviewUntil = o]
    OBVIOUS
  <2>3. b \in SoundBoards /\ b.drills = c.drills /\ \A t : SamePeriodAt(b, c, t)
    BY <2>2, LabelledBoard
  <2>4. Send("preview", b)
    BY <1>1, <1>2, <2>1, <2>2 DEF PreviewSchedule
  <2>5. QED
    BY <1>1, <2>3, <2>4, LabelPressed DEF PracticeKinds
<1>3. CASE RemoveSchoolLogo
  <2>1. PICK b : b = [c EXCEPT !.logo = FALSE]
    OBVIOUS
  <2>2. b \in SoundBoards /\ b.drills = c.drills /\ \A t : SamePeriodAt(b, c, t)
    BY <2>1, LabelledBoard
  <2>3. Send("logo", b)
    BY <1>1, <1>3, <2>1 DEF RemoveSchoolLogo
  <2>4. QED
    BY <1>1, <2>2, <2>3, LabelPressed DEF PracticeKinds
<1>4. QED
  BY <1>2, <1>3

LEMMA StartPressed ==
  ASSUME PracticeData, NEW id, NEW overview \in BOOLEAN, StartDrill(id, overview)
  PROVE  Pressed
<1>1. PICK c \in SoundBoards : c = CurrentBoard /\ c.drills = Serialized(plan)
  BY CurrentFacts
<1>2. id \in IdsOf(c.drills) /\ id \in IdsOf(plan) /\ DrillOf(plan, id).length > 0
  BY <1>1, CurrentFacts DEF StartDrill
<1>3. PICK l \in Nat : l = DrillOf(plan, id).length
  BY <1>2, DrillOfFacts DEF PracticeData, PlanTypes
<1>4. PICK starts \in Nat : starts = now + (IF overview THEN PageCount(Serialized(plan)) ELSE 0) /\ starts # NoTime
  BY PagesOfPlan DEF NoTime
<1>5. PICK o \in Nat : o = IF overview THEN starts ELSE NoTime
  BY DEF NoTime
<1>6. PICK a : a = [c EXCEPT !.active = id]
  OBVIOUS
<1>7. a \in SoundBoards /\ a.drills = c.drills /\ a.active = id
  BY <1>2, <1>6, ActiveBoard
<1>8. PICK b : b = Timed(a, "running", l, starts, o)
  OBVIOUS
<1>9. "running" \in Statuses /\ ClockSet("running", l, starts)
  BY <1>2, <1>3, <1>4 DEF Statuses, ClockSet
<1>10. b \in SoundBoards /\ b.drills = a.drills
  BY <1>2, <1>3, <1>4, <1>5, <1>7, <1>8, <1>9, TimedBoard
<1>11. b = [c EXCEPT !.active = id, !.status = "running", !.left = l, !.startedAt = starts, !.overviewUntil = o]
  <2>1. c \in PracticeBoards
    BY SoundFacts
  <2>2. QED
    BY <1>6, <1>8, <2>1 DEF PracticeBoards, Timed
<1>12. Send("timer", b)
  BY <1>1, <1>3, <1>4, <1>5, <1>11 DEF StartDrill
<1>13. QED
  BY <1>1, <1>7, <1>10, <1>12, PressedWith DEF PracticeKinds

\* Resume, stop and complete set the clock of the period that is on.
LEMMA TimedPressed ==
  ASSUME PracticeData, HasActiveDrill, NEW st \in Statuses, NEW l \in Nat,
         NEW t \in Nat, ClockSet(st, l, t), NEW o \in Nat,
         Send("timer", [CurrentBoard EXCEPT !.status = st, !.left = l, !.startedAt = t, !.overviewUntil = o])
  PROVE  Pressed
<1>1. PICK c \in SoundBoards : c = CurrentBoard /\ c.drills = Serialized(plan)
  BY CurrentFacts
<1>2. c.active \in IdsOf(c.drills)
  BY <1>1, CurrentFacts DEF HasActiveDrill
<1>3. PICK b : b = Timed(c, st, l, t, o)
  OBVIOUS
<1>4. b \in SoundBoards /\ b.drills = c.drills
  BY <1>2, <1>3, TimedBoard
<1>5. Send("timer", b)
  BY <1>1, <1>3 DEF Timed
<1>6. QED
  BY <1>1, <1>4, <1>5, PressedWith DEF PracticeKinds

LEMMA ClockPressed == PracticeData /\ (ResumeDrill \/ StopDrill) => Pressed
<1> SUFFICES ASSUME PracticeData, ResumeDrill \/ StopDrill PROVE Pressed
  OBVIOUS
<1>1. now \in Nat /\ now >= 1 /\ board \in PracticeBoards
  BY SoundFacts DEF PracticeData, PlanTypes, BoardTypes
<1>2. PICK l \in Nat : l = TimeLeft
  BY <1>1, RemainingType DEF TimeLeft
<1>3. HasActiveDrill
  BY DEF ResumeDrill, StopDrill
<1>4. CASE ResumeDrill
  <2>1. Send("timer", [CurrentBoard EXCEPT !.status = "running", !.left = l, !.startedAt = now, !.overviewUntil = NoTime])
    BY <1>2, <1>4 DEF ResumeDrill
  <2>2. "running" \in Statuses /\ NoTime \in Nat /\ ClockSet("running", l, now)
    BY <1>1, <1>2, <1>4 DEF ResumeDrill, Statuses, NoTime, ClockSet
  <2>3. QED
    BY <1>1, <1>3, <2>1, <2>2, TimedPressed
<1>5. CASE StopDrill
  <2>1. Send("timer", [CurrentBoard EXCEPT !.status = "paused", !.left = l, !.startedAt = NoTime, !.overviewUntil = NoTime])
    BY <1>2, <1>5 DEF StopDrill
  <2>2. "paused" \in Statuses /\ NoTime \in Nat /\ ClockSet("paused", l, NoTime)
    BY DEF Statuses, NoTime, ClockSet
  <2>3. QED
    BY <1>3, <2>1, <2>2, TimedPressed
<1>6. QED
  BY <1>4, <1>5

LEMMA AdvancePressed == PracticeData /\ AdvanceDrill => Pressed
<1> SUFFICES ASSUME PracticeData, AdvanceDrill PROVE Pressed
  OBVIOUS
<1>1. CASE ActiveUnitIndex = Len(ControlDrills)
  <2>1. CompletePractice
    BY <1>1 DEF AdvanceDrill
  <2>2. plan \in Seq(Drills)
    BY DEF PracticeData, PlanTypes
  <2>3. ControlDrills \in Seq(Drills) /\ ControlDrills # <<>>
    BY <2>2, OfUnitMembers DEF AdvanceDrill, ControlDrills, UnitDrills
  <2>4. Len(ControlDrills) # 0
    BY <2>3, EmptySeq
  <2>5. HasActiveDrill
    BY <1>1, <2>4 DEF ActiveUnitIndex
  <2>6. PICK o \in Nat : o = now + PageCount(Serialized(plan))
    BY PagesOfPlan
  <2>7. Send("timer", [CurrentBoard EXCEPT !.status = "complete", !.left = 0, !.startedAt = NoTime, !.overviewUntil = o])
    BY <2>1, <2>6 DEF CompletePractice
  <2>8. PICK z \in Nat : z = 0
    OBVIOUS
  <2>9. "complete" \in Statuses /\ NoTime \in Nat /\ ClockSet("complete", z, NoTime)
    BY DEF Statuses, NoTime, ClockSet
  <2>10. Send("timer", [CurrentBoard EXCEPT !.status = "complete", !.left = z, !.startedAt = NoTime, !.overviewUntil = o])
    BY <2>7, <2>8
  <2>11. QED
    BY <2>5, <2>9, <2>10, TimedPressed
<1>2. CASE ActiveUnitIndex # Len(ControlDrills)
  BY <1>2, StartPressed DEF AdvanceDrill
<1>3. QED
  BY <1>1, <1>2

PracticePress == SaveBoard \/ PreviewSchedule \/ RemoveSchoolLogo
         \/ RunDrill \/ RestartDrill \/ ResumeDrill \/ StopDrill \/ AdvanceDrill \/ PreviousDrill

LEMMA PressFacts == PracticeData /\ PracticePress => Pressed
<1> SUFFICES ASSUME PracticeData, PracticePress PROVE Pressed
  OBVIOUS
<1>1. CASE RunDrill
  BY <1>1, StartPressed DEF RunDrill
<1>2. CASE RestartDrill
  BY <1>2, StartPressed DEF RestartDrill
<1>3. CASE PreviousDrill
  BY <1>3, StartPressed DEF PreviousDrill
<1>4. QED
  BY <1>1, <1>2, <1>3, SavePressed, PreviewPressed, ClockPressed, AdvancePressed DEF PracticePress

-----------------------------------------------------------------------------
(* What the edits make of the plan.                                        *)

Editing == AddDrill \/ UpdateDrill \/ RemoveDrill \/ EditAssignments \/ MoveDrill

Edited == \E next \in Seq(Drills) : Edit(next) /\ WithinLimits(next) /\ drillIds' \in 0..MaxDrillIds

LEMMA EditingFacts == PracticeData /\ Editing => Edited
<1> SUFFICES ASSUME PracticeData, Editing PROVE Edited
  OBVIOUS
<1>1. plan \in Seq(Drills) /\ WithinLimits(plan) /\ unit \in Units /\ drillIds \in 0..MaxDrillIds
  BY DEF PracticeData, PlanTypes
<1>2. DOMAIN plan = 1..Len(plan) /\ Len(plan) \in Nat
  BY <1>1, LenProperties
<1>3. \A i \in DOMAIN plan : plan[i] \in Drills
  BY <1>1, <1>2, ElementOfSeq
<1>4. CASE AddDrill
  <2>1. PICK e : e = [id |-> drillIds + 1, unit |-> unit, length |-> MaxLength, entries |-> AtMost(1, MaxAssignments)]
    OBVIOUS
  <2>2. drillIds + 1 \in 1..MaxDrillIds /\ MaxLength \in 0..MaxLength /\ AtMost(1, MaxAssignments) \in 0..MaxAssignments
    BY <1>1, <1>4, PracticeBounds DEF AddDrill, AtMost
  <2>3. e \in Drills /\ e.unit = unit
    BY <1>1, <2>1, <2>2 DEF Drills
  <2>4. Len(OfUnit(plan, e.unit)) < MaxDrillsPerUnit
    BY <1>4, <2>3 DEF AddDrill, UnitDrills
  <2>5. Append(plan, e) \in Seq(Drills) /\ WithinLimits(Append(plan, e))
    BY <1>1, <2>3, <2>4, DrillAdded
  <2>6. drillIds' \in 0..MaxDrillIds
    BY <1>1, <1>4, <2>2 DEF AddDrill
  <2>7. Edit(Append(plan, e))
    BY <1>4, <2>1 DEF AddDrill
  <2>8. QED
    BY <2>5, <2>6, <2>7 DEF Edited
<1>5. CASE RemoveDrill
  <2>1. PICK i \in DOMAIN plan : Edit(RemoveAt(plan, i))
    BY <1>5 DEF RemoveDrill
  <2>2. RemoveAt(plan, i) \in Seq(Drills) /\ WithinLimits(RemoveAt(plan, i))
    BY <1>1, <1>2, DrillRemoved
  <2>3. QED
    BY <1>1, <1>5, <2>1, <2>2 DEF Edited, RemoveDrill
<1>6. CASE UpdateDrill
  <2>1. PICK i \in DOMAIN plan, n \in 0..MaxLength : Edit([plan EXCEPT ![i].length = n])
    BY <1>6 DEF UpdateDrill
  <2>2. PICK e : e = [plan[i] EXCEPT !.length = n]
    OBVIOUS
  <2>3. e \in Drills /\ e.unit = plan[i].unit /\ e.id = plan[i].id
    BY <1>3, <2>2 DEF Drills
  <2>4. Edit([plan EXCEPT ![i] = e])
    BY <2>1, <2>2
  <2>5. [plan EXCEPT ![i] = e] \in Seq(Drills) /\ WithinLimits([plan EXCEPT ![i] = e])
    BY <1>1, <2>3, DrillChanged
  <2>6. QED
    BY <1>1, <1>6, <2>4, <2>5 DEF Edited, UpdateDrill
<1>7. CASE EditAssignments
  <2>1. PICK i \in DOMAIN plan, n \in 0..MaxAssignments : Edit([plan EXCEPT ![i].entries = n])
    BY <1>7 DEF EditAssignments
  <2>2. PICK e : e = [plan[i] EXCEPT !.entries = n]
    OBVIOUS
  <2>3. e \in Drills /\ e.unit = plan[i].unit /\ e.id = plan[i].id
    BY <1>3, <2>2 DEF Drills
  <2>4. Edit([plan EXCEPT ![i] = e])
    BY <2>1, <2>2
  <2>5. [plan EXCEPT ![i] = e] \in Seq(Drills) /\ WithinLimits([plan EXCEPT ![i] = e])
    BY <1>1, <2>3, DrillChanged
  <2>6. QED
    BY <1>1, <1>7, <2>4, <2>5 DEF Edited, EditAssignments
<1>8. CASE MoveDrill
  <2>1. PICK from \in DOMAIN UnitDrills, to \in DOMAIN UnitDrills :
          LET place(i) == Len(UnitPrefixes(plan, unit)[i])
              moved == InsertAt(RemoveAt(UnitDrills, from), to, UnitDrills[from])
          IN Edit([i \in DOMAIN plan |-> IF plan[i].unit = unit THEN moved[place(i)] ELSE plan[i]])
    BY <1>8 DEF MoveDrill
  <2>2. PICK t : t = [i \in DOMAIN plan |-> IF plan[i].unit = unit
                       THEN InsertAt(RemoveAt(UnitDrills, from), to, UnitDrills[from])[Len(UnitPrefixes(plan, unit)[i])]
                       ELSE plan[i]]
    OBVIOUS
  <2>3. Edit(t)
    BY <2>1, <2>2
  <2>4. t \in Seq(Drills) /\ WithinLimits(t)
    BY <1>1, <2>2, DrillMoved DEF UnitDrills
  <2>5. QED
    BY <1>1, <1>8, <2>3, <2>4 DEF Edited, MoveDrill
<1>9. QED
  BY <1>4, <1>5, <1>6, <1>7, <1>8 DEF Editing

-----------------------------------------------------------------------------
(* Every step in one of a few forms.                                       *)

LEMMA NormalizeSound == \A b \in SoundBoards : NormalizeBoard(b) = b
<1> SUFFICES ASSUME NEW b \in SoundBoards PROVE NormalizeBoard(b) = b
  OBVIOUS
<1>1. b \in PracticeBoards /\ Serialized(b.drills) = b.drills
      /\ (b.active \in IdsOf(b.drills) \/ b.active = NoDrill)
  BY SoundFacts
<1>2. NormalizeBoard(b) = [b EXCEPT !.drills = b.drills, !.active = b.active]
  BY <1>1 DEF NormalizeBoard
<1>3. QED
  BY <1>1, <1>2 DEF PracticeBoards

\* A fresh command: the board it was built from agrees with the display.
FromDisplay(what, b, back) ==
  /\ Keeps(what, b, back) /\ plan' = plan /\ dirty' = dirty
  /\ \/ SamePeriodAt(back, display, now)
     \/ \E l \in lookups : l.fresh /\ l.board = back

\* A command leaves, by a press, with an answer that was awaited or with a saved board.
Left(call) ==
  /\ call \in BoardCalls /\ call.stage = "sent"
  /\ board' = call.board /\ boardCalls' = boardCalls \cup {call}
  /\ display' = display /\ now' = now
  /\ \A l \in lookups' : l \in lookups
  /\ sending' \in BOOLEAN /\ misled' \in BOOLEAN
  /\ ~misled' => ~misled /\ boardCalls = {} /\ call.board.drills = Serialized(plan')
  /\ call.fresh => FromDisplay(call.kind, call.board, call.back)

LEMMA LeftBy ==
  ASSUME PracticeData, NEW what \in PracticeKinds, NEW b \in SoundBoards, NEW back \in SoundBoards,
         NEW fresh \in BOOLEAN, Dispatch(what, b, back, fresh),
         display' = display, now' = now, \A l \in lookups' : l \in lookups,
         fresh => FromDisplay(what, b, back)
  PROVE  \E call : Left(call)
<1>1. PICK call : Leaves(call, what, b, back, fresh)
  BY Dispatched
<1>2. /\ sending' \in BOOLEAN /\ misled' \in BOOLEAN
      /\ ~misled' => ~misled /\ boardCalls = {} /\ b.drills = Serialized(plan')
  BY Dispatched
<1>3. /\ call \in BoardCalls /\ call.kind = what /\ call.back = back /\ call.stage = "sent" /\ call.fresh = fresh
      /\ board' = call.board /\ call.board.drills = b.drills /\ SamePeriodAt(call.board, b, now)
      /\ boardCalls' = boardCalls \cup {call}
  BY <1>1 DEF Leaves
<1>4. Keeps(what, b, back) => Keeps(call.kind, call.board, call.back)
  BY <1>3, PeriodAtRelation DEF Keeps
<1>5. call.fresh => FromDisplay(call.kind, call.board, call.back)
  BY <1>3, <1>4 DEF FromDisplay
<1>6. QED
  BY <1>2, <1>3, <1>5 DEF Left

LEMMA PressLeaves == PracticeData /\ PracticePress => \E call : Left(call)
<1> SUFFICES ASSUME PracticeData, PracticePress PROVE \E call : Left(call)
  OBVIOUS
<1>1. PICK what \in PracticeKinds, b \in SoundBoards : Send(what, b) /\ Keeps(what, b, board)
  BY PressFacts DEF Pressed
<1>2. PICK f \in BOOLEAN : f = InStep
  BY Zenon DEF InStep
<1>3. Dispatch(what, b, board, f) /\ plan' = plan /\ dirty' = dirty /\ display' = display /\ now' = now /\ lookups' = lookups
  BY <1>1, <1>2 DEF Send, planVars
<1>4. f => SamePeriodAt(board, display, now)
  BY <1>2, PeriodNow DEF InStep
<1>5. board \in SoundBoards
  BY DEF PracticeData, BoardTypes
<1>6. f => FromDisplay(what, b, board)
  BY <1>1, <1>3, <1>4 DEF FromDisplay
<1>7. QED
  BY <1>1, <1>3, <1>5, <1>6, LeftBy

LEMMA FoundLeaves == ASSUME PracticeData, NEW l \in lookups, Found(l) PROVE \E call : Left(call)
<1>1. l \in Waits /\ now \in Nat /\ now >= 1
  BY DEF PracticeData, WaitTypes, PlanTypes
<1>2. l.kind \in {"weather", "logo"} /\ l.plan \in Seq(Drills) /\ l.board \in SoundBoards /\ l.fresh \in BOOLEAN
  BY <1>1 DEF Waits
<1>3. PICK c \in SoundBoards : /\ c = BoardWith(l.plan, l.board)
                               /\ l.board.active \in IdsOf(c.drills) => SamePeriodAt(c, l.board, now)
  BY <1>1, <1>2, BoardWithSound, PeriodNow
<1>4. PICK b : b = IF l.kind = "weather" THEN [c EXCEPT !.weather = TRUE] ELSE [c EXCEPT !.logo = TRUE]
  OBVIOUS
<1>5. b \in SoundBoards /\ b.drills = c.drills /\ \A t : SamePeriodAt(b, c, t)
  BY <1>4, LabelledBoard
<1>6. Keeps(l.kind, b, l.board)
  BY <1>3, <1>5, PeriodAtRelation DEF Keeps
<1>7. Dispatch(l.kind, b, l.board, l.fresh) /\ plan' = plan /\ dirty' = dirty /\ display' = display /\ now' = now
      /\ lookups' = lookups \ {l}
  BY <1>3, <1>4 DEF Found, planVars
<1>8. l.kind \in PracticeKinds
  BY <1>2 DEF PracticeKinds
<1>9. l.fresh => \E w \in lookups : w.fresh /\ w.board = l.board
  OBVIOUS
<1>10. \A w \in lookups' : w \in lookups
  BY <1>7
<1>11. PICK f \in BOOLEAN : f = l.fresh
  BY <1>2
<1>12. PICK k \in PracticeKinds : k = l.kind
  BY <1>8
<1>13. PICK back \in SoundBoards : back = l.board
  BY <1>2
<1>14. Dispatch(k, b, back, f) /\ (f => FromDisplay(k, b, back))
  BY <1>6, <1>7, <1>9, <1>11, <1>12, <1>13 DEF FromDisplay
<1>15. QED
  BY <1>5, <1>7, <1>10, <1>14, LeftBy

LEMMA AppliedLeaves ==
  ASSUME PracticeData, NEW p \in listed, SyncPreloadToDisplay(p)
  PROVE  \E call : Left(call)
<1>1. p.board \in SoundBoards /\ board \in SoundBoards
  BY DEF PracticeData, PreloadTypes, BoardTypes, Preloads
<1>2. PICK b \in SoundBoards : b = NormalizeBoard(p.board)
  BY <1>1, NormalizeSound
<1>3. PICK f \in BOOLEAN : ~f /\ f = FALSE
  OBVIOUS
<1>4. /\ Dispatch("preload", b, board, f) /\ display' = display /\ now' = now
      /\ \A l \in lookups' : l \in lookups
  BY <1>2, <1>3 DEF SyncPreloadToDisplay
<1>5. "preload" \in PracticeKinds
  BY DEF PracticeKinds
<1>6. QED
  BY <1>1, <1>3, <1>4, <1>5, LeftBy

\* A command leaves; what else a step does is one of the cases below.
Leaving ==
  \/ PracticePress
  \/ \E l \in lookups : Found(l)
  \/ \E p \in listed : SyncPreloadToDisplay(p)

LEMMA LeavingFacts == PracticeData /\ Leaving => \E call : Left(call)
  BY PressLeaves, FoundLeaves, AppliedLeaves DEF Leaving

PreloadStep ==
  \/ SavePreload \/ PreloadKept \/ PreloadNotKept \/ PreloadDeleted \/ PreloadNotDeleted
  \/ \E p \in listed : DeletePreload(p)

LEMMA PracticeCases ==
  [PracticeNext]_practiceVars =>
    \/ Leaving \/ Editing \/ SwitchUnit \/ \E what \in {"weather", "logo"} : Ask(what)
    \/ \E l \in lookups : NotFound(l)
    \/ \E c \in boardCalls : StoreBoard(c) \/ AnswerBoard(c) \/ FailBoard(c)
    \/ \E p \in listed : LoadPreload(p)
    \/ StartNewPreload \/ PreloadStep \/ Tick \/ UNCHANGED practiceVars
  BY Zenon DEF PracticeNext, Leaving, PracticePress, Editing, PreloadStep

-----------------------------------------------------------------------------
(* Types.                                                                  *)

LEMMA DrillsOf == \A b \in SoundBoards : b.drills \in Seq(Drills) /\ WithinLimits(b.drills)
<1> SUFFICES ASSUME NEW b \in SoundBoards PROVE b.drills \in Seq(Drills) /\ WithinLimits(b.drills)
  OBVIOUS
<1>1. b.drills \in Seq(Drills) /\ Serialized(b.drills) = b.drills
  BY SoundFacts
<1>2. \A u \in Units : Len(OfUnit(Serialized(b.drills), u)) <= MaxDrillsPerUnit
  BY <1>1, SerializedFacts
<1>3. QED
  BY <1>1, <1>2 DEF WithinLimits

LEMMA InitPracticeData == PracticeInit => PracticeData
<1> SUFFICES ASSUME PracticeInit PROVE PracticeData
  OBVIOUS
<1>1. display \in SoundBoards
  BY StartAssumption DEF PracticeInit, SoundBoards, Sound
<1>2. board = display /\ plan = display.drills
  BY <1>1, NormalizeSound DEF PracticeInit
<1>3. plan \in Seq(Drills) /\ WithinLimits(plan)
  BY <1>1, <1>2, DrillsOf
<1>4. drillIds \in 0..MaxDrillIds
  <2> DEFINE S == {0} \cup IdsOf(plan)
  <2>1. S \subseteq 0..MaxDrillIds /\ S # {}
    BY <1>3, IdsAreIds, PracticeBounds
  <2>2. S \in SUBSET Nat /\ MaxDrillIds \in Nat /\ \A n \in S : n <= MaxDrillIds
    BY <2>1, PracticeBounds
  <2>3. PICK m \in S : \A n \in S : n <= m
    <3> HIDE DEF S
    <3>1. QED
      BY <2>1, <2>2, GreatestNumber
  <2>4. \A n \in S : m >= n
    <3>1. m \in Nat /\ \A n \in S : n \in Nat /\ n <= m
      BY <2>2, <2>3
    <3>2. QED
      BY <3>1
  <2>5. Max(S) \in S
    <3> HIDE DEF S
    <3>1. QED
      BY <2>3, <2>4 DEF Max
  <2>6. QED
    BY <2>1, <2>5 DEF PracticeInit
<1>5. unit \in Units
  BY DEF PracticeInit, Units
<1>6. PlanTypes
  BY <1>3, <1>4, <1>5, PracticeBounds DEF PlanTypes, PracticeInit
<1>7. BoardTypes
  <2>1. boardCalls = {} /\ 0 \in Nat
    BY DEF PracticeInit
  <2>2. \E n \in Nat : \A c \in boardCalls : c.id <= n
    BY <2>1
  <2>3. dirty \in BOOLEAN /\ sending \in BOOLEAN /\ misled \in BOOLEAN
    BY DEF PracticeInit
  <2>4. QED
    BY <1>1, <1>2, <2>1, <2>2, <2>3 DEF BoardTypes
<1>8. WaitTypes
  BY DEF WaitTypes, PracticeInit
<1>9. PreloadTypes
  BY DEF PreloadTypes, PracticeInit, PreloadChoices, NotRemoving
<1>10. QED
  BY <1>6, <1>7, <1>8, <1>9 DEF PracticeData

\* What the plan is after a step.
LEMMA StepPlanTypes == PracticeData /\ [PracticeNext]_practiceVars => PlanTypes'
<1> SUFFICES ASSUME PracticeData, [PracticeNext]_practiceVars PROVE PlanTypes'
  OBVIOUS
<1>1. /\ now \in 1..MaxTime /\ now \in Nat /\ now >= 1
      /\ plan \in Seq(Drills) /\ WithinLimits(plan) /\ unit \in Units /\ drillIds \in 0..MaxDrillIds
  BY DEF PracticeData, PlanTypes
<1>2. \A p \in listed : p.board \in SoundBoards
  BY DEF PracticeData, PreloadTypes, Preloads
<1>3. ASSUME NEW p \in listed, TakeOver(p) PROVE plan' \in Seq(Drills) /\ WithinLimits(plan)'
  <2>1. plan' = p.board.drills
    BY <1>2, <1>3, NormalizeSound DEF TakeOver
  <2>2. QED
    BY <1>2, <2>1, DrillsOf DEF WithinLimits
<1>4. CASE Leaving
  <2>1. now' = now /\ unit' = unit /\ drillIds' = drillIds
    BY <1>4 DEF Leaving, PracticePress, SaveBoard, PreviewSchedule, RemoveSchoolLogo, RunDrill, RestartDrill, ResumeDrill,
                StopDrill, AdvanceDrill, PreviousDrill, StartDrill, CompletePractice, Send, Found,
                SyncPreloadToDisplay, planVars, boundVars
  <2>2. plan' = plan \/ \E p \in listed : TakeOver(p)
    BY <1>4 DEF Leaving, PracticePress, SaveBoard, PreviewSchedule, RemoveSchoolLogo, RunDrill, RestartDrill, ResumeDrill,
                StopDrill, AdvanceDrill, PreviousDrill, StartDrill, CompletePractice, Send, Found,
                SyncPreloadToDisplay, planVars
  <2>3. plan' \in Seq(Drills) /\ WithinLimits(plan)'
    BY <1>1, <1>3, <2>2 DEF WithinLimits
  <2>4. QED
    BY <1>1, <2>1, <2>3 DEF PlanTypes
<1>5. CASE Editing
  <2>1. PICK next \in Seq(Drills) : Edit(next) /\ WithinLimits(next) /\ drillIds' \in 0..MaxDrillIds
    BY <1>5, EditingFacts DEF Edited
  <2>2. plan' = next /\ now' = now /\ unit' = unit
    BY <2>1 DEF Edit
  <2>3. QED
    BY <1>1, <2>1, <2>2 DEF PlanTypes, WithinLimits
<1>6. CASE \E p \in listed : LoadPreload(p)
  <2>1. PICK p \in listed : TakeOver(p) /\ now' = now /\ unit' = unit /\ drillIds' = drillIds
    BY <1>6 DEF LoadPreload, boundVars
  <2>2. plan' \in Seq(Drills) /\ WithinLimits(plan)'
    BY <1>3, <2>1
  <2>3. QED
    BY <1>1, <2>1, <2>2 DEF PlanTypes
<1>7. CASE Tick
  <2>1. now < MaxTime /\ now' = now + 1 /\ plan' = plan /\ unit' = unit /\ drillIds' = drillIds
    BY <1>7 DEF Tick, planVars, boundVars
  <2>2. now' \in 1..MaxTime /\ now' \in Nat /\ now' >= 1
    BY <1>1, <2>1, PracticeBounds
  <2>3. QED
    BY <1>1, <2>1, <2>2 DEF PlanTypes, WithinLimits
<1>8. CASE SwitchUnit
  <2>1. now' = now /\ plan' = plan /\ unit' \in Units /\ drillIds' = drillIds
    BY <1>8 DEF SwitchUnit, boundVars
  <2>2. QED
    BY <1>1, <2>1 DEF PlanTypes, WithinLimits
<1>9. CASE \/ \E what \in {"weather", "logo"} : Ask(what)
           \/ \E l \in lookups : NotFound(l)
           \/ \E c \in boardCalls : StoreBoard(c) \/ AnswerBoard(c) \/ FailBoard(c)
           \/ StartNewPreload \/ PreloadStep \/ UNCHANGED practiceVars
  <2>1. now' = now /\ plan' = plan /\ unit' = unit /\ drillIds' = drillIds
    BY <1>9 DEF Ask, NotFound, StoreBoard, AnswerBoard, FailBoard, StartNewPreload, PreloadStep, SavePreload, PreloadKept,
                PreloadNotKept, PreloadDeleted, PreloadNotDeleted, DeletePreload, practiceVars, planVars, boundVars
  <2>2. QED
    BY <1>1, <2>1 DEF PlanTypes, WithinLimits
<1>10. QED
  BY <1>4, <1>5, <1>6, <1>7, <1>8, <1>9, PracticeCases

StoredCall(c) == [c EXCEPT !.stage = "stored"]
StaleCall(c) == [c EXCEPT !.fresh = FALSE]
StaleWait(l) == [l EXCEPT !.fresh = FALSE]

LEMMA BoardCallFacts ==
  \A c \in BoardCalls :
    /\ c.id \in Nat /\ c.board \in SoundBoards /\ c.back \in SoundBoards /\ c.fresh \in BOOLEAN
    /\ StoredCall(c) \in BoardCalls /\ StaleCall(c) \in BoardCalls
    /\ StoredCall(c).id = c.id /\ StoredCall(c).board = c.board /\ StoredCall(c).stage = "stored"
    /\ StaleCall(c).id = c.id /\ StaleCall(c).fresh = FALSE
  BY DEF BoardCalls, StoredCall, StaleCall

LEMMA WaitFacts ==
  \A l \in Waits : l.board \in SoundBoards /\ StaleWait(l) \in Waits /\ StaleWait(l).fresh = FALSE
  BY DEF Waits, StaleWait

LEMMA CallsStored ==
  ASSUME PracticeData, NEW c \in boardCalls, StoreBoard(c)
  PROVE  /\ c \in BoardCalls /\ c.stage = "sent" /\ display' = c.board
         /\ boardCalls' = {StoredCall(c)} \cup {StaleCall(o) : o \in Others(c)}
         /\ lookups' = {StaleWait(l) : l \in lookups}
         /\ \A e \in boardCalls' : \/ e = StoredCall(c)
                                   \/ \E o \in boardCalls : o # c /\ e = StaleCall(o)
  BY DEF StoreBoard, PracticeData, BoardTypes, StoredCall, StaleCall, StaleWait, Others

\* What the page and the display hold after a step, and what is under way.
LEMMA StepBoardTypes == PracticeData /\ [PracticeNext]_practiceVars => BoardTypes'
<1> SUFFICES ASSUME PracticeData, [PracticeNext]_practiceVars PROVE BoardTypes'
  OBVIOUS
<1>1. /\ board \in SoundBoards /\ display \in SoundBoards
      /\ dirty \in BOOLEAN /\ sending \in BOOLEAN /\ misled \in BOOLEAN
      /\ \A c \in boardCalls : c \in BoardCalls
  BY DEF PracticeData, BoardTypes
<1>2. PICK n \in Nat : \A c \in boardCalls : c.id <= n
  BY DEF PracticeData, BoardTypes
<1> DEFINE CallsNext == boardCalls' \in SUBSET BoardCalls /\ \E m \in Nat : \A c \in boardCalls' : c.id <= m
<1>3. ASSUME \A c \in boardCalls' : c \in boardCalls PROVE CallsNext
  BY <1>1, <1>2, <1>3
<1>4. CASE Leaving
  <2>1. PICK call : Left(call)
    BY <1>4, LeavingFacts
  <2>2. /\ call \in BoardCalls /\ board' = call.board /\ boardCalls' = boardCalls \cup {call}
        /\ display' = display /\ sending' \in BOOLEAN /\ misled' \in BOOLEAN
    BY <2>1 DEF Left
  <2>3. call.id \in Nat /\ call.board \in SoundBoards
    BY <2>2, BoardCallFacts
  <2>4. CallsNext
    <3>1. n + call.id \in Nat /\ \A c \in boardCalls' : c.id <= n + call.id
      <4>1. \A c \in boardCalls : c.id \in Nat /\ c.id <= n
        BY <1>1, <1>2, BoardCallFacts
      <4>2. QED
        BY <2>2, <2>3, <4>1
    <3>2. boardCalls' \in SUBSET BoardCalls
      BY <1>1, <2>2
    <3>3. QED
      BY <3>1, <3>2
  <2>5. dirty' \in BOOLEAN
    BY <1>1, <1>4 DEF Leaving, PracticePress, SaveBoard, PreviewSchedule, RemoveSchoolLogo, RunDrill, RestartDrill, ResumeDrill,
                StopDrill, AdvanceDrill, PreviousDrill, StartDrill, CompletePractice, Send, Found,
                SyncPreloadToDisplay, TakeOver
  <2>6. QED
    BY <1>1, <2>2, <2>3, <2>4, <2>5 DEF BoardTypes
<1>5. CASE Editing
  <2>1. PICK next : Edit(next)
    BY <1>5, EditingFacts DEF Edited
  <2>2. /\ board' = board /\ display' = display /\ boardCalls' = boardCalls /\ sending' = sending
        /\ dirty' = TRUE /\ misled' = (misled \/ boardCalls # {})
    BY <2>1 DEF Edit, sendVars
  <2>3. misled' \in BOOLEAN
    BY <2>2, Zenon
  <2>4. CallsNext
    BY <1>3, <2>2
  <2>5. QED
    BY <1>1, <2>2, <2>3, <2>4 DEF BoardTypes
<1>6. CASE \E c \in boardCalls : StoreBoard(c)
  <2>1. PICK c \in boardCalls : StoreBoard(c)
    BY <1>6
  <2>2. /\ c \in BoardCalls /\ display' = c.board
        /\ \A e \in boardCalls' : \/ e = StoredCall(c)
                                  \/ \E o \in boardCalls : o # c /\ e = StaleCall(o)
    BY <2>1, CallsStored
  <2>3. ASSUME NEW e \in boardCalls' PROVE e \in BoardCalls /\ e.id <= n
    <3>1. PICK o \in boardCalls : e = StoredCall(o) \/ e = StaleCall(o)
      BY <2>2
    <3>2. o \in BoardCalls /\ o.id <= n
      BY <1>1, <1>2
    <3>3. QED
      BY <3>1, <3>2, BoardCallFacts
  <2>4. CallsNext
    BY <2>3
  <2>5. display' \in SoundBoards
    BY <2>2, BoardCallFacts
  <2>6. board' = board /\ dirty' = dirty /\ sending' = sending /\ misled' = misled
    BY <2>1 DEF StoreBoard
  <2>7. QED
    BY <1>1, <2>4, <2>5, <2>6 DEF BoardTypes
<1>7. CASE \E c \in boardCalls : AnswerBoard(c) \/ FailBoard(c)
  <2>1. PICK c \in boardCalls : AnswerBoard(c) \/ FailBoard(c)
    BY <1>7
  <2>2. boardCalls' = Others(c) /\ display' = display /\ sending' = FALSE /\ dirty' \in BOOLEAN
    BY <1>1, <2>1 DEF AnswerBoard, FailBoard
  <2>3. board' \in SoundBoards
    BY <1>1, <2>1, BoardCallFacts DEF AnswerBoard, FailBoard
  <2>4. misled' \in BOOLEAN
    <3>1. misled' = (misled /\ (Others(c) # {} \/ ~Agreed)) \/ misled' = (misled \/ c.stage = "stored" \/ ~c.fresh)
      BY <2>1 DEF AnswerBoard, FailBoard
    <3>2. QED
      BY <3>1, Zenon
  <2>5. CallsNext
    BY <1>3, <2>2 DEF Others
  <2>6. QED
    BY <1>1, <2>2, <2>3, <2>4, <2>5 DEF BoardTypes
<1>8. CASE \E p \in listed : LoadPreload(p)
  <2>1. PICK p \in listed : LoadPreload(p)
    BY <1>8
  <2>2. /\ board' = NormalizeBoard(p.board) /\ display' = display /\ dirty' = FALSE /\ misled' = TRUE
        /\ sending' = sending /\ boardCalls' = boardCalls
    BY <2>1 DEF LoadPreload, TakeOver, sendVars
  <2>3. board' \in SoundBoards
    BY <2>2, NormalizeSound DEF PracticeData, PreloadTypes, Preloads
  <2>4. CallsNext
    BY <1>3, <2>2
  <2>5. QED
    BY <1>1, <2>2, <2>3, <2>4 DEF BoardTypes
<1>9. CASE StartNewPreload
  <2>1. /\ board' = board /\ display' = display /\ dirty' = FALSE /\ misled' = (misled \/ dirty)
        /\ sending' = sending /\ boardCalls' = boardCalls
    BY <1>9 DEF StartNewPreload, sendVars
  <2>2. misled' \in BOOLEAN
    BY <2>1, Zenon
  <2>3. CallsNext
    BY <1>3, <2>1
  <2>4. QED
    BY <1>1, <2>1, <2>2, <2>3 DEF BoardTypes
<1>10. CASE \/ SwitchUnit \/ \E what \in {"weather", "logo"} : Ask(what)
            \/ \E l \in lookups : NotFound(l)
            \/ PreloadStep \/ Tick \/ UNCHANGED practiceVars
  <2>1. /\ board' = board /\ display' = display /\ dirty' = dirty /\ misled' = misled
        /\ sending' = sending /\ boardCalls' = boardCalls
    BY <1>10 DEF SwitchUnit, Ask, NotFound, PreloadStep, SavePreload, PreloadKept, PreloadNotKept,
                    PreloadDeleted, PreloadNotDeleted,
                 DeletePreload, Tick, practiceVars, sendVars
  <2>2. CallsNext
    BY <1>3, <2>1
  <2>3. QED
    BY <1>1, <2>1, <2>2 DEF BoardTypes
<1>11. QED
  BY <1>4, <1>5, <1>6, <1>7, <1>8, <1>9, <1>10, PracticeCases

\* What is awaited after a step.
LEMMA StepWaitTypes == PracticeData /\ [PracticeNext]_practiceVars => WaitTypes'
<1> SUFFICES ASSUME PracticeData, [PracticeNext]_practiceVars PROVE WaitTypes'
  OBVIOUS
<1>1. \A l \in lookups : l \in Waits
  BY DEF PracticeData, WaitTypes
<1>2. ASSUME \A l \in lookups' : l \in lookups PROVE WaitTypes'
  BY <1>1, <1>2 DEF WaitTypes
<1>3. CASE Leaving
  <2>1. PICK call : Left(call)
    BY <1>3, LeavingFacts
  <2>2. QED
    BY <1>2, <2>1 DEF Left
<1>4. CASE \E what \in {"weather", "logo"} : Ask(what)
  <2>1. PICK what \in {"weather", "logo"} : Ask(what)
    BY <1>4
  <2>2. PICK f \in BOOLEAN : f = InStep
    BY Zenon DEF InStep
  <2>3. PICK l : l = [kind |-> what, plan |-> plan, board |-> board, fresh |-> f]
    OBVIOUS
  <2>4. l \in Waits
    BY <2>3 DEF Waits, PracticeData, PlanTypes, BoardTypes
  <2>5. lookups' = lookups \cup {l}
    BY <2>1, <2>2, <2>3 DEF Ask
  <2>6. QED
    BY <1>1, <2>4, <2>5 DEF WaitTypes
<1>5. CASE \E c \in boardCalls : StoreBoard(c)
  <2>1. lookups' = {StaleWait(l) : l \in lookups}
    BY <1>5, CallsStored
  <2>2. QED
    BY <1>1, <2>1, WaitFacts DEF WaitTypes
<1>6. CASE Editing
  BY <1>2, <1>6, EditingFacts DEF Edited, Edit
<1>7. CASE \/ SwitchUnit \/ \E l \in lookups : NotFound(l)
           \/ \E c \in boardCalls : AnswerBoard(c) \/ FailBoard(c)
           \/ \E p \in listed : LoadPreload(p)
           \/ StartNewPreload \/ PreloadStep \/ Tick \/ UNCHANGED practiceVars
  <2>1. \A l \in lookups' : l \in lookups
    BY <1>7 DEF SwitchUnit, NotFound, AnswerBoard, FailBoard, LoadPreload, StartNewPreload, PreloadStep, SavePreload,
                PreloadKept, PreloadNotKept, PreloadDeleted, PreloadNotDeleted, DeletePreload, Tick, practiceVars
  <2>2. QED
    BY <1>2, <2>1
<1>8. QED
  BY <1>3, <1>4, <1>5, <1>6, <1>7, PracticeCases

\* The saved boards after a step.
LEMMA StepPreloadTypes == PracticeData /\ [PracticeNext]_practiceVars => PreloadTypes'
<1> SUFFICES ASSUME PracticeData, [PracticeNext]_practiceVars PROVE PreloadTypes'
  OBVIOUS
<1>1. /\ \A p \in preloads : p \in Preloads
      /\ \A p \in listed : p \in Preloads
      /\ chosen \in PreloadChoices
      /\ keeping \in {NotKeeping} \cup [id : PreloadChoices, board : SoundBoards]
      /\ removing \in [id : PreloadChoices, chosen : PreloadChoices]
  BY DEF PracticeData, PreloadTypes
<1>2. ASSUME preloads' = preloads, listed' = listed, keeping' = keeping, removing' = removing,
             chosen' \in PreloadChoices
      PROVE  PreloadTypes'
  BY <1>1, <1>2 DEF PreloadTypes
<1>3. \A p \in listed : p.id \in PreloadChoices
  BY <1>1 DEF Preloads, PreloadChoices
<1>4. CASE \/ Leaving \/ Editing \/ SwitchUnit \/ \E what \in {"weather", "logo"} : Ask(what)
           \/ \E l \in lookups : NotFound(l)
           \/ \E c \in boardCalls : StoreBoard(c) \/ AnswerBoard(c) \/ FailBoard(c)
           \/ \E p \in listed : LoadPreload(p)
           \/ StartNewPreload \/ Tick \/ UNCHANGED practiceVars
  <2>1. CASE Leaving
    <3>1. preloads' = preloads /\ listed' = listed /\ keeping' = keeping /\ removing' = removing
          /\ (chosen' = chosen \/ \E p \in listed : chosen' = p.id)
      BY <2>1 DEF Leaving, PracticePress, SaveBoard, PreviewSchedule, RemoveSchoolLogo, RunDrill, RestartDrill, ResumeDrill,
                StopDrill, AdvanceDrill, PreviousDrill, StartDrill, CompletePractice, Send, Found,
                SyncPreloadToDisplay, TakeOver, preloadVars
    <3>2. QED
      BY <1>1, <1>2, <1>3, <3>1
  <2>2. CASE Editing
    <3>1. preloads' = preloads /\ listed' = listed /\ keeping' = keeping /\ removing' = removing /\ chosen' = chosen
      BY <2>2, EditingFacts DEF Edited, Edit, preloadVars
    <3>2. QED
      BY <1>1, <1>2, <3>1
  <2>3. CASE ~Leaving /\ ~Editing
    <3>1. preloads' = preloads /\ listed' = listed /\ keeping' = keeping /\ removing' = removing
          /\ (chosen' = chosen \/ chosen' = NoPreload \/ \E p \in listed : chosen' = p.id)
      BY <1>4, <2>3 DEF SwitchUnit, Ask, NotFound, StoreBoard, AnswerBoard, FailBoard, LoadPreload, TakeOver,
                        StartNewPreload, Tick, practiceVars, preloadVars
    <3>2. chosen' \in PreloadChoices
      BY <1>1, <1>3, <3>1 DEF PreloadChoices
    <3>3. QED
      BY <1>2, <3>1, <3>2
  <2>4. QED
    BY <2>1, <2>2, <2>3
<1>5. CASE SavePreload
  <2>1. PICK s \in SoundBoards : s = SnapshotBoard(CurrentBoard)
    BY CurrentFacts, SnapshotSound DEF PracticeData, PlanTypes
  <2>2. keeping' = [id |-> chosen, board |-> s]
    BY <1>5, <2>1 DEF SavePreload
  <2>3. keeping' \in [id : PreloadChoices, board : SoundBoards]
    BY <1>1, <2>2
  <2>4. preloads' = preloads /\ listed' = listed /\ removing' = removing /\ chosen' = chosen
    BY <1>5 DEF SavePreload
  <2>5. QED
    BY <1>1, <2>3, <2>4 DEF PreloadTypes
<1>6. CASE PreloadKept
  <2>1. PICK id \in PreloadIds :
          /\ keeping # NotKeeping
          /\ preloads' = {p \in preloads : p.id # id} \cup {[id |-> id, board |-> keeping.board]}
          /\ keeping' = NotKeeping /\ chosen' = id /\ listed' = preloads' /\ removing' = removing
    BY <1>6 DEF PreloadKept
  <2>2. PICK s \in SoundBoards : s = keeping.board
    BY <1>1, <2>1
  <2>3. [id |-> id, board |-> s] \in Preloads
    BY DEF Preloads
  <2>4. preloads' \in SUBSET Preloads
    BY <1>1, <2>1, <2>2, <2>3
  <2>5. QED
    BY <1>1, <2>1, <2>4 DEF PreloadTypes, PreloadChoices
<1>7. CASE PreloadNotKept
  <2>1. preloads' = preloads /\ listed' = listed /\ removing' = removing /\ chosen' = chosen /\ keeping' = NotKeeping
    BY <1>7 DEF PreloadNotKept
  <2>2. QED
    BY <1>1, <2>1 DEF PreloadTypes
<1>8. CASE PreloadDeleted
  <2>1. /\ preloads' = {p \in preloads : p.id # removing.id} /\ listed' = preloads' /\ removing' = NotRemoving
        /\ keeping' = keeping /\ (chosen' = chosen \/ chosen' = NoPreload)
    BY <1>8 DEF PreloadDeleted
  <2>2. chosen' \in PreloadChoices /\ NotRemoving \in [id : PreloadChoices, chosen : PreloadChoices]
    BY <1>1, <2>1 DEF PreloadChoices, NotRemoving
  <2>3. QED
    BY <1>1, <2>1, <2>2 DEF PreloadTypes
<1>a. CASE PreloadNotDeleted
  <2>1. preloads' = preloads /\ listed' = listed /\ keeping' = keeping /\ chosen' = chosen /\ removing' = NotRemoving
    BY <1>a DEF PreloadNotDeleted
  <2>2. NotRemoving \in [id : PreloadChoices, chosen : PreloadChoices]
    BY DEF PreloadChoices, NotRemoving
  <2>3. QED
    BY <1>1, <2>1, <2>2 DEF PreloadTypes
<1>9. CASE \E p \in listed : DeletePreload(p)
  <2>1. PICK p \in listed : DeletePreload(p)
    BY <1>9
  <2>2. /\ removing' = [id |-> p.id, chosen |-> chosen]
        /\ preloads' = preloads /\ listed' = listed /\ keeping' = keeping /\ chosen' = chosen
    BY <2>1 DEF DeletePreload
  <2>3. removing' \in [id : PreloadChoices, chosen : PreloadChoices]
    BY <1>1, <1>3, <2>2
  <2>4. QED
    BY <1>1, <2>2, <2>3 DEF PreloadTypes
<1>10. QED
  BY <1>4, <1>5, <1>6, <1>7, <1>8, <1>9, <1>a, PracticeCases DEF PreloadStep

LEMMA PracticeDataInvariance == PracticeSpec => []PracticeData
<1>1. PracticeData /\ [PracticeNext]_practiceVars => PracticeData'
  BY StepPlanTypes, StepBoardTypes, StepWaitTypes, StepPreloadTypes DEF PracticeData
<1>2. QED
  BY InitPracticeData, <1>1, PTL DEF PracticeSpec

\* The shape of plan, board, commands and saved boards, for any bounds.
THEOREM PracticeTypesCorrect == PracticeSpec => []PracticeTypeOK
  BY PracticeDataInvariance, PracticeDataTypes, PTL

\* A page of the schedule on the display has periods, and every period has a
\* page, whatever the coach does and whatever is stored.
THEOREM SchedulePages == PracticeSpec => []SchedulePageHasPeriods
<1>1. PracticeData => SchedulePageHasPeriods
  <2> SUFFICES ASSUME PracticeData PROVE SchedulePageHasPeriods
    OBVIOUS
  <2>1. display \in PracticeBoards /\ display.drills \in Seq(Drills) /\ now \in Nat
    BY SoundFacts DEF PracticeData, PlanTypes, BoardTypes
  <2>2. PICK page : page = PageShown(display, now)
    OBVIOUS
  <2>3. page \in {NoPage} \cup 0..(PageCount(display.drills) - 1)
    BY <2>1, <2>2, PageShownRange
  <2>4. page # NoPage /\ display.drills # <<>> => CardsOn(display.drills, page) # <<>>
    BY <2>1, <2>3, CardsOnEveryPage
  <2>5. \A i \in DOMAIN display.drills : \E n \in 0..(PageCount(display.drills) - 1) :
          display.drills[i] \in ToSet(CardsOn(display.drills, n))
    BY <2>1, CardsOfEveryPeriod
  <2>6. QED
    BY <2>2, <2>4, <2>5 DEF SchedulePageHasPeriods
<1>2. QED
  BY PracticeDataInvariance, <1>1, PTL

-----------------------------------------------------------------------------
(* What is under way and still fresh agrees with the display.              *)

FreshWaits == \A l \in lookups : l.fresh => SamePeriodAt(l.board, display, now)

FreshBacks == \A c \in boardCalls : c.fresh /\ c.stage = "sent" => SamePeriodAt(c.back, display, now)

\* What SavesKeepThePeriod asks of a command when it is stored.
Harmless(c, d, t) ==
  c.kind # "timer" /\ d.status # "idle" /\ d.active \in {NoDrill} \cup IdsOf(c.board.drills) =>
    SamePeriodAt(d, c.board, t)

FreshCalls == \A c \in boardCalls : c.fresh /\ c.stage = "sent" => Harmless(c, display, now)

FreshInv == FreshWaits /\ FreshBacks /\ FreshCalls

LEMMA InitFreshInv == PracticeInit => FreshInv
  BY DEF PracticeInit, FreshInv, FreshWaits, FreshBacks, FreshCalls

\* The command that leaves now.
LEMMA FreshLeaves ==
  ASSUME PracticeData, FreshInv, NEW call, Left(call), call.fresh
  PROVE  SamePeriodAt(call.back, display, now) /\ Harmless(call, display, now)
<1>1. FromDisplay(call.kind, call.board, call.back)
  BY DEF Left
<1>2. SamePeriodAt(call.back, display, now)
  BY <1>1 DEF FromDisplay, FreshInv, FreshWaits
<1>3. display \in SoundBoards
  BY DEF PracticeData, BoardTypes
<1>4. display.status # "idle" => display.active # NoDrill
  <2>1. NoDrill \notin IdsOf(display.drills)
    BY <1>3, SoundFacts, IdsAreIds
  <2>2. QED
    BY <1>3, <2>1, SoundFacts
<1>5. call.back.status = display.status /\ call.back.active = display.active
  BY <1>2 DEF SamePeriodAt
<1>6. Keeps(call.kind, call.board, call.back)
  BY <1>1 DEF FromDisplay
<1>7. Harmless(call, display, now)
  <2> SUFFICES ASSUME call.kind # "timer", display.status # "idle",
                      display.active \in {NoDrill} \cup IdsOf(call.board.drills)
               PROVE  SamePeriodAt(display, call.board, now)
    BY DEF Harmless
  <2>1. SamePeriodAt(call.board, call.back, now)
    BY <1>4, <1>5, <1>6 DEF Keeps
  <2>2. QED
    BY <1>2, <2>1, PeriodAtRelation
<1>8. QED
  BY <1>2, <1>7

LEMMA StepFreshInv == PracticeData /\ FreshInv /\ [PracticeNext]_practiceVars => FreshInv'
<1> SUFFICES ASSUME PracticeData, FreshInv, [PracticeNext]_practiceVars PROVE FreshInv'
  OBVIOUS
<1>1. \A l \in lookups : l.fresh => SamePeriodAt(l.board, display, now)
  BY DEF FreshInv, FreshWaits
<1>2. \A c \in boardCalls : c.fresh /\ c.stage = "sent" =>
        SamePeriodAt(c.back, display, now) /\ Harmless(c, display, now)
  BY DEF FreshInv, FreshBacks, FreshCalls
<1>3. display \in SoundBoards /\ now \in Nat
      /\ (\A c \in boardCalls : c \in BoardCalls) /\ (\A l \in lookups : l \in Waits)
  BY DEF PracticeData, PlanTypes, BoardTypes, WaitTypes
<1>4. ASSUME now' = now, display' = display,
             \A l \in lookups' : l \in lookups, \A c \in boardCalls' : c \in boardCalls
      PROVE  FreshInv'
  BY <1>1, <1>2, <1>4 DEF FreshInv, FreshWaits, FreshBacks, FreshCalls
<1>5. CASE Leaving
  <2>1. PICK call : Left(call)
    BY <1>5, LeavingFacts
  <2>2. /\ display' = display /\ now' = now /\ boardCalls' = boardCalls \cup {call}
        /\ \A l \in lookups' : l \in lookups
    BY <2>1 DEF Left
  <2>3. call.fresh => SamePeriodAt(call.back, display, now) /\ Harmless(call, display, now)
    BY <2>1, FreshLeaves
  <2>4. QED
    BY <1>1, <1>2, <2>2, <2>3 DEF FreshInv, FreshWaits, FreshBacks, FreshCalls
<1>6. CASE \E what \in {"weather", "logo"} : Ask(what)
  <2>1. PICK what : Ask(what)
    BY <1>6
  <2>2. PICK l : /\ l = [kind |-> what, plan |-> plan, board |-> board, fresh |-> InStep]
                 /\ lookups' = lookups \cup {l}
    BY <2>1 DEF Ask
  <2>3. l.fresh => SamePeriodAt(l.board, display, now)
    <3>1. l.board = board /\ l.fresh = InStep
      BY <2>2
    <3>2. QED
      BY <3>1, PeriodNow DEF InStep
  <2>4. now' = now /\ display' = display /\ boardCalls' = boardCalls
    BY <2>1 DEF Ask, sendVars
  <2>5. QED
    BY <1>1, <1>2, <2>2, <2>3, <2>4 DEF FreshInv, FreshWaits, FreshBacks, FreshCalls
<1>7. CASE \E c \in boardCalls : StoreBoard(c)
  <2>1. PICK c \in boardCalls : StoreBoard(c)
    BY <1>7
  <2>2. /\ lookups' = {StaleWait(l) : l \in lookups}
        /\ \A e \in boardCalls' : \/ e = StoredCall(c)
                                  \/ \E o \in boardCalls : o # c /\ e = StaleCall(o)
    BY <2>1, CallsStored
  <2>3. \A l \in lookups' : ~l.fresh
    BY <1>3, <2>2, WaitFacts
  <2>4. ASSUME NEW e \in boardCalls' PROVE ~(e.fresh /\ e.stage = "sent")
    <3>1. PICK o \in boardCalls : e = StoredCall(o) \/ e = StaleCall(o)
      BY <2>2
    <3>2. o \in BoardCalls
      BY <1>3
    <3>3. QED
      BY <3>1, <3>2, BoardCallFacts
  <2>5. QED
    BY <2>3, <2>4 DEF FreshInv, FreshWaits, FreshBacks, FreshCalls
<1>8. CASE Tick
  <2>1. now' = now + 1 /\ display' = display /\ lookups' = lookups /\ boardCalls' = boardCalls
    BY <1>8 DEF Tick, sendVars
  <2>2. ASSUME NEW l \in lookups, l.fresh PROVE SamePeriodAt(l.board, display, now + 1)
    <3>1. l.board \in SoundBoards
      BY <1>3, WaitFacts
    <3>2. QED
      BY <1>1, <1>3, <2>2, <3>1, PeriodLasts
  <2>3. ASSUME NEW c \in boardCalls, c.fresh, c.stage = "sent"
        PROVE  SamePeriodAt(c.back, display, now + 1) /\ Harmless(c, display, now + 1)
    <3>1. c.back \in SoundBoards /\ c.board \in SoundBoards
      BY <1>3, BoardCallFacts
    <3>2. SamePeriodAt(c.back, display, now + 1)
      BY <1>2, <1>3, <2>3, <3>1, PeriodLasts
    <3>3. SamePeriodAt(display, c.board, now) => SamePeriodAt(display, c.board, now + 1)
      BY <1>3, <3>1, PeriodLasts
    <3>4. Harmless(c, display, now)
      BY <1>2, <2>3
    <3>5. QED
      BY <3>2, <3>3, <3>4 DEF Harmless
  <2>4. QED
    BY <2>1, <2>2, <2>3 DEF FreshInv, FreshWaits, FreshBacks, FreshCalls
<1>9. CASE Editing
  BY <1>4, <1>9, EditingFacts DEF Edited, Edit, sendVars
<1>10. CASE \/ SwitchUnit \/ \E l \in lookups : NotFound(l)
            \/ \E c \in boardCalls : AnswerBoard(c) \/ FailBoard(c)
            \/ \E p \in listed : LoadPreload(p)
            \/ StartNewPreload \/ PreloadStep \/ UNCHANGED practiceVars
  <2>1. /\ now' = now /\ display' = display
        /\ (\A l \in lookups' : l \in lookups) /\ (\A c \in boardCalls' : c \in boardCalls)
    BY <1>10 DEF SwitchUnit, NotFound, AnswerBoard, FailBoard, LoadPreload, StartNewPreload, PreloadStep, SavePreload,
                 PreloadKept, PreloadNotKept, PreloadDeleted, PreloadNotDeleted, DeletePreload, practiceVars, sendVars, Others
  <2>2. QED
    BY <1>4, <2>1
<1>11. QED
  BY <1>5, <1>6, <1>7, <1>8, <1>9, <1>10, PracticeCases

LEMMA FreshInvariance == PracticeSpec => [](PracticeData /\ FreshInv)
<1>1. PracticeInit => PracticeData /\ FreshInv
  BY InitPracticeData, InitFreshInv
<1>2. PracticeData /\ FreshInv /\ [PracticeNext]_practiceVars => PracticeData' /\ FreshInv'
  BY StepPlanTypes, StepBoardTypes, StepWaitTypes, StepPreloadTypes, StepFreshInv DEF PracticeData
<1>3. QED
  BY <1>1, <1>2, PTL DEF PracticeSpec

\* What the coach sends without touching the period leaves the period that is
\* on alone, however long the command takes.
THEOREM SavesKeep == PracticeSpec => SavesKeepThePeriod
<1>1. FreshInv =>
        \A c \in boardCalls :
          (/\ StoreBoard(c) /\ c.fresh /\ c.kind # "timer" /\ display.status # "idle"
           /\ display.active \in {NoDrill} \cup IdsOf(c.board.drills))
          => SamePeriod(display, c.board)
  BY PeriodNow DEF FreshInv, FreshCalls, Harmless, StoreBoard
<1>2. QED
  BY FreshInvariance, <1>1, PTL DEF SavesKeepThePeriod

-----------------------------------------------------------------------------
(* A page that has not been misled.                                        *)

InAgreement(s, b, d, t) == Serialized(s) = d.drills /\ SamePeriodAt(b, d, t)

\* One command is under way, and carries what the page shows.
CarriesThePage(c) ==
  /\ boardCalls = {c} /\ board = c.board /\ Serialized(plan) = c.board.drills
  /\ c.stage = "stored" => display = c.board
  /\ c.stage = "sent" /\ c.fresh /\ ~dirty => Serialized(plan) = display.drills

CleanInv ==
  /\ ~misled /\ ~dirty /\ boardCalls = {} => InAgreement(plan, board, display, now)
  /\ \A c \in boardCalls : ~misled => CarriesThePage(c)

LEMMA AgreedNow == Agreed <=> InAgreement(plan, board, display, now)
  BY PeriodNow DEF Agreed, InAgreement

LEMMA InitCleanInv == PracticeInit => CleanInv
<1> SUFFICES ASSUME PracticeInit PROVE CleanInv
  OBVIOUS
<1>1. display \in SoundBoards /\ boardCalls = {}
  BY StartAssumption DEF PracticeInit, SoundBoards, Sound
<1>2. board = display /\ plan = display.drills
  BY <1>1, NormalizeSound DEF PracticeInit
<1>3. Serialized(plan) = display.drills
  BY <1>1, <1>2, SoundFacts
<1>4. SamePeriodAt(board, display, now)
  BY <1>2, PeriodAtRelation
<1>5. QED
  BY <1>1, <1>3, <1>4 DEF CleanInv, InAgreement

LEMMA StepCleanInv == PracticeData /\ FreshInv /\ CleanInv /\ [PracticeNext]_practiceVars => CleanInv'
<1> SUFFICES ASSUME PracticeData, FreshInv, CleanInv, [PracticeNext]_practiceVars PROVE CleanInv'
  OBVIOUS
<1>1. ~misled /\ ~dirty /\ boardCalls = {} => InAgreement(plan, board, display, now)
  BY DEF CleanInv
<1>2. \A c \in boardCalls : ~misled => CarriesThePage(c)
  BY DEF CleanInv
<1>3. board \in SoundBoards /\ display \in SoundBoards /\ now \in Nat
  BY DEF PracticeData, PlanTypes, BoardTypes
<1>4. CASE Leaving
  <2>1. PICK call : Left(call)
    BY <1>4, LeavingFacts
  <2>2. /\ board' = call.board /\ boardCalls' = boardCalls \cup {call} /\ call.stage = "sent"
        /\ display' = display
        /\ ~misled' => ~misled /\ boardCalls = {} /\ call.board.drills = Serialized(plan')
        /\ call.fresh => plan' = plan /\ dirty' = dirty
    BY <2>1 DEF Left, FromDisplay
  <2>3. ASSUME ~misled' PROVE CarriesThePage(call)' /\ boardCalls' = {call}
    <3>1. ~misled /\ boardCalls = {} /\ call.board.drills = Serialized(plan') /\ boardCalls' = {call}
      BY <2>2, <2>3
    <3>2. ASSUME call.fresh, ~dirty' PROVE Serialized(plan') = display.drills
      <4>1. plan' = plan /\ ~dirty
        BY <2>2, <3>2
      <4>2. QED
        BY <1>1, <3>1, <4>1 DEF InAgreement
    <3>3. Serialized(plan)' = Serialized(plan')
      BY DEF Serialized
    <3>4. QED
      BY <2>2, <3>1, <3>2, <3>3 DEF CarriesThePage
  <2>4. boardCalls' # {}
    BY <2>2
  <2>5. QED
    BY <2>3, <2>4 DEF CleanInv
<1>5. CASE Editing
  <2>1. dirty' /\ boardCalls' = boardCalls /\ (misled' <=> misled \/ boardCalls # {})
    BY <1>5, EditingFacts DEF Edited, Edit, sendVars
  <2>2. QED
    BY <2>1 DEF CleanInv
<1>6. CASE \E c \in boardCalls : StoreBoard(c)
  <2>1. PICK c \in boardCalls : StoreBoard(c)
    BY <1>6
  <2>2. /\ c.stage = "sent" /\ c \in BoardCalls /\ display' = c.board
        /\ boardCalls' = {StoredCall(c)} \cup {StaleCall(o) : o \in Others(c)}
    BY <2>1, CallsStored
  <2>3. board' = board /\ plan' = plan /\ dirty' = dirty /\ misled' = misled
    BY <2>1 DEF StoreBoard, planVars
  <2>4. ASSUME ~misled PROVE boardCalls' = {StoredCall(c)} /\ CarriesThePage(StoredCall(c))'
    <3>1. boardCalls = {c} /\ board = c.board /\ Serialized(plan) = c.board.drills
      BY <1>2, <2>1, <2>4 DEF CarriesThePage
    <3>2. Others(c) = {}
      BY <3>1 DEF Others
    <3>3. boardCalls' = {StoredCall(c)}
      BY <2>2, <3>2
    <3>4. PICK e : e = StoredCall(c) /\ e.board = c.board /\ e.stage = "stored"
      BY <2>2, BoardCallFacts
    <3>5. CarriesThePage(e)'
      BY <2>2, <2>3, <3>1, <3>3, <3>4 DEF CarriesThePage
    <3>6. QED
      BY <3>3, <3>4, <3>5
  <2>5. boardCalls' # {}
    BY <2>2
  <2>6. QED
    BY <2>3, <2>4, <2>5 DEF CleanInv
<1>7. CASE \E c \in boardCalls : AnswerBoard(c)
  <2>1. PICK c \in boardCalls : AnswerBoard(c)
    BY <1>7
  <2>2. /\ c.stage = "stored" /\ boardCalls' = Others(c)
        /\ board' = board /\ plan' = plan /\ display' = display /\ now' = now
        /\ (misled' <=> misled /\ (Others(c) # {} \/ ~Agreed))
    BY <2>1 DEF AnswerBoard, planVars
  <2>3. CASE ~misled
    <3>1. boardCalls = {c} /\ board = c.board /\ Serialized(plan) = c.board.drills /\ display = c.board
      BY <1>2, <2>1, <2>2, <2>3 DEF CarriesThePage
    <3>2. boardCalls' = {}
      BY <2>2, <3>1 DEF Others
    <3>3. InAgreement(plan, board, display, now)
      BY <3>1, PeriodAtRelation DEF InAgreement
    <3>4. QED
      BY <2>2, <3>2, <3>3 DEF CleanInv
  <2>4. CASE misled
    BY <2>2, <2>4, AgreedNow DEF CleanInv
  <2>5. QED
    BY <2>3, <2>4
<1>8. CASE \E c \in boardCalls : FailBoard(c)
  <2>1. PICK c \in boardCalls : FailBoard(c)
    BY <1>8
  <2>2. /\ boardCalls' = Others(c) /\ board' = c.back
        /\ plan' = plan /\ display' = display /\ now' = now /\ dirty' = dirty
        /\ (misled' <=> misled \/ c.stage = "stored" \/ ~c.fresh)
    BY <2>1 DEF FailBoard, planVars
  <2>3. ASSUME ~misled' PROVE boardCalls' = {} /\ (~dirty => InAgreement(plan, c.back, display, now))
    <3>1. ~misled /\ c.stage # "stored" /\ c.fresh
      BY <2>2, <2>3
    <3>2. CarriesThePage(c)
      BY <1>2, <2>1, <3>1
    <3>3. boardCalls' = {}
      BY <2>2, <3>2 DEF Others, CarriesThePage
    <3>4. c \in BoardCalls
      BY <2>1 DEF PracticeData, BoardTypes
    <3>5. c.stage = "sent"
      BY <3>1, <3>4 DEF BoardCalls
    <3>6. SamePeriodAt(c.back, display, now)
      BY <2>1, <3>1, <3>5 DEF FreshInv, FreshBacks
    <3>7. QED
      BY <3>1, <3>2, <3>3, <3>5, <3>6 DEF CarriesThePage, InAgreement
  <2>4. QED
    BY <2>2, <2>3 DEF CleanInv
<1>9. CASE \E p \in listed : LoadPreload(p)
  BY <1>9 DEF LoadPreload, CleanInv
<1>10. CASE StartNewPreload
  <2>1. /\ plan' = plan /\ board' = board /\ display' = display /\ now' = now /\ boardCalls' = boardCalls
        /\ (misled' <=> misled \/ dirty)
    BY <1>10 DEF StartNewPreload, planVars, sendVars
  <2>2. QED
    BY <1>1, <1>2, <2>1 DEF CleanInv, CarriesThePage
<1>11. CASE Tick
  <2>1. /\ plan' = plan /\ board' = board /\ display' = display /\ now' = now + 1 /\ boardCalls' = boardCalls
        /\ dirty' = dirty /\ misled' = misled
    BY <1>11 DEF Tick, planVars, sendVars
  <2>2. InAgreement(plan, board, display, now) => InAgreement(plan, board, display, now + 1)
    BY <1>3, PeriodLasts DEF InAgreement
  <2>3. QED
    BY <1>1, <1>2, <2>1, <2>2 DEF CleanInv, CarriesThePage
<1>12. CASE \/ SwitchUnit \/ \E what \in {"weather", "logo"} : Ask(what)
            \/ \E l \in lookups : NotFound(l)
            \/ PreloadStep \/ UNCHANGED practiceVars
  <2>1. /\ plan' = plan /\ board' = board /\ display' = display /\ now' = now /\ boardCalls' = boardCalls
        /\ dirty' = dirty /\ misled' = misled
    BY <1>12 DEF SwitchUnit, Ask, NotFound, PreloadStep, SavePreload, PreloadKept, PreloadNotKept,
                    PreloadDeleted, PreloadNotDeleted,
                 DeletePreload, practiceVars, planVars, sendVars
  <2>2. QED
    BY <1>1, <1>2, <2>1 DEF CleanInv, CarriesThePage
<1>13. QED
  BY <1>4, <1>5, <1>6, <1>7, <1>8, <1>9, <1>10, <1>11, <1>12, PracticeCases

LEMMA CleanInvariance == PracticeSpec => [](PracticeData /\ FreshInv /\ CleanInv)
<1>1. PracticeInit => PracticeData /\ FreshInv /\ CleanInv
  BY InitPracticeData, InitFreshInv, InitCleanInv
<1>2. PracticeData /\ FreshInv /\ CleanInv /\ [PracticeNext]_practiceVars => PracticeData' /\ FreshInv' /\ CleanInv'
  BY StepPlanTypes, StepBoardTypes, StepWaitTypes, StepPreloadTypes, StepFreshInv, StepCleanInv DEF PracticeData
<1>3. QED
  BY <1>1, <1>2, PTL DEF PracticeSpec

\* With nothing under way and nothing unsaved the display has the plan of the
\* page and the same period, unless the page has been misled.
THEOREM CleanPages == PracticeSpec => []CleanPageIsSent
<1>1. CleanInv => CleanPageIsSent
  BY AgreedNow DEF CleanInv, CleanPageIsSent
<1>2. QED
  BY CleanInvariance, <1>1, PTL
=============================================================================
