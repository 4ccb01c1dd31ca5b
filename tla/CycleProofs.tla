----------------------------- MODULE CycleProofs -----------------------------
(***************************************************************************)
(* Writing a plan and taking it back, for any configurations, requests,    *)
(* edits, sessions and refusals.                                           *)
(***************************************************************************)
EXTENDS CleanupCycle, SequenceTheorems, FiniteSetTheorems, NaturalsInduction,
        WellFoundedInduction, TLAPS

(***************************************************************************)
(* Functions and sequences                                                 *)
(***************************************************************************)
LEMMA NaturalSets ==
  ASSUME NEW A \in SUBSET Nat, 0 \in A, \A n \in A : n + 1 \in A
  PROVE  A = Nat
<1>1. SUFFICES ASSUME Nat \ A # {} PROVE FALSE
  OBVIOUS
<1>2. PICK n \in Nat \ A : \A m \in Nat \ A : ~(<<m, n>> \in OpToRel(<, Nat))
  BY NatLessThanWellFounded, WFMin, <1>1
<1>3. \A m \in Nat \ A : ~(m < n)
  BY <1>2 DEF OpToRel
<1> QED BY <1>3

LEMMA SameFunction ==
  ASSUME NEW f, NEW g, IsAFunction(f), IsAFunction(g), DOMAIN f = DOMAIN g,
         \A x \in DOMAIN f : f[x] = g[x]
  PROVE  f = g
<1>1. [x \in DOMAIN f |-> f[x]] = [x \in DOMAIN g |-> g[x]]
  OBVIOUS
<1> QED BY <1>1 DEF IsAFunction

(* An entry taken out and put back, or put in and taken out, leaves a      *)
(* table as it was.                                                        *)
LEMMA WithoutWith ==
  ASSUME NEW f, IsAFunction(f), NEW k
  PROVE  /\ k \in DOMAIN f => With(Without(f, k), k, f[k]) = f
         /\ k \notin DOMAIN f => \A v : Without(With(f, k, v), k) = f
<1>1. ASSUME k \in DOMAIN f PROVE With(Without(f, k), k, f[k]) = f
  <2> DEFINE g == With(Without(f, k), k, f[k])
  <2>1. DOMAIN g = DOMAIN f /\ IsAFunction(g)
    BY <1>1 DEF With, Without, IsAFunction
  <2>2. \A x \in DOMAIN f : g[x] = f[x]
    BY <1>1 DEF With, Without
  <2> QED BY <2>1, <2>2, SameFunction
<1>2. ASSUME k \notin DOMAIN f, NEW v PROVE Without(With(f, k, v), k) = f
  <2> DEFINE g == Without(With(f, k, v), k)
  <2>1. DOMAIN g = DOMAIN f /\ IsAFunction(g)
    BY <1>2 DEF With, Without, IsAFunction
  <2>2. \A x \in DOMAIN f : g[x] = f[x]
    BY <1>2 DEF With, Without
  <2> QED BY <2>1, <2>2, SameFunction
<1> QED BY <1>1, <1>2

Names(s) == s \in Seq(Range(s)) /\ IsInjective(s)

(* The rule names of a rulebase without one of them.                       *)
LEMMA Removed ==
  ASSUME NEW s, Names(s), NEW p \in DOMAIN s
  PROVE  RemoveFirst(s, s[p]) =
           [k \in 1 .. Len(s) - 1 |-> IF k < p THEN s[k] ELSE s[k + 1]]
<1> DEFINE I == {i \in 1 .. Len(s) : s[i] = s[p]}
           S == Range(s)
<1>s. s \in Seq(S) /\ Len(s) \in Nat /\ DOMAIN s = 1 .. Len(s)
  BY DEF Names
<1>1. I = {p}
  BY <1>s DEF Names, IsInjective
<1>2. SelectInSeq(s, LAMBDA v : v = s[p]) = p
  <2>1. Min({p}) = p
    BY <1>s DEF Min
  <2> QED BY <1>1, <2>1 DEF SelectInSeq
<1>3. RemoveFirst(s, s[p]) = SubSeq(s, 1, p - 1) \o SubSeq(s, p + 1, Len(s))
  BY <1>s, <1>2 DEF RemoveFirst, RemoveAt
<1>4. /\ SubSeq(s, 1, p - 1) \in Seq(S) /\ Len(SubSeq(s, 1, p - 1)) = p - 1
      /\ \A k \in 1 .. p - 1 : SubSeq(s, 1, p - 1)[k] = s[k]
  BY <1>s
<1>5. /\ SubSeq(s, p + 1, Len(s)) \in Seq(S)
      /\ Len(SubSeq(s, p + 1, Len(s))) = Len(s) - p
      /\ \A k \in 1 .. Len(s) - p : SubSeq(s, p + 1, Len(s))[k] = s[p + k]
  BY <1>s
<1> DEFINE a == SubSeq(s, 1, p - 1)
           b == SubSeq(s, p + 1, Len(s))
<1>a. a \in Seq(S) /\ Len(a) = p - 1 /\ \A k \in 1 .. p - 1 : a[k] = s[k]
  BY <1>4
<1>b. b \in Seq(S) /\ Len(b) = Len(s) - p /\ \A k \in 1 .. Len(s) - p : b[k] = s[p + k]
  BY <1>5
<1>c. RemoveFirst(s, s[p]) = a \o b
  BY <1>3
<1> HIDE DEF S, a, b
<1> DEFINE c == a \o b
<1>6. /\ c \in Seq(S) /\ Len(c) = Len(a) + Len(b)
      /\ \A k \in 1 .. Len(a) + Len(b) :
           c[k] = IF k <= Len(a) THEN a[k] ELSE b[k - Len(a)]
  BY <1>a, <1>b, ConcatProperties
<1>7. p \in 1 .. Len(s)
  BY <1>s
<1> HIDE DEF c
<1>8. \A k \in 1 .. Len(s) - 1 : c[k] = IF k < p THEN s[k] ELSE s[k + 1]
  <2> SUFFICES ASSUME NEW k \in 1 .. Len(s) - 1
               PROVE  c[k] = IF k < p THEN s[k] ELSE s[k + 1]
    OBVIOUS
  <2>1. c[k] = IF k <= p - 1 THEN a[k] ELSE b[k - (p - 1)]
    BY <1>s, <1>a, <1>b, <1>6, <1>7
  <2>2. CASE k < p
    BY <2>1, <2>2, <1>s, <1>a, <1>7
  <2>3. CASE ~(k < p)
    <3>1. k - (p - 1) \in 1 .. Len(s) - p /\ p + (k - (p - 1)) = k + 1
      BY <2>3, <1>s, <1>7
    <3> QED BY <2>1, <2>3, <3>1, <1>s, <1>b, <1>7
  <2> QED BY <2>2, <2>3
<1>9. DOMAIN c = 1 .. Len(s) - 1 /\ c = [k \in DOMAIN c |-> c[k]]
  BY <1>s, <1>a, <1>b, <1>6, <1>7
<1>d. RemoveFirst(s, s[p]) = c
  BY <1>c DEF c
<1> QED BY <1>d, <1>8, <1>9

LEMMA RemovedKeeps ==
  ASSUME NEW s, Names(s), NEW p \in DOMAIN s
  PROVE  LET t == RemoveFirst(s, s[p])
         IN  /\ Names(t)
             /\ Range(t) = Range(s) \ {s[p]}
<1> DEFINE t == [k \in 1 .. Len(s) - 1 |-> IF k < p THEN s[k] ELSE s[k + 1]]
<1>s. Len(s) \in Nat /\ DOMAIN s = 1 .. Len(s)
  BY DEF Names
<1>1. DOMAIN t = 1 .. Len(s) - 1 /\ Len(s) - 1 \in Nat
  BY <1>s
<1>2. t \in Seq(Range(t))
  BY <1>1, IsASeq DEF Range
<1>3. IsInjective(t)
  <2> SUFFICES ASSUME NEW i \in DOMAIN t, NEW j \in DOMAIN t, t[i] = t[j]
               PROVE  i = j
    BY DEF IsInjective
  <2> QED BY <1>s, <1>1 DEF Names, IsInjective
<1>4. Range(t) \subseteq Range(s) \ {s[p]}
  BY <1>s, <1>1 DEF Range, Names, IsInjective
<1>5. ASSUME NEW n \in Range(s) \ {s[p]} PROVE n \in Range(t)
  <2>1. PICK i \in DOMAIN s : s[i] = n /\ i # p
    BY <1>5 DEF Range
  <2>2. CASE i < p
    BY <2>1, <2>2, <1>s, <1>1 DEF Range
  <2>3. CASE i > p
    <3>1. i - 1 \in DOMAIN t /\ t[i - 1] = n
      BY <2>1, <2>3, <1>s, <1>1
    <3> HIDE DEF t
    <3> QED BY <3>1 DEF Range
  <2> QED BY <2>1, <2>2, <2>3, <1>s
<1>6. RemoveFirst(s, s[p]) = t
  BY Removed
<1> HIDE DEF t
<1> QED BY <1>2, <1>3, <1>4, <1>5, <1>6 DEF Names

(* No rule to be moved before.                                             *)
NoRule(before) == before = ""

(* Where a rule is put: at the bottom, or directly before another.         *)
PutAt(s, p, before) ==
  /\ NoRule(before) => p = Len(s) + 1
  /\ ~NoRule(before) => p \in DOMAIN s /\ s[p] = before

LEMMA Inserted ==
  ASSUME NEW s, Names(s), NEW n, NEW before, NEW p, PutAt(s, p, before)
  PROVE  InFrontOf(s, n, before) =
           [k \in 1 .. Len(s) + 1 |-> IF k < p THEN s[k] ELSE IF k = p THEN n ELSE s[k - 1]]
<1> DEFINE S == Range(s) \cup {n}
           t == InFrontOf(s, n, before)
<1>s. s \in Seq(S) /\ n \in S /\ Len(s) \in Nat /\ DOMAIN s = 1 .. Len(s)
  BY SeqMonotonic DEF Names
<1>p. p \in 1 .. Len(s) + 1
  BY <1>s DEF PutAt
<1>1. CASE NoRule(before)
  <2> DEFINE c == Append(s, n)
  <2>1. /\ c \in Seq(S) /\ Len(c) = Len(s) + 1
        /\ \A k \in 1 .. Len(s) + 1 : c[k] = IF k = Len(s) + 1 THEN n ELSE s[k]
    <3> HIDE DEF S
    <3> QED BY <1>s, AppendProperties
  <2>2. t = c
    BY <1>1 DEF InFrontOf, NoRule
  <2> HIDE DEF S, t, c
  <2>3. DOMAIN c = 1 .. Len(s) + 1 /\ c = [k \in DOMAIN c |-> c[k]]
    BY <2>1, <1>s
  <2>4. \A k \in 1 .. Len(s) + 1 :
          c[k] = IF k < p THEN s[k] ELSE IF k = p THEN n ELSE s[k - 1]
    BY <2>1, <1>1, <1>s DEF PutAt
  <2> QED BY <2>2, <2>3, <2>4 DEF t
<1>2. CASE ~NoRule(before)
  <2>0. p \in 1 .. Len(s) /\ s[p] = before
    BY <1>2, <1>s DEF PutAt
  <2>1. (CHOOSE i \in DOMAIN s : s[i] = before) = p
    BY <2>0, <1>s DEF Names, IsInjective
  <2> DEFINE a == SubSeq(s, 1, p - 1)
             b == SubSeq(s, p, Len(s))
             e == <<n>>
             d == a \o e
             c == d \o b
  <2>a. a \in Seq(S) /\ Len(a) = p - 1 /\ \A k \in 1 .. p - 1 : a[k] = s[k]
    BY <2>0, <1>s
  <2>b. /\ b \in Seq(S) /\ Len(b) = Len(s) - p + 1
        /\ \A k \in 1 .. Len(s) - p + 1 : b[k] = s[p + k - 1]
    BY <2>0, <1>s
  <2>e. e \in Seq(S) /\ Len(e) = 1 /\ e[1] = n
    BY <1>s
  <2>2. t = c
    BY <1>2, <2>1 DEF InFrontOf, InsertAt, NoRule
  <2> HIDE DEF S, t, a, b, e
  <2>3. /\ d \in Seq(S) /\ Len(d) = Len(a) + Len(e)
        /\ \A k \in 1 .. Len(a) + Len(e) : d[k] = IF k <= Len(a) THEN a[k] ELSE e[k - Len(a)]
    BY <2>a, <2>e, ConcatProperties
  <2> HIDE DEF d
  <2>4. /\ c \in Seq(S) /\ Len(c) = Len(d) + Len(b)
        /\ \A k \in 1 .. Len(d) + Len(b) : c[k] = IF k <= Len(d) THEN d[k] ELSE b[k - Len(d)]
    BY <2>3, <2>b, ConcatProperties
  <2> HIDE DEF c
  <2>5. DOMAIN c = 1 .. Len(s) + 1 /\ c = [k \in DOMAIN c |-> c[k]]
    BY <2>4, <2>3, <2>a, <2>b, <2>e, <2>0, <1>s, SMTT(30)
  <2>6. ASSUME NEW k \in 1 .. Len(s) + 1
        PROVE  c[k] = IF k < p THEN s[k] ELSE IF k = p THEN n ELSE s[k - 1]
    <3>1. c[k] = IF k <= p THEN d[k] ELSE b[k - p]
      BY <2>4, <2>3, <2>a, <2>b, <2>e, <2>0, <1>s
    <3>2. CASE k < p
      BY <3>1, <3>2, <2>3, <2>a, <2>e, <2>0, <1>s
    <3>3. CASE k = p
      BY <3>1, <3>3, <2>3, <2>a, <2>e, <2>0, <1>s
    <3>4. CASE k > p
      <4>1. k - p \in 1 .. Len(s) - p + 1 /\ p + (k - p) - 1 = k - 1
        BY <3>4, <2>0, <1>s
      <4> QED BY <3>1, <3>4, <4>1, <2>b, <2>0, <1>s
    <3> QED BY <3>2, <3>3, <3>4, <2>0, <1>s
  <2> QED BY <2>2, <2>5, <2>6 DEF t
<1> QED BY <1>1, <1>2

LEMMA InsertedKeeps ==
  ASSUME NEW s, Names(s), NEW n, n \notin Range(s), NEW before, NEW p, PutAt(s, p, before)
  PROVE  LET t == InFrontOf(s, n, before)
         IN  /\ Names(t) /\ Range(t) = Range(s) \cup {n}
             /\ DOMAIN t = 1 .. Len(s) + 1 /\ p \in DOMAIN t /\ t[p] = n
<1> DEFINE t == [k \in 1 .. Len(s) + 1 |->
                   IF k < p THEN s[k] ELSE IF k = p THEN n ELSE s[k - 1]]
<1>s. Len(s) \in Nat /\ DOMAIN s = 1 .. Len(s)
  BY DEF Names
<1>p. p \in 1 .. Len(s) + 1
  BY <1>s DEF PutAt
<1>1. DOMAIN t = 1 .. Len(s) + 1 /\ t[p] = n
  BY <1>s, <1>p
<1>2. t \in Seq(Range(t))
  BY <1>s, <1>1, IsASeq DEF Range
<1>n. \A i \in 1 .. Len(s) : s[i] # n
  BY <1>s DEF Range
<1>3. IsInjective(t)
  <2> SUFFICES ASSUME NEW i \in 1 .. Len(s) + 1, NEW j \in 1 .. Len(s) + 1, t[i] = t[j]
               PROVE  i = j
    BY <1>1 DEF IsInjective
  <2>1. \A k, l \in 1 .. Len(s) : s[k] = s[l] => k = l
    BY <1>s DEF Names, IsInjective
  <2>2. CASE i = p \/ j = p
    BY <2>2, <1>s, <1>p, <1>n
  <2>3. CASE i # p /\ j # p
    BY <2>1, <2>3, <1>s, <1>p
  <2> QED BY <2>2, <2>3
<1>4. Range(t) \subseteq Range(s) \cup {n}
  BY <1>s, <1>p DEF Range
<1>5. n \in Range(t)
  BY <1>1, <1>p DEF Range
<1>6. ASSUME NEW m \in Range(s) PROVE m \in Range(t)
  <2>1. PICK i \in 1 .. Len(s) : s[i] = m
    BY <1>s DEF Range
  <2>2. CASE i < p
    <3>1. i \in DOMAIN t /\ t[i] = m
      BY <2>1, <2>2, <1>s, <1>1
    <3> HIDE DEF t
    <3> QED BY <3>1 DEF Range
  <2>3. CASE i >= p
    <3>1. i + 1 \in DOMAIN t /\ t[i + 1] = m
      BY <2>1, <2>3, <1>s, <1>1, <1>p
    <3> HIDE DEF t
    <3> QED BY <3>1 DEF Range
  <2> QED BY <2>1, <2>2, <2>3, <1>s, <1>p
<1>7. InFrontOf(s, n, before) = t
  BY Inserted
<1> HIDE DEF t
<1> QED BY <1>1, <1>2, <1>3, <1>4, <1>5, <1>6, <1>7, <1>p DEF Names

(* A name put in and taken out again.                                      *)
LEMMA InAndOut ==
  ASSUME NEW s, Names(s), NEW n, n \notin Range(s), NEW before, NEW p, PutAt(s, p, before)
  PROVE  RemoveFirst(InFrontOf(s, n, before), n) = s
<1> DEFINE t == InFrontOf(s, n, before)
<1>s. Len(s) \in Nat /\ s = [k \in 1 .. Len(s) |-> s[k]]
  BY DEF Names
<1>1. /\ Names(t) /\ DOMAIN t = 1 .. Len(s) + 1 /\ p \in 1 .. Len(s) + 1 /\ t[p] = n
  BY InsertedKeeps
<1>2. \A k \in 1 .. Len(s) + 1 : t[k] = IF k < p THEN s[k] ELSE IF k = p THEN n ELSE s[k - 1]
  BY Inserted
<1>3. Len(t) = Len(s) + 1
  BY <1>1, <1>s DEF Names
<1> HIDE DEF t
<1>4. RemoveFirst(t, n) = [k \in 1 .. Len(s) |-> IF k < p THEN t[k] ELSE t[k + 1]]
  <2>1. RemoveFirst(t, t[p]) = [k \in 1 .. Len(t) - 1 |-> IF k < p THEN t[k] ELSE t[k + 1]]
    BY <1>1, Removed
  <2> QED BY <2>1, <1>1, <1>3, <1>s
<1>5. \A k \in 1 .. Len(s) : (IF k < p THEN t[k] ELSE t[k + 1]) = s[k]
  BY <1>1, <1>2, <1>s
<1>6. RemoveFirst(t, n) = [k \in 1 .. Len(s) |-> s[k]]
  BY <1>4, <1>5
<1> QED BY <1>6, <1>s DEF t

(* A name stands directly before another, or at the bottom.                *)
Precedes(s, n, before) ==
  \E i \in DOMAIN s :
    /\ s[i] = n
    /\ NoRule(before) => i = Len(s)
    /\ ~NoRule(before) => i + 1 \in DOMAIN s /\ s[i + 1] = before

(* A name taken out and put back before the name it stood before.          *)
LEMMA OutAndIn ==
  ASSUME NEW s, Names(s), NEW n, NEW before, Precedes(s, n, before)
  PROVE  InFrontOf(RemoveFirst(s, n), n, before) = s
<1>s. Len(s) \in Nat /\ s = [k \in 1 .. Len(s) |-> s[k]] /\ DOMAIN s = 1 .. Len(s)
  BY DEF Names
<1>1. PICK p \in DOMAIN s : /\ s[p] = n
                            /\ NoRule(before) => p = Len(s)
                            /\ ~NoRule(before) => p + 1 \in DOMAIN s /\ s[p + 1] = before
  BY DEF Precedes
<1> DEFINE t == RemoveFirst(s, n)
<1>2. t = [k \in 1 .. Len(s) - 1 |-> IF k < p THEN s[k] ELSE s[k + 1]]
  BY <1>1, Removed
<1>3. Names(t)
  BY <1>1, RemovedKeeps
<1> HIDE DEF t
<1>4. DOMAIN t = 1 .. Len(s) - 1 /\ Len(t) = Len(s) - 1
  BY <1>2, <1>3, <1>1, <1>s DEF Names
<1>5. PutAt(t, p, before)
  BY <1>1, <1>2, <1>4, <1>s DEF PutAt
<1>6. InFrontOf(t, n, before) =
        [k \in 1 .. Len(t) + 1 |-> IF k < p THEN t[k] ELSE IF k = p THEN n ELSE t[k - 1]]
  BY <1>3, <1>5, Inserted
<1>7. \A k \in 1 .. Len(s) : (IF k < p THEN t[k] ELSE IF k = p THEN n ELSE t[k - 1]) = s[k]
  BY <1>1, <1>2, <1>s
<1>8. Len(t) + 1 = Len(s)
  BY <1>4, <1>1, <1>s
<1>9. InFrontOf(t, n, before) = [k \in 1 .. Len(s) |-> s[k]]
  BY <1>6, <1>7, <1>8
<1> QED BY <1>9, <1>s DEF t

(* The name a name stood before stays when that goes.                      *)
LEMMA NextRemains ==
  ASSUME NEW s, Names(s), NEW n, NEW before, Precedes(s, n, before)
  PROVE  NoRule(before) \/ before \in Range(RemoveFirst(s, n))
<1>1. PICK i \in DOMAIN s :
        s[i] = n /\ (~NoRule(before) => i + 1 \in DOMAIN s /\ s[i + 1] = before)
  BY DEF Precedes
<1>2. Range(RemoveFirst(s, n)) = Range(s) \ {n}
  BY <1>1, RemovedKeeps
<1>3. SUFFICES ASSUME ~NoRule(before) PROVE before \in Range(s) \ {n}
  BY <1>2
<1>4. i + 1 # i
  <2>1. DOMAIN s = 1 .. Len(s)
    BY DEF Names
  <2> QED BY <2>1
<1>5. before \in Range(s) /\ before # n
  BY <1>1, <1>3, <1>4 DEF Range, Names, IsInjective
<1> QED BY <1>5

(* What stands directly before another name still does when a third goes.  *)
LEMMA PrecedesKept ==
  ASSUME NEW s, Names(s), NEW n, NEW before, Precedes(s, n, before),
         NEW m \in Range(s), m # n, m # before
  PROVE  Precedes(RemoveFirst(s, m), n, before)
<1>s. Len(s) \in Nat /\ DOMAIN s = 1 .. Len(s)
  BY DEF Names
<1>1. PICK i \in 1 .. Len(s) :
        /\ s[i] = n
        /\ NoRule(before) => i = Len(s)
        /\ ~NoRule(before) => i + 1 \in 1 .. Len(s) /\ s[i + 1] = before
  BY <1>s DEF Precedes
<1>2. PICK p \in 1 .. Len(s) : s[p] = m
  BY <1>s DEF Range
<1> DEFINE t == RemoveFirst(s, m)
<1>3. t = [k \in 1 .. Len(s) - 1 |-> IF k < p THEN s[k] ELSE s[k + 1]]
  BY <1>2, <1>s, Removed
<1>4. Names(t)
  BY <1>2, <1>s, RemovedKeeps
<1> HIDE DEF t
<1>5. DOMAIN t = 1 .. Len(s) - 1 /\ Len(t) = Len(s) - 1
  BY <1>3, <1>4, <1>2, <1>s DEF Names
<1>6. \A k \in 1 .. Len(s) - 1 : t[k] = IF k < p THEN s[k] ELSE s[k + 1]
  BY <1>3
<1>7. i \in 1 .. Len(s) /\ p \in 1 .. Len(s) /\ p # i /\ (~NoRule(before) => p # i + 1)
  BY <1>1, <1>2
<1>8. CASE i < p
  <2>1. i \in 1 .. Len(s) - 1
    BY <1>7, <1>8, <1>s
  <2>2. t[i] = n
    BY <1>1, <1>6, <1>7, <1>8, <2>1
  <2>3. NoRule(before) => i = Len(t)
    BY <1>1, <1>2, <1>5, <1>8, <1>s
  <2>4. ASSUME ~NoRule(before)
        PROVE  i + 1 \in 1 .. Len(s) - 1 /\ t[i + 1] = before
    <3>1. i + 1 \in 1 .. Len(s) - 1 /\ i + 1 < p
      BY <2>4, <1>7, <1>8, <1>s
    <3>2. s[i + 1] = before
      BY <2>4, <1>1
    <3> QED BY <3>1, <3>2, <1>6
  <2> QED BY <2>1, <2>2, <2>3, <2>4, <1>5 DEF Precedes, t
<1>9. CASE i > p
  <2>1. i - 1 \in 1 .. Len(s) - 1 /\ (i - 1) + 1 = i /\ ~(i - 1 < p)
    BY <1>7, <1>9, <1>s
  <2>2. t[i - 1] = n
    BY <1>1, <1>6, <2>1
  <2>3. NoRule(before) => i - 1 = Len(t)
    BY <1>1, <1>2, <1>5, <1>9, <1>s
  <2>4. ASSUME ~NoRule(before)
        PROVE  (i - 1) + 1 \in 1 .. Len(s) - 1 /\ t[(i - 1) + 1] = before
    <3>1. s[i + 1] = before /\ i + 1 \in 1 .. Len(s)
      BY <2>4, <1>1
    <3>2. i \in 1 .. Len(s) - 1 /\ ~(i < p)
      BY <3>1, <1>7, <1>9, <1>s
    <3>3. t[i] = before
      BY <3>1, <3>2, <1>6
    <3> QED BY <2>1, <3>2, <3>3
  <2> QED BY <2>1, <2>2, <2>3, <2>4, <1>5 DEF Precedes, t
<1> QED BY <1>7, <1>8, <1>9

(***************************************************************************)
(* One mutation                                                            *)
(***************************************************************************)
Parts == {"up", "first", "addr", "grp", "dyn", "rule", "order"}

Types == {"policy-member", "group-member", "policy", "group", "address"}

(* A configuration with the parts of another, but for some.                *)
Like(d, c, changed) ==
  /\ IsAFunction(d) /\ DOMAIN d = Parts
  /\ \A f \in Parts \ changed : d[f] = c[f]

LEMMA RuleMemberOut ==
  ASSUME NEW c, WellFormed(c), NEW x, x.type = "policy-member"
  PROVE  LET d == TakeOut(c, x)
         IN  /\ Like(d, c, {"rule"})
             /\ d.rule = [c.rule EXCEPT ![x.at][x.field] = @ \ {x.name}]
<1>c. IsAFunction(c) /\ DOMAIN c = Parts
  BY DEF WellFormed, Parts
<1> QED BY <1>c DEF TakeOut, Like, IsAFunction, Parts

LEMMA GroupMemberOut ==
  ASSUME NEW c, WellFormed(c), NEW x, x.type = "group-member"
  PROVE  LET d == TakeOut(c, x)
         IN  /\ Like(d, c, {"grp"})
             /\ d.grp = [c.grp EXCEPT ![x.at] = @ \ {x.name}]
<1>c. IsAFunction(c) /\ DOMAIN c = Parts
  BY DEF WellFormed, Parts
<1> QED BY <1>c DEF TakeOut, Like, IsAFunction, Parts

LEMMA RuleOut ==
  ASSUME NEW c, WellFormed(c), NEW x, x.type = "policy"
  PROVE  LET d == TakeOut(c, x)
         IN  /\ Like(d, c, {"rule", "order"})
             /\ d.rule = Without(c.rule, x.at)
             /\ d.order = [c.order EXCEPT ![Base(x.at)] = RemoveFirst(@, x.at[3])]
<1>c. IsAFunction(c) /\ DOMAIN c = Parts
  BY DEF WellFormed, Parts
<1> QED BY <1>c DEF TakeOut, Like, IsAFunction, Parts

LEMMA GroupOut ==
  ASSUME NEW c, WellFormed(c), NEW x, x.type = "group"
  PROVE  LET d == TakeOut(c, x)
         IN  /\ Like(d, c, {"grp"})
             /\ d.grp = Without(c.grp, x.at)
<1>c. IsAFunction(c) /\ DOMAIN c = Parts
  BY DEF WellFormed, Parts
<1> QED BY <1>c DEF TakeOut, Like, IsAFunction, Parts

LEMMA AddressOut ==
  ASSUME NEW c, WellFormed(c), NEW x, x.type = "address"
  PROVE  LET d == TakeOut(c, x)
         IN  /\ Like(d, c, {"addr"})
             /\ d.addr = Without(c.addr, x.at)
<1>c. IsAFunction(c) /\ DOMAIN c = Parts
  BY DEF WellFormed, Parts
<1> QED BY <1>c DEF TakeOut, Like, IsAFunction, Parts

(* What a mutation leaves alone.                                           *)
LEMMA OutLeaves ==
  ASSUME NEW c, WellFormed(c), NEW x, x.type \in Types
  PROVE  LET d == TakeOut(c, x)
         IN  /\ x.type \notin {"policy", "policy-member"} => d.rule = c.rule
             /\ x.type # "policy" => d.order = c.order
             /\ x.type \notin {"group", "group-member"} => d.grp = c.grp
             /\ x.type # "address" => d.addr = c.addr
<1> DEFINE d == TakeOut(c, x)
<1>1. CASE x.type = "policy-member"
  <2>1. Like(d, c, {"rule"})
    BY <1>1, RuleMemberOut
  <2> QED BY <1>1, <2>1 DEF Like, Parts
<1>2. CASE x.type = "group-member"
  <2>1. Like(d, c, {"grp"})
    BY <1>2, GroupMemberOut
  <2> QED BY <1>2, <2>1 DEF Like, Parts
<1>3. CASE x.type = "policy"
  <2>1. Like(d, c, {"rule", "order"})
    BY <1>3, RuleOut
  <2> QED BY <1>3, <2>1 DEF Like, Parts
<1>4. CASE x.type = "group"
  <2>1. Like(d, c, {"grp"})
    BY <1>4, GroupOut
  <2> QED BY <1>4, <2>1 DEF Like, Parts
<1>5. CASE x.type = "address"
  <2>1. Like(d, c, {"addr"})
    BY <1>5, AddressOut
  <2> QED BY <1>5, <2>1 DEF Like, Parts
<1> QED BY <1>1, <1>2, <1>3, <1>4, <1>5 DEF Types

LEMMA RuleMemberBack ==
  ASSUME NEW c, WellFormed(c), NEW was, NEW x, x.type = "policy-member"
  PROVE  LET d == PutBack(c, was, x)
         IN  /\ Like(d, c, {"rule"})
             /\ d.rule = [c.rule EXCEPT ![x.at][x.field] = @ \cup {x.name}]
<1>c. IsAFunction(c) /\ DOMAIN c = Parts
  BY DEF WellFormed, Parts
<1> QED BY <1>c DEF PutBack, Like, IsAFunction, Parts

LEMMA GroupMemberBack ==
  ASSUME NEW c, WellFormed(c), NEW was, NEW x, x.type = "group-member"
  PROVE  LET d == PutBack(c, was, x)
         IN  /\ Like(d, c, {"grp"})
             /\ d.grp = [c.grp EXCEPT ![x.at] = @ \cup {x.name}]
<1>c. IsAFunction(c) /\ DOMAIN c = Parts
  BY DEF WellFormed, Parts
<1> QED BY <1>c DEF PutBack, Like, IsAFunction, Parts

LEMMA RuleBack ==
  ASSUME NEW c, WellFormed(c), NEW was, NEW x, x.type = "policy"
  PROVE  LET d == PutBack(c, was, x)
         IN  /\ Like(d, c, {"rule", "order"})
             /\ d.rule = With(c.rule, x.at, was.rule[x.at])
             /\ d.order = [c.order EXCEPT ![Base(x.at)] = InFrontOf(@, x.at[3], x.before)]
<1>c. IsAFunction(c) /\ DOMAIN c = Parts
  BY DEF WellFormed, Parts
<1> QED BY <1>c DEF PutBack, Like, IsAFunction, Parts

LEMMA GroupBack ==
  ASSUME NEW c, WellFormed(c), NEW was, NEW x, x.type = "group"
  PROVE  LET d == PutBack(c, was, x)
         IN  /\ Like(d, c, {"grp"})
             /\ d.grp = With(c.grp, x.at, was.grp[x.at])
<1>c. IsAFunction(c) /\ DOMAIN c = Parts
  BY DEF WellFormed, Parts
<1> QED BY <1>c DEF PutBack, Like, IsAFunction, Parts

LEMMA AddressBack ==
  ASSUME NEW c, WellFormed(c), NEW was, NEW x, x.type = "address"
  PROVE  LET d == PutBack(c, was, x)
         IN  /\ Like(d, c, {"addr"})
             /\ d.addr = With(c.addr, x.at, was.addr[x.at])
<1>c. IsAFunction(c) /\ DOMAIN c = Parts
  BY DEF WellFormed, Parts
<1> QED BY <1>c DEF PutBack, Like, IsAFunction, Parts

LEMMA BackLeaves ==
  ASSUME NEW c, WellFormed(c), NEW was, NEW x, x.type \in Types
  PROVE  LET d == PutBack(c, was, x)
         IN  /\ x.type \notin {"policy", "policy-member"} => d.rule = c.rule
             /\ x.type # "policy" => d.order = c.order
             /\ x.type \notin {"group", "group-member"} => d.grp = c.grp
             /\ x.type # "address" => d.addr = c.addr
             /\ d.dyn = c.dyn
<1> DEFINE d == PutBack(c, was, x)
<1>1. CASE x.type = "policy-member"
  <2>1. Like(d, c, {"rule"})
    BY <1>1, RuleMemberBack
  <2> QED BY <1>1, <2>1 DEF Like, Parts
<1>2. CASE x.type = "group-member"
  <2>1. Like(d, c, {"grp"})
    BY <1>2, GroupMemberBack
  <2> QED BY <1>2, <2>1 DEF Like, Parts
<1>3. CASE x.type = "policy"
  <2>1. Like(d, c, {"rule", "order"})
    BY <1>3, RuleBack
  <2> QED BY <1>3, <2>1 DEF Like, Parts
<1>4. CASE x.type = "group"
  <2>1. Like(d, c, {"grp"})
    BY <1>4, GroupBack
  <2> QED BY <1>4, <2>1 DEF Like, Parts
<1>5. CASE x.type = "address"
  <2>1. Like(d, c, {"addr"})
    BY <1>5, AddressBack
  <2> QED BY <1>5, <2>1 DEF Like, Parts
<1> QED BY <1>1, <1>2, <1>3, <1>4, <1>5 DEF Types

(* Two configurations with the same parts are one.                         *)
LEMMA SameParts ==
  ASSUME NEW c, WellFormed(c), NEW d, NEW e, NEW ch, Like(d, c, ch), Like(e, d, ch),
         \A f \in ch : e[f] = c[f]
  PROVE  e = c
<1>1. IsAFunction(c) /\ DOMAIN c = Parts
  BY DEF WellFormed, Parts
<1>2. IsAFunction(e) /\ DOMAIN e = Parts
  BY DEF Like
<1>3. \A f \in Parts : e[f] = c[f]
  BY DEF Like
<1> QED BY <1>1, <1>2, <1>3, SameFunction

(* A mutation that takes out what is there as it was, a rule from before   *)
(* the rule it will be put back before.                                    *)
Takeable(c, was, x) ==
  /\ x.type \in Types
  /\ HoldsAsIn(c, was, x)
  /\ x.type = "policy" =>
       /\ Base(x.at) \in DOMAIN c.order
       /\ Precedes(c.order[Base(x.at)], x.at[3], x.before)

(* A mutation that puts back what is not there.                            *)
Puttable(c, was, x) ==
  /\ x.type \in Types
  /\ ~Holds(c, x)
  /\ x.type = "policy" =>
       /\ x.at \in DOMAIN was.rule
       /\ Base(x.at) \in DOMAIN c.order =>
            NoRule(x.before) \/ x.before \in Range(c.order[Base(x.at)])
  /\ x.type = "group" => x.at \in DOMAIN was.grp

RulesFormed(c) ==
  \A k \in DOMAIN c.rule : k = <<k[1], k[2], k[3]>> /\ k[3] # "" /\ IsARule(c.rule[k])

OrderFormed(c, b) ==
  /\ b = <<b[1], b[2]>>
  /\ Names(c.order[b])
  /\ \A n \in Range(c.order[b]) : <<b[1], b[2], n>> \in DOMAIN c.rule

Finite(f) == IsFiniteSet(DOMAIN f)

GroupsFormed(f) == \A k \in DOMAIN f : k = <<k[1], k[2]>> /\ IsFiniteSet(f[k])

(* A table stays finite, and groups in it stay groups.                     *)
LEMMA FiniteTables ==
  ASSUME NEW f, Finite(f), NEW k
  PROVE  /\ Finite(Without(f, k)) /\ \A v : Finite(With(f, k, v))
         /\ GroupsFormed(f) => GroupsFormed(Without(f, k))
         /\ \A v : GroupsFormed(f) /\ k = <<k[1], k[2]>> /\ IsFiniteSet(v) =>
                  GroupsFormed(With(f, k, v))
<1>1. Finite(Without(f, k))
  <2>1. DOMAIN Without(f, k) = DOMAIN f \ {k}
    BY DEF Without
  <2> QED BY <2>1, FS_RemoveElement DEF Finite
<1>2. ASSUME NEW v PROVE Finite(With(f, k, v))
  <2>1. DOMAIN With(f, k, v) = DOMAIN f \cup {k}
    BY DEF With
  <2> QED BY <2>1, FS_AddElement DEF Finite
<1>3. GroupsFormed(f) => GroupsFormed(Without(f, k))
  BY DEF GroupsFormed, Without
<1>4. ASSUME NEW v, GroupsFormed(f), k = <<k[1], k[2]>>, IsFiniteSet(v)
      PROVE  GroupsFormed(With(f, k, v))
  BY <1>4 DEF GroupsFormed, With
<1> QED BY <1>1, <1>2, <1>3, <1>4

(* One name more or less in one set of a table.                            *)
LEMMA FiniteMembers ==
  ASSUME NEW f, Finite(f), GroupsFormed(f), NEW k, NEW n, NEW g,
         g = [f EXCEPT ![k] = @ \ {n}] \/ g = [f EXCEPT ![k] = @ \cup {n}]
  PROVE  Finite(g) /\ GroupsFormed(g)
<1>1. DOMAIN g = DOMAIN f
  OBVIOUS
<1>2. ASSUME NEW j \in DOMAIN f PROVE IsFiniteSet(g[j])
  <2>1. IsFiniteSet(f[j])
    BY DEF GroupsFormed
  <2>2. g[j] \in {f[j], f[j] \ {n}, f[j] \cup {n}}
    OBVIOUS
  <2> QED BY <2>1, <2>2, FS_RemoveElement, FS_AddElement
<1> QED BY <1>1, <1>2 DEF Finite, GroupsFormed

LEMMA RuleStaysFormed ==
  ASSUME NEW r, IsARule(r), NEW f, NEW n, NEW q,
         q = [r EXCEPT ![f] = @ \ {n}] \/ q = [r EXCEPT ![f] = @ \cup {n}]
  PROVE  IsARule(q)
<1>1. IsAFunction(q) /\ DOMAIN q = DOMAIN r
  BY DEF IsARule, IsAFunction
<1>2. ASSUME NEW g \in Fields PROVE IsFiniteSet(q[g])
  <2>1. IsFiniteSet(r[g]) /\ g \in DOMAIN r
    BY DEF IsARule
  <2>2. q[g] \in {r[g], r[g] \ {n}, r[g] \cup {n}}
    BY <2>1
  <2> QED BY <2>1, <2>2, FS_RemoveElement, FS_AddElement
<1> QED BY <1>1, <1>2 DEF IsARule

LEMMA Formed ==
  ASSUME NEW c
  PROVE  WellFormed(c) <=>
           /\ IsAFunction(c) /\ DOMAIN c = Parts
           /\ IsAFunction(c.addr) /\ IsAFunction(c.grp) /\ IsAFunction(c.rule)
           /\ IsAFunction(c.order)
           /\ Finite(c.addr) /\ Finite(c.grp) /\ Finite(c.rule) /\ GroupsFormed(c.grp)
           /\ RulesFormed(c)
           /\ \A b \in DOMAIN c.order : OrderFormed(c, b)
<1>1. (\A part \in {"addr", "grp", "rule", "order"} : IsAFunction(c[part])) <=>
        IsAFunction(c.addr) /\ IsAFunction(c.grp) /\ IsAFunction(c.rule) /\ IsAFunction(c.order)
  OBVIOUS
<1>2. (\A part \in {"addr", "grp", "rule"} : IsFiniteSet(DOMAIN c[part])) <=>
        Finite(c.addr) /\ Finite(c.grp) /\ Finite(c.rule)
  BY DEF Finite
<1> QED BY <1>1, <1>2 DEF WellFormed, Parts, RulesFormed, OrderFormed, Names, GroupsFormed

LEMMA TakeOutWellFormed ==
  ASSUME NEW c, WellFormed(c), NEW was, NEW x, Takeable(c, was, x)
  PROVE  WellFormed(TakeOut(c, x))
<1> DEFINE d == TakeOut(c, x)
<1>c. /\ IsAFunction(c) /\ DOMAIN c = Parts
      /\ IsAFunction(c.addr) /\ IsAFunction(c.grp) /\ IsAFunction(c.rule)
      /\ IsAFunction(c.order)
      /\ Finite(c.addr) /\ Finite(c.grp) /\ Finite(c.rule) /\ GroupsFormed(c.grp)
      /\ RulesFormed(c)
      /\ \A b \in DOMAIN c.order : OrderFormed(c, b)
  BY Formed
<1>1. CASE x.type = "policy-member"
  <2>1. Like(d, c, {"rule"}) /\ d.rule = [c.rule EXCEPT ![x.at][x.field] = @ \ {x.name}]
    BY <1>1, RuleMemberOut
  <2> HIDE DEF d
  <2>2. IsAFunction(d.rule) /\ RulesFormed(d) /\ DOMAIN d.rule = DOMAIN c.rule
    <3>1. IsAFunction(d.rule) /\ DOMAIN d.rule = DOMAIN c.rule
      BY <2>1 DEF IsAFunction
    <3>2. ASSUME NEW k \in DOMAIN c.rule PROVE IsARule(d.rule[k])
      <4>1. IsARule(c.rule[k])
        BY <1>c DEF RulesFormed
      <4>2. CASE k = x.at
        <5>1. \/ d.rule[k] = [c.rule[k] EXCEPT ![x.field] = @ \ {x.name}]
              \/ d.rule[k] = [c.rule[k] EXCEPT ![x.field] = @ \cup {x.name}]
          BY <2>1, <4>2
        <5> QED BY ONLY <4>1, <5>1, RuleStaysFormed
      <4>3. CASE k # x.at
        BY <2>1, <4>1, <4>3
      <4> QED BY <4>2, <4>3
    <3> QED BY <3>1, <3>2, <1>c DEF RulesFormed
  <2>3. d.addr = c.addr /\ d.grp = c.grp /\ d.order = c.order
    BY <2>1 DEF Like, Parts
  <2>4. \A b \in DOMAIN d.order : OrderFormed(d, b)
    BY <1>c, <2>2, <2>3 DEF OrderFormed
  <2>5. WellFormed(d)
    <3>1. Finite(d.rule)
      BY <1>c, <2>2 DEF Finite
    <3> QED BY <1>c, <2>1, <2>2, <2>3, <2>4, <3>1, Formed DEF Like
  <2> QED BY <2>5 DEF d
<1>2. CASE x.type = "group-member"
  <2>1. Like(d, c, {"grp"}) /\ d.grp = [c.grp EXCEPT ![x.at] = @ \ {x.name}]
    BY <1>2, GroupMemberOut
  <2> HIDE DEF d
  <2>2. IsAFunction(d.grp)
    BY <2>1 DEF IsAFunction
  <2>3. d.addr = c.addr /\ d.rule = c.rule /\ d.order = c.order
    BY <2>1 DEF Like, Parts
  <2>4. RulesFormed(d) /\ \A b \in DOMAIN d.order : OrderFormed(d, b)
    BY <1>c, <2>3 DEF OrderFormed, RulesFormed
  <2>5. WellFormed(d)
    <3>1. Finite(d.grp) /\ GroupsFormed(d.grp)
      <4> DEFINE at == x.at
                 n == x.name
                 f == c.grp
                 g == d.grp
      <4>1. Finite(f) /\ GroupsFormed(f) /\ g = [f EXCEPT ![at] = @ \ {n}]
        BY <1>c, <2>1
      <4> HIDE DEF at, n, f, g
      <4>2. Finite(g) /\ GroupsFormed(g)
        BY <4>1, FiniteMembers
      <4> QED BY <4>2 DEF g
    <3> QED BY <1>c, <2>1, <2>2, <2>3, <2>4, <3>1, Formed DEF Like
  <2> QED BY <2>5 DEF d
<1>3. CASE x.type = "policy"
  <2> DEFINE at == Base(x.at)
             names == c.order[at]
  <2>1. /\ Like(d, c, {"rule", "order"})
        /\ d.rule = Without(c.rule, x.at)
        /\ d.order = [c.order EXCEPT ![at] = RemoveFirst(@, x.at[3])]
    BY <1>3, RuleOut
  <2> HIDE DEF d
  <2>2. IsAFunction(d.rule) /\ RulesFormed(d) /\ DOMAIN d.rule = DOMAIN c.rule \ {x.at}
    <3>1. IsAFunction(d.rule) /\ DOMAIN d.rule = DOMAIN c.rule \ {x.at}
      BY <2>1 DEF IsAFunction, Without
    <3>2. \A k \in DOMAIN d.rule : d.rule[k] = c.rule[k]
      BY <2>1 DEF Without
    <3> QED BY <1>c, <3>1, <3>2 DEF RulesFormed
  <2>3. d.addr = c.addr /\ d.grp = c.grp
    BY <2>1 DEF Like, Parts
  <2>4. x.at \in DOMAIN c.rule /\ at \in DOMAIN c.order /\ Precedes(names, x.at[3], x.before)
    BY <1>3 DEF Takeable, HoldsAsIn, Holds
  <2>5. PICK p \in DOMAIN names : names[p] = x.at[3]
    BY <2>4 DEF Precedes
  <2>6. Names(RemoveFirst(names, x.at[3])) /\ Range(RemoveFirst(names, x.at[3])) = Range(names) \ {x.at[3]}
    <3>1. Names(names)
      BY <1>c, <2>4 DEF OrderFormed
    <3> HIDE DEF names
    <3> QED BY <2>5, <3>1, RemovedKeeps
  <2>7. x.at = <<x.at[1], x.at[2], x.at[3]>> /\ at = <<x.at[1], x.at[2]>>
    BY <1>c, <2>4 DEF RulesFormed, Base
  <2>8. IsAFunction(d.order) /\ DOMAIN d.order = DOMAIN c.order
    BY <1>c, <2>1 DEF IsAFunction
  <2>9. ASSUME NEW b \in DOMAIN c.order PROVE OrderFormed(d, b)
    <3>1. OrderFormed(c, b)
      BY <1>c
    <3>2. CASE b = at
      <4>1. d.order[b] = RemoveFirst(names, x.at[3])
        BY <2>1, <2>4, <3>2
      <4>2. ASSUME NEW n \in Range(names) \ {x.at[3]} PROVE <<b[1], b[2], n>> \in DOMAIN d.rule
        <5>1. <<b[1], b[2], n>> \in DOMAIN c.rule
          BY <3>1, <3>2 DEF OrderFormed
        <5>2. <<b[1], b[2], n>> # x.at
          BY <2>7
        <5> QED BY <5>1, <5>2, <2>2
      <4> QED BY <4>1, <4>2, <2>6, <3>1 DEF OrderFormed
    <3>3. CASE b # at
      <4>1. d.order[b] = c.order[b]
        BY <2>1, <3>3
      <4>2. ASSUME NEW n \in Range(c.order[b]) PROVE <<b[1], b[2], n>> \in DOMAIN d.rule
        <5>1. <<b[1], b[2], n>> \in DOMAIN c.rule /\ b = <<b[1], b[2]>>
          BY <3>1 DEF OrderFormed
        <5>2. <<b[1], b[2], n>> # x.at
          BY <2>7, <3>3, <5>1
        <5> QED BY <5>1, <5>2, <2>2
      <4> QED BY <4>1, <4>2, <3>1 DEF OrderFormed
    <3> QED BY <3>2, <3>3
  <2>10. WellFormed(d)
    <3>1. Finite(d.rule)
      <4>1. Finite(Without(c.rule, x.at))
        BY <1>c, FiniteTables
      <4> QED BY <4>1, <2>1
    <3> QED BY <1>c, <2>1, <2>2, <2>3, <2>8, <2>9, <3>1, Formed DEF Like
  <2> QED BY <2>10 DEF d
<1>4. CASE x.type = "group"
  <2>1. Like(d, c, {"grp"}) /\ d.grp = Without(c.grp, x.at)
    BY <1>4, GroupOut
  <2> HIDE DEF d
  <2>2. IsAFunction(d.grp)
    BY <2>1 DEF IsAFunction, Without
  <2>3. d.addr = c.addr /\ d.rule = c.rule /\ d.order = c.order
    BY <2>1 DEF Like, Parts
  <2>4. RulesFormed(d) /\ \A b \in DOMAIN d.order : OrderFormed(d, b)
    BY <1>c, <2>3 DEF OrderFormed, RulesFormed
  <2>5. WellFormed(d)
    <3>1. Finite(d.grp) /\ GroupsFormed(d.grp)
      BY <1>c, <2>1, FiniteTables
    <3> QED BY <1>c, <2>1, <2>2, <2>3, <2>4, <3>1, Formed DEF Like
  <2> QED BY <2>5 DEF d
<1>5. CASE x.type = "address"
  <2>1. Like(d, c, {"addr"}) /\ d.addr = Without(c.addr, x.at)
    BY <1>5, AddressOut
  <2> HIDE DEF d
  <2>2. IsAFunction(d.addr)
    BY <2>1 DEF IsAFunction, Without
  <2>3. d.grp = c.grp /\ d.rule = c.rule /\ d.order = c.order
    BY <2>1 DEF Like, Parts
  <2>4. RulesFormed(d) /\ \A b \in DOMAIN d.order : OrderFormed(d, b)
    BY <1>c, <2>3 DEF OrderFormed, RulesFormed
  <2>5. WellFormed(d)
    <3>1. Finite(d.addr)
      BY <1>c, <2>1, FiniteTables
    <3> QED BY <1>c, <2>1, <2>2, <2>3, <2>4, <3>1, Formed DEF Like
  <2> QED BY <2>5 DEF d
<1> QED BY <1>1, <1>2, <1>3, <1>4, <1>5 DEF Takeable, Types

LEMMA TableWellFormed ==
  ASSUME NEW c, WellFormed(c), NEW d, NEW f \in {"addr", "grp", "first"}, Like(d, c, {f}),
         f # "first" => IsAFunction(d[f]) /\ Finite(d[f]),
         f = "grp" => GroupsFormed(d[f])
  PROVE  WellFormed(d)
<1>c. /\ IsAFunction(c.addr) /\ IsAFunction(c.grp) /\ IsAFunction(c.rule)
      /\ IsAFunction(c.order)
      /\ Finite(c.addr) /\ Finite(c.grp) /\ Finite(c.rule) /\ GroupsFormed(c.grp)
      /\ RulesFormed(c)
      /\ \A b \in DOMAIN c.order : OrderFormed(c, b)
  BY Formed
<1>1. d.rule = c.rule /\ d.order = c.order
  BY DEF Like, Parts
<1>2. /\ IsAFunction(d.addr) /\ IsAFunction(d.grp)
      /\ Finite(d.addr) /\ Finite(d.grp) /\ GroupsFormed(d.grp)
  BY <1>c DEF Like, Parts
<1>3. RulesFormed(d) /\ \A b \in DOMAIN d.order : OrderFormed(d, b)
  BY <1>c, <1>1 DEF OrderFormed, RulesFormed
<1> QED BY <1>c, <1>1, <1>2, <1>3, Formed DEF Like

(* A rule that is new and put before one that is there.                    *)
LEMMA RuleAddedWellFormed ==
  ASSUME NEW c, WellFormed(c), NEW d, NEW k, NEW r, NEW before,
         Like(d, c, {"rule", "order"}),
         d.rule = With(c.rule, k, r),
         d.order = [c.order EXCEPT ![Base(k)] = InFrontOf(@, k[3], before)],
         k = <<k[1], k[2], k[3]>>, k[3] # "", IsARule(r), k \notin DOMAIN c.rule,
         Base(k) \in DOMAIN c.order => NoRule(before) \/ before \in Range(c.order[Base(k)])
  PROVE  WellFormed(d)
<1> DEFINE at == Base(k)
           names == c.order[at]
<1>c. /\ IsAFunction(c) /\ DOMAIN c = Parts
      /\ IsAFunction(c.addr) /\ IsAFunction(c.grp) /\ IsAFunction(c.rule)
      /\ IsAFunction(c.order)
      /\ Finite(c.addr) /\ Finite(c.grp) /\ Finite(c.rule) /\ GroupsFormed(c.grp)
      /\ RulesFormed(c)
      /\ \A b \in DOMAIN c.order : OrderFormed(c, b)
  BY Formed
<1>2. IsAFunction(d.rule) /\ RulesFormed(d) /\ DOMAIN d.rule = DOMAIN c.rule \cup {k}
  <2>1. IsAFunction(d.rule) /\ DOMAIN d.rule = DOMAIN c.rule \cup {k}
    BY DEF IsAFunction, With
  <2>2. \A j \in DOMAIN d.rule : d.rule[j] = IF j = k THEN r ELSE c.rule[j]
    BY DEF With
  <2> QED BY <1>c, <2>1, <2>2 DEF RulesFormed
<1>3. d.addr = c.addr /\ d.grp = c.grp
  BY DEF Like, Parts
<1>4. at = <<k[1], k[2]>>
  BY DEF Base
<1>5. IsAFunction(d.order) /\ DOMAIN d.order = DOMAIN c.order
  BY <1>c DEF IsAFunction
<1>6. ASSUME NEW b \in DOMAIN c.order PROVE OrderFormed(d, b)
  <2>1. OrderFormed(c, b)
    BY <1>c
  <2>2. CASE b = at
    <3>1. d.order[b] = InFrontOf(names, k[3], before)
      BY <2>2
    <3>b. b[1] = k[1] /\ b[2] = k[2]
      <4>1. \A u, v : <<u, v>>[1] = u /\ <<u, v>>[2] = v
        OBVIOUS
      <4>2. at[1] = k[1] /\ at[2] = k[2]
        BY <4>1 DEF Base
      <4> QED BY <4>2, <2>2
    <3>2. Names(names) /\ \A n \in Range(names) : <<k[1], k[2], n>> \in DOMAIN c.rule
      <4>1. Names(names)
        BY <2>1, <2>2 DEF OrderFormed
      <4>2. \A n \in Range(c.order[b]) : <<b[1], b[2], n>> \in DOMAIN c.rule
        BY <2>1 DEF OrderFormed
      <4> QED BY <4>1, <4>2, <2>2, <3>b
    <3>3. k[3] \notin Range(names)
      BY <3>2
    <3>4. PICK p : PutAt(names, p, before)
      <4>1. CASE NoRule(before)
        BY <4>1 DEF PutAt
      <4>2. CASE ~NoRule(before)
        <5>1. PICK p \in DOMAIN names : names[p] = before
          BY <4>2, <2>2 DEF Range
        <5> QED BY <4>2, <5>1 DEF PutAt
      <4> QED BY <4>1, <4>2
    <3>5. /\ Names(InFrontOf(names, k[3], before))
          /\ Range(InFrontOf(names, k[3], before)) = Range(names) \cup {k[3]}
      <4> DEFINE n == k[3]
      <4>1. Names(names) /\ n \notin Range(names) /\ PutAt(names, p, before)
        BY <3>2, <3>3, <3>4
      <4> HIDE DEF names, n
      <4>2. /\ Names(InFrontOf(names, n, before))
            /\ Range(InFrontOf(names, n, before)) = Range(names) \cup {n}
        BY <4>1, InsertedKeeps
      <4> QED BY <4>2 DEF n
    <3>6. \A n \in Range(names) \cup {k[3]} : <<b[1], b[2], n>> \in DOMAIN d.rule
      BY <3>2, <1>2, <3>b
    <3> QED BY <3>1, <3>5, <3>6, <2>1 DEF OrderFormed
  <2>3. CASE b # at
    <3>1. d.order[b] = c.order[b]
      BY <2>3
    <3> QED BY <3>1, <2>1, <1>2 DEF OrderFormed
  <2> QED BY <2>2, <2>3
<1>7. Finite(d.rule)
  <2>1. Finite(With(c.rule, k, r))
    BY <1>c, FiniteTables
  <2> QED BY <2>1
<1> QED BY <1>c, <1>2, <1>3, <1>5, <1>6, <1>7, Formed DEF Like

LEMMA PutBackWellFormed ==
  ASSUME NEW c, WellFormed(c), NEW was, WellFormed(was), NEW x, Puttable(c, was, x)
  PROVE  WellFormed(PutBack(c, was, x))
<1> DEFINE d == PutBack(c, was, x)
<1>c. /\ IsAFunction(c) /\ DOMAIN c = Parts
      /\ IsAFunction(c.addr) /\ IsAFunction(c.grp) /\ IsAFunction(c.rule)
      /\ IsAFunction(c.order)
      /\ Finite(c.addr) /\ Finite(c.grp) /\ Finite(c.rule) /\ GroupsFormed(c.grp)
      /\ RulesFormed(c)
      /\ \A b \in DOMAIN c.order : OrderFormed(c, b)
  BY Formed
<1>1. CASE x.type = "policy-member"
  <2>1. Like(d, c, {"rule"}) /\ d.rule = [c.rule EXCEPT ![x.at][x.field] = @ \cup {x.name}]
    BY <1>1, RuleMemberBack
  <2> HIDE DEF d
  <2>2. IsAFunction(d.rule) /\ RulesFormed(d) /\ DOMAIN d.rule = DOMAIN c.rule
    <3>1. IsAFunction(d.rule) /\ DOMAIN d.rule = DOMAIN c.rule
      BY <2>1 DEF IsAFunction
    <3>2. ASSUME NEW k \in DOMAIN c.rule PROVE IsARule(d.rule[k])
      <4>1. IsARule(c.rule[k])
        BY <1>c DEF RulesFormed
      <4>2. CASE k = x.at
        <5>1. \/ d.rule[k] = [c.rule[k] EXCEPT ![x.field] = @ \ {x.name}]
              \/ d.rule[k] = [c.rule[k] EXCEPT ![x.field] = @ \cup {x.name}]
          BY <2>1, <4>2
        <5> QED BY ONLY <4>1, <5>1, RuleStaysFormed
      <4>3. CASE k # x.at
        BY <2>1, <4>1, <4>3
      <4> QED BY <4>2, <4>3
    <3> QED BY <3>1, <3>2, <1>c DEF RulesFormed
  <2>3. d.addr = c.addr /\ d.grp = c.grp /\ d.order = c.order
    BY <2>1 DEF Like, Parts
  <2>4. \A b \in DOMAIN d.order : OrderFormed(d, b)
    BY <1>c, <2>2, <2>3 DEF OrderFormed
  <2>5. WellFormed(d)
    <3>1. Finite(d.rule)
      BY <1>c, <2>2 DEF Finite
    <3> QED BY <1>c, <2>1, <2>2, <2>3, <2>4, <3>1, Formed DEF Like
  <2> QED BY <2>5 DEF d
<1>2. CASE x.type = "group-member"
  <2>1. Like(d, c, {"grp"}) /\ d.grp = [c.grp EXCEPT ![x.at] = @ \cup {x.name}]
    BY <1>2, GroupMemberBack
  <2>2. IsAFunction(d.grp)
    BY <2>1 DEF IsAFunction
  <2>3. Finite(d.grp) /\ GroupsFormed(d.grp)
    <3> DEFINE at == x.at
               n == x.name
               f == c.grp
               g == d.grp
    <3>1. Finite(f) /\ GroupsFormed(f) /\ g = [f EXCEPT ![at] = @ \cup {n}]
      BY <1>c, <2>1
    <3> HIDE DEF at, n, f, g
    <3>2. Finite(g) /\ GroupsFormed(g)
      BY <3>1, FiniteMembers
    <3> QED BY <3>2 DEF g
  <2> QED BY <2>1, <2>2, <2>3, TableWellFormed
<1>3. CASE x.type = "policy"
  <2>1. /\ Like(d, c, {"rule", "order"})
        /\ d.rule = With(c.rule, x.at, was.rule[x.at])
        /\ d.order = [c.order EXCEPT ![Base(x.at)] = InFrontOf(@, x.at[3], x.before)]
    BY <1>3, RuleBack
  <2>2. x.at \in DOMAIN was.rule /\ x.at \notin DOMAIN c.rule
    BY <1>3 DEF Puttable, Holds
  <2>3. x.at = <<x.at[1], x.at[2], x.at[3]>> /\ x.at[3] # "" /\ IsARule(was.rule[x.at])
    BY <2>2, Formed DEF RulesFormed, IsARule
  <2>4. Base(x.at) \in DOMAIN c.order =>
          NoRule(x.before) \/ x.before \in Range(c.order[Base(x.at)])
    BY <1>3 DEF Puttable
  <2> HIDE DEF d
  <2>5. WellFormed(d)
    BY <2>1, <2>2, <2>3, <2>4, RuleAddedWellFormed
  <2> QED BY <2>5 DEF d
<1>4. CASE x.type = "group"
  <2>1. Like(d, c, {"grp"}) /\ d.grp = With(c.grp, x.at, was.grp[x.at])
    BY <1>4, GroupBack
  <2>2. IsAFunction(d.grp)
    BY <2>1 DEF IsAFunction, With
  <2>3. x.at = <<x.at[1], x.at[2]>> /\ IsFiniteSet(was.grp[x.at])
    BY <1>4, Formed DEF Puttable, GroupsFormed
  <2>4. Finite(d.grp) /\ GroupsFormed(d.grp)
    BY <1>c, <2>1, <2>3, FiniteTables
  <2> QED BY <2>1, <2>2, <2>4, TableWellFormed
<1>5. CASE x.type = "address"
  <2>1. Like(d, c, {"addr"}) /\ d.addr = With(c.addr, x.at, was.addr[x.at])
    BY <1>5, AddressBack
  <2>2. IsAFunction(d.addr)
    BY <2>1 DEF IsAFunction, With
  <2>3. Finite(d.addr)
    BY <1>c, <2>1, FiniteTables
  <2> QED BY <2>1, <2>2, <2>3, TableWellFormed
<1> QED BY <1>1, <1>2, <1>3, <1>4, <1>5 DEF Puttable, Types

(* The inverse of a mutation of a cleanup restores the configuration       *)
(* exactly, the place of a rule in its rulebase included                   *)
(* (patchset_from_cleaner_plan, cleaner_adapter.py).                       *)
THEOREM TakenOutAndPutBack ==
  ASSUME NEW c, WellFormed(c), NEW was, NEW x, Takeable(c, was, x)
  PROVE  PutBack(TakeOut(c, x), was, x) = c
<1> DEFINE d == TakeOut(c, x)
           e == PutBack(d, was, x)
<1>d. WellFormed(d)
  BY TakeOutWellFormed
<1>c. /\ IsAFunction(c.addr) /\ IsAFunction(c.grp) /\ IsAFunction(c.rule)
      /\ IsAFunction(c.order) /\ RulesFormed(c)
      /\ \A b \in DOMAIN c.order : OrderFormed(c, b)
  BY Formed
<1>1. CASE x.type = "policy-member"
  <2>1. Like(d, c, {"rule"}) /\ d.rule = [c.rule EXCEPT ![x.at][x.field] = @ \ {x.name}]
    BY <1>1, RuleMemberOut
  <2>2. x.at \in DOMAIN c.rule /\ x.name \in c.rule[x.at][x.field]
    BY <1>1 DEF Takeable, HoldsAsIn, Holds
  <2> HIDE DEF d
  <2>3. Like(e, d, {"rule"}) /\ e.rule = [d.rule EXCEPT ![x.at][x.field] = @ \cup {x.name}]
    BY <1>1, <1>d, RuleMemberBack
  <2> HIDE DEF e
  <2>4. e.rule = c.rule
    <3>1. DOMAIN e.rule = DOMAIN c.rule /\ IsAFunction(e.rule)
      BY <2>1, <2>3 DEF IsAFunction
    <3>2. \A k \in DOMAIN c.rule : k # x.at => e.rule[k] = c.rule[k]
      BY <2>1, <2>3
    <3>3. e.rule[x.at] = c.rule[x.at]
      <4> DEFINE r == c.rule[x.at]
                 q == e.rule[x.at]
      <4>1. q = [[r EXCEPT ![x.field] = @ \ {x.name}] EXCEPT ![x.field] = @ \cup {x.name}]
        BY <2>1, <2>2, <2>3
      <4>2. IsAFunction(r)
        BY <1>c, <2>2 DEF RulesFormed, IsARule
      <4>3. x.name \in r[x.field]
        BY <2>2
      <4> HIDE DEF r, q
      <4>4. IsAFunction(q) /\ DOMAIN q = DOMAIN r /\ \A f \in DOMAIN r : q[f] = r[f]
        BY <4>1, <4>3 DEF IsAFunction
      <4>5. q = r
        BY <4>2, <4>4, SameFunction
      <4> QED BY <4>5 DEF q, r
    <3> QED BY <3>1, <3>2, <3>3, <1>c, SameFunction
  <2>5. e = c
    BY <2>1, <2>3, <2>4, SameParts
  <2> QED BY <2>5 DEF e, d
<1>2. CASE x.type = "group-member"
  <2>1. Like(d, c, {"grp"}) /\ d.grp = [c.grp EXCEPT ![x.at] = @ \ {x.name}]
    BY <1>2, GroupMemberOut
  <2>2. x.at \in DOMAIN c.grp /\ x.name \in c.grp[x.at]
    BY <1>2 DEF Takeable, HoldsAsIn, Holds
  <2> HIDE DEF d
  <2>3. Like(e, d, {"grp"}) /\ e.grp = [d.grp EXCEPT ![x.at] = @ \cup {x.name}]
    BY <1>2, <1>d, GroupMemberBack
  <2> HIDE DEF e
  <2>4. e.grp = c.grp
    <3>1. DOMAIN e.grp = DOMAIN c.grp /\ IsAFunction(e.grp)
      BY <2>1, <2>3 DEF IsAFunction
    <3>2. \A k \in DOMAIN c.grp : e.grp[k] = c.grp[k]
      BY <2>1, <2>2, <2>3
    <3> QED BY <3>1, <3>2, <1>c, SameFunction
  <2>5. e = c
    BY <2>1, <2>3, <2>4, SameParts
  <2> QED BY <2>5 DEF e, d
<1>3. CASE x.type = "policy"
  <2> DEFINE at == Base(x.at)
             names == c.order[at]
  <2>1. /\ Like(d, c, {"rule", "order"})
        /\ d.rule = Without(c.rule, x.at)
        /\ d.order = [c.order EXCEPT ![at] = RemoveFirst(@, x.at[3])]
    BY <1>3, RuleOut
  <2>2. /\ x.at \in DOMAIN c.rule /\ c.rule[x.at] = was.rule[x.at]
        /\ at \in DOMAIN c.order /\ Precedes(names, x.at[3], x.before)
    BY <1>3 DEF Takeable, HoldsAsIn, Holds
  <2> HIDE DEF d
  <2>3. /\ Like(e, d, {"rule", "order"})
        /\ e.rule = With(d.rule, x.at, was.rule[x.at])
        /\ e.order = [d.order EXCEPT ![at] = InFrontOf(@, x.at[3], x.before)]
    BY <1>3, <1>d, RuleBack
  <2> HIDE DEF e
  <2>4. e.rule = c.rule
    BY <2>1, <2>2, <2>3, <1>c, WithoutWith
  <2>5. e.order = c.order
    <3>1. DOMAIN e.order = DOMAIN c.order /\ IsAFunction(e.order)
      BY <2>1, <2>3 DEF IsAFunction
    <3>2. \A b \in DOMAIN c.order : b # at => e.order[b] = c.order[b]
      BY <2>1, <2>3
    <3>3. e.order[at] = InFrontOf(RemoveFirst(names, x.at[3]), x.at[3], x.before)
      BY <2>1, <2>2, <2>3
    <3>4. Names(names)
      BY <1>c, <2>2 DEF OrderFormed
    <3>5. InFrontOf(RemoveFirst(names, x.at[3]), x.at[3], x.before) = names
      <4> HIDE DEF names
      <4> QED BY <2>2, <3>4, OutAndIn
    <3> QED BY <3>1, <3>2, <3>3, <3>5, <1>c, SameFunction
  <2>6. e = c
    BY <2>1, <2>3, <2>4, <2>5, SameParts
  <2> QED BY <2>6 DEF e, d
<1>4. CASE x.type = "group"
  <2>1. Like(d, c, {"grp"}) /\ d.grp = Without(c.grp, x.at)
    BY <1>4, GroupOut
  <2>2. x.at \in DOMAIN c.grp /\ c.grp[x.at] = was.grp[x.at]
    BY <1>4 DEF Takeable, HoldsAsIn
  <2> HIDE DEF d
  <2>3. Like(e, d, {"grp"}) /\ e.grp = With(d.grp, x.at, was.grp[x.at])
    BY <1>4, <1>d, GroupBack
  <2> HIDE DEF e
  <2>4. e.grp = c.grp
    BY <2>1, <2>2, <2>3, <1>c, WithoutWith
  <2>5. e = c
    BY <2>1, <2>3, <2>4, SameParts
  <2> QED BY <2>5 DEF e, d
<1>5. CASE x.type = "address"
  <2>1. Like(d, c, {"addr"}) /\ d.addr = Without(c.addr, x.at)
    BY <1>5, AddressOut
  <2>2. x.at \in DOMAIN c.addr /\ c.addr[x.at] = was.addr[x.at]
    BY <1>5 DEF Takeable, HoldsAsIn, Holds
  <2> HIDE DEF d
  <2>3. Like(e, d, {"addr"}) /\ e.addr = With(d.addr, x.at, was.addr[x.at])
    BY <1>5, <1>d, AddressBack
  <2> HIDE DEF e
  <2>4. e.addr = c.addr
    BY <2>1, <2>2, <2>3, <1>c, WithoutWith
  <2>5. e = c
    BY <2>1, <2>3, <2>4, SameParts
  <2> QED BY <2>5 DEF e, d
<1> QED BY <1>1, <1>2, <1>3, <1>4, <1>5 DEF Takeable, Types

(* After an entry was taken out it can be put back.                        *)
LEMMA StaysOpen ==
  ASSUME NEW c, WellFormed(c), NEW was, NEW x, Takeable(c, was, x)
  PROVE  CanPutBack(TakeOut(c, x), x)
<1> DEFINE d == TakeOut(c, x)
<1>1. CASE x.type = "policy-member"
  <2>1. DOMAIN c = Parts /\ IsAFunction(c.rule) /\ x.at \in DOMAIN c.rule
    BY <1>1, Formed DEF Takeable, HoldsAsIn, Holds
  <2>2. d.rule = [c.rule EXCEPT ![x.at][x.field] = @ \ {x.name}]
    BY <1>1, <2>1 DEF TakeOut, Parts
  <2> QED BY <1>1, <2>1, <2>2 DEF CanPutBack
<1>2. CASE x.type = "group-member"
  <2>1. DOMAIN c = Parts /\ IsAFunction(c.grp) /\ x.at \in DOMAIN c.grp
    BY <1>2, Formed DEF Takeable, HoldsAsIn, Holds
  <2>2. d.grp = [c.grp EXCEPT ![x.at] = @ \ {x.name}]
    BY <1>2, <2>1 DEF TakeOut, Parts
  <2> QED BY <1>2, <2>1, <2>2 DEF CanPutBack
<1>3. CASE x.type = "policy"
  <2> DEFINE b == Base(x.at)
             names == c.order[b]
  <2>1. DOMAIN c = Parts /\ b \in DOMAIN c.order /\ Names(names) /\ Precedes(names, x.at[3], x.before)
    BY <1>3, Formed DEF Takeable, OrderFormed
  <2>2. d.order = [c.order EXCEPT ![b] = RemoveFirst(@, x.at[3])]
    BY <1>3, <2>1 DEF TakeOut, Parts
  <2>3. d.order[b] = RemoveFirst(names, x.at[3])
    BY <2>1, <2>2
  <2>4. NoRule(x.before) \/ x.before \in Range(RemoveFirst(names, x.at[3]))
    <3> HIDE DEF names
    <3> QED BY <2>1, NextRemains
  <2>5. b \in DOMAIN d.order
    BY <2>1, <2>2
  <2>6. RuleNames(d, x.at) = d.order[b]
    BY <2>5 DEF RuleNames
  <2> QED BY <1>3, <2>3, <2>4, <2>6 DEF CanPutBack, NoRule
<1> QED BY <1>1, <1>2, <1>3 DEF CanPutBack, Takeable, Types

(* The inverse of a mutation of a restore restores the configuration       *)
(* exactly, when what it puts back was not there                           *)
(* (build_restore_patchset_history, restore.py).                           *)
THEOREM PutBackAndTakenOut ==
  ASSUME NEW c, WellFormed(c), NEW was, WellFormed(was), NEW x, Puttable(c, was, x)
  PROVE  TakeOut(PutBack(c, was, x), x) = c
<1> DEFINE d == PutBack(c, was, x)
           e == TakeOut(d, x)
<1>d. WellFormed(d)
  BY PutBackWellFormed
<1>c. /\ IsAFunction(c.addr) /\ IsAFunction(c.grp) /\ IsAFunction(c.rule)
      /\ IsAFunction(c.order) /\ RulesFormed(c)
      /\ \A b \in DOMAIN c.order : OrderFormed(c, b)
  BY Formed
<1>1. CASE x.type = "policy-member"
  <2>1. Like(d, c, {"rule"}) /\ d.rule = [c.rule EXCEPT ![x.at][x.field] = @ \cup {x.name}]
    BY <1>1, RuleMemberBack
  <2>2. ~(x.at \in DOMAIN c.rule /\ x.name \in c.rule[x.at][x.field])
    BY <1>1 DEF Puttable, Holds
  <2> HIDE DEF d
  <2>3. Like(e, d, {"rule"}) /\ e.rule = [d.rule EXCEPT ![x.at][x.field] = @ \ {x.name}]
    BY <1>1, <1>d, RuleMemberOut
  <2> HIDE DEF e
  <2>4. e.rule = c.rule
    <3>1. DOMAIN e.rule = DOMAIN c.rule /\ IsAFunction(e.rule)
      BY <2>1, <2>3 DEF IsAFunction
    <3>2. \A k \in DOMAIN c.rule : k # x.at => e.rule[k] = c.rule[k]
      BY <2>1, <2>3
    <3>3. ASSUME x.at \in DOMAIN c.rule PROVE e.rule[x.at] = c.rule[x.at]
      <4> DEFINE r == c.rule[x.at]
                 q == e.rule[x.at]
      <4>1. q = [[r EXCEPT ![x.field] = @ \cup {x.name}] EXCEPT ![x.field] = @ \ {x.name}]
        BY <2>1, <2>3, <3>3
      <4>2. IsAFunction(r)
        BY <1>c, <3>3 DEF RulesFormed, IsARule
      <4>3. x.name \notin r[x.field]
        BY <2>2, <3>3
      <4> HIDE DEF r, q
      <4>4. IsAFunction(q) /\ DOMAIN q = DOMAIN r /\ \A f \in DOMAIN r : q[f] = r[f]
        BY <4>1, <4>3 DEF IsAFunction
      <4>5. q = r
        BY <4>2, <4>4, SameFunction
      <4> QED BY <4>5 DEF q, r
    <3> QED BY <3>1, <3>2, <3>3, <1>c, SameFunction
  <2>5. e = c
    BY <2>1, <2>3, <2>4, SameParts
  <2> QED BY <2>5 DEF e, d
<1>2. CASE x.type = "group-member"
  <2>1. Like(d, c, {"grp"}) /\ d.grp = [c.grp EXCEPT ![x.at] = @ \cup {x.name}]
    BY <1>2, GroupMemberBack
  <2>2. ~(x.at \in DOMAIN c.grp /\ x.name \in c.grp[x.at])
    BY <1>2 DEF Puttable, Holds
  <2> HIDE DEF d
  <2>3. Like(e, d, {"grp"}) /\ e.grp = [d.grp EXCEPT ![x.at] = @ \ {x.name}]
    BY <1>2, <1>d, GroupMemberOut
  <2> HIDE DEF e
  <2>4. e.grp = c.grp
    <3>1. DOMAIN e.grp = DOMAIN c.grp /\ IsAFunction(e.grp)
      BY <2>1, <2>3 DEF IsAFunction
    <3>2. \A k \in DOMAIN c.grp : e.grp[k] = c.grp[k]
      BY <2>1, <2>2, <2>3
    <3> QED BY <3>1, <3>2, <1>c, SameFunction
  <2>5. e = c
    BY <2>1, <2>3, <2>4, SameParts
  <2> QED BY <2>5 DEF e, d
<1>3. CASE x.type = "policy"
  <2> DEFINE at == Base(x.at)
             names == c.order[at]
             n == x.at[3]
  <2>1. /\ Like(d, c, {"rule", "order"})
        /\ d.rule = With(c.rule, x.at, was.rule[x.at])
        /\ d.order = [c.order EXCEPT ![at] = InFrontOf(@, n, x.before)]
    BY <1>3, RuleBack
  <2>2. /\ x.at \notin DOMAIN c.rule /\ x.at \in DOMAIN was.rule
        /\ at \in DOMAIN c.order => NoRule(x.before) \/ x.before \in Range(names)
    BY <1>3 DEF Puttable, Holds
  <2> HIDE DEF d
  <2>3. /\ Like(e, d, {"rule", "order"})
        /\ e.rule = Without(d.rule, x.at)
        /\ e.order = [d.order EXCEPT ![at] = RemoveFirst(@, n)]
    BY <1>3, <1>d, RuleOut
  <2> HIDE DEF e
  <2>4. e.rule = c.rule
    BY <2>1, <2>2, <2>3, <1>c, WithoutWith
  <2>5. e.order = c.order
    <3>1. DOMAIN e.order = DOMAIN c.order /\ IsAFunction(e.order)
      BY <2>1, <2>3 DEF IsAFunction
    <3>2. \A b \in DOMAIN c.order : b # at => e.order[b] = c.order[b]
      BY <2>1, <2>3
    <3>3. ASSUME at \in DOMAIN c.order PROVE e.order[at] = names
      <4>1. e.order[at] = RemoveFirst(InFrontOf(names, n, x.before), n)
        BY <2>1, <2>3, <3>3
      <4>2. Names(names) /\ \A m \in Range(names) : <<at[1], at[2], m>> \in DOMAIN c.rule
        BY <1>c, <3>3 DEF OrderFormed
      <4>3. n \notin Range(names)
        <5>1. x.at = <<x.at[1], x.at[2], n>>
          BY <2>2, Formed DEF RulesFormed, IsARule
        <5>2. at[1] = x.at[1] /\ at[2] = x.at[2]
          BY DEF Base
        <5> QED BY <5>1, <5>2, <4>2, <2>2
      <4>4. PICK p : PutAt(names, p, x.before)
        <5>1. CASE NoRule(x.before)
          BY <5>1 DEF PutAt
        <5>2. CASE ~NoRule(x.before)
          <6>1. PICK p \in DOMAIN names : names[p] = x.before
            BY <5>2, <3>3, <2>2 DEF Range
          <6> QED BY <5>2, <6>1 DEF PutAt
        <5> QED BY <5>1, <5>2
      <4> HIDE DEF names, n
      <4> QED BY <4>1, <4>2, <4>3, <4>4, InAndOut
    <3> QED BY <3>1, <3>2, <3>3, <1>c, SameFunction
  <2>6. e = c
    BY <2>1, <2>3, <2>4, <2>5, SameParts
  <2> QED BY <2>6 DEF e, d
<1>4. CASE x.type = "group"
  <2>1. Like(d, c, {"grp"}) /\ d.grp = With(c.grp, x.at, was.grp[x.at])
    BY <1>4, GroupBack
  <2>2. x.at \notin DOMAIN c.grp
    BY <1>4 DEF Puttable, Holds
  <2> HIDE DEF d
  <2>3. Like(e, d, {"grp"}) /\ e.grp = Without(d.grp, x.at)
    BY <1>4, <1>d, GroupOut
  <2> HIDE DEF e
  <2>4. e.grp = c.grp
    BY <2>1, <2>2, <2>3, <1>c, WithoutWith
  <2>5. e = c
    BY <2>1, <2>3, <2>4, SameParts
  <2> QED BY <2>5 DEF e, d
<1>5. CASE x.type = "address"
  <2>1. Like(d, c, {"addr"}) /\ d.addr = With(c.addr, x.at, was.addr[x.at])
    BY <1>5, AddressBack
  <2>2. x.at \notin DOMAIN c.addr
    BY <1>5 DEF Puttable, Holds
  <2> HIDE DEF d
  <2>3. Like(e, d, {"addr"}) /\ e.addr = Without(d.addr, x.at)
    BY <1>5, <1>d, AddressOut
  <2> HIDE DEF e
  <2>4. e.addr = c.addr
    BY <2>1, <2>2, <2>3, <1>c, WithoutWith
  <2>5. e = c
    BY <2>1, <2>3, <2>4, SameParts
  <2> QED BY <2>5 DEF e, d
<1> QED BY <1>1, <1>2, <1>3, <1>4, <1>5 DEF Puttable, Types

(***************************************************************************)
(* One mutation and those after it                                         *)
(***************************************************************************)
OfRule(x) == x.type \in {"policy", "policy-member"}

OfGroup(x) == x.type \in {"group", "group-member"}

LEMMA DistinctEntries ==
  ASSUME NEW x, NEW y, x.type \in Types, y.type \in Types, Distinct(x, y), x.at = y.at,
         \/ OfRule(x) /\ OfRule(y)
         \/ OfGroup(x) /\ OfGroup(y)
         \/ x.type = "address" /\ y.type = "address"
  PROVE  /\ x.type \in {"policy-member", "group-member"} /\ y.type = x.type
         /\ x.name = y.name => x.type = "policy-member" /\ x.field # y.field
<1>1. Owner(x) = Owner(y)
  <2>1. CASE OfRule(x) /\ OfRule(y)
    <3>1. Owner(x) = <<"rule", x.at>> /\ Owner(y) = <<"rule", y.at>>
      BY <2>1 DEF Owner, OfRule
    <3> QED BY <3>1
  <2>2. CASE OfGroup(x) /\ OfGroup(y)
    <3>1. Owner(x) = <<"group", x.at>> /\ Owner(y) = <<"group", y.at>>
      BY <2>2 DEF Owner, OfGroup
    <3> QED BY <3>1
  <2>3. CASE x.type = "address" /\ y.type = "address"
    <3>1. Owner(x) = <<"address", x.at>> /\ Owner(y) = <<"address", y.at>>
      BY <2>3 DEF Owner
    <3> QED BY <3>1
  <2> QED BY <2>1, <2>2, <2>3
<1>2. /\ IsMember(x) /\ IsMember(y)
      /\ x.name = y.name => x.type = "policy-member" /\ x.field # y.field
  BY <1>1 DEF Distinct
<1>3. x.type \in {"policy-member", "group-member"} /\ y.type \in {"policy-member", "group-member"}
  BY <1>2 DEF IsMember
<1> QED BY <1>2, <1>3 DEF OfRule, OfGroup

LEMMA TakeableKept ==
  ASSUME NEW c, WellFormed(c), NEW was, NEW x, NEW y, Takeable(c, was, x), Takeable(c, was, y),
         Distinct(x, y), InOneRulebase(x, y) => x.at[3] # y.before
  PROVE  Takeable(TakeOut(c, x), was, y)
<1> DEFINE d == TakeOut(c, x)
<1>t. x.type \in Types /\ y.type \in Types /\ Holds(c, x)
  BY DEF Takeable, HoldsAsIn
<1>1. CASE y.type = "policy-member"
  <2>1. y.at \in DOMAIN c.rule /\ y.name \in c.rule[y.at][y.field]
    BY <1>1 DEF Takeable, HoldsAsIn, Holds
  <2>2. y.at \in DOMAIN d.rule /\ y.name \in d.rule[y.at][y.field]
    <3>1. CASE x.type = "policy-member"
      <4>1. d.rule = [c.rule EXCEPT ![x.at][x.field] = @ \ {x.name}]
        BY <3>1, RuleMemberOut
      <4>2. x.at = y.at /\ x.name = y.name => x.field # y.field
        BY <1>1, <3>1, <1>t, DistinctEntries DEF OfRule
      <4> HIDE DEF d
      <4>3. CASE x.at = y.at
        <5>1. d.rule[y.at] = [c.rule[y.at] EXCEPT ![x.field] = @ \ {x.name}] /\ y.at \in DOMAIN d.rule
          BY <2>1, <4>1, <4>3
        <5>2. CASE x.field = y.field
          BY <2>1, <4>2, <4>3, <5>1, <5>2
        <5>3. CASE x.field # y.field
          BY <2>1, <5>1, <5>3
        <5> QED BY <5>2, <5>3
      <4>4. CASE x.at # y.at
        BY <2>1, <4>1, <4>4
      <4> QED BY <4>3, <4>4
    <3>2. CASE x.type = "policy"
      <4>1. d.rule = Without(c.rule, x.at)
        BY <3>2, RuleOut
      <4>2. x.at # y.at
        BY <1>1, <3>2, <1>t, DistinctEntries DEF OfRule
      <4> HIDE DEF d
      <4> QED BY <2>1, <4>1, <4>2 DEF Without
    <3>3. CASE x.type \in {"group-member", "group", "address"}
      <4>1. d.rule = c.rule
        BY <3>3, <1>t, OutLeaves DEF Types
      <4> QED BY <2>1, <4>1
    <3> QED BY <3>1, <3>2, <3>3, <1>t DEF Types
  <2> QED BY <1>1, <2>2 DEF Takeable, HoldsAsIn, Holds, Types
<1>2. CASE y.type = "group-member"
  <2>1. y.at \in DOMAIN c.grp /\ y.name \in c.grp[y.at]
    BY <1>2 DEF Takeable, HoldsAsIn, Holds
  <2>2. y.at \in DOMAIN d.grp /\ y.name \in d.grp[y.at]
    <3>1. CASE x.type = "group-member"
      <4>1. d.grp = [c.grp EXCEPT ![x.at] = @ \ {x.name}]
        BY <3>1, GroupMemberOut
      <4>2. x.at = y.at => x.name # y.name
        BY <1>2, <3>1, <1>t, DistinctEntries DEF OfGroup
      <4> HIDE DEF d
      <4> QED BY <2>1, <4>1, <4>2
    <3>2. CASE x.type = "group"
      <4>1. d.grp = Without(c.grp, x.at)
        BY <3>2, GroupOut
      <4>2. x.at # y.at
        BY <1>2, <3>2, <1>t, DistinctEntries DEF OfGroup
      <4> HIDE DEF d
      <4> QED BY <2>1, <4>1, <4>2 DEF Without
    <3>3. CASE x.type \in {"policy-member", "policy", "address"}
      <4>1. d.grp = c.grp
        BY <3>3, <1>t, OutLeaves DEF Types
      <4> QED BY <2>1, <4>1
    <3> QED BY <3>1, <3>2, <3>3, <1>t DEF Types
  <2> QED BY <1>2, <2>2 DEF Takeable, HoldsAsIn, Holds, Types
<1>3. CASE y.type = "policy"
  <2> DEFINE at == Base(y.at)
             names == c.order[at]
  <2>1. /\ y.at \in DOMAIN c.rule /\ c.rule[y.at] = was.rule[y.at]
        /\ at \in DOMAIN c.order /\ Precedes(names, y.at[3], y.before)
    BY <1>3 DEF Takeable, HoldsAsIn, Holds
  <2>2. y.at \in DOMAIN d.rule /\ d.rule[y.at] = c.rule[y.at]
    <3>1. CASE x.type = "policy-member"
      <4>1. d.rule = [c.rule EXCEPT ![x.at][x.field] = @ \ {x.name}]
        BY <3>1, RuleMemberOut
      <4>2. x.at # y.at
        BY <1>3, <3>1, <1>t, DistinctEntries DEF OfRule
      <4> HIDE DEF d
      <4> QED BY <2>1, <4>1, <4>2
    <3>2. CASE x.type = "policy"
      <4>1. d.rule = Without(c.rule, x.at)
        BY <3>2, RuleOut
      <4>2. x.at # y.at
        BY <1>3, <3>2, <1>t, DistinctEntries DEF OfRule
      <4> HIDE DEF d
      <4> QED BY <2>1, <4>1, <4>2 DEF Without
    <3>3. CASE x.type \in {"group-member", "group", "address"}
      <4>1. d.rule = c.rule
        BY <3>3, <1>t, OutLeaves DEF Types
      <4> QED BY <2>1, <4>1
    <3> QED BY <3>1, <3>2, <3>3, <1>t DEF Types
  <2>3. at \in DOMAIN d.order /\ Precedes(d.order[at], y.at[3], y.before)
    <3>1. CASE x.type = "policy"
      <4>1. d.order = [c.order EXCEPT ![Base(x.at)] = RemoveFirst(@, x.at[3])]
        BY <3>1, RuleOut
      <4>2. x.at # y.at
        BY <1>3, <3>1, <1>t, DistinctEntries DEF OfRule
      <4> HIDE DEF d
      <4>3. CASE Base(x.at) = at
        <5>1. x.at[3] # y.before
          BY <4>3, <1>3, <3>1 DEF InOneRulebase
        <5>2. x.at[3] # y.at[3]
          <6>1. x.at \in DOMAIN c.rule
            BY <3>1, <1>t DEF Holds
          <6>2. /\ x.at = <<x.at[1], x.at[2], x.at[3]>>
                /\ y.at = <<y.at[1], y.at[2], y.at[3]>>
            BY <2>1, <6>1, Formed DEF RulesFormed, IsARule
          <6>3. x.at[1] = y.at[1] /\ x.at[2] = y.at[2]
            BY <4>3 DEF Base
          <6> QED BY <4>2, <6>2, <6>3
        <5>3. x.at[3] \in Range(names)
          <6>1. Precedes(names, x.at[3], x.before)
            BY <4>3, <3>1 DEF Takeable
          <6> QED BY <6>1 DEF Precedes, Range
        <5>4. Names(names)
          BY <2>1, Formed DEF OrderFormed
        <5>5. d.order[at] = RemoveFirst(names, x.at[3]) /\ at \in DOMAIN d.order
          BY <4>1, <4>3, <2>1
        <5> DEFINE n == y.at[3]
                   m == x.at[3]
                   b == y.before
        <5>6. Names(names) /\ Precedes(names, n, b) /\ m \in Range(names) /\ m # n /\ m # b
          BY <5>1, <5>2, <5>3, <5>4, <2>1
        <5>7. Precedes(RemoveFirst(names, m), n, b)
          <6> HIDE DEF names, n, m, b
          <6> QED BY <5>6, PrecedesKept
        <5> QED BY <5>5, <5>7
      <4>4. CASE Base(x.at) # at
        BY <4>1, <4>4, <2>1
      <4> QED BY <4>3, <4>4
    <3>2. CASE x.type # "policy"
      <4>1. d.order = c.order
        BY <3>2, <1>t, OutLeaves DEF Types
      <4> QED BY <4>1, <2>1
    <3> QED BY <3>1, <3>2
  <2> QED BY <1>3, <2>1, <2>2, <2>3 DEF Takeable, HoldsAsIn, Holds, Types
<1>4. CASE y.type = "group"
  <2>1. y.at \in DOMAIN c.grp /\ c.grp[y.at] = was.grp[y.at]
    BY <1>4 DEF Takeable, HoldsAsIn
  <2>2. y.at \in DOMAIN d.grp /\ d.grp[y.at] = c.grp[y.at]
    <3>1. CASE x.type = "group-member"
      <4>1. d.grp = [c.grp EXCEPT ![x.at] = @ \ {x.name}]
        BY <3>1, GroupMemberOut
      <4>2. x.at # y.at
        BY <1>4, <3>1, <1>t, DistinctEntries DEF OfGroup
      <4> HIDE DEF d
      <4> QED BY <2>1, <4>1, <4>2
    <3>2. CASE x.type = "group"
      <4>1. d.grp = Without(c.grp, x.at)
        BY <3>2, GroupOut
      <4>2. x.at # y.at
        BY <1>4, <3>2, <1>t, DistinctEntries DEF OfGroup
      <4> HIDE DEF d
      <4> QED BY <2>1, <4>1, <4>2 DEF Without
    <3>3. CASE x.type \in {"policy-member", "policy", "address"}
      <4>1. d.grp = c.grp
        BY <3>3, <1>t, OutLeaves DEF Types
      <4> QED BY <2>1, <4>1
    <3> QED BY <3>1, <3>2, <3>3, <1>t DEF Types
  <2> QED BY <1>4, <2>1, <2>2 DEF Takeable, HoldsAsIn, Holds, Types
<1>5. CASE y.type = "address"
  <2>1. y.at \in DOMAIN c.addr /\ c.addr[y.at] = was.addr[y.at]
    BY <1>5 DEF Takeable, HoldsAsIn, Holds
  <2>2. y.at \in DOMAIN d.addr /\ d.addr[y.at] = c.addr[y.at]
    <3>1. CASE x.type = "address"
      <4>1. d.addr = Without(c.addr, x.at)
        BY <3>1, AddressOut
      <4>2. x.at # y.at
        BY <1>5, <3>1, <1>t, DistinctEntries
      <4> HIDE DEF d
      <4> QED BY <2>1, <4>1, <4>2 DEF Without
    <3>2. CASE x.type # "address"
      <4>1. d.addr = c.addr
        BY <3>2, <1>t, OutLeaves DEF Types
      <4> QED BY <2>1, <4>1
    <3> QED BY <3>1, <3>2
  <2> QED BY <1>5, <2>1, <2>2 DEF Takeable, HoldsAsIn, Holds, Types
<1> QED BY <1>1, <1>2, <1>3, <1>4, <1>5, <1>t DEF Types

(* What x and y have to do with each other in a restore that puts back x   *)
(* before y.                                                               *)
PutApart(was, x, y) ==
  IF Owner(x) = Owner(y) /\ IsMember(y) /\ ~IsMember(x)
  THEN ~Holds(was, y) ELSE Distinct(x, y)

LEMMA PutEntries ==
  ASSUME NEW was, NEW x, NEW y, x.type \in Types, y.type \in Types, PutApart(was, x, y),
         x.at = y.at
  PROVE  /\ y.type = "policy-member" =>
              /\ x.type = "policy" => ~Holds(was, y)
              /\ x.type = "policy-member" /\ x.name = y.name => x.field # y.field
         /\ y.type = "group-member" =>
              /\ x.type = "group" => ~Holds(was, y)
              /\ x.type = "group-member" => x.name # y.name
         /\ ~(x.type = "policy" /\ y.type = "policy")
         /\ ~(x.type = "group" /\ y.type = "group")
         /\ ~(x.type = "address" /\ y.type = "address")
<1>1. ASSUME y.type = "policy-member", x.type = "policy" PROVE ~Holds(was, y)
  <2>1. Owner(x) = <<"rule", x.at>> /\ Owner(y) = <<"rule", y.at>>
    BY <1>1 DEF Owner
  <2>2. IsMember(y) /\ ~IsMember(x)
    BY <1>1 DEF IsMember
  <2> QED BY <2>1, <2>2 DEF PutApart
<1>2. ASSUME y.type = "group-member", x.type = "group" PROVE ~Holds(was, y)
  <2>1. Owner(x) = <<"group", x.at>> /\ Owner(y) = <<"group", y.at>>
    BY <1>2 DEF Owner
  <2>2. IsMember(y) /\ ~IsMember(x)
    BY <1>2 DEF IsMember
  <2> QED BY <2>1, <2>2 DEF PutApart
<1>3. x.type = y.type => Distinct(x, y)
  BY DEF PutApart, IsMember
<1>4. ASSUME x.type = y.type
      PROVE  /\ x.type \in {"policy-member", "group-member"}
             /\ x.name = y.name => x.type = "policy-member" /\ x.field # y.field
  BY <1>3, <1>4, DistinctEntries DEF OfRule, OfGroup, Types
<1> QED BY <1>1, <1>2, <1>4

LEMMA StillGone ==
  ASSUME NEW c, WellFormed(c), NEW was, NEW x, NEW y, Puttable(c, was, x),
         y.type \in Types, y.type = "policy-member" => y.field \in Fields,
         ~Holds(c, y), PutApart(was, x, y)
  PROVE  ~Holds(PutBack(c, was, x), y)
<1> DEFINE d == PutBack(c, was, x)
<1>t. x.type \in Types
  BY DEF Puttable
<1>1. CASE y.type = "policy-member"
  <2>1. ~(y.at \in DOMAIN c.rule /\ y.name \in c.rule[y.at][y.field])
    BY <1>1 DEF Holds
  <2>2. ~(y.at \in DOMAIN d.rule /\ y.name \in d.rule[y.at][y.field])
    <3>1. CASE x.type = "policy-member"
      <4>1. d.rule = [c.rule EXCEPT ![x.at][x.field] = @ \cup {x.name}]
        BY <3>1, RuleMemberBack
      <4>2. x.at = y.at /\ x.name = y.name => x.field # y.field
        BY <1>1, <3>1, <1>t, PutEntries
      <4> HIDE DEF d
      <4>3. CASE x.at = y.at /\ x.at \in DOMAIN c.rule
        <5> DEFINE r == c.rule[y.at]
                   q == d.rule[y.at]
        <5>1. q = [r EXCEPT ![x.field] = @ \cup {x.name}] /\ y.name \notin r[y.field]
          BY <2>1, <4>1, <4>3
        <5>2. y.field \in DOMAIN r
          BY <1>1, <4>3, Formed DEF RulesFormed, IsARule
        <5>3. x.name = y.name => x.field # y.field
          BY <4>2, <4>3
        <5>4. y.name \notin q[y.field]
          <6> HIDE DEF q, r
          <6> QED BY <5>1, <5>2, <5>3
        <5> QED BY <5>4
      <4>4. CASE ~(x.at = y.at /\ x.at \in DOMAIN c.rule)
        BY <2>1, <4>1, <4>4
      <4> QED BY <4>3, <4>4
    <3>2. CASE x.type = "policy"
      <4>1. /\ Like(d, c, {"rule", "order"})
            /\ d.rule = With(c.rule, x.at, was.rule[x.at])
            /\ d.order = [c.order EXCEPT ![Base(x.at)] = InFrontOf(@, x.at[3], x.before)]
        BY <3>2, RuleBack
      <4>2. x.at = y.at => ~(y.name \in was.rule[y.at][y.field])
        <5>1. x.at = y.at => ~Holds(was, y)
          BY <1>1, <3>2, <1>t, PutEntries
        <5>2. x.at \in DOMAIN was.rule
          BY <3>2 DEF Puttable
        <5> QED BY <1>1, <5>1, <5>2 DEF Holds
      <4> HIDE DEF d
      <4> QED BY <2>1, <4>1, <4>2 DEF With
    <3>3. CASE x.type \in {"group-member", "group", "address"}
      <4>1. d.rule = c.rule
        BY <3>3, <1>t, BackLeaves
      <4> QED BY <2>1, <4>1
    <3> QED BY <3>1, <3>2, <3>3, <1>t DEF Types
  <2> QED BY <1>1, <2>2 DEF Holds
<1>2. CASE y.type = "group-member"
  <2>1. ~(y.at \in DOMAIN c.grp /\ y.name \in c.grp[y.at])
    BY <1>2 DEF Holds
  <2>2. ~(y.at \in DOMAIN d.grp /\ y.name \in d.grp[y.at])
    <3>1. CASE x.type = "group-member"
      <4>1. d.grp = [c.grp EXCEPT ![x.at] = @ \cup {x.name}]
        BY <3>1, GroupMemberBack
      <4>2. x.at = y.at => x.name # y.name
        BY <1>2, <3>1, <1>t, PutEntries
      <4> HIDE DEF d
      <4> QED BY <2>1, <4>1, <4>2
    <3>2. CASE x.type = "group"
      <4>1. d.grp = With(c.grp, x.at, was.grp[x.at])
        BY <3>2, GroupBack
      <4>2. x.at = y.at => y.name \notin was.grp[y.at]
        <5>1. x.at = y.at => ~Holds(was, y)
          BY <1>2, <3>2, <1>t, PutEntries
        <5>2. x.at \in DOMAIN was.grp
          BY <3>2 DEF Puttable
        <5> QED BY <1>2, <5>1, <5>2 DEF Holds
      <4> HIDE DEF d
      <4> QED BY <2>1, <4>1, <4>2 DEF With
    <3>3. CASE x.type \in {"policy-member", "policy", "address"}
      <4>1. d.grp = c.grp
        BY <3>3, <1>t, BackLeaves
      <4> QED BY <2>1, <4>1
    <3> QED BY <3>1, <3>2, <3>3, <1>t DEF Types
  <2> QED BY <1>2, <2>2 DEF Holds
<1>3. CASE y.type = "policy"
  <2>1. y.at \notin DOMAIN c.rule
    BY <1>3 DEF Holds
  <2>2. y.at \notin DOMAIN d.rule
    <3>1. CASE x.type = "policy-member"
      <4>1. d.rule = [c.rule EXCEPT ![x.at][x.field] = @ \cup {x.name}]
        BY <3>1, RuleMemberBack
      <4> QED BY <2>1, <4>1
    <3>2. CASE x.type = "policy"
      <4>1. /\ Like(d, c, {"rule", "order"})
            /\ d.rule = With(c.rule, x.at, was.rule[x.at])
            /\ d.order = [c.order EXCEPT ![Base(x.at)] = InFrontOf(@, x.at[3], x.before)]
        BY <3>2, RuleBack
      <4>2. x.at # y.at
        BY <1>3, <3>2, <1>t, PutEntries
      <4> QED BY <2>1, <4>1, <4>2 DEF With
    <3>3. CASE x.type \in {"group-member", "group", "address"}
      <4>1. d.rule = c.rule
        BY <3>3, <1>t, BackLeaves
      <4> QED BY <2>1, <4>1
    <3> QED BY <3>1, <3>2, <3>3, <1>t DEF Types
  <2> QED BY <1>3, <2>2 DEF Holds
<1>4. CASE y.type = "group"
  <2>1. y.at \notin DOMAIN c.grp /\ y.at \notin DOMAIN c.dyn
    BY <1>4 DEF Holds
  <2>2. y.at \notin DOMAIN d.grp
    <3>1. CASE x.type = "group-member"
      <4>1. d.grp = [c.grp EXCEPT ![x.at] = @ \cup {x.name}]
        BY <3>1, GroupMemberBack
      <4> QED BY <2>1, <4>1
    <3>2. CASE x.type = "group"
      <4>1. d.grp = With(c.grp, x.at, was.grp[x.at])
        BY <3>2, GroupBack
      <4>2. x.at # y.at
        BY <1>4, <3>2, <1>t, PutEntries
      <4> QED BY <2>1, <4>1, <4>2 DEF With
    <3>3. CASE x.type \in {"policy-member", "policy", "address"}
      <4>1. d.grp = c.grp
        BY <3>3, <1>t, BackLeaves
      <4> QED BY <2>1, <4>1
    <3> QED BY <3>1, <3>2, <3>3, <1>t DEF Types
  <2>3. d.dyn = c.dyn
    BY <1>t, BackLeaves
  <2> QED BY <1>4, <2>1, <2>2, <2>3 DEF Holds
<1>5. CASE y.type = "address"
  <2>1. y.at \notin DOMAIN c.addr
    BY <1>5 DEF Holds
  <2>2. y.at \notin DOMAIN d.addr
    <3>1. CASE x.type = "address"
      <4>1. d.addr = With(c.addr, x.at, was.addr[x.at])
        BY <3>1, AddressBack
      <4>2. x.at # y.at
        BY <1>5, <3>1, <1>t, PutEntries
      <4> QED BY <2>1, <4>1, <4>2 DEF With
    <3>2. CASE x.type # "address"
      <4>1. d.addr = c.addr
        BY <3>2, <1>t, BackLeaves
      <4> QED BY <2>1, <4>1
    <3> QED BY <3>1, <3>2
  <2> QED BY <1>5, <2>2 DEF Holds
<1> QED BY <1>1, <1>2, <1>3, <1>4, <1>5 DEF Types

(* A rulebase keeps its names when something is put back, and gains the    *)
(* name of a rule.                                                         *)
LEMMA NamesGrow ==
  ASSUME NEW c, WellFormed(c), NEW was, WellFormed(was), NEW x, Puttable(c, was, x)
  PROVE  LET d == PutBack(c, was, x)
         IN  /\ DOMAIN d.order = DOMAIN c.order
             /\ \A b \in DOMAIN c.order : Range(c.order[b]) \subseteq Range(d.order[b])
             /\ x.type = "policy" /\ Base(x.at) \in DOMAIN c.order =>
                  x.at[3] \in Range(d.order[Base(x.at)])
             /\ \A b \in DOMAIN c.order : \A n \in Range(d.order[b]) :
                  \/ n \in Range(c.order[b])
                  \/ x.type = "policy" /\ Base(x.at) = b /\ x.at[3] = n
<1> DEFINE d == PutBack(c, was, x)
<1>1. CASE x.type # "policy"
  <2>1. d.order = c.order
    BY <1>1, BackLeaves DEF Puttable
  <2> QED BY <1>1, <2>1
<1>2. CASE x.type = "policy"
  <2> DEFINE at == Base(x.at)
             names == c.order[at]
             n == x.at[3]
  <2>1. /\ Like(d, c, {"rule", "order"})
        /\ d.rule = With(c.rule, x.at, was.rule[x.at])
        /\ d.order = [c.order EXCEPT ![at] = InFrontOf(@, n, x.before)]
    BY <1>2, RuleBack
  <2>2. /\ x.at \notin DOMAIN c.rule /\ x.at \in DOMAIN was.rule
        /\ at \in DOMAIN c.order => NoRule(x.before) \/ x.before \in Range(names)
    BY <1>2 DEF Puttable, Holds
  <2> HIDE DEF d
  <2>3. ASSUME at \in DOMAIN c.order
        PROVE  Range(InFrontOf(names, n, x.before)) = Range(names) \cup {n}
    <3>1. Names(names) /\ \A m \in Range(names) : <<at[1], at[2], m>> \in DOMAIN c.rule
      BY <2>3, Formed DEF OrderFormed
    <3>2. n \notin Range(names)
      <4>1. x.at = <<x.at[1], x.at[2], n>>
        BY <2>2, Formed DEF RulesFormed
      <4>2. at[1] = x.at[1] /\ at[2] = x.at[2]
        BY DEF Base
      <4> QED BY <4>1, <4>2, <3>1, <2>2
    <3>3. PICK p : PutAt(names, p, x.before)
      <4>1. CASE NoRule(x.before)
        BY <4>1 DEF PutAt
      <4>2. CASE ~NoRule(x.before)
        <5>1. PICK p \in DOMAIN names : names[p] = x.before
          BY <4>2, <2>3, <2>2 DEF Range
        <5> QED BY <4>2, <5>1 DEF PutAt
      <4> QED BY <4>1, <4>2
    <3> HIDE DEF names, n
    <3> QED BY <3>1, <3>2, <3>3, InsertedKeeps
  <2>4. DOMAIN d.order = DOMAIN c.order
    BY <2>1
  <2>5. \A b \in DOMAIN c.order : b # at => d.order[b] = c.order[b]
    BY <2>1
  <2>6. at \in DOMAIN c.order => d.order[at] = InFrontOf(names, n, x.before)
    BY <2>1
  <2> HIDE DEF at, n
  <2>7. \A b \in DOMAIN c.order : Range(c.order[b]) \subseteq Range(d.order[b])
    BY <2>3, <2>5, <2>6
  <2>8. at \in DOMAIN c.order => n \in Range(d.order[at])
    BY <2>3, <2>6
  <2>9. \A b \in DOMAIN c.order : \A k \in Range(d.order[b]) :
          k \in Range(c.order[b]) \/ (at = b /\ n = k)
    BY <2>3, <2>5, <2>6
  <2> QED BY <1>2, <2>4, <2>7, <2>8, <2>9 DEF d, at, n
<1> QED BY <1>1, <1>2

(***************************************************************************)
(* The rest of a plan                                                      *)
(***************************************************************************)
(* What a cleanup has still to take out: each entry is there as it was, in *)
(* its place, and none takes away what a later one needs.                  *)
TakeableInTurn(c, was, q) ==
  /\ \A k \in DOMAIN q : Takeable(c, was, q[k])
  /\ \A k, l \in DOMAIN q : k < l =>
       /\ Distinct(q[k], q[l])
       /\ InOneRulebase(q[k], q[l]) => q[k].at[3] # q[l].before

(* What a restore has still to put back: each entry is gone, and the rule  *)
(* one is put before is there or is put back earlier.                      *)
PuttableInTurn(c, ss, q) ==
  /\ \A k \in DOMAIN q :
       /\ q[k].type \in Types /\ ~Holds(c, q[k])
       /\ {"type", "at", "before", "from"} \subseteq DOMAIN q[k]
       /\ q[k].type = "policy-member" => q[k].field \in Fields
       /\ q[k].type = "group" => q[k].at \in DOMAIN ss[q[k].from].was.grp
       /\ q[k].type = "policy" =>
            /\ q[k].at \in DOMAIN ss[q[k].from].was.rule
            /\ Base(q[k].at) \in DOMAIN c.order =>
                 \/ NoRule(q[k].before)
                 \/ q[k].before \in Range(c.order[Base(q[k].at)])
                 \/ \E j \in DOMAIN q : /\ j < k /\ InOneRulebase(q[j], q[k])
                                        /\ q[k].before = q[j].at[3]
  /\ \A k, l \in DOMAIN q : k < l => PutApart(ss[q[k].from].was, q[k], q[l])

LEMMA TakenInTurn ==
  ASSUME NEW c, WellFormed(c), NEW was, NEW S, NEW q \in Seq(S), q # <<>>,
         TakeableInTurn(c, was, q)
  PROVE  /\ Takeable(c, was, Head(q))
         /\ TakeableInTurn(TakeOut(c, Head(q)), was, Tail(q))
<1>1. /\ Len(q) \in Nat \ {0} /\ DOMAIN q = 1 .. Len(q) /\ Head(q) = q[1]
      /\ DOMAIN Tail(q) = 1 .. Len(q) - 1
      /\ \A k \in 1 .. Len(q) - 1 : Tail(q)[k] = q[k + 1]
  OBVIOUS
<1> DEFINE t == Tail(q)
           d == TakeOut(c, Head(q))
<1>2. Takeable(c, was, Head(q))
  BY <1>1 DEF TakeableInTurn
<1>3. ASSUME NEW k \in DOMAIN t PROVE Takeable(d, was, t[k])
  <2>1. /\ k + 1 \in DOMAIN q /\ 1 \in DOMAIN q /\ 1 < k + 1 /\ t[k] = q[k + 1]
    BY <1>1
  <2>2. /\ Takeable(c, was, q[k + 1]) /\ Distinct(q[1], q[k + 1])
        /\ InOneRulebase(q[1], q[k + 1]) => q[1].at[3] # q[k + 1].before
    BY <2>1 DEF TakeableInTurn
  <2> DEFINE x == q[1]
             y == q[k + 1]
  <2>3. /\ Takeable(c, was, x) /\ Takeable(c, was, y) /\ Distinct(x, y)
        /\ InOneRulebase(x, y) => x.at[3] # y.before
    BY <1>1, <1>2, <2>2
  <2> HIDE DEF x, y
  <2>4. Takeable(TakeOut(c, x), was, y)
    BY <2>3, TakeableKept
  <2> QED BY <2>1, <2>4, <1>1 DEF x, y
<1>4. ASSUME NEW k \in DOMAIN t, NEW l \in DOMAIN t, k < l
      PROVE  /\ Distinct(t[k], t[l])
             /\ InOneRulebase(t[k], t[l]) => t[k].at[3] # t[l].before
  <2>1. /\ k + 1 \in DOMAIN q /\ l + 1 \in DOMAIN q /\ k + 1 < l + 1
        /\ t[k] = q[k + 1] /\ t[l] = q[l + 1]
    BY <1>1, <1>4
  <2> HIDE DEF t
  <2> QED BY <2>1 DEF TakeableInTurn
<1> HIDE DEF t, d
<1>5. TakeableInTurn(d, was, t)
  BY <1>3, <1>4 DEF TakeableInTurn
<1> QED BY <1>2, <1>5 DEF t, d

LEMMA PutInTurn ==
  ASSUME NEW c, WellFormed(c), NEW ss, NEW S, NEW q \in Seq(S), q # <<>>,
         PuttableInTurn(c, ss, q), WellFormed(ss[Head(q).from].was)
  PROVE  /\ Puttable(c, ss[Head(q).from].was, Head(q))
         /\ PuttableInTurn(PutBack(c, ss[Head(q).from].was, Head(q)), ss, Tail(q))
<1>1. /\ Len(q) \in Nat \ {0} /\ DOMAIN q = 1 .. Len(q) /\ Head(q) = q[1]
      /\ DOMAIN Tail(q) = 1 .. Len(q) - 1
      /\ \A k \in 1 .. Len(q) - 1 : Tail(q)[k] = q[k + 1]
  OBVIOUS
<1> DEFINE t == Tail(q)
           was == ss[Head(q).from].was
           d == PutBack(c, was, Head(q))
<1>2. Puttable(c, was, Head(q))
  <2>1. 1 \in DOMAIN q /\ ~\E j \in DOMAIN q : j < 1
    BY <1>1
  <2> QED BY <1>1, <2>1 DEF PuttableInTurn, Puttable
<1>g. /\ DOMAIN d.order = DOMAIN c.order
      /\ \A b \in DOMAIN c.order : Range(c.order[b]) \subseteq Range(d.order[b])
      /\ Head(q).type = "policy" /\ Base(Head(q).at) \in DOMAIN c.order =>
           Head(q).at[3] \in Range(d.order[Base(Head(q).at)])
  <2> DEFINE x == Head(q)
             e == PutBack(c, was, x)
  <2>1. Puttable(c, was, x) /\ WellFormed(was) /\ d = e
    BY <1>2
  <2> HIDE DEF x, was, d
  <2>2. /\ DOMAIN e.order = DOMAIN c.order
        /\ \A b \in DOMAIN c.order : Range(c.order[b]) \subseteq Range(e.order[b])
        /\ x.type = "policy" /\ Base(x.at) \in DOMAIN c.order =>
             x.at[3] \in Range(e.order[Base(x.at)])
        /\ \A b \in DOMAIN c.order : \A n \in Range(e.order[b]) :
             \/ n \in Range(c.order[b])
             \/ x.type = "policy" /\ Base(x.at) = b /\ x.at[3] = n
    BY <2>1, NamesGrow
  <2> HIDE DEF e
  <2> QED BY <2>1, <2>2 DEF x
<1>3. ASSUME NEW k \in DOMAIN t
      PROVE  /\ t[k].type \in Types /\ ~Holds(d, t[k])
             /\ {"type", "at", "before", "from"} \subseteq DOMAIN t[k]
             /\ t[k].type = "policy-member" => t[k].field \in Fields
             /\ t[k].type = "group" => t[k].at \in DOMAIN ss[t[k].from].was.grp
             /\ t[k].type = "policy" => t[k].at \in DOMAIN ss[t[k].from].was.rule
  <2>1. /\ k + 1 \in DOMAIN q /\ 1 \in DOMAIN q /\ 1 < k + 1 /\ t[k] = q[k + 1]
    BY <1>1
  <2> DEFINE y == t[k]
  <2>2. /\ y.type \in Types /\ ~Holds(c, y)
        /\ {"type", "at", "before", "from"} \subseteq DOMAIN y
        /\ y.type = "policy-member" => y.field \in Fields
        /\ y.type = "group" => y.at \in DOMAIN ss[y.from].was.grp
        /\ y.type = "policy" => y.at \in DOMAIN ss[y.from].was.rule
    BY <2>1 DEF PuttableInTurn
  <2>3. PutApart(was, Head(q), y)
    BY <1>1, <2>1 DEF PuttableInTurn
  <2> HIDE DEF y, was
  <2>4. ~Holds(PutBack(c, was, Head(q)), y)
    BY <1>2, <2>2, <2>3, StillGone
  <2> QED BY <2>2, <2>4 DEF y
<1>4. ASSUME NEW k \in DOMAIN t, t[k].type = "policy", Base(t[k].at) \in DOMAIN d.order
      PROVE  \/ NoRule(t[k].before)
             \/ t[k].before \in Range(d.order[Base(t[k].at)])
             \/ \E j \in DOMAIN t : /\ j < k /\ InOneRulebase(t[j], t[k])
                                    /\ t[k].before = t[j].at[3]
  <2>1. /\ k + 1 \in DOMAIN q /\ 1 \in DOMAIN q /\ t[k] = q[k + 1]
    BY <1>1
  <2> DEFINE y == t[k]
             at == Base(y.at)
  <2>2. \/ NoRule(y.before)
        \/ y.before \in Range(c.order[at])
        \/ \E j \in DOMAIN q : /\ j < k + 1 /\ InOneRulebase(q[j], y)
                               /\ y.before = q[j].at[3]
    BY <1>4, <1>g, <2>1 DEF PuttableInTurn
  <2>3. CASE y.before \in Range(c.order[at])
    BY <1>4, <1>g, <2>3
  <2>4. ASSUME NEW j \in DOMAIN q, j < k + 1, InOneRulebase(q[j], y), y.before = q[j].at[3]
        PROVE  \/ y.before \in Range(d.order[at])
               \/ \E i \in DOMAIN t : i < k /\ InOneRulebase(t[i], y) /\ y.before = t[i].at[3]
    <3>1. CASE j = 1
      <4>1. q[j] = Head(q) /\ Head(q).type = "policy" /\ Base(Head(q).at) = at
        BY <1>1, <2>4, <3>1 DEF InOneRulebase
      <4> QED BY <4>1, <1>g, <1>4, <2>4
    <3>2. CASE j # 1
      <4>1. j - 1 \in DOMAIN t /\ j - 1 < k /\ t[j - 1] = q[j]
        BY <1>1, <2>4, <3>2
      <4> QED BY <4>1, <2>4
    <3> QED BY <3>1, <3>2
  <2> QED BY <2>2, <2>3, <2>4
<1>5. ASSUME NEW k \in DOMAIN t, NEW l \in DOMAIN t, k < l
      PROVE  PutApart(ss[t[k].from].was, t[k], t[l])
  <2>1. /\ k + 1 \in DOMAIN q /\ l + 1 \in DOMAIN q /\ k + 1 < l + 1
        /\ t[k] = q[k + 1] /\ t[l] = q[l + 1]
    BY <1>1, <1>5
  <2> HIDE DEF t
  <2> QED BY <2>1 DEF PuttableInTurn
<1> HIDE DEF t, d, was
<1>6. PuttableInTurn(d, ss, t)
  BY <1>3, <1>4, <1>5 DEF PuttableInTurn
<1> QED BY <1>2, <1>6 DEF t, d, was

(***************************************************************************)
(* The components kept                                                     *)
(***************************************************************************)
KeptBy(s, C, F, n) ==
  F = [i \in 0 .. n |->
         IF i = 0 THEN <<>>
         ELSE IF s[i] \in C THEN Append(F[i - 1], s[i]) ELSE F[i - 1]]

LEMMA KeptExists ==
  ASSUME NEW s, NEW C, NEW m \in Nat
  PROVE  \E F : KeptBy(s, C, F, m)
<1> DEFINE A == {n \in Nat : \E F : KeptBy(s, C, F, n)}
<1>1. 0 \in A
  <2> DEFINE F0 == [i \in 0 .. 0 |-> <<>>]
  <2>1. KeptBy(s, C, F0, 0)
    BY DEF KeptBy
  <2> QED BY <2>1
<1>2. ASSUME NEW n \in A PROVE n + 1 \in A
  <2>1. n \in Nat /\ \E F : KeptBy(s, C, F, n)
    OBVIOUS
  <2>2. PICK F : KeptBy(s, C, F, n)
    BY <2>1
  <2> DEFINE next == IF s[n + 1] \in C THEN Append(F[n], s[n + 1]) ELSE F[n]
             H == [i \in 0 .. n + 1 |-> IF i = n + 1 THEN next ELSE F[i]]
  <2>3. \A i \in 0 .. n + 1 :
          H[i] = IF i = 0 THEN <<>>
                 ELSE IF s[i] \in C THEN Append(H[i - 1], s[i]) ELSE H[i - 1]
    <3> TAKE i \in 0 .. n + 1
    <3>1. CASE i = n + 1
      <4>1. i # 0 /\ i - 1 = n /\ H[n + 1] = next /\ H[n] = F[n]
        BY <2>1, <3>1
      <4> QED BY <3>1, <4>1
    <3>2. CASE i \in 0 .. n
      <4>1. H[i] = F[i]
        BY <2>1, <3>2
      <4>2. i # 0 => H[i - 1] = F[i - 1]
        BY <2>1, <3>2
      <4>3. F[i] = IF i = 0 THEN <<>>
                   ELSE IF s[i] \in C THEN Append(F[i - 1], s[i]) ELSE F[i - 1]
        <5> HIDE DEF H, A
        <5> QED BY <2>2, <3>2 DEF KeptBy
      <4> HIDE DEF H
      <4> QED BY <4>1, <4>2, <4>3
    <3> QED BY <2>1, <3>1, <3>2
  <2>4. KeptBy(s, C, H, n + 1)
    <3>1. H = [i \in 0 .. n + 1 |-> H[i]]
      OBVIOUS
    <3> HIDE DEF H
    <3> QED BY <2>3, <3>1 DEF KeptBy
  <2> HIDE DEF H
  <2> QED BY <2>1, <2>4
<1>3. A = Nat
  <2>1. A \subseteq Nat
    OBVIOUS
  <2> HIDE DEF A
  <2> QED BY <1>1, <1>2, <2>1, NaturalSets
<1>4. m \in A
  BY <1>3
<1> QED BY <1>4

(* A sequence of entries of s, in their order: those in C, up to the n-th. *)
KeptOf(q, s, C, n, p) ==
  /\ p \in [1 .. Len(q) -> 1 .. n]
  /\ \A k, l \in 1 .. Len(q) : k < l => p[k] < p[l]
  /\ \A k \in 1 .. Len(q) : q[k] = s[p[k]] /\ s[p[k]] \in C
  /\ \A i \in 1 .. n : s[i] \in C => \E k \in 1 .. Len(q) : p[k] = i

LEMMA KeptOneMore ==
  ASSUME NEW S, NEW s \in Seq(S), NEW C, NEW n \in Nat, n + 1 \in 1 .. Len(s),
         NEW q \in Seq(S), NEW p, KeptOf(q, s, C, n, p)
  PROVE  LET r == IF s[n + 1] \in C THEN Append(q, s[n + 1]) ELSE q
         IN  r \in Seq(S) /\ \E o : KeptOf(r, s, C, n + 1, o)
<1>1. CASE s[n + 1] \in C
  <2> DEFINE r == Append(q, s[n + 1])
             o == [k \in 1 .. Len(q) + 1 |-> IF k = Len(q) + 1 THEN n + 1 ELSE p[k]]
  <2>1. /\ r \in Seq(S) /\ Len(r) = Len(q) + 1 /\ Len(q) \in Nat
        /\ \A k \in 1 .. Len(q) : r[k] = q[k]
        /\ r[Len(q) + 1] = s[n + 1]
    OBVIOUS
  <2>2. /\ p \in [1 .. Len(q) -> 1 .. n]
        /\ \A k, l \in 1 .. Len(q) : k < l => p[k] < p[l]
        /\ \A k \in 1 .. Len(q) : q[k] = s[p[k]] /\ s[p[k]] \in C
        /\ \A i \in 1 .. n : s[i] \in C => \E k \in 1 .. Len(q) : p[k] = i
    BY DEF KeptOf
  <2>3. \A k \in 1 .. Len(q) : o[k] = p[k]
    BY <2>1
  <2>4. o[Len(q) + 1] = n + 1
    BY <2>1
  <2>5. o \in [1 .. Len(r) -> 1 .. n + 1]
    BY <2>1, <2>2
  <2> HIDE DEF r, o
  <2>6. \A k \in 1 .. Len(r) : k = Len(q) + 1 \/ k \in 1 .. Len(q)
    BY <2>1
  <2>7. ASSUME NEW k \in 1 .. Len(r), NEW l \in 1 .. Len(r), k < l PROVE o[k] < o[l]
    <3>1. k \in 1 .. Len(q)
      BY <2>1, <2>7
    <3>2. o[k] = p[k] /\ p[k] \in 1 .. n
      BY <3>1, <2>2, <2>3
    <3>3. CASE l = Len(q) + 1
      BY <3>2, <3>3, <2>4
    <3>4. CASE l \in 1 .. Len(q)
      BY <3>1, <3>4, <2>2, <2>3, <2>7
    <3> QED BY <3>3, <3>4, <2>6
  <2>8. \A k \in 1 .. Len(r) : r[k] = s[o[k]] /\ s[o[k]] \in C
    BY <1>1, <2>1, <2>2, <2>3, <2>4, <2>6
  <2>9. ASSUME NEW i \in 1 .. n + 1, s[i] \in C PROVE \E k \in 1 .. Len(r) : o[k] = i
    <3>1. CASE i = n + 1
      BY <3>1, <2>1, <2>4
    <3>2. CASE i \in 1 .. n
      <4>1. PICK k \in 1 .. Len(q) : p[k] = i
        BY <3>2, <2>2, <2>9
      <4> QED BY <4>1, <2>1, <2>3
    <3> QED BY <3>1, <3>2
  <2>10. KeptOf(r, s, C, n + 1, o)
    BY <2>5, <2>7, <2>8, <2>9 DEF KeptOf
  <2> QED BY <1>1, <2>1, <2>10 DEF r
<1>2. CASE s[n + 1] \notin C
  <2>1. KeptOf(q, s, C, n + 1, p)
    BY <1>2 DEF KeptOf
  <2> QED BY <1>2, <2>1
<1> QED BY <1>1, <1>2

LEMMA AmongKeeps ==
  ASSUME NEW S, NEW s \in Seq(S), NEW C
  PROVE  /\ Among(s, C) \in Seq(S)
         /\ \E p : KeptOf(Among(s, C), s, C, Len(s), p)
<1> DEFINE F == CHOOSE F : KeptBy(s, C, F, Len(s))
<1>1. KeptBy(s, C, F, Len(s))
  <2>1. Len(s) \in Nat
    OBVIOUS
  <2>2. \E G : KeptBy(s, C, G, Len(s))
    BY <2>1, KeptExists
  <2> QED BY <2>2
<1>2. Among(s, C) = F[Len(s)]
  BY DEF Among, KeptBy
<1> HIDE DEF F
<1>3. /\ F[0] = <<>>
      /\ \A i \in 1 .. Len(s) :
           F[i] = IF s[i] \in C THEN Append(F[i - 1], s[i]) ELSE F[i - 1]
  <2>1. \A i \in 0 .. Len(s) :
          F[i] = IF i = 0 THEN <<>>
                 ELSE IF s[i] \in C THEN Append(F[i - 1], s[i]) ELSE F[i - 1]
    BY <1>1 DEF KeptBy
  <2> QED BY <2>1
<1> DEFINE Good(n) == F[n] \in Seq(S) /\ \E p : KeptOf(F[n], s, C, n, p)
           A == {n \in Nat : n <= Len(s) => Good(n)}
<1>4. 0 \in A
  <2>1. KeptOf(<<>>, s, C, 0, <<>>)
    <3>1. Len(<<>>) = 0 /\ 1 .. 0 = {}
      OBVIOUS
    <3>2. <<>> \in [{} -> {}]
      OBVIOUS
    <3> QED BY <3>1, <3>2 DEF KeptOf
  <2>2. F[0] = <<>> /\ <<>> \in Seq(S)
    BY <1>3
  <2> QED BY <2>1, <2>2
<1>5. ASSUME NEW n \in A PROVE n + 1 \in A
  <2>1. n \in Nat /\ (n <= Len(s) => Good(n))
    OBVIOUS
  <2>2. ASSUME n + 1 <= Len(s) PROVE Good(n + 1)
    <3>1. Good(n) /\ n + 1 \in 1 .. Len(s)
      BY <2>1, <2>2
    <3>2. F[n + 1] = IF s[n + 1] \in C THEN Append(F[n], s[n + 1]) ELSE F[n]
      BY <1>3, <2>1, <3>1
    <3>3. PICK p : KeptOf(F[n], s, C, n, p)
      BY <3>1
    <3>4. F[n] \in Seq(S)
      BY <3>1
    <3> DEFINE q == F[n]
               r == IF s[n + 1] \in C THEN Append(q, s[n + 1]) ELSE q
    <3>5. r \in Seq(S) /\ \E o : KeptOf(r, s, C, n + 1, o)
      <4> HIDE DEF q
      <4>1. q \in Seq(S) /\ KeptOf(q, s, C, n, p)
        BY <3>3, <3>4 DEF q
      <4> QED BY <2>1, <3>1, <4>1, KeptOneMore
    <3> QED BY <3>2, <3>5
  <2> HIDE DEF Good
  <2> QED BY <2>1, <2>2
<1>6. A = Nat
  <2>1. A \subseteq Nat
    OBVIOUS
  <2> HIDE DEF A
  <2> QED BY <1>4, <1>5, <2>1, NaturalSets
<1>7. Good(Len(s))
  <2>1. Len(s) \in A
    BY <1>6
  <2> QED BY <2>1
<1> QED BY <1>2, <1>7

OfComponents(s, C) == {x \in Range(s) : x.component \in C}

LEMMA KeepingKeeps ==
  ASSUME NEW S, NEW s \in Seq(S), NEW C
  PROVE  /\ Keeping(s, C) \in Seq(S)
         /\ \E p : KeptOf(Keeping(s, C), s, OfComponents(s, C), Len(s), p)
BY AmongKeeps DEF Keeping, OfComponents

LEMMA KeptEntries ==
  ASSUME NEW s, s \in Seq(Range(s)), NEW C, NEW q, NEW p,
         KeptOf(q, s, OfComponents(s, C), Len(s), p), q \in Seq(Range(s))
  PROVE  /\ \A x \in Range(q) : x \in Range(s) /\ x.component \in C
         /\ \A k \in DOMAIN q : p[k] \in DOMAIN s /\ q[k] = s[p[k]] /\ q[k] \in Range(s)
                                  /\ q[k].component \in C
         /\ \A k, l \in DOMAIN q : k < l <=> p[k] < p[l]
         /\ \A i \in DOMAIN s : s[i].component \in C => \E k \in DOMAIN q : p[k] = i
<1>1. DOMAIN q = 1 .. Len(q) /\ DOMAIN s = 1 .. Len(s) /\ Len(q) \in Nat /\ Len(s) \in Nat
  OBVIOUS
<1>2. \A k \in DOMAIN q : p[k] \in DOMAIN s /\ q[k] = s[p[k]] /\ q[k].component \in C
  BY <1>1 DEF KeptOf, OfComponents
<1>3. \A k \in DOMAIN q : q[k] \in Range(s)
  BY <1>2 DEF Range
<1>4. \A k, l \in DOMAIN q : k < l <=> p[k] < p[l]
  <2> TAKE k, l \in DOMAIN q
  <2>1. p[k] \in Nat /\ p[l] \in Nat
    BY <1>1, <1>2
  <2>2. k < l => p[k] < p[l]
    BY <1>1 DEF KeptOf
  <2>3. l < k => p[l] < p[k]
    BY <1>1 DEF KeptOf
  <2> QED BY <1>1, <2>1, <2>2, <2>3
<1>5. \A i \in DOMAIN s : s[i].component \in C => \E k \in DOMAIN q : p[k] = i
  <2> TAKE i \in DOMAIN s
  <2>1. s[i] \in Range(s)
    BY DEF Range
  <2> QED BY <1>1, <2>1 DEF KeptOf, OfComponents
<1>6. \A x \in Range(q) : x \in Range(s) /\ x.component \in C
  BY <1>2, <1>3 DEF Range
<1> QED BY <1>2, <1>3, <1>4, <1>5, <1>6

(* A rule in its place stands before the rule it is moved before.          *)
LEMMA InPlacePrecedes ==
  ASSUME NEW c, NEW x, InPlace(c, x, {})
  PROVE  /\ Base(x.at) \in DOMAIN c.order /\ RuleNames(c, x.at) = c.order[Base(x.at)]
         /\ c.order[Base(x.at)] \in Seq(Range(c.order[Base(x.at)])) =>
              Precedes(c.order[Base(x.at)], x.at[3], x.next)
<1> DEFINE names == RuleNames(c, x.at)
           i == CHOOSE i \in DOMAIN names : names[i] = x.at[3]
<1>1. /\ x.at[3] \in Range(names)
      /\ IF x.next = "" THEN i = Len(names)
         ELSE IF x.next \in Range(names) THEN i < Len(names) /\ names[i + 1] = x.next
         ELSE x.next \in {}
  BY DEF InPlace
<1>2. Base(x.at) \in DOMAIN c.order
  <2>1. Range(<<>>) = {}
    BY DEF Range
  <2> QED BY <1>1, <2>1 DEF RuleNames
<1>3. names = c.order[Base(x.at)]
  BY <1>2 DEF RuleNames
<1>4. i \in DOMAIN names /\ names[i] = x.at[3]
  <2>1. \E j \in DOMAIN names : names[j] = x.at[3]
    BY <1>1 DEF Range
  <2> HIDE DEF names
  <2> QED BY <2>1
<1>5. /\ NoRule(x.next) => i = Len(names)
      /\ ~NoRule(x.next) => i < Len(names) /\ names[i + 1] = x.next
  <2> HIDE DEF names, i
  <2> QED BY <1>1 DEF NoRule
<1>6. ASSUME names \in Seq(Range(names)) PROVE Precedes(names, x.at[3], x.next)
  <2> HIDE DEF names, i
  <2>1. DOMAIN names = 1 .. Len(names) /\ Len(names) \in Nat
    BY <1>6
  <2>2. ~NoRule(x.next) => i + 1 \in DOMAIN names
    BY <1>4, <1>5, <2>1
  <2> QED BY <1>4, <1>5, <2>2 DEF Precedes
<1> HIDE DEF names, i
<1> QED BY <1>2, <1>3, <1>6 DEF names

(* What is kept of a cleanup when nothing of it is in conflict with the    *)
(* candidate can be taken out of it, entry by entry.                       *)
LEMMA CleanupReady ==
  ASSUME NEW s, NEW c, WellFormed(c), NEW C, C \cap PreconditionConflicts(s.patch, s.was, c) = {},
         s.patch \in Seq(Range(s.patch)), \A x \in Range(s.patch) : x.type \in Types,
         CleanupFits(s)
  PROVE  LET q == Keeping(s.patch, C)
         IN  q \in Seq(Range(s.patch)) /\ TakeableInTurn(c, s.was, q) /\ AsExpected(q, c, c)
<1> DEFINE patch == s.patch
           q == Keeping(patch, C)
<1>1. q \in Seq(Range(patch)) /\ \E p : KeptOf(q, patch, OfComponents(patch, C), Len(patch), p)
  BY KeepingKeeps
<1>2. PICK p : KeptOf(q, patch, OfComponents(patch, C), Len(patch), p)
  BY <1>1
<1> HIDE DEF q
<1>3. /\ \A x \in Range(q) : x \in Range(patch) /\ x.component \in C
      /\ \A k \in DOMAIN q : p[k] \in DOMAIN patch /\ q[k] = patch[p[k]] /\ q[k] \in Range(patch)
                                  /\ q[k].component \in C
      /\ \A k, l \in DOMAIN q : k < l <=> p[k] < p[l]
  BY <1>1, <1>2, KeptEntries
<1>4. ASSUME NEW x \in Range(patch), x.component \in C
      PROVE  /\ HoldsAsIn(c, s.was, x) /\ Takeable(c, s.was, x) /\ SameTarget(c, c, x)
             /\ x.type = "policy" => InPlace(c, x, {})
  <2>1. /\ SameTarget(c, s.was, x)
        /\ x.type = "policy" => RuleNames(c, x.at) = x.among
    BY <1>4 DEF PreconditionConflicts
  <2>2. /\ Holds(s.was, x)
        /\ x.type = "policy" => /\ x.among = RuleNames(s.was, x.at)
                                /\ InPlace(s.was, x, {}) /\ x.before = x.next
    BY DEF CleanupFits, HoldsAsIn
  <2>3. HoldsAsIn(c, s.was, x)
    BY <2>1, <2>2 DEF SameTarget
  <2>4. SameTarget(c, c, x)
    BY <2>3 DEF SameTarget, HoldsAsIn
  <2>5. x.type = "policy" => InPlace(c, x, {})
    BY <2>1, <2>2 DEF InPlace
  <2>6. ASSUME x.type = "policy"
        PROVE  Base(x.at) \in DOMAIN c.order /\ Precedes(c.order[Base(x.at)], x.at[3], x.before)
    <3>1. Base(x.at) \in DOMAIN c.order
      BY <2>5, <2>6, InPlacePrecedes
    <3>2. c.order[Base(x.at)] \in Seq(Range(c.order[Base(x.at)]))
      BY <3>1 DEF WellFormed
    <3> QED BY <2>2, <2>5, <2>6, <3>1, <3>2, InPlacePrecedes
  <2> QED BY <2>3, <2>4, <2>5, <2>6 DEF Takeable
<1>5. \A k \in DOMAIN q : Takeable(c, s.was, q[k])
  BY <1>3, <1>4
<1>6. ASSUME NEW k \in DOMAIN q, NEW l \in DOMAIN q, k < l
      PROVE  /\ Distinct(q[k], q[l])
             /\ InOneRulebase(q[k], q[l]) => q[k].at[3] # q[l].before
  BY <1>3, <1>6 DEF CleanupFits
<1>7. TakeableInTurn(c, s.was, q)
  BY <1>5, <1>6 DEF TakeableInTurn
<1>8. AsExpected(q, c, c)
  BY <1>3, <1>4 DEF AsExpected
<1> QED BY <1>1, <1>7, <1>8 DEF q

(* What is kept of a restore can be put back, entry by entry.              *)
LEMMA RestoreReady ==
  ASSUME NEW s, NEW c, NEW C, C \cap PreconditionConflicts(s.patch, s.was, c) = {},
         s.patch \in Seq(Range(s.patch)),
         \A x \in Range(s.patch) :
           /\ x.type \in Types /\ {"type", "at", "before", "from"} \subseteq DOMAIN x
           /\ x.type = "policy-member" => x.field \in Fields,
         RestoreFits(s)
  PROVE  LET q == Keeping(s.patch, C)
         IN  /\ q \in Seq(Range(s.patch)) /\ PuttableInTurn(c, sessions, q) /\ AsExpected(q, c, c)
             /\ \A k \in DOMAIN q : q[k].from \in DOMAIN sessions
<1> DEFINE patch == s.patch
           q == Keeping(patch, C)
<1>1. q \in Seq(Range(patch)) /\ \E p : KeptOf(q, patch, OfComponents(patch, C), Len(patch), p)
  BY KeepingKeeps
<1>2. PICK p : KeptOf(q, patch, OfComponents(patch, C), Len(patch), p)
  BY <1>1
<1> HIDE DEF q
<1>3. /\ \A x \in Range(q) : x \in Range(patch) /\ x.component \in C
      /\ \A k \in DOMAIN q : p[k] \in DOMAIN patch /\ q[k] = patch[p[k]] /\ q[k] \in Range(patch)
                                  /\ q[k].component \in C
      /\ \A k, l \in DOMAIN q : k < l <=> p[k] < p[l]
      /\ \A i \in DOMAIN patch : patch[i].component \in C => \E k \in DOMAIN q : p[k] = i
  BY <1>1, <1>2, KeptEntries
<1>4. ASSUME NEW x \in Range(patch), x.component \in C
      PROVE  /\ x.type \in Types /\ ~Holds(c, x)
             /\ {"type", "at", "before", "from"} \subseteq DOMAIN x
             /\ x.type = "policy-member" => x.field \in Fields
             /\ x.from \in DOMAIN sessions
             /\ x.type = "group" => x.at \in DOMAIN sessions[x.from].was.grp
             /\ x.type = "policy" => /\ x.at \in DOMAIN sessions[x.from].was.rule
                                     /\ RuleNames(c, x.at) = RuleNames(s.was, x.at)
  <2>1. /\ SameTarget(c, s.was, x)
        /\ x.type = "policy" => RuleNames(c, x.at) = x.among
    BY <1>4 DEF PreconditionConflicts
  <2>2. /\ ~Holds(s.was, x) /\ x.from \in DOMAIN sessions
        /\ HoldsAsIn(sessions[x.from].was, sessions[x.from].was, x)
        /\ x.type = "policy" => x.among = RuleNames(s.was, x.at)
    BY DEF RestoreFits
  <2>3. ~Holds(c, x)
    BY <2>1, <2>2 DEF SameTarget
  <2>4. x.type = "group" => x.at \in DOMAIN sessions[x.from].was.grp
    BY <2>2 DEF HoldsAsIn
  <2>5. x.type = "policy" => x.at \in DOMAIN sessions[x.from].was.rule
    BY <2>2 DEF HoldsAsIn, Holds
  <2> QED BY <2>1, <2>2, <2>3, <2>4, <2>5
<1>5. ASSUME NEW k \in DOMAIN q, q[k].type = "policy", Base(q[k].at) \in DOMAIN c.order
      PROVE  \/ NoRule(q[k].before)
             \/ q[k].before \in Range(c.order[Base(q[k].at)])
             \/ \E j \in DOMAIN q : /\ j < k /\ InOneRulebase(q[j], q[k])
                                    /\ q[k].before = q[j].at[3]
  <2> DEFINE y == q[k]
  <2>1. /\ p[k] \in DOMAIN patch /\ y = patch[p[k]] /\ y.component \in C
        /\ RuleNames(c, y.at) = RuleNames(s.was, y.at)
    BY <1>3, <1>4, <1>5
  <2>2. RuleNames(c, y.at) = c.order[Base(y.at)]
    BY <1>5 DEF RuleNames
  <2>3. y.before \in {""} \cup Range(RuleNames(s.was, y.at))
          \cup {x.at[3] : x \in {patch[i] : i \in {i \in 1 .. p[k] - 1 :
                  /\ InOneRulebase(patch[i], y)
                  /\ patch[i].component = y.component}}}
    BY <2>1, <1>5 DEF RestoreFits
  <2>4. CASE y.before = ""
    BY <2>4 DEF NoRule
  <2>5. CASE y.before \in Range(RuleNames(s.was, y.at))
    BY <2>1, <2>2, <2>5
  <2>6. ASSUME NEW i \in 1 .. p[k] - 1, InOneRulebase(patch[i], y),
               patch[i].component = y.component, y.before = patch[i].at[3]
        PROVE  \E j \in DOMAIN q : j < k /\ InOneRulebase(q[j], y) /\ y.before = q[j].at[3]
    <3>1. i \in DOMAIN patch /\ i < p[k]
      <4>1. DOMAIN patch = 1 .. Len(patch) /\ Len(patch) \in Nat
        OBVIOUS
      <4> QED BY <4>1, <2>1
    <3>2. PICK j \in DOMAIN q : p[j] = i
      BY <1>3, <2>1, <2>6, <3>1
    <3>3. j < k
      BY <1>3, <3>1, <3>2
    <3>4. q[j] = patch[i]
      BY <1>3, <3>2
    <3> QED BY <2>6, <3>3, <3>4
  <2> QED BY <2>3, <2>4, <2>5, <2>6
<1>6. ASSUME NEW k \in DOMAIN q, NEW l \in DOMAIN q, k < l
      PROVE  PutApart(sessions[q[k].from].was, q[k], q[l])
  <2>1. p[k] \in DOMAIN patch /\ p[l] \in DOMAIN patch /\ p[k] < p[l]
        /\ q[k] = patch[p[k]] /\ q[l] = patch[p[l]]
    BY <1>3, <1>6
  <2> QED BY <2>1 DEF RestoreFits, PutApart
<1>7. PuttableInTurn(c, sessions, q)
  BY <1>3, <1>4, <1>5, <1>6 DEF PuttableInTurn
<1>8. AsExpected(q, c, c)
  BY <1>3, <1>4 DEF AsExpected, SameTarget
<1>9. \A k \in DOMAIN q : q[k].from \in DOMAIN sessions
  BY <1>3, <1>4
<1> QED BY <1>1, <1>7, <1>8, <1>9 DEF q

(***************************************************************************)
(* The invariant                                                           *)
(***************************************************************************)
SessionFields == {"kind", "state", "ask", "root", "was", "pre", "patch", "applied", "sources",
                  "seen", "causes", "guarded"}

(* From d a mutation can be undone, and that leads back to c; a rule can be *)
(* set again and not be moved.                                             *)
Returns(s, d, x, c) ==
  /\ Backward(s, d, x) = c
  /\ s.kind = "cleanup" =>
       /\ CanPutBack(d, x)
       /\ x.type = "policy" => WellFormed(PutBack(d, s.was, AtTheBottom(x)))

(* The configurations a session has left behind while it was written: from *)
(* each, undoing one mutation leads to the one before.                     *)
Trail(t, s, done, c) ==
  /\ DOMAIN t = 0 .. Len(done)
  /\ t[0] = s.pre /\ t[Len(done)] = c
  /\ \A k \in 0 .. Len(done) : WellFormed(t[k])
  /\ \A k \in 1 .. Len(done) : Returns(s, t[k], done[k], t[k - 1])

Ready(ss, s, c, todo) ==
  IF s.kind = "cleanup" THEN TakeableInTurn(c, s.was, todo)
  ELSE PuttableInTurn(c, ss, todo) /\ \A k \in DOMAIN todo : todo[k].from \in DOMAIN ss

UnderWay(ss, w, c) ==
  LET s == ss[w.id] IN
  /\ w.id \in DOMAIN ss
  /\ s.applied \in Seq(Range(s.applied)) /\ s.applied # <<>>
  /\ w.done \in Seq(Range(s.applied)) /\ w.todo \in Seq(Range(s.applied))
  /\ AsExpected(s.applied, s.pre, s.pre)
  /\ \E t : Trail(t, s, w.done, c)
  /\ ~w.undo => Ready(ss, s, c, w.todo)

SessionsFormed(ss) ==
  /\ ss \in Seq(Range(ss))
  /\ \A i \in DOMAIN ss : DOMAIN ss[i] = SessionFields /\ WellFormed(ss[i].was)

WorkFormed(w) ==
  /\ DOMAIN w = {"id", "todo", "done", "undo"} /\ w.undo \in BOOLEAN
  /\ w.id = 0 => w = NoWork

StatesFit(ss, id, ln) ==
  \A i \in DOMAIN ss :
    /\ ss[i].state \in States
    /\ ss[i].state = "WRITING" <=> id = i
    /\ i \in Range(ln) <=> ss[i].state \in Stable \cup {"RESTORED"} /\ ss[i].applied # <<>>

WorkFits(ss, w) ==
  w.id # 0 => LET applied == ss[w.id].applied
              IN  IF w.undo THEN IsPrefix(w.done, applied) ELSE w.done \o w.todo = applied

CycleInv ==
  /\ scene \in DOMAIN Scenes /\ edits \subseteq DOMAIN Scenes[scene].edits
  /\ fails \in 0 .. MaxFails
  /\ WellFormed(running) /\ WellFormed(candidate)
  /\ SessionsFormed(sessions)
  /\ line \in Seq(DOMAIN sessions)
  /\ WorkFormed(work)
  /\ StatesFit(sessions, work.id, line)
  /\ WorkFits(sessions, work)
  /\ work.id # 0 => UnderWay(sessions, work, candidate)

LEMMA InvTyped ==
  ASSUME CycleInv
  PROVE  TypeOK
<1>1. StatesFit(sessions, work.id, line) /\ WorkFits(sessions, work)
  BY DEF CycleInv
<1> QED BY <1>1 DEF CycleInv, TypeOK, StatesFit, WorkFits, Idle

LEMMA CycleStarts ==
  ASSUME Init
  PROVE  CycleInv
<1>1. /\ sessions = <<>> /\ line = <<>> /\ work = NoWork
      /\ candidate = running /\ running = Scenes[scene].config /\ scene \in DOMAIN Scenes
      /\ edits = DOMAIN Scenes[scene].edits /\ fails = 0
  BY DEF Init
<1>2. WellFormed(Scenes[scene].config)
  BY <1>1, ScenesAssumption DEF Range
<1>3. SessionsFormed(sessions)
  BY <1>1 DEF SessionsFormed
<1>4. WorkFormed(work) /\ work.id = 0
  BY <1>1 DEF WorkFormed, NoWork
<1>5. StatesFit(sessions, work.id, line)
  BY <1>1 DEF StatesFit
<1>6. WorkFits(sessions, work)
  BY <1>4 DEF WorkFits
<1>7. fails \in 0 .. MaxFails
  BY <1>1, MaxFailsAssumption
<1>8. line \in Seq(DOMAIN sessions)
  BY <1>1
<1> QED BY <1>1, <1>2, <1>3, <1>4, <1>5, <1>6, <1>7, <1>8 DEF CycleInv

(* A session changes, the others stay.                                     *)
LEMMA OneSession ==
  ASSUME NEW ss, SessionsFormed(ss), NEW i \in DOMAIN ss, NEW s, DOMAIN s = SessionFields,
         s.was = ss[i].was
  PROVE  LET new == [ss EXCEPT ![i] = s]
         IN  /\ SessionsFormed(new) /\ DOMAIN new = DOMAIN ss
             /\ new[i] = s /\ \A j \in DOMAIN ss : j # i => new[j] = ss[j]
<1> DEFINE new == [ss EXCEPT ![i] = s]
<1>1. ss \in Seq(Range(ss)) /\ \A j \in DOMAIN ss : DOMAIN ss[j] = SessionFields /\ WellFormed(ss[j].was)
  BY DEF SessionsFormed
<1>2. DOMAIN new = DOMAIN ss /\ new[i] = s /\ \A j \in DOMAIN ss : j # i => new[j] = ss[j]
  OBVIOUS
<1>3. new \in Seq(Range(new))
  <2>1. ss = [k \in 1 .. Len(ss) |-> ss[k]] /\ Len(ss) \in Nat
    BY <1>1
  <2>2. new = [k \in 1 .. Len(ss) |-> new[k]]
    BY <2>1
  <2>3. \A k \in 1 .. Len(ss) : new[k] \in Range(new)
    BY <2>1 DEF Range
  <2> HIDE DEF new
  <2> QED BY <2>1, <2>2, <2>3
<1>4. \A j \in DOMAIN new : DOMAIN new[j] = SessionFields /\ WellFormed(new[j].was)
  BY <1>1, <1>2
<1> QED BY <1>2, <1>3, <1>4 DEF SessionsFormed

LEMMA OneMoreSession ==
  ASSUME NEW ss, SessionsFormed(ss), NEW s, DOMAIN s = SessionFields, WellFormed(s.was)
  PROVE  LET new == Append(ss, s)
         IN  /\ SessionsFormed(new) /\ DOMAIN new = DOMAIN ss \cup {Len(ss) + 1}
             /\ Len(ss) + 1 \notin DOMAIN ss /\ Len(ss) \in Nat
             /\ new[Len(ss) + 1] = s /\ \A j \in DOMAIN ss : new[j] = ss[j]
<1> DEFINE new == Append(ss, s)
           R == Range(ss) \cup {s}
<1>1. ss \in Seq(Range(ss)) /\ \A j \in DOMAIN ss : DOMAIN ss[j] = SessionFields /\ WellFormed(ss[j].was)
  BY DEF SessionsFormed
<1>2. ss \in Seq(R) /\ s \in R
  <2>1. Range(ss) \subseteq R
    OBVIOUS
  <2> QED BY <1>1, <2>1
<1> HIDE DEF R
<1>3. /\ new \in Seq(R) /\ DOMAIN ss = 1 .. Len(ss) /\ Len(ss) \in Nat
      /\ DOMAIN new = 1 .. Len(ss) + 1 /\ Len(new) = Len(ss) + 1
      /\ new[Len(ss) + 1] = s /\ \A j \in 1 .. Len(ss) : new[j] = ss[j]
  BY <1>2
<1> HIDE DEF new
<1>4. new \in Seq(Range(new))
  <2>1. new = [k \in 1 .. Len(ss) + 1 |-> new[k]]
    BY <1>3
  <2>2. \A k \in 1 .. Len(ss) + 1 : new[k] \in Range(new)
    BY <1>3 DEF Range
  <2> QED BY <1>3, <2>1, <2>2
<1>5. \A j \in DOMAIN new : j = Len(ss) + 1 \/ j \in DOMAIN ss
  BY <1>3
<1>6. \A j \in DOMAIN new : DOMAIN new[j] = SessionFields /\ WellFormed(new[j].was)
  BY <1>1, <1>3, <1>5
<1>7. DOMAIN new = DOMAIN ss \cup {Len(ss) + 1} /\ Len(ss) + 1 \notin DOMAIN ss
  BY <1>3
<1> QED BY <1>3, <1>4, <1>6, <1>7 DEF SessionsFormed, new

(***************************************************************************)
(* Each action                                                             *)
(***************************************************************************)
LEMMA PublishKeeps ==
  ASSUME CycleInv, NEW s, Publish(s), Idle, DOMAIN s = SessionFields, WellFormed(s.was),
         s.state \in States \ {"WRITING"},
         ~(s.state \in Stable \cup {"RESTORED"} /\ s.applied # <<>>)
  PROVE  CycleInv'
<1>1. /\ sessions' = Append(sessions, s)
      /\ scene' = scene /\ running' = running /\ candidate' = candidate /\ line' = line
      /\ work' = work /\ edits' = edits /\ fails' = fails
  BY DEF Publish
<1>2. SessionsFormed(sessions) /\ StatesFit(sessions, 0, line) /\ WorkFormed(work)
      /\ work.id = 0 /\ line \in Seq(DOMAIN sessions)
  BY DEF CycleInv, Idle
<1> DEFINE n == Len(sessions) + 1
<1>3. /\ SessionsFormed(sessions') /\ DOMAIN sessions' = DOMAIN sessions \cup {n}
      /\ n \notin DOMAIN sessions /\ n \in Nat /\ n # 0 /\ sessions'[n] = s
      /\ \A j \in DOMAIN sessions : sessions'[j] = sessions[j]
  BY <1>1, <1>2, OneMoreSession
<1>4. line' \in Seq(DOMAIN sessions')
  <2>1. DOMAIN sessions \subseteq DOMAIN sessions'
    BY <1>3
  <2> QED BY <1>1, <1>2, <2>1
<1>5. n \notin Range(line)
  <2>1. Range(line) \subseteq DOMAIN sessions
    BY <1>2 DEF Range
  <2> QED BY <1>3, <2>1
<1> HIDE DEF n
<1>6. StatesFit(sessions', work'.id, line')
  <2> SUFFICES ASSUME NEW i \in DOMAIN sessions'
               PROVE  /\ sessions'[i].state \in States
                      /\ sessions'[i].state = "WRITING" <=> 0 = i
                      /\ i \in Range(line) <=> sessions'[i].state \in Stable \cup {"RESTORED"}
                                                 /\ sessions'[i].applied # <<>>
    BY <1>1, <1>2 DEF StatesFit
  <2>1. CASE i = n
    BY <1>3, <1>5, <2>1
  <2>2. CASE i \in DOMAIN sessions
    BY <1>2, <1>3, <2>2 DEF StatesFit
  <2> QED BY <1>3, <2>1, <2>2
<1>7. WorkFits(sessions', work')
  BY <1>1, <1>2 DEF WorkFits
<1> QED BY <1>1, <1>2, <1>3, <1>4, <1>6, <1>7 DEF CycleInv

LEMMA PlanCleanupKeeps ==
  ASSUME CycleInv, NEW ask, PlanCleanup(ask)
  PROVE  CycleInv'
<1>1. PICK patch : Publish(Session("cleanup", ask, running, patch))
  BY DEF PlanCleanup
<1> DEFINE s == Session("cleanup", ask, running, patch)
<1>2. DOMAIN s = SessionFields /\ s.was = running /\ s.state = "PLANNED"
  BY DEF Session, SessionFields
<1>3. Publish(s) /\ Idle
  BY <1>1 DEF PlanCleanup, HasRoom
<1>4. WellFormed(running) /\ s.state \in States \ {"WRITING"}
      /\ s.state \notin Stable \cup {"RESTORED"}
  BY <1>2 DEF CycleInv, States, Stable
<1> HIDE DEF s
<1> QED BY <1>2, <1>3, <1>4, PublishKeeps

LEMMA ChildKeeps ==
  ASSUME CycleInv, NEW s \in Range(sessions), NEW patch, NEW ask, Child(s, patch, ask)
  PROVE  CycleInv'
<1> DEFINE t == [s EXCEPT !.patch = patch, !.root = FALSE, !.ask = ask]
<1>1. s.state = "PLANNED" /\ Publish(t) /\ Idle
  BY DEF Child, HasRoom
<1>2. DOMAIN s = SessionFields /\ WellFormed(s.was)
  BY DEF CycleInv, SessionsFormed, Range
<1>3. DOMAIN t = SessionFields /\ t.was = s.was /\ t.state = s.state
  BY <1>2 DEF SessionFields
<1>4. t.state \in States \ {"WRITING"} /\ t.state \notin Stable \cup {"RESTORED"}
  BY <1>1, <1>3 DEF States, Stable
<1> HIDE DEF t
<1> QED BY <1>1, <1>2, <1>3, <1>4, PublishKeeps

LEMMA PlanRestoreKeeps ==
  ASSUME CycleInv, PlanRestore
  PROVE  CycleInv'
<1> DEFINE StateOf(plan) == IF plan.patch # <<>> THEN "PLANNED"
                            ELSE IF plan.bad # {} THEN "CONFLICT" ELSE "RESTORED"
           SourcesOf(g, selected) == {<<i, sessions[i].state>> :
                              i \in {g.history[g.records[i].from].id : i \in selected}}
           Restore(g, selected, plan) ==
             [Session("restore", sessions[HistoryIds[1]].ask, candidate, plan.patch) EXCEPT
                !.state = StateOf(plan), !.sources = SourcesOf(g, selected),
                !.seen = Range(HistoryIds), !.causes = plan.causes, !.guarded = plan.guarded]
<1>1. PICK g \in {Graph(History)} : \E selected \in Selections(g) :
        \E plan \in {RestorePlan(g, selected, running, candidate)} :
          Publish(Restore(g, selected, plan))
  BY DEF PlanRestore
<1>2. PICK selected \in Selections(g) :
        \E plan \in {RestorePlan(g, selected, running, candidate)} :
          Publish(Restore(g, selected, plan))
  BY <1>1
<1>3. PICK plan \in {RestorePlan(g, selected, running, candidate)} :
        Publish(Restore(g, selected, plan))
  BY <1>2
<1> DEFINE s == Restore(g, selected, plan)
<1>4. StateOf(plan) \in {"PLANNED", "CONFLICT", "RESTORED"}
  OBVIOUS
<1> HIDE DEF StateOf, SourcesOf
<1>5. DOMAIN s = SessionFields /\ s.was = candidate /\ s.state = StateOf(plan) /\ s.applied = <<>>
  BY DEF Session, SessionFields
<1>6. Idle
  BY DEF PlanRestore, HasRoom
<1>7. WellFormed(candidate) /\ s.state \in States \ {"WRITING"}
  BY <1>4, <1>5 DEF CycleInv, States, Stable
<1>8. Publish(s)
  BY <1>3
<1> HIDE DEF s
<1> QED BY <1>5, <1>6, <1>7, <1>8, PublishKeeps

(* Only the configuration a restore puts entries back from matters.        *)
LEMMA ReadyElsewhere ==
  ASSUME NEW ss, NEW tt, NEW s, NEW t, NEW c, NEW todo, Ready(ss, s, c, todo),
         t.kind = s.kind, t.was = s.was, DOMAIN tt = DOMAIN ss,
         \A j \in DOMAIN ss : tt[j].was = ss[j].was
  PROVE  Ready(tt, t, c, todo)
<1>1. CASE s.kind = "cleanup"
  BY <1>1 DEF Ready
<1>2. CASE s.kind # "cleanup"
  <2>1. PuttableInTurn(c, ss, todo) /\ \A k \in DOMAIN todo : todo[k].from \in DOMAIN ss
    BY <1>2 DEF Ready
  <2>2. \A k \in DOMAIN todo : tt[todo[k].from].was = ss[todo[k].from].was
    BY <2>1
  <2>3. PuttableInTurn(c, tt, todo)
    BY <2>1, <2>2 DEF PuttableInTurn
  <2> QED BY <1>2, <2>1, <2>3 DEF Ready
<1> QED BY <1>1, <1>2

(* What the check of the candidate lets through is ready to be written.    *)
LEMMA SafeIsReady ==
  ASSUME CycleInv, PlansFit, NEW i \in DOMAIN sessions
  PROVE  LET s == sessions[i]
             safe == Keeping(s.patch, Components(s.patch) \ HeldBack(s))
         IN  /\ safe \in Seq(Range(s.patch)) /\ AsExpected(safe, candidate, candidate)
             /\ Ready(sessions, s, candidate, safe)
<1> DEFINE s == sessions[i]
           C == Components(s.patch) \ HeldBack(s)
           safe == Keeping(s.patch, C)
<1>1. s \in Range(sessions) /\ WellFormed(candidate)
  BY DEF Range, CycleInv
<1>2. /\ s.patch \in Seq(Range(s.patch))
      /\ \A x \in Range(s.patch) :
           /\ x.type \in Types /\ {"type", "at", "before", "from"} \subseteq DOMAIN x
           /\ x.type = "policy-member" => x.field \in Fields
      /\ s.kind = "cleanup" => CleanupFits(s)
      /\ s.kind # "cleanup" => RestoreFits(s)
  BY <1>1 DEF PlansFit, Fits, Types, Mutation
<1>3. C \cap PreconditionConflicts(s.patch, s.was, candidate) = {}
  <2>1. C = {} \/ PreconditionConflicts(s.patch, s.was, candidate) \subseteq HeldBack(s)
    BY DEF HeldBack
  <2> QED BY <2>1
<1> HIDE DEF C
<1>4. CASE s.kind = "cleanup"
  <2>1. safe \in Seq(Range(s.patch)) /\ TakeableInTurn(candidate, s.was, safe)
        /\ AsExpected(safe, candidate, candidate)
    BY <1>1, <1>2, <1>3, <1>4, CleanupReady
  <2> QED BY <1>4, <2>1 DEF Ready, C
<1>5. CASE s.kind # "cleanup"
  <2>1. /\ safe \in Seq(Range(s.patch)) /\ PuttableInTurn(candidate, sessions, safe)
        /\ AsExpected(safe, candidate, candidate)
        /\ \A k \in DOMAIN safe : safe[k].from \in DOMAIN sessions
    BY <1>2, <1>3, <1>5, RestoreReady
  <2> QED BY <1>5, <2>1 DEF Ready, C
<1> QED BY <1>4, <1>5

LEMMA Begun ==
  ASSUME CycleInv, PlansFit, NEW i \in DOMAIN sessions, BeginApply(i)
  PROVE  CycleInv'
<1> DEFINE s == sessions[i]
           safe == Keeping(s.patch, Components(s.patch) \ HeldBack(s))
<1>1. /\ work.id = 0 /\ s.state = "PLANNED" /\ Begin(i, safe)
      /\ scene' = scene /\ running' = running /\ candidate' = candidate /\ line' = line
      /\ edits' = edits /\ fails' = fails
  BY DEF BeginApply, Idle
<1>2. /\ SessionsFormed(sessions) /\ StatesFit(sessions, 0, line) /\ WorkFormed(work)
      /\ WellFormed(candidate) /\ line \in Seq(DOMAIN sessions)
  BY <1>1 DEF CycleInv
<1>3. DOMAIN s = SessionFields /\ i # 0 /\ DOMAIN sessions = 1 .. Len(sessions)
  <2>1. sessions \in Seq(Range(sessions)) /\ DOMAIN s = SessionFields
    BY <1>2 DEF SessionsFormed
  <2> QED BY <2>1
<1>4. i \notin Range(line)
  BY <1>1, <1>2 DEF StatesFit, Stable
<1>5. /\ safe \in Seq(Range(s.patch)) /\ AsExpected(safe, candidate, candidate)
      /\ Ready(sessions, s, candidate, safe)
  BY SafeIsReady
<1> HIDE DEF safe
<1>6. CASE safe = <<>>
  <2> DEFINE t == [s EXCEPT !.state = "CONFLICT"]
  <2>1. sessions' = [sessions EXCEPT ![i] = t] /\ work' = work
    BY <1>1, <1>6 DEF Begin
  <2>2. DOMAIN t = SessionFields /\ t.was = s.was /\ t.state = "CONFLICT"
    BY <1>3 DEF SessionFields
  <2> HIDE DEF t
  <2>3. /\ SessionsFormed(sessions') /\ DOMAIN sessions' = DOMAIN sessions
        /\ sessions'[i] = t /\ \A j \in DOMAIN sessions : j # i => sessions'[j] = sessions[j]
    BY <1>2, <2>1, <2>2, OneSession
  <2>4. "CONFLICT" \in States \ {"WRITING"} /\ "CONFLICT" \notin Stable \cup {"RESTORED"}
    BY DEF States, Stable
  <2>5. StatesFit(sessions', 0, line)
    BY <1>2, <1>3, <1>4, <2>2, <2>3, <2>4 DEF StatesFit
  <2>6. WorkFits(sessions', work')
    BY <1>1, <2>1 DEF WorkFits
  <2> QED BY <1>1, <1>2, <2>1, <2>3, <2>5, <2>6 DEF CycleInv
<1>7. CASE safe # <<>>
  <2> DEFINE t == [s EXCEPT !.state = "WRITING", !.pre = candidate, !.applied = safe]
  <2>1. /\ sessions' = [sessions EXCEPT ![i] = t]
        /\ work' = [NoWork EXCEPT !.id = i, !.todo = safe]
    BY <1>1, <1>7 DEF Begin
  <2>2. /\ DOMAIN t = SessionFields /\ t.was = s.was /\ t.kind = s.kind /\ t.state = "WRITING"
        /\ t.pre = candidate /\ t.applied = safe
    BY <1>3 DEF SessionFields
  <2>w. /\ DOMAIN work' = {"id", "todo", "done", "undo"} /\ work'.undo = FALSE
        /\ work'.id = i /\ work'.todo = safe /\ work'.done = <<>>
    BY <2>1 DEF NoWork
  <2> HIDE DEF t
  <2>3. /\ SessionsFormed(sessions') /\ DOMAIN sessions' = DOMAIN sessions
        /\ sessions'[i] = t /\ \A j \in DOMAIN sessions : j # i => sessions'[j] = sessions[j]
    BY <1>2, <2>1, <2>2, OneSession
  <2>4. "WRITING" \in States /\ "WRITING" \notin Stable \cup {"RESTORED"}
    BY DEF States, Stable
  <2>5. StatesFit(sessions', i, line)
    BY <1>2, <1>3, <1>4, <2>2, <2>3, <2>4 DEF StatesFit
  <2>6. safe \in Seq(Range(safe))
    <3>1. safe = [k \in 1 .. Len(safe) |-> safe[k]] /\ Len(safe) \in Nat
      BY <1>5
    <3>2. \A k \in 1 .. Len(safe) : safe[k] \in Range(safe)
      BY <3>1 DEF Range
    <3> QED BY <3>1, <3>2
  <2>7. WorkFits(sessions', work')
    <3>1. <<>> \o safe = safe
      BY <2>6
    <3> QED BY <2>2, <2>3, <2>w, <3>1 DEF WorkFits
  <2>8. WorkFormed(work')
    BY <1>3, <2>w DEF WorkFormed
  <2>9. UnderWay(sessions', work', candidate)
    <3>1. Trail([k \in {0} |-> candidate], t, <<>>, candidate)
      BY <1>2, <2>2 DEF Trail
    <3>2. \A j \in DOMAIN sessions : sessions'[j].was = sessions[j].was
      BY <2>2, <2>3
    <3>3. Ready(sessions', t, candidate, safe)
      BY <1>5, <2>2, <2>3, <3>2, ReadyElsewhere
    <3>4. <<>> \in Seq(Range(safe))
      OBVIOUS
    <3> QED BY <1>5, <1>7, <2>2, <2>3, <2>6, <2>w, <3>1, <3>3, <3>4 DEF UnderWay
  <2> QED BY <1>1, <1>2, <2>3, <2>5, <2>7, <2>8, <2>9, <2>w DEF CycleInv
<1> QED BY <1>6, <1>7

LEMMA Committed ==
  ASSUME CycleInv, NEW i \in DOMAIN sessions, Commit(i)
  PROVE  CycleInv'
<1> DEFINE s == sessions[i]
           t == [s EXCEPT !.state = "COMMITTED"]
<1>1. /\ work.id = 0 /\ s.state \in {"CANDIDATE_APPLIED", "PARTIAL", "RESTORED"}
      /\ s.applied # <<>> /\ sessions' = [sessions EXCEPT ![i] = t]
      /\ scene' = scene /\ running' = candidate /\ candidate' = candidate /\ line' = line
      /\ work' = work /\ edits' = edits /\ fails' = fails
  BY DEF Commit, Idle
<1>2. /\ SessionsFormed(sessions) /\ StatesFit(sessions, 0, line) /\ WorkFormed(work)
      /\ WellFormed(candidate) /\ line \in Seq(DOMAIN sessions)
  BY <1>1 DEF CycleInv
<1>3. DOMAIN s = SessionFields /\ i # 0
  <2>1. sessions \in Seq(Range(sessions)) /\ DOMAIN s = SessionFields
    BY <1>2 DEF SessionsFormed
  <2> QED BY <2>1
<1>4. /\ DOMAIN t = SessionFields /\ t.was = s.was /\ t.state = "COMMITTED"
      /\ t.applied = s.applied
  BY <1>3 DEF SessionFields
<1>5. i \in Range(line)
  BY <1>1, <1>2 DEF StatesFit, Stable
<1> HIDE DEF t
<1>6. /\ SessionsFormed(sessions') /\ DOMAIN sessions' = DOMAIN sessions
      /\ sessions'[i] = t /\ \A j \in DOMAIN sessions : j # i => sessions'[j] = sessions[j]
  BY <1>1, <1>2, <1>4, OneSession
<1>7. "COMMITTED" \in States /\ "COMMITTED" \in Stable
  BY DEF States, Stable
<1>8. StatesFit(sessions', 0, line)
  BY <1>1, <1>2, <1>3, <1>4, <1>5, <1>6, <1>7 DEF StatesFit
<1>9. WorkFits(sessions', work')
  BY <1>1 DEF WorkFits
<1> QED BY <1>1, <1>2, <1>6, <1>8, <1>9 DEF CycleInv

LEMMA EditWellFormed ==
  ASSUME NEW c, WellFormed(c), NEW e, FitEdit(e), CanEdit(c, e)
  PROVE  WellFormed(Edited(c, e))
<1> DEFINE d == Edited(c, e)
<1>c. IsAFunction(c) /\ DOMAIN c = Parts
  BY Formed
<1>f. Finite(c.addr) /\ Finite(c.grp) /\ GroupsFormed(c.grp)
  BY Formed
<1>1. CASE e.what = "address"
  <2>1. Like(d, c, {"addr"}) /\ d.addr = With(c.addr, e.at, e.value)
    BY <1>1, <1>c DEF Edited, Like, IsAFunction, Parts
  <2>2. IsAFunction(d.addr)
    BY <2>1 DEF IsAFunction, With
  <2> HIDE DEF d
  <2>3. WellFormed(d)
    BY <2>1, <2>2, <1>f, FiniteTables, TableWellFormed
  <2> QED BY <2>3 DEF d
<1>2. CASE e.what = "group"
  <2>1. Like(d, c, {"grp"}) /\ d.grp = With(c.grp, e.at, e.names)
    BY <1>2, <1>c DEF Edited, Like, IsAFunction, Parts
  <2>2. IsAFunction(d.grp)
    BY <2>1 DEF IsAFunction, With
  <2> HIDE DEF d
  <2>3. Finite(d.grp) /\ GroupsFormed(d.grp)
    BY <1>2, <2>1, <1>f, FiniteTables DEF FitEdit
  <2>4. WellFormed(d)
    BY <2>1, <2>2, <2>3, TableWellFormed
  <2> QED BY <2>4 DEF d
<1>3. CASE e.what = "rule"
  <2>1. /\ Like(d, c, {"rule", "order"})
        /\ d.rule = With(c.rule, e.at, e.rule)
        /\ d.order = [c.order EXCEPT ![Base(e.at)] = InFrontOf(@, e.at[3], e.before)]
    BY <1>3, <1>c DEF Edited, Like, IsAFunction, Parts
  <2>2. e.at = <<e.at[1], e.at[2], e.at[3]>> /\ e.at[3] # "" /\ IsARule(e.rule)
    BY <1>3 DEF FitEdit
  <2>3. e.at \notin DOMAIN c.rule
        /\ (Base(e.at) \in DOMAIN c.order =>
              NoRule(e.before) \/ e.before \in Range(c.order[Base(e.at)]))
    BY <1>3 DEF CanEdit, NoRule
  <2> HIDE DEF d
  <2>4. WellFormed(d)
    BY <2>1, <2>2, <2>3, RuleAddedWellFormed
  <2> QED BY <2>4 DEF d
<1>4. CASE e.what = "first"
  <2>1. Like(d, c, {"first"})
    BY <1>4, <1>c DEF Edited, Like, IsAFunction, Parts
  <2> HIDE DEF d
  <2>3. WellFormed(d)
    BY <2>1, TableWellFormed
  <2> QED BY <2>3 DEF d
<1> QED BY <1>1, <1>2, <1>3, <1>4 DEF FitEdit

LEMMA EditKeeps ==
  ASSUME CycleInv, NEW k \in edits, Edit(k)
  PROVE  CycleInv'
<1> DEFINE e == Scenes[scene].edits[k]
<1>1. /\ work.id = 0 /\ CanEdit(candidate, e) /\ candidate' = Edited(candidate, e)
      /\ edits' = edits \ {k} /\ scene' = scene /\ running' = running /\ line' = line
      /\ sessions' = sessions /\ work' = work /\ fails' = fails
  BY DEF Edit, Idle
<1>2. FitEdit(e)
  BY ScenesAssumption DEF CycleInv, Range
<1>3. WellFormed(candidate')
  <2> HIDE DEF e
  <2> QED BY <1>1, <1>2, EditWellFormed DEF CycleInv
<1> QED BY <1>1, <1>3 DEF CycleInv

(***************************************************************************)
(* Writing and undoing                                                     *)
(***************************************************************************)
LEMMA PrefixAt ==
  ASSUME NEW S, NEW q \in Seq(S), NEW r \in Seq(S)
  PROVE  IsPrefix(q, r) <=> Len(q) <= Len(r) /\ \A k \in 1 .. Len(q) : q[k] = r[k]
<1>1. Len(q) \in Nat /\ Len(r) \in Nat /\ SubSeq(q, 1, Len(q)) = [k \in 1 .. Len(q) |-> q[k]]
  OBVIOUS
<1>2. ASSUME Len(q) <= Len(r)
      PROVE  SubSeq(r, 1, Len(q)) = [k \in 1 .. Len(q) |-> r[k]]
  BY <1>1, <1>2
<1>3. [k \in 1 .. Len(q) |-> q[k]] = [k \in 1 .. Len(q) |-> r[k]]
        <=> \A k \in 1 .. Len(q) : q[k] = r[k]
  <2> DEFINE f == [k \in 1 .. Len(q) |-> q[k]]
             g == [k \in 1 .. Len(q) |-> r[k]]
  <2>1. \A k \in 1 .. Len(q) : f[k] = q[k] /\ g[k] = r[k]
    OBVIOUS
  <2>2. f = g => \A k \in 1 .. Len(q) : q[k] = r[k]
    <3> HIDE DEF f, g
    <3> QED BY <2>1
  <2> QED BY <2>2
<1> QED BY <1>1, <1>2, <1>3 DEF IsPrefix

LEMMA PrefixOfBoth ==
  ASSUME NEW S, NEW done \in Seq(S), NEW todo \in Seq(S)
  PROVE  IsPrefix(done, done \o todo)
<1> DEFINE v == done \o todo
<1>1. /\ v \in Seq(S) /\ Len(v) = Len(done) + Len(todo) /\ Len(done) \in Nat /\ Len(todo) \in Nat
      /\ \A k \in 1 .. Len(done) : v[k] = done[k]
  OBVIOUS
<1> HIDE DEF v
<1>2. Len(done) <= Len(v) /\ \A k \in 1 .. Len(done) : done[k] = v[k]
  BY <1>1
<1>3. IsPrefix(done, v)
  BY <1>1, <1>2, PrefixAt
<1> QED BY <1>3 DEF v

(* One mutation more, or one less, of the same plan.                       *)
LEMMA OneMoreDone ==
  ASSUME NEW S, NEW done \in Seq(S), NEW todo \in Seq(S), todo # <<>>
  PROVE  /\ Append(done, Head(todo)) \in Seq(S) /\ Tail(todo) \in Seq(S)
         /\ Append(done, Head(todo)) \o Tail(todo) = done \o todo
         /\ IsPrefix(Append(done, Head(todo)), done \o todo)
<1> DEFINE n == Len(done)
           m == Len(todo)
           a == Append(done, Head(todo))
           r == Tail(todo)
           u == a \o r
           v == done \o todo
<1>1. /\ n \in Nat /\ m \in Nat /\ m >= 1
      /\ a \in Seq(S) /\ Len(a) = n + 1 /\ r \in Seq(S) /\ Len(r) = m - 1
      /\ \A k \in 1 .. n : a[k] = done[k]
      /\ a[n + 1] = todo[1]
      /\ \A k \in 1 .. m - 1 : r[k] = todo[k + 1]
  OBVIOUS
<1>2. /\ v \in Seq(S) /\ Len(v) = n + m
      /\ \A k \in 1 .. n + m : v[k] = IF k <= n THEN done[k] ELSE todo[k - n]
  OBVIOUS
<1> HIDE DEF a, r
<1>3. /\ u \in Seq(S) /\ Len(u) = Len(a) + Len(r)
      /\ \A k \in 1 .. Len(a) + Len(r) : u[k] = IF k <= Len(a) THEN a[k] ELSE r[k - Len(a)]
  <2>1. a \in Seq(S) /\ r \in Seq(S)
    BY <1>1
  <2> QED BY <2>1
<1> HIDE DEF u, v, n, m
<1>4. Len(u) = n + m
  BY <1>1, <1>3
<1>5. \A k \in 1 .. n + m : u[k] = v[k]
  <2> TAKE k \in 1 .. n + m
  <2>1. u[k] = IF k <= n + 1 THEN a[k] ELSE r[k - (n + 1)]
    BY <1>1, <1>3
  <2>2. CASE k <= n
    <3>1. k \in 1 .. n /\ k <= n + 1
      BY <1>1, <2>2
    <3> QED BY <1>1, <1>2, <2>1, <2>2, <3>1
  <2>3. CASE k = n + 1
    <3>1. ~(k <= n) /\ k <= n + 1 /\ k - n = 1
      BY <1>1, <2>3
    <3> QED BY <1>1, <1>2, <2>1, <2>3, <3>1
  <2>4. CASE k > n + 1
    <3>1. k - (n + 1) \in 1 .. m - 1 /\ (k - (n + 1)) + 1 = k - n
      BY <1>1, <2>4
    <3>2. ~(k <= n) /\ ~(k <= n + 1)
      BY <1>1, <2>4
    <3>3. r[k - (n + 1)] = todo[k - n]
      BY <1>1, <3>1
    <3> QED BY <1>2, <2>1, <3>2, <3>3
  <2> QED BY <1>1, <2>2, <2>3, <2>4
<1>6. u = v
  BY <1>2, <1>3, <1>4, <1>5
<1>7. \A k \in 1 .. n + 1 : a[k] = v[k]
  <2> TAKE k \in 1 .. n + 1
  <2>1. k \in 1 .. n + m /\ k <= Len(a) /\ k \in 1 .. Len(a) + Len(r)
    BY <1>1
  <2> QED BY <1>3, <1>6, <2>1
<1>8. IsPrefix(a, v)
  <2>1. Len(a) <= Len(v) /\ \A k \in 1 .. Len(a) : a[k] = v[k]
    BY <1>1, <1>2, <1>7
  <2> QED BY <1>1, <1>2, <2>1, PrefixAt
<1> QED BY <1>1, <1>6, <1>8 DEF a, r, u, v

LEMMA FrontAt ==
  ASSUME NEW S, NEW done \in Seq(S), done # <<>>
  PROVE  /\ Front(done) \in Seq(S) /\ Len(Front(done)) = Len(done) - 1 /\ Len(done) \in Nat \ {0}
         /\ \A k \in 1 .. Len(done) - 1 : Front(done)[k] = done[k]
<1>1. Len(done) \in Nat \ {0} /\ Front(done) = SubSeq(done, 1, Len(done) - 1)
  BY DEF Front
<1>2. Front(done) = [k \in 1 .. Len(done) - 1 |-> done[k]]
  BY <1>1
<1> DEFINE n == Len(done) - 1
           f == Front(done)
<1>3. n \in Nat /\ f = [k \in 1 .. n |-> done[k]] /\ \A k \in 1 .. n : done[k] \in S
  BY <1>1, <1>2
<1> HIDE DEF n, f
<1>4. f \in Seq(S) /\ Len(f) = n /\ \A k \in 1 .. n : f[k] = done[k]
  BY <1>3
<1> QED BY <1>1, <1>4 DEF n, f

LEMMA OneLessDone ==
  ASSUME NEW S, NEW done \in Seq(S), NEW applied \in Seq(S), done # <<>>, IsPrefix(done, applied)
  PROVE  Front(done) \in Seq(S) /\ IsPrefix(Front(done), applied)
<1>1. /\ Front(done) \in Seq(S) /\ Len(Front(done)) = Len(done) - 1 /\ Len(done) \in Nat \ {0}
      /\ \A k \in 1 .. Len(done) - 1 : Front(done)[k] = done[k]
  BY FrontAt
<1>2. Len(done) <= Len(applied) /\ \A k \in 1 .. Len(done) : done[k] = applied[k]
  BY PrefixAt
<1>3. Len(Front(done)) <= Len(applied) /\ \A k \in 1 .. Len(Front(done)) : Front(done)[k] = applied[k]
  BY <1>1, <1>2
<1> QED BY <1>1, <1>3, PrefixAt

LEMMA TrailLonger ==
  ASSUME NEW S, NEW done \in Seq(S), NEW x \in S, NEW s, NEW t, NEW c, Trail(t, s, done, c),
         NEW d, WellFormed(d), Returns(s, d, x, c)
  PROVE  \E u : Trail(u, s, Append(done, x), d)
<1> DEFINE n == Len(done)
           u == [k \in 0 .. n + 1 |-> IF k = n + 1 THEN d ELSE t[k]]
<1>1. /\ n \in Nat /\ Len(Append(done, x)) = n + 1 /\ Append(done, x)[n + 1] = x
      /\ \A k \in 1 .. n : Append(done, x)[k] = done[k]
  OBVIOUS
<1>2. /\ DOMAIN t = 0 .. n /\ t[0] = s.pre /\ t[n] = c
      /\ \A k \in 0 .. n : WellFormed(t[k])
      /\ \A k \in 1 .. n : Returns(s, t[k], done[k], t[k - 1])
  BY DEF Trail
<1>3. /\ DOMAIN u = 0 .. n + 1 /\ u[n + 1] = d
      /\ \A k \in 0 .. n : u[k] = t[k]
  BY <1>1
<1> HIDE DEF u, n
<1>4. \A k \in 0 .. n + 1 : WellFormed(u[k])
  <2> TAKE k \in 0 .. n + 1
  <2>1. k = n + 1 \/ k \in 0 .. n
    BY <1>1
  <2> QED BY <1>2, <1>3, <2>1
<1>5. \A k \in 1 .. n + 1 : Returns(s, u[k], Append(done, x)[k], u[k - 1])
  <2> TAKE k \in 1 .. n + 1
  <2>1. CASE k = n + 1
    <3>1. k - 1 = n /\ n \in 0 .. n
      BY <1>1, <2>1
    <3> QED BY <1>1, <1>2, <1>3, <2>1, <3>1
  <2>2. CASE k \in 1 .. n
    <3>1. k \in 0 .. n /\ k - 1 \in 0 .. n
      BY <1>1, <2>2
    <3> QED BY <1>1, <1>2, <1>3, <2>2, <3>1
  <2> QED BY <1>1, <2>1, <2>2
<1>6. u[0] = s.pre
  BY <1>1, <1>2, <1>3
<1>7. Trail(u, s, Append(done, x), d)
  BY <1>1, <1>3, <1>4, <1>5, <1>6 DEF Trail
<1> QED BY <1>7

LEMMA TrailShorter ==
  ASSUME NEW S, NEW done \in Seq(S), done # <<>>, NEW s, NEW t, NEW c, Trail(t, s, done, c)
  PROVE  /\ WellFormed(Backward(s, c, Last(done)))
         /\ s.kind = "cleanup" => CanPutBack(c, Last(done))
         /\ s.kind = "cleanup" /\ Last(done).type = "policy" =>
              WellFormed(PutBack(c, s.was, AtTheBottom(Last(done))))
         /\ \E u : Trail(u, s, Front(done), Backward(s, c, Last(done)))
<1> DEFINE n == Len(done)
           u == [k \in 0 .. n - 1 |-> t[k]]
<1>1. /\ n \in Nat \ {0} /\ Len(Front(done)) = n - 1 /\ Last(done) = done[n]
      /\ \A k \in 1 .. n - 1 : Front(done)[k] = done[k]
  BY FrontAt DEF Last
<1>2. /\ DOMAIN t = 0 .. n /\ t[0] = s.pre /\ t[n] = c
      /\ \A k \in 0 .. n : WellFormed(t[k])
      /\ \A k \in 1 .. n : Returns(s, t[k], done[k], t[k - 1])
  BY DEF Trail
<1>3. DOMAIN u = 0 .. n - 1 /\ \A k \in 0 .. n - 1 : u[k] = t[k]
  OBVIOUS
<1> HIDE DEF u, n
<1>4. /\ Backward(s, c, Last(done)) = t[n - 1] /\ WellFormed(t[n - 1])
      /\ s.kind = "cleanup" => CanPutBack(c, Last(done))
      /\ s.kind = "cleanup" /\ Last(done).type = "policy" =>
           WellFormed(PutBack(c, s.was, AtTheBottom(Last(done))))
  <2>1. n \in 1 .. n /\ n - 1 \in 0 .. n
    BY <1>1
  <2> QED BY <1>1, <1>2, <2>1 DEF Returns
<1>5. u[0] = s.pre /\ u[n - 1] = t[n - 1] /\ \A k \in 0 .. n - 1 : WellFormed(u[k])
  <2>1. 0 \in 0 .. n - 1 /\ n - 1 \in 0 .. n - 1 /\ \A k \in 0 .. n - 1 : k \in 0 .. n
    BY <1>1
  <2> QED BY <1>2, <1>3, <2>1
<1>6. \A k \in 1 .. n - 1 : Returns(s, u[k], Front(done)[k], u[k - 1])
  <2> TAKE k \in 1 .. n - 1
  <2>1. k \in 1 .. n /\ k \in 0 .. n - 1 /\ k - 1 \in 0 .. n - 1
    BY <1>1
  <2> QED BY <1>1, <1>2, <1>3, <2>1
<1>7. Trail(u, s, Front(done), t[n - 1])
  BY <1>1, <1>3, <1>5, <1>6 DEF Trail
<1> QED BY <1>4, <1>7

(* The application in progress.                                            *)
LEMMA Current ==
  ASSUME CycleInv, work.id # 0
  PROVE  LET s == sessions[work.id]
         IN  /\ work.id \in DOMAIN sessions /\ s.state = "WRITING" /\ work.id \notin Range(line)
             /\ DOMAIN s = SessionFields /\ WellFormed(s.was)
             /\ s.applied \in Seq(Range(s.applied)) /\ s.applied # <<>>
             /\ work.done \in Seq(Range(s.applied)) /\ work.todo \in Seq(Range(s.applied))
             /\ AsExpected(s.applied, s.pre, s.pre)
             /\ \E t : Trail(t, s, work.done, candidate)
             /\ ~work.undo => Ready(sessions, s, candidate, work.todo)
             /\ ~work.undo => work.done \o work.todo = s.applied
             /\ work.undo => IsPrefix(work.done, s.applied)
<1>1. UnderWay(sessions, work, candidate) /\ StatesFit(sessions, work.id, line)
      /\ WorkFits(sessions, work) /\ SessionsFormed(sessions)
  BY DEF CycleInv
<1>2. work.id \in DOMAIN sessions
  BY <1>1 DEF UnderWay
<1>3. sessions[work.id].state = "WRITING" /\ work.id \notin Range(line)
  BY <1>1, <1>2 DEF StatesFit, Stable
<1> QED BY <1>1, <1>2, <1>3 DEF UnderWay, WorkFits, SessionsFormed

(* A rule that was taken out can be set again at the bottom.               *)
LEMMA SetNotMoved ==
  ASSUME NEW c, WellFormed(c), NEW was, NEW x, x.type = "policy", Takeable(c, was, x)
  PROVE  WellFormed(PutBack(TakeOut(c, x), was, AtTheBottom(x)))
<1> DEFINE d == TakeOut(c, x)
           y == AtTheBottom(x)
<1>1. x.at \in DOMAIN c.rule /\ c.rule[x.at] = was.rule[x.at]
  BY DEF Takeable, HoldsAsIn, Holds
<1>2. y.type = "policy" /\ y.at = x.at /\ y.before = ""
  BY DEF AtTheBottom
<1>3. WellFormed(d) /\ d.rule = Without(c.rule, x.at)
  BY TakeOutWellFormed, RuleOut
<1>4. x.at \notin DOMAIN d.rule
  BY <1>3 DEF Without
<1> HIDE DEF d, y
<1>5. Puttable(d, c, y)
  BY <1>1, <1>2, <1>4 DEF Puttable, Types, Holds, NoRule
<1>6. WellFormed(PutBack(d, c, y))
  BY <1>3, <1>5, PutBackWellFormed
<1>7. PutBack(d, was, y) = PutBack(d, c, y)
  BY <1>1, <1>2 DEF PutBack
<1> QED BY <1>6, <1>7 DEF d, y

(* The next mutation can be written, and then undone, and the rest is      *)
(* ready as before.                                                        *)
LEMMA NextIsReady ==
  ASSUME CycleInv, Writing, work.todo # <<>>
  PROVE  LET s == sessions[work.id]
         IN  /\ WellFormed(NextCandidate)
             /\ Returns(s, NextCandidate, Head(work.todo), candidate)
             /\ Ready(sessions, s, NextCandidate, Tail(work.todo))
<1> DEFINE s == sessions[work.id]
           S == Range(s.applied)
           q == work.todo
           x == Head(q)
<1>1. /\ q \in Seq(S) /\ q # <<>> /\ Ready(sessions, s, candidate, q) /\ WellFormed(s.was)
      /\ WellFormed(candidate)
  BY Current DEF Writing, CycleInv
<1>2. CASE s.kind = "cleanup"
  <2>1. TakeableInTurn(candidate, s.was, q)
    BY <1>1, <1>2 DEF Ready
  <2>2. Takeable(candidate, s.was, x) /\ TakeableInTurn(TakeOut(candidate, x), s.was, Tail(q))
    <3> HIDE DEF s, S, q
    <3> QED BY <1>1, <2>1, TakenInTurn
  <2>3. NextCandidate = TakeOut(candidate, x)
    BY <1>2 DEF NextCandidate, Forward
  <2>4. /\ WellFormed(TakeOut(candidate, x)) /\ CanPutBack(TakeOut(candidate, x), x)
        /\ PutBack(TakeOut(candidate, x), s.was, x) = candidate
    BY <1>1, <2>2, TakeOutWellFormed, StaysOpen, TakenOutAndPutBack
  <2>5. ASSUME x.type = "policy"
        PROVE  WellFormed(PutBack(TakeOut(candidate, x), s.was, AtTheBottom(x)))
    BY <1>1, <2>2, <2>5, SetNotMoved
  <2> QED BY <1>2, <2>2, <2>3, <2>4, <2>5 DEF Ready, Backward, Returns
<1>3. CASE s.kind # "cleanup"
  <2> DEFINE was == sessions[x.from].was
  <2>1. PuttableInTurn(candidate, sessions, q) /\ \A k \in DOMAIN q : q[k].from \in DOMAIN sessions
    BY <1>1, <1>3 DEF Ready
  <2>2. 1 \in DOMAIN q /\ x = q[1]
    BY <1>1
  <2>3. WellFormed(was)
    <3>1. x.from \in DOMAIN sessions
      BY <2>1, <2>2
    <3> QED BY <3>1 DEF CycleInv, SessionsFormed
  <2>4. /\ Puttable(candidate, was, x)
        /\ PuttableInTurn(PutBack(candidate, was, x), sessions, Tail(q))
    <3> HIDE DEF s, S, q
    <3> QED BY <1>1, <2>1, <2>3, PutInTurn
  <2>5. NextCandidate = PutBack(candidate, was, x)
    BY <1>3 DEF NextCandidate, Forward
  <2>6. WellFormed(PutBack(candidate, was, x)) /\ TakeOut(PutBack(candidate, was, x), x) = candidate
    BY <1>1, <2>3, <2>4, PutBackWellFormed, PutBackAndTakenOut
  <2>7. \A k \in DOMAIN Tail(q) : Tail(q)[k].from \in DOMAIN sessions
    <3>1. \A k \in DOMAIN Tail(q) : k + 1 \in DOMAIN q /\ Tail(q)[k] = q[k + 1]
      BY <1>1
    <3> HIDE DEF q
    <3> QED BY <2>1, <3>1
  <2> QED BY <1>3, <2>4, <2>5, <2>6, <2>7 DEF Ready, Backward, Returns
<1> QED BY <1>2, <1>3

(* A rule that is set and not moved can be undone as well.                 *)
LEMMA NotMoved ==
  ASSUME CycleInv, Writing, work.todo # <<>>, sessions[work.id].kind = "restore",
         Head(work.todo).type = "policy"
  PROVE  LET s == sessions[work.id]
             x == Head(work.todo)
             d == Forward(s, candidate, [x EXCEPT !.before = ""])
         IN  WellFormed(d) /\ Returns(s, d, x, candidate)
<1> DEFINE s == sessions[work.id]
           q == work.todo
           x == Head(q)
           y == [x EXCEPT !.before = ""]
           was == sessions[x.from].was
<1>1. /\ q \in Seq(Range(s.applied)) /\ q # <<>> /\ Ready(sessions, s, candidate, q)
      /\ WellFormed(candidate)
  BY Current DEF Writing, CycleInv
<1>2. PuttableInTurn(candidate, sessions, q) /\ \A k \in DOMAIN q : q[k].from \in DOMAIN sessions
  BY <1>1 DEF Ready
<1>3. 1 \in DOMAIN q /\ x = q[1]
  BY <1>1
<1>4. WellFormed(was)
  <2>1. x.from \in DOMAIN sessions
    BY <1>2, <1>3
  <2> QED BY <2>1 DEF CycleInv, SessionsFormed
<1>5. /\ {"type", "at", "before", "from"} \subseteq DOMAIN x /\ ~Holds(candidate, x)
      /\ x.at \in DOMAIN was.rule
  BY <1>2, <1>3 DEF PuttableInTurn
<1>6. y.type = "policy" /\ y.at = x.at /\ y.before = "" /\ y.from = x.from
  BY <1>5
<1> HIDE DEF y
<1>8. Puttable(candidate, was, y)
  BY <1>5, <1>6 DEF Puttable, Types, Holds, NoRule
<1>9. WellFormed(PutBack(candidate, was, y)) /\ TakeOut(PutBack(candidate, was, y), y) = candidate
  BY <1>1, <1>4, <1>8, PutBackWellFormed, PutBackAndTakenOut
<1>10. TakeOut(PutBack(candidate, was, y), x) = TakeOut(PutBack(candidate, was, y), y)
  BY <1>6 DEF TakeOut
<1>11. Forward(s, candidate, y) = PutBack(candidate, was, y)
  BY <1>6 DEF Forward
<1>12. WellFormed(Forward(s, candidate, y)) /\ Returns(s, Forward(s, candidate, y), x, candidate)
  BY <1>9, <1>10, <1>11 DEF Backward, Returns
<1> QED BY <1>12 DEF y

LEMMA WriteKeeps ==
  ASSUME CycleInv, Write
  PROVE  CycleInv'
<1> DEFINE s == sessions[work.id]
           S == Range(s.applied)
           x == Head(work.todo)
<1>1. /\ work.id # 0 /\ ~work.undo /\ work.todo # <<>>
      /\ candidate' = NextCandidate
      /\ work' = [work EXCEPT !.todo = Tail(work.todo), !.done = Append(work.done, x)]
      /\ scene' = scene /\ running' = running /\ sessions' = sessions /\ line' = line
      /\ edits' = edits /\ fails' = fails
  BY DEF Write, Writing
<1>2. /\ work.id \in DOMAIN sessions
      /\ s.applied \in Seq(S) /\ s.applied # <<>>
      /\ work.done \in Seq(S) /\ work.todo \in Seq(S)
      /\ AsExpected(s.applied, s.pre, s.pre)
      /\ \E t : Trail(t, s, work.done, candidate)
      /\ work.done \o work.todo = s.applied
  BY <1>1, Current
<1>3. /\ WellFormed(NextCandidate) /\ Returns(s, NextCandidate, x, candidate)
      /\ Ready(sessions, s, NextCandidate, Tail(work.todo))
  BY <1>1, NextIsReady DEF Writing
<1>4. WorkFormed(work)
  BY DEF CycleInv
<1>5. /\ DOMAIN work' = {"id", "todo", "done", "undo"} /\ work'.undo = work.undo
      /\ work'.id = work.id /\ work'.todo = Tail(work.todo) /\ work'.done = Append(work.done, x)
  BY <1>1, <1>4 DEF WorkFormed
<1>6. WorkFormed(work')
  BY <1>1, <1>4, <1>5 DEF WorkFormed
<1> HIDE DEF S
<1>7. /\ Append(work.done, x) \in Seq(S) /\ Tail(work.todo) \in Seq(S)
      /\ Append(work.done, x) \o Tail(work.todo) = work.done \o work.todo
  <2> DEFINE done == work.done
             todo == work.todo
  <2>1. done \in Seq(S) /\ todo \in Seq(S) /\ todo # <<>>
    BY <1>1, <1>2
  <2> HIDE DEF done, todo
  <2>2. /\ Append(done, Head(todo)) \in Seq(S) /\ Tail(todo) \in Seq(S)
        /\ Append(done, Head(todo)) \o Tail(todo) = done \o todo
    BY <2>1, OneMoreDone
  <2> QED BY <2>2 DEF done, todo
<1>8. \E u : Trail(u, s, Append(work.done, x), NextCandidate)
  <2>1. PICK t : Trail(t, s, work.done, candidate)
    BY <1>2
  <2>2. x \in S
    BY <1>1, <1>2
  <2> HIDE DEF s, x
  <2> QED BY <1>2, <1>3, <2>1, <2>2, TrailLonger
<1>9. UnderWay(sessions', work', candidate')
  BY <1>1, <1>2, <1>3, <1>5, <1>7, <1>8 DEF UnderWay, S
<1>10. WorkFits(sessions', work')
  BY <1>1, <1>2, <1>5, <1>7 DEF WorkFits
<1>11. StatesFit(sessions', work'.id, line')
  BY <1>1, <1>5 DEF CycleInv
<1> QED BY <1>1, <1>3, <1>6, <1>9, <1>10, <1>11 DEF CycleInv

(* What was written is to be undone, with a mutation more or not.          *)
LEMMA TurnsBack ==
  ASSUME CycleInv, Writing, NEW done, NEW c, WellFormed(c),
         done \in Seq(Range(sessions[work.id].applied)),
         IsPrefix(done, sessions[work.id].applied),
         \E t : Trail(t, sessions[work.id], done, c),
         candidate' = c, work' = [work EXCEPT !.undo = TRUE, !.done = done],
         scene' = scene, running' = running, sessions' = sessions, line' = line,
         edits' = edits, fails' \in 0 .. MaxFails
  PROVE  CycleInv'
<1> DEFINE s == sessions[work.id]
<1>1. work.id # 0 /\ WorkFormed(work)
  BY DEF Writing, CycleInv
<1>2. /\ work.id \in DOMAIN sessions
      /\ s.applied \in Seq(Range(s.applied)) /\ s.applied # <<>>
      /\ work.todo \in Seq(Range(s.applied))
      /\ AsExpected(s.applied, s.pre, s.pre)
  BY <1>1, Current
<1>3. /\ DOMAIN work' = {"id", "todo", "done", "undo"} /\ work'.undo = TRUE
      /\ work'.id = work.id /\ work'.todo = work.todo /\ work'.done = done
  BY <1>1 DEF WorkFormed
<1>4. WorkFormed(work')
  BY <1>1, <1>3 DEF WorkFormed
<1>5. UnderWay(sessions', work', candidate')
  BY <1>2, <1>3 DEF UnderWay
<1>6. WorkFits(sessions', work')
  BY <1>3 DEF WorkFits
<1>7. StatesFit(sessions', work'.id, line')
  BY <1>3 DEF CycleInv
<1> QED BY <1>4, <1>5, <1>6, <1>7 DEF CycleInv

LEMMA RefuseKeeps ==
  ASSUME CycleInv, Refuse
  PROVE  CycleInv'
<1> DEFINE s == sessions[work.id]
           S == Range(s.applied)
           x == Head(work.todo)
           d == Forward(s, candidate, [x EXCEPT !.before = ""])
<1>1. /\ Writing /\ scene' = scene /\ running' = running /\ sessions' = sessions /\ line' = line
      /\ edits' = edits
  BY DEF Refuse
<1>2. /\ s.applied \in Seq(S) /\ work.done \in Seq(S) /\ work.todo \in Seq(S)
      /\ \E t : Trail(t, s, work.done, candidate)
      /\ work.done \o work.todo = s.applied /\ WorkFormed(work)
      /\ WellFormed(candidate)
  BY <1>1, Current DEF Writing, CycleInv
<1>3. fails' \in 0 .. MaxFails
  <2>1. fails \in 0 .. MaxFails /\ MaxFails \in Nat
    BY MaxFailsAssumption DEF CycleInv
  <2>2. fails' = fails \/ (fails < MaxFails /\ fails' = fails + 1)
    BY DEF Refuse
  <2> QED BY <2>1, <2>2
<1>4. CASE work' = [work EXCEPT !.undo = TRUE] /\ candidate' = candidate
  <2>1. work' = [work EXCEPT !.undo = TRUE, !.done = work.done]
    BY <1>2, <1>4 DEF WorkFormed
  <2>2. IsPrefix(work.done, s.applied)
    <3> HIDE DEF s, S
    <3> QED BY <1>2, PrefixOfBoth
  <2> QED BY <1>1, <1>2, <1>3, <1>4, <2>1, <2>2, TurnsBack
<1>5. CASE /\ work.todo # <<>> /\ s.kind = "restore" /\ x.type = "policy" /\ candidate' = d
           /\ work' = [work EXCEPT !.undo = TRUE, !.done = Append(work.done, x)]
  <2>1. WellFormed(d) /\ Returns(s, d, x, candidate)
    BY <1>1, <1>5, NotMoved
  <2> HIDE DEF d, S
  <2>2. Append(work.done, x) \in Seq(S) /\ IsPrefix(Append(work.done, x), work.done \o work.todo)
    BY <1>2, <1>5, OneMoreDone
  <2>3. \E u : Trail(u, s, Append(work.done, x), d)
    <3>1. PICK t : Trail(t, s, work.done, candidate)
      BY <1>2
    <3>2. x \in S
      BY <1>2, <1>5
    <3> HIDE DEF s, x
    <3> QED BY <1>2, <2>1, <3>1, <3>2, TrailLonger
  <2> QED BY <1>1, <1>2, <1>3, <1>5, <2>1, <2>2, <2>3, TurnsBack DEF S
<1> QED BY <1>4, <1>5 DEF Refuse

LEMMA UndoKeeps ==
  ASSUME CycleInv, Undo
  PROVE  CycleInv'
<1> DEFINE s == sessions[work.id]
           S == Range(s.applied)
<1>1. /\ work.undo /\ work.done # <<>>
      /\ candidate' = Backward(s, candidate, Last(work.done))
      /\ work' = [work EXCEPT !.done = Front(work.done)]
      /\ scene' = scene /\ running' = running /\ sessions' = sessions /\ line' = line
      /\ edits' = edits /\ fails' = fails
  BY DEF Undo, CanUndo
<1>2. WorkFormed(work) /\ work.id # 0
  BY <1>1 DEF CycleInv, WorkFormed, NoWork
<1>3. /\ work.id \in DOMAIN sessions
      /\ s.applied \in Seq(S) /\ s.applied # <<>>
      /\ work.done \in Seq(S) /\ work.todo \in Seq(S)
      /\ AsExpected(s.applied, s.pre, s.pre)
      /\ \E t : Trail(t, s, work.done, candidate)
      /\ IsPrefix(work.done, s.applied)
  BY <1>1, <1>2, Current
<1>4. /\ DOMAIN work' = {"id", "todo", "done", "undo"} /\ work'.undo = work.undo
      /\ work'.id = work.id /\ work'.todo = work.todo /\ work'.done = Front(work.done)
  BY <1>1, <1>2 DEF WorkFormed
<1>5. WorkFormed(work')
  BY <1>2, <1>4 DEF WorkFormed
<1> HIDE DEF S
<1>6. Front(work.done) \in Seq(S) /\ IsPrefix(Front(work.done), s.applied)
  BY <1>1, <1>3, OneLessDone
<1>7. /\ WellFormed(candidate')
      /\ \E u : Trail(u, s, Front(work.done), candidate')
  <2>1. PICK t : Trail(t, s, work.done, candidate)
    BY <1>3
  <2> HIDE DEF s
  <2> QED BY <1>1, <1>3, <2>1, TrailShorter DEF s
<1>8. UnderWay(sessions', work', candidate')
  BY <1>1, <1>3, <1>4, <1>6, <1>7 DEF UnderWay, S
<1>9. WorkFits(sessions', work')
  BY <1>1, <1>4, <1>6 DEF WorkFits
<1>10. StatesFit(sessions', work'.id, line')
  BY <1>1, <1>4 DEF CycleInv
<1> QED BY <1>1, <1>5, <1>7, <1>8, <1>9, <1>10 DEF CycleInv

LEMMA AppendRange ==
  ASSUME NEW S, NEW q \in Seq(S), NEW x \in S
  PROVE  Append(q, x) \in Seq(S) /\ Range(Append(q, x)) = Range(q) \cup {x}
<1> DEFINE r == Append(q, x)
<1>1. /\ r \in Seq(S) /\ DOMAIN r = 1 .. Len(q) + 1 /\ DOMAIN q = 1 .. Len(q) /\ Len(q) \in Nat
      /\ r[Len(q) + 1] = x /\ \A k \in 1 .. Len(q) : r[k] = q[k]
  OBVIOUS
<1> HIDE DEF r
<1>2. \A k \in DOMAIN r : k = Len(q) + 1 \/ k \in DOMAIN q
  BY <1>1
<1>3. Range(r) \subseteq Range(q) \cup {x}
  BY <1>1, <1>2 DEF Range
<1>4. Range(q) \cup {x} \subseteq Range(r)
  BY <1>1 DEF Range
<1> QED BY <1>1, <1>3, <1>4 DEF r

(* A session moved to another state: the rest of it, and of the sessions,  *)
(* stays.                                                                  *)
LEMMA MovedSession ==
  ASSUME NEW ss, SessionsFormed(ss), NEW i \in DOMAIN ss, NEW state,
         NEW new, new = [ss EXCEPT ![i].state = state]
  PROVE  /\ SessionsFormed(new) /\ DOMAIN new = DOMAIN ss
         /\ new[i].state = state /\ new[i].applied = ss[i].applied
         /\ \A j \in DOMAIN ss : j # i => new[j] = ss[j]
<1> DEFINE t == [ss[i] EXCEPT !.state = state]
<1>1. DOMAIN ss[i] = SessionFields
  BY DEF SessionsFormed
<1>2. /\ DOMAIN t = SessionFields /\ t.was = ss[i].was /\ t.state = state
      /\ t.applied = ss[i].applied
  BY <1>1 DEF SessionFields
<1>3. [ss EXCEPT ![i].state = state] = [ss EXCEPT ![i] = t]
  OBVIOUS
<1> HIDE DEF t
<1> DEFINE r == [ss EXCEPT ![i] = t]
<1>4. /\ SessionsFormed(r) /\ DOMAIN r = DOMAIN ss
      /\ r[i] = t /\ \A j \in DOMAIN ss : j # i => r[j] = ss[j]
  BY <1>2, OneSession
<1>5. new = r
  BY <1>3
<1> HIDE DEF r
<1> QED BY <1>2, <1>4, <1>5

(* The session in progress comes to its end.                               *)
LEMMA EndKeeps ==
  ASSUME CycleInv, work.id # 0, NEW state \in States \ {"WRITING"},
         NEW i, i = work.id, sessions' = [sessions EXCEPT ![i].state = state],
         work' = NoWork,
         \/ state \notin Stable \cup {"RESTORED"} /\ line' = line
         \/ state \in Stable \cup {"RESTORED"} /\ line' = Append(line, work.id),
         scene' = scene, running' = running, WellFormed(candidate'), edits' = edits,
         fails' \in 0 .. MaxFails
  PROVE  CycleInv'
<1> DEFINE s == sessions[i]
<1>1. /\ i \in DOMAIN sessions /\ s.state = "WRITING" /\ i \notin Range(line)
      /\ DOMAIN s = SessionFields /\ s.applied # <<>>
  BY Current
<1>2. /\ SessionsFormed(sessions) /\ StatesFit(sessions, i, line) /\ line \in Seq(DOMAIN sessions)
  BY DEF CycleInv
<1>3. /\ SessionsFormed(sessions') /\ DOMAIN sessions' = DOMAIN sessions
      /\ sessions'[i].state = state /\ sessions'[i].applied = s.applied
      /\ \A j \in DOMAIN sessions : j # i => sessions'[j] = sessions[j]
  <2>1. sessions' = [sessions EXCEPT ![i].state = state]
    OBVIOUS
  <2>2. i \in DOMAIN sessions
    BY <1>1
  <2>3. SessionsFormed(sessions)
    BY <1>2
  <2>4. SessionsFormed(sessions')
    BY ONLY <2>1, <2>2, <2>3, MovedSession, Zenon
  <2>5. /\ DOMAIN sessions' = DOMAIN sessions
        /\ sessions'[i].state = state /\ sessions'[i].applied = sessions[i].applied
        /\ \A j \in DOMAIN sessions : j # i => sessions'[j] = sessions[j]
    BY ONLY <2>1, <2>2, <2>3, MovedSession, SMTT(30)
  <2> QED BY <2>4, <2>5
<1>4. work'.id = 0 /\ WorkFormed(work')
  BY DEF WorkFormed, NoWork
<1>5. 0 \notin DOMAIN sessions
  <2>1. sessions \in Seq(Range(sessions))
    BY <1>2 DEF SessionsFormed
  <2>2. DOMAIN sessions = 1 .. Len(sessions)
    BY <2>1
  <2> QED BY <2>2
<1>6. /\ line' \in Seq(DOMAIN sessions')
      /\ Range(line') = IF state \in Stable \cup {"RESTORED"} THEN Range(line) \cup {i} ELSE Range(line)
  <2> DEFINE D == DOMAIN sessions
  <2>1. line \in Seq(D) /\ i \in D
    BY <1>1, <1>2
  <2> HIDE DEF D
  <2>2. Append(line, i) \in Seq(D) /\ Range(Append(line, i)) = Range(line) \cup {i}
    BY <2>1, AppendRange
  <2> QED BY <1>3, <2>1, <2>2 DEF D
<1>7. StatesFit(sessions', 0, line')
  <2> SUFFICES ASSUME NEW j \in DOMAIN sessions
               PROVE  /\ sessions'[j].state \in States
                      /\ sessions'[j].state = "WRITING" <=> 0 = j
                      /\ j \in Range(line') <=> sessions'[j].state \in Stable \cup {"RESTORED"}
                                                 /\ sessions'[j].applied # <<>>
    BY <1>3 DEF StatesFit
  <2>1. CASE j = i
    BY <1>1, <1>3, <1>5, <1>6, <2>1
  <2>2. CASE j # i
    BY <1>2, <1>3, <1>5, <1>6, <2>2 DEF StatesFit
  <2> QED BY <2>1, <2>2
<1>8. WorkFits(sessions', work')
  BY <1>4 DEF WorkFits
<1> QED BY <1>3, <1>4, <1>6, <1>7, <1>8 DEF CycleInv

LEMMA FinishApplyKeeps ==
  ASSUME CycleInv, FinishApply
  PROVE  CycleInv'
<1> DEFINE s == sessions[work.id]
           state == IF Len(s.applied) < Len(s.patch) THEN "PARTIAL"
                    ELSE IF s.kind = "restore" THEN "RESTORED" ELSE "CANDIDATE_APPLIED"
<1>1. /\ work.id # 0 /\ sessions' = [sessions EXCEPT ![work.id].state = state]
      /\ work' = NoWork /\ line' = Append(line, work.id)
      /\ scene' = scene /\ running' = running /\ candidate' = candidate /\ edits' = edits
      /\ fails' = fails
  BY DEF FinishApply, Writing
<1>2. state \in {"PARTIAL", "RESTORED", "CANDIDATE_APPLIED"}
  OBVIOUS
<1> HIDE DEF state
<1>3. state \in States \ {"WRITING"} /\ state \in Stable \cup {"RESTORED"}
  BY <1>2 DEF States, Stable
<1>4. fails' \in 0 .. MaxFails
  BY <1>1 DEF CycleInv
<1>5. WellFormed(candidate')
  BY <1>1 DEF CycleInv
<1> QED BY <1>1, <1>3, <1>4, <1>5, EndKeeps

(* What the last step of an undo finds.                                    *)
LEMMA UndoneIsAsBefore ==
  ASSUME CycleInv, FinishUndo
  PROVE  /\ candidate = sessions[work.id].pre
         /\ sessions' = [sessions EXCEPT ![work.id].state = "FAILED"]
<1> DEFINE s == sessions[work.id]
<1>1. /\ work.undo /\ work.done = <<>>
      /\ sessions' = [sessions EXCEPT ![work.id].state =
           IF AsExpected(s.applied, s.pre, candidate) THEN "FAILED" ELSE "OUTCOME_UNKNOWN"]
  BY DEF FinishUndo, EndsAs
<1>2. work.id # 0
  BY <1>1 DEF CycleInv, WorkFormed, NoWork
<1>3. AsExpected(s.applied, s.pre, s.pre) /\ \E t : Trail(t, s, work.done, candidate)
  BY <1>2, Current
<1>4. candidate = s.pre
  <2>1. PICK t : Trail(t, s, <<>>, candidate)
    BY <1>1, <1>3
  <2>2. t[0] = s.pre /\ t[Len(<<>>)] = candidate
    BY <2>1 DEF Trail
  <2> QED BY <2>2
<1> QED BY <1>1, <1>3, <1>4

LEMMA FinishUndoKeeps ==
  ASSUME CycleInv, FinishUndo
  PROVE  CycleInv'
<1>1. /\ work.undo /\ work' = NoWork /\ line' = line
      /\ scene' = scene /\ running' = running /\ candidate' = candidate /\ edits' = edits
      /\ fails' = fails
  BY DEF FinishUndo, EndsAs
<1>2. work.id # 0 /\ fails \in 0 .. MaxFails
  BY <1>1 DEF CycleInv, WorkFormed, NoWork
<1>3. sessions' = [sessions EXCEPT ![work.id].state = "FAILED"]
  BY UndoneIsAsBefore
<1>4. "FAILED" \in States \ {"WRITING"} /\ "FAILED" \notin Stable \cup {"RESTORED"}
  BY DEF States, Stable
<1>5. WellFormed(candidate')
  BY <1>1 DEF CycleInv
<1> QED BY <1>1, <1>2, <1>3, <1>4, <1>5, EndKeeps

LEMMA FailUndoKeeps ==
  ASSUME CycleInv, FailUndo
  PROVE  CycleInv'
<1> DEFINE s == sessions[work.id]
           x == Last(work.done)
<1>1. /\ work.undo /\ work.done # <<>> /\ work' = NoWork /\ line' = line
      /\ sessions' = [sessions EXCEPT ![work.id].state = "OUTCOME_UNKNOWN"]
      /\ scene' = scene /\ running' = running /\ edits' = edits
      /\ fails' = fails \/ (fails < MaxFails /\ fails' = fails + 1)
      /\ \/ candidate' = candidate
         \/ /\ s.kind = "cleanup" /\ x.type = "policy"
            /\ candidate' = PutBack(candidate, s.was, AtTheBottom(x))
  BY DEF FailUndo, EndsAs
<1>2. work.id # 0 /\ fails \in 0 .. MaxFails /\ MaxFails \in Nat
  BY <1>1, MaxFailsAssumption DEF CycleInv, WorkFormed, NoWork
<1>3. fails' \in 0 .. MaxFails
  BY <1>1, <1>2
<1>4. "OUTCOME_UNKNOWN" \in States \ {"WRITING"}
      /\ "OUTCOME_UNKNOWN" \notin Stable \cup {"RESTORED"}
  BY DEF States, Stable
<1>5. WellFormed(candidate')
  <2>1. work.done \in Seq(Range(s.applied)) /\ \E t : Trail(t, s, work.done, candidate)
    BY <1>2, Current
  <2>2. s.kind = "cleanup" /\ x.type = "policy" =>
          WellFormed(PutBack(candidate, s.was, AtTheBottom(x)))
    <3>1. PICK t : Trail(t, s, work.done, candidate)
      BY <2>1
    <3> HIDE DEF s
    <3> QED BY <1>1, <2>1, <3>1, TrailShorter
  <2>3. WellFormed(candidate)
    BY DEF CycleInv
  <2> QED BY <1>1, <2>2, <2>3
<1> QED BY <1>1, <1>2, <1>3, <1>4, <1>5, EndKeeps

(***************************************************************************)
(* The parts cut from a plan                                               *)
(***************************************************************************)
CutFits(s) ==
  /\ s.kind = "cleanup"
  /\ s.patch \in Seq(Range(s.patch))
  /\ \A x \in Range(s.patch) :
       /\ DOMAIN x = DOMAIN Mutation(x.type, x.at, {})
       /\ x.type \in {"policy-member", "group-member", "policy", "group", "address"}
       /\ x.type = "policy-member" => x.field \in Fields
  /\ CleanupFits(s)

(* A part of a cleanup that fits does so too.                              *)
LEMMA PartFits ==
  ASSUME NEW s, CutFits(s), NEW C, NEW t, t.kind = "cleanup", t.was = s.was,
         t.patch = Keeping(s.patch, C)
  PROVE  CutFits(t)
<1> DEFINE patch == s.patch
           q == t.patch
<1>1. /\ patch \in Seq(Range(patch)) /\ CleanupFits(s)
      /\ \A x \in Range(patch) :
           /\ DOMAIN x = DOMAIN Mutation(x.type, x.at, {})
           /\ x.type \in {"policy-member", "group-member", "policy", "group", "address"}
           /\ x.type = "policy-member" => x.field \in Fields
  BY DEF CutFits
<1>2. q \in Seq(Range(patch)) /\ \E p : KeptOf(q, patch, OfComponents(patch, C), Len(patch), p)
  BY <1>1, KeepingKeeps
<1>3. PICK p : KeptOf(q, patch, OfComponents(patch, C), Len(patch), p)
  BY <1>2
<1>4. /\ \A x \in Range(q) : x \in Range(patch)
      /\ \A k \in DOMAIN q : p[k] \in DOMAIN patch /\ q[k] = patch[p[k]]
      /\ \A k, l \in DOMAIN q : k < l <=> p[k] < p[l]
  BY <1>1, <1>2, <1>3, KeptEntries
<1>5. q \in Seq(Range(q))
  <2>1. q = [k \in 1 .. Len(q) |-> q[k]] /\ Len(q) \in Nat
    BY <1>2
  <2>2. \A k \in 1 .. Len(q) : q[k] \in Range(q)
    BY <2>1 DEF Range
  <2> HIDE DEF q
  <2> QED BY <2>1, <2>2
<1>6. CleanupFits(t)
  <2>1. ASSUME NEW x \in Range(q)
        PROVE  /\ HoldsAsIn(t.was, t.was, x)
               /\ x.type = "policy" =>
                    /\ x.among = RuleNames(t.was, x.at)
                    /\ InPlace(t.was, x, {}) /\ x.before = x.next
    BY <1>1, <1>4 DEF CleanupFits
  <2>2. ASSUME NEW i \in DOMAIN q, NEW j \in DOMAIN q, i < j
        PROVE  /\ Distinct(q[i], q[j])
               /\ InOneRulebase(q[i], q[j]) => q[i].at[3] # q[j].before
    <3>1. p[i] \in DOMAIN patch /\ p[j] \in DOMAIN patch /\ p[i] < p[j]
          /\ q[i] = patch[p[i]] /\ q[j] = patch[p[j]]
      BY <1>4, <2>2
    <3> QED BY <1>1, <3>1 DEF CleanupFits
  <2> QED BY <2>1, <2>2 DEF CleanupFits
<1> QED BY <1>1, <1>4, <1>5, <1>6 DEF CutFits

(* What makes a plan of a session.                                         *)
SamePlan(s, t) ==
  /\ t.root = s.root /\ t.kind = s.kind /\ t.ask = s.ask
  /\ t.was = s.was /\ t.patch = s.patch

(* Once it is made a session keeps its plan; what is applied is some of it *)
(* and noted when the session leaves its first state.                      *)
OnceMade(s, t) ==
  /\ SamePlan(s, t)
  /\ \/ t.applied = s.applied /\ t.state = s.state
     \/ t.state # "PLANNED" /\ (t.applied = s.applied \/ t.applied \in Seq(Range(s.patch)))

LEMMA PlansStay ==
  ASSUME NEW ss, SessionsFormed(ss), NEW i \in DOMAIN ss, NEW t, DOMAIN t = SessionFields,
         OnceMade(ss[i], t), NEW tt, tt = [ss EXCEPT ![i] = t]
  PROVE  DOMAIN tt = DOMAIN ss /\ \A j \in DOMAIN ss : OnceMade(ss[j], tt[j])
BY DEF OnceMade, SamePlan

(***************************************************************************)
(* The steps                                                               *)
(***************************************************************************)
LEMMA CycleSteps ==
  ASSUME CycleInv, PlansFit, [Next]_vars
  PROVE  CycleInv'
<1>1. ASSUME NEW ask \in Scenes[scene].asks, PlanCleanup(ask) PROVE CycleInv'
  BY <1>1, PlanCleanupKeeps
<1>2. ASSUME NEW s \in Range(sessions), NEW cause \in Causes(s.patch), SelectTarget(s, cause)
      PROVE  CycleInv'
  BY <1>2, ChildKeeps DEF SelectTarget
<1>3. ASSUME NEW s \in Range(sessions), NEW cause \in Causes(s.patch), ExcludeTarget(s, cause)
      PROVE  CycleInv'
  BY <1>3, ChildKeeps DEF ExcludeTarget
<1>4. CASE PlanRestore
  BY <1>4, PlanRestoreKeeps
<1>5. ASSUME NEW i \in DOMAIN sessions, BeginApply(i) PROVE CycleInv'
  BY <1>5, Begun
<1>6. ASSUME NEW i \in DOMAIN sessions, Commit(i) PROVE CycleInv'
  BY <1>6, Committed
<1>7. CASE Write
  BY <1>7, WriteKeeps
<1>8. CASE FinishApply
  BY <1>8, FinishApplyKeeps
<1>9. CASE Refuse
  BY <1>9, RefuseKeeps
<1>10. CASE Undo
  BY <1>10, UndoKeeps
<1>11. CASE FinishUndo
  BY <1>11, FinishUndoKeeps
<1>12. CASE FailUndo
  BY <1>12, FailUndoKeeps
<1>13. ASSUME NEW k \in edits, Edit(k) PROVE CycleInv'
  BY <1>13, EditKeeps
<1>14. CASE UNCHANGED vars
  BY <1>14 DEF vars, CycleInv
<1> QED BY <1>1, <1>2, <1>3, <1>4, <1>5, <1>6, <1>7, <1>8, <1>9, <1>10, <1>11, <1>12, <1>13,
           <1>14 DEF Next

Planning ==
  \/ \E ask \in Scenes[scene].asks : PlanCleanup(ask)
  \/ \E s \in Range(sessions) : \E cause : SelectTarget(s, cause) \/ ExcludeTarget(s, cause)
  \/ PlanRestore

(* Whatever else is done with the sessions, each keeps its plan.           *)
LEMMA SessionsKeepPlans ==
  ASSUME CycleInv, PlansFit, Next, ~Planning
  PROVE  DOMAIN sessions' = DOMAIN sessions
         /\ \A j \in DOMAIN sessions : OnceMade(sessions[j], sessions'[j])
<1>1. SessionsFormed(sessions) /\ \A j \in DOMAIN sessions : DOMAIN sessions[j] = SessionFields
  BY DEF CycleInv, SessionsFormed
<1>2. CASE sessions' = sessions
  BY <1>2 DEF OnceMade, SamePlan
<1>3. ASSUME NEW i \in DOMAIN sessions, NEW state, state # "PLANNED",
             sessions' = [sessions EXCEPT ![i].state = state]
      PROVE  DOMAIN sessions' = DOMAIN sessions
             /\ \A j \in DOMAIN sessions : OnceMade(sessions[j], sessions'[j])
  <2> DEFINE t == [sessions[i] EXCEPT !.state = state]
  <2>1. sessions' = [sessions EXCEPT ![i] = t]
    BY <1>3
  <2>2. DOMAIN t = SessionFields /\ OnceMade(sessions[i], t)
    BY <1>1, <1>3 DEF OnceMade, SamePlan, SessionFields
  <2> HIDE DEF t
  <2> QED BY <1>1, <2>1, <2>2, PlansStay
<1>4. ASSUME NEW i \in DOMAIN sessions, NEW safe \in Seq(Range(sessions[i].patch)),
             sessions' = [sessions EXCEPT ![i].state = "WRITING", ![i].pre = candidate,
                                          ![i].applied = safe]
      PROVE  DOMAIN sessions' = DOMAIN sessions
             /\ \A j \in DOMAIN sessions : OnceMade(sessions[j], sessions'[j])
  <2> DEFINE t == [sessions[i] EXCEPT !.state = "WRITING", !.pre = candidate, !.applied = safe]
  <2>1. sessions' = [sessions EXCEPT ![i] = t]
    BY <1>4
  <2>2. DOMAIN t = SessionFields /\ OnceMade(sessions[i], t)
    BY <1>1, <1>4 DEF OnceMade, SamePlan, SessionFields
  <2> HIDE DEF t
  <2> QED BY <1>1, <2>1, <2>2, PlansStay
<1>5. ASSUME NEW i \in DOMAIN sessions, BeginApply(i)
      PROVE  DOMAIN sessions' = DOMAIN sessions
             /\ \A j \in DOMAIN sessions : OnceMade(sessions[j], sessions'[j])
  <2>1. PICK safe \in Seq(Range(sessions[i].patch)) : Begin(i, safe)
    BY <1>5, SafeIsReady DEF BeginApply
  <2> QED BY <1>3, <1>4, <2>1 DEF Begin
<1>6. ASSUME NEW i \in DOMAIN sessions, Commit(i)
       PROVE  DOMAIN sessions' = DOMAIN sessions
              /\ \A j \in DOMAIN sessions : OnceMade(sessions[j], sessions'[j])
  BY <1>3, <1>6 DEF Commit
<1>7. ASSUME NEW state, state # "PLANNED",
              sessions' = [sessions EXCEPT ![work.id].state = state], work.id # 0
       PROVE  DOMAIN sessions' = DOMAIN sessions
              /\ \A j \in DOMAIN sessions : OnceMade(sessions[j], sessions'[j])
  <2>1. work.id \in DOMAIN sessions
    BY <1>7, Current
  <2> QED BY <1>3, <1>7, <2>1
<1>8. CASE FinishApply
  <2> DEFINE state == IF Len(sessions[work.id].applied) < Len(sessions[work.id].patch)
                      THEN "PARTIAL"
                      ELSE IF sessions[work.id].kind = "restore" THEN "RESTORED"
                      ELSE "CANDIDATE_APPLIED"
  <2>1. sessions' = [sessions EXCEPT ![work.id].state = state] /\ work.id # 0
    BY <1>8 DEF FinishApply, Writing
  <2>2. state # "PLANNED"
    OBVIOUS
  <2> HIDE DEF state
  <2> QED BY <1>7, <2>1, <2>2
<1>9. CASE FinishUndo \/ FailUndo
  <2>1. work.id # 0
    BY <1>9 DEF FinishUndo, FailUndo, CycleInv, WorkFormed, NoWork
  <2> QED BY <1>7, <1>9, <2>1 DEF FinishUndo, FailUndo, EndsAs
<1>10. CASE Write \/ Refuse \/ Undo
  BY <1>2, <1>10 DEF Write, Refuse, Undo
<1>11. ASSUME NEW k \in edits, Edit(k) PROVE sessions' = sessions
  BY <1>11 DEF Edit
<1> QED BY <1>2, <1>5, <1>6, <1>8, <1>9, <1>10, <1>11 DEF Next, Planning

LEMMA WayBack ==
  ASSUME CycleInv
  PROVE  UndoFindsItsWay
<1> DEFINE s == sessions[work.id]
           S == Range(s.applied)
<1>1. SUFFICES ASSUME work.undo, work.done # <<>> PROVE CanUndo
  BY DEF UndoFindsItsWay
<1>2. work.id # 0
  BY <1>1 DEF CycleInv, WorkFormed, NoWork
<1>3. work.done \in Seq(S)
  BY <1>2, Current
<1>4. PICK t : Trail(t, s, work.done, candidate)
  BY <1>2, Current
<1>5. s.kind = "cleanup" => CanPutBack(candidate, Last(work.done))
  <2> HIDE DEF s, S
  <2> QED BY <1>1, <1>3, <1>4, TrailShorter
<1> QED BY <1>1, <1>5 DEF CanUndo

LEMMA NextTarget ==
  ASSUME CycleInv
  PROVE  FindsItsTarget
<1> DEFINE s == sessions[work.id]
           q == work.todo
<1>1. SUFFICES ASSUME Writing, q # <<>>
               PROVE  IF s.kind = "cleanup" THEN HoldsAsIn(candidate, s.was, Head(q))
                      ELSE ~Holds(candidate, Head(q))
  BY DEF FindsItsTarget
<1>2. q \in Seq(Range(s.applied)) /\ Ready(sessions, s, candidate, q)
  BY <1>1, Current DEF Writing
<1>3. 1 \in DOMAIN q /\ Head(q) = q[1]
  BY <1>1, <1>2
<1> QED BY <1>2, <1>3 DEF Ready, TakeableInTurn, Takeable, PuttableInTurn

=============================================================================
