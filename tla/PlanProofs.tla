------------------------------ MODULE PlanProofs ------------------------------
(***************************************************************************)
(* The planners make plans that can be written and taken back, for any     *)
(* configurations, requests and histories, and that spare the rules they   *)
(* must not modify, for any configurations and plainly asked requests.     *)
(***************************************************************************)
EXTENDS CycleProofs

(***************************************************************************)
(* Finite sets                                                             *)
(***************************************************************************)
(* One element less.                                                       *)
LEMMA OneLess ==
  ASSUME NEW S, IsFiniteSet(S), NEW T \in SUBSET S, NEW x \in T
  PROVE  /\ IsFiniteSet(T) /\ Cardinality(T) \in Nat \ {0}
         /\ T \ {x} \in SUBSET S /\ Cardinality(T \ {x}) = Cardinality(T) - 1
<1>1. IsFiniteSet(T)
  BY FS_Subset
<1>2. Cardinality(T) \in Nat /\ Cardinality(T \ {x}) \in Nat
      /\ Cardinality(T \ {x}) = Cardinality(T) - 1
  BY <1>1, FS_RemoveElement, FS_CardinalityType
<1> QED BY <1>1, <1>2

LEMMA FewOfFew ==
  ASSUME NEW S, IsFiniteSet(S), NEW T \in SUBSET S, NEW U \in SUBSET T, U # T
  PROVE  /\ IsFiniteSet(T) /\ IsFiniteSet(U) /\ U \in SUBSET S
         /\ Cardinality(T) \in Nat /\ Cardinality(U) \in Nat
         /\ Cardinality(U) < Cardinality(T)
<1>1. IsFiniteSet(T)
  BY FS_Subset
<1>2. /\ IsFiniteSet(U) /\ Cardinality(U) <= Cardinality(T)
      /\ Cardinality(U) # Cardinality(T)
  BY <1>1, FS_Subset
<1>3. Cardinality(T) \in Nat /\ Cardinality(U) \in Nat
  BY <1>1, <1>2, FS_CardinalityType
<1> QED BY <1>1, <1>2, <1>3

LEMMA FiniteUnion ==
  ASSUME NEW S, IsFiniteSet(S), NEW f, \A x \in S : IsFiniteSet(f[x])
  PROVE  IsFiniteSet(UNION {f[x] : x \in S})
<1> DEFINE A == {n \in Nat : \A T \in SUBSET S :
                               Cardinality(T) = n => IsFiniteSet(UNION {f[x] : x \in T})}
<1>1. 0 \in A
  <2>1. ASSUME NEW T \in SUBSET S, Cardinality(T) = 0
        PROVE  IsFiniteSet(UNION {f[x] : x \in T})
    <3>1. T = {}
      BY <2>1, FS_Subset, FS_EmptySet
    <3>2. UNION {f[x] : x \in T} = {}
      BY <3>1
    <3> QED BY <3>2, FS_EmptySet
  <2> QED BY <2>1
<1>2. ASSUME NEW n \in A PROVE n + 1 \in A
  <2>1. ASSUME NEW T \in SUBSET S, Cardinality(T) = n + 1
        PROVE  IsFiniteSet(UNION {f[x] : x \in T})
    <3>1. T # {}
      BY <2>1, FS_EmptySet
    <3>2. PICK x \in T : TRUE
      BY <3>1
    <3>3. T \ {x} \in SUBSET S /\ Cardinality(T \ {x}) = n
      BY <2>1, OneLess
    <3>4. IsFiniteSet(UNION {f[y] : y \in T \ {x}})
      BY <3>3
    <3>5. UNION {f[y] : y \in T} = (UNION {f[y] : y \in T \ {x}}) \cup f[x]
      OBVIOUS
    <3> DEFINE U == UNION {f[y] : y \in T \ {x}}
               V == f[x]
    <3>6. IsFiniteSet(U) /\ IsFiniteSet(V)
      BY <3>4
    <3> HIDE DEF U, V
    <3>7. IsFiniteSet(U \cup V)
      BY ONLY <3>6, FS_Union
    <3> QED BY <3>5, <3>7 DEF U, V
  <2> QED BY <2>1
<1>3. A = Nat
  <2>1. A \subseteq Nat
    OBVIOUS
  <2> HIDE DEF A
  <2> QED BY <1>1, <1>2, <2>1, NaturalSets
<1>4. Cardinality(S) \in A
  BY <1>3, FS_CardinalityType
<1> QED BY <1>4

(***************************************************************************)
(* The elements of a set in an order                                       *)
(***************************************************************************)
NoneBefore(rest, before) == {x \in rest : \A y \in rest : <<y, x>> \notin before}

LineBy(S, before, F, n) ==
  F = [rest \in {T \in SUBSET S : Cardinality(T) <= n} |->
         IF NoneBefore(rest, before) = {} THEN <<>>
         ELSE LET x == CHOOSE x \in NoneBefore(rest, before) : TRUE
              IN  <<x>> \o F[rest \ {x}]]

LEMMA LineExists ==
  ASSUME NEW S, IsFiniteSet(S), NEW before, NEW m \in Nat
  PROVE  \E F : LineBy(S, before, F, m)
<1> DEFINE A == {n \in Nat : \E F : LineBy(S, before, F, n)}
           D(n) == {T \in SUBSET S : Cardinality(T) <= n}
           Step(F, rest) == IF NoneBefore(rest, before) = {} THEN <<>>
                            ELSE LET x == CHOOSE x \in NoneBefore(rest, before) : TRUE
                                 IN  <<x>> \o F[rest \ {x}]
<1>s. ASSUME NEW rest \in SUBSET S, NoneBefore(rest, before) # {}
      PROVE  LET x == CHOOSE x \in NoneBefore(rest, before) : TRUE
             IN  /\ Cardinality(rest) \in Nat \ {0}
                 /\ rest \ {x} \in SUBSET S /\ Cardinality(rest \ {x}) = Cardinality(rest) - 1
  <2> DEFINE x == CHOOSE x \in NoneBefore(rest, before) : TRUE
  <2>1. x \in rest
    BY <1>s DEF NoneBefore
  <2> HIDE DEF x
  <2> QED BY <2>1, OneLess DEF x
<1>1. 0 \in A
  <2> DEFINE F0 == [rest \in D(0) |-> <<>>]
  <2>1. ASSUME NEW rest \in D(0) PROVE NoneBefore(rest, before) = {}
    <3>1. Cardinality(rest) \in Nat
      BY FS_Subset, FS_CardinalityType
    <3>2. ~(Cardinality(rest) \in Nat \ {0})
      BY <3>1
    <3> QED BY <1>s, <3>2
  <2>2. LineBy(S, before, F0, 0)
    BY <2>1 DEF LineBy
  <2> QED BY <2>2
<1>2. ASSUME NEW n \in A PROVE n + 1 \in A
  <2>1. n \in Nat /\ \E F : LineBy(S, before, F, n)
    OBVIOUS
  <2>2. PICK F : LineBy(S, before, F, n)
    BY <2>1
  <2> DEFINE H == [rest \in D(n + 1) |-> Step(F, rest)]
  <2>3. ASSUME NEW rest \in D(n) PROVE rest \in D(n + 1) /\ H[rest] = F[rest]
    <3>1. rest \in D(n + 1)
      <4>1. Cardinality(rest) \in Nat
        BY FS_Subset, FS_CardinalityType
      <4> QED BY <2>1, <4>1
    <3>2. F[rest] = Step(F, rest)
      <4> HIDE DEF A, H
      <4> QED BY <2>2 DEF LineBy
    <3> QED BY <3>1, <3>2
  <2>4. ASSUME NEW rest \in D(n + 1) PROVE H[rest] = Step(H, rest)
    <3>1. H[rest] = Step(F, rest)
      OBVIOUS
    <3>2. CASE NoneBefore(rest, before) = {}
      BY <3>1, <3>2
    <3>3. CASE NoneBefore(rest, before) # {}
      <4> DEFINE x == CHOOSE x \in NoneBefore(rest, before) : TRUE
      <4>1. rest \ {x} \in D(n)
        <5>1. Cardinality(rest) \in Nat \ {0}
              /\ rest \ {x} \in SUBSET S /\ Cardinality(rest \ {x}) = Cardinality(rest) - 1
          BY <1>s, <3>3
        <5> HIDE DEF x
        <5> QED BY <5>1, <2>1
      <4>2. H[rest \ {x}] = F[rest \ {x}]
        <5> HIDE DEF x, H, D
        <5> QED BY <2>3, <4>1
      <4> HIDE DEF H
      <4> QED BY <3>1, <3>3, <4>2
    <3> QED BY <3>2, <3>3
  <2>5. LineBy(S, before, H, n + 1)
    <3>1. H = [rest \in D(n + 1) |-> H[rest]]
      OBVIOUS
    <3> HIDE DEF H
    <3> QED BY <2>4, <3>1 DEF LineBy
  <2> HIDE DEF H
  <2> QED BY <2>1, <2>5
<1>3. A = Nat
  <2>1. A \subseteq Nat
    OBVIOUS
  <2> HIDE DEF A
  <2> QED BY <1>1, <1>2, <2>1, NaturalSets
<1>4. m \in A
  BY <1>3
<1> QED BY <1>4

LineOf(S, before, F) ==
  F = [rest \in SUBSET S |->
         LET first == {x \in rest : \A y \in rest : <<y, x>> \notin before}
         IN  IF first = {} THEN <<>>
             ELSE LET x == CHOOSE x \in first : TRUE IN <<x>> \o F[rest \ {x}]]

(* Elements of a set, each once, and none of them after one it precedes.   *)
Lined(q, S, before) ==
  /\ q \in Seq(S) /\ IsInjective(q)
  /\ \A i, j \in DOMAIN q : i < j => <<q[j], q[i]>> \notin before

LEMMA LinedOneMore ==
  ASSUME NEW S, NEW before, NEW x \in S, \A y \in S : <<y, x>> \notin before,
         NEW q, Lined(q, S \ {x}, before)
  PROVE  Lined(<<x>> \o q, S, before)
<1> DEFINE r == <<x>> \o q
<1>1. /\ q \in Seq(S \ {x}) /\ IsInjective(q)
      /\ \A i, j \in DOMAIN q : i < j => <<q[j], q[i]>> \notin before
  BY DEF Lined
<1>2. q \in Seq(S) /\ Len(q) \in Nat /\ DOMAIN q = 1 .. Len(q)
  BY <1>1, SeqMonotonic
<1>3. /\ r \in Seq(S) /\ DOMAIN r = 1 .. Len(q) + 1
      /\ r[1] = x /\ \A i \in 2 .. Len(q) + 1 : i - 1 \in DOMAIN q /\ r[i] = q[i - 1]
  <2>1. /\ <<x>> \in Seq(S) /\ Len(<<x>>) = 1 /\ <<x>>[1] = x
    OBVIOUS
  <2>2. /\ r \in Seq(S) /\ Len(r) = 1 + Len(q)
        /\ \A i \in 1 .. 1 + Len(q) : r[i] = IF i <= 1 THEN <<x>>[i] ELSE q[i - 1]
    BY <1>2, <2>1, ConcatProperties
  <2> HIDE DEF r
  <2> QED BY <1>2, <2>1, <2>2
<1> HIDE DEF r
<1>4. \A i \in DOMAIN q : q[i] \in S \ {x}
  BY <1>1
<1>5. \A i \in DOMAIN r : i = 1 \/ i \in 2 .. Len(q) + 1
  BY <1>2, <1>3
<1>6. IsInjective(r)
  <2> SUFFICES ASSUME NEW i \in DOMAIN r, NEW j \in DOMAIN r, r[i] = r[j] PROVE i = j
    BY DEF IsInjective
  <2>1. i \in Nat /\ j \in Nat
    BY <1>2, <1>3
  <2>2. CASE i = 1 /\ j # 1
    BY <2>2, <1>3, <1>4, <1>5
  <2>3. CASE i # 1 /\ j = 1
    BY <2>3, <1>3, <1>4, <1>5
  <2>4. CASE i # 1 /\ j # 1
    <3>1. q[i - 1] = q[j - 1] /\ i - 1 \in DOMAIN q /\ j - 1 \in DOMAIN q
      BY <2>4, <1>3, <1>5
    <3>2. i - 1 = j - 1
      BY <3>1, <1>1 DEF IsInjective
    <3> QED BY <3>2, <2>1
  <2> QED BY <2>2, <2>3, <2>4
<1>7. ASSUME NEW i \in DOMAIN r, NEW j \in DOMAIN r, i < j PROVE <<r[j], r[i]>> \notin before
  <2>1. i \in Nat /\ j \in Nat /\ j # 1
    BY <1>2, <1>3, <1>7
  <2>2. r[j] = q[j - 1] /\ j - 1 \in DOMAIN q /\ q[j - 1] \in S
    BY <2>1, <1>3, <1>4, <1>5
  <2>3. CASE i = 1
    BY <2>2, <2>3, <1>3
  <2>4. CASE i # 1
    <3>1. r[i] = q[i - 1] /\ i - 1 \in DOMAIN q
      BY <2>4, <1>3, <1>5
    <3>2. i - 1 < j - 1
      BY <2>1, <1>7
    <3> QED BY <2>2, <3>1, <3>2, <1>1
  <2> QED BY <2>3, <2>4
<1>8. Lined(r, S, before)
  BY <1>3, <1>6, <1>7 DEF Lined
<1> QED BY <1>8 DEF r

LEMMA InOrderLined ==
  ASSUME NEW S, IsFiniteSet(S), NEW before
  PROVE  Lined(InOrder(S, before), S, before)
<1> DEFINE F == CHOOSE F : LineOf(S, before, F)
           m == Cardinality(S)
<1>m. m \in Nat
  BY FS_CardinalityType
<1>1. LineOf(S, before, F)
  <2>1. PICK G : LineBy(S, before, G, m)
    BY <1>m, LineExists
  <2>2. {T \in SUBSET S : Cardinality(T) <= m} = SUBSET S
    BY FS_Subset
  <2>3. LineOf(S, before, G)
    BY <2>1, <2>2 DEF LineOf, LineBy, NoneBefore
  <2> QED BY <2>3
<1>2. InOrder(S, before) = F[S]
  BY DEF InOrder, LineOf
<1> HIDE DEF F
<1>3. ASSUME NEW T \in SUBSET S
      PROVE  F[T] = IF NoneBefore(T, before) = {} THEN <<>>
                    ELSE LET x == CHOOSE x \in NoneBefore(T, before) : TRUE
                         IN  <<x>> \o F[T \ {x}]
  BY <1>1 DEF LineOf, NoneBefore
<1> DEFINE A == {n \in Nat : \A T \in SUBSET S : Cardinality(T) = n => Lined(F[T], T, before)}
<1>4. ASSUME NEW T \in SUBSET S, NoneBefore(T, before) = {} PROVE Lined(F[T], T, before)
  <2>1. F[T] = <<>>
    BY <1>3, <1>4
  <2>2. <<>> \in Seq(T) /\ DOMAIN <<>> = {}
    OBVIOUS
  <2> QED BY <2>1, <2>2 DEF Lined, IsInjective
<1>5. 0 \in A
  <2>1. ASSUME NEW T \in SUBSET S, Cardinality(T) = 0 PROVE Lined(F[T], T, before)
    <3>1. T = {}
      BY <2>1, FS_Subset, FS_EmptySet
    <3>2. NoneBefore(T, before) = {}
      BY <3>1 DEF NoneBefore
    <3> QED BY <1>4, <3>2
  <2> QED BY <2>1
<1>6. ASSUME NEW n \in A PROVE n + 1 \in A
  <2>1. ASSUME NEW T \in SUBSET S, Cardinality(T) = n + 1, NoneBefore(T, before) # {}
        PROVE  Lined(F[T], T, before)
    <3> DEFINE x == CHOOSE x \in NoneBefore(T, before) : TRUE
    <3>1. F[T] = <<x>> \o F[T \ {x}]
      BY <1>3, <2>1
    <3>2. x \in T /\ \A y \in T : <<y, x>> \notin before
      BY <2>1 DEF NoneBefore
    <3> HIDE DEF x
    <3>3. T \ {x} \in SUBSET S /\ Cardinality(T \ {x}) = n
      BY <2>1, <3>2, OneLess
    <3>4. Lined(F[T \ {x}], T \ {x}, before)
      BY <3>3
    <3> QED BY <3>1, <3>2, <3>4, LinedOneMore
  <2> QED BY <2>1, <1>4
<1>7. A = Nat
  <2>1. A \subseteq Nat
    OBVIOUS
  <2> HIDE DEF A
  <2> QED BY <1>5, <1>6, <2>1, NaturalSets
<1>8. Lined(F[S], S, before)
  BY <1>7, <1>m
<1> QED BY <1>2, <1>8

LEMMA InSomeOrderLined ==
  ASSUME NEW S, IsFiniteSet(S)
  PROVE  InSomeOrder(S) \in Seq(S) /\ IsInjective(InSomeOrder(S))
BY InOrderLined DEF InSomeOrder, Lined

LEMMA FiniteImage ==
  ASSUME NEW S, IsFiniteSet(S), NEW f
  PROVE  IsFiniteSet({f[x] : x \in S})
<1> DEFINE g == [x \in S |-> {f[x]}]
<1>1. \A x \in S : IsFiniteSet(g[x])
  BY FS_Singleton
<1>2. UNION {g[x] : x \in S} = {f[x] : x \in S}
  OBVIOUS
<1> HIDE DEF g
<1>3. IsFiniteSet(UNION {g[x] : x \in S})
  BY <1>1, FiniteUnion
<1> QED BY <1>2, <1>3

(***************************************************************************)
(* The references and the tokens of a configuration                        *)
(***************************************************************************)
LEMMA ReferencesOfModel ==
  ASSUME NEW c, NEW r \in Model(c).refs
  PROVE  /\ \/ r.of = "group" /\ r.at \in DOMAIN c.grp /\ r.field = "static" /\ r.name \in c.grp[r.at]
            \/ r.of = "rule" /\ r.at \in DOMAIN c.rule /\ r.field \in Fields
                 /\ r.name \in c.rule[r.at][r.field]
         /\ r = [of |-> r.of, at |-> r.at, field |-> r.field, name |-> r.name]
<1>1. r \in References(c) /\ Written(c, r)
  BY DEF Model
<1>2. CASE \E k \in DOMAIN c.grp, n \in UNION Range(c.grp) :
             r = [of |-> "group", at |-> k, field |-> "static", name |-> n]
  BY <1>1, <1>2 DEF Written
<1>3. CASE \E k \in DOMAIN c.rule, f \in Fields, n \in NamesIn(c) :
             r = [of |-> "rule", at |-> k, field |-> f, name |-> n]
  BY <1>1, <1>3 DEF Written
<1> QED BY <1>1, <1>2, <1>3 DEF References

LEMMA FiniteReferences ==
  ASSUME NEW c, WellFormed(c)
  PROVE  IsFiniteSet(Model(c).refs)
<1> DEFINE G == [k \in DOMAIN c.grp |->
                   {[of |-> "group", at |-> k, field |-> "static", name |-> n] : n \in c.grp[k]}]
           RF(f) == [k \in DOMAIN c.rule |->
                      {[of |-> "rule", at |-> k, field |-> f, name |-> n] : n \in c.rule[k][f]}]
           R == [f \in Fields |-> UNION {RF(f)[k] : k \in DOMAIN c.rule}]
           all == (UNION {G[k] : k \in DOMAIN c.grp}) \cup (UNION {R[f] : f \in Fields})
<1>1. /\ IsFiniteSet(DOMAIN c.grp) /\ \A k \in DOMAIN c.grp : IsFiniteSet(c.grp[k])
      /\ IsFiniteSet(DOMAIN c.rule)
      /\ \A k \in DOMAIN c.rule : \A f \in Fields : IsFiniteSet(c.rule[k][f])
  BY Formed DEF Finite, GroupsFormed, RulesFormed, IsARule
<1>2. IsFiniteSet(UNION {G[k] : k \in DOMAIN c.grp})
  <2>1. ASSUME NEW k \in DOMAIN c.grp PROVE IsFiniteSet(G[k])
    <3> DEFINE S == c.grp[k]
               e == [n \in S |-> [of |-> "group", at |-> k, field |-> "static", name |-> n]]
    <3>1. IsFiniteSet(S)
      BY <1>1
    <3>2. G[k] = {e[n] : n \in S}
      OBVIOUS
    <3> HIDE DEF S, e, G
    <3> QED BY <3>1, <3>2, FiniteImage
  <2> HIDE DEF G
  <2> QED BY <1>1, <2>1, FiniteUnion
<1>3. ASSUME NEW f \in Fields PROVE IsFiniteSet(R[f])
  <2> DEFINE g == RF(f)
  <2>1. ASSUME NEW k \in DOMAIN c.rule PROVE IsFiniteSet(g[k])
    <3> DEFINE S == c.rule[k][f]
               e == [n \in S |-> [of |-> "rule", at |-> k, field |-> f, name |-> n]]
    <3>1. IsFiniteSet(S)
      BY <1>1
    <3>2. g[k] = {e[n] : n \in S}
      OBVIOUS
    <3> HIDE DEF S, e, g
    <3> QED BY <3>1, <3>2, FiniteImage
  <2>2. R[f] = UNION {g[k] : k \in DOMAIN c.rule}
    OBVIOUS
  <2> DEFINE K == DOMAIN c.rule
  <2>3. IsFiniteSet(K) /\ \A k \in K : IsFiniteSet(g[k])
    BY <1>1, <2>1
  <2> HIDE DEF g, R, K
  <2>4. IsFiniteSet(UNION {g[k] : k \in K})
    BY ONLY <2>3, FiniteUnion
  <2> QED BY <2>2, <2>4 DEF K
<1>4. IsFiniteSet(UNION {R[f] : f \in Fields})
  <2>1. IsFiniteSet(Fields)
    <3>1. Fields = ({} \cup {"source"}) \cup {"destination"}
      BY DEF Fields
    <3> QED BY <3>1, FS_EmptySet, FS_AddElement
  <2> HIDE DEF R
  <2> QED BY <1>3, <2>1, FiniteUnion
<1>5. IsFiniteSet(all)
  <2> DEFINE U == UNION {G[k] : k \in DOMAIN c.grp}
             V == UNION {R[f] : f \in Fields}
  <2>1. IsFiniteSet(U) /\ IsFiniteSet(V) /\ all = U \cup V
    BY <1>2, <1>4
  <2> HIDE DEF U, V, all
  <2> QED BY <2>1, FS_Union
<1>6. ASSUME NEW r \in Model(c).refs PROVE r \in all
  <2>1. /\ \/ r.of = "group" /\ r.at \in DOMAIN c.grp /\ r.field = "static" /\ r.name \in c.grp[r.at]
           \/ r.of = "rule" /\ r.at \in DOMAIN c.rule /\ r.field \in Fields
                /\ r.name \in c.rule[r.at][r.field]
        /\ r = [of |-> r.of, at |-> r.at, field |-> r.field, name |-> r.name]
    BY ReferencesOfModel
  <2>2. CASE r.of = "group"
    <3>1. r \in G[r.at] /\ r.at \in DOMAIN c.grp
      BY <2>1, <2>2
    <3> QED BY <3>1
  <2>3. CASE r.of = "rule"
    <3>1. r \in RF(r.field)[r.at] /\ r.at \in DOMAIN c.rule /\ r.field \in Fields
      BY <2>1, <2>3
    <3>2. r \in R[r.field]
      BY <3>1
    <3> QED BY <3>1, <3>2
  <2> QED BY <2>1, <2>2, <2>3
<1> HIDE DEF all
<1> QED BY <1>5, <1>6, FS_Subset

LEMMA FiniteTokens ==
  ASSUME NEW m, WellFormed(m.c), NEW ask, IsFiniteSet(ask.ips)
  PROVE  IsFiniteSet(AskedTokens(m, ask))
<1> DEFINE c == m.c
           A == {Token("literal", <<"ip", h>>, <<h>>) : h \in ask.ips}
           I == [h \in ask.ips |-> {Token("address", <<"ip", h>>, k) : k \in ExactObjects(c, h)}]
           B == UNION {I[h] : h \in ask.ips}
           O == {k \in DOMAIN c.addr : k[2] \in ask.objects}
           C == {Token("address", <<"object", k[2]>>, k) : k \in O}
           E == {Token("group", <<"group", k[2]>>, <<k[2]>>) : k \in DOMAIN c.grp}
           F == {Token("policy", <<"policy", k[3]>>, <<k[3]>>) : k \in DOMAIN c.rule}
<1>1. IsFiniteSet(DOMAIN c.addr) /\ IsFiniteSet(DOMAIN c.grp) /\ IsFiniteSet(DOMAIN c.rule)
  BY Formed DEF Finite
<1>2. IsFiniteSet(A)
  <2> DEFINE e == [h \in ask.ips |-> Token("literal", <<"ip", h>>, <<h>>)]
  <2>1. A = {e[h] : h \in ask.ips}
    OBVIOUS
  <2> HIDE DEF e, A
  <2> QED BY <2>1, FiniteImage
<1>3. IsFiniteSet(B)
  <2>1. ASSUME NEW h \in ask.ips PROVE IsFiniteSet(I[h])
    <3> DEFINE S == ExactObjects(c, h)
               e == [k \in S |-> Token("address", <<"ip", h>>, k)]
    <3>1. IsFiniteSet(S)
      BY <1>1, FS_Subset DEF ExactObjects
    <3>2. I[h] = {e[k] : k \in S}
      OBVIOUS
    <3> HIDE DEF S, e, I
    <3> QED BY <3>1, <3>2, FiniteImage
  <2> HIDE DEF I
  <2> QED BY <2>1, FiniteUnion
<1>4. IsFiniteSet(C)
  <2> DEFINE e == [k \in O |-> Token("address", <<"object", k[2]>>, k)]
  <2>1. C = {e[k] : k \in O}
    OBVIOUS
  <2>2. IsFiniteSet(O)
    BY <1>1, FS_Subset
  <2> HIDE DEF e, C, O
  <2> QED BY <2>1, <2>2, FiniteImage
<1>5. IsFiniteSet(E)
  <2> DEFINE e == [k \in DOMAIN c.grp |-> Token("group", <<"group", k[2]>>, <<k[2]>>)]
  <2>1. E = {e[k] : k \in DOMAIN c.grp}
    OBVIOUS
  <2> HIDE DEF e, E
  <2> QED BY <1>1, <2>1, FiniteImage
<1>6. IsFiniteSet(F)
  <2> DEFINE e == [k \in DOMAIN c.rule |-> Token("policy", <<"policy", k[3]>>, <<k[3]>>)]
  <2>1. F = {e[k] : k \in DOMAIN c.rule}
    OBVIOUS
  <2> HIDE DEF e, F
  <2> QED BY <1>1, <2>1, FiniteImage
<1>7. AskedTokens(m, ask) \subseteq (((A \cup B) \cup C) \cup E) \cup F
  <2>1. B = UNION {{Token("address", <<"ip", h>>, k) : k \in ExactObjects(c, h)} : h \in ask.ips}
    OBVIOUS
  <2>2. {Token("group", <<"group", n>>, <<n>>) :
           n \in ({k[2] : k \in DOMAIN c.grp} \ {k[2] : k \in DOMAIN c.dyn}) \cap ask.groups}
         \subseteq E
    OBVIOUS
  <2>3. {Token("policy", <<"policy", n>>, <<n>>) :
           n \in {k[3] : k \in DOMAIN c.rule} \cap ask.policies} \subseteq F
    OBVIOUS
  <2> HIDE DEF B, E, F
  <2> QED BY <2>1, <2>2, <2>3 DEF AskedTokens
<1> HIDE DEF A, B, C, E, F
<1>8. IsFiniteSet((((A \cup B) \cup C) \cup E) \cup F)
  BY <1>2, <1>3, <1>4, <1>5, <1>6, FS_Union
<1> QED BY <1>7, <1>8, FS_Subset

(* Two tokens of an address for the same kind of target are one.           *)
LEMMA AddressTokens ==
  ASSUME NEW m, NEW ask, NEW t \in AskedTokens(m, ask), t.kind = "address"
  PROVE  /\ t.key \in DOMAIN m.c.addr
         /\ \A u \in AskedTokens(m, ask) :
              u.kind = "address" /\ u.key = t.key /\ u.cause[1] = t.cause[1] => u = t
<1> DEFINE IsIp(v, h) == v = Token("address", <<"ip", h>>, v.key) /\ v.key \in ExactObjects(m.c, h)
           IsObject(v) == v = Token("address", <<"object", v.key[2]>>, v.key) /\ v.key \in DOMAIN m.c.addr
<1>1. ASSUME NEW v \in AskedTokens(m, ask), v.kind = "address"
      PROVE  (\E h : IsIp(v, h)) \/ IsObject(v)
  BY <1>1 DEF AskedTokens, Token
<1>2. ASSUME NEW u \in AskedTokens(m, ask),
             u.kind = "address", u.key = t.key, u.cause[1] = t.cause[1]
      PROVE  u = t
  <2>1. CASE IsObject(u)
    <3>1. u.cause[1] = "object"
      BY <2>1 DEF Token
    <3>2. IsObject(t)
      <4>1. ASSUME NEW h, IsIp(t, h) PROVE t.cause[1] = "ip"
        <5>1. t.cause = <<"ip", h>>
          BY <4>1 DEF Token
        <5> QED BY <5>1
      <4> QED BY <1>1, <1>2, <3>1, <4>1
    <3> QED BY <2>1, <3>2, <1>2
  <2>2. ASSUME NEW h, IsIp(u, h) PROVE u = t
    <3>1. u.cause = <<"ip", h>>
      BY <2>2 DEF Token
    <3>2. PICK g : IsIp(t, g)
      BY <1>1, <1>2, <3>1 DEF Token
    <3>3. g = h
      BY <2>2, <3>2, <1>2 DEF ExactObjects
    <3> QED BY <2>2, <3>2, <3>3, <1>2
  <2> QED BY <1>1, <1>2, <2>1, <2>2
<1>3. t.key \in DOMAIN m.c.addr
  BY <1>1 DEF ExactObjects
<1> QED BY <1>2, <1>3

(***************************************************************************)
(* What a plan takes                                                       *)
(***************************************************************************)
LEMMA LiveOnce ==
  ASSUME NEW p, NEW ask, p.tokens \in SUBSET AskedTokens(p.m, ask),
         NEW t \in Live(p), NEW u \in Live(p),
         t.kind = "address", u.kind = "address", t.key = u.key
  PROVE  t = u
<1>1. t \in p.tokens /\ u \in p.tokens
  BY DEF Live
<1>2. CASE t.cause[1] # p.prefer
  BY <1>1, <1>2 DEF Live
<1>3. CASE u.cause[1] # p.prefer
  BY <1>1, <1>3 DEF Live
<1>4. CASE t.cause[1] = u.cause[1]
  BY <1>1, <1>4, AddressTokens
<1> QED BY <1>2, <1>3, <1>4

(* One more round over the groups.                                         *)
GonePass(p, gone) ==
  LET groups  == DOMAIN p.m.c.grp
      Hits(g) == [n \in p.m.c.grp[g] |-> Hit(p, gone, g[1], n)]
      more == {g \in groups \ DOMAIN gone :
                 p.m.c.grp[g] # {} /\ \A n \in p.m.c.grp[g] : Hits(g)[n] # {}}
  IN  [g \in DOMAIN gone \cup more |-> IF g \in more THEN UNION Range(Hits(g)) ELSE gone[g]]

GoneBy(p, F, n) ==
  F = [i \in 0 .. n |-> IF i = 0 THEN ForcedGroups(p) ELSE GonePass(p, F[i - 1])]

LEMMA GoneExists ==
  ASSUME NEW p, NEW m \in Nat
  PROVE  \E F : GoneBy(p, F, m)
<1> DEFINE A == {n \in Nat : \E F : GoneBy(p, F, n)}
<1>1. 0 \in A
  <2> DEFINE F0 == [i \in 0 .. 0 |-> ForcedGroups(p)]
  <2>1. GoneBy(p, F0, 0)
    BY DEF GoneBy
  <2> QED BY <2>1
<1>2. ASSUME NEW n \in A PROVE n + 1 \in A
  <2>1. n \in Nat /\ \E F : GoneBy(p, F, n)
    OBVIOUS
  <2>2. PICK F : GoneBy(p, F, n)
    BY <2>1
  <2> DEFINE H == [i \in 0 .. n + 1 |-> IF i = n + 1 THEN GonePass(p, F[n]) ELSE F[i]]
  <2>3. \A i \in 0 .. n + 1 :
          H[i] = IF i = 0 THEN ForcedGroups(p) ELSE GonePass(p, H[i - 1])
    <3> TAKE i \in 0 .. n + 1
    <3>1. CASE i = n + 1
      <4>1. i # 0 /\ i - 1 = n /\ H[n + 1] = GonePass(p, F[n]) /\ H[n] = F[n]
        BY <2>1, <3>1
      <4> HIDE DEF H
      <4> QED BY <3>1, <4>1
    <3>2. CASE i \in 0 .. n
      <4>1. H[i] = F[i] /\ (i # 0 => H[i - 1] = F[i - 1])
        BY <2>1, <3>2
      <4>2. F[i] = IF i = 0 THEN ForcedGroups(p) ELSE GonePass(p, F[i - 1])
        <5> HIDE DEF H, A
        <5> QED BY <2>2, <3>2 DEF GoneBy
      <4> HIDE DEF H
      <4> QED BY <4>1, <4>2
    <3> QED BY <2>1, <3>1, <3>2
  <2>4. GoneBy(p, H, n + 1)
    <3>1. H = [i \in 0 .. n + 1 |-> H[i]]
      OBVIOUS
    <3> HIDE DEF H
    <3> QED BY <2>3, <3>1 DEF GoneBy
  <2> HIDE DEF H
  <2> QED BY <2>1, <2>4
<1>3. A = Nat
  <2>1. A \subseteq Nat
    OBVIOUS
  <2> HIDE DEF A
  <2> QED BY <1>1, <1>2, <2>1, NaturalSets
<1>4. m \in A
  BY <1>3
<1> QED BY <1>4

LEMMA GoneInside ==
  ASSUME NEW p, IsFiniteSet(DOMAIN p.m.c.grp)
  PROVE  DOMAIN GoneGroups(p) \subseteq DOMAIN p.m.c.grp
<1> DEFINE m == Cardinality(DOMAIN p.m.c.grp)
           F == CHOOSE F : GoneBy(p, F, m)
<1>m. m \in Nat
  BY FS_CardinalityType
<1>1. GoneBy(p, F, m)
  BY <1>m, GoneExists
<1>2. GoneGroups(p) = F[m]
  BY DEF GoneGroups, GoneBy, GonePass
<1> HIDE DEF F
<1>3. /\ F[0] = ForcedGroups(p)
      /\ \A i \in 1 .. m : F[i] = GonePass(p, F[i - 1])
  <2>1. \A i \in 0 .. m : F[i] = IF i = 0 THEN ForcedGroups(p) ELSE GonePass(p, F[i - 1])
    BY <1>1 DEF GoneBy
  <2> QED BY <1>m, <2>1
<1> DEFINE A == {n \in Nat : n <= m => DOMAIN F[n] \subseteq DOMAIN p.m.c.grp}
<1>4. 0 \in A
  BY <1>3 DEF ForcedGroups
<1>5. ASSUME NEW n \in A PROVE n + 1 \in A
  <2>1. ASSUME n + 1 <= m PROVE DOMAIN F[n + 1] \subseteq DOMAIN p.m.c.grp
    <3>1. F[n + 1] = GonePass(p, F[n]) /\ DOMAIN F[n] \subseteq DOMAIN p.m.c.grp
      BY <1>m, <1>3, <2>1
    <3> QED BY <3>1 DEF GonePass
  <2> QED BY <2>1
<1>6. A = Nat
  <2>1. A \subseteq Nat
    OBVIOUS
  <2> HIDE DEF A
  <2> QED BY <1>4, <1>5, <2>1, NaturalSets
<1>7. m \in A
  BY <1>m, <1>6
<1> QED BY <1>2, <1>7

(* One more round over the causes.                                         *)
SpreadPass(p, q, prev) ==
  [g \in DOMAIN q.gone |-> prev[g] \cup UNION
     {HitsAnywhere(p, q, prev, r) : r \in {r \in p.m.refs : r.at = g}}]

SpreadBy(p, q, F, n) ==
  F = [i \in 0 .. n |-> IF i = 0 THEN q.gone ELSE SpreadPass(p, q, F[i - 1])]

LEMMA SpreadExists ==
  ASSUME NEW p, NEW q, NEW m \in Nat
  PROVE  \E F : SpreadBy(p, q, F, m)
<1> DEFINE A == {n \in Nat : \E F : SpreadBy(p, q, F, n)}
<1>1. 0 \in A
  <2> DEFINE F0 == [i \in 0 .. 0 |-> q.gone]
  <2>1. SpreadBy(p, q, F0, 0)
    BY DEF SpreadBy
  <2> QED BY <2>1
<1>2. ASSUME NEW n \in A PROVE n + 1 \in A
  <2>1. n \in Nat /\ \E F : SpreadBy(p, q, F, n)
    OBVIOUS
  <2>2. PICK F : SpreadBy(p, q, F, n)
    BY <2>1
  <2> DEFINE H == [i \in 0 .. n + 1 |-> IF i = n + 1 THEN SpreadPass(p, q, F[n]) ELSE F[i]]
  <2>3. \A i \in 0 .. n + 1 :
          H[i] = IF i = 0 THEN q.gone ELSE SpreadPass(p, q, H[i - 1])
    <3> TAKE i \in 0 .. n + 1
    <3>1. CASE i = n + 1
      <4>1. i # 0 /\ i - 1 = n /\ H[n + 1] = SpreadPass(p, q, F[n]) /\ H[n] = F[n]
        BY <2>1, <3>1
      <4> HIDE DEF H
      <4> QED BY <3>1, <4>1
    <3>2. CASE i \in 0 .. n
      <4>1. H[i] = F[i] /\ (i # 0 => H[i - 1] = F[i - 1])
        BY <2>1, <3>2
      <4>2. F[i] = IF i = 0 THEN q.gone ELSE SpreadPass(p, q, F[i - 1])
        <5> HIDE DEF H, A
        <5> QED BY <2>2, <3>2 DEF SpreadBy
      <4> HIDE DEF H
      <4> QED BY <4>1, <4>2
    <3> QED BY <2>1, <3>1, <3>2
  <2>4. SpreadBy(p, q, H, n + 1)
    <3>1. H = [i \in 0 .. n + 1 |-> H[i]]
      OBVIOUS
    <3> HIDE DEF H
    <3> QED BY <2>3, <3>1 DEF SpreadBy
  <2> HIDE DEF H
  <2> QED BY <2>1, <2>4
<1>3. A = Nat
  <2>1. A \subseteq Nat
    OBVIOUS
  <2> HIDE DEF A
  <2> QED BY <1>1, <1>2, <2>1, NaturalSets
<1>4. m \in A
  BY <1>3
<1> QED BY <1>4

LEMMA SpreadInside ==
  ASSUME NEW p, NEW q, IsFiniteSet(DOMAIN q.gone)
  PROVE  DOMAIN Spread(p, q) = DOMAIN q.gone
<1> DEFINE m == Cardinality(DOMAIN q.gone)
           F == CHOOSE F : SpreadBy(p, q, F, m)
<1>m. m \in Nat
  BY FS_CardinalityType
<1>1. SpreadBy(p, q, F, m)
  BY <1>m, SpreadExists
<1>2. Spread(p, q) = F[m]
  BY DEF Spread, SpreadBy, SpreadPass
<1> HIDE DEF F
<1>3. F[m] = IF m = 0 THEN q.gone ELSE SpreadPass(p, q, F[m - 1])
  BY <1>m, <1>1 DEF SpreadBy
<1> QED BY <1>2, <1>3 DEF SpreadPass

(***************************************************************************)
(* Planning again without what is blocked                                  *)
(***************************************************************************)
EndOf(m, ask, spare, tokens) ==
  LET p == Problem(m, ask, tokens, spare) IN Judged(p, Going(p))

Unblocked(m, ask, spare, tokens) ==
  {t \in tokens : t.cause \notin EndOf(m, ask, spare, tokens).blocked}

IsSettled(m, ask, spare, tokens) ==
  EndOf(m, ask, spare, tokens).blocked \cap CausesOf(tokens) = {}

SettleBy(m, ask, S, spare, F, n) ==
  F = [tokens \in {T \in SUBSET S : Cardinality(T) <= n} |->
         IF IsSettled(m, ask, spare, tokens) THEN EndOf(m, ask, spare, tokens)
         ELSE F[Unblocked(m, ask, spare, tokens)]]

LEMMA FewerTokens ==
  ASSUME NEW m, NEW ask, NEW spare, NEW S, IsFiniteSet(S), NEW tokens \in SUBSET S,
         ~IsSettled(m, ask, spare, tokens)
  PROVE  LET rest == Unblocked(m, ask, spare, tokens)
         IN  /\ rest \in SUBSET S /\ Cardinality(tokens) \in Nat /\ Cardinality(rest) \in Nat
             /\ Cardinality(rest) < Cardinality(tokens)
<1> DEFINE rest == Unblocked(m, ask, spare, tokens)
<1>1. rest \in SUBSET tokens /\ rest # tokens
  BY DEF Unblocked, IsSettled, CausesOf
<1> HIDE DEF rest
<1>2. /\ rest \in SUBSET S /\ Cardinality(tokens) \in Nat /\ Cardinality(rest) \in Nat
      /\ Cardinality(rest) < Cardinality(tokens)
  BY <1>1, FewOfFew
<1> QED BY <1>2 DEF rest

LEMMA SettleExists ==
  ASSUME NEW m, NEW ask, NEW spare, NEW S, IsFiniteSet(S), NEW max \in Nat
  PROVE  \E F : SettleBy(m, ask, S, spare, F, max)
<1> DEFINE A == {n \in Nat : \E F : SettleBy(m, ask, S, spare, F, n)}
           D(n) == {T \in SUBSET S : Cardinality(T) <= n}
           Step(F, T) == IF IsSettled(m, ask, spare, T) THEN EndOf(m, ask, spare, T)
                         ELSE F[Unblocked(m, ask, spare, T)]
<1>1. 0 \in A
  <2> DEFINE F0 == [T \in D(0) |-> EndOf(m, ask, spare, T)]
  <2>1. ASSUME NEW T \in D(0) PROVE IsSettled(m, ask, spare, T)
    BY <2>1, FewerTokens
  <2>2. SettleBy(m, ask, S, spare, F0, 0)
    BY <2>1 DEF SettleBy
  <2> QED BY <2>2
<1>2. ASSUME NEW n \in A PROVE n + 1 \in A
  <2>1. n \in Nat /\ \E F : SettleBy(m, ask, S, spare, F, n)
    OBVIOUS
  <2>2. PICK F : SettleBy(m, ask, S, spare, F, n)
    BY <2>1
  <2> DEFINE H == [T \in D(n + 1) |-> Step(F, T)]
  <2>3. ASSUME NEW T \in D(n) PROVE T \in D(n + 1) /\ H[T] = F[T]
    <3>1. T \in D(n + 1)
      <4>1. Cardinality(T) \in Nat
        BY FS_Subset, FS_CardinalityType
      <4> QED BY <2>1, <4>1
    <3>2. F[T] = Step(F, T)
      <4> HIDE DEF A, H
      <4> QED BY <2>2 DEF SettleBy
    <3> QED BY <3>1, <3>2
  <2>4. ASSUME NEW T \in D(n + 1) PROVE H[T] = Step(H, T)
    <3>1. H[T] = Step(F, T)
      OBVIOUS
    <3>2. CASE IsSettled(m, ask, spare, T)
      BY <3>1, <3>2
    <3>3. CASE ~IsSettled(m, ask, spare, T)
      <4> DEFINE rest == Unblocked(m, ask, spare, T)
      <4>1. rest \in D(n)
        <5>1. /\ rest \in SUBSET S /\ Cardinality(T) \in Nat /\ Cardinality(rest) \in Nat
              /\ Cardinality(rest) < Cardinality(T)
          BY <3>3, FewerTokens
        <5> HIDE DEF rest
        <5> QED BY <5>1, <2>1
      <4>2. H[rest] = F[rest]
        <5> HIDE DEF rest, H, D
        <5> QED BY <2>3, <4>1
      <4> HIDE DEF H
      <4> QED BY <3>1, <3>3, <4>2
    <3> QED BY <3>2, <3>3
  <2>5. SettleBy(m, ask, S, spare, H, n + 1)
    <3>1. H = [T \in D(n + 1) |-> H[T]]
      OBVIOUS
    <3> HIDE DEF H
    <3> QED BY <2>4, <3>1 DEF SettleBy
  <2> HIDE DEF H
  <2> QED BY <2>1, <2>5
<1>3. A = Nat
  <2>1. A \subseteq Nat
    OBVIOUS
  <2> HIDE DEF A
  <2> QED BY <1>1, <1>2, <2>1, NaturalSets
<1>4. max \in A
  BY <1>3
<1> QED BY <1>4

SettleOf(m, ask, S, spare, F) ==
  F = [tokens \in SUBSET S |->
         LET end == LET p == Problem(m, ask, tokens, spare) IN Judged(p, Going(p))
         IN  IF end.blocked \cap CausesOf(tokens) = {} THEN end
             ELSE F[{t \in tokens : t.cause \notin end.blocked}]]

(* Planning comes to an end, with some of the tokens that were asked for.  *)
LEMMA SettledWithSome ==
  ASSUME NEW m, NEW ask, NEW S, IsFiniteSet(S), NEW spare
  PROVE  \E tokens \in SUBSET S : Settled(m, ask, S, spare) = EndOf(m, ask, spare, tokens)
<1> DEFINE F == CHOOSE F : SettleOf(m, ask, S, spare, F)
           max == Cardinality(S)
<1>m. max \in Nat
  BY FS_CardinalityType
<1>1. SettleOf(m, ask, S, spare, F)
  <2>1. PICK G : SettleBy(m, ask, S, spare, G, max)
    BY <1>m, SettleExists
  <2>2. {T \in SUBSET S : Cardinality(T) <= max} = SUBSET S
    BY FS_Subset
  <2>3. SettleOf(m, ask, S, spare, G)
    BY <2>1, <2>2 DEF SettleOf, SettleBy, IsSettled, EndOf, Unblocked
  <2> QED BY <2>3
<1>2. Settled(m, ask, S, spare) = F[S]
  BY DEF Settled, SettleOf
<1> HIDE DEF F
<1>3. ASSUME NEW T \in SUBSET S
      PROVE  F[T] = IF IsSettled(m, ask, spare, T) THEN EndOf(m, ask, spare, T)
                    ELSE F[Unblocked(m, ask, spare, T)]
  BY <1>1 DEF SettleOf, IsSettled, EndOf, Unblocked
<1> DEFINE EndsIn(T) == \E U \in SUBSET S : F[T] = EndOf(m, ask, spare, U)
           A == {n \in Nat : \A T \in SUBSET S : Cardinality(T) <= n => EndsIn(T)}
<1>4. 0 \in A
  <2>1. ASSUME NEW T \in SUBSET S, Cardinality(T) <= 0 PROVE EndsIn(T)
    <3>1. IsSettled(m, ask, spare, T)
      BY <2>1, FewerTokens
    <3> QED BY <1>3, <3>1
  <2> HIDE DEF EndsIn
  <2> QED BY <2>1
<1>5. ASSUME NEW n \in A PROVE n + 1 \in A
  <2>1. ASSUME NEW T \in SUBSET S, Cardinality(T) <= n + 1 PROVE EndsIn(T)
    <3>1. CASE IsSettled(m, ask, spare, T)
      BY <1>3, <3>1
    <3>2. CASE ~IsSettled(m, ask, spare, T)
      <4> DEFINE rest == Unblocked(m, ask, spare, T)
      <4>1. F[T] = F[rest]
        BY <1>3, <3>2
      <4>2. /\ rest \in SUBSET S /\ Cardinality(T) \in Nat /\ Cardinality(rest) \in Nat
            /\ Cardinality(rest) < Cardinality(T)
        BY <3>2, FewerTokens
      <4> HIDE DEF rest
      <4>3. Cardinality(rest) <= n
        BY <2>1, <4>2
      <4> QED BY <4>1, <4>2, <4>3
    <3> QED BY <3>1, <3>2
  <2> HIDE DEF EndsIn
  <2> QED BY <2>1
<1>6. A = Nat
  <2>1. A \subseteq Nat
    OBVIOUS
  <2> HIDE DEF A
  <2> QED BY <1>4, <1>5, <2>1, NaturalSets
<1>7. EndsIn(S)
  <2> HIDE DEF EndsIn
  <2>1. max \in A
    BY <1>m, <1>6
  <2> QED BY <2>1, <1>m
<1> QED BY <1>2, <1>7

(***************************************************************************)
(* What a plan takes is there                                              *)
(***************************************************************************)
PlanIsOf(m, plan) ==
  /\ DOMAIN plan.refs \subseteq m.refs
  /\ DOMAIN plan.groups \subseteq DOMAIN m.c.grp
  /\ DOMAIN plan.rules \subseteq DOMAIN m.c.rule
  /\ IsFiniteSet(plan.addresses)
  /\ \A t \in plan.addresses : t.key \in DOMAIN m.c.addr
  /\ \A t, u \in plan.addresses : t.key = u.key => t = u

LEMMA PlanAtEnd ==
  ASSUME NEW c, WellFormed(c), NEW m, m = Model(c), NEW ask, IsFiniteSet(ask.ips), NEW spare,
         NEW tokens \in SUBSET AskedTokens(m, ask)
  PROVE  PlanIsOf(m, PlanAt(EndOf(m, ask, spare, tokens)))
<1> DEFINE p == Problem(m, ask, tokens, spare)
           q == Going(p)
           end == EndOf(m, ask, spare, tokens)
<1>m. m.c = c
  BY DEF Model
<1>1. /\ p.m = m /\ p.tokens = tokens /\ p.live \subseteq tokens /\ p.prefer = ask.prefer
      /\ \A t, u \in p.live : t.kind = "address" /\ u.kind = "address" /\ t.key = u.key => t = u
  <2> DEFINE r == [m |-> m, tokens |-> tokens, nat |-> ask.nat, prefer |-> ask.prefer,
                   spare |-> spare, live |-> {}]
  <2>1. p = [r EXCEPT !.live = Live(r)]
    BY DEF Problem
  <2>2. /\ r.m = m /\ r.tokens = tokens /\ Live(r) \subseteq tokens
    BY DEF Live
  <2>3. p.m = m /\ p.tokens = tokens /\ p.live = Live(r) /\ p.prefer = ask.prefer
    BY <2>1
  <2>4. \A t, u \in Live(r) : t.kind = "address" /\ u.kind = "address" /\ t.key = u.key => t = u
    <3> HIDE DEF r
    <3> QED BY <2>2, LiveOnce
  <2> HIDE DEF r, p
  <2> QED BY <2>2, <2>3, <2>4
<1> HIDE DEF p
<1>2. end.p = p /\ end.q = q
  BY DEF EndOf, Judged, p
<1>3. Finite(m.c.grp) /\ Finite(m.c.addr) /\ Finite(m.c.rule)
  BY <1>m, Formed
<1>4. q.gone = GoneGroups(p) /\ q.refs \subseteq m.refs /\ q.rules \subseteq DOMAIN m.c.rule
  <2> DEFINE q0 == Marked(p, [gone |-> GoneGroups(p), leaves |-> EffectiveCauses(p)])
             taken == Translations(p, q0) \ Trimmed(p, q0)
             byNat == {o.at : o \in taken}
  <2>1. q = Outcome(p, q0)
    BY DEF Going
  <2>2. q0.gone = GoneGroups(p)
    BY DEF Marked
  <2>3. byNat \subseteq DOMAIN m.c.rule
    <3>1. \A o \in m.occurrences : o.at \in DOMAIN c.rule
      BY DEF Model, Occurrences
    <3> QED BY <1>1, <1>m, <3>1 DEF Translations
  <2>4. RulesGoing(p, q0, byNat).rules \subseteq DOMAIN m.c.rule
    BY <1>1, <2>3 DEF RulesGoing, ForcedRules
  <2> HIDE DEF q0
  <2> QED BY <1>1, <2>1, <2>2, <2>4 DEF Outcome
<1>5. DOMAIN Spread(p, q) \subseteq DOMAIN m.c.grp
  <2>1. DOMAIN q.gone \subseteq DOMAIN m.c.grp /\ IsFiniteSet(DOMAIN q.gone)
    BY <1>1, <1>3, <1>4, GoneInside, FS_Subset DEF Finite
  <2> HIDE DEF q
  <2> QED BY <2>1, SpreadInside
<1>6. PlanAt(end) = PlanOf(p, q, Spread(p, q), ForcedRules(p))
  BY <1>2 DEF PlanAt
<1> DEFINE plan == PlanAt(end)
           live == {t \in p.live : t.kind = "address"}
<1>7. /\ DOMAIN plan.refs = q.refs /\ plan.groups = Spread(p, q) /\ DOMAIN plan.rules = q.rules
      /\ plan.addresses = live
  BY <1>6 DEF PlanOf
<1>8. IsFiniteSet(live)
  <2>1. live \in SUBSET AskedTokens(m, ask)
    BY <1>1
  <2> HIDE DEF live
  <2> QED BY <1>m, <2>1, FiniteTokens, FS_Subset
<1>9. \A t \in live : t.key \in DOMAIN m.c.addr
  BY <1>1, AddressTokens
<1> HIDE DEF plan, end
<1> QED BY <1>1, <1>4, <1>5, <1>7, <1>8, <1>9 DEF PlanIsOf, plan, end

(* The plan that is made in the end, whichever targets are left out of it. *)
LEMMA PlanOfSome ==
  ASSUME NEW c, WellFormed(c), NEW m, m = Model(c), NEW ask, IsFiniteSet(ask.ips),
         NEW asked \in SUBSET AskedTokens(m, ask), NEW spare
  PROVE  PlanIsOf(m, Plan(m, ask, asked, spare))
<1>1. IsFiniteSet(asked)
  <2>1. m.c = c
    BY DEF Model
  <2> QED BY <2>1, FiniteTokens, FS_Subset
<1>2. PICK tokens \in SUBSET asked : Settled(m, ask, asked, spare) = EndOf(m, ask, spare, tokens)
  BY <1>1, SettledWithSome
<1>3. tokens \in SUBSET AskedTokens(m, ask)
  OBVIOUS
<1> QED BY <1>2, <1>3, PlanAtEnd DEF Plan

LEMMA SafePlanIs ==
  ASSUME NEW c, WellFormed(c), NEW m, m = Model(c), NEW ask, IsFiniteSet(ask.ips)
  PROVE  PlanIsOf(m, SafePlan(m, ask))
<1> DEFINE asked == AskedTokens(m, ask)
<1>1. \A T \in SUBSET asked : \A spare : PlanIsOf(m, Plan(m, ask, T, spare))
  BY PlanOfSome
<1>2. \A T : asked \ T \in SUBSET asked
  OBVIOUS
<1> HIDE DEF asked
<1>3. ASSUME NEW first, PlanIsOf(m, first), NEW readOnly, NEW default
      PROVE  PlanIsOf(m, Sparing(m, ask, asked, first, readOnly, default))
  BY <1>1, <1>2, <1>3 DEF Sparing
<1>4. PlanIsOf(m, Plan(m, ask, asked, {}))
  BY <1>1
<1> QED BY <1>3, <1>4 DEF SafePlan, SafeAmong, SafeOf, asked

(***************************************************************************)
(* The patch of a cleanup                                                  *)
(***************************************************************************)
FitEntry(c, x) ==
  /\ DOMAIN x = DOMAIN Mutation(x.type, x.at, {})
  /\ x.type \in Types
  /\ x.type = "policy-member" => x.field \in Fields
  /\ HoldsAsIn(c, c, x)
  /\ x.type = "policy" =>
       x.among = RuleNames(c, x.at) /\ InPlace(c, x, {}) /\ x.before = x.next

FitPair(x, y) == Distinct(x, y) /\ (InOneRulebase(x, y) => x.at[3] # y.before)

FitPatch(c, q) ==
  /\ q \in Seq(Range(q))
  /\ \A x \in Range(q) : FitEntry(c, x)
  /\ \A i, j \in DOMAIN q : i < j => FitPair(q[i], q[j])

LEMMA OfItsRange ==
  ASSUME NEW S, NEW q \in Seq(S)
  PROVE  q \in Seq(Range(q)) /\ Range(q) \subseteq S
<1>1. q = [i \in 1 .. Len(q) |-> q[i]] /\ Len(q) \in Nat /\ DOMAIN q = 1 .. Len(q)
  OBVIOUS
<1>2. \A i \in 1 .. Len(q) : q[i] \in Range(q)
  BY <1>1 DEF Range
<1>3. [i \in 1 .. Len(q) |-> q[i]] \in Seq(Range(q))
  BY <1>1, <1>2
<1> QED BY <1>1, <1>3 DEF Range

(* One part after another.                                                 *)
LEMMA JoinedFits ==
  ASSUME NEW c, NEW q, FitPatch(c, q), NEW r, FitPatch(c, r),
         \A x \in Range(q), y \in Range(r) : FitPair(x, y)
  PROVE  FitPatch(c, q \o r) /\ Range(q \o r) = Range(q) \cup Range(r)
<1> DEFINE S == Range(q) \cup Range(r)
           t == q \o r
           m == Len(q)
           n == Len(r)
<1>1. q \in Seq(S) /\ r \in Seq(S) /\ m \in Nat /\ n \in Nat
      /\ DOMAIN q = 1 .. m /\ DOMAIN r = 1 .. n
  <2>1. q \in Seq(Range(q)) /\ r \in Seq(Range(r))
    BY DEF FitPatch
  <2> QED BY <2>1, SeqMonotonic
<1>2. /\ t \in Seq(S) /\ DOMAIN t = 1 .. m + n
      /\ \A i \in 1 .. m + n : t[i] = IF i <= m THEN q[i] ELSE r[i - m]
  <2> HIDE DEF S
  <2> QED BY <1>1, ConcatProperties
<1> HIDE DEF t
<1>3. t \in Seq(Range(t)) /\ Range(t) \subseteq S
  <2> HIDE DEF S
  <2> QED BY <1>2, OfItsRange
<1>4. \A i \in DOMAIN t : \/ i \in DOMAIN q /\ t[i] = q[i]
                          \/ i > m /\ i - m \in DOMAIN r /\ t[i] = r[i - m]
  BY <1>1, <1>2
<1>5. S \subseteq Range(t)
  <2>1. \A i \in DOMAIN q : i \in DOMAIN t /\ t[i] = q[i]
    BY <1>1, <1>2
  <2>2. \A i \in DOMAIN r : m + i \in DOMAIN t /\ t[m + i] = r[i]
    BY <1>1, <1>2
  <2> QED BY <2>1, <2>2 DEF Range
<1>6. \A x \in Range(t) : FitEntry(c, x)
  BY <1>3 DEF FitPatch
<1>7. ASSUME NEW i \in DOMAIN t, NEW j \in DOMAIN t, i < j PROVE FitPair(t[i], t[j])
  <2>1. i \in Nat /\ j \in Nat
    BY <1>1, <1>2
  <2>2. CASE i \in DOMAIN q /\ t[i] = q[i] /\ j \in DOMAIN q /\ t[j] = q[j]
    BY <2>2, <1>7 DEF FitPatch
  <2>3. CASE i \in DOMAIN q /\ t[i] = q[i] /\ j - m \in DOMAIN r /\ t[j] = r[j - m]
    BY <2>3 DEF Range
  <2>4. CASE i > m /\ i - m \in DOMAIN r /\ t[i] = r[i - m]
    <3>1. j > m
      BY <2>1, <2>4, <1>1, <1>7
    <3>2. j - m \in DOMAIN r /\ t[j] = r[j - m] /\ i - m < j - m
      BY <2>1, <3>1, <1>1, <1>4, <1>7
    <3> QED BY <2>4, <3>2 DEF FitPatch
  <2> QED BY <1>4, <2>2, <2>3, <2>4
<1>8. FitPatch(c, t) /\ Range(t) = S
  BY <1>3, <1>5, <1>6, <1>7 DEF FitPatch
<1> QED BY <1>8 DEF t

(* The members that go: each is in the entry it goes from.                 *)
LEMMA MembersFit ==
  ASSUME NEW c, WellFormed(c), NEW m, m = Model(c), NEW plan, PlanIsOf(m, plan),
         NEW of, NEW type,
         <<of, type>> \in {<<"rule", "policy-member">>, <<"group", "group-member">>}
  PROVE  LET q == MemberMutations(plan, of, type)
         IN  /\ FitPatch(c, q)
             /\ \A x \in Range(q) :
                  x.type = type /\ x.at \notin DOMAIN plan.rules \cup DOMAIN plan.groups
<1> DEFINE stay == {r \in DOMAIN plan.refs :
                      r.of = of /\ r.at \notin DOMAIN plan.rules \cup DOMAIN plan.groups}
           f == [r \in stay |-> MemberMutation(type, r, plan.refs[r])]
           S == {f[r] : r \in stay}
           q == MemberMutations(plan, of, type)
<1>1. stay \subseteq m.refs
  BY DEF PlanIsOf
<1>2. IsFiniteSet(S)
  <2>1. IsFiniteSet(stay)
    BY <1>1, FiniteReferences, FS_Subset
  <2> HIDE DEF stay, f
  <2> QED BY <2>1, FiniteImage
<1>3. q = InSomeOrder(S)
  BY DEF MemberMutations
<1>4. q \in Seq(S) /\ IsInjective(q)
  <2> HIDE DEF S
  <2> QED BY <1>2, <1>3, InSomeOrderLined
<1>5. ASSUME NEW r \in stay
      PROVE  /\ f[r].type = type /\ f[r].at = r.at /\ f[r].field = r.field /\ f[r].name = r.name
             /\ DOMAIN f[r] = DOMAIN Mutation(type, r.at, {})
             /\ r = [of |-> of, at |-> r.at, field |-> r.field, name |-> r.name]
             /\ of = "rule" => /\ r.at \in DOMAIN c.rule /\ r.field \in Fields
                               /\ r.name \in c.rule[r.at][r.field]
             /\ of = "group" => /\ r.at \in DOMAIN c.grp /\ r.field = "static"
                                /\ r.name \in c.grp[r.at]
             /\ r.at \notin DOMAIN plan.rules \cup DOMAIN plan.groups
  <2>1. r.of = of /\ r \in Model(c).refs
    BY <1>1
  <2>2. /\ f[r].type = type /\ f[r].at = r.at /\ f[r].field = r.field /\ f[r].name = r.name
        /\ DOMAIN f[r] = DOMAIN Mutation(type, r.at, {})
    BY DEF MemberMutation, Mutation
  <2>3. r.at \notin DOMAIN plan.rules \cup DOMAIN plan.groups
    OBVIOUS
  <2> HIDE DEF stay, f
  <2> QED BY <2>1, <2>2, <2>3, ReferencesOfModel
<1>6. type = "policy-member" <=> of = "rule"
  OBVIOUS
<1>7. of \in {"rule", "group"} /\ type \in {"policy-member", "group-member"}
  OBVIOUS
<1> HIDE DEF stay, f, q
<1>8. ASSUME NEW x \in S
      PROVE  /\ FitEntry(c, x) /\ x.type = type
             /\ x.at \notin DOMAIN plan.rules \cup DOMAIN plan.groups
  <2>1. PICK r \in stay : x = f[r]
    OBVIOUS
  <2>2. HoldsAsIn(c, c, x)
    BY <2>1, <1>5, <1>6, <1>7 DEF HoldsAsIn, Holds
  <2> QED BY <2>1, <2>2, <1>5, <1>6, <1>7 DEF FitEntry, Types
<1>9. ASSUME NEW x \in S, NEW y \in S, x # y PROVE FitPair(x, y)
  <2>1. PICK r \in stay : x = f[r]
    OBVIOUS
  <2>2. PICK s \in stay : y = f[s]
    OBVIOUS
  <2>3. x.type = type /\ y.type = type /\ IsMember(x) /\ IsMember(y) /\ ~InOneRulebase(x, y)
    BY <1>7, <1>8 DEF IsMember, InOneRulebase
  <2>4. ASSUME x.at = y.at, x.name = y.name PROVE x.type = "policy-member" /\ x.field # y.field
    <3>1. r # s
      BY <1>9, <2>1, <2>2
    <3>2. r.at = s.at /\ r.name = s.name
      BY <2>1, <2>2, <2>4, <1>5
    <3>3. r.field # s.field
      BY <3>1, <3>2, <1>5
    <3> QED BY <3>3, <2>1, <2>2, <2>3, <1>5, <1>6, <1>7
  <2>5. Owner(x) = Owner(y) => x.at = y.at
    BY DEF Owner
  <2> QED BY <2>3, <2>4, <2>5 DEF FitPair, Distinct
<1>10. q \in Seq(Range(q)) /\ Range(q) \subseteq S
  BY <1>4, OfItsRange
<1>11. ASSUME NEW i \in DOMAIN q, NEW j \in DOMAIN q, i < j PROVE FitPair(q[i], q[j])
  <2>1. q[i] \in S /\ q[j] \in S /\ i # j
    BY <1>4, <1>11
  <2>2. q[i] # q[j]
    BY <1>4, <2>1 DEF IsInjective
  <2> QED BY <1>9, <2>1, <2>2
<1>12. FitPatch(c, q) /\ \A x \in Range(q) :
          x.type = type /\ x.at \notin DOMAIN plan.rules \cup DOMAIN plan.groups
  BY <1>8, <1>10, <1>11 DEF FitPatch
<1> QED BY <1>12 DEF q

(* Where a rule stands in its rulebase.                                    *)
LEMMA RulePlace ==
  ASSUME NEW c, WellFormed(c), NEW k \in DOMAIN c.rule, k[3] \in Range(RuleNames(c, k))
  PROVE  LET names == RuleNames(c, k)
             i == PlaceOf(c, k)
         IN  /\ Names(names) /\ Len(names) \in Nat /\ DOMAIN names = 1 .. Len(names)
             /\ i \in DOMAIN names /\ names[i] = k[3] /\ ~NoRule(k[3])
             /\ \A j \in DOMAIN names : ~NoRule(names[j])
             /\ k = <<k[1], k[2], k[3]>>
<1> DEFINE names == RuleNames(c, k)
           b == Base(k)
<1>1. RulesFormed(c) /\ \A o \in DOMAIN c.order : OrderFormed(c, o)
  BY Formed
<1>2. b \in DOMAIN c.order /\ names = c.order[b]
  <2>1. CASE b \notin DOMAIN c.order
    <3>1. RuleNames(c, k) = <<>> /\ Range(<<>>) = {}
      BY <2>1 DEF RuleNames, Range
    <3> QED BY <3>1
  <2> QED BY <2>1 DEF RuleNames
<1>3. OrderFormed(c, b)
  BY <1>1, <1>2
<1>4. Names(names) /\ \A n \in Range(names) : <<b[1], b[2], n>> \in DOMAIN c.rule
  BY <1>2, <1>3 DEF OrderFormed
<1>5. names \in Seq(Range(names))
  BY <1>4 DEF Names
<1>6. Len(names) \in Nat /\ DOMAIN names = 1 .. Len(names)
  BY <1>5
<1>7. \A j \in DOMAIN names : ~NoRule(names[j])
  <2> SUFFICES ASSUME NEW j \in DOMAIN names PROVE ~NoRule(names[j])
    OBVIOUS
  <2> DEFINE l == <<b[1], b[2], names[j]>>
  <2>1. l \in DOMAIN c.rule
    BY <1>4 DEF Range
  <2>2. ~NoRule(l[3])
    BY <1>1, <2>1 DEF RulesFormed, NoRule
  <2> QED BY <2>2
<1>8. PlaceOf(c, k) \in DOMAIN names /\ names[PlaceOf(c, k)] = k[3]
  <2>1. \E j \in DOMAIN names : names[j] = k[3]
    BY DEF Range
  <2> QED BY <2>1 DEF PlaceOf
<1>9. ~NoRule(k[3]) /\ k = <<k[1], k[2], k[3]>>
  BY <1>1 DEF RulesFormed, NoRule
<1> HIDE DEF names
<1>10. /\ Names(names) /\ Len(names) \in Nat /\ DOMAIN names = 1 .. Len(names)
       /\ PlaceOf(c, k) \in DOMAIN names /\ names[PlaceOf(c, k)] = k[3] /\ ~NoRule(k[3])
       /\ \A j \in DOMAIN names : ~NoRule(names[j])
       /\ k = <<k[1], k[2], k[3]>>
  BY <1>4, <1>6, <1>7, <1>8, <1>9
<1> QED BY <1>10 DEF names

LEMMA BesideOf ==
  ASSUME NEW c, NEW k
  PROVE  LET names == RuleNames(c, k)
             i == PlaceOf(c, k)
         IN  /\ i > 1 => Beside(c, k)[1] = names[i - 1]
             /\ ~(i > 1) => NoRule(Beside(c, k)[1])
             /\ i < Len(names) => Beside(c, k)[2] = names[i + 1]
             /\ ~(i < Len(names)) => NoRule(Beside(c, k)[2])
<1> DEFINE names == RuleNames(c, k)
           i == PlaceOf(c, k)
           first == IF i > 1 THEN names[i - 1] ELSE ""
           second == IF i < Len(names) THEN names[i + 1] ELSE ""
<1>1. Beside(c, k) = <<first, second>>
  BY DEF Beside
<1>2. Beside(c, k)[1] = first /\ Beside(c, k)[2] = second
  <2> HIDE DEF first, second
  <2> QED BY <1>1
<1>3. (~(i > 1) => NoRule(first)) /\ (i > 1 => first = names[i - 1])
  BY DEF NoRule
<1>4. (~(i < Len(names)) => NoRule(second)) /\ (i < Len(names) => second = names[i + 1])
  BY DEF NoRule
<1> HIDE DEF first, second
<1> QED BY <1>2, <1>3, <1>4

(* The neighbours a rule is noted with are those it has.                   *)
LEMMA BesideIsInPlace ==
  ASSUME NEW c, WellFormed(c), NEW k \in DOMAIN c.rule, k[3] \in Range(RuleNames(c, k)),
         NEW x, x.at = k, x.prev = Beside(c, k)[1], x.next = Beside(c, k)[2]
  PROVE  InPlace(c, x, {})
<1> DEFINE names == RuleNames(c, k)
           i == PlaceOf(c, k)
<1>1. /\ Len(names) \in Nat /\ DOMAIN names = 1 .. Len(names) /\ i \in DOMAIN names
      /\ \A j \in DOMAIN names : ~NoRule(names[j]) /\ names[j] \in Range(names)
  BY RulePlace DEF Range
<1>2. /\ i > 1 => x.prev = names[i - 1]
      /\ ~(i > 1) => NoRule(x.prev)
      /\ i < Len(names) => x.next = names[i + 1]
      /\ ~(i < Len(names)) => NoRule(x.next)
  BY BesideOf
<1>3. i = CHOOSE j \in DOMAIN names : names[j] = x.at[3]
  BY DEF PlaceOf
<1>4. names = RuleNames(c, x.at) /\ x.at[3] \in Range(names)
  OBVIOUS
<1> HIDE DEF names, i
<1>5. /\ NoRule(x.prev) => i = 1
      /\ ~NoRule(x.prev) => x.prev \in Range(names) /\ i > 1 /\ names[i - 1] = x.prev
  <2>1. CASE i > 1
    <3>1. i - 1 \in DOMAIN names
      BY <2>1, <1>1
    <3> QED BY <1>1, <1>2, <2>1, <3>1
  <2>2. CASE ~(i > 1)
    BY <1>1, <1>2, <2>2
  <2> QED BY <2>1, <2>2
<1>6. /\ NoRule(x.next) => i = Len(names)
      /\ ~NoRule(x.next) => x.next \in Range(names) /\ i < Len(names) /\ names[i + 1] = x.next
  <2>1. CASE i < Len(names)
    <3>1. i + 1 \in DOMAIN names
      BY <2>1, <1>1
    <3> QED BY <1>1, <1>2, <2>1, <3>1
  <2>2. CASE ~(i < Len(names))
    BY <1>1, <1>2, <2>2
  <2> QED BY <2>1, <2>2
<1>7. /\ IF x.prev = "" THEN i = 1
         ELSE IF x.prev \in Range(names) THEN i > 1 /\ names[i - 1] = x.prev ELSE x.prev \in {}
      /\ IF x.next = "" THEN i = Len(names)
         ELSE IF x.next \in Range(names) THEN i < Len(names) /\ names[i + 1] = x.next
         ELSE x.next \in {}
  BY <1>5, <1>6 DEF NoRule
<1> QED BY <1>3, <1>4, <1>7 DEF InPlace

(* The rules that go, each before those that follow it.                    *)
LEMMA RulesFit ==
  ASSUME NEW c, WellFormed(c), NEW m, m = Model(c), NEW plan, PlanIsOf(m, plan)
  PROVE  LET q == RuleMutations(m, plan)
         IN  FitPatch(c, q) /\ \A x \in Range(q) : x.type = "policy" /\ x.at \in DOMAIN plan.rules
<1> DEFINE gone == RulesGone(m, plan)
           before == {p \in gone \X gone : /\ Base(p[1]) = Base(p[2])
                                           /\ PlaceOf(m.c, p[1]) < PlaceOf(m.c, p[2])}
           l == InOrder(gone, before)
           q == RuleMutations(m, plan)
<1>m. m.c = c
  BY DEF Model
<1>1. /\ gone \subseteq DOMAIN plan.rules /\ gone \subseteq DOMAIN c.rule
      /\ \A k \in gone : k[3] \in Range(RuleNames(c, k))
  BY <1>m DEF RulesGone, PlanIsOf
<1>2. q = RuleMutationsOf(m, plan, l)
  BY DEF RuleMutations
<1> HIDE DEF gone
<1>3. Lined(l, gone, before)
  <2>1. IsFiniteSet(gone)
    BY <1>1, Formed, FS_Subset DEF Finite
  <2> HIDE DEF before
  <2> QED BY <2>1, InOrderLined
<1> HIDE DEF l, q
<1>4. /\ l \in Seq(gone) /\ Len(l) \in Nat /\ DOMAIN l = 1 .. Len(l)
      /\ \A i \in DOMAIN l : l[i] \in gone
      /\ \A i, j \in DOMAIN l : l[i] = l[j] => i = j
      /\ \A i, j \in DOMAIN l : i < j => <<l[j], l[i]>> \notin before
  BY <1>3 DEF Lined, IsInjective
<1>5. /\ DOMAIN q = DOMAIN l
      /\ \A i \in DOMAIN l :
           /\ DOMAIN q[i] = DOMAIN Mutation("policy", l[i], {})
           /\ q[i].type = "policy" /\ q[i].at = l[i]
           /\ q[i].prev = Beside(c, l[i])[1] /\ q[i].next = Beside(c, l[i])[2]
           /\ q[i].before = Beside(c, l[i])[2] /\ q[i].among = RuleNames(c, l[i])
  BY <1>m, <1>2 DEF RuleMutationsOf, Mutation
<1>6. q \in Seq(Range(q))
  <2>1. q = [i \in 1 .. Len(l) |-> q[i]]
    BY <1>2, <1>4 DEF RuleMutationsOf
  <2>2. \A i \in 1 .. Len(l) : q[i] \in Range(q)
    BY <2>1, <1>4, <1>5 DEF Range
  <2>3. [i \in 1 .. Len(l) |-> q[i]] \in Seq(Range(q))
    BY <2>2, <1>4
  <2> QED BY <2>1, <2>3
<1>7. ASSUME NEW i \in DOMAIN q
      PROVE  FitEntry(c, q[i]) /\ q[i].type = "policy" /\ q[i].at \in DOMAIN plan.rules
  <2> DEFINE x == q[i]
  <2>1. /\ x.type = "policy" /\ x.at = l[i] /\ l[i] \in gone /\ l[i] \in DOMAIN c.rule
        /\ DOMAIN x = DOMAIN Mutation(x.type, x.at, {})
        /\ x.among = RuleNames(c, x.at) /\ x.before = x.next
        /\ x.prev = Beside(c, l[i])[1] /\ x.next = Beside(c, l[i])[2]
    BY <1>1, <1>4, <1>5
  <2> HIDE DEF x
  <2>2. InPlace(c, x, {})
    BY <1>1, <2>1, BesideIsInPlace
  <2>3. HoldsAsIn(c, c, x)
    BY <2>1 DEF HoldsAsIn, Holds
  <2>4. FitEntry(c, x)
    BY <2>1, <2>2, <2>3 DEF FitEntry, Types
  <2> QED BY <1>1, <2>1, <2>4 DEF x
<1>8. ASSUME NEW i \in DOMAIN q, NEW j \in DOMAIN q, i < j PROVE FitPair(q[i], q[j])
  <2> DEFINE x == q[i]
             y == q[j]
             k == l[i]
             h == l[j]
             names == RuleNames(c, h)
  <2>1. /\ x.type = "policy" /\ y.type = "policy" /\ x.at = k /\ y.at = h
        /\ k \in gone /\ h \in gone /\ k # h
        /\ <<h, k>> \notin before
        /\ PlaceOf(c, h) < Len(names) => y.before = names[PlaceOf(c, h) + 1]
        /\ ~(PlaceOf(c, h) < Len(names)) => NoRule(y.before)
    BY <1>4, <1>5, <1>8, BesideOf
  <2> HIDE DEF x, y, k, h
  <2>2. Distinct(x, y)
    BY <2>1 DEF Distinct, Owner
  <2>3. ASSUME Base(k) = Base(h) PROVE k[3] # y.before
    <3> DEFINE a == PlaceOf(c, k)
               b == PlaceOf(c, h)
    <3>1. RuleNames(c, k) = names
      BY <2>3 DEF RuleNames
    <3>2. k \in DOMAIN c.rule /\ h \in DOMAIN c.rule
          /\ k[3] \in Range(RuleNames(c, k)) /\ h[3] \in Range(names)
      BY <1>1, <2>1
    <3>3. /\ Names(names) /\ Len(names) \in Nat /\ DOMAIN names = 1 .. Len(names)
          /\ a \in DOMAIN names /\ names[a] = k[3] /\ ~NoRule(k[3]) /\ k = <<k[1], k[2], k[3]>>
      BY <3>1, <3>2, RulePlace
    <3>4. b \in DOMAIN names /\ names[b] = h[3] /\ h = <<h[1], h[2], h[3]>>
      BY <3>2, RulePlace
    <3>5. <<h, k>> \in gone \X gone /\ ~(b < a)
      BY <1>m, <2>1, <2>3
    <3> HIDE DEF a, b, names
    <3>6. a # b
      <4>1. SUFFICES ASSUME a = b PROVE FALSE
        OBVIOUS
      <4>2. k[3] = h[3]
        BY <3>3, <3>4, <4>1
      <4>3. k[1] = h[1] /\ k[2] = h[2]
        BY <2>3 DEF Base
      <4>4. k = h
        BY <3>3, <3>4, <4>2, <4>3
      <4> QED BY <2>1, <4>4
    <3>7. CASE b < Len(names)
      <4>1. y.before = names[b + 1] /\ b + 1 \in DOMAIN names /\ b + 1 # a
        BY <2>1, <3>3, <3>4, <3>5, <3>6, <3>7 DEF b, names
      <4> QED BY <3>3, <4>1 DEF Names, IsInjective
    <3>8. CASE ~(b < Len(names))
      BY <2>1, <3>3, <3>8 DEF b, names
    <3> QED BY <3>7, <3>8
  <2>4. FitPair(x, y)
    BY <2>1, <2>2, <2>3 DEF FitPair, InOneRulebase
  <2> QED BY <2>4 DEF x, y
<1>9. FitPatch(c, q) /\ \A x \in Range(q) : x.type = "policy" /\ x.at \in DOMAIN plan.rules
  BY <1>6, <1>7, <1>8 DEF FitPatch, Range
<1> QED BY <1>9 DEF q

LEMMA GroupsFit ==
  ASSUME NEW c, WellFormed(c), NEW m, m = Model(c), NEW plan, PlanIsOf(m, plan)
  PROVE  LET l == OuterFirst(m, DOMAIN plan.groups)
             q == [i \in DOMAIN l |-> Mutation("group", l[i], plan.groups[l[i]])]
         IN  FitPatch(c, q) /\ \A x \in Range(q) : x.type = "group" /\ x.at \in DOMAIN plan.groups
<1> DEFINE G == DOMAIN plan.groups
           l == OuterFirst(m, G)
           q == [i \in DOMAIN l |-> Mutation("group", l[i], plan.groups[l[i]])]
<1>1. G \subseteq DOMAIN c.grp
  BY DEF PlanIsOf, Model
<1>2. IsFiniteSet(G)
  BY <1>1, Formed, FS_Subset DEF Finite
<1>3. l \in Seq(G) /\ IsInjective(l)
  <2> HIDE DEF G
  <2> QED BY <1>2, InOrderLined DEF OuterFirst, Lined
<1> HIDE DEF l, G
<1>4. /\ Len(l) \in Nat /\ DOMAIN l = 1 .. Len(l) /\ \A i \in DOMAIN l : l[i] \in G
      /\ \A i, j \in DOMAIN l : l[i] = l[j] => i = j
  BY <1>3 DEF IsInjective
<1>5. /\ DOMAIN q = DOMAIN l
      /\ \A i \in DOMAIN l : /\ q[i].type = "group" /\ q[i].at = l[i]
                             /\ DOMAIN q[i] = DOMAIN Mutation("group", l[i], {})
  BY DEF Mutation
<1>6. q \in Seq(Range(q))
  <2>1. q = [i \in 1 .. Len(l) |-> q[i]]
    BY <1>4
  <2> HIDE DEF q
  <2>2. \A i \in 1 .. Len(l) : q[i] \in Range(q)
    BY <1>4, <1>5 DEF Range
  <2>3. [i \in 1 .. Len(l) |-> q[i]] \in Seq(Range(q))
    BY <2>2, <1>4
  <2> QED BY <2>1, <2>3
<1> HIDE DEF q
<1>7. ASSUME NEW i \in DOMAIN q
      PROVE  FitEntry(c, q[i]) /\ q[i].type = "group" /\ q[i].at \in G
  <2>1. q[i].type = "group" /\ q[i].at \in DOMAIN c.grp
    BY <1>1, <1>4, <1>5
  <2>2. HoldsAsIn(c, c, q[i])
    BY <2>1 DEF HoldsAsIn, Holds
  <2> QED BY <2>1, <2>2, <1>4, <1>5 DEF FitEntry, Types
<1>8. ASSUME NEW i \in DOMAIN q, NEW j \in DOMAIN q, i < j PROVE FitPair(q[i], q[j])
  <2>1. i \in Nat /\ j \in Nat
    BY <1>4, <1>5
  <2>2. q[i].type = "group" /\ q[j].type = "group" /\ q[i].at # q[j].at
    BY <2>1, <1>4, <1>5, <1>8
  <2> QED BY <2>2 DEF FitPair, Distinct, InOneRulebase, Owner
<1>9. FitPatch(c, q) /\ \A x \in Range(q) : x.type = "group" /\ x.at \in G
  BY <1>6, <1>7, <1>8 DEF FitPatch, Range
<1> QED BY <1>9 DEF q, G, l

LEMMA AddressesFit ==
  ASSUME NEW c, WellFormed(c), NEW m, m = Model(c), NEW plan, PlanIsOf(m, plan)
  PROVE  LET q == InSomeOrder({Mutation("address", t.key, {t}) : t \in plan.addresses})
         IN  FitPatch(c, q) /\ \A x \in Range(q) : x.type = "address"
<1> DEFINE A == plan.addresses
           f == [t \in A |-> Mutation("address", t.key, {t})]
           S == {f[t] : t \in A}
           q == InSomeOrder(S)
<1>1. /\ IsFiniteSet(A) /\ \A t \in A : t.key \in DOMAIN c.addr
      /\ \A t, u \in A : t.key = u.key => t = u
  BY DEF PlanIsOf, Model
<1>2. S = {Mutation("address", t.key, {t}) : t \in plan.addresses}
  OBVIOUS
<1>3. \A t \in A : /\ f[t].type = "address" /\ f[t].at = t.key
                   /\ DOMAIN f[t] = DOMAIN Mutation("address", t.key, {})
  BY DEF Mutation
<1> HIDE DEF A, f
<1>4. IsFiniteSet(S)
  BY <1>1, FiniteImage
<1>5. q \in Seq(S) /\ IsInjective(q)
  <2> HIDE DEF S
  <2> QED BY <1>4, InSomeOrderLined
<1>6. ASSUME NEW x \in S PROVE FitEntry(c, x) /\ x.type = "address"
  <2>1. x.type = "address" /\ x.at \in DOMAIN c.addr /\ DOMAIN x = DOMAIN Mutation(x.type, x.at, {})
    BY <1>1, <1>3
  <2>2. HoldsAsIn(c, c, x)
    BY <2>1 DEF HoldsAsIn, Holds
  <2> QED BY <2>1, <2>2 DEF FitEntry, Types
<1>7. ASSUME NEW x \in S, NEW y \in S, x # y PROVE FitPair(x, y)
  <2>1. x.type = "address" /\ y.type = "address" /\ x.at # y.at
    BY <1>1, <1>3, <1>7
  <2> QED BY <2>1 DEF FitPair, Distinct, InOneRulebase, Owner
<1> HIDE DEF q
<1>8. q \in Seq(Range(q)) /\ Range(q) \subseteq S
  <2> HIDE DEF S
  <2> QED BY <1>5, OfItsRange
<1>9. ASSUME NEW i \in DOMAIN q, NEW j \in DOMAIN q, i < j PROVE FitPair(q[i], q[j])
  <2>1. q[i] \in S /\ q[j] \in S /\ i # j
    <3> HIDE DEF S
    <3> QED BY <1>5, <1>9
  <2>2. q[i] # q[j]
    BY <1>5, <2>1 DEF IsInjective
  <2> QED BY <1>7, <2>1, <2>2
<1> HIDE DEF S
<1>10. FitPatch(c, q) /\ \A x \in Range(q) : x.type = "address"
  BY <1>6, <1>8, <1>9 DEF FitPatch
<1> QED BY <1>2, <1>10 DEF q

(* The component of an entry does not matter.                              *)
LEMMA ComponentsFit ==
  ASSUME NEW c, NEW q, FitPatch(c, q)
  PROVE  FitPatch(c, InComponents(q))
<1> DEFINE sets == {x.causes : x \in Range(q)}
           r == InComponents(q)
<1>1. r = [i \in DOMAIN q |-> [q[i] EXCEPT !.component = Joined(sets, q[i].causes)]]
  BY DEF InComponents
<1>2. Len(q) \in Nat /\ DOMAIN q = 1 .. Len(q)
  BY DEF FitPatch
<1>3. r \in Seq(Range(r)) /\ DOMAIN r = DOMAIN q
  <2> HIDE DEF r
  <2>1. r = [i \in 1 .. Len(q) |-> r[i]]
    BY <1>1, <1>2
  <2>2. \A i \in 1 .. Len(q) : r[i] \in Range(r)
    BY <1>1, <1>2 DEF Range
  <2>3. [i \in 1 .. Len(q) |-> r[i]] \in Seq(Range(r))
    BY <2>2, <1>2
  <2> QED BY <1>1, <2>1, <2>3
<1>4. ASSUME NEW i \in DOMAIN q
      PROVE  /\ DOMAIN r[i] = DOMAIN q[i] /\ r[i].type = q[i].type /\ r[i].at = q[i].at
             /\ r[i].field = q[i].field /\ r[i].name = q[i].name /\ r[i].among = q[i].among
             /\ r[i].prev = q[i].prev /\ r[i].next = q[i].next /\ r[i].before = q[i].before
             /\ FitEntry(c, q[i])
  <2>1. FitEntry(c, q[i])
    BY DEF FitPatch, Range
  <2>2. {"type", "at", "field", "name", "among", "prev", "next", "before"} \subseteq DOMAIN q[i]
    BY <2>1 DEF FitEntry, Mutation
  <2>3. r[i] = [q[i] EXCEPT !.component = Joined(sets, q[i].causes)]
    BY <1>1
  <2> HIDE DEF r, sets
  <2> QED BY <2>1, <2>2, <2>3
<1> HIDE DEF r
<1>5. ASSUME NEW i \in DOMAIN r PROVE FitEntry(c, r[i])
  <2> DEFINE x == q[i]
             y == r[i]
  <2>1. /\ DOMAIN y = DOMAIN x /\ y.type = x.type /\ y.at = x.at /\ y.field = x.field
        /\ y.name = x.name /\ y.among = x.among /\ y.prev = x.prev /\ y.next = x.next
        /\ y.before = x.before /\ FitEntry(c, x)
    BY <1>3, <1>4
  <2> HIDE DEF x, y
  <2>2. HoldsAsIn(c, c, y)
    BY <2>1 DEF FitEntry, HoldsAsIn, Holds, Types
  <2>3. y.type = "policy" => InPlace(c, y, {})
    BY <2>1 DEF FitEntry, InPlace
  <2>4. DOMAIN Mutation(y.type, y.at, {}) = DOMAIN Mutation(x.type, x.at, {})
    BY DEF Mutation
  <2>5. FitEntry(c, y)
    BY <2>1, <2>2, <2>3, <2>4 DEF FitEntry
  <2> QED BY <2>5 DEF y
<1>6. ASSUME NEW i \in DOMAIN r, NEW j \in DOMAIN r, i < j PROVE FitPair(r[i], r[j])
  <2> DEFINE x == q[i]
             y == q[j]
             v == r[i]
             w == r[j]
  <2>1. /\ v.type = x.type /\ v.at = x.at /\ v.field = x.field /\ v.name = x.name
        /\ w.type = y.type /\ w.at = y.at /\ w.field = y.field /\ w.name = y.name
        /\ w.before = y.before
    BY <1>3, <1>4
  <2>2. FitPair(x, y)
    BY <1>3, <1>6 DEF FitPatch
  <2> HIDE DEF x, y, v, w
  <2>3. Owner(v) = Owner(x) /\ Owner(w) = Owner(y)
        /\ (IsMember(v) <=> IsMember(x)) /\ (IsMember(w) <=> IsMember(y))
    BY <2>1 DEF Owner, IsMember
  <2>4. FitPair(v, w)
    BY <2>1, <2>2, <2>3 DEF FitPair, Distinct, InOneRulebase
  <2> QED BY <2>4 DEF v, w
<1>7. FitPatch(c, r)
  BY <1>3, <1>5, <1>6 DEF FitPatch, Range
<1> QED BY <1>7 DEF r

(* The patch of a cleanup fits the configuration it was planned on.        *)
LEMMA PatchFits ==
  ASSUME NEW c, WellFormed(c), NEW m, m = Model(c), NEW plan, PlanIsOf(m, plan)
  PROVE  FitPatch(c, Patch(m, plan))
<1> DEFINE l == OuterFirst(m, DOMAIN plan.groups)
           A == MemberMutations(plan, "rule", "policy-member")
           B == RuleMutations(m, plan)
           C == MemberMutations(plan, "group", "group-member")
           D == [i \in DOMAIN l |-> Mutation("group", l[i], plan.groups[l[i]])]
           E == InSomeOrder({Mutation("address", t.key, {t}) : t \in plan.addresses})
<1>1. FitPatch(c, A) /\ \A x \in Range(A) : x.type = "policy-member" /\ x.at \notin DOMAIN plan.rules
  <2>1. <<"rule", "policy-member">> \in {<<"rule", "policy-member">>, <<"group", "group-member">>}
    OBVIOUS
  <2> QED BY ONLY WellFormed(c), m = Model(c), PlanIsOf(m, plan), <2>1, MembersFit
<1>2. FitPatch(c, B) /\ \A x \in Range(B) : x.type = "policy" /\ x.at \in DOMAIN plan.rules
  BY RulesFit
<1>3. FitPatch(c, C) /\ \A x \in Range(C) : x.type = "group-member" /\ x.at \notin DOMAIN plan.groups
  <2>1. <<"group", "group-member">> \in {<<"rule", "policy-member">>, <<"group", "group-member">>}
    OBVIOUS
  <2> QED BY ONLY WellFormed(c), m = Model(c), PlanIsOf(m, plan), <2>1, MembersFit
<1>4. FitPatch(c, D) /\ \A x \in Range(D) : x.type = "group" /\ x.at \in DOMAIN plan.groups
  BY GroupsFit
<1>5. FitPatch(c, E) /\ \A x \in Range(E) : x.type = "address"
  BY AddressesFit
<1> HIDE DEF A, B, C, D, E
<1>6. ASSUME NEW x, NEW y, Owner(x) # Owner(y), x.type # "policy" \/ y.type # "policy"
      PROVE  FitPair(x, y)
  BY <1>6 DEF FitPair, Distinct, InOneRulebase
<1>7. \A x \in Range(A), y \in Range(B) : FitPair(x, y)
  BY <1>1, <1>2, <1>6 DEF Owner
<1>8. FitPatch(c, A \o B) /\ Range(A \o B) = Range(A) \cup Range(B)
  BY <1>1, <1>2, <1>7, JoinedFits
<1>9. \A x \in Range(A \o B), y \in Range(C) : FitPair(x, y)
  BY <1>1, <1>2, <1>3, <1>6, <1>8 DEF Owner
<1>10. FitPatch(c, A \o B \o C) /\ Range(A \o B \o C) = Range(A) \cup Range(B) \cup Range(C)
  BY <1>3, <1>8, <1>9, JoinedFits
<1>11. \A x \in Range(A \o B \o C), y \in Range(D) : FitPair(x, y)
  BY <1>1, <1>2, <1>3, <1>4, <1>6, <1>10 DEF Owner
<1>12. /\ FitPatch(c, A \o B \o C \o D)
       /\ Range(A \o B \o C \o D) = Range(A) \cup Range(B) \cup Range(C) \cup Range(D)
  BY <1>4, <1>10, <1>11, JoinedFits
<1>13. \A x \in Range(A \o B \o C \o D), y \in Range(E) : FitPair(x, y)
  BY <1>1, <1>2, <1>3, <1>4, <1>5, <1>6, <1>12 DEF Owner
<1>14. FitPatch(c, A \o B \o C \o D \o E)
  BY <1>5, <1>12, <1>13, JoinedFits
<1>15. Ordered(m, plan, l) = A \o B \o C \o D \o E
  BY DEF Ordered, A, B, C, D, E
<1> QED BY <1>14, <1>15, ComponentsFit DEF Patch

LEMMA CleanupPlanFits ==
  ASSUME NEW c, WellFormed(c), NEW ask, IsFiniteSet(ask.ips), NEW s, s.kind = "cleanup", s.was = c,
         s.patch = CleanupPatch(Model(c), ask)
  PROVE  CutFits(s)
<1>1. PlanIsOf(Model(c), SafePlan(Model(c), ask))
  BY SafePlanIs
<1>2. FitPatch(c, s.patch)
  BY <1>1, PatchFits DEF CleanupPatch
<1> QED BY <1>2 DEF CutFits, FitPatch, FitEntry, FitPair, CleanupFits, Types

(***************************************************************************)
(* The records of a history                                                *)
(***************************************************************************)
RecordsOfOne(history, i) ==
  [j \in DOMAIN history[i].patch |-> [from |-> i, x |-> history[i].patch[j]]]

RecordsBy(history, F, n) ==
  F = [i \in 0 .. n |-> IF i = 0 THEN <<>> ELSE F[i - 1] \o RecordsOfOne(history, i)]

LEMMA RecordsExists ==
  ASSUME NEW history, NEW m \in Nat
  PROVE  \E F : RecordsBy(history, F, m)
<1> DEFINE A == {n \in Nat : \E F : RecordsBy(history, F, n)}
<1>1. 0 \in A
  <2> DEFINE F0 == [i \in 0 .. 0 |-> <<>>]
  <2>1. RecordsBy(history, F0, 0)
    BY DEF RecordsBy
  <2> QED BY <2>1
<1>2. ASSUME NEW n \in A PROVE n + 1 \in A
  <2>1. n \in Nat /\ \E F : RecordsBy(history, F, n)
    OBVIOUS
  <2>2. PICK F : RecordsBy(history, F, n)
    BY <2>1
  <2> DEFINE H == [i \in 0 .. n + 1 |-> IF i = n + 1 THEN F[n] \o RecordsOfOne(history, n + 1) ELSE F[i]]
  <2>3. \A i \in 0 .. n + 1 :
          H[i] = IF i = 0 THEN <<>> ELSE H[i - 1] \o RecordsOfOne(history, i)
    <3> TAKE i \in 0 .. n + 1
    <3>1. CASE i = n + 1
      <4>1. i # 0 /\ i - 1 = n /\ H[n + 1] = F[n] \o RecordsOfOne(history, n + 1) /\ H[n] = F[n]
        BY <2>1, <3>1
      <4> HIDE DEF H
      <4> QED BY <3>1, <4>1
    <3>2. CASE i \in 0 .. n
      <4>1. H[i] = F[i] /\ (i # 0 => H[i - 1] = F[i - 1])
        BY <2>1, <3>2
      <4>2. F[i] = IF i = 0 THEN <<>> ELSE F[i - 1] \o RecordsOfOne(history, i)
        <5> HIDE DEF H, A
        <5> QED BY <2>2, <3>2 DEF RecordsBy
      <4> HIDE DEF H
      <4> QED BY <4>1, <4>2
    <3> QED BY <2>1, <3>1, <3>2
  <2>4. RecordsBy(history, H, n + 1)
    <3>1. H = [i \in 0 .. n + 1 |-> H[i]]
      OBVIOUS
    <3> HIDE DEF H
    <3> QED BY <2>3, <3>1 DEF RecordsBy
  <2> HIDE DEF H
  <2> QED BY <2>1, <2>4
<1>3. A = Nat
  <2>1. A \subseteq Nat
    OBVIOUS
  <2> HIDE DEF A
  <2> QED BY <1>1, <1>2, <2>1, NaturalSets
<1>4. m \in A
  BY <1>3
<1> QED BY <1>4

HistoryFormed(history) ==
  /\ Len(history) \in Nat /\ DOMAIN history = 1 .. Len(history)
  /\ \A i \in DOMAIN history :
       /\ history[i].patch \in Seq(Range(history[i].patch))
       /\ WellFormed(history[i].was)
       /\ \A x \in Range(history[i].patch) : FitEntry(history[i].was, x)

(* A record is of a mutation that was applied, with the configuration it   *)
(* was planned on.                                                         *)
RecordFits(history, r) ==
  r.from \in DOMAIN history /\ r.x \in Range(history[r.from].patch)

LEMMA RecordsFit ==
  ASSUME NEW history, HistoryFormed(history)
  PROVE  LET records == Graph(history).records
         IN  /\ Len(records) \in Nat /\ DOMAIN records = 1 .. Len(records)
             /\ \A n \in DOMAIN records : RecordFits(history, records[n])
<1> DEFINE m == Len(history)
           F == CHOOSE F : RecordsBy(history, F, m)
           R == {r \in UNION {Range(RecordsOfOne(history, i)) : i \in DOMAIN history} :
                   RecordFits(history, r)}
<1>m. m \in Nat /\ DOMAIN history = 1 .. m
  BY DEF HistoryFormed
<1>1. RecordsBy(history, F, m)
  BY <1>m, RecordsExists
<1>2. Graph(history).records = F[m]
  BY DEF Graph, RecordsBy, RecordsOfOne
<1> HIDE DEF F
<1>3. ASSUME NEW i \in 1 .. m PROVE RecordsOfOne(history, i) \in Seq(R)
  <2> DEFINE q == RecordsOfOne(history, i)
             patch == history[i].patch
  <2>1. patch \in Seq(Range(patch)) /\ Len(patch) \in Nat /\ DOMAIN patch = 1 .. Len(patch)
    BY <1>m DEF HistoryFormed
  <2>2. q = [j \in 1 .. Len(patch) |-> q[j]] /\ DOMAIN q = 1 .. Len(patch)
    BY <2>1 DEF RecordsOfOne
  <2>3. ASSUME NEW j \in 1 .. Len(patch) PROVE q[j] \in R
    <3>1. q[j] = [from |-> i, x |-> patch[j]]
      BY <2>1 DEF RecordsOfOne
    <3>2. RecordFits(history, q[j])
      BY <1>m, <2>1, <3>1 DEF RecordFits, Range
    <3>3. q[j] \in Range(RecordsOfOne(history, i))
      BY <2>2 DEF Range
    <3> QED BY <1>m, <3>2, <3>3
  <2> HIDE DEF q, patch, R
  <2>4. [j \in 1 .. Len(patch) |-> q[j]] \in Seq(R)
    BY <2>1, <2>3
  <2> QED BY <2>2, <2>4 DEF q
<1> DEFINE A == {n \in Nat : n <= m => F[n] \in Seq(R)}
<1>4. 0 \in A
  <2>1. F[0] = <<>>
    BY <1>m, <1>1 DEF RecordsBy
  <2>2. F[0] \in Seq(R)
    <3> HIDE DEF R
    <3>1. <<>> \in Seq(R)
      OBVIOUS
    <3> QED BY <2>1, <3>1
  <2> HIDE DEF R, m
  <2> QED BY <2>2
<1>5. ASSUME NEW n \in A PROVE n + 1 \in A
  <2>1. SUFFICES ASSUME n + 1 <= m PROVE F[n + 1] \in Seq(R)
    OBVIOUS
  <2>2. n \in Nat /\ n + 1 \in 1 .. m /\ F[n] \in Seq(R)
    BY <1>m, <2>1
  <2>3. F[n + 1] = F[n] \o RecordsOfOne(history, n + 1)
    <3>1. n + 1 \in 0 .. m /\ n + 1 # 0 /\ (n + 1) - 1 = n
      BY <2>2, <1>m
    <3> HIDE DEF m, A
    <3> QED BY <1>1, <3>1 DEF RecordsBy
  <2> HIDE DEF R, A
  <2> QED BY <1>3, <2>2, <2>3, ConcatProperties
<1>6. A = Nat
  <2>1. A \subseteq Nat
    OBVIOUS
  <2> HIDE DEF A
  <2> QED BY <1>4, <1>5, <2>1, NaturalSets
<1>7. F[m] \in Seq(R)
  BY <1>6, <1>m
<1>8. \A r \in R : RecordFits(history, r)
  OBVIOUS
<1> HIDE DEF R
<1> QED BY <1>2, <1>7, <1>8

(***************************************************************************)
(* What is tied together                                                   *)
(***************************************************************************)
MoreTied(g, now) ==
  now \cup {j \in DOMAIN g.records \ now : \E k \in now : Tied(g, j, k)}

TiedBy(g, seeds, F, n) ==
  F = [i \in 0 .. n |-> IF i = 0 THEN seeds ELSE MoreTied(g, F[i - 1])]

LEMMA TiedExists ==
  ASSUME NEW g, NEW seeds, NEW m \in Nat
  PROVE  \E F : TiedBy(g, seeds, F, m)
<1> DEFINE A == {n \in Nat : \E F : TiedBy(g, seeds, F, n)}
<1>1. 0 \in A
  <2> DEFINE F0 == [i \in 0 .. 0 |-> seeds]
  <2>1. TiedBy(g, seeds, F0, 0)
    BY DEF TiedBy
  <2> QED BY <2>1
<1>2. ASSUME NEW n \in A PROVE n + 1 \in A
  <2>1. n \in Nat /\ \E F : TiedBy(g, seeds, F, n)
    OBVIOUS
  <2>2. PICK F : TiedBy(g, seeds, F, n)
    BY <2>1
  <2> DEFINE H == [i \in 0 .. n + 1 |-> IF i = n + 1 THEN MoreTied(g, F[n]) ELSE F[i]]
  <2>3. \A i \in 0 .. n + 1 :
          H[i] = IF i = 0 THEN seeds ELSE MoreTied(g, H[i - 1])
    <3> TAKE i \in 0 .. n + 1
    <3>1. CASE i = n + 1
      <4>1. i # 0 /\ i - 1 = n /\ H[n + 1] = MoreTied(g, F[n]) /\ H[n] = F[n]
        BY <2>1, <3>1
      <4> HIDE DEF H
      <4> QED BY <3>1, <4>1
    <3>2. CASE i \in 0 .. n
      <4>1. H[i] = F[i] /\ (i # 0 => H[i - 1] = F[i - 1])
        BY <2>1, <3>2
      <4>2. F[i] = IF i = 0 THEN seeds ELSE MoreTied(g, F[i - 1])
        <5> HIDE DEF H, A
        <5> QED BY <2>2, <3>2 DEF TiedBy
      <4> HIDE DEF H
      <4> QED BY <4>1, <4>2
    <3> QED BY <2>1, <3>1, <3>2
  <2>4. TiedBy(g, seeds, H, n + 1)
    <3>1. H = [i \in 0 .. n + 1 |-> H[i]]
      OBVIOUS
    <3> HIDE DEF H
    <3> QED BY <2>3, <3>1 DEF TiedBy
  <2> HIDE DEF H
  <2> QED BY <2>1, <2>4
<1>3. A = Nat
  <2>1. A \subseteq Nat
    OBVIOUS
  <2> HIDE DEF A
  <2> QED BY <1>1, <1>2, <2>1, NaturalSets
<1>4. m \in A
  BY <1>3
<1> QED BY <1>4

(* Nothing else is tied to what is in it.                                  *)
Closed(g, set) == \A k \in set, j \in DOMAIN g.records : Tied(g, j, k) => j \in set

RecordsFormed(g) == Len(g.records) \in Nat /\ DOMAIN g.records = 1 .. Len(g.records)

LEMMA TiedFrom ==
  ASSUME NEW g, RecordsFormed(g), NEW seeds \in SUBSET DOMAIN g.records
  PROVE  /\ TiedTo(g, seeds) \subseteq DOMAIN g.records
         /\ seeds # {} => Closed(g, TiedTo(g, seeds))
<1> DEFINE all == DOMAIN g.records
           m == Len(g.records)
           F == CHOOSE F : TiedBy(g, seeds, F, m)
<1>m. m \in Nat /\ all = 1 .. m
  BY DEF RecordsFormed
<1>1. TiedBy(g, seeds, F, m)
  BY <1>m, TiedExists
<1>2. TiedTo(g, seeds) = F[m]
  BY DEF TiedTo, TiedBy, MoreTied
<1> HIDE DEF F
<1>3. IsFiniteSet(all) /\ Cardinality(all) = m
  BY <1>m, FS_Interval
<1> DEFINE Enough(set, n) ==
             set \subseteq all /\ (seeds # {} => Closed(g, set) \/ Cardinality(set) >= n + 1)
           A == {n \in Nat : n <= m => Enough(F[n], n)}
<1>4. 0 \in A
  <2>1. F[0] = seeds
    BY <1>m, <1>1 DEF TiedBy
  <2>2. seeds # {} => Cardinality(seeds) >= 1
    <3>1. IsFiniteSet(seeds)
      BY <1>3, FS_Subset
    <3> QED BY <3>1, FS_EmptySet, FS_CardinalityType
  <2> QED BY <2>1, <2>2
<1>5. ASSUME NEW n \in A PROVE n + 1 \in A
  <2>1. SUFFICES ASSUME n + 1 <= m PROVE Enough(F[n + 1], n + 1)
    OBVIOUS
  <2>2. n \in Nat /\ Enough(F[n], n)
    BY <1>m, <2>1
  <2>3. F[n + 1] = MoreTied(g, F[n])
    <3>1. n + 1 \in 0 .. m /\ n + 1 # 0 /\ (n + 1) - 1 = n
      BY <2>1, <2>2, <1>m
    <3> HIDE DEF m, A
    <3> QED BY <1>1, <3>1 DEF TiedBy
  <2> DEFINE now == F[n]
             then == F[n + 1]
  <2>4. now \subseteq then /\ then \subseteq all
    BY <2>2, <2>3 DEF MoreTied
  <2>5. CASE Closed(g, now)
    <3>1. then = now
      BY <2>2, <2>3, <2>5 DEF MoreTied, Closed
    <3> QED BY <2>2, <2>5, <3>1
  <2>6. CASE ~Closed(g, now)
    <3>1. then # now
      BY <2>2, <2>3, <2>6 DEF MoreTied, Closed
    <3>2. Cardinality(now) \in Nat /\ Cardinality(then) \in Nat
          /\ Cardinality(now) < Cardinality(then)
      <4> HIDE DEF now, then
      <4> QED BY <1>3, <2>4, <3>1, FewOfFew
    <3> HIDE DEF all, m
    <3>3. seeds # {} => Cardinality(now) >= n + 1
      BY <2>2, <2>6
    <3>4. seeds # {} => Cardinality(then) >= (n + 1) + 1
      <4> HIDE DEF now, then, A
      <4> QED BY <2>2, <3>2, <3>3
    <3> QED BY <2>4, <3>4
  <2> QED BY <2>5, <2>6
<1>6. A = Nat
  <2>1. A \subseteq Nat
    OBVIOUS
  <2> HIDE DEF A
  <2> QED BY <1>4, <1>5, <2>1, NaturalSets
<1>7. Enough(F[m], m)
  BY <1>6, <1>m
<1>8. ~(Cardinality(F[m]) >= m + 1)
  <2>1. Cardinality(F[m]) \in Nat /\ Cardinality(F[m]) <= m
    BY <1>3, <1>7, FS_Subset, FS_CardinalityType
  <2> QED BY <2>1, <1>m
<1> QED BY <1>2, <1>7, <1>8

LEMMA TiedIsSymmetric ==
  ASSUME NEW g, NEW i, NEW j, Tied(g, i, j)
  PROVE  Tied(g, j, i)
BY DEF Tied

(* Two records that are tied are in the same components.                   *)
LEMMA TiedInOne ==
  ASSUME NEW g, RecordsFormed(g), NEW selected \in SUBSET DOMAIN g.records,
         NEW i \in DOMAIN g.records, NEW j \in DOMAIN g.records, Tied(g, i, j)
  PROVE  LET components == RestoreComponents(g, selected)
         IN  ComponentOf(components, i) = ComponentOf(components, j)
<1> DEFINE components == RestoreComponents(g, selected)
<1>1. \A k \in components : Closed(g, k)
  <2> SUFFICES ASSUME NEW n \in selected PROVE Closed(g, TiedTo(g, {n}))
    BY DEF RestoreComponents
  <2> QED BY TiedFrom
<1>2. \A k \in components : i \in k <=> j \in k
  BY <1>1, TiedIsSymmetric DEF Closed
<1> HIDE DEF components
<1>3. {k \in components : i \in k} = {k \in components : j \in k}
  BY <1>2
<1> QED BY <1>3 DEF ComponentOf, components

(***************************************************************************)
(* What is put back, one mutation after another                            *)
(***************************************************************************)
Plain(x) == x.type \in Types /\ (x.type = "policy-member" => x.field \in Fields)

LEMMA HoldsOf ==
  ASSUME NEW c, NEW x
  PROVE  /\ x.type = "policy-member" =>
              (Holds(c, x) <=> x.at \in DOMAIN c.rule /\ x.name \in c.rule[x.at][x.field])
         /\ x.type = "group-member" =>
              (Holds(c, x) <=> x.at \in DOMAIN c.grp /\ x.name \in c.grp[x.at])
         /\ x.type = "policy" => (Holds(c, x) <=> x.at \in DOMAIN c.rule)
         /\ x.type = "group" => (Holds(c, x) <=> x.at \in DOMAIN c.grp \cup DOMAIN c.dyn)
         /\ x.type = "address" => (Holds(c, x) <=> x.at \in DOMAIN c.addr)
<1>1. ASSUME x.type = "policy-member"
      PROVE  Holds(c, x) <=> x.at \in DOMAIN c.rule /\ x.name \in c.rule[x.at][x.field]
  BY <1>1 DEF Holds
<1>2. ASSUME x.type = "group-member"
      PROVE  Holds(c, x) <=> x.at \in DOMAIN c.grp /\ x.name \in c.grp[x.at]
  BY <1>2 DEF Holds
<1>3. ASSUME x.type = "policy" PROVE Holds(c, x) <=> x.at \in DOMAIN c.rule
  BY <1>3 DEF Holds
<1>4. ASSUME x.type = "group" PROVE Holds(c, x) <=> x.at \in DOMAIN c.grp \cup DOMAIN c.dyn
  BY <1>4 DEF Holds
<1>5. ASSUME x.type = "address" PROVE Holds(c, x) <=> x.at \in DOMAIN c.addr
  BY <1>5 DEF Holds
<1> QED BY <1>1, <1>2, <1>3, <1>4, <1>5

LEMMA OwnerOf ==
  ASSUME NEW x, x.type \in Types
  PROVE  Owner(x) = <<IF x.type \in {"policy", "policy-member"} THEN "rule"
                      ELSE IF x.type = "address" THEN "address" ELSE "group", x.at>>
BY DEF Owner, Types

LEMMA FieldsOfRules ==
  ASSUME NEW c, WellFormed(c), NEW k \in DOMAIN c.rule
  PROVE  Fields \subseteq DOMAIN c.rule[k]
<1>1. RulesFormed(c)
  BY Formed
<1> QED BY <1>1 DEF RulesFormed, IsARule

(* Nothing goes when something is put back.                                *)
LEMMA StillThere ==
  ASSUME NEW c, WellFormed(c), NEW was, NEW x, Puttable(c, was, x), NEW y, Plain(y), Holds(c, y)
  PROVE  Holds(PutBack(c, was, x), y)
<1> DEFINE d == PutBack(c, was, x)
<1>t. x.type \in Types
  BY DEF Puttable
<1>1. ASSUME NEW k \in DOMAIN c.rule
      PROVE  k \in DOMAIN d.rule /\ \A f \in Fields : c.rule[k][f] \subseteq d.rule[k][f]
  <2>1. CASE x.type = "policy-member"
    <3>1. Like(d, c, {"rule"}) /\ d.rule = [c.rule EXCEPT ![x.at][x.field] = @ \cup {x.name}]
      BY <2>1, RuleMemberBack
    <3> HIDE DEF d
    <3>2. CASE k = x.at
      <4> DEFINE r == c.rule[k]
                 q == d.rule[k]
      <4>1. q = [r EXCEPT ![x.field] = @ \cup {x.name}] /\ k \in DOMAIN d.rule
        BY <3>1, <3>2
      <4>2. Fields \subseteq DOMAIN r
        BY FieldsOfRules
      <4>3. \A f \in Fields : r[f] \subseteq q[f]
        <5> HIDE DEF q, r
        <5> QED BY <4>1, <4>2
      <4> QED BY <4>1, <4>3
    <3>3. CASE k # x.at
      BY <3>1, <3>3
    <3> QED BY <3>2, <3>3
  <2>2. CASE x.type = "policy"
    <3>1. /\ Like(d, c, {"rule", "order"})
          /\ d.rule = With(c.rule, x.at, was.rule[x.at])
          /\ d.order = [c.order EXCEPT ![Base(x.at)] = InFrontOf(@, x.at[3], x.before)]
      BY <2>2, RuleBack
    <3>2. x.at \notin DOMAIN c.rule
      BY <2>2 DEF Puttable, Holds
    <3> HIDE DEF d
    <3> QED BY <3>1, <3>2 DEF With
  <2>3. CASE x.type \notin {"policy", "policy-member"}
    <3>1. d.rule = c.rule
      BY <1>t, <2>3, BackLeaves
    <3> QED BY <3>1
  <2> QED BY <2>1, <2>2, <2>3
<1>2. ASSUME NEW k \in DOMAIN c.grp
      PROVE  k \in DOMAIN d.grp /\ c.grp[k] \subseteq d.grp[k]
  <2>1. CASE x.type = "group-member"
    <3>1. d.grp = [c.grp EXCEPT ![x.at] = @ \cup {x.name}]
      BY <2>1, GroupMemberBack
    <3> HIDE DEF d
    <3> QED BY <3>1
  <2>2. CASE x.type = "group"
    <3>1. d.grp = With(c.grp, x.at, was.grp[x.at])
      BY <2>2, GroupBack
    <3>2. x.at \notin DOMAIN c.grp
      BY <2>2 DEF Puttable, Holds
    <3> HIDE DEF d
    <3> QED BY <3>1, <3>2 DEF With
  <2>3. CASE x.type \notin {"group", "group-member"}
    <3>1. d.grp = c.grp
      BY <1>t, <2>3, BackLeaves
    <3> QED BY <3>1
  <2> QED BY <2>1, <2>2, <2>3
<1>3. DOMAIN c.addr \subseteq DOMAIN d.addr
  <2>1. CASE x.type = "address"
    <3>1. d.addr = With(c.addr, x.at, was.addr[x.at])
      BY <2>1, AddressBack
    <3> QED BY <3>1 DEF With
  <2>2. CASE x.type # "address"
    BY <1>t, <2>2, BackLeaves
  <2> QED BY <2>1, <2>2
<1>4. d.dyn = c.dyn
  BY <1>t, BackLeaves
<1> HIDE DEF d
<1>5. ASSUME y.type = "policy-member" PROVE Holds(d, y)
  BY <1>1, <1>5, HoldsOf DEF Plain
<1>6. ASSUME y.type = "group-member" PROVE Holds(d, y)
  BY <1>2, <1>6, HoldsOf
<1>7. ASSUME y.type = "policy" PROVE Holds(d, y)
  BY <1>1, <1>7, HoldsOf
<1>8. ASSUME y.type = "group" PROVE Holds(d, y)
  BY <1>2, <1>4, <1>8, HoldsOf
<1>9. ASSUME y.type = "address" PROVE Holds(d, y)
  BY <1>3, <1>9, HoldsOf
<1>10. Holds(d, y)
  BY <1>5, <1>6, <1>7, <1>8, <1>9 DEF Plain, Types
<1> QED BY <1>10 DEF d

(* What was put back is there, an entry with all the members it had.       *)
LEMMA PutIsThere ==
  ASSUME NEW c, WellFormed(c), NEW was, NEW x, Plain(x), Puttable(c, was, x), CanPutBack(c, x)
  PROVE  LET d == PutBack(c, was, x)
         IN  /\ Holds(d, x)
             /\ \A y : Plain(y) /\ IsMember(y) /\ ~IsMember(x) /\ Owner(y) = Owner(x)
                         /\ Holds(was, y) => Holds(d, y)
<1> DEFINE d == PutBack(c, was, x)
           Back == /\ Holds(d, x)
                   /\ \A y : Plain(y) /\ IsMember(y) /\ ~IsMember(x) /\ Owner(y) = Owner(x)
                               /\ Holds(was, y) => Holds(d, y)
<1>1. ASSUME x.type = "policy-member" PROVE Back
  <2>1. d.rule = [c.rule EXCEPT ![x.at][x.field] = @ \cup {x.name}] /\ x.at \in DOMAIN c.rule
    BY <1>1, RuleMemberBack DEF CanPutBack
  <2>2. x.field \in DOMAIN c.rule[x.at]
    BY <1>1, <2>1, FieldsOfRules DEF Plain
  <2> HIDE DEF d
  <2>3. x.at \in DOMAIN d.rule /\ x.name \in d.rule[x.at][x.field]
    BY <2>1, <2>2
  <2> QED BY <1>1, <2>3, HoldsOf DEF IsMember
<1>2. ASSUME x.type = "group-member" PROVE Back
  <2>1. d.grp = [c.grp EXCEPT ![x.at] = @ \cup {x.name}] /\ x.at \in DOMAIN c.grp
    BY <1>2, GroupMemberBack DEF CanPutBack
  <2> HIDE DEF d
  <2> QED BY <1>2, <2>1, HoldsOf DEF IsMember
<1>3. ASSUME x.type = "policy" PROVE Back
  <2>1. /\ Like(d, c, {"rule", "order"})
        /\ d.rule = With(c.rule, x.at, was.rule[x.at])
        /\ d.order = [c.order EXCEPT ![Base(x.at)] = InFrontOf(@, x.at[3], x.before)]
    BY <1>3, RuleBack
  <2> HIDE DEF d
  <2>2. x.at \in DOMAIN d.rule /\ d.rule[x.at] = was.rule[x.at]
    BY <2>1 DEF With
  <2>3. ASSUME NEW y, Plain(y), IsMember(y), Owner(y) = Owner(x), Holds(was, y)
        PROVE  Holds(d, y)
    <3>1. y.type = "policy-member" /\ y.at = x.at
      BY <1>3, <2>3, OwnerOf DEF IsMember, Plain, Types
    <3> QED BY <2>2, <2>3, <3>1, HoldsOf
  <2> QED BY <1>3, <2>2, <2>3, HoldsOf
<1>4. ASSUME x.type = "group" PROVE Back
  <2>1. d.grp = With(c.grp, x.at, was.grp[x.at])
    BY <1>4, GroupBack
  <2> HIDE DEF d
  <2>2. x.at \in DOMAIN d.grp /\ d.grp[x.at] = was.grp[x.at]
    BY <2>1 DEF With
  <2>3. ASSUME NEW y, Plain(y), IsMember(y), Owner(y) = Owner(x), Holds(was, y)
        PROVE  Holds(d, y)
    <3>1. y.type = "group-member" /\ y.at = x.at
      BY <1>4, <2>3, OwnerOf DEF IsMember, Plain, Types
    <3> QED BY <2>2, <2>3, <3>1, HoldsOf
  <2> QED BY <1>4, <2>2, <2>3, HoldsOf
<1>5. ASSUME x.type = "address" PROVE Back
  <2>1. d.addr = With(c.addr, x.at, was.addr[x.at])
    BY <1>5, AddressBack
  <2> HIDE DEF d
  <2>2. x.at \in DOMAIN d.addr
    BY <2>1 DEF With
  <2>3. ASSUME NEW y, Plain(y), IsMember(y) PROVE Owner(y) # Owner(x)
    BY <1>5, <2>3, OwnerOf DEF IsMember, Plain, Types
  <2> QED BY <1>5, <2>2, <2>3, HoldsOf
<1> QED BY <1>1, <1>2, <1>3, <1>4, <1>5 DEF Plain, Types

(* An entry is there when something of it is.                              *)
LEMMA EntryThere ==
  ASSUME NEW c, NEW x, NEW y, Plain(x), Plain(y), Holds(c, x), Owner(x) = Owner(y), ~IsMember(y)
  PROVE  Holds(c, y)
<1>1. CASE x.type \in {"policy", "policy-member"}
  <2>1. y.type = "policy" /\ y.at = x.at
    BY <1>1, OwnerOf DEF IsMember, Plain, Types
  <2>2. x.at \in DOMAIN c.rule
    BY <1>1, HoldsOf
  <2> QED BY <2>1, <2>2, HoldsOf
<1>2. CASE x.type \in {"group", "group-member"}
  <2>1. y.type = "group" /\ y.at = x.at
    BY <1>2, OwnerOf DEF IsMember, Plain, Types
  <2>2. x.at \in DOMAIN c.grp \cup DOMAIN c.dyn
    BY <1>2, HoldsOf
  <2> QED BY <2>1, <2>2, HoldsOf
<1>3. CASE x.type = "address"
  <2>1. y.type = "address" /\ y.at = x.at
    BY <1>3, OwnerOf DEF IsMember, Plain, Types
  <2> QED BY <1>3, <2>1, HoldsOf
<1> QED BY <1>1, <1>2, <1>3 DEF Plain, Types

(* What is there and what is not are apart.                                *)
LEMMA GoneIsApart ==
  ASSUME NEW c, NEW was, NEW x, NEW y, Plain(x), Plain(y), Holds(c, x), ~Holds(c, y),
         IsMember(y) /\ ~IsMember(x) /\ Owner(y) = Owner(x) /\ Holds(was, y) => Holds(c, y)
  PROVE  PutApart(was, x, y)
<1>1. CASE Owner(x) = Owner(y) /\ IsMember(y) /\ ~IsMember(x)
  BY <1>1 DEF PutApart
<1>2. CASE Owner(x) # Owner(y)
  BY <1>2 DEF PutApart, Distinct
<1>3. CASE Owner(x) = Owner(y) /\ ~IsMember(y)
  BY <1>3, EntryThere
<1>4. CASE Owner(x) = Owner(y) /\ IsMember(y) /\ IsMember(x)
  <2>1. ASSUME x.name = y.name PROVE x.type = "policy-member" /\ x.field # y.field
    <3>1. CASE x.type = "policy-member"
      <4>1. y.type = "policy-member" /\ y.at = x.at
        BY <1>4, <3>1, OwnerOf DEF IsMember, Plain, Types
      <4> QED BY <2>1, <3>1, <4>1, HoldsOf
    <3>2. CASE x.type = "group-member"
      <4>1. y.type = "group-member" /\ y.at = x.at
        BY <1>4, <3>2, OwnerOf DEF IsMember, Plain, Types
      <4> QED BY <2>1, <3>2, <4>1, HoldsOf
    <3> QED BY <1>4, <3>1, <3>2 DEF IsMember
  <2> QED BY <1>4, <2>1 DEF PutApart, Distinct
<1> QED BY <1>1, <1>2, <1>3, <1>4

(***************************************************************************)
(* What a restore puts back, in its order                                  *)
(***************************************************************************)
(* The records of a graph are of mutations that fit the configuration they *)
(* were planned on.                                                        *)
GraphFormed(g) ==
  /\ RecordsFormed(g)
  /\ \A i \in DOMAIN g.records :
       /\ g.records[i].from \in DOMAIN g.history
       /\ WellFormed(WasOf(g, i)) /\ FitEntry(WasOf(g, i), g.records[i].x)

PutAs(g, put, j) == g.records[put[j]].x

StillHeld(current, c) == \A y : Plain(y) /\ Holds(current, y) => Holds(c, y)

HasMembers(c, was, x) ==
  \A y : Plain(y) /\ IsMember(y) /\ ~IsMember(x) /\ Owner(y) = Owner(x) /\ Holds(was, y)
           => Holds(c, y)

(* A rule of this rulebase and this name is put back before the j-th.      *)
RulePut(g, put, j, b, n) ==
  \E i \in DOMAIN put :
    i < j /\ PutAs(g, put, i).type = "policy" /\ Base(PutAs(g, put, i).at) = b
          /\ PutAs(g, put, i).at[3] = n

(* What was put back on the way from one configuration to another was gone *)
(* and is there with all its members.                                      *)
PutThere(g, current, c, put) ==
  \A j \in DOMAIN put :
    /\ ~Holds(current, PutAs(g, put, j)) /\ Holds(c, PutAs(g, put, j))
    /\ HasMembers(c, WasOf(g, put[j]), PutAs(g, put, j))

PutOnce(g, put) ==
  \A i, j \in DOMAIN put :
    i < j => PutApart(WasOf(g, put[i]), PutAs(g, put, i), PutAs(g, put, j))

NamesPut(g, current, c, put) ==
  /\ DOMAIN c.order = DOMAIN current.order
  /\ \A b \in DOMAIN c.order : \A n \in Range(c.order[b]) :
       n \in Range(current.order[b]) \/ RulePut(g, put, Len(put) + 1, b, n)

RulesInTurn(g, current, put) ==
  \A j \in DOMAIN put : PutAs(g, put, j).type = "policy" =>
    LET x == PutAs(g, put, j)
    IN  \/ NoRule(x.before)
        \/ x.before \in Range(RuleNames(current, x.at))
        \/ RulePut(g, put, j, Base(x.at), x.before)

PutFits(g, current, c, put) ==
  /\ WellFormed(c) /\ put \in Seq(DOMAIN g.records)
  /\ StillHeld(current, c)
  /\ PutThere(g, current, c, put) /\ PutOnce(g, put)
  /\ NamesPut(g, current, c, put) /\ RulesInTurn(g, current, put)

(* What can be put back is a mutation that puts back what is not there.    *)
LEMMA RecordPuttable ==
  ASSUME NEW c, NEW was, NEW x, FitEntry(was, x), ~Holds(c, x), CanPutBack(c, x)
  PROVE  /\ Puttable(c, was, x) /\ Plain(x)
         /\ x.type = "policy" => NoRule(x.before) \/ x.before \in Range(RuleNames(c, x.at))
<1>1. Plain(x) /\ HoldsAsIn(was, was, x) /\ x.type \in Types
  BY DEF FitEntry, Plain
<1>2. x.type = "policy" => x.at \in DOMAIN was.rule
  BY <1>1, HoldsOf DEF HoldsAsIn
<1>3. x.type = "group" => x.at \in DOMAIN was.grp
  BY <1>1 DEF HoldsAsIn
<1>4. x.type = "policy" => NoRule(x.before) \/ x.before \in Range(RuleNames(c, x.at))
  BY Zenon DEF CanPutBack, NoRule
<1>5. Base(x.at) \in DOMAIN c.order => RuleNames(c, x.at) = c.order[Base(x.at)]
  BY Zenon DEF RuleNames
<1> QED BY <1>1, <1>2, <1>3, <1>4, <1>5 DEF Puttable

LEMMA PutOneMore ==
  ASSUME NEW g, GraphFormed(g), NEW current, NEW c, NEW put, PutFits(g, current, c, put),
         NEW i \in DOMAIN g.records, ~Holds(c, g.records[i].x), CanPutBack(c, g.records[i].x)
  PROVE  PutFits(g, current, PutBack(c, WasOf(g, i), g.records[i].x), Append(put, i))
<1> DEFINE x == g.records[i].x
           was == WasOf(g, i)
           d == PutBack(c, was, x)
           q == Append(put, i)
<1>1. WellFormed(c) /\ WellFormed(was) /\ FitEntry(was, x) /\ ~Holds(c, x) /\ CanPutBack(c, x)
  BY DEF GraphFormed, PutFits
<1>2. /\ Puttable(c, was, x) /\ Plain(x)
      /\ x.type = "policy" => NoRule(x.before) \/ x.before \in Range(RuleNames(c, x.at))
  BY ONLY <1>1, RecordPuttable
<1>3. WellFormed(d)
  BY <1>1, <1>2, PutBackWellFormed
<1>4. \A y : Plain(y) /\ Holds(c, y) => Holds(d, y)
  BY <1>1, <1>2, StillThere
<1>5. Holds(d, x) /\ HasMembers(d, was, x)
  BY <1>1, <1>2, PutIsThere DEF HasMembers
<1>6. /\ DOMAIN d.order = DOMAIN c.order
      /\ \A b \in DOMAIN c.order : \A n \in Range(d.order[b]) :
           \/ n \in Range(c.order[b])
           \/ x.type = "policy" /\ Base(x.at) = b /\ x.at[3] = n
  <2>1. LET e == PutBack(c, was, x)
        IN  /\ DOMAIN e.order = DOMAIN c.order
            /\ \A b \in DOMAIN c.order : Range(c.order[b]) \subseteq Range(e.order[b])
            /\ x.type = "policy" /\ Base(x.at) \in DOMAIN c.order =>
                 x.at[3] \in Range(e.order[Base(x.at)])
            /\ \A b \in DOMAIN c.order : \A n \in Range(e.order[b]) :
                 \/ n \in Range(c.order[b])
                 \/ x.type = "policy" /\ Base(x.at) = b /\ x.at[3] = n
    <3> HIDE DEF x, was
    <3> QED BY ONLY <1>1, <1>2, NamesGrow
  <2> HIDE DEF x, was
  <2> QED BY <2>1 DEF d
<1>7. /\ put \in Seq(DOMAIN g.records) /\ Len(put) \in Nat /\ DOMAIN put = 1 .. Len(put)
  BY DEF PutFits
<1>8. /\ q \in Seq(DOMAIN g.records) /\ Len(q) = Len(put) + 1 /\ DOMAIN q = 1 .. Len(put) + 1
      /\ q[Len(put) + 1] = i /\ \A j \in DOMAIN put : q[j] = put[j]
  BY <1>7
<1> HIDE DEF d, q
<1>9. /\ PutAs(g, q, Len(put) + 1) = x /\ WasOf(g, q[Len(put) + 1]) = was
      /\ \A j \in DOMAIN put : PutAs(g, q, j) = PutAs(g, put, j) /\ WasOf(g, q[j]) = WasOf(g, put[j])
  BY <1>8 DEF PutAs
<1>p. \A j \in DOMAIN put : Plain(PutAs(g, put, j)) /\ put[j] \in DOMAIN g.records
  BY <1>7 DEF GraphFormed, FitEntry, Plain, PutAs
<1> HIDE DEF x, was
<1>10. StillHeld(current, d)
  BY <1>4 DEF PutFits, StillHeld
<1>11. PutThere(g, current, d, q)
  <2> SUFFICES ASSUME NEW j \in DOMAIN q
               PROVE  /\ ~Holds(current, PutAs(g, q, j)) /\ Holds(d, PutAs(g, q, j))
                      /\ HasMembers(d, WasOf(g, q[j]), PutAs(g, q, j))
    BY DEF PutThere
  <2>1. CASE j \in DOMAIN put
    <3>1. /\ ~Holds(current, PutAs(g, put, j)) /\ Holds(c, PutAs(g, put, j))
          /\ HasMembers(c, WasOf(g, put[j]), PutAs(g, put, j))
      BY <2>1 DEF PutFits, PutThere
    <3>2. Holds(d, PutAs(g, put, j))
      BY <2>1, <3>1, <1>4, <1>p
    <3>3. HasMembers(d, WasOf(g, put[j]), PutAs(g, put, j))
      BY <3>1, <1>4 DEF HasMembers
    <3> QED BY <2>1, <3>1, <3>2, <3>3, <1>9
  <2>2. CASE j = Len(put) + 1
    <3>1. ~Holds(current, x)
      BY <1>1, <1>2 DEF PutFits, StillHeld, x
    <3> QED BY <2>2, <3>1, <1>5, <1>9
  <2> QED BY <2>1, <2>2, <1>7, <1>8
<1>12. PutOnce(g, q)
  <2> SUFFICES ASSUME NEW k \in DOMAIN q, NEW j \in DOMAIN q, k < j
               PROVE  PutApart(WasOf(g, q[k]), PutAs(g, q, k), PutAs(g, q, j))
    BY DEF PutOnce
  <2>1. CASE j \in DOMAIN put
    <3>1. k \in DOMAIN put
      BY <2>1, <1>7, <1>8
    <3> QED BY <2>1, <3>1, <1>9 DEF PutFits, PutOnce
  <2>2. CASE j = Len(put) + 1
    <3>1. k \in DOMAIN put
      BY <2>2, <1>7, <1>8
    <3>2. /\ Holds(c, PutAs(g, put, k)) /\ HasMembers(c, WasOf(g, put[k]), PutAs(g, put, k))
          /\ Plain(PutAs(g, put, k))
      BY <3>1, <1>p DEF PutFits, PutThere
    <3>3. PutApart(WasOf(g, put[k]), PutAs(g, put, k), x)
      BY <3>2, <1>1, <1>2, GoneIsApart DEF HasMembers, x
    <3> QED BY <2>2, <3>1, <3>3, <1>9
  <2> QED BY <2>1, <2>2, <1>7, <1>8
<1>13. \A j, b, n : RulePut(g, put, j, b, n) => RulePut(g, q, j, b, n)
  BY <1>7, <1>8, <1>9 DEF RulePut
<1>14. NamesPut(g, current, d, q)
  <2>1. DOMAIN d.order = DOMAIN current.order
    BY <1>6 DEF PutFits, NamesPut
  <2> SUFFICES ASSUME NEW b \in DOMAIN d.order, NEW n \in Range(d.order[b])
               PROVE  n \in Range(current.order[b]) \/ RulePut(g, q, Len(q) + 1, b, n)
    BY <2>1 DEF NamesPut
  <2>2. CASE n \in Range(c.order[b])
    <3>1. n \in Range(current.order[b]) \/ RulePut(g, put, Len(put) + 1, b, n)
      BY <2>2, <1>6 DEF PutFits, NamesPut
    <3>2. ASSUME RulePut(g, put, Len(put) + 1, b, n) PROVE RulePut(g, q, Len(q) + 1, b, n)
      BY <3>2, <1>7, <1>8, <1>9 DEF RulePut
    <3> QED BY <3>1, <3>2
  <2>3. CASE x.type = "policy" /\ Base(x.at) = b /\ x.at[3] = n
    <3>1. Len(put) + 1 \in DOMAIN q /\ Len(put) + 1 < Len(q) + 1
      BY <1>7, <1>8
    <3> QED BY <2>3, <3>1, <1>9 DEF RulePut
  <2> QED BY <2>2, <2>3, <1>6
<1>15. RulesInTurn(g, current, q)
  <2> SUFFICES ASSUME NEW j \in DOMAIN q, PutAs(g, q, j).type = "policy"
               PROVE  LET y == PutAs(g, q, j)
                      IN  \/ NoRule(y.before)
                          \/ y.before \in Range(RuleNames(current, y.at))
                          \/ RulePut(g, q, j, Base(y.at), y.before)
    BY DEF RulesInTurn
  <2>1. CASE j \in DOMAIN put
    BY <2>1, <1>9, <1>13 DEF PutFits, RulesInTurn
  <2>2. CASE j = Len(put) + 1
    <3>1. CASE ~NoRule(x.before)
      <4>1. x.before \in Range(RuleNames(c, x.at))
        BY <2>2, <3>1, <1>2, <1>9 DEF x
      <4>2. Base(x.at) \in DOMAIN c.order /\ RuleNames(c, x.at) = c.order[Base(x.at)]
        <5>1. CASE Base(x.at) \notin DOMAIN c.order
          <6>1. RuleNames(c, x.at) = <<>>
            BY <5>1 DEF RuleNames
          <6> QED BY <4>1, <6>1 DEF Range
        <5>2. CASE Base(x.at) \in DOMAIN c.order
          BY <5>2 DEF RuleNames
        <5> QED BY <5>1, <5>2
      <4>3. DOMAIN current.order = DOMAIN c.order
        BY DEF PutFits, NamesPut
      <4>4. RuleNames(current, x.at) = current.order[Base(x.at)]
        BY <4>2, <4>3 DEF RuleNames
      <4>5. \/ x.before \in Range(current.order[Base(x.at)])
            \/ RulePut(g, put, Len(put) + 1, Base(x.at), x.before)
        BY <4>1, <4>2 DEF PutFits, NamesPut
      <4> QED BY <2>2, <4>4, <4>5, <1>9, <1>13
    <3> QED BY <2>2, <3>1, <1>9
  <2> QED BY <2>1, <2>2, <1>7, <1>8
<1>16. PutFits(g, current, d, q)
  BY <1>3, <1>8, <1>10, <1>11, <1>12, <1>14, <1>15 DEF PutFits
<1> QED BY <1>16 DEF d, q, x, was

(* One walk over the configuration, with what was put back before it.      *)
WalkFits(g, current, done, s) ==
  /\ DOMAIN s = {"c", "already", "put", "bad"}
  /\ done \in Seq(DOMAIN g.records) /\ s.put \in Seq(DOMAIN g.records)
  /\ PutFits(g, current, s.c, done \o s.put)

LEMMA TakeBackFits ==
  ASSUME NEW g, GraphFormed(g), NEW current, NEW done, NEW s, WalkFits(g, current, done, s),
         NEW i \in DOMAIN g.records, NEW absent
  PROVE  WalkFits(g, current, done, TakeBack(g, s, i, absent))
<1> DEFINE x == g.records[i].x
           d == PutBack(s.c, WasOf(g, i), x)
           t == TakeBack(g, s, i, absent)
<1>1. t = TakeBackTo(g, s, i, x, absent, d)
  BY DEF TakeBack
<1>2. ASSUME t.c = s.c, t.put = s.put, DOMAIN t = DOMAIN s PROVE WalkFits(g, current, done, t)
  <2> HIDE DEF t
  <2> QED BY <1>2 DEF WalkFits
<1>3. ASSUME ~Holds(s.c, x), CanPutBack(s.c, x), t.c = d, t.put = Append(s.put, i),
             DOMAIN t = DOMAIN s
      PROVE  WalkFits(g, current, done, t)
  <2>1. PutFits(g, current, d, Append(done \o s.put, i))
    BY <1>3, PutOneMore DEF WalkFits
  <2>2. Append(done \o s.put, i) = done \o Append(s.put, i) /\ Append(s.put, i) \in Seq(DOMAIN g.records)
    BY DEF WalkFits
  <2> HIDE DEF t, d
  <2> QED BY <1>3, <2>1, <2>2 DEF WalkFits
<1>4. DOMAIN s = {"c", "already", "put", "bad"}
  BY DEF WalkFits
<1> HIDE DEF d, x
<1>5. \/ t.c = s.c /\ t.put = s.put /\ DOMAIN t = DOMAIN s
      \/ /\ ~Holds(s.c, x) /\ CanPutBack(s.c, x)
         /\ t.c = d /\ t.put = Append(s.put, i) /\ DOMAIN t = DOMAIN s
  <2> HIDE DEF t
  <2> QED BY <1>1, <1>4 DEF TakeBackTo
<1> QED BY <1>2, <1>3, <1>5 DEF d, x

WalkBy(g, start, latest, absent, F, n) ==
  F = [i \in 0 .. n |-> IF i = 0 THEN start ELSE TakeBack(g, F[i - 1], latest[i], absent)]

LEMMA WalkExists ==
  ASSUME NEW g, NEW start, NEW latest, NEW absent, NEW m \in Nat
  PROVE  \E F : WalkBy(g, start, latest, absent, F, m)
<1> DEFINE A == {n \in Nat : \E F : WalkBy(g, start, latest, absent, F, n)}
<1>1. 0 \in A
  <2> DEFINE F0 == [i \in 0 .. 0 |-> start]
  <2>1. WalkBy(g, start, latest, absent, F0, 0)
    BY DEF WalkBy
  <2> QED BY <2>1
<1>2. ASSUME NEW n \in A PROVE n + 1 \in A
  <2>1. n \in Nat /\ \E F : WalkBy(g, start, latest, absent, F, n)
    OBVIOUS
  <2>2. PICK F : WalkBy(g, start, latest, absent, F, n)
    BY <2>1
  <2> DEFINE H == [i \in 0 .. n + 1 |-> IF i = n + 1 THEN TakeBack(g, F[n], latest[n + 1], absent) ELSE F[i]]
  <2>3. \A i \in 0 .. n + 1 :
          H[i] = IF i = 0 THEN start ELSE TakeBack(g, H[i - 1], latest[i], absent)
    <3> TAKE i \in 0 .. n + 1
    <3>1. CASE i = n + 1
      <4>1. i # 0 /\ i - 1 = n /\ H[n + 1] = TakeBack(g, F[n], latest[n + 1], absent) /\ H[n] = F[n]
        BY <2>1, <3>1
      <4> HIDE DEF H
      <4> QED BY <3>1, <4>1
    <3>2. CASE i \in 0 .. n
      <4>1. H[i] = F[i] /\ (i # 0 => H[i - 1] = F[i - 1])
        BY <2>1, <3>2
      <4>2. F[i] = IF i = 0 THEN start ELSE TakeBack(g, F[i - 1], latest[i], absent)
        <5> HIDE DEF H, A
        <5> QED BY <2>2, <3>2 DEF WalkBy
      <4> HIDE DEF H
      <4> QED BY <4>1, <4>2
    <3> QED BY <2>1, <3>1, <3>2
  <2>4. WalkBy(g, start, latest, absent, H, n + 1)
    <3>1. H = [i \in 0 .. n + 1 |-> H[i]]
      OBVIOUS
    <3> HIDE DEF H
    <3> QED BY <2>3, <3>1 DEF WalkBy
  <2> HIDE DEF H
  <2> QED BY <2>1, <2>4
<1>3. A = Nat
  <2>1. A \subseteq Nat
    OBVIOUS
  <2> HIDE DEF A
  <2> QED BY <1>1, <1>2, <2>1, NaturalSets
<1>4. m \in A
  BY <1>3
<1> QED BY <1>4

LEMMA WalkKeeps ==
  ASSUME NEW g, GraphFormed(g), NEW current, NEW done, NEW start, WalkFits(g, current, done, start),
         NEW latest \in Seq(DOMAIN g.records), NEW absent,
         NEW F, WalkBy(g, start, latest, absent, F, Len(latest))
  PROVE  WalkFits(g, current, done, F[Len(latest)])
<1> DEFINE m == Len(latest)
           A == {n \in Nat : n <= m => WalkFits(g, current, done, F[n])}
<1>m. m \in Nat /\ DOMAIN latest = 1 .. m
  OBVIOUS
<1>1. 0 \in A
  <2>1. F[0] = start
    BY <1>m DEF WalkBy
  <2> HIDE DEF m
  <2> QED BY <2>1
<1>2. ASSUME NEW n \in A PROVE n + 1 \in A
  <2>1. SUFFICES ASSUME n + 1 <= m PROVE WalkFits(g, current, done, F[n + 1])
    OBVIOUS
  <2>2. n \in Nat /\ n + 1 \in 1 .. m /\ WalkFits(g, current, done, F[n])
    BY <1>m, <2>1
  <2>3. F[n + 1] = TakeBack(g, F[n], latest[n + 1], absent)
    <3>1. n + 1 \in 0 .. m /\ n + 1 # 0 /\ (n + 1) - 1 = n
      BY <2>2, <1>m
    <3> HIDE DEF m, A
    <3> QED BY <3>1 DEF WalkBy, m
  <2>4. latest[n + 1] \in DOMAIN g.records
    BY <1>m, <2>2
  <2> HIDE DEF A
  <2> QED BY <2>2, <2>3, <2>4, TakeBackFits
<1>3. A = Nat
  <2>1. A \subseteq Nat
    OBVIOUS
  <2> HIDE DEF A
  <2> QED BY <1>1, <1>2, <2>1, NaturalSets
<1>4. m \in A
  BY <1>3, <1>m
<1> QED BY <1>4, <1>m

(* A component taken back, or left alone.                                  *)
LEMMA ComponentFits ==
  ASSUME NEW g, GraphFormed(g), NEW current, NEW s, WalkFits(g, current, <<>>, s),
         NEW component \in SUBSET DOMAIN g.records
  PROVE  WalkFits(g, current, <<>>, TakeBackComponent(g, s, component, current))
<1> DEFINE rules  == {i \in component : g.records[i].x.type = "policy"}
           absent == {g.records[i].x.at[3] : i \in rules}
           latest == InOrder(component, {p \in component \X component : p[1] > p[2]})
           start  == [c |-> s.c, already |-> {}, put |-> <<>>,
                      bad |-> component \in s.bad \/ Hopeless(g, component, current)]
           m == Len(latest)
           F == CHOOSE F : WalkBy(g, start, latest, absent, F, m)
           end == F[m]
           t == TakeBackComponent(g, s, component, current)
<1>1. latest \in Seq(component)
  <2>1. IsFiniteSet(component)
    <3>1. IsFiniteSet(DOMAIN g.records)
      BY FS_Interval DEF GraphFormed, RecordsFormed
    <3> QED BY <3>1, FS_Subset
  <2> QED BY <2>1, InOrderLined DEF Lined
<1>2. latest \in Seq(DOMAIN g.records) /\ m \in Nat
  <2> HIDE DEF latest
  <2> QED BY <1>1, SeqMonotonic
<1>3. WalkBy(g, start, latest, absent, F, m)
  <2> HIDE DEF start, latest, absent
  <2> QED BY <1>2, WalkExists DEF m
<1>4. t = KeptIfGood(s, component, end)
  BY DEF TakeBackComponent, WalkBy
<1>5. /\ DOMAIN s = {"c", "already", "put", "bad"} /\ s.put \in Seq(DOMAIN g.records)
      /\ PutFits(g, current, s.c, s.put)
  BY DEF WalkFits
<1>6. WalkFits(g, current, s.put, start)
  <2>1. /\ DOMAIN start = {"c", "already", "put", "bad"} /\ start.put = <<>> /\ start.c = s.c
    OBVIOUS
  <2>2. s.put \o <<>> = s.put /\ <<>> \in Seq(DOMAIN g.records)
    BY <1>5
  <2> HIDE DEF start
  <2> QED BY <1>5, <2>1, <2>2 DEF WalkFits
<1> HIDE DEF F, start, latest, absent
<1>7. WalkFits(g, current, s.put, end)
  BY <1>2, <1>3, <1>6, WalkKeeps
<1> HIDE DEF t, end
<1>8. CASE end.bad
  <2>1. t.c = s.c /\ t.put = s.put /\ DOMAIN t = DOMAIN s
    BY <1>4, <1>5, <1>8 DEF KeptIfGood
  <2>2. WalkFits(g, current, <<>>, t)
    BY <1>5, <2>1 DEF WalkFits
  <2> QED BY <2>2 DEF t
<1>9. CASE ~end.bad
  <2>1. t.c = end.c /\ t.put = s.put \o end.put /\ DOMAIN t = DOMAIN s
    BY <1>4, <1>5, <1>9 DEF KeptIfGood
  <2>2. /\ end.put \in Seq(DOMAIN g.records) /\ PutFits(g, current, end.c, s.put \o end.put)
    BY <1>7 DEF WalkFits
  <2>3. s.put \o end.put \in Seq(DOMAIN g.records)
    BY <1>5, <2>2, ConcatProperties
  <2>4. <<>> \o (s.put \o end.put) = s.put \o end.put /\ <<>> \in Seq(DOMAIN g.records)
    BY <2>3
  <2>5. WalkFits(g, current, <<>>, t)
    BY <1>5, <2>1, <2>2, <2>3, <2>4 DEF WalkFits
  <2> QED BY <2>5 DEF t
<1> QED BY <1>8, <1>9

WalksBy(g, start, all, current, F, n) ==
  F = [i \in 0 .. n |-> IF i = 0 THEN start ELSE TakeBackComponent(g, F[i - 1], all[i], current)]

LEMMA WalksExists ==
  ASSUME NEW g, NEW start, NEW all, NEW current, NEW m \in Nat
  PROVE  \E F : WalksBy(g, start, all, current, F, m)
<1> DEFINE A == {n \in Nat : \E F : WalksBy(g, start, all, current, F, n)}
<1>1. 0 \in A
  <2> DEFINE F0 == [i \in 0 .. 0 |-> start]
  <2>1. WalksBy(g, start, all, current, F0, 0)
    BY DEF WalksBy
  <2> QED BY <2>1
<1>2. ASSUME NEW n \in A PROVE n + 1 \in A
  <2>1. n \in Nat /\ \E F : WalksBy(g, start, all, current, F, n)
    OBVIOUS
  <2>2. PICK F : WalksBy(g, start, all, current, F, n)
    BY <2>1
  <2> DEFINE H == [i \in 0 .. n + 1 |-> IF i = n + 1 THEN TakeBackComponent(g, F[n], all[n + 1], current) ELSE F[i]]
  <2>3. \A i \in 0 .. n + 1 :
          H[i] = IF i = 0 THEN start ELSE TakeBackComponent(g, H[i - 1], all[i], current)
    <3> TAKE i \in 0 .. n + 1
    <3>1. CASE i = n + 1
      <4>1. i # 0 /\ i - 1 = n /\ H[n + 1] = TakeBackComponent(g, F[n], all[n + 1], current) /\ H[n] = F[n]
        BY <2>1, <3>1
      <4> HIDE DEF H
      <4> QED BY <3>1, <4>1
    <3>2. CASE i \in 0 .. n
      <4>1. H[i] = F[i] /\ (i # 0 => H[i - 1] = F[i - 1])
        BY <2>1, <3>2
      <4>2. F[i] = IF i = 0 THEN start ELSE TakeBackComponent(g, F[i - 1], all[i], current)
        <5> HIDE DEF H, A
        <5> QED BY <2>2, <3>2 DEF WalksBy
      <4> HIDE DEF H
      <4> QED BY <4>1, <4>2
    <3> QED BY <2>1, <3>1, <3>2
  <2>4. WalksBy(g, start, all, current, H, n + 1)
    <3>1. H = [i \in 0 .. n + 1 |-> H[i]]
      OBVIOUS
    <3> HIDE DEF H
    <3> QED BY <2>3, <3>1 DEF WalksBy
  <2> HIDE DEF H
  <2> QED BY <2>1, <2>4
<1>3. A = Nat
  <2>1. A \subseteq Nat
    OBVIOUS
  <2> HIDE DEF A
  <2> QED BY <1>1, <1>2, <2>1, NaturalSets
<1>4. m \in A
  BY <1>3
<1> QED BY <1>4

(* Whatever is held to be bad, what is put back fits.                      *)
LEMMA TakenBackFits ==
  ASSUME NEW g, GraphFormed(g), NEW current, WellFormed(current),
         NEW components, IsFiniteSet(components), \A k \in components : k \subseteq DOMAIN g.records,
         NEW bad
  PROVE  LET back == TakenBack(g, components, current, bad)
         IN  PutFits(g, current, back.c, back.put)
<1> DEFINE all == InSomeOrder(components)
           m == Len(all)
           start == [c |-> current, bad |-> bad, already |-> {}, put |-> <<>>]
           F == CHOOSE F : WalksBy(g, start, all, current, F, m)
           A == {n \in Nat : n <= m => WalkFits(g, current, <<>>, F[n])}
<1>1. all \in Seq(components) /\ m \in Nat /\ DOMAIN all = 1 .. m
  BY InSomeOrderLined
<1>2. WalksBy(g, start, all, current, F, m)
  <2> HIDE DEF start, all
  <2> QED BY <1>1, WalksExists
<1>3. TakenBack(g, components, current, bad) = F[m]
  BY DEF TakenBack, WalksBy
<1>4. WalkFits(g, current, <<>>, start)
  <2>1. /\ DOMAIN start = {"c", "already", "put", "bad"} /\ start.put = <<>> /\ start.c = current
    OBVIOUS
  <2>2. <<>> \in Seq(DOMAIN g.records) /\ <<>> \o <<>> = <<>> /\ DOMAIN <<>> = {}
    OBVIOUS
  <2>3. PutFits(g, current, current, <<>>)
    BY <2>2 DEF PutFits, StillHeld, PutThere, PutOnce, NamesPut, RulesInTurn
  <2> HIDE DEF start
  <2> QED BY <2>1, <2>2, <2>3 DEF WalkFits
<1> HIDE DEF F, start
<1>5. 0 \in A
  <2>1. F[0] = start
    BY <1>1, <1>2 DEF WalksBy
  <2> HIDE DEF m
  <2> QED BY <1>4, <2>1
<1>6. ASSUME NEW n \in A PROVE n + 1 \in A
  <2>1. SUFFICES ASSUME n + 1 <= m PROVE WalkFits(g, current, <<>>, F[n + 1])
    OBVIOUS
  <2>2. n \in Nat /\ n + 1 \in 1 .. m /\ WalkFits(g, current, <<>>, F[n])
    BY <1>1, <2>1
  <2>3. F[n + 1] = TakeBackComponent(g, F[n], all[n + 1], current)
    <3>1. n + 1 \in 0 .. m /\ n + 1 # 0 /\ (n + 1) - 1 = n
      BY <2>2, <1>1
    <3> HIDE DEF all, A
    <3> QED BY <1>2, <3>1 DEF WalksBy
  <2>4. all[n + 1] \in components
    <3> HIDE DEF all
    <3> QED BY <1>1, <2>2
  <2> HIDE DEF A, all
  <2> QED BY <2>2, <2>3, <2>4, ComponentFits
<1>7. A = Nat
  <2>1. A \subseteq Nat
    OBVIOUS
  <2> HIDE DEF A
  <2> QED BY <1>5, <1>6, <2>1, NaturalSets
<1>8. WalkFits(g, current, <<>>, F[m])
  <2>1. m \in A
    BY <1>1, <1>7
  <2> HIDE DEF all
  <2> QED BY <1>1, <2>1
<1>9. \A q \in Seq(DOMAIN g.records) : <<>> \o q = q
  OBVIOUS
<1> HIDE DEF all
<1> QED BY <1>3, <1>8, <1>9 DEF WalkFits

(***************************************************************************)
(* The patch of a restore                                                  *)
(***************************************************************************)
(* Mutations of one target.                                                *)
OneTarget(x, y) == y.type = x.type /\ y.at = x.at /\ y.field = x.field /\ y.name = x.name

LEMMA OfOneTarget ==
  ASSUME NEW x, NEW y, OneTarget(x, y), x.type \in Types
  PROVE  /\ Owner(y) = Owner(x) /\ (IsMember(y) <=> IsMember(x))
         /\ \A c : Holds(c, y) <=> Holds(c, x)
         /\ \A c, was : HoldsAsIn(c, was, y) <=> HoldsAsIn(c, was, x)
<1>1. Owner(y) = Owner(x) /\ (IsMember(y) <=> IsMember(x))
  BY DEF OneTarget, Owner, IsMember
<1>2. ASSUME NEW c PROVE Holds(c, y) <=> Holds(c, x)
  BY DEF OneTarget, Holds, Types
<1>3. ASSUME NEW c, NEW was PROVE HoldsAsIn(c, was, y) <=> HoldsAsIn(c, was, x)
  BY <1>2 DEF HoldsAsIn, OneTarget
<1> QED BY <1>1, <1>2, <1>3

LEMMA ApartAsTargets ==
  ASSUME NEW x, NEW y, NEW v, NEW w, OneTarget(x, v), OneTarget(y, w),
         x.type \in Types, y.type \in Types, NEW was, PutApart(was, x, y)
  PROVE  PutApart(was, v, w)
<1>1. /\ Owner(v) = Owner(x) /\ (IsMember(v) <=> IsMember(x))
      /\ Owner(w) = Owner(y) /\ (IsMember(w) <=> IsMember(y))
      /\ Holds(was, w) <=> Holds(was, y)
  BY OfOneTarget
<1>2. Distinct(x, y) => Distinct(v, w)
  BY <1>1 DEF Distinct, OneTarget
<1> QED BY <1>1, <1>2 DEF PutApart

(* A restore that puts back one mutation after the other what its sources  *)
(* took: RestoreFits, for any sessions.                                    *)
PutPlanFits(ss, s) ==
  /\ s.patch \in Seq(Range(s.patch))
  /\ \A j \in DOMAIN s.patch :
       LET x == s.patch[j]
       IN  /\ DOMAIN x = DOMAIN Mutation(x.type, x.at, {}) /\ Plain(x)
           /\ ~Holds(s.was, x) /\ x.from \in DOMAIN ss
           /\ HoldsAsIn(ss[x.from].was, ss[x.from].was, x)
           /\ x.type = "policy" =>
                /\ x.among = RuleNames(s.was, x.at)
                /\ \/ NoRule(x.before)
                   \/ x.before \in Range(RuleNames(s.was, x.at))
                   \/ \E i \in DOMAIN s.patch :
                        /\ i < j /\ InOneRulebase(s.patch[i], x)
                        /\ s.patch[i].component = x.component /\ s.patch[i].at[3] = x.before
  /\ \A i, j \in DOMAIN s.patch : i < j =>
       PutApart(ss[s.patch[i].from].was, s.patch[i], s.patch[j])

LEMMA PutPlanIsFit ==
  ASSUME NEW s, s.kind # "cleanup", PutPlanFits(sessions, s)
  PROVE  Fits(s)
<1>0. s.patch \in Seq(Range(s.patch)) /\ DOMAIN s.patch = 1 .. Len(s.patch) /\ Len(s.patch) \in Nat
  BY DEF PutPlanFits
<1>1. ASSUME NEW x \in Range(s.patch)
      PROVE  /\ DOMAIN x = DOMAIN Mutation(x.type, x.at, {})
             /\ x.type \in {"policy-member", "group-member", "policy", "group", "address"}
             /\ x.type = "policy-member" => x.field \in Fields
             /\ ~Holds(s.was, x) /\ x.from \in DOMAIN sessions
             /\ HoldsAsIn(sessions[x.from].was, sessions[x.from].was, x)
             /\ x.type = "policy" => x.among = RuleNames(s.was, x.at)
  <2>1. PICK j \in DOMAIN s.patch : s.patch[j] = x
    BY DEF Range
  <2> QED BY <2>1 DEF PutPlanFits, Plain, Types
<1>2. ASSUME NEW i \in DOMAIN s.patch, NEW j \in DOMAIN s.patch, i < j
      PROVE  LET x == s.patch[i]
                 y == s.patch[j]
             IN  IF Owner(x) = Owner(y) /\ IsMember(y) /\ ~IsMember(x)
                 THEN ~Holds(sessions[x.from].was, y)
                 ELSE Distinct(x, y)
  BY <1>2 DEF PutPlanFits, PutApart
<1>3. ASSUME NEW j \in DOMAIN s.patch, s.patch[j].type = "policy"
      PROVE  LET y == s.patch[j]
             IN  y.before \in {""} \cup Range(RuleNames(s.was, y.at))
                   \cup {x.at[3] : x \in {s.patch[i] : i \in {i \in 1 .. j - 1 :
                           /\ InOneRulebase(s.patch[i], y)
                           /\ s.patch[i].component = y.component}}}
  <2> DEFINE y == s.patch[j]
             earlier == {i \in 1 .. j - 1 : /\ InOneRulebase(s.patch[i], y)
                                            /\ s.patch[i].component = y.component}
             names == {x.at[3] : x \in {s.patch[i] : i \in earlier}}
  <2>1. \/ NoRule(y.before)
        \/ y.before \in Range(RuleNames(s.was, y.at))
        \/ \E i \in DOMAIN s.patch :
             /\ i < j /\ InOneRulebase(s.patch[i], y)
             /\ s.patch[i].component = y.component /\ s.patch[i].at[3] = y.before
    BY <1>3 DEF PutPlanFits
  <2>2. ASSUME NEW i \in DOMAIN s.patch, i < j, InOneRulebase(s.patch[i], y),
               s.patch[i].component = y.component, s.patch[i].at[3] = y.before
        PROVE  y.before \in names
    <3>1. i \in earlier
      BY <1>0, <2>2
    <3> HIDE DEF earlier
    <3> QED BY <2>2, <3>1
  <2> HIDE DEF names, earlier
  <2>3. NoRule(y.before) \/ y.before \in Range(RuleNames(s.was, y.at)) \/ y.before \in names
    BY <2>1, <2>2
  <2>4. y.before \in {""} \cup Range(RuleNames(s.was, y.at)) \cup names
    <3> HIDE DEF y
    <3> QED BY <2>3, Zenon DEF NoRule
  <2> QED BY <2>4 DEF names, earlier
<1>4. RestoreFits(s)
  <2>1. \A x \in Range(s.patch) :
          /\ ~Holds(s.was, x) /\ x.from \in DOMAIN sessions
          /\ HoldsAsIn(sessions[x.from].was, sessions[x.from].was, x)
          /\ x.type = "policy" => x.among = RuleNames(s.was, x.at)
    BY <1>1
  <2> QED BY <1>2, <1>3, <2>1, Zenon DEF RestoreFits
<1> QED BY <1>0, <1>1, <1>4, Zenon DEF Fits

(* The sessions of a history are those whose mutations a graph holds.      *)
HistoryOf(g, ss) ==
  \A i \in DOMAIN g.history :
    g.history[i].id \in DOMAIN ss /\ g.history[i].was = ss[g.history[i].id].was

LEMMA RestorePatchFits ==
  ASSUME NEW g, GraphFormed(g), NEW ss, HistoryOf(g, ss),
         NEW selected \in SUBSET DOMAIN g.records,
         NEW current, NEW back, PutFits(g, current, back.c, back.put),
         NEW s, s.was = current,
         s.patch = RestorePatch(g, RestoreComponents(g, selected), current, back)
  PROVE  PutPlanFits(ss, s)
<1> DEFINE put == back.put
           q == s.patch
           components == RestoreComponents(g, selected)
           id(j) == g.history[g.records[put[j]].from].id
<1>1. put \in Seq(DOMAIN g.records) /\ Len(put) \in Nat /\ DOMAIN put = 1 .. Len(put)
  BY DEF PutFits
<1>2. q = [j \in 1 .. Len(put) |-> q[j]] /\ DOMAIN q = 1 .. Len(put)
  BY <1>1 DEF RestorePatch
<1>3. q \in Seq(Range(q))
  <2>1. \A j \in 1 .. Len(put) : q[j] \in Range(q)
    BY <1>2 DEF Range
  <2> HIDE DEF q
  <2>2. [j \in 1 .. Len(put) |-> q[j]] \in Seq(Range(q))
    BY <1>1, <2>1
  <2> QED BY <1>2, <2>2
<1>4. ASSUME NEW j \in DOMAIN put
      PROVE  LET x == PutAs(g, put, j)
             IN  /\ FitEntry(WasOf(g, put[j]), x) /\ Plain(x)
                 /\ OneTarget(x, q[j]) /\ DOMAIN q[j] = DOMAIN x /\ q[j].before = x.before
                 /\ q[j].component = CausesIn(g, ComponentOf(components, put[j]))
                 /\ q[j].from = id(j)
                 /\ x.type = "policy" => q[j].among = RuleNames(current, x.at)
                 /\ id(j) \in DOMAIN ss /\ WasOf(g, put[j]) = ss[id(j)].was
  <2> DEFINE x == PutAs(g, put, j)
             y == [x EXCEPT !.component = CausesIn(g, ComponentOf(components, put[j])), !.from = id(j)]
             beside == Beside(back.c, x.at)
  <2>1. put[j] \in DOMAIN g.records
    BY <1>1
  <2>2. FitEntry(WasOf(g, put[j]), x) /\ Plain(x)
    BY <2>1 DEF GraphFormed, PutAs, FitEntry, Plain
  <2>3. id(j) \in DOMAIN ss /\ WasOf(g, put[j]) = ss[id(j)].was
    BY <2>1 DEF GraphFormed, HistoryOf, WasOf
  <2>4. q[j] = IF x.type # "policy" THEN y
               ELSE [y EXCEPT !.prev = beside[1], !.next = beside[2],
                              !.among = RuleNames(current, x.at)]
    BY DEF RestorePatch, PutAs
  <2>5. {"type", "at", "field", "name", "among", "prev", "next", "before", "component", "from"}
           \subseteq DOMAIN x
    BY <2>2 DEF FitEntry, Mutation
  <2> HIDE DEF x, q, components, beside, id
  <2>6. /\ DOMAIN y = DOMAIN x /\ y.type = x.type /\ y.at = x.at /\ y.field = x.field
        /\ y.name = x.name /\ y.before = x.before /\ y.from = id(j)
        /\ y.component = CausesIn(g, ComponentOf(components, put[j]))
    BY <2>5
  <2> HIDE DEF y
  <2>7. /\ OneTarget(x, q[j]) /\ DOMAIN q[j] = DOMAIN x /\ q[j].before = x.before
        /\ q[j].component = CausesIn(g, ComponentOf(components, put[j]))
        /\ q[j].from = id(j)
        /\ x.type = "policy" => q[j].among = RuleNames(current, x.at)
    BY <2>4, <2>5, <2>6 DEF OneTarget
  <2> QED BY <2>2, <2>3, <2>7 DEF x
<1>5. ASSUME NEW i \in DOMAIN put, NEW j \in DOMAIN put, PutAs(g, put, i).type = "policy",
             PutAs(g, put, j).type = "policy", Base(PutAs(g, put, i).at) = Base(PutAs(g, put, j).at),
             PutAs(g, put, i).at[3] = PutAs(g, put, j).before
      PROVE  q[i].component = q[j].component
  <2>1. PutAs(g, put, j).before = PutAs(g, put, j).next
    BY <1>4, <1>5 DEF FitEntry
  <2>2. Neighbours(PutAs(g, put, j), PutAs(g, put, i))
    BY <1>5, <2>1 DEF Neighbours
  <2>3. Tied(g, put[j], put[i])
    BY <2>2 DEF Tied, PutAs
  <2>4. ComponentOf(components, put[j]) = ComponentOf(components, put[i])
    BY <1>1, <2>3, TiedInOne DEF GraphFormed
  <2> QED BY <1>4, <2>4
<1> HIDE DEF q, components, id
<1>6. ASSUME NEW j \in DOMAIN q
      PROVE  LET x == q[j]
             IN  /\ DOMAIN x = DOMAIN Mutation(x.type, x.at, {}) /\ Plain(x)
                 /\ ~Holds(s.was, x) /\ x.from \in DOMAIN ss
                 /\ HoldsAsIn(ss[x.from].was, ss[x.from].was, x)
                 /\ x.type = "policy" =>
                      /\ x.among = RuleNames(s.was, x.at)
                      /\ \/ NoRule(x.before)
                         \/ x.before \in Range(RuleNames(s.was, x.at))
                         \/ \E i \in DOMAIN q :
                              /\ i < j /\ InOneRulebase(q[i], x)
                              /\ q[i].component = x.component /\ q[i].at[3] = x.before
  <2> DEFINE x == PutAs(g, put, j)
             y == q[j]
  <2>0. j \in DOMAIN put
    BY <1>1, <1>2
  <2>1. /\ FitEntry(WasOf(g, put[j]), x) /\ Plain(x)
        /\ OneTarget(x, y) /\ DOMAIN y = DOMAIN x /\ y.before = x.before
        /\ y.from = id(j)
        /\ x.type = "policy" => y.among = RuleNames(current, x.at)
        /\ id(j) \in DOMAIN ss /\ WasOf(g, put[j]) = ss[id(j)].was
    BY <2>0, <1>4
  <2>2. ~Holds(current, x)
    BY <2>0 DEF PutFits, PutThere
  <2>3. DOMAIN y = DOMAIN Mutation(y.type, y.at, {}) /\ Plain(y)
    <3>1. DOMAIN Mutation(y.type, y.at, {}) = DOMAIN Mutation(x.type, x.at, {})
      BY DEF Mutation
    <3> QED BY <2>1, <3>1 DEF FitEntry, Plain, OneTarget
  <2>4. ~Holds(s.was, y) /\ HoldsAsIn(ss[y.from].was, ss[y.from].was, y)
    BY <2>1, <2>2, OfOneTarget DEF FitEntry
  <2>5. ASSUME y.type = "policy"
        PROVE  /\ y.among = RuleNames(s.was, y.at)
               /\ \/ NoRule(y.before)
                  \/ y.before \in Range(RuleNames(s.was, y.at))
                  \/ \E i \in DOMAIN q :
                       /\ i < j /\ InOneRulebase(q[i], y)
                       /\ q[i].component = y.component /\ q[i].at[3] = y.before
    <3>1. x.type = "policy" /\ y.at = x.at /\ y.before = x.before
      BY <2>1, <2>5 DEF OneTarget
    <3>2. \/ NoRule(x.before)
          \/ x.before \in Range(RuleNames(current, x.at))
          \/ RulePut(g, put, j, Base(x.at), x.before)
      BY <2>0, <3>1 DEF PutFits, RulesInTurn
    <3>3. ASSUME RulePut(g, put, j, Base(x.at), x.before)
          PROVE  \E i \in DOMAIN q :
                   /\ i < j /\ InOneRulebase(q[i], y)
                   /\ q[i].component = y.component /\ q[i].at[3] = y.before
      <4>1. PICK i \in DOMAIN put :
              i < j /\ PutAs(g, put, i).type = "policy" /\ Base(PutAs(g, put, i).at) = Base(x.at)
                    /\ PutAs(g, put, i).at[3] = x.before
        BY <3>3 DEF RulePut
      <4>2. q[i].component = y.component
        BY <2>0, <3>1, <4>1, <1>5
      <4>3. q[i].type = "policy" /\ q[i].at = PutAs(g, put, i).at
        BY <4>1, <1>4 DEF OneTarget
      <4>4. InOneRulebase(q[i], y) /\ q[i].at[3] = y.before /\ i \in DOMAIN q
        BY <1>1, <1>2, <2>5, <3>1, <4>1, <4>3 DEF InOneRulebase
      <4> QED BY <4>1, <4>2, <4>4
    <3> QED BY <2>1, <3>1, <3>2, <3>3
  <2> HIDE DEF x, y
  <2>6. y.from \in DOMAIN ss
    BY <2>1
  <2> QED BY <2>3, <2>4, <2>5, <2>6 DEF y
<1>7. ASSUME NEW i \in DOMAIN q, NEW j \in DOMAIN q, i < j
      PROVE  PutApart(ss[q[i].from].was, q[i], q[j])
  <2>1. i \in DOMAIN put /\ j \in DOMAIN put
    BY <1>1, <1>2
  <2>2. PutApart(WasOf(g, put[i]), PutAs(g, put, i), PutAs(g, put, j))
    BY <1>7, <2>1 DEF PutFits, PutOnce
  <2>3. /\ OneTarget(PutAs(g, put, i), q[i]) /\ OneTarget(PutAs(g, put, j), q[j])
        /\ PutAs(g, put, i).type \in Types /\ PutAs(g, put, j).type \in Types
        /\ WasOf(g, put[i]) = ss[q[i].from].was
    BY <1>4, <2>1 DEF Plain
  <2> QED BY ONLY <2>2, <2>3, ApartAsTargets
<1> QED BY <1>3, <1>6, <1>7 DEF PutPlanFits, q

LEMMA RestorePlanFits ==
  ASSUME NEW g, GraphFormed(g), NEW ss, HistoryOf(g, ss),
         NEW selected \in SUBSET DOMAIN g.records,
         NEW now, NEW current, WellFormed(current),
         NEW s, s.was = current, s.patch = RestorePlan(g, selected, now, current).patch
  PROVE  PutPlanFits(ss, s)
<1> DEFINE components == RestoreComponents(g, selected)
           committed == \A i \in selected : g.history[g.records[i].from].final
           static == {k \in components : \E i \in k :
                        Broken(g, selected, committed, now, current, i)}
           back == TakenBackOn(g, components, committed, static, now, current)
<1>1. RestorePlan(g, selected, now, current).patch = RestorePatch(g, components, current, back)
  BY DEF RestorePlan, PlanOfComponents, PlanFrom
<1>2. \E bad : back = TakenBack(g, components, current, bad)
  <2> HIDE DEF components, committed, static
  <2> QED BY DEF TakenBackOn, Attempt
<1>3. IsFiniteSet(components)
  <2>1. IsFiniteSet(DOMAIN g.records)
    BY FS_Interval DEF GraphFormed, RecordsFormed
  <2>2. IsFiniteSet(selected)
    BY <2>1, FS_Subset
  <2> DEFINE f == [i \in selected |-> TiedTo(g, {i})]
  <2>3. IsFiniteSet({f[i] : i \in selected})
    <3> HIDE DEF f
    <3> QED BY <2>2, FiniteImage
  <2>4. components = {f[i] : i \in selected}
    BY DEF RestoreComponents
  <2> QED BY <2>3, <2>4
<1>4. \A k \in components : k \subseteq DOMAIN g.records
  <2> SUFFICES ASSUME NEW i \in selected PROVE TiedTo(g, {i}) \subseteq DOMAIN g.records
    BY DEF RestoreComponents
  <2>1. {i} \in SUBSET DOMAIN g.records
    OBVIOUS
  <2> QED BY <2>1, TiedFrom DEF GraphFormed
<1> HIDE DEF back
<1>5. PutFits(g, current, back.c, back.put)
  <2> HIDE DEF components
  <2> QED BY <1>2, <1>3, <1>4, TakenBackFits
<1>6. s.patch = RestorePatch(g, components, current, back)
  BY <1>1
<1> QED BY <1>5, <1>6, RestorePatchFits

(***************************************************************************)
(* The plans of all sessions                                               *)
(***************************************************************************)
PlanSound(ss, s) ==
  /\ s.kind = "cleanup" => CutFits(s)
  /\ s.kind # "cleanup" => PutPlanFits(ss, s)
  /\ s.applied \in Seq(Range(s.patch))
  /\ s.state = "PLANNED" => s.applied = <<>>

PlansSound(ss) == \A i \in DOMAIN ss : PlanSound(ss, ss[i])

LEMMA SoundPlansFit ==
  ASSUME PlansSound(sessions)
  PROVE  PlansFit
<1> SUFFICES ASSUME NEW s \in Range(sessions) PROVE Fits(s)
  BY DEF PlansFit
<1>1. PlanSound(sessions, s)
  BY DEF PlansSound, Range
<1>2. CASE s.kind = "cleanup"
  <2>1. CutFits(s)
    BY <1>1, <1>2 DEF PlanSound
  <2> QED BY ONLY <2>1 DEF CutFits, Fits
<1>3. CASE s.kind # "cleanup"
  BY <1>1, <1>3, PutPlanIsFit DEF PlanSound
<1> QED BY <1>2, <1>3

(* A plan stays sound while its session moves and others are made.         *)
LEMMA StaysSound ==
  ASSUME NEW ss, NEW s, PlanSound(ss, s), NEW t, OnceMade(s, t), NEW tt,
         DOMAIN ss \subseteq DOMAIN tt, \A j \in DOMAIN ss : tt[j].was = ss[j].was
  PROVE  PlanSound(tt, t)
<1>1. t.kind = s.kind /\ t.was = s.was /\ t.patch = s.patch
  BY DEF OnceMade, SamePlan
<1>2. t.kind = "cleanup" => CutFits(t)
  BY <1>1 DEF PlanSound, CutFits, CleanupFits
<1>3. ASSUME t.kind # "cleanup" PROVE PutPlanFits(tt, t)
  <2>1. PutPlanFits(ss, s)
    BY <1>1, <1>3 DEF PlanSound
  <2>2. \A j \in DOMAIN s.patch : s.patch[j].from \in DOMAIN ss
                                   /\ tt[s.patch[j].from].was = ss[s.patch[j].from].was
    BY <2>1 DEF PutPlanFits
  <2> QED BY <1>1, <2>1, <2>2 DEF PutPlanFits
<1>4. t.applied \in Seq(Range(t.patch)) /\ (t.state = "PLANNED" => t.applied = <<>>)
  BY <1>1 DEF PlanSound, OnceMade
<1> QED BY <1>2, <1>3, <1>4 DEF PlanSound

LEMMA PublishSound ==
  ASSUME CycleInv, PlansSound(sessions), NEW s, Publish(s), PlanSound(sessions, s)
  PROVE  PlansSound(sessions')
<1>1. sessions' = Append(sessions, s) /\ sessions \in Seq(Range(sessions) \cup {s})
  BY DEF Publish, CycleInv, SessionsFormed
<1>2. /\ DOMAIN sessions \subseteq DOMAIN sessions'
      /\ \A j \in DOMAIN sessions : sessions'[j] = sessions[j]
      /\ \A j \in DOMAIN sessions' : j \in DOMAIN sessions \/ sessions'[j] = s
  BY <1>1
<1>3. \A t : OnceMade(t, t)
  BY DEF OnceMade, SamePlan
<1>4. \A t : PlanSound(sessions, t) => PlanSound(sessions', t)
  <2> SUFFICES ASSUME NEW t, PlanSound(sessions, t) PROVE PlanSound(sessions', t)
    OBVIOUS
  <2> DEFINE tt == sessions'
  <2>1. DOMAIN sessions \subseteq DOMAIN tt /\ \A j \in DOMAIN sessions : tt[j].was = sessions[j].was
    BY <1>2
  <2> HIDE DEF tt
  <2>2. PlanSound(tt, t)
    BY <1>3, <2>1, StaysSound
  <2> QED BY <2>2 DEF tt
<1> QED BY <1>2, <1>4 DEF PlansSound

(* A cleanup planned.                                                      *)
LEMMA PlanCleanupSound ==
  ASSUME CycleInv, PlansSound(sessions), NEW ask \in Scenes[scene].asks, PlanCleanup(ask)
  PROVE  PlansSound(sessions')
<1>1. WellFormed(running) /\ IsFiniteSet(ask.ips)
  BY ScenesAssumption DEF CycleInv, Range
<1> DEFINE patch == Patch(Model(running), SafePlan(Model(running), ask))
           s == Session("cleanup", ask, running, patch)
<1>2. Publish(s)
  <2> HIDE DEF patch
  <2> QED BY DEF PlanCleanup, patch
<1>3. s.kind = "cleanup" /\ s.was = running /\ s.patch = CleanupPatch(Model(running), ask)
      /\ s.applied = <<>>
  BY DEF Session, CleanupPatch
<1> HIDE DEF s
<1>4. PlanSound(sessions, s)
  <2>1. CutFits(s)
    BY <1>1, <1>3, CleanupPlanFits
  <2>2. s.applied \in Seq(Range(s.patch))
    BY <1>3
  <2> QED BY <1>3, <2>1, <2>2 DEF PlanSound
<1> QED BY <1>2, <1>4, PublishSound

(* A part cut from a plan.                                                 *)
LEMMA ChildSound ==
  ASSUME CycleInv, PlansSound(sessions), NEW s \in Range(sessions), NEW C, NEW ask,
         Child(s, Keeping(s.patch, C), ask)
  PROVE  PlansSound(sessions')
<1> DEFINE q == Keeping(s.patch, C)
           t == [s EXCEPT !.patch = q, !.root = FALSE, !.ask = ask]
<1>1. s.kind = "cleanup" /\ s.state = "PLANNED" /\ Publish(t)
  BY DEF Child
<1>2. CutFits(s) /\ s.applied = <<>>
  BY <1>1 DEF PlansSound, PlanSound, Range
<1>3. DOMAIN s = SessionFields
  BY DEF CycleInv, SessionsFormed, Range
<1> HIDE DEF q
<1>4. t.kind = s.kind /\ t.was = s.was /\ t.patch = q /\ t.applied = <<>>
  BY <1>2, <1>3 DEF SessionFields
<1> HIDE DEF t
<1>5. CutFits(t)
  BY <1>1, <1>2, <1>4, PartFits DEF q
<1>6. t.applied \in Seq(Range(t.patch))
  BY <1>4
<1>7. PlanSound(sessions, t)
  BY <1>1, <1>4, <1>5, <1>6 DEF PlanSound
<1> QED BY <1>1, <1>7, PublishSound

(* The history of a restore is of cleanups whose plans fit.                *)
LEMMA HistoryFits ==
  ASSUME CycleInv, PlansSound(sessions)
  PROVE  /\ HistoryFormed(History)
         /\ \A i \in DOMAIN History :
              /\ History[i].id \in DOMAIN sessions
              /\ History[i].was = sessions[History[i].id].was
<1> DEFINE applied == {i \in DOMAIN sessions :
                         sessions[i].kind = "cleanup" /\ sessions[i].state \in Stable}
           ids == HistoryIds
           h == History
<1>1. ids \in Seq(DOMAIN sessions) /\ \E p : KeptOf(ids, line, applied, Len(line), p)
  BY AmongKeeps DEF CycleInv, HistoryIds
<1>2. /\ Len(ids) \in Nat /\ DOMAIN ids = 1 .. Len(ids)
      /\ \A j \in DOMAIN ids : ids[j] \in applied
  <2> HIDE DEF ids, applied
  <2> QED BY <1>1 DEF KeptOf
<1>3. h = [j \in 1 .. Len(ids) |-> h[j]] /\ DOMAIN h = 1 .. Len(ids) /\ Len(h) = Len(ids)
  BY <1>2 DEF History
<1>4. ASSUME NEW j \in DOMAIN h
      PROVE  /\ h[j].id \in DOMAIN sessions /\ h[j].was = sessions[h[j].id].was
             /\ h[j].patch \in Seq(Range(h[j].patch)) /\ WellFormed(h[j].was)
             /\ \A x \in Range(h[j].patch) : FitEntry(h[j].was, x)
  <2> DEFINE i == ids[j]
             s == sessions[i]
  <2>1. i \in DOMAIN sessions /\ s.kind = "cleanup"
    <3> HIDE DEF h
    <3> QED BY <1>2, <1>3
  <2>2. h[j].id = i /\ h[j].was = s.was /\ h[j].patch = s.applied
    BY <1>2, <1>3 DEF History
  <2> HIDE DEF i
  <2>3. WellFormed(s.was) /\ CutFits(s) /\ s.applied \in Seq(Range(s.patch))
    BY <2>1 DEF CycleInv, SessionsFormed, PlansSound, PlanSound
  <2>4. \A x \in Range(s.patch) : FitEntry(s.was, x)
    BY <2>3 DEF CutFits, CleanupFits, FitEntry, Types
  <2> HIDE DEF h, s
  <2>5. s.applied \in Seq(Range(s.applied)) /\ Range(s.applied) \subseteq Range(s.patch)
    BY <2>3, OfItsRange
  <2> QED BY <2>1, <2>2, <2>3, <2>4, <2>5 DEF s
<1> HIDE DEF h, ids, applied
<1>5. HistoryFormed(h)
  BY <1>2, <1>3, <1>4 DEF HistoryFormed
<1> QED BY <1>4, <1>5 DEF h

LEMMA GraphFits ==
  ASSUME NEW history, HistoryFormed(history)
  PROVE  GraphFormed(Graph(history)) /\ Graph(history).history = history
<1> DEFINE g == Graph(history)
<1>1. g.history = history
  BY DEF Graph
<1>2. /\ Len(g.records) \in Nat /\ DOMAIN g.records = 1 .. Len(g.records)
      /\ \A n \in DOMAIN g.records : RecordFits(history, g.records[n])
  BY RecordsFit
<1> HIDE DEF g
<1>3. GraphFormed(g)
  BY <1>1, <1>2 DEF GraphFormed, RecordsFormed, WasOf, RecordFits, HistoryFormed
<1> QED BY <1>1, <1>3 DEF g

(* A restore planned.                                                      *)
LEMMA PlanRestoreSound ==
  ASSUME CycleInv, PlansSound(sessions), PlanRestore
  PROVE  PlansSound(sessions')
<1> DEFINE Restore(g, selected, plan) ==
             [Session("restore", sessions[HistoryIds[1]].ask, candidate, plan.patch) EXCEPT
                !.state = IF plan.patch # <<>> THEN "PLANNED"
                          ELSE IF plan.bad # {} THEN "CONFLICT" ELSE "RESTORED",
                !.sources = {<<i, sessions[i].state>> :
                               i \in {g.history[g.records[i].from].id : i \in selected}},
                !.seen = Range(HistoryIds), !.causes = plan.causes, !.guarded = plan.guarded]
           g == Graph(History)
<1>1. \E selected \in Selections(g) :
        Publish(Restore(g, selected, RestorePlan(g, selected, running, candidate)))
  <2>1. PICK h \in {Graph(History)} : \E selected \in Selections(h) :
          \E plan \in {RestorePlan(h, selected, running, candidate)} :
            Publish(Restore(h, selected, plan))
    BY DEF PlanRestore
  <2> HIDE DEF Restore
  <2>2. PICK selected \in Selections(g) :
          \E plan \in {RestorePlan(g, selected, running, candidate)} :
            Publish(Restore(g, selected, plan))
    BY <2>1
  <2>3. Publish(Restore(g, selected, RestorePlan(g, selected, running, candidate)))
    <3> HIDE DEF g
    <3> QED BY <2>2
  <2> HIDE DEF g
  <2> QED BY <2>3
<1>2. /\ GraphFormed(g) /\ g.history = History
      /\ HistoryOf(g, sessions)
  BY HistoryFits, GraphFits DEF HistoryOf
<1>3. PICK selected \in Selections(g) :
        Publish(Restore(g, selected, RestorePlan(g, selected, running, candidate)))
  BY <1>1
<1>4. selected \in SUBSET DOMAIN g.records
  <2>1. \A id : SeedsOf(g, id) \in SUBSET DOMAIN g.records
    BY DEF SeedsOf
  <2>2. \A targets : SeedsFor(g, targets) \in SUBSET DOMAIN g.records
    BY DEF SeedsFor
  <2>3. PICK seeds \in SUBSET DOMAIN g.records : selected = TiedTo(g, seeds)
    <3> HIDE DEF g
    <3> QED BY <1>3, <2>1, <2>2 DEF Selections
  <2> HIDE DEF g
  <2> QED BY <1>2, <2>3, TiedFrom DEF GraphFormed
<1> DEFINE plan == RestorePlan(g, selected, running, candidate)
           s == Restore(g, selected, plan)
<1>5. s.kind = "restore" /\ s.was = candidate /\ s.patch = plan.patch /\ s.applied = <<>>
  <2> DEFINE blank == Session("restore", sessions[HistoryIds[1]].ask, candidate, plan.patch)
             state == IF plan.patch # <<>> THEN "PLANNED"
                      ELSE IF plan.bad # {} THEN "CONFLICT" ELSE "RESTORED"
             sources == {<<i, sessions[i].state>> :
                           i \in {g.history[g.records[i].from].id : i \in selected}}
             seen == Range(HistoryIds)
  <2> HIDE DEF plan, g
  <2>1. /\ blank.kind = "restore" /\ blank.was = candidate /\ blank.patch = plan.patch
        /\ blank.applied = <<>> /\ {"kind", "was", "patch", "applied"} \subseteq DOMAIN blank
    BY DEF Session
  <2>2. s = [blank EXCEPT !.state = state, !.sources = sources, !.seen = seen,
                          !.causes = plan.causes, !.guarded = plan.guarded]
    OBVIOUS
  <2> HIDE DEF blank, state, sources, seen, s
  <2> QED BY <2>1, <2>2
<1> HIDE DEF Restore
<1>6. WellFormed(candidate)
  BY DEF CycleInv
<1> HIDE DEF s
<1>7. PutPlanFits(sessions, s)
  <2> HIDE DEF g
  <2> QED BY <1>2, <1>4, <1>5, <1>6, RestorePlanFits DEF plan
<1> HIDE DEF plan, g
<1>8. PlanSound(sessions, s)
  <2>1. s.applied \in Seq(Range(s.patch))
    BY <1>5
  <2> QED BY <1>5, <1>7, <2>1 DEF PlanSound
<1>9. Publish(s)
  BY <1>3 DEF s, plan
<1> QED BY <1>8, <1>9, PublishSound

LEMMA StepsSound ==
  ASSUME CycleInv, PlansSound(sessions), [Next]_vars
  PROVE  PlansSound(sessions')
<1>p. PlansFit
  BY SoundPlansFit
<1>1. ASSUME NEW ask \in Scenes[scene].asks, PlanCleanup(ask) PROVE PlansSound(sessions')
  BY <1>1, PlanCleanupSound
<1>2. ASSUME NEW s \in Range(sessions), NEW cause, SelectTarget(s, cause)
      PROVE  PlansSound(sessions')
  BY <1>2, ChildSound DEF SelectTarget, Selected
<1>3. ASSUME NEW s \in Range(sessions), NEW cause, ExcludeTarget(s, cause)
      PROVE  PlansSound(sessions')
  BY <1>3, ChildSound DEF ExcludeTarget, Excluded
<1>4. CASE PlanRestore
  BY <1>4, PlanRestoreSound
<1>5. ASSUME UNCHANGED vars PROVE PlansSound(sessions')
  BY <1>5 DEF vars
<1>6. ASSUME DOMAIN sessions' = DOMAIN sessions,
             \A j \in DOMAIN sessions : OnceMade(sessions[j], sessions'[j])
      PROVE  PlansSound(sessions')
  <2> DEFINE tt == sessions'
  <2>1. DOMAIN tt = DOMAIN sessions /\ \A j \in DOMAIN sessions : OnceMade(sessions[j], tt[j])
    BY <1>6
  <2> HIDE DEF tt
  <2>2. \A j \in DOMAIN sessions : tt[j].was = sessions[j].was
    BY <2>1 DEF OnceMade, SamePlan
  <2>3. ASSUME NEW j \in DOMAIN sessions PROVE PlanSound(tt, tt[j])
    <3>1. PlanSound(sessions, sessions[j]) /\ OnceMade(sessions[j], tt[j])
      BY <2>1 DEF PlansSound
    <3>2. DOMAIN sessions \subseteq DOMAIN tt
      BY <2>1
    <3> QED BY <2>2, <3>1, <3>2, StaysSound
  <2>4. PlansSound(tt)
    BY <2>1, <2>3 DEF PlansSound
  <2> QED BY <2>4 DEF tt
<1>7. ASSUME Next, ~(\E ask \in Scenes[scene].asks : PlanCleanup(ask)),
             ~(\E s \in Range(sessions) : \E cause : SelectTarget(s, cause) \/ ExcludeTarget(s, cause)),
             ~PlanRestore
      PROVE  PlansSound(sessions')
  <2>1. DOMAIN sessions' = DOMAIN sessions
        /\ \A j \in DOMAIN sessions : OnceMade(sessions[j], sessions'[j])
    BY <1>p, <1>7, SessionsKeepPlans DEF Planning
  <2> QED BY <1>6, <2>1
<1> QED BY <1>1, <1>2, <1>3, <1>4, <1>5, <1>7

(***************************************************************************)
(* Fewer targets take less                                                 *)
(***************************************************************************)
ProblemFormed(p, m, ask, tokens, spare) ==
  /\ p.m = m /\ p.tokens = tokens /\ p.nat = ask.nat /\ p.spare = spare
  /\ p.live = tokens

(* Where every address object is asked for once, no token is left out.     *)
LEMMA AllAreLive ==
  ASSUME NEW m, NEW ask, NEW tokens, NEW spare,
         \A t, u \in tokens : t.kind = "address" /\ u.kind = "address" /\ t.key = u.key => t = u
  PROVE  ProblemFormed(Problem(m, ask, tokens, spare), m, ask, tokens, spare)
<1> DEFINE r == [m |-> m, tokens |-> tokens, nat |-> ask.nat, prefer |-> ask.prefer,
                 spare |-> spare, live |-> {}]
           p == Problem(m, ask, tokens, spare)
<1>1. p = [r EXCEPT !.live = Live(r)]
  BY DEF Problem
<1>2. Live(r) = tokens
  BY DEF Live
<1>3. p.m = m /\ p.tokens = tokens /\ p.nat = ask.nat /\ p.spare = spare /\ p.live = Live(r)
  BY <1>1
<1> QED BY <1>2, <1>3 DEF ProblemFormed

(* No token but one of a group means a group.                              *)
LEMMA TokensOfNoGroup ==
  ASSUME NEW c, WellFormed(c), Parsable(c), NEW m, m = Model(c), NEW ask, ask.groups = {},
         NEW t \in AskedTokens(m, ask)
  PROVE  t.kind # "group" /\ t.key \notin DOMAIN c.grp
<1>m. m.c = c
  BY DEF Model
<1>1. /\ t.kind \in {"address", "literal", "policy"}
      /\ t.kind # "address" => \E h : t.key = <<h>>
  BY DEF AskedTokens, Token
<1>2. CASE t.kind = "address"
  BY <1>m, <1>2, AddressTokens DEF Parsable
<1>3. CASE t.kind # "address"
  <2>1. PICK h : t.key = <<h>>
    BY <1>1, <1>3
  <2>2. \A g \in DOMAIN c.grp : g = <<g[1], g[2]>>
    BY DEF WellFormed
  <2>3. \A a, b : <<h>> # <<a, b>>
    OBVIOUS
  <2> QED BY <1>1, <2>1, <2>2, <2>3
<1> QED BY <1>1, <1>2, <1>3

(* The groups that go, found in one round after the other.                 *)
LEMMA GoneInRounds ==
  ASSUME NEW p, IsFiniteSet(DOMAIN p.m.c.grp)
  PROVE  LET n == Cardinality(DOMAIN p.m.c.grp)
         IN  /\ n \in Nat
             /\ \E F : /\ F[0] = ForcedGroups(p)
                       /\ \A i \in Nat : i + 1 <= n => F[i + 1] = GonePass(p, F[i])
                       /\ GoneGroups(p) = F[n]
<1> DEFINE n == Cardinality(DOMAIN p.m.c.grp)
           F == CHOOSE F : GoneBy(p, F, n)
<1>n. n \in Nat
  BY FS_CardinalityType
<1>1. GoneBy(p, F, n)
  BY <1>n, GoneExists
<1>2. GoneGroups(p) = F[n]
  BY DEF GoneGroups, GoneBy, GonePass
<1> HIDE DEF F
<1>3. \A i \in 0 .. n : F[i] = IF i = 0 THEN ForcedGroups(p) ELSE GonePass(p, F[i - 1])
  BY <1>1 DEF GoneBy
<1> HIDE DEF n
<1>4. F[0] = ForcedGroups(p)
  BY <1>n, <1>3
<1>5. ASSUME NEW i \in Nat, i + 1 <= n PROVE F[i + 1] = GonePass(p, F[i])
  <2>1. i + 1 \in 0 .. n /\ i + 1 # 0 /\ (i + 1) - 1 = i
    BY <1>n, <1>5
  <2> QED BY <1>3, <2>1
<1> QED BY <1>n, <1>2, <1>4, <1>5 DEF n

(* The causes of a group that goes are all that its members are hit by,    *)
(* and every member is.                                                    *)
GoneKnown(p, gone) ==
  /\ DOMAIN gone \subseteq DOMAIN p.m.c.grp
  /\ \A g \in DOMAIN gone :
       /\ gone[g] \subseteq p.live
       /\ \A n \in p.m.c.grp[g] :
            Hit(p, gone, g[1], n) # {} /\ Hit(p, gone, g[1], n) \subseteq gone[g]

Less(a, b) == DOMAIN a \subseteq DOMAIN b /\ \A g \in DOMAIN a : a[g] \subseteq b[g]

LEMMA HitGrows ==
  ASSUME NEW p, NEW p2, p2.m = p.m, p2.live \subseteq p.live, NEW a, NEW b, Less(a, b), NEW l, NEW n
  PROVE  Hit(p2, a, l, n) \subseteq Hit(p, b, l, n)
BY DEF Hit, Less

LEMMA HitIsLive ==
  ASSUME NEW p, NEW gone, \A g \in DOMAIN gone : gone[g] \subseteq p.live, NEW l, NEW n
  PROVE  Hit(p, gone, l, n) \subseteq p.live
BY DEF Hit

AllHits(p, gone, g) == UNION {Hit(p, gone, g[1], n) : n \in p.m.c.grp[g]}

PassMore(p, gone) ==
  {g \in DOMAIN p.m.c.grp \ DOMAIN gone :
     p.m.c.grp[g] # {} /\ \A n \in p.m.c.grp[g] : Hit(p, gone, g[1], n) # {}}

LEMMA PassIs ==
  ASSUME NEW p, NEW gone
  PROVE  LET new == GonePass(p, gone)
         IN  /\ DOMAIN new = DOMAIN gone \cup PassMore(p, gone)
             /\ \A g \in PassMore(p, gone) : new[g] = AllHits(p, gone, g)
             /\ \A g \in DOMAIN gone : new[g] = gone[g]
<1> DEFINE H(g) == [n \in p.m.c.grp[g] |-> Hit(p, gone, g[1], n)]
           more == {g \in DOMAIN p.m.c.grp \ DOMAIN gone :
                      p.m.c.grp[g] # {} /\ \A n \in p.m.c.grp[g] : H(g)[n] # {}}
           new == [g \in DOMAIN gone \cup more |->
                     IF g \in more THEN UNION Range(H(g)) ELSE gone[g]]
<1>1. GonePass(p, gone) = new
  BY DEF GonePass
<1>2. more = PassMore(p, gone)
  BY DEF PassMore
<1>3. \A g : UNION Range(H(g)) = AllHits(p, gone, g)
  BY DEF Range, AllHits
<1> HIDE DEF H, more
<1>4. more \cap DOMAIN gone = {}
  BY DEF more
<1> QED BY <1>1, <1>2, <1>3, <1>4

(* Where no token means a group, a member that is hit stays hit by the     *)
(* same targets.                                                           *)
LEMMA PassKnown ==
  ASSUME NEW p, NEW gone, \A t \in p.live : t.key \notin DOMAIN p.m.c.grp, GoneKnown(p, gone)
  PROVE  GoneKnown(p, GonePass(p, gone))
<1> DEFINE new == GonePass(p, gone)
           more == PassMore(p, gone)
<1>1. /\ DOMAIN new = DOMAIN gone \cup more
      /\ \A g \in more : new[g] = AllHits(p, gone, g)
      /\ \A g \in DOMAIN gone : new[g] = gone[g]
  BY PassIs
<1>2. /\ more \subseteq DOMAIN p.m.c.grp
      /\ \A g \in more : \A n \in p.m.c.grp[g] : Hit(p, gone, g[1], n) # {}
  BY DEF PassMore
<1>3. /\ DOMAIN gone \subseteq DOMAIN p.m.c.grp
      /\ \A g \in DOMAIN gone :
           /\ gone[g] \subseteq p.live
           /\ \A n \in p.m.c.grp[g] :
                Hit(p, gone, g[1], n) # {} /\ Hit(p, gone, g[1], n) \subseteq gone[g]
  BY DEF GoneKnown
<1> HIDE DEF new, more
<1>4. ASSUME NEW l, NEW n, Hit(p, gone, l, n) # {}
      PROVE  Hit(p, new, l, n) = Hit(p, gone, l, n)
  <2> DEFINE r == p.m.res[<<l, n>>]
             direct == {t \in p.live : t.kind = r.kind /\ t.key = r.key}
  <2>1. \A f : Hit(p, f, l, n) = direct \cup (IF r.key \in DOMAIN f THEN f[r.key] ELSE {})
    BY DEF Hit
  <2>2. direct # {} => r.key \notin DOMAIN p.m.c.grp
    OBVIOUS
  <2> HIDE DEF direct, r
  <2> QED BY <1>1, <1>2, <1>3, <1>4, <2>1, <2>2
<1>5. \A g \in DOMAIN new : \A n \in p.m.c.grp[g] : Hit(p, gone, g[1], n) # {}
  BY <1>1, <1>2, <1>3
<1>6. ASSUME NEW g \in DOMAIN new
      PROVE  /\ new[g] \subseteq p.live
             /\ \A n \in p.m.c.grp[g] : Hit(p, gone, g[1], n) \subseteq new[g]
  <2>1. CASE g \in more
    <3>1. \A n : Hit(p, gone, g[1], n) \subseteq p.live
      BY <1>3, HitIsLive
    <3> QED BY <1>1, <2>1, <3>1 DEF AllHits
  <2>2. CASE g \in DOMAIN gone
    BY <1>1, <1>3, <2>2
  <2> QED BY <1>1, <2>1, <2>2
<1>7. GoneKnown(p, new)
  BY <1>1, <1>2, <1>3, <1>4, <1>5, <1>6 DEF GoneKnown
<1> QED BY <1>7 DEF new

LEMMA PassGrows ==
  ASSUME NEW p, NEW p2, p2.m = p.m, p2.live \subseteq p.live, NEW a, NEW b, Less(a, b),
         DOMAIN a \subseteq DOMAIN p.m.c.grp, GoneKnown(p, b)
  PROVE  Less(GonePass(p2, a), GonePass(p, b))
<1> DEFINE x == GonePass(p2, a)
           y == GonePass(p, b)
<1>1. /\ DOMAIN x = DOMAIN a \cup PassMore(p2, a)
      /\ \A g \in PassMore(p2, a) : x[g] = AllHits(p2, a, g)
      /\ \A g \in DOMAIN a : x[g] = a[g]
  BY PassIs
<1>2. /\ DOMAIN y = DOMAIN b \cup PassMore(p, b)
      /\ \A g \in PassMore(p, b) : y[g] = AllHits(p, b, g)
      /\ \A g \in DOMAIN b : y[g] = b[g]
  BY PassIs
<1> HIDE DEF x, y
<1>3. \A l, n : Hit(p2, a, l, n) \subseteq Hit(p, b, l, n)
  BY HitGrows
<1>4. ASSUME NEW g \in DOMAIN a PROVE g \in DOMAIN y /\ x[g] \subseteq y[g]
  BY <1>1, <1>2 DEF Less
<1>5. ASSUME NEW g \in PassMore(p2, a) PROVE g \in DOMAIN y /\ x[g] \subseteq y[g]
  <2>1. /\ g \in DOMAIN p.m.c.grp /\ p.m.c.grp[g] # {}
        /\ \A n \in p.m.c.grp[g] : Hit(p, b, g[1], n) # {}
    BY <1>3 DEF PassMore
  <2>2. CASE g \in DOMAIN b
    <3>1. \A n \in p.m.c.grp[g] : Hit(p, b, g[1], n) \subseteq b[g]
      BY <2>2 DEF GoneKnown
    <3> QED BY <1>1, <1>2, <1>3, <2>2, <3>1 DEF AllHits
  <2>3. CASE g \notin DOMAIN b
    <3>1. g \in PassMore(p, b)
      BY <2>1, <2>3 DEF PassMore
    <3> QED BY <1>1, <1>2, <1>3, <3>1 DEF AllHits
  <2> QED BY <2>2, <2>3
<1>6. Less(x, y)
  BY <1>1, <1>4, <1>5 DEF Less
<1> QED BY <1>6 DEF x, y

(* With fewer targets fewer groups go, and for fewer of them.              *)
LEMMA GoneGrows ==
  ASSUME NEW p, NEW p2, p2.m = p.m, p2.live \subseteq p.live, IsFiniteSet(DOMAIN p.m.c.grp),
         \A t \in p.live : t.key \notin DOMAIN p.m.c.grp,
         DOMAIN ForcedGroups(p) = {}, DOMAIN ForcedGroups(p2) = {}
  PROVE  /\ Less(GoneGroups(p2), GoneGroups(p))
         /\ GoneKnown(p, GoneGroups(p)) /\ GoneKnown(p2, GoneGroups(p2))
<1> DEFINE n == Cardinality(DOMAIN p.m.c.grp)
<1>1. PICK F : /\ F[0] = ForcedGroups(p)
               /\ \A i \in Nat : i + 1 <= n => F[i + 1] = GonePass(p, F[i])
               /\ GoneGroups(p) = F[n]
  BY GoneInRounds
<1>2. PICK G : /\ G[0] = ForcedGroups(p2)
               /\ \A i \in Nat : i + 1 <= n => G[i + 1] = GonePass(p2, G[i])
               /\ GoneGroups(p2) = G[n]
  BY GoneInRounds
<1>n. n \in Nat
  BY FS_CardinalityType
<1> HIDE DEF n
<1> DEFINE Ok(i) == Less(G[i], F[i]) /\ GoneKnown(p, F[i]) /\ GoneKnown(p2, G[i])
           A == {i \in Nat : i <= n => Ok(i)}
<1>3. 0 \in A
  BY <1>1, <1>2 DEF Less, GoneKnown
<1>4. ASSUME NEW i \in A PROVE i + 1 \in A
  <2>1. ASSUME i + 1 <= n PROVE Ok(i + 1)
    <3>1. Ok(i)
      BY <1>n, <2>1
    <3>2. F[i + 1] = GonePass(p, F[i]) /\ G[i + 1] = GonePass(p2, G[i])
      BY <1>1, <1>2, <2>1
    <3>3. GoneKnown(p, F[i + 1])
      BY <3>1, <3>2, PassKnown
    <3>4. GoneKnown(p2, G[i + 1])
      <4>1. \A t \in p2.live : t.key \notin DOMAIN p2.m.c.grp
        OBVIOUS
      <4> QED BY <3>1, <3>2, <4>1, PassKnown
    <3>5. Less(G[i + 1], F[i + 1])
      <4>1. DOMAIN G[i] \subseteq DOMAIN p.m.c.grp
        BY <3>1 DEF GoneKnown
      <4> QED BY <3>1, <3>2, <4>1, PassGrows
    <3> QED BY <3>3, <3>4, <3>5
  <2> HIDE DEF Ok
  <2> QED BY <2>1
<1>5. A = Nat
  <2>1. A \subseteq Nat
    OBVIOUS
  <2> HIDE DEF A
  <2> QED BY <1>3, <1>4, <2>1, NaturalSets
<1>6. Ok(n)
  <2>1. n \in A
    BY <1>n, <1>5
  <2> QED BY <1>n, <2>1
<1> QED BY <1>1, <1>2, <1>6

(* One more round over the leaves.                                         *)
GroupsRead(p) ==
  {x \in Locations(p.m.c) \X DOMAIN p.m.c.grp : p.m.res[<<x[1], x[2][2]>>].key = x[2]}

LeavesPass(p, prev) ==
  LET Of(l, n) == LET inner == <<l, p.m.res[<<l, n>>].key>>
                  IN  IF inner \in GroupsRead(p) THEN prev[inner] ELSE Hit(p, <<>>, l, n)
  IN  [x \in GroupsRead(p) |-> UNION {Of(x[1], n) : n \in p.m.c.grp[x[2]]}]

LeavesBy(p, F, n) ==
  F = [i \in 0 .. n |-> IF i = 0 THEN [x \in GroupsRead(p) |-> {}] ELSE LeavesPass(p, F[i - 1])]

LEMMA LeavesExist ==
  ASSUME NEW p, NEW m \in Nat
  PROVE  \E F : LeavesBy(p, F, m)
<1> DEFINE none == [x \in GroupsRead(p) |-> {}]
           A == {n \in Nat : \E F : LeavesBy(p, F, n)}
<1>1. 0 \in A
  <2> DEFINE F0 == [i \in 0 .. 0 |-> none]
  <2>1. LeavesBy(p, F0, 0)
    BY DEF LeavesBy
  <2> QED BY <2>1
<1>2. ASSUME NEW n \in A PROVE n + 1 \in A
  <2>1. n \in Nat /\ \E F : LeavesBy(p, F, n)
    OBVIOUS
  <2>2. PICK F : LeavesBy(p, F, n)
    BY <2>1
  <2> DEFINE H == [i \in 0 .. n + 1 |-> IF i = n + 1 THEN LeavesPass(p, F[n]) ELSE F[i]]
  <2>3. \A i \in 0 .. n + 1 : H[i] = IF i = 0 THEN none ELSE LeavesPass(p, H[i - 1])
    <3> TAKE i \in 0 .. n + 1
    <3>1. CASE i = n + 1
      <4>1. i # 0 /\ i - 1 = n /\ H[n + 1] = LeavesPass(p, F[n]) /\ H[n] = F[n]
        BY <2>1, <3>1
      <4> HIDE DEF H, none
      <4> QED BY <3>1, <4>1
    <3>2. CASE i \in 0 .. n
      <4>1. H[i] = F[i] /\ (i # 0 => H[i - 1] = F[i - 1])
        BY <2>1, <3>2
      <4>2. F[i] = IF i = 0 THEN none ELSE LeavesPass(p, F[i - 1])
        <5> HIDE DEF H, A
        <5> QED BY <2>2, <3>2 DEF LeavesBy
      <4> HIDE DEF H, none
      <4> QED BY <4>1, <4>2
    <3> QED BY <2>1, <3>1, <3>2
  <2>4. LeavesBy(p, H, n + 1)
    <3>1. H = [i \in 0 .. n + 1 |-> H[i]]
      OBVIOUS
    <3> HIDE DEF H
    <3> QED BY <2>3, <3>1 DEF LeavesBy
  <2> HIDE DEF H
  <2> QED BY <2>1, <2>4
<1>3. A = Nat
  <2>1. A \subseteq Nat
    OBVIOUS
  <2> HIDE DEF A
  <2> QED BY <1>1, <1>2, <2>1, NaturalSets
<1>4. m \in A
  BY <1>3
<1> QED BY <1>4

LEMMA LeavesOfGroups ==
  ASSUME NEW p, IsFiniteSet(DOMAIN p.m.c.grp)
  PROVE  \A x \in DOMAIN EffectiveCauses(p) : x[2] \in DOMAIN p.m.c.grp
<1> DEFINE m == Cardinality(DOMAIN p.m.c.grp)
           F == CHOOSE F : LeavesBy(p, F, m)
<1>m. m \in Nat
  BY FS_CardinalityType
<1>1. LeavesBy(p, F, m)
  BY <1>m, LeavesExist
<1>2. EffectiveCauses(p) = F[m]
  BY DEF EffectiveCauses, LeavesBy, LeavesPass, GroupsRead
<1> HIDE DEF F
<1> HIDE DEF m
<1>3. ASSUME NEW i \in 0 .. m PROVE DOMAIN F[i] = GroupsRead(p)
  <2> DEFINE none == [x \in GroupsRead(p) |-> {}]
  <2>1. DOMAIN none = GroupsRead(p) /\ \A g : DOMAIN LeavesPass(p, g) = GroupsRead(p)
    BY DEF LeavesPass
  <2>2. F[i] = IF i = 0 THEN none ELSE LeavesPass(p, F[i - 1])
    BY <1>1, <1>3 DEF LeavesBy
  <2> HIDE DEF none
  <2> QED BY <2>1, <2>2
<1>4. DOMAIN F[m] = GroupsRead(p)
  BY <1>m, <1>3
<1> QED BY <1>2, <1>4 DEF GroupsRead

(* What goes, part by part.                                                *)
LEMMA PartsGoing ==
  ASSUME NEW p
  PROVE  LET q == Going(p)
             taken == Translations(p, q) \ Trimmed(p, q)
         IN  /\ q.gone = GoneGroups(p) /\ q.leaves = EffectiveCauses(p)
             /\ DOMAIN q.own = p.m.refs /\ DOMAIN q.other = p.m.occurrences
             /\ \A r \in p.m.refs : q.own[r] = Hit(p, q.gone, r.at[1], r.name)
             /\ \A o \in p.m.occurrences : q.other[o] = OwnOccurrenceHit(p, q, o)
             /\ q.refs = {r \in p.m.refs : q.own[r] # {}}
             /\ q.rules = DOMAIN ForcedRules(p) \cup {o.at : o \in taken}
                            \cup {k \in DOMAIN p.m.c.rule : EmptiedFields(p, q, k) # {}}
<1> DEFINE q0 == Marked(p, [gone |-> GoneGroups(p), leaves |-> EffectiveCauses(p)])
           q == Going(p)
<1>1. /\ q0.gone = GoneGroups(p) /\ q0.leaves = EffectiveCauses(p)
      /\ q0.own = [r \in p.m.refs |-> Hit(p, q0.gone, r.at[1], r.name)]
      /\ DOMAIN q0.other = p.m.occurrences
      /\ \A o \in p.m.occurrences : q0.other[o] = OwnOccurrenceHit(p, q0, o)
  <2> DEFINE g == [gone |-> GoneGroups(p), leaves |-> EffectiveCauses(p)]
  <2>1. \A o : OwnOccurrenceHit(p, g, o) = OwnOccurrenceHit(p, q0, o)
    BY DEF OwnOccurrenceHit, OccurrenceHit, Marked
  <2>2. g.gone = GoneGroups(p) /\ g.leaves = EffectiveCauses(p)
    OBVIOUS
  <2>3. /\ q0.gone = g.gone /\ q0.leaves = g.leaves
        /\ q0.own = [r \in p.m.refs |-> Hit(p, g.gone, r.at[1], r.name)]
        /\ q0.other = [o \in p.m.occurrences |-> OwnOccurrenceHit(p, g, o)]
    BY DEF Marked
  <2> HIDE DEF g, q0
  <2> QED BY <2>1, <2>2, <2>3
<1>2. q = Outcome(p, q0)
  BY DEF Going
<1> HIDE DEF q0
<1>3. /\ q.gone = q0.gone /\ q.leaves = q0.leaves /\ q.own = q0.own /\ q.other = q0.other
      /\ q.refs = {r \in p.m.refs : q0.own[r] # {}}
      /\ q.rules = RulesGoing(p, q0, {o.at : o \in Translations(p, q0) \ Trimmed(p, q0)}).rules
  BY <1>2 DEF Outcome
<1>4. Translations(p, q0) = Translations(p, q) /\ Trimmed(p, q0) = Trimmed(p, q)
      /\ \A k : EmptiedFields(p, q0, k) = EmptiedFields(p, q, k)
      /\ \A o : OwnOccurrenceHit(p, q0, o) = OwnOccurrenceHit(p, q, o)
  <2> HIDE DEF q
  <2> QED BY <1>3 DEF Translations, Trimmed, EmptiedFields, OwnOccurrenceHit, OccurrenceHit
<1>5. ASSUME NEW byNat
      PROVE  RulesGoing(p, q0, byNat).rules =
               DOMAIN ForcedRules(p) \cup byNat
                 \cup {k \in DOMAIN p.m.c.rule : EmptiedFields(p, q0, k) # {}}
  <2> DEFINE empty == [k \in DOMAIN p.m.c.rule |-> EmptiedFields(p, q0, k)]
  <2>1. {k \in DOMAIN p.m.c.rule : empty[k] # {}}
          = {k \in DOMAIN p.m.c.rule : EmptiedFields(p, q0, k) # {}}
    OBVIOUS
  <2>2. RulesGoing(p, q0, byNat).rules =
          DOMAIN ForcedRules(p) \cup byNat \cup {k \in DOMAIN p.m.c.rule : empty[k] # {}}
    BY DEF RulesGoing
  <2> HIDE DEF empty
  <2> QED BY <2>1, <2>2
<1> HIDE DEF q
<1>6. q.rules = DOMAIN ForcedRules(p) \cup {o.at : o \in Translations(p, q) \ Trimmed(p, q)}
                  \cup {k \in DOMAIN p.m.c.rule : EmptiedFields(p, q, k) # {}}
  BY <1>3, <1>4, <1>5
<1> QED BY <1>1, <1>3, <1>4, <1>6 DEF q

(* And what each part of the plan is caused by.                            *)
LEMMA CausesOfParts ==
  ASSUME NEW m, NEW ask, NEW spare, NEW tokens
  PROVE  LET p == Problem(m, ask, tokens, spare)
             q == Going(p)
             plan == PlanAt(EndOf(m, ask, spare, tokens))
         IN  /\ plan.tokens = p.tokens
             /\ DOMAIN plan.refs = q.refs /\ DOMAIN plan.rules = q.rules
             /\ \A r \in q.refs : q.own[r] \subseteq plan.refs[r]
             /\ \A k \in q.rules : \A o \in p.m.occurrences :
                  o.at = k => q.other[o] \subseteq plan.rules[k]
<1> DEFINE p == Problem(m, ask, tokens, spare)
           q == Going(p)
           end == EndOf(m, ask, spare, tokens)
           gone == Spread(p, q)
           forced == ForcedRules(p)
           plan == PlanAt(end)
<1>1. end.p = p /\ end.q = q
  BY DEF EndOf, Judged
<1>2. plan = PlanOf(p, q, gone, forced)
  BY <1>1 DEF PlanAt
<1> HIDE DEF p, q, gone, forced, end, plan
<1>3. /\ plan.tokens = p.tokens
      /\ plan.refs = [r \in q.refs |-> HitsAnywhere(p, q, gone, r)]
      /\ plan.rules = [k \in q.rules |-> RuleCauses(p, q, gone, forced, k)]
  BY <1>2 DEF PlanOf
<1>4. \A r : q.own[r] \subseteq HitsAnywhere(p, q, gone, r)
  BY DEF HitsAnywhere
<1>5. ASSUME NEW k, NEW o \in p.m.occurrences, o.at = k
      PROVE  q.other[o] \subseteq RuleCauses(p, q, gone, forced, k)
  BY <1>5 DEF RuleCauses
<1> QED BY <1>3, <1>4, <1>5 DEF p, q, end, plan

(***************************************************************************)
(* Rules that are not to be modified                                       *)
(***************************************************************************)
OneWay(tokens) ==
  \A t, u \in tokens : t.kind = "address" /\ u.kind = "address" /\ t.key = u.key => t = u

(* A translation that goes with fewer targets goes with all of them, and   *)
(* one of the fewer is a cause of it.                                      *)
LEMMA TranslationGrows ==
  ASSUME NEW p, NEW p2, p2.m = p.m, p2.live \subseteq p.live, p2.nat = p.nat,
         IsFiniteSet(DOMAIN p.m.c.grp),
         NEW q, NEW q2, Less(q2.gone, q.gone), GoneKnown(p, q.gone), GoneKnown(p2, q2.gone),
         \A x \in DOMAIN q.leaves \cup DOMAIN q2.leaves : x[2] \in DOMAIN p.m.c.grp,
         \A o \in p.m.occurrences :
           q.other[o] = OwnOccurrenceHit(p, q, o) /\ q2.other[o] = OwnOccurrenceHit(p2, q2, o),
         NEW o \in Translations(p2, q2) \ Trimmed(p2, q2)
  PROVE  o \in Translations(p, q) \ Trimmed(p, q) /\ \E t \in p2.live : t \in q.other[o]
<1> DEFINE l == o.at[1]
           key == p.m.res[<<l, o.name>>].key
<1>1. o \in p.m.occurrences /\ p.nat /\ IsNat(o) /\ q2.other[o] # {}
  BY DEF Translations
<1>2. ~(key \in DOMAIN p.m.c.grp \ DOMAIN q2.gone)
  BY <1>1 DEF Trimmed
<1>3. CASE key \in DOMAIN q2.gone
  <2>1. q2.other[o] = q2.gone[key] /\ key \in DOMAIN q.gone /\ q.other[o] = q.gone[key]
    BY <1>1, <1>3 DEF OwnOccurrenceHit, Less
  <2>2. q2.gone[key] \subseteq q.gone[key] /\ q2.gone[key] \subseteq p2.live
    BY <1>3 DEF Less, GoneKnown
  <2>3. o \notin Trimmed(p, q)
    BY <2>1 DEF Trimmed
  <2> QED BY <1>1, <2>1, <2>2, <2>3 DEF Translations
<1>4. CASE key \notin DOMAIN q2.gone
  <2>1. key \notin DOMAIN p.m.c.grp
    BY <1>2, <1>4
  <2>2. key \notin DOMAIN q.gone
    BY <2>1 DEF GoneKnown
  <2> DEFINE inner == <<l, key>>
  <2>3. inner[2] = key
    OBVIOUS
  <2>4. inner \notin DOMAIN q.leaves /\ inner \notin DOMAIN q2.leaves
    BY <2>1, <2>3
  <2>5. q2.other[o] = Hit(p2, q2.gone, l, o.name) /\ q.other[o] = Hit(p, q.gone, l, o.name)
    BY <1>1, <1>4, <2>2, <2>4 DEF OwnOccurrenceHit, OccurrenceHit
  <2>6. Hit(p2, q2.gone, l, o.name) \subseteq Hit(p, q.gone, l, o.name)
    BY HitGrows
  <2>7. Hit(p2, q2.gone, l, o.name) \subseteq p2.live
    BY HitIsLive DEF GoneKnown
  <2>8. o \notin Trimmed(p, q)
    BY <2>1 DEF Trimmed
  <2> QED BY <1>1, <2>5, <2>6, <2>7, <2>8 DEF Translations
<1> QED BY <1>3, <1>4

(* A plan for fewer targets spares some rules, where none of these targets *)
(* touched one of them in the plan for all, or asks for one by its name.   *)
LEMMA FewerSpare ==
  ASSUME NEW c, WellFormed(c), Parsable(c), NEW m, m = Model(c), NEW ask, ask.groups = {},
         NEW all \in SUBSET AskedTokens(m, ask), OneWay(all), NEW fewer \in SUBSET all,
         NEW spare, NEW spare2, NEW rules,
         \A t \in fewer : t.kind = "policy" => \A k \in rules : t.key # <<k[3]>>,
         fewer \cap Touching(PlanAt(EndOf(m, ask, spare, all)), rules) = {}
  PROVE  LET plan == PlanAt(EndOf(m, ask, spare2, fewer))
         IN  /\ \A k \in DOMAIN plan.rules : k \notin rules
             /\ \A r \in DOMAIN plan.refs : r.at \notin rules
<1> DEFINE p == Problem(m, ask, all, spare)
           p2 == Problem(m, ask, fewer, spare2)
           q == Going(p)
           q2 == Going(p2)
           plan == PlanAt(EndOf(m, ask, spare, all))
           plan2 == PlanAt(EndOf(m, ask, spare2, fewer))
<1>m. m.c = c /\ m.occurrences = Occurrences(c)
  BY DEF Model
<1>1. ProblemFormed(p, m, ask, all, spare) /\ ProblemFormed(p2, m, ask, fewer, spare2)
  BY AllAreLive DEF OneWay
<1>2. /\ DOMAIN plan.refs = q.refs /\ DOMAIN plan.rules = q.rules
      /\ \A r \in q.refs : q.own[r] \subseteq plan.refs[r]
      /\ \A k \in q.rules : \A o \in p.m.occurrences :
           o.at = k => q.other[o] \subseteq plan.rules[k]
  BY CausesOfParts
<1>3. DOMAIN plan2.refs = q2.refs /\ DOMAIN plan2.rules = q2.rules
  BY CausesOfParts
<1>4. /\ p.m = m /\ p2.m = m /\ p.live = all /\ p2.live = fewer /\ p.nat = p2.nat
      /\ p.tokens = all /\ p2.tokens = fewer
  BY <1>1 DEF ProblemFormed
<1> HIDE DEF p, p2
<1>5. /\ q.gone = GoneGroups(p) /\ q.leaves = EffectiveCauses(p)
      /\ \A r \in m.refs : q.own[r] = Hit(p, q.gone, r.at[1], r.name)
      /\ \A o \in m.occurrences : q.other[o] = OwnOccurrenceHit(p, q, o)
      /\ q.refs = {r \in m.refs : q.own[r] # {}}
      /\ q.rules = DOMAIN ForcedRules(p) \cup {o.at : o \in Translations(p, q) \ Trimmed(p, q)}
                     \cup {k \in DOMAIN m.c.rule : EmptiedFields(p, q, k) # {}}
  BY <1>4, PartsGoing
<1>6. /\ q2.gone = GoneGroups(p2) /\ q2.leaves = EffectiveCauses(p2)
      /\ \A r \in m.refs : q2.own[r] = Hit(p2, q2.gone, r.at[1], r.name)
      /\ \A o \in m.occurrences : q2.other[o] = OwnOccurrenceHit(p2, q2, o)
      /\ q2.refs = {r \in m.refs : q2.own[r] # {}}
      /\ q2.rules = DOMAIN ForcedRules(p2)
                      \cup {o.at : o \in Translations(p2, q2) \ Trimmed(p2, q2)}
                      \cup {k \in DOMAIN m.c.rule : EmptiedFields(p2, q2, k) # {}}
  BY <1>4, PartsGoing
<1> HIDE DEF q, q2, plan, plan2
<1>7. IsFiniteSet(DOMAIN m.c.grp)
  BY <1>m, Formed DEF Finite
<1>8. \A t \in all : t.kind # "group" /\ t.key \notin DOMAIN m.c.grp
  BY <1>m, TokensOfNoGroup
<1>9. Less(q2.gone, q.gone) /\ GoneKnown(p, q.gone) /\ GoneKnown(p2, q2.gone)
  <2>1. DOMAIN ForcedGroups(p) = {} /\ DOMAIN ForcedGroups(p2) = {}
    BY <1>4, <1>8 DEF ForcedGroups
  <2>2. p2.m = p.m /\ p2.live \subseteq p.live /\ IsFiniteSet(DOMAIN p.m.c.grp)
        /\ \A t \in p.live : t.key \notin DOMAIN p.m.c.grp
    BY <1>4, <1>7, <1>8
  <2> QED BY <1>5, <1>6, <2>1, <2>2, GoneGrows
<1>10. ASSUME NEW r \in m.refs PROVE q2.own[r] \subseteq q.own[r] /\ q2.own[r] \subseteq fewer
  <2>1. Hit(p2, q2.gone, r.at[1], r.name) \subseteq Hit(p, q.gone, r.at[1], r.name)
    BY <1>4, <1>9, HitGrows
  <2>2. Hit(p2, q2.gone, r.at[1], r.name) \subseteq fewer
    BY <1>4, <1>9, HitIsLive DEF GoneKnown
  <2> QED BY <1>5, <1>6, <2>1, <2>2
<1>11. \A t \in fewer : /\ \A k \in DOMAIN plan.rules \cap rules : t \notin plan.rules[k]
                        /\ \A r \in DOMAIN plan.refs : r.at \in rules => t \notin plan.refs[r]
  BY DEF Touching, plan
<1>12. ASSUME NEW r \in q2.refs PROVE r.at \notin rules
  <2>1. r \in m.refs /\ q2.own[r] # {}
    BY <1>6
  <2>2. PICK t : t \in q2.own[r]
    BY <2>1
  <2>3. t \in fewer /\ t \in q.own[r] /\ r \in q.refs
    BY <1>5, <1>10, <2>1, <2>2
  <2> QED BY <1>2, <1>11, <2>3
<1>13. ASSUME NEW k \in DOMAIN ForcedRules(p2) PROVE k \notin rules
  BY <1>4, <1>13 DEF ForcedRules
<1>14. ASSUME NEW k \in DOMAIN c.rule, EmptiedFields(p2, q2, k) # {} PROVE k \notin rules
  <2>1. PICK f \in Fields : \A n \in c.rule[k][f] :
          q2.own[[of |-> "rule", at |-> k, field |-> f, name |-> n]] # {}
    BY <1>m, <1>4, <1>14 DEF EmptiedFields
  <2>2. c.rule[k].source # {} /\ c.rule[k].destination # {}
    BY DEF Parsable, Range
  <2>3. PICK n : n \in c.rule[k][f]
    BY <2>2 DEF Fields
  <2> DEFINE r == [of |-> "rule", at |-> k, field |-> f, name |-> n]
  <2>4. n \in NamesIn(c)
    BY <2>3 DEF NamesIn, Fields, Range
  <2>5. r \in References(c) /\ Written(c, r)
    BY <2>3, <2>4 DEF References, Written
  <2>6. r \in m.refs
    BY <2>5 DEF Model
  <2>7. q2.own[r] # {} /\ r.at = k
    BY <2>1, <2>3
  <2> HIDE DEF r
  <2> QED BY <1>6, <1>12, <2>6, <2>7
<1>15. ASSUME NEW o \in Translations(p2, q2) \ Trimmed(p2, q2) PROVE o.at \notin rules
  <2>1. \A x \in DOMAIN q.leaves \cup DOMAIN q2.leaves : x[2] \in DOMAIN m.c.grp
    BY <1>4, <1>5, <1>6, <1>7, LeavesOfGroups
  <2>2. o \in Translations(p, q) \ Trimmed(p, q) /\ \E t \in fewer : t \in q.other[o]
    <3>1. p2.m = p.m /\ p2.live \subseteq p.live /\ p2.nat = p.nat
          /\ IsFiniteSet(DOMAIN p.m.c.grp)
      BY <1>4, <1>7
    <3>2. \A x \in DOMAIN q.leaves \cup DOMAIN q2.leaves : x[2] \in DOMAIN p.m.c.grp
      BY <1>4, <2>1
    <3>3. \A u \in p.m.occurrences :
            q.other[u] = OwnOccurrenceHit(p, q, u) /\ q2.other[u] = OwnOccurrenceHit(p2, q2, u)
      BY <1>4, <1>5, <1>6
    <3> QED BY <1>4, <1>9, <1>15, <3>1, <3>2, <3>3, TranslationGrows
  <2>3. o.at \in q.rules /\ o \in p.m.occurrences
    BY <1>5, <2>2 DEF Translations
  <2> QED BY <1>2, <1>11, <2>2, <2>3
<1>16. /\ \A k \in DOMAIN plan2.rules : k \notin rules
       /\ \A r \in DOMAIN plan2.refs : r.at \notin rules
  BY <1>m, <1>3, <1>6, <1>12, <1>13, <1>14, <1>15
<1> QED BY <1>16 DEF plan2

LEMMA PlanEnds ==
  ASSUME NEW m, NEW ask, NEW asked, IsFiniteSet(asked), NEW spare
  PROVE  \E T \in SUBSET asked :
           /\ Plan(m, ask, asked, spare) = PlanAt(EndOf(m, ask, spare, T))
           /\ Plan(m, ask, asked, spare).tokens = T
<1>1. PICK T \in SUBSET asked : Settled(m, ask, asked, spare) = EndOf(m, ask, spare, T)
  BY SettledWithSome
<1>2. Plan(m, ask, asked, spare) = PlanAt(EndOf(m, ask, spare, T))
  BY <1>1 DEF Plan
<1>3. PlanAt(EndOf(m, ask, spare, T)).tokens = Problem(m, ask, T, spare).tokens
  BY CausesOfParts
<1>4. Problem(m, ask, T, spare).tokens = T
  BY DEF Problem
<1> QED BY <1>2, <1>3, <1>4

(* The safe plan is made with none of the targets that touch a protected   *)
(* rule in the first plan.                                                 *)
LEMMA SafePlanAvoids ==
  ASSUME NEW m, NEW ask, IsFiniteSet(AskedTokens(m, ask))
  PROVE  LET asked == AskedTokens(m, ask)
             first == Plan(m, ask, asked, {})
         IN  \E T, U \in SUBSET asked : \E spare :
               /\ first = PlanAt(EndOf(m, ask, {}, T)) /\ first.tokens = T
               /\ SafePlan(m, ask) = PlanAt(EndOf(m, ask, spare, U))
               /\ SafePlan(m, ask).tokens = U
               /\ U \cap Touching(first, Spared(ask, m.c)) = {}
<1> DEFINE asked == AskedTokens(m, ask)
           first == Plan(m, ask, asked, {})
           readOnly == Touching(first, ReadOnlyRules(m.c))
           default == IF ask.override THEN {} ELSE Touching(first, DefaultRules(m.c))
           safe == SafePlan(m, ask)
<1>1. PICK T \in SUBSET asked : first = PlanAt(EndOf(m, ask, {}, T)) /\ first.tokens = T
  BY PlanEnds
<1>2. safe = Sparing(m, ask, asked, first, readOnly, default)
  BY DEF SafePlan, SafeAmong, SafeOf
<1>3. Touching(first, Spared(ask, m.c)) = readOnly \cup default
  <2>1. ASSUME NEW plan, NEW A, NEW B
        PROVE  Touching(plan, A \cup B) = Touching(plan, A) \cup Touching(plan, B)
    BY DEF Touching
  <2>2. \A plan : Touching(plan, {}) = {}
    BY DEF Touching
  <2> HIDE DEF first
  <2> QED BY <2>1, <2>2 DEF Spared
<1>4. ASSUME NEW rest \in SUBSET asked, NEW spare
      PROVE  \E U \in SUBSET rest : /\ Plan(m, ask, rest, spare) = PlanAt(EndOf(m, ask, spare, U))
                                    /\ Plan(m, ask, rest, spare).tokens = U
  <2>1. IsFiniteSet(rest)
    BY FS_Subset
  <2> QED BY <2>1, PlanEnds
<1> HIDE DEF asked, first, readOnly, default, safe
<1>5. \E U \in SUBSET asked : \E spare :
        /\ safe = PlanAt(EndOf(m, ask, spare, U)) /\ safe.tokens = U
        /\ U \cap (readOnly \cup default) = {}
  <2>1. CASE default # {}
    <3> DEFINE rest == asked \ (readOnly \cup default)
    <3>1. safe = Plan(m, ask, rest, {}) /\ rest \in SUBSET asked
      BY <1>2, <2>1 DEF Sparing
    <3>2. rest \cap (readOnly \cup default) = {}
      OBVIOUS
    <3> HIDE DEF rest
    <3>3. PICK U \in SUBSET rest : safe = PlanAt(EndOf(m, ask, {}, U)) /\ safe.tokens = U
      BY <1>4, <3>1
    <3> QED BY <3>1, <3>2, <3>3
  <2>2. CASE default = {} /\ readOnly # {}
    <3> DEFINE rest == asked \ readOnly
    <3>1. safe = Plan(m, ask, rest, {"application-override"}) /\ rest \in SUBSET asked
      BY <1>2, <2>2 DEF Sparing
    <3>2. rest \cap (readOnly \cup default) = {}
      BY <2>2
    <3> HIDE DEF rest
    <3>3. PICK U \in SUBSET rest :
            safe = PlanAt(EndOf(m, ask, {"application-override"}, U)) /\ safe.tokens = U
      BY <1>4, <3>1
    <3> QED BY <3>1, <3>2, <3>3
  <2>3. CASE default = {} /\ readOnly = {}
    <3>1. safe = first
      BY <1>2, <2>3 DEF Sparing
    <3> QED BY <1>1, <2>3, <3>1
  <2> QED BY <2>1, <2>2, <2>3
<1> QED BY <1>1, <1>3, <1>5 DEF asked, first, safe

Guarded(ask, k) == k[2] = "application-override" \/ (~ask.override /\ k[3] = "DEFAULT")

LEMMA SparedAreGuarded ==
  ASSUME NEW ask, NEW c
  PROVE  Spared(ask, c) = {k \in DOMAIN c.rule : Guarded(ask, k)}
BY DEF Spared, Guarded, ReadOnlyRules, DefaultRules

(* What is plainly asked for leaves the protected rules alone.             *)
LEMMA SafePlanSpares ==
  ASSUME NEW c, WellFormed(c), Parsable(c), NEW m, m = Model(c), NEW ask, IsFiniteSet(ask.ips),
         PlainlyAsked(m, ask)
  PROVE  LET plan == SafePlan(m, ask)
         IN  /\ \A k \in DOMAIN plan.rules : k \notin Spared(ask, c)
             /\ \A r \in DOMAIN plan.refs : r.at \notin Spared(ask, c)
<1> DEFINE asked == AskedTokens(m, ask)
           first == Plan(m, ask, asked, {})
           plan == SafePlan(m, ask)
           rules == Spared(ask, c)
<1>m. m.c = c
  BY DEF Model
<1>1. IsFiniteSet(asked)
  BY <1>m, FiniteTokens
<1>2. PICK T, U, spare :
        /\ T \in SUBSET asked /\ U \in SUBSET asked
        /\ first = PlanAt(EndOf(m, ask, {}, T)) /\ first.tokens = T
        /\ plan = PlanAt(EndOf(m, ask, spare, U)) /\ plan.tokens = U
        /\ U \cap Touching(first, rules) = {}
  BY <1>m, <1>1, SafePlanAvoids
<1>3. /\ ask.groups = {} /\ OneWay(asked) /\ plan.tokens \subseteq first.tokens
      /\ \A t \in asked : t.kind = "policy" => \A k \in rules : t.key[1] # k[3]
  BY <1>m DEF PlainlyAsked, OneWay
<1> HIDE DEF asked, first, plan, rules
<1>4. OneWay(T) /\ U \in SUBSET T
  BY <1>2, <1>3 DEF OneWay
<1>5. \A t \in U : t.kind = "policy" => \A k \in rules : t.key # <<k[3]>>
  <2>1. \A k : <<k[3]>>[1] = k[3]
    OBVIOUS
  <2> QED BY <1>2, <1>3, <2>1
<1>6. U \cap Touching(PlanAt(EndOf(m, ask, {}, T)), rules) = {}
  BY <1>2
<1>7. /\ \A k \in DOMAIN PlanAt(EndOf(m, ask, spare, U)).rules : k \notin rules
      /\ \A r \in DOMAIN PlanAt(EndOf(m, ask, spare, U)).refs : r.at \notin rules
  <2>1. T \in SUBSET AskedTokens(m, ask)
    BY <1>2 DEF asked
  <2> QED BY <1>3, <1>4, <1>5, <1>6, <2>1, FewerSpare
<1> QED BY <1>2, <1>7 DEF plan, rules

(* A rule, or a name in a rule, that a mutation takes is not protected.    *)
SparesRules(ask, q) ==
  \A x \in Range(q) : x.type \in {"policy", "policy-member"} => ~Guarded(ask, x.at)

LEMMA PatchSpares ==
  ASSUME NEW c, WellFormed(c), Parsable(c), NEW ask, IsFiniteSet(ask.ips),
         PlainlyAsked(Model(c), ask)
  PROVE  SparesRules(ask, CleanupPatch(Model(c), ask))
<1> DEFINE m == Model(c)
           plan == SafePlan(m, ask)
           l == OuterFirst(m, DOMAIN plan.groups)
           A == MemberMutations(plan, "rule", "policy-member")
           B == RuleMutations(m, plan)
           C == MemberMutations(plan, "group", "group-member")
           D == [i \in DOMAIN l |-> Mutation("group", l[i], plan.groups[l[i]])]
           E == InSomeOrder({Mutation("address", t.key, {t}) : t \in plan.addresses})
           all == Ordered(m, plan, l)
<1>1. PlanIsOf(m, plan)
  BY SafePlanIs
<1>2. /\ \A k \in DOMAIN plan.rules : k \notin Spared(ask, c)
      /\ \A r \in DOMAIN plan.refs : r.at \notin Spared(ask, c)
  BY SafePlanSpares
<1>3. DOMAIN plan.rules \subseteq DOMAIN c.rule /\ DOMAIN plan.refs \subseteq m.refs
  <2>1. m.c = c
    BY DEF Model
  <2> QED BY <1>1, <2>1 DEF PlanIsOf
<1> HIDE DEF m, plan
<1>4. ASSUME NEW x \in Range(A) PROVE ~Guarded(ask, x.at)
  <2> DEFINE stay == {r \in DOMAIN plan.refs :
                        r.of = "rule" /\ r.at \notin DOMAIN plan.rules \cup DOMAIN plan.groups}
             f == [r \in stay |-> MemberMutation("policy-member", r, plan.refs[r])]
             S == {f[r] : r \in stay}
  <2>1. IsFiniteSet(S)
    <3>1. IsFiniteSet(stay)
      BY <1>3, FiniteReferences, FS_Subset DEF m
    <3> HIDE DEF stay, f
    <3> QED BY <3>1, FiniteImage
  <2>2. A = InSomeOrder(S)
    BY DEF MemberMutations
  <2>3. A \in Seq(S)
    <3> HIDE DEF S, A
    <3> QED BY <2>1, <2>2, InSomeOrderLined
  <2>4. x \in S
    <3> HIDE DEF S, A
    <3> QED BY <2>3 DEF Range
  <2>5. PICK r \in stay : x = f[r]
    BY <2>4
  <2>6. x.at = r.at
    BY <2>5 DEF MemberMutation, Mutation
  <2>7. r.at \in DOMAIN c.rule
    BY <1>3, ReferencesOfModel DEF m
  <2> QED BY <1>2, <2>6, <2>7, SparedAreGuarded
<1>5. FitPatch(c, A) /\ \A x \in Range(A) : x.type = "policy-member"
  <2>1. <<"rule", "policy-member">> \in {<<"rule", "policy-member">>, <<"group", "group-member">>}
    OBVIOUS
  <2> QED BY <1>1, <2>1, MembersFit DEF m
<1>6. /\ FitPatch(c, B)
      /\ \A x \in Range(B) : x.type = "policy" /\ ~Guarded(ask, x.at)
  <2>1. FitPatch(c, B) /\ \A x \in Range(B) : x.type = "policy" /\ x.at \in DOMAIN plan.rules
    BY <1>1, RulesFit DEF m
  <2> HIDE DEF B
  <2> QED BY <1>2, <1>3, <2>1, SparedAreGuarded
<1>7. FitPatch(c, C) /\ \A x \in Range(C) : x.type = "group-member"
  <2>1. <<"group", "group-member">> \in {<<"rule", "policy-member">>, <<"group", "group-member">>}
    OBVIOUS
  <2> QED BY <1>1, <2>1, MembersFit DEF m
<1>8. FitPatch(c, D) /\ \A x \in Range(D) : x.type = "group"
  BY <1>1, GroupsFit DEF m
<1>9. FitPatch(c, E) /\ \A x \in Range(E) : x.type = "address"
  BY <1>1, AddressesFit DEF m
<1>10. all = A \o B \o C \o D \o E
  BY DEF Ordered
<1> HIDE DEF A, B, C, D, E, all
<1>11. ASSUME NEW u, u \in Seq(Range(u)), NEW v, v \in Seq(Range(v))
       PROVE  u \o v \in Seq(Range(u \o v)) /\ Range(u \o v) \subseteq Range(u) \cup Range(v)
  <2> DEFINE S == Range(u) \cup Range(v)
             w == u \o v
  <2>1. u \in Seq(S) /\ v \in Seq(S)
    BY <1>11, SeqMonotonic
  <2>2. w \in Seq(S)
    <3> HIDE DEF S
    <3> QED BY <2>1, ConcatProperties
  <2> HIDE DEF w
  <2>3. w \in Seq(Range(w)) /\ Range(w) \subseteq S
    <3> HIDE DEF S
    <3> QED BY <2>2, OfItsRange
  <2> QED BY <2>3 DEF w
<1>12. /\ all \in Seq(Range(all))
       /\ Range(all) \subseteq Range(A) \cup Range(B) \cup Range(C) \cup Range(D) \cup Range(E)
  <2>1. /\ A \in Seq(Range(A)) /\ B \in Seq(Range(B)) /\ C \in Seq(Range(C))
        /\ D \in Seq(Range(D)) /\ E \in Seq(Range(E))
    BY <1>5, <1>6, <1>7, <1>8, <1>9 DEF FitPatch
  <2>2. /\ A \o B \in Seq(Range(A \o B))
        /\ Range(A \o B) \subseteq Range(A) \cup Range(B)
    BY <1>11, <2>1
  <2>3. /\ A \o B \o C \in Seq(Range(A \o B \o C))
        /\ Range(A \o B \o C) \subseteq Range(A \o B) \cup Range(C)
    BY <1>11, <2>1, <2>2
  <2>4. /\ A \o B \o C \o D \in Seq(Range(A \o B \o C \o D))
        /\ Range(A \o B \o C \o D) \subseteq Range(A \o B \o C) \cup Range(D)
    BY <1>11, <2>1, <2>3
  <2>5. /\ A \o B \o C \o D \o E \in Seq(Range(A \o B \o C \o D \o E))
        /\ Range(A \o B \o C \o D \o E) \subseteq Range(A \o B \o C \o D) \cup Range(E)
    BY <1>11, <2>1, <2>4
  <2> QED BY <1>10, <2>2, <2>3, <2>4, <2>5
<1>13. \A x \in Range(all) :
         /\ {"type", "at"} \subseteq DOMAIN x
         /\ x.type \in {"policy", "policy-member"} => ~Guarded(ask, x.at)
  <2>1. \A x : FitEntry(c, x) => {"type", "at"} \subseteq DOMAIN x
    BY DEF FitEntry, Mutation
  <2> QED BY <1>4, <1>5, <1>6, <1>7, <1>8, <1>9, <1>12, <2>1 DEF FitPatch
<1>14. SparesRules(ask, InComponents(all))
  <2> DEFINE sets == {x.causes : x \in Range(all)}
             r == InComponents(all)
  <2>1. r = [i \in DOMAIN all |-> [all[i] EXCEPT !.component = Joined(sets, all[i].causes)]]
    BY DEF InComponents
  <2>2. \A i \in DOMAIN all : r[i].type = all[i].type /\ r[i].at = all[i].at
    <3>1. \A i \in DOMAIN all : {"type", "at"} \subseteq DOMAIN all[i]
      BY <1>13 DEF Range
    <3> HIDE DEF r, sets
    <3> QED BY <2>1, <3>1
  <2> HIDE DEF sets, r
  <2>3. \A x \in Range(r) : \E i \in DOMAIN all : x = r[i]
    BY <2>1 DEF Range
  <2>4. \A i \in DOMAIN all : all[i] \in Range(all)
    BY DEF Range
  <2>5. SparesRules(ask, r)
    <3>1. ASSUME NEW x \in Range(r), x.type \in {"policy", "policy-member"}
          PROVE  ~Guarded(ask, x.at)
      <4>1. PICK i \in DOMAIN all : x = r[i]
        BY <2>3
      <4> QED BY <1>13, <2>2, <2>4, <3>1, <4>1
    <3> QED BY <3>1 DEF SparesRules
  <2> QED BY <2>5 DEF r
<1> QED BY <1>14 DEF CleanupPatch, Patch, m, plan, all

LEMMA KeepingIsPart ==
  ASSUME NEW s, s \in Seq(Range(s)), NEW C
  PROVE  Range(Keeping(s, C)) \subseteq Range(s)
<1> DEFINE q == Keeping(s, C)
<1>1. q \in Seq(Range(s))
  BY KeepingKeeps
<1> HIDE DEF q
<1>2. Range(q) \subseteq Range(s)
  BY <1>1, OfItsRange
<1> QED BY <1>2 DEF q

LEMMA PlanRestoreIsRestore ==
  ASSUME PlanRestore
  PROVE  \E s : Publish(s) /\ s.kind = "restore"
<1> DEFINE Restore(g, selected, plan) ==
             [Session("restore", sessions[HistoryIds[1]].ask, candidate, plan.patch) EXCEPT
                !.state = IF plan.patch # <<>> THEN "PLANNED"
                          ELSE IF plan.bad # {} THEN "CONFLICT" ELSE "RESTORED",
                !.sources = {<<i, sessions[i].state>> :
                               i \in {g.history[g.records[i].from].id : i \in selected}},
                !.seen = Range(HistoryIds), !.causes = plan.causes, !.guarded = plan.guarded]
<1>1. PICK g, selected, plan : Publish(Restore(g, selected, plan))
  <2>1. PICK g \in {Graph(History)} : \E selected \in Selections(g) :
          \E plan \in {RestorePlan(g, selected, running, candidate)} :
            Publish(Restore(g, selected, plan))
    BY DEF PlanRestore
  <2> HIDE DEF Restore
  <2> QED BY <2>1
<1> DEFINE blank == Session("restore", sessions[HistoryIds[1]].ask, candidate, plan.patch)
<1>2. blank.kind = "restore" /\ "kind" \in DOMAIN blank
  BY DEF Session
<1> HIDE DEF blank
<1>3. Restore(g, selected, plan).kind = "restore"
  BY <1>2 DEF blank
<1> QED BY <1>1, <1>3

(* Every cleanup spares the rules it must not modify, as long as all that  *)
(* was ever planned was plainly asked for.                                 *)
AskedInOtherWays(s) == s.root /\ s.kind = "cleanup" /\ ~PlainlyAsked(Model(s.was), s.ask)

SessionsSpare(ss) ==
  \/ \E i \in DOMAIN ss : AskedInOtherWays(ss[i])
  \/ \A i \in DOMAIN ss : ss[i].kind = "cleanup" => SparesRules(ss[i].ask, ss[i].patch)

LEMMA PublishSpares ==
  ASSUME CycleInv, SessionsSpare(sessions), NEW s, Publish(s),
         \/ \E i \in DOMAIN sessions : AskedInOtherWays(sessions[i])
         \/ AskedInOtherWays(s)
         \/ s.kind = "cleanup" => SparesRules(s.ask, s.patch)
  PROVE  SessionsSpare(sessions')
<1>1. sessions' = Append(sessions, s) /\ sessions \in Seq(Range(sessions) \cup {s})
  BY DEF Publish, CycleInv, SessionsFormed
<1>2. /\ DOMAIN sessions \subseteq DOMAIN sessions'
      /\ \A j \in DOMAIN sessions : sessions'[j] = sessions[j]
      /\ \A j \in DOMAIN sessions' : j \in DOMAIN sessions \/ sessions'[j] = s
      /\ \E j \in DOMAIN sessions' : sessions'[j] = s
  BY <1>1
<1> DEFINE tt == sessions'
<1> HIDE DEF tt
<1>3. /\ DOMAIN sessions \subseteq DOMAIN tt
      /\ \A j \in DOMAIN sessions : tt[j] = sessions[j]
      /\ \A j \in DOMAIN tt : j \in DOMAIN sessions \/ tt[j] = s
      /\ \E j \in DOMAIN tt : tt[j] = s
  BY <1>2 DEF tt
<1>4. SessionsSpare(tt)
  BY <1>3 DEF SessionsSpare
<1> QED BY <1>4 DEF tt

LEMMA PlanCleanupSpares ==
  ASSUME CycleInv, SessionsSpare(sessions), NEW ask \in Scenes[scene].asks, PlanCleanup(ask)
  PROVE  SessionsSpare(sessions')
<1>1. WellFormed(running) /\ IsFiniteSet(ask.ips)
  BY ScenesAssumption DEF CycleInv, Range
<1> DEFINE patch == Patch(Model(running), SafePlan(Model(running), ask))
           s == Session("cleanup", ask, running, patch)
<1>2. Parsable(running) /\ Publish(s)
  <2> HIDE DEF patch
  <2> QED BY DEF PlanCleanup, patch
<1>3. s.kind = "cleanup" /\ s.root /\ s.ask = ask /\ s.was = running
      /\ s.patch = CleanupPatch(Model(running), ask)
  BY DEF Session, CleanupPatch
<1> HIDE DEF s
<1>4. AskedInOtherWays(s) \/ SparesRules(s.ask, s.patch)
  BY <1>1, <1>2, <1>3, PatchSpares DEF AskedInOtherWays
<1> QED BY <1>2, <1>4, PublishSpares

(* A part keeps what its parent must not modify.                           *)
LEMMA ChildSpares ==
  ASSUME CycleInv, PlansSound(sessions), SessionsSpare(sessions), NEW s \in Range(sessions),
         NEW C, NEW ask, ask.override = s.ask.override, Child(s, Keeping(s.patch, C), ask)
  PROVE  SessionsSpare(sessions')
<1> DEFINE q == Keeping(s.patch, C)
           t == [s EXCEPT !.patch = q, !.root = FALSE, !.ask = ask]
<1>1. s.kind = "cleanup" /\ Publish(t)
  BY DEF Child
<1>2. DOMAIN s = SessionFields
  BY DEF CycleInv, SessionsFormed, Range
<1>3. Range(q) \subseteq Range(s.patch)
  <2>1. CutFits(s)
    BY <1>1 DEF PlansSound, PlanSound, Range
  <2> QED BY <2>1, KeepingIsPart DEF CutFits
<1> HIDE DEF q
<1>4. t.ask = ask /\ t.patch = q
  BY <1>2 DEF SessionFields
<1> HIDE DEF t
<1>5. \A k : Guarded(ask, k) <=> Guarded(s.ask, k)
  BY DEF Guarded
<1>6. SparesRules(s.ask, s.patch) => SparesRules(t.ask, t.patch)
  BY <1>3, <1>4, <1>5 DEF SparesRules
<1>7. \/ \E i \in DOMAIN sessions : AskedInOtherWays(sessions[i])
      \/ SparesRules(t.ask, t.patch)
  BY <1>1, <1>6 DEF SessionsSpare, Range
<1> QED BY <1>1, <1>7, PublishSpares

LEMMA StepsSpare ==
  ASSUME CycleInv, PlansSound(sessions), SessionsSpare(sessions), [Next]_vars
  PROVE  SessionsSpare(sessions')
<1>p. PlansFit
  BY SoundPlansFit
<1>1. ASSUME NEW ask \in Scenes[scene].asks, PlanCleanup(ask) PROVE SessionsSpare(sessions')
  BY <1>1, PlanCleanupSpares
<1>2. ASSUME NEW s \in Range(sessions), NEW cause, SelectTarget(s, cause)
      PROVE  SessionsSpare(sessions')
  <2> DEFINE patch == Selected(s.patch, {cause})
             ask == AskFor(s.ask, Causes(patch))
  <2>1. Child(s, patch, ask)
    BY <1>2 DEF SelectTarget
  <2>2. \E C : patch = Keeping(s.patch, C)
    BY DEF Selected
  <2>3. ask.override = s.ask.override
    BY DEF AskFor
  <2> HIDE DEF patch, ask
  <2> QED BY <2>1, <2>2, <2>3, ChildSpares
<1>3. ASSUME NEW s \in Range(sessions), NEW cause, ExcludeTarget(s, cause)
      PROVE  SessionsSpare(sessions')
  <2> DEFINE patch == Excluded(s.patch, {cause}, {})
  <2>1. Child(s, patch, s.ask)
    BY <1>3 DEF ExcludeTarget
  <2>2. \E C : patch = Keeping(s.patch, C)
    BY DEF Excluded
  <2> HIDE DEF patch
  <2> QED BY <2>1, <2>2, ChildSpares
<1>4. CASE PlanRestore
  <2>1. PICK s : Publish(s) /\ s.kind = "restore"
    BY <1>4, PlanRestoreIsRestore
  <2> QED BY <2>1, PublishSpares
<1>5. CASE UNCHANGED vars
  BY <1>5 DEF vars
<1>6. CASE DOMAIN sessions' = DOMAIN sessions
           /\ \A j \in DOMAIN sessions : OnceMade(sessions[j], sessions'[j])
  <2> DEFINE tt == sessions'
  <2>1. DOMAIN tt = DOMAIN sessions /\ \A j \in DOMAIN sessions : OnceMade(sessions[j], tt[j])
    BY <1>6
  <2> HIDE DEF tt
  <2>2. \A j \in DOMAIN sessions :
          /\ tt[j].root = sessions[j].root /\ tt[j].kind = sessions[j].kind
          /\ tt[j].was = sessions[j].was /\ tt[j].ask = sessions[j].ask
          /\ tt[j].patch = sessions[j].patch
    BY <2>1 DEF OnceMade, SamePlan
  <2>3. \A j \in DOMAIN sessions : AskedInOtherWays(sessions[j]) => AskedInOtherWays(tt[j])
    BY <2>2 DEF AskedInOtherWays
  <2>4. SessionsSpare(tt)
    BY <2>1, <2>2, <2>3 DEF SessionsSpare
  <2> QED BY <2>4 DEF tt
<1>7. ASSUME Next, ~(\E ask \in Scenes[scene].asks : PlanCleanup(ask)),
             ~(\E s \in Range(sessions) : \E cause : SelectTarget(s, cause) \/ ExcludeTarget(s, cause)),
             ~PlanRestore
      PROVE  SessionsSpare(sessions')
  <2>1. DOMAIN sessions' = DOMAIN sessions
        /\ \A j \in DOMAIN sessions : OnceMade(sessions[j], sessions'[j])
    BY <1>p, <1>7, SessionsKeepPlans DEF Planning
  <2> QED BY <1>6, <2>1
<1> QED BY <1>1, <1>2, <1>3, <1>4, <1>5, <1>7

(* A mutation changes no rule but its own.                                 *)
LEMMA OtherRulesStay ==
  ASSUME NEW c, WellFormed(c), NEW x, x.type \in Types, NEW rules \in SUBSET DOMAIN c.rule,
         x.type \in {"policy", "policy-member"} => x.at \notin rules
  PROVE  \A k \in rules : k \in DOMAIN TakeOut(c, x).rule /\ TakeOut(c, x).rule[k] = c.rule[k]
<1> DEFINE d == TakeOut(c, x)
<1>1. CASE x.type = "policy-member"
  <2>1. d.rule = [c.rule EXCEPT ![x.at][x.field] = @ \ {x.name}]
    BY <1>1, RuleMemberOut
  <2> HIDE DEF d
  <2>2. \A k \in rules : k \in DOMAIN d.rule /\ d.rule[k] = c.rule[k]
    BY <1>1, <2>1
  <2> QED BY <2>2 DEF d
<1>2. CASE x.type = "policy"
  <2>1. d.rule = Without(c.rule, x.at)
    BY <1>2, RuleOut
  <2> HIDE DEF d
  <2>2. \A k \in rules : k \in DOMAIN d.rule /\ d.rule[k] = c.rule[k]
    BY <1>2, <2>1 DEF Without
  <2> QED BY <2>2 DEF d
<1>3. CASE x.type = "group-member"
  <2>1. Like(d, c, {"grp"})
    BY <1>3, GroupMemberOut
  <2> HIDE DEF d
  <2>2. d.rule = c.rule
    BY <2>1 DEF Like, Parts
  <2> QED BY <2>2 DEF d
<1>4. CASE x.type = "group"
  <2>1. Like(d, c, {"grp"})
    BY <1>4, GroupOut
  <2> HIDE DEF d
  <2>2. d.rule = c.rule
    BY <2>1 DEF Like, Parts
  <2> QED BY <2>2 DEF d
<1>5. CASE x.type = "address"
  <2>1. Like(d, c, {"addr"})
    BY <1>5, AddressOut
  <2> HIDE DEF d
  <2>2. d.rule = c.rule
    BY <2>1 DEF Like, Parts
  <2> QED BY <2>2 DEF d
<1> QED BY <1>1, <1>2, <1>3, <1>4, <1>5 DEF Types

LEMMA WriteSpares ==
  ASSUME CycleInv, PlansSound(sessions), SessionsSpare(sessions), Write,
         sessions[work.id].kind = "cleanup"
  PROVE  \/ KeepsRules(Spared(sessions[work.id].ask, candidate))
         \/ \E s \in Range(sessions) :
              s.root /\ s.kind = "cleanup" /\ ~PlainlyAsked(Model(s.was), s.ask)
<1> DEFINE s == sessions[work.id]
           x == Head(work.todo)
<1>1. work.id \in DOMAIN sessions /\ work.todo # <<>> /\ WellFormed(candidate)
      /\ work.todo \in Seq(Range(s.applied))
  <2>1. work.id # 0 /\ work.todo # <<>>
    BY DEF Write, Writing
  <2> QED BY <2>1 DEF CycleInv, UnderWay
<1>2. candidate' = TakeOut(candidate, x)
  BY DEF Write, NextCandidate, Forward
<1>3. CutFits(s) /\ s.applied \in Seq(Range(s.patch))
  BY <1>1 DEF PlansSound, PlanSound
<1>4. x \in Range(s.patch)
  <2>1. x \in Range(s.applied)
    BY <1>1
  <2> QED BY <1>3, <2>1 DEF Range
<1>5. x.type \in Types
  BY <1>3, <1>4 DEF CutFits, Types
<1>6. CASE \E i \in DOMAIN sessions : AskedInOtherWays(sessions[i])
  BY <1>6 DEF AskedInOtherWays, Range
<1>7. CASE SparesRules(s.ask, s.patch)
  <2> DEFINE rules == Spared(s.ask, candidate)
  <2>1. rules = {k \in DOMAIN candidate.rule : Guarded(s.ask, k)}
    BY SparedAreGuarded
  <2>2. x.type \in {"policy", "policy-member"} => x.at \notin rules
    BY <1>4, <1>7, <2>1 DEF SparesRules
  <2>3. rules \in SUBSET DOMAIN candidate.rule
    BY <2>1
  <2> HIDE DEF rules, x
  <2>4. \A k \in rules : k \in DOMAIN TakeOut(candidate, x).rule
                          /\ TakeOut(candidate, x).rule[k] = candidate.rule[k]
    BY <1>1, <1>5, <2>2, <2>3, OtherRulesStay
  <2>5. KeepsRules(rules)
    BY <1>2, <2>4 DEF KeepsRules
  <2> QED BY <2>5 DEF rules
<1> QED BY <1>1, <1>6, <1>7 DEF SessionsSpare

(***************************************************************************)
(* The theorems                                                            *)
(***************************************************************************)
(* What holds of planning, writing and undoing in every behaviour: every   *)
(* plan can be written in its order, what is written is some of its plan,  *)
(* and the way back goes through the configurations that were left behind  *)
(* (cleaner_adapter.py; restore.py; _apply_candidate_unlocked and          *)
(* _rollback, engine.py).                                                  *)
THEOREM CycleInvariant == Spec => [](CycleInv /\ PlansSound(sessions))
<1>1. Init => CycleInv /\ PlansSound(sessions)
  BY CycleStarts DEF Init, PlansSound
<1>2. CycleInv /\ PlansSound(sessions) /\ [Next]_vars => (CycleInv /\ PlansSound(sessions))'
  BY SoundPlansFit, CycleSteps, StepsSound
<1> QED BY <1>1, <1>2, PTL DEF Spec

(* Whatever the configuration, the requests and the edits of others: the   *)
(* plans of cleanups, the parts an operator cuts from them, and the plans  *)
(* of restores can be written one mutation at a time and taken back from   *)
(* wherever they stop (cleaner_adapter.py; build_restore_patchset_history, *)
(* restore.py; _create_cleanup_child_plan, web.py).                        *)
THEOREM EveryPlanFits == Spec => []PlansFit
<1>1. CycleInv /\ PlansSound(sessions) => PlansFit
  BY SoundPlansFit
<1> QED BY <1>1, CycleInvariant, PTL

(* Only one session is written, and what it has written and has still to   *)
(* write is what was kept of its plan, in order (_apply_candidate_unlocked *)
(* and _rollback, engine.py).                                              *)
THEOREM CycleTyped == Spec => []TypeOK
<1>1. CycleInv => TypeOK
  BY InvTyped
<1> QED BY <1>1, CycleInvariant, PTL

(* An undo that comes to its end has restored the candidate exactly,       *)
(* whatever the configuration, the plan, the point where it was refused    *)
(* and the edits made before (_rollback, engine.py).                       *)
THEOREM UndoneRestores == Spec => UndoRestores
<1>1. CycleInv /\ [Next]_vars =>
        [FinishUndo => /\ candidate = sessions[work.id].pre
                       /\ sessions'[work.id].state = "FAILED"]_vars
  <2> SUFFICES ASSUME CycleInv, FinishUndo
               PROVE  /\ candidate = sessions[work.id].pre
                      /\ sessions'[work.id].state = "FAILED"
    OBVIOUS
  <2>1. candidate = sessions[work.id].pre
        /\ sessions' = [sessions EXCEPT ![work.id].state = "FAILED"]
    BY UndoneIsAsBefore
  <2>2. work.id # 0
    BY DEF CycleInv, WorkFormed, NoWork, FinishUndo
  <2>3. work.id \in DOMAIN sessions /\ DOMAIN sessions[work.id] = SessionFields
    BY <2>2, Current
  <2> QED BY <2>1, <2>3 DEF SessionFields
<1> QED BY <1>1, CycleInvariant, PTL DEF Spec, UndoRestores

(* No mutation is written over something else, and every one of a cleanup  *)
(* finds its target as it was when it was planned, although the candidate  *)
(* was only looked at before the first of them (_apply_candidate_unlocked, *)
(* engine.py).                                                             *)
THEOREM TargetsFound == Spec => []FindsItsTarget
BY NextTarget, CycleInvariant, PTL

(* An undo is stopped by a refusal of Panorama only: the entry and the     *)
(* rule its next step needs are there, wherever the application was turned *)
(* back (_rollback, engine.py).                                            *)
THEOREM UndoNeverStuck == Spec => []UndoFindsItsWay
BY WayBack, CycleInvariant, PTL

(* Rules that are not to be modified stay as they are, whatever the        *)
(* configuration: no cleanup that was plainly asked for, and no part cut   *)
(* from one, ever writes to an Application Override rule, nor to DEFAULT   *)
(* without the override, although nobody looks at the plan that is made    *)
(* after the first (build_cleanup_patchset, cleaner_adapter.py).           *)
THEOREM ProtectionHolds == Spec => ProtectedUntouched
<1>1. Init => SessionsSpare(sessions)
  BY DEF Init, SessionsSpare
<1>2. CycleInv /\ PlansSound(sessions) /\ SessionsSpare(sessions) /\ [Next]_vars =>
        SessionsSpare(sessions)'
  BY StepsSpare
<1>3. CycleInv /\ PlansSound(sessions) /\ SessionsSpare(sessions) /\ [Next]_vars =>
        [Write /\ sessions[work.id].kind = "cleanup" =>
           \/ KeepsRules(Spared(sessions[work.id].ask, candidate))
           \/ \E s \in Range(sessions) :
                s.root /\ s.kind = "cleanup" /\ ~PlainlyAsked(Model(s.was), s.ask)]_vars
  BY WriteSpares
<1> QED BY <1>1, <1>2, <1>3, CycleInvariant, PTL DEF Spec, ProtectedUntouched

=============================================================================
