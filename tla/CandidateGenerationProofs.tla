--------------------- MODULE CandidateGenerationProofs ---------------------
(***************************************************************************)
(* Proofs about CandidateGeneration for every index, every set of levels   *)
(* and every setting of the limits.  An argument by induction goes over a  *)
(* set of numbers: its least member that is not good would be good.        *)
(***************************************************************************)
EXTENDS CandidateGeneration, FiniteSetTheorems, WellFoundedInduction, TLAPS

----------------------------------------------------------------------------
(* Numbers *)

LEMMA LeastMember ==
  ASSUME NEW S, S \subseteq Nat, S # {}
  PROVE  \E x \in S : \A y \in S : x <= y
<1>. DEFINE Less == {p \in Nat \X Nat : p[1] < p[2]}
<1>0. IsWellFoundedOn(Less, Nat)
  BY NatLessThanWellFounded DEF OpToRel
<1>. HIDE DEF Less
<1>1. PICK x \in S : \A y \in S : <<y, x>> \notin Less
  BY <1>0, WFMin
<1>2. ASSUME NEW y \in S PROVE x <= y
  <2>1. x \in Nat /\ y \in Nat /\ <<y, x>> \notin Less
    BY <1>1
  <2>2. ~ (y < x)
    BY <2>1 DEF Less
  <2>. QED BY <2>1, <2>2
<1>. QED BY <1>2

LEMMA UpTo ==
  ASSUME NEW N \in Nat, NEW Good, 0 \in Good,
         \A n \in 1 .. N : n - 1 \in Good => n \in Good
  PROVE  \A n \in 0 .. N : n \in Good
<1>. DEFINE Bad == {n \in 0 .. N : n \notin Good}
<1>1. SUFFICES ASSUME Bad # {} PROVE FALSE
  OBVIOUS
<1>2. PICK m \in Bad : \A n \in Bad : m <= n
  <2>1. Bad \subseteq Nat
    OBVIOUS
  <2>. QED BY <1>1, <2>1, LeastMember
<1>3. m \in 1 .. N /\ m - 1 \in 0 .. N
  OBVIOUS
<1>4. m - 1 \in Good
  BY <1>2, <1>3
<1>. QED BY <1>3, <1>4

LEMMA GreatestOfPrefix ==
  ASSUME NEW N \in Nat, NEW s \in SUBSET (1 .. N), N \in s
  PROVE  Max(s) = N
<1>1. \A y \in s : N >= y
  OBVIOUS
<1>2. ASSUME NEW x \in s, \A y \in s : x >= y PROVE x = N
  BY <1>1, <1>2
<1>. QED BY <1>1, <1>2 DEF Max

----------------------------------------------------------------------------
(* A loop over a sequence: FoldLeft is a function of the sets of positions *)

IsFold(it, base, N, F) ==
  \A s \in SUBSET (1 .. N) :
    it[s] = IF s = {} THEN base ELSE F[<<it[s \ {Max(s)}], Max(s)>>]

LEMMA FoldExists ==
  ASSUME NEW T, NEW base \in T, NEW N \in Nat, NEW F \in [T \X (1 .. N) -> T]
  PROVE  \E it \in [SUBSET (1 .. N) -> T] : IsFold(it, base, N, F)
<1>. DEFINE Folds(n, it) ==
              \A s \in SUBSET (1 .. n) :
                it[s] = IF s = {} THEN base ELSE F[<<it[s \ {Max(s)}], Max(s)>>]
            Good == {n \in 0 .. N : \E it \in [SUBSET (1 .. n) -> T] : Folds(n, it)}
<1>1. 0 \in Good
  <2>1. SUBSET (1 .. 0) = {{}}
    OBVIOUS
  <2>2. [s \in SUBSET (1 .. 0) |-> base] \in [SUBSET (1 .. 0) -> T]
    OBVIOUS
  <2>3. Folds(0, [s \in SUBSET (1 .. 0) |-> base])
    BY <2>1
  <2>4. 0 \in 0 .. N
    OBVIOUS
  <2>. HIDE DEF Folds
  <2>. QED BY <2>2, <2>3, <2>4, Zenon
<1>2. ASSUME NEW n \in 1 .. N, n - 1 \in Good PROVE n \in Good
  <2>1. PICK old \in [SUBSET (1 .. (n - 1)) -> T] : Folds(n - 1, old)
    BY <1>2
  <2>. DEFINE new == [s \in SUBSET (1 .. n) |->
                        IF n \in s THEN F[<<old[s \ {n}], n>>] ELSE old[s]]
  <2>2. ASSUME NEW s \in SUBSET (1 .. n), n \notin s
        PROVE  s \in SUBSET (1 .. (n - 1))
    BY <2>2
  <2>3. ASSUME NEW s \in SUBSET (1 .. n) PROVE s \ {n} \in SUBSET (1 .. (n - 1))
    OBVIOUS
  <2>4. new \in [SUBSET (1 .. n) -> T]
    <3>1. ASSUME NEW s \in SUBSET (1 .. n), n \in s PROVE F[<<old[s \ {n}], n>>] \in T
      <4>1. old[s \ {n}] \in T
        BY <2>3
      <4>. QED BY <4>1
    <3>2. ASSUME NEW s \in SUBSET (1 .. n), n \notin s PROVE old[s] \in T
      BY <2>2, <3>2
    <3>. QED BY <3>1, <3>2
  <2>5. ASSUME NEW s \in SUBSET (1 .. n)
        PROVE  new[s] = IF s = {} THEN base ELSE F[<<new[s \ {Max(s)}], Max(s)>>]
    <3>1. CASE n \in s
      <4>1. Max(s) = n
        BY <3>1, GreatestOfPrefix
      <4>2. s \ {n} \in SUBSET (1 .. n) /\ n \notin s \ {n}
        OBVIOUS
      <4>3. new[s \ {n}] = old[s \ {n}]
        BY <4>2
      <4>4. new[s] = F[<<old[s \ {n}], n>>]
        BY <3>1
      <4>. HIDE DEF new
      <4>. QED BY <3>1, <4>1, <4>3, <4>4
    <3>2. CASE n \notin s
      <4>1. s \in SUBSET (1 .. (n - 1)) /\ new[s] = old[s]
        BY <2>2, <3>2
      <4>2. old[s] = IF s = {} THEN base ELSE F[<<old[s \ {Max(s)}], Max(s)>>]
        BY <2>1, <4>1
      <4>3. s \ {Max(s)} \in SUBSET (1 .. n) /\ n \notin s \ {Max(s)}
        BY <3>2
      <4>4. new[s \ {Max(s)}] = old[s \ {Max(s)}]
        BY <4>3
      <4>. HIDE DEF new
      <4>. QED BY <4>1, <4>2, <4>4
    <3>. QED BY <3>1, <3>2
  <2>6. Folds(n, new) /\ n \in 0 .. N
    <3>. HIDE DEF new
    <3>. QED BY <2>5
  <2>. HIDE DEF new, Folds
  <2>. QED BY <2>4, <2>6, Zenon
<1>. HIDE DEF Good
<1>3. N \in Good
  BY <1>1, <1>2, UpTo
<1>. QED BY <1>3 DEF Good, IsFold

LEMMA GreatestIsMember ==
  ASSUME NEW N \in Nat, NEW s \in SUBSET (1 .. N), s # {}
  PROVE  Max(s) \in s
<1>. DEFINE Below == {N - y : y \in s}
<1>1. Below \subseteq Nat /\ Below # {}
  <2>1. \A y \in s : N - y \in Nat
    OBVIOUS
  <2>. QED BY <2>1
<1>2. PICK m \in Below : \A y \in Below : m <= y
  BY <1>1, LeastMember
<1>3. PICK x \in s : m = N - x
  OBVIOUS
<1>4. \A y \in s : N - x <= N - y
  BY <1>2, <1>3
<1>5. \A y \in s : x >= y
  BY <1>4
<1>. QED BY <1>5 DEF Max

LEMMA FirstNumbers ==
  ASSUME NEW N \in Nat, NEW n \in 1 .. N
  PROVE  /\ (1 .. n) \in SUBSET (1 .. N) /\ (1 .. n) # {}
         /\ Max(1 .. n) = n /\ (1 .. n) \ {n} = 1 .. (n - 1)
<1>1. n \in 1 .. n /\ (1 .. n) \in SUBSET (1 .. n) /\ n \in Nat
  OBVIOUS
<1>2. Max(1 .. n) = n
  BY <1>1, GreatestOfPrefix
<1>3. (1 .. n) \ {n} = 1 .. (n - 1)
  OBVIOUS
<1>. QED BY <1>1, <1>2, <1>3

\* One step of the loop over a ranking.
Visit(chosen, p, among, key, k) ==
  IF /\ p \in among /\ Len(chosen) < k
     /\ \A q \in ToSet(chosen) : key[q] # key[p]
  THEN Append(chosen, p) ELSE chosen

LEMMA PassUnfolds ==
  ASSUME NEW first, NEW order, NEW among, NEW key, NEW k
  PROVE  Pass(first, order, among, key, k) =
           (CHOOSE it : it = [s \in SUBSET (DOMAIN order) |->
              IF s = {} THEN first
              ELSE Visit(it[s \ {Max(s)}], order[Max(s)], among, key, k)])[DOMAIN order]
BY DEF Pass, FoldLeft, MapThenFoldSet, Visit

LEMMA VisitTyped ==
  ASSUME NEW S, NEW chosen \in Seq(S), NEW p \in S, NEW among, NEW key, NEW k
  PROVE  Visit(chosen, p, among, key, k) \in Seq(S)
<1>1. Append(chosen, p) \in Seq(S)
  OBVIOUS
<1>. QED BY <1>1 DEF Visit

\* The loop, visit by visit.
LEMMA PassRuns ==
  ASSUME NEW S, NEW first \in Seq(S), NEW order \in Seq(S),
         NEW among, NEW key, NEW k
  PROVE  \E c : /\ c[0] = first /\ c[Len(order)] = Pass(first, order, among, key, k)
                /\ \A n \in 1 .. Len(order) :
                     c[n] = Visit(c[n - 1], order[n], among, key, k)
<1>. DEFINE N == Len(order)
            T == Seq(S)
            F == [z \in T \X (1 .. N) |-> Visit(z[1], order[z[2]], among, key, k)]
            Of(it) == [s \in SUBSET (DOMAIN order) |->
                         IF s = {} THEN first
                         ELSE Visit(it[s \ {Max(s)}], order[Max(s)], among, key, k)]
<1>0. /\ N \in Nat /\ DOMAIN order = 1 .. N /\ first \in T
      /\ \A n \in 1 .. N : order[n] \in S
  OBVIOUS
<1>. HIDE DEF N
<1>1. F \in [T \X (1 .. N) -> T]
  <2>1. ASSUME NEW z \in T \X (1 .. N)
        PROVE  Visit(z[1], order[z[2]], among, key, k) \in T
    <3>1. z[1] \in T /\ order[z[2]] \in S
      BY <1>0
    <3>. QED BY <3>1, VisitTyped
  <2>. QED BY <2>1
<1>2. PICK f \in [SUBSET (1 .. N) -> T] : IsFold(f, first, N, F)
  <2>1. first \in T /\ N \in Nat
    BY <1>0
  <2>. HIDE DEF F, T
  <2>. QED BY <1>1, <2>1, FoldExists, Zenon
<1>3. ASSUME NEW s \in SUBSET (1 .. N)
      PROVE  f[s] = IF s = {} THEN first
                    ELSE Visit(f[s \ {Max(s)}], order[Max(s)], among, key, k)
  <2>1. CASE s = {}
    BY <1>2, <2>1 DEF IsFold
  <2>2. CASE s # {}
    <3>1. Max(s) \in 1 .. N
      BY <1>0, <2>2, GreatestIsMember
    <3>2. f[s \ {Max(s)}] \in T
      OBVIOUS
    <3>3. <<f[s \ {Max(s)}], Max(s)>> \in T \X (1 .. N)
      BY <3>1, <3>2
    <3>4. F[<<f[s \ {Max(s)}], Max(s)>>]
            = Visit(f[s \ {Max(s)}], order[Max(s)], among, key, k)
      BY <3>3
    <3>. HIDE DEF F
    <3>. QED BY <1>2, <2>2, <3>4 DEF IsFold
  <2>. QED BY <2>1, <2>2
<1>4. f = Of(f)
  <2>. HIDE DEF T
  <2>. QED BY <1>0, <1>3
<1>. DEFINE it == CHOOSE g : g = Of(g)
<1>5. it = Of(it)
  <2>. HIDE DEF Of
  <2>. QED BY <1>4
<1>6. Pass(first, order, among, key, k) = it[DOMAIN order]
  BY PassUnfolds, Zenon
<1>. HIDE DEF it
<1>. DEFINE c == [n \in 0 .. N |-> it[1 .. n]]
<1>7. c[N] = Pass(first, order, among, key, k) /\ c[0] = first
  <2>1. 1 .. 0 = {} /\ {} \in SUBSET (1 .. N) /\ N \in 0 .. N /\ 0 \in 0 .. N
    BY <1>0
  <2>2. it[{}] = first
    BY <1>0, <1>5, <2>1
  <2>. QED BY <1>0, <1>6, <2>1, <2>2
<1>8. ASSUME NEW n \in 1 .. N
      PROVE  c[n] = Visit(c[n - 1], order[n], among, key, k)
  <2>1. n \in 0 .. N /\ n - 1 \in 0 .. N
    BY <1>0
  <2>2. c[n] = it[1 .. n] /\ c[n - 1] = it[(1 .. n) \ {n}]
    BY <1>0, <2>1, FirstNumbers
  <2>3. it[1 .. n] = Visit(it[(1 .. n) \ {n}], order[n], among, key, k)
    <3>1. /\ (1 .. n) \in SUBSET (DOMAIN order) /\ (1 .. n) # {} /\ Max(1 .. n) = n
      BY <1>0, FirstNumbers
    <3>2. it[1 .. n] = Visit(it[(1 .. n) \ {Max(1 .. n)}], order[Max(1 .. n)], among, key, k)
      BY <1>5, <3>1
    <3>. QED BY <3>1, <3>2
  <2>. QED BY <2>2, <2>3
<1>. HIDE DEF c
<1>. QED BY <1>7, <1>8 DEF N

----------------------------------------------------------------------------
(* What a pass over a ranking chooses *)

\* What a pass has after n visits: no chunk twice; what first had; what it added is
\* of among and of no other's key; a chunk is left out for want of a place or for
\* one of its key that came before it, and for the latter when a later one is in.
PassState(S, first, order, among, key, k, c, n) ==
  LET added == ToSet(c) \ ToSet(first)
      Forestalled(i) == \E q \in ToSet(c) :
                          /\ key[q] = key[order[i]]
                          /\ q \in ToSet(first) \/ \E h \in 1 .. (i - 1) : q = order[h]
  IN  /\ c \in Seq(S) /\ Len(first) <= Len(c) /\ Len(c) <= k
      /\ IsFiniteSet(ToSet(c)) /\ Cardinality(ToSet(c)) = Len(c)
      /\ ToSet(first) \subseteq ToSet(c)
      /\ \A p \in added : /\ Len(first) < k /\ p \in among
                          /\ \E h \in 1 .. n : p = order[h]
                          /\ \A q \in ToSet(c) \ {p} : key[q] # key[p]
      /\ \A i \in 1 .. n : order[i] \in among /\ order[i] \notin ToSet(c) =>
                             Len(c) >= k \/ Forestalled(i)
      /\ \A i, j \in 1 .. n :
           i < j /\ order[i] \in among /\ order[i] \notin ToSet(c) /\ order[j] \in added
             => Forestalled(i)

LEMMA AppendMembers ==
  ASSUME NEW S, NEW c \in Seq(S), NEW p \in S
  PROVE  /\ Append(c, p) \in Seq(S) /\ Len(Append(c, p)) = Len(c) + 1
         /\ ToSet(Append(c, p)) = ToSet(c) \cup {p}
<1>. DEFINE d == Append(c, p)
<1>1. d \in Seq(S) /\ Len(d) = Len(c) + 1 /\ Len(c) \in Nat
  OBVIOUS
<1>2. \A i \in 1 .. Len(c) : d[i] = c[i]
  OBVIOUS
<1>3. d[Len(c) + 1] = p
  OBVIOUS
<1>4. DOMAIN c = 1 .. Len(c) /\ DOMAIN d = 1 .. (Len(c) + 1)
  BY <1>1
<1>. HIDE DEF d
<1>5. ASSUME NEW x \in ToSet(d) PROVE x \in ToSet(c) \cup {p}
  <2>1. PICK i \in 1 .. (Len(c) + 1) : d[i] = x
    BY <1>4 DEF ToSet
  <2>2. CASE i = Len(c) + 1
    BY <1>3, <2>1, <2>2
  <2>3. CASE i \in 1 .. Len(c)
    BY <1>2, <1>4, <2>1, <2>3 DEF ToSet
  <2>. QED BY <1>1, <2>2, <2>3
<1>6. ASSUME NEW x \in ToSet(c) PROVE x \in ToSet(d)
  <2>1. PICK i \in 1 .. Len(c) : c[i] = x
    BY <1>4 DEF ToSet
  <2>2. i \in 1 .. (Len(c) + 1) /\ d[i] = x
    BY <1>1, <1>2, <2>1
  <2>. QED BY <1>4, <2>2 DEF ToSet
<1>7. p \in ToSet(d)
  <2>1. Len(c) + 1 \in 1 .. (Len(c) + 1)
    BY <1>1
  <2>. QED BY <1>3, <1>4, <2>1 DEF ToSet
<1>8. ToSet(d) = ToSet(c) \cup {p}
  BY <1>5, <1>6, <1>7
<1>. QED BY <1>1, <1>8 DEF d

LEMMA VisitKeepsPassState ==
  ASSUME NEW S, NEW first \in Seq(S), NEW order \in Seq(S), NEW among, NEW key,
         NEW k \in Nat, NEW c, NEW n \in 1 .. Len(order),
         \A i, j \in 1 .. Len(order) : order[i] = order[j] => i = j,
         PassState(S, first, order, among, key, k, c, n - 1)
  PROVE  PassState(S, first, order, among, key, k,
                   Visit(c, order[n], among, key, k), n)
<1>. DEFINE p == order[n]
            d == Visit(c, order[n], among, key, k)
            Forestalled(e, i) == \E q \in ToSet(e) :
                                   /\ key[q] = key[order[i]]
                                   /\ q \in ToSet(first) \/ \E h \in 1 .. (i - 1) : q = order[h]
<1>1. /\ n \in Nat /\ p \in S /\ Len(first) \in Nat
      /\ \A i \in 1 .. n : i \in 1 .. (n - 1) \/ i = n
      /\ \A i \in 1 .. (n - 1) : i \in 1 .. n /\ i \in 1 .. Len(order) /\ i # n
  OBVIOUS
<1>2. /\ c \in Seq(S) /\ Len(first) <= Len(c) /\ Len(c) <= k /\ Len(c) \in Nat
      /\ IsFiniteSet(ToSet(c)) /\ Cardinality(ToSet(c)) = Len(c)
      /\ ToSet(first) \subseteq ToSet(c)
  BY DEF PassState
<1>3. ASSUME NEW x \in ToSet(c) \ ToSet(first)
      PROVE  /\ Len(first) < k /\ x \in among
             /\ \E h \in 1 .. (n - 1) : x = order[h]
             /\ \A q \in ToSet(c) \ {x} : key[q] # key[x]
  BY DEF PassState
<1>4. ASSUME NEW i \in 1 .. (n - 1), order[i] \in among, order[i] \notin ToSet(c)
      PROVE  Len(c) >= k \/ Forestalled(c, i)
  BY <1>4 DEF PassState
<1>5. ASSUME NEW i \in 1 .. (n - 1), NEW j \in 1 .. (n - 1), i < j, order[i] \in among,
             order[i] \notin ToSet(c), order[j] \in ToSet(c) \ ToSet(first)
      PROVE  Forestalled(c, i)
  BY <1>5 DEF PassState
<1>. HIDE DEF Forestalled
<1>6. CASE /\ p \in among /\ Len(c) < k
           /\ \A q \in ToSet(c) : key[q] # key[p]
  <2>1. d = Append(c, p)
    BY <1>6 DEF Visit
  <2>. HIDE DEF d, p
  <2>2. d \in Seq(S) /\ Len(d) = Len(c) + 1 /\ ToSet(d) = ToSet(c) \cup {p}
    BY <1>1, <1>2, <2>1, AppendMembers
  <2>3. p \notin ToSet(c)
    BY <1>6
  <2>4. IsFiniteSet(ToSet(d)) /\ Cardinality(ToSet(d)) = Len(d)
    <3>1. /\ IsFiniteSet(ToSet(c) \cup {p})
          /\ Cardinality(ToSet(c) \cup {p}) = Cardinality(ToSet(c)) + 1
      BY <1>2, <2>3, FS_AddElement
    <3>. QED BY <1>2, <2>2, <3>1
  <2>5. Len(first) <= Len(d) /\ Len(d) <= k /\ Len(first) < k
    BY <1>1, <1>2, <1>6, <2>2
  <2>6. ASSUME NEW x \in ToSet(d) \ ToSet(first)
        PROVE  /\ Len(first) < k /\ x \in among
               /\ \E h \in 1 .. n : x = order[h]
               /\ \A q \in ToSet(d) \ {x} : key[q] # key[x]
    <3>1. CASE x = p
      <4>1. n \in 1 .. n /\ x = order[n]
        BY <1>1, <3>1 DEF p
      <4>. QED BY <1>6, <2>2, <2>5, <3>1, <4>1
    <3>2. CASE x # p
      <4>1. x \in ToSet(c) \ ToSet(first)
        BY <2>2, <3>2
      <4>2. \E h \in 1 .. n : x = order[h]
        BY <1>1, <1>3, <4>1
      <4>. QED BY <1>3, <1>6, <2>2, <4>1, <4>2
    <3>. QED BY <3>1, <3>2
  <2>7. ASSUME NEW i \in 1 .. n, order[i] \in among, order[i] \notin ToSet(d)
        PROVE  Forestalled(d, i)
    <3>1. i \in 1 .. (n - 1) /\ order[i] \notin ToSet(c)
      BY <1>1, <2>2, <2>7 DEF p
    <3>2. Forestalled(c, i)
      BY <1>2, <1>4, <1>6, <2>7, <3>1
    <3>. QED BY <2>2, <3>2 DEF Forestalled
  <2>. QED BY <1>2, <2>2, <2>4, <2>5, <2>6, <2>7 DEF PassState, Forestalled, d
<1>7. CASE ~ (/\ p \in among /\ Len(c) < k
              /\ \A q \in ToSet(c) : key[q] # key[p])
  <2>1. d = c
    BY <1>7 DEF Visit
  <2>. HIDE DEF d
  <2>2. ASSUME NEW x \in ToSet(c) \ ToSet(first) PROVE \E h \in 1 .. n : x = order[h]
    BY <1>1, <1>3
  <2>3. ASSUME NEW i \in 1 .. n, order[i] \in among, order[i] \notin ToSet(c)
        PROVE  Len(c) >= k \/ Forestalled(c, i)
    <3>1. CASE i \in 1 .. (n - 1)
      BY <1>4, <2>3, <3>1
    <3>2. CASE i = n
      <4>1. CASE \E q \in ToSet(c) : key[q] = key[p]
        <5>1. PICK q \in ToSet(c) : key[q] = key[p]
          BY <4>1
        <5>2. q \in ToSet(first) \/ \E h \in 1 .. (n - 1) : q = order[h]
          BY <1>3
        <5>. QED BY <3>2, <5>1, <5>2 DEF Forestalled
      <4>2. CASE ~ (Len(c) < k)
        BY <1>2, <4>2
      <4>. QED BY <1>7, <2>3, <3>2, <4>1, <4>2
    <3>. QED BY <1>1, <3>1, <3>2
  <2>4. ASSUME NEW i \in 1 .. n, NEW j \in 1 .. n, i < j, order[i] \in among,
               order[i] \notin ToSet(c), order[j] \in ToSet(c) \ ToSet(first)
        PROVE  Forestalled(c, i)
    <3>1. PICK h \in 1 .. (n - 1) : order[j] = order[h]
      BY <1>3, <2>4
    <3>2. j \in 1 .. Len(order) /\ h \in 1 .. Len(order)
      OBVIOUS
    <3>3. j = h
      BY <3>1, <3>2
    <3>4. i \in 1 .. (n - 1)
      BY <2>4, <3>3
    <3>. QED BY <1>5, <2>4, <3>3, <3>4
  <2>. QED BY <1>2, <1>3, <2>1, <2>2, <2>3, <2>4 DEF PassState, Forestalled, d
<1>. QED BY <1>6, <1>7

LEMMA PassEnds ==
  ASSUME NEW S, NEW first \in Seq(S), NEW order \in Seq(S), NEW among, NEW key,
         NEW k \in Nat, Len(first) <= k,
         IsFiniteSet(ToSet(first)), Cardinality(ToSet(first)) = Len(first),
         \A i, j \in 1 .. Len(order) : order[i] = order[j] => i = j
  PROVE  PassState(S, first, order, among, key, k,
                   Pass(first, order, among, key, k), Len(order))
<1>1. PICK c : /\ c[0] = first /\ c[Len(order)] = Pass(first, order, among, key, k)
               /\ \A n \in 1 .. Len(order) :
                    c[n] = Visit(c[n - 1], order[n], among, key, k)
  BY PassRuns
<1>. DEFINE Good == {n \in 0 .. Len(order) : PassState(S, first, order, among, key, k, c[n], n)}
<1>0. Len(order) \in Nat /\ Len(first) \in Nat
  OBVIOUS
<1>2. 0 \in Good
  <2>1. PassState(S, first, order, among, key, k, first, 0)
    BY <1>0 DEF PassState
  <2>. QED BY <1>0, <1>1, <2>1
<1>3. ASSUME NEW n \in 1 .. Len(order), n - 1 \in Good PROVE n \in Good
  <2>1. PassState(S, first, order, among, key, k, c[n - 1], n - 1)
    BY <1>3
  <2>2. PassState(S, first, order, among, key, k,
                  Visit(c[n - 1], order[n], among, key, k), n)
    BY <2>1, VisitKeepsPassState
  <2>3. n \in 0 .. Len(order)
    BY <1>0
  <2>. QED BY <1>1, <2>2, <2>3
<1>. HIDE DEF Good
<1>4. \A n \in 0 .. Len(order) : n \in Good
  BY <1>0, <1>2, <1>3, UpTo
<1>5. Len(order) \in Good
  BY <1>0, <1>4
<1>. QED BY <1>1, <1>5 DEF Good

----------------------------------------------------------------------------
(* Orders *)

\* The members of S in the order in which those before p are Before[p].
Ranks(order, S, Before) ==
  /\ order \in [1 .. Cardinality(S) -> S]
  /\ \A p \in S : \E i \in 1 .. Cardinality(S) : order[i] = p
  /\ \A i, j \in 1 .. Cardinality(S) : i < j => order[i] \in Before[order[j]]

StrictOrder(S, Before) ==
  /\ Before \in [S -> SUBSET S]
  /\ \A p \in S : p \notin Before[p]
  /\ \A p, q, r \in S : q \in Before[p] /\ r \in Before[q] => r \in Before[p]
  /\ \A p, q \in S : p # q => q \in Before[p] \/ p \in Before[q]

LEMMA RankedByCount ==
  ASSUME NEW S, IsFiniteSet(S), NEW Before, StrictOrder(S, Before)
  PROVE  /\ \A i \in 1 .. Cardinality(S) : \E p \in S : Cardinality(Before[p]) = i - 1
         /\ \A order \in [1 .. Cardinality(S) -> S] :
              (\A i \in 1 .. Cardinality(S) : Cardinality(Before[order[i]]) = i - 1)
                => Ranks(order, S, Before)
<1>. DEFINE N == Cardinality(S)
            rank == [p \in S |-> Cardinality(Before[p]) + 1]
<1>1. N \in Nat
  BY FS_CardinalityType
<1>2. ASSUME NEW p \in S
      PROVE  /\ IsFiniteSet(Before[p]) /\ Cardinality(Before[p]) \in Nat
             /\ Cardinality(Before[p]) < N
  <2>1. Before[p] \in SUBSET S /\ p \notin Before[p] /\ Before[p] # S
    BY DEF StrictOrder
  <2>2. /\ IsFiniteSet(Before[p]) /\ Cardinality(Before[p]) <= N
        /\ (N = Cardinality(Before[p]) => S = Before[p])
    BY <2>1, FS_Subset
  <2>3. Cardinality(Before[p]) \in Nat
    BY <2>2, FS_CardinalityType
  <2>. QED BY <1>1, <2>1, <2>2, <2>3
<1>3. ASSUME NEW p \in S, NEW q \in Before[p]
      PROVE  q \in S /\ Cardinality(Before[q]) < Cardinality(Before[p])
  <2>1. q \in S /\ Before[q] \in SUBSET Before[p] /\ Before[q] # Before[p]
    BY DEF StrictOrder
  <2>2. /\ Cardinality(Before[q]) <= Cardinality(Before[p])
        /\ (Cardinality(Before[p]) = Cardinality(Before[q]) => Before[p] = Before[q])
    BY <1>2, <2>1, FS_Subset
  <2>. QED BY <1>2, <2>1, <2>2
<1>4. rank \in Injection(S, 1 .. N)
  <2>1. rank \in [S -> 1 .. N]
    BY <1>1, <1>2
  <2>2. ASSUME NEW p \in S, NEW q \in S, p # q PROVE rank[p] # rank[q]
    <3>1. q \in Before[p] \/ p \in Before[q]
      BY <2>2 DEF StrictOrder
    <3>. QED BY <1>2, <1>3, <3>1
  <2>. HIDE DEF rank
  <2>. QED BY <2>1, <2>2 DEF Injection, IsInjective
<1>5. rank \in Surjection(S, 1 .. N)
  <2>1. IsFiniteSet(1 .. N) /\ Cardinality(1 .. N) = N
    BY <1>1, FS_Interval
  <2>. QED BY <1>4, <2>1, FS_Injection
<1>6. ASSUME NEW i \in 1 .. N PROVE \E p \in S : Cardinality(Before[p]) = i - 1
  <2>1. \E p \in S : rank[p] = i
    BY <1>5 DEF Surjection
  <2>. QED BY <1>1, <1>2, <2>1
<1>7. ASSUME NEW order \in [1 .. N -> S],
             \A i \in 1 .. N : Cardinality(Before[order[i]]) = i - 1
      PROVE  Ranks(order, S, Before)
  <2>1. ASSUME NEW p \in S PROVE \E i \in 1 .. N : order[i] = p
    <3>1. rank[p] \in 1 .. N /\ rank[p] = Cardinality(Before[p]) + 1
      BY <1>1, <1>2
    <3>2. order[rank[p]] \in S /\ Cardinality(Before[order[rank[p]]]) = Cardinality(Before[p])
      BY <1>2, <1>7, <3>1
    <3>3. rank[order[rank[p]]] = rank[p]
      BY <3>2
    <3>4. order[rank[p]] = p
      BY <1>4, <3>2, <3>3 DEF Injection, IsInjective
    <3>. QED BY <3>1, <3>4
  <2>2. ASSUME NEW i \in 1 .. N, NEW j \in 1 .. N, i < j
        PROVE  order[i] \in Before[order[j]]
    <3>1. order[i] # order[j]
      BY <1>7, <2>2
    <3>2. order[j] \notin Before[order[i]]
      BY <1>1, <1>3, <1>7, <2>2
    <3>. QED BY <1>7, <3>1, <3>2 DEF StrictOrder
  <2>. QED BY <2>1, <2>2 DEF Ranks
<1>. HIDE DEF rank
<1>. QED BY <1>6, <1>7

LEMMA DistinctCount ==
  ASSUME NEW S, NEW s \in Seq(S),
         \A i, j \in 1 .. Len(s) : s[i] = s[j] => i = j
  PROVE  IsFiniteSet(ToSet(s)) /\ Cardinality(ToSet(s)) = Len(s)
<1>1. Len(s) \in Nat /\ DOMAIN s = 1 .. Len(s)
  OBVIOUS
<1>2. s \in [1 .. Len(s) -> ToSet(s)]
  BY <1>1 DEF ToSet
<1>3. s \in Bijection(1 .. Len(s), ToSet(s))
  BY <1>1, <1>2 DEF ToSet, Bijection, Injection, Surjection, IsInjective
<1>4. IsFiniteSet(1 .. Len(s)) /\ Cardinality(1 .. Len(s)) = Len(s)
  BY <1>1, FS_Interval
<1>5. ExistsBijection(1 .. Len(s), ToSet(s))
  BY <1>3 DEF ExistsBijection
<1>. QED BY <1>4, <1>5, FS_Bijection

LEMMA RankedSequence ==
  ASSUME NEW S, IsFiniteSet(S), NEW Before, StrictOrder(S, Before),
         NEW order, Ranks(order, S, Before)
  PROVE  /\ order \in Seq(S) /\ Len(order) = Cardinality(S) /\ Len(order) \in Nat
         /\ DOMAIN order = 1 .. Len(order) /\ ToSet(order) = S
         /\ \A i, j \in 1 .. Len(order) : order[i] = order[j] => i = j
         /\ \A i, j \in 1 .. Len(order) : i < j <=> order[i] \in Before[order[j]]
<1>1. Cardinality(S) \in Nat
  BY FS_CardinalityType
<1>2. order \in [1 .. Cardinality(S) -> S]
  BY DEF Ranks
<1>3. /\ order \in Seq(S) /\ Len(order) = Cardinality(S) /\ Len(order) \in Nat
      /\ DOMAIN order = 1 .. Len(order)
  BY <1>1, <1>2
<1>4. ToSet(order) = S
  BY <1>2 DEF Ranks, ToSet
<1>5. ASSUME NEW i \in 1 .. Len(order), NEW j \in 1 .. Len(order), i < j
      PROVE  /\ order[i] \in Before[order[j]] /\ order[j] \notin Before[order[i]]
             /\ order[i] # order[j]
  <2>1. order[i] \in Before[order[j]] /\ order[i] \in S /\ order[j] \in S
    BY <1>2, <1>3, <1>5 DEF Ranks
  <2>2. order[i] \notin Before[order[i]]
    BY <2>1 DEF StrictOrder
  <2>3. order[j] \notin Before[order[i]]
    BY <2>1, <2>2 DEF StrictOrder
  <2>. QED BY <2>1, <2>2, <2>3
<1>6. ASSUME NEW i \in 1 .. Len(order), NEW j \in 1 .. Len(order), order[i] = order[j]
      PROVE  i = j
  BY <1>3, <1>5, <1>6
<1>7. ASSUME NEW i \in 1 .. Len(order), NEW j \in 1 .. Len(order),
             order[i] \in Before[order[j]]
      PROVE  i < j
  <2>1. order[i] \in S /\ order[i] \notin Before[order[i]]
    BY <1>2, <1>3 DEF StrictOrder
  <2>2. i # j /\ ~ (j < i)
    BY <1>5, <1>7, <2>1
  <2>. QED BY <1>3, <2>2
<1>. QED BY <1>3, <1>4, <1>5, <1>6, <1>7

\* The first k of an order are before all the others.
LEMMA FirstOfOrder ==
  ASSUME NEW S, IsFiniteSet(S), NEW Before, StrictOrder(S, Before),
         NEW order, Ranks(order, S, Before), NEW k \in Nat
  PROVE  LET s == SubSeq(order, 1, IF k < Len(order) THEN k ELSE Len(order))
         IN  /\ s \in Seq(S) /\ Len(s) <= k /\ Cardinality(ToSet(s)) = Len(s)
             /\ Len(s) < k => ToSet(s) = S
             /\ \A p \in ToSet(s), q \in S \ ToSet(s) : p \in Before[q]
<1>. DEFINE n == IF k < Len(order) THEN k ELSE Len(order)
            s == SubSeq(order, 1, n)
<1>1. /\ order \in Seq(S) /\ Len(order) \in Nat /\ DOMAIN order = 1 .. Len(order)
      /\ ToSet(order) = S
      /\ \A i, j \in 1 .. Len(order) : order[i] = order[j] => i = j
      /\ \A i, j \in 1 .. Len(order) : i < j <=> order[i] \in Before[order[j]]
  BY RankedSequence
<1>0. Len(order) \in Nat
  BY <1>1
<1>2. n \in Nat /\ n <= k /\ n <= Len(order) /\ (n < k => n = Len(order))
  BY <1>0
<1>. HIDE DEF n
<1>3. s \in Seq(S) /\ Len(s) = n /\ \A i \in 1 .. n : s[i] = order[i]
  BY <1>1, <1>2
<1>4. DOMAIN s = 1 .. n
  BY <1>3
<1>. HIDE DEF s
<1>5. \A i \in 1 .. n : i \in 1 .. Len(order)
  BY <1>0, <1>2
<1>6. Cardinality(ToSet(s)) = Len(s)
  BY <1>1, <1>3, <1>5, DistinctCount
<1>7. ToSet(s) = {order[i] : i \in 1 .. n}
  BY <1>3, <1>4 DEF ToSet
<1>8. Len(s) < k => ToSet(s) = S
  BY <1>1, <1>2, <1>3, <1>7 DEF ToSet
<1>9. ASSUME NEW p \in ToSet(s), NEW q \in S \ ToSet(s) PROVE p \in Before[q]
  <2>1. PICK i \in 1 .. n : p = order[i]
    BY <1>7
  <2>2. PICK j \in 1 .. Len(order) : q = order[j]
    BY <1>1 DEF ToSet
  <2>3. j \notin 1 .. n
    BY <1>7, <2>2
  <2>4. i < j
    BY <1>0, <1>2, <2>3
  <2>. QED BY <1>1, <1>5, <2>1, <2>2, <2>4
<1>10. /\ s \in Seq(S) /\ Len(s) <= k /\ Cardinality(ToSet(s)) = Len(s)
       /\ Len(s) < k => ToSet(s) = S
       /\ \A p \in ToSet(s), q \in S \ ToSet(s) : p \in Before[q]
  BY <1>2, <1>3, <1>6, <1>8, <1>9
<1>. QED BY <1>10 DEF s, n

----------------------------------------------------------------------------
(* What the two passes choose of a ranking *)

LEMMA MembersTyped ==
  ASSUME NEW S, NEW s \in Seq(S)
  PROVE  ToSet(s) \subseteq S
BY DEF ToSet

\* One chunk of each procedure and then the best of the rest: who is chosen, and who
\* is left, whatever the ranking.
LEMMA PassesChooseTheBest ==
  ASSUME NEW S \in SUBSET Positions, IsFiniteSet(S), NEW Before, StrictOrder(S, Before),
         NEW order, Ranks(order, S, Before), NEW k \in Nat
  PROVE  LET e == Filled(Coverage(order, k), order, k)
             Leading(p) == \A q \in S \ {p} : Procedure[q] = Procedure[p] => p \in Before[q]
         IN  /\ ToSet(e) \subseteq S /\ IsFiniteSet(ToSet(e)) /\ Cardinality(ToSet(e)) <= k
             /\ Cardinality(ToSet(e)) < k => ToSet(e) = S
             /\ \A p \in ToSet(e), q \in S \ ToSet(e) :
                  \/ Leading(p) /\ (Leading(q) => p \in Before[q])
                  \/ ~ Leading(p) /\ ~ Leading(q) /\ p \in Before[q]
<1>. DEFINE d == Coverage(order, k)
            e == Filled(d, order, k)
            N == Len(order)
            Leading(p) == \A q \in S \ {p} : Procedure[q] = Procedure[p] => p \in Before[q]
<1>1. /\ order \in Seq(S) /\ N \in Nat /\ DOMAIN order = 1 .. N
      /\ ToSet(order) = S
      /\ \A i, j \in 1 .. N : order[i] = order[j] => i = j
      /\ \A i, j \in 1 .. N : i < j <=> order[i] \in Before[order[j]]
  BY RankedSequence
<1>2. PassState(S, <<>>, order, Positions, Procedure, k, d, N)
  <2>1. <<>> \in Seq(S) /\ Len(<<>>) = 0 /\ ToSet(<<>>) = {}
    BY DEF ToSet
  <2>2. IsFiniteSet(ToSet(<<>>)) /\ Cardinality(ToSet(<<>>)) = Len(<<>>)
    BY <2>1, FS_EmptySet
  <2>3. Len(<<>>) <= k
    BY <2>1
  <2>4. d = Pass(<<>>, order, Positions, Procedure, k)
    BY DEF Coverage
  <2>. HIDE DEF d
  <2>. QED BY <1>1, <2>1, <2>2, <2>3, <2>4, PassEnds
<1>3. /\ d \in Seq(S) /\ Len(d) <= k /\ IsFiniteSet(ToSet(d)) /\ Cardinality(ToSet(d)) = Len(d)
      /\ ToSet(d) \subseteq S
  <2>1. d \in Seq(S) /\ Len(d) <= k /\ IsFiniteSet(ToSet(d)) /\ Cardinality(ToSet(d)) = Len(d)
    BY <1>2 DEF PassState
  <2>. QED BY <2>1, MembersTyped
<1>. HIDE DEF d
<1>4. PassState(S, d, order, Positions, Itself, k, e, N)
  BY <1>1, <1>3, PassEnds DEF Filled
<1>. HIDE DEF e
<1>5. /\ e \in Seq(S) /\ Len(e) <= k /\ IsFiniteSet(ToSet(e)) /\ Cardinality(ToSet(e)) = Len(e)
      /\ ToSet(d) \subseteq ToSet(e) /\ ToSet(e) \subseteq S
  <2>1. /\ e \in Seq(S) /\ Len(e) <= k /\ IsFiniteSet(ToSet(e)) /\ Cardinality(ToSet(e)) = Len(e)
        /\ ToSet(d) \subseteq ToSet(e)
    BY <1>4 DEF PassState
  <2>. QED BY <2>1, MembersTyped
<1>6. ASSUME NEW p \in S
      PROVE  \E i \in 1 .. N : p = order[i]
  BY <1>1 DEF ToSet
<1>7. ASSUME NEW p \in S, NEW q \in S, p \in Before[q]
      PROVE  q \notin Before[p]
  <2>1. q \notin Before[q]
    BY DEF StrictOrder
  <2>. QED BY <1>7, <2>1 DEF StrictOrder
<1>8. ASSUME NEW p \in S, NEW q \in S, p # q, p \notin Before[q]
      PROVE  q \in Before[p]
  BY <1>8 DEF StrictOrder
<1>9. ASSUME NEW p \in ToSet(d), NEW q \in ToSet(d), p # q
      PROVE  Procedure[p] # Procedure[q]
  <2>1. ToSet(<<>>) = {}
    BY DEF ToSet
  <2>2. \A x \in ToSet(d) : \A y \in ToSet(d) \ {x} : Procedure[y] # Procedure[x]
    BY <1>2, <2>1 DEF PassState
  <2>. QED BY <1>9, <2>2
<1>10. ASSUME NEW p \in ToSet(d), NEW q \in S \ ToSet(d), q \in Before[p]
       PROVE  \E r \in ToSet(d) : Procedure[r] = Procedure[q] /\ r \in Before[q]
  <2>1. PICK i \in 1 .. N : q = order[i]
    BY <1>6
  <2>2. PICK j \in 1 .. N : p = order[j]
    BY <1>3, <1>6
  <2>3. i < j
    BY <1>1, <1>10, <2>1, <2>2
  <2>4. ToSet(<<>>) = {} /\ q \in Positions
    BY DEF ToSet
  <2>5. PICK r \in ToSet(d) : /\ Procedure[r] = Procedure[order[i]]
                              /\ \E h \in 1 .. (i - 1) : r = order[h]
    BY <1>2, <2>1, <2>2, <2>3, <2>4 DEF PassState
  <2>6. PICK h \in 1 .. (i - 1) : r = order[h]
    BY <2>5
  <2>7. h \in 1 .. N /\ h < i
    BY <1>1
  <2>8. r \in Before[q]
    BY <1>1, <2>1, <2>6, <2>7
  <2>. QED BY <2>1, <2>5, <2>8
<1>11. ASSUME NEW q \in S \ ToSet(d), Len(d) < k
       PROVE  \E r \in ToSet(d) : Procedure[r] = Procedure[q]
  <2>1. PICK i \in 1 .. N : q = order[i]
    BY <1>6
  <2>2. q \in Positions /\ ~ (Len(d) >= k)
    BY <1>3, <1>11
  <2>. QED BY <1>2, <2>1, <2>2 DEF PassState
<1>12. ASSUME NEW p \in ToSet(d) PROVE Leading(p)
  <2>1. ASSUME NEW q \in S \ {p}, Procedure[q] = Procedure[p], p \notin Before[q] PROVE FALSE
    <3>1. q \in S \ ToSet(d) /\ q \in Before[p]
      BY <1>3, <1>8, <1>9, <2>1
    <3>2. PICK r \in ToSet(d) : Procedure[r] = Procedure[q] /\ r \in Before[q]
      BY <1>10, <3>1
    <3>3. r = p
      BY <1>9, <2>1, <3>2
    <3>. QED BY <2>1, <3>2, <3>3
  <2>. QED BY <2>1
<1>13. ASSUME NEW p \in ToSet(d), NEW q \in S \ ToSet(d), Leading(q)
       PROVE  p \in Before[q]
  <2>1. SUFFICES ASSUME p \notin Before[q] PROVE FALSE
    OBVIOUS
  <2>2. q \in Before[p]
    BY <1>3, <1>8, <2>1
  <2>3. PICK r \in ToSet(d) : Procedure[r] = Procedure[q] /\ r \in Before[q]
    BY <1>10, <2>2
  <2>4. r \in S \ {q}
    BY <1>3
  <2>5. q \in Before[r]
    BY <1>13, <2>3, <2>4
  <2>. QED BY <1>7, <2>3, <2>4, <2>5
<1>14. ASSUME NEW q \in S \ ToSet(d), Len(d) < k PROVE ~ Leading(q)
  <2>1. PICK r \in ToSet(d) : Procedure[r] = Procedure[q]
    BY <1>11, <1>14
  <2>2. r \in S \ {q} /\ q \in S \ {r}
    BY <1>3
  <2>3. r \in Before[q]
    BY <1>12, <2>1, <2>2
  <2>. QED BY <1>7, <2>1, <2>2, <2>3
<1>15. ASSUME NEW p \in ToSet(e) \ ToSet(d) PROVE Len(d) < k
  BY <1>4 DEF PassState
<1>16. ASSUME NEW p \in ToSet(e) \ ToSet(d), NEW q \in S \ ToSet(e) PROVE p \in Before[q]
  <2>1. SUFFICES ASSUME p \notin Before[q] PROVE FALSE
    OBVIOUS
  <2>2. PICK i \in 1 .. N : q = order[i]
    BY <1>6
  <2>3. PICK j \in 1 .. N : p = order[j]
    BY <1>5, <1>6
  <2>4. i < j
    BY <1>1, <1>5, <1>8, <2>1, <2>2, <2>3
  <2>5. q \in Positions
    OBVIOUS
  <2>6. PICK r \in ToSet(e) : Itself[r] = Itself[order[i]]
    BY <1>4, <2>2, <2>3, <2>4, <2>5 DEF PassState
  <2>7. r = q
    BY <1>5, <2>2, <2>5, <2>6 DEF Itself
  <2>. QED BY <2>7
<1>17. ASSUME Len(e) < k PROVE ToSet(e) = S
  <2>1. ASSUME NEW q \in S, q \notin ToSet(e) PROVE FALSE
    <3>1. PICK i \in 1 .. N : q = order[i]
      BY <1>6
    <3>2. q \in Positions /\ ~ (Len(e) >= k)
      BY <1>5, <1>17
    <3>3. PICK r \in ToSet(e) : Itself[r] = Itself[order[i]]
      BY <1>4, <2>1, <3>1, <3>2 DEF PassState
    <3>4. r = q
      BY <1>5, <3>1, <3>2, <3>3 DEF Itself
    <3>. QED BY <2>1, <3>4
  <2>. QED BY <1>5, <2>1
<1>18. ASSUME NEW p \in ToSet(e), NEW q \in S \ ToSet(e)
       PROVE  \/ Leading(p) /\ (Leading(q) => p \in Before[q])
              \/ ~ Leading(p) /\ ~ Leading(q) /\ p \in Before[q]
  <2>1. q \in S \ ToSet(d) /\ p \in S
    BY <1>5
  <2>2. CASE p \in ToSet(d)
    BY <1>12, <1>13, <2>1, <2>2
  <2>3. CASE p \notin ToSet(d)
    BY <1>14, <1>15, <1>16, <2>1, <2>3
  <2>. QED BY <2>2, <2>3
<1>. HIDE DEF Leading
<1>19. /\ ToSet(e) \subseteq S /\ IsFiniteSet(ToSet(e)) /\ Cardinality(ToSet(e)) <= k
       /\ Cardinality(ToSet(e)) < k => ToSet(e) = S
       /\ \A p \in ToSet(e), q \in S \ ToSet(e) :
                  \/ Leading(p) /\ (Leading(q) => p \in Before[q])
                  \/ ~ Leading(p) /\ ~ Leading(q) /\ p \in Before[q]
  BY <1>5, <1>17, <1>18
<1>. QED BY <1>19 DEF e, d, Leading

LEMMA PositionsFinite ==
  Positions \subseteq Nat /\ IsFiniteSet(Positions)
<1>1. Len(Procedure) \in Nat /\ Positions = 1 .. Len(Procedure)
  BY GenerationAssumption DEF GenerationAssumption, Positions
<1>2. IsFiniteSet(1 .. Len(Procedure))
  BY <1>1, FS_Interval
<1>. QED BY <1>1, <1>2

\* Nearer and Outranks, as the sets of those before each chunk.
NearerThan(S, sim) ==
  [p \in S |-> {q \in S : sim[q] > sim[p] \/ (sim[q] = sim[p] /\ q < p)}]

RankedOver(S, score, sim) ==
  [p \in S |->
     {q \in S : \/ score[q] > score[p]
                \/ score[q] = score[p] /\ (sim[q] > sim[p] \/ (sim[q] = sim[p] /\ q < p))}]

LEMMA NearerIsStrict ==
  ASSUME NEW S \in SUBSET Positions, NEW sim, \A p \in S : sim[p] \in Int
  PROVE  StrictOrder(S, NearerThan(S, sim))
<1>1. \A p \in S : p \in Int
  BY PositionsFinite
<1>. QED BY <1>1 DEF StrictOrder, NearerThan

LEMMA RankedIsStrict ==
  ASSUME NEW S \in SUBSET Positions, NEW score, NEW sim,
         \A p \in S : score[p] \in Int /\ sim[p] \in Int
  PROVE  StrictOrder(S, RankedOver(S, score, sim))
<1>1. \A p \in S : p \in Int
  BY PositionsFinite
<1>. QED BY <1>1 DEF StrictOrder, RankedOver

LEMMA RankedInOrder ==
  ASSUME NEW S \in SUBSET Positions, NEW score,
         \A p \in S : score[p] \in Int /\ similarity[p] \in Int
  PROVE  Ranks(InOrder(S, LAMBDA p, q : Outranks(score, p, q)), S,
               RankedOver(S, score, similarity))
<1>1. IsFiniteSet(S)
  BY PositionsFinite, FS_Subset
<1>. DEFINE Before == RankedOver(S, score, similarity)
            order == InOrder(S, LAMBDA p, q : Outranks(score, p, q))
<1>2. StrictOrder(S, Before)
  BY RankedIsStrict
<1>3. ASSUME NEW p \in S PROVE Before[p] = {q \in S : Outranks(score, q, p)}
  BY DEF RankedOver, Outranks, Nearer
<1>. HIDE DEF Before
<1>4. \A i \in 1 .. Cardinality(S) : \E p \in S : Cardinality(Before[p]) = i - 1
  BY <1>1, <1>2, RankedByCount
<1>5. order = [i \in 1 .. Cardinality(S) |->
                 CHOOSE p \in S : Cardinality({q \in S : Outranks(score, q, p)}) = i - 1]
  BY DEF InOrder
<1>. HIDE DEF order
<1>6. ASSUME NEW i \in 1 .. Cardinality(S)
      PROVE  order[i] \in S /\ Cardinality(Before[order[i]]) = i - 1
  <2>1. \E p \in S : Cardinality({q \in S : Outranks(score, q, p)}) = i - 1
    BY <1>3, <1>4
  <2>2. /\ order[i] \in S
        /\ Cardinality({q \in S : Outranks(score, q, order[i])}) = i - 1
    BY <1>5, <2>1
  <2>. QED BY <1>3, <2>2
<1>7. order \in [1 .. Cardinality(S) -> S]
  BY <1>5, <1>6
<1>8. Ranks(order, S, Before)
  BY <1>1, <1>2, <1>6, <1>7, RankedByCount
<1>. QED BY <1>8 DEF Before, order

\* What is sent to the reranker.
SentIsNearest(s, sim) ==
  /\ s \in Seq(Positions) /\ Len(s) <= RerankCount
  /\ Cardinality(ToSet(s)) = Len(s)
  /\ Len(s) < RerankCount => ToSet(s) = Positions
  /\ \A p \in ToSet(s), q \in Positions \ ToSet(s) : p \in NearerThan(Positions, sim)[q]

LEMMA CandidatesAreNearest ==
  similarity \in [Positions -> Levels] => SentIsNearest(Candidates, similarity)
<1>. SUFFICES ASSUME similarity \in [Positions -> Levels]
             PROVE  SentIsNearest(Candidates, similarity)
  OBVIOUS
<1>0. RerankCount \in Nat /\ Levels \subseteq Int
  BY GenerationAssumption DEF GenerationAssumption
<1>. DEFINE S == Positions
            Before == NearerThan(S, similarity)
            order == InOrder(S, Nearer)
<1>1. IsFiniteSet(S)
  BY PositionsFinite
<1>2. StrictOrder(S, Before)
  BY <1>0, NearerIsStrict
<1>3. ASSUME NEW p \in S PROVE Before[p] = {q \in S : Nearer(q, p)}
  BY DEF NearerThan, Nearer
<1>. HIDE DEF Before, S
<1>4. /\ \A i \in 1 .. Cardinality(S) : \E p \in S : Cardinality(Before[p]) = i - 1
      /\ order = [i \in 1 .. Cardinality(S) |->
                    CHOOSE p \in S : Cardinality({q \in S : Nearer(q, p)}) = i - 1]
  BY <1>1, <1>2, RankedByCount DEF InOrder
<1>. HIDE DEF order
<1>5. Ranks(order, S, Before)
  <2>1. ASSUME NEW i \in 1 .. Cardinality(S)
        PROVE  order[i] \in S /\ Cardinality(Before[order[i]]) = i - 1
    <3>1. \E p \in S : Cardinality({q \in S : Nearer(q, p)}) = i - 1
      BY <1>3, <1>4
    <3>2. order[i] \in S /\ Cardinality({q \in S : Nearer(q, order[i])}) = i - 1
      BY <1>4, <3>1
    <3>. QED BY <1>3, <3>2
  <2>2. order \in [1 .. Cardinality(S) -> S]
    BY <1>4, <2>1
  <2>. QED BY <1>1, <1>2, <2>1, <2>2, RankedByCount
<1>6. Candidates = SubSeq(order, 1, IF RerankCount < Len(order) THEN RerankCount
                                                               ELSE Len(order))
  BY DEF Candidates, S, order
<1>7. /\ Candidates \in Seq(S) /\ Len(Candidates) <= RerankCount
      /\ Cardinality(ToSet(Candidates)) = Len(Candidates)
      /\ Len(Candidates) < RerankCount => ToSet(Candidates) = S
      /\ \A p \in ToSet(Candidates), q \in S \ ToSet(Candidates) : p \in Before[q]
  BY <1>0, <1>1, <1>2, <1>5, <1>6, FirstOfOrder
<1>. QED BY <1>7 DEF SentIsNearest, S, Before

----------------------------------------------------------------------------
(* What the reranker answers, and what supports an action *)

\* An answer that names every passage once gives each its own value, whatever its
\* order.
LEMMA ValuesAreOpinions ==
  ASSUME NEW s \in Seq(Positions), s = sent, s # <<>>,
         NEW opinion, NEW rankings \in Rankings(opinion), Covers(rankings, Len(sent)),
         NEW i \in DOMAIN sent
  PROVE  ValueOf(rankings, i) = opinion[sent[i]]
<1>. DEFINE n == Len(sent)
            Items == {Item(m - 1, opinion[sent[m]]) : m \in 1 .. n}
            whole == {[h \in 1 .. n |-> Item(o[h] - 1, opinion[sent[o[h]]])] :
                        o \in SetToSeqs(1 .. n)}
<1>1. n \in Nat /\ n >= 1 /\ DOMAIN sent = 1 .. n
  OBVIOUS
<1>. HIDE DEF n
<1>2. {r.index : r \in ToSet(rankings)} = 0 .. n - 1
  BY DEF Covers, n
<1>3. ASSUME NEW w \in whole
      PROVE  w \in Seq(Items) /\ Len(w) = n /\ w[1] \in Items
  <2>1. PICK o \in SetToSeqs(1 .. n) :
          w = [h \in 1 .. n |-> Item(o[h] - 1, opinion[sent[o[h]]])]
    OBVIOUS
  <2>2. \A h \in 1 .. n : o[h] \in 1 .. n
    <3>1. Cardinality(1 .. n) = n
      BY <1>1, FS_Interval
    <3>. QED BY <3>1 DEF SetToSeqs
  <2>3. \A h \in 1 .. n : Item(o[h] - 1, opinion[sent[o[h]]]) \in Items
    BY <2>2
  <2>. HIDE DEF Items
  <2>. QED BY <1>1, <2>1, <2>3
<1>4. rankings \in Seq(Items)
  <2>1. PICK w \in whole :
          rankings \in {w} \cup {Tail(w), Append(w, w[1]), [w EXCEPT ![n] = w[1]],
                                 [w EXCEPT ![1].index = n]}
    BY DEF Rankings, n
  <2>2. w \in Seq(Items) /\ Len(w) = n /\ w[1] \in Items
    BY <1>3
  <2>. HIDE DEF Items, whole
  <2>3. rankings # [w EXCEPT ![1].index = n]
    <3>1. SUFFICES ASSUME rankings = [w EXCEPT ![1].index = n] PROVE FALSE
      OBVIOUS
    <3>2. 1 \in DOMAIN w /\ DOMAIN rankings = DOMAIN w
      BY <1>1, <2>2, <3>1
    <3>3. rankings[1] = [w[1] EXCEPT !.index = n]
      BY <3>1, <3>2
    <3>4. "index" \in DOMAIN w[1]
      BY <2>2 DEF Items, Item
    <3>5. rankings[1].index = n /\ rankings[1] \in ToSet(rankings)
      BY <3>2, <3>3, <3>4 DEF ToSet
    <3>6. n \in 0 .. n - 1
      BY <1>2, <3>5
    <3>. QED BY <1>1, <3>6
  <2>4. Tail(w) \in Seq(Items) /\ Append(w, w[1]) \in Seq(Items)
    BY <1>1, <2>2
  <2>5. [w EXCEPT ![n] = w[1]] \in Seq(Items)
    BY <1>1, <2>2
  <2>. QED BY <2>1, <2>2, <2>3, <2>4, <2>5
<1>5. ToSet(rankings) \subseteq Items
  BY <1>4, MembersTyped
<1>6. i - 1 \in 0 .. n - 1 /\ i \in Nat
  BY <1>1
<1>7. PICK r \in ToSet(rankings) : r.index = i - 1 /\ ValueOf(rankings, i) = r.value
  <2>1. \E r \in ToSet(rankings) : r.index = i - 1
    BY <1>2, <1>6
  <2>. QED BY <2>1 DEF ValueOf
<1>8. PICK m \in 1 .. n : r = Item(m - 1, opinion[sent[m]])
  BY <1>5
<1>9. m - 1 = i - 1 /\ ValueOf(rankings, i) = opinion[sent[m]]
  BY <1>7, <1>8 DEF Item
<1>10. m = i
  BY <1>1, <1>6, <1>9
<1>. QED BY <1>9, <1>10

\* A pass chooses among what the ranking has.
LEMMA PassMembers ==
  ASSUME NEW S, NEW first \in Seq(S), NEW order \in Seq(S), NEW among, NEW key, NEW k
  PROVE  LET c == Pass(first, order, among, key, k)
         IN  c \in Seq(S) /\ ToSet(c) \subseteq ToSet(first) \cup (ToSet(order) \cap among)
<1>1. PICK c : /\ c[0] = first /\ c[Len(order)] = Pass(first, order, among, key, k)
               /\ \A n \in 1 .. Len(order) :
                    c[n] = Visit(c[n - 1], order[n], among, key, k)
  BY PassRuns
<1>. DEFINE Members == ToSet(first) \cup (ToSet(order) \cap among)
<1>. DEFINE Good == {n \in 0 .. Len(order) :
                       c[n] \in Seq(S) /\ ToSet(c[n]) \subseteq Members}
<1>0. Len(order) \in Nat /\ DOMAIN order = 1 .. Len(order)
  OBVIOUS
<1>2. 0 \in Good
  BY <1>0, <1>1
<1>3. ASSUME NEW n \in 1 .. Len(order), n - 1 \in Good PROVE n \in Good
  <2>1. n \in 0 .. Len(order) /\ order[n] \in S /\ order[n] \in ToSet(order)
    BY <1>0 DEF ToSet
  <2>2. c[n - 1] \in Seq(S) /\ ToSet(c[n - 1]) \subseteq Members
    BY <1>3
  <2>3. CASE c[n] = c[n - 1]
    BY <2>1, <2>2, <2>3
  <2>4. CASE order[n] \in among /\ c[n] = Append(c[n - 1], order[n])
    <3>1. /\ c[n] \in Seq(S)
          /\ ToSet(c[n]) = ToSet(c[n - 1]) \cup {order[n]}
      BY <2>1, <2>2, <2>4, AppendMembers
    <3>. QED BY <2>1, <2>2, <2>4, <3>1
  <2>5. c[n] = c[n - 1] \/ (order[n] \in among /\ c[n] = Append(c[n - 1], order[n]))
    BY <1>1 DEF Visit
  <2>. HIDE DEF Good
  <2>. QED BY <2>3, <2>4, <2>5
<1>. HIDE DEF Good
<1>4. \A n \in 0 .. Len(order) : n \in Good
  BY <1>0, <1>2, <1>3, UpTo
<1>5. Len(order) \in Good
  BY <1>0, <1>4
<1>. QED BY <1>1, <1>5 DEF Good

LEMMA SupportIsEvidence ==
  ASSUME matches \in Seq(Match), NEW type
  PROVE  /\ SupportOf(type) \in Seq(Positions)
         /\ SupportOf(type) # <<>> =>
              \E p \in {m.position : m \in ToSet(matches)} : type \in Allowed[p]
<1>. DEFINE order == [i \in DOMAIN matches |-> matches[i].position]
            among == {p \in Positions : type \in Allowed[p]}
            c == SupportOf(type)
<1>1. Len(matches) \in Nat /\ DOMAIN matches = 1 .. Len(matches)
  OBVIOUS
<1>2. \A i \in DOMAIN matches : matches[i] \in Match /\ matches[i].position \in Positions
  <2>1. \A m \in Match : m.position \in Positions
    BY DEF Match
  <2>2. \A i \in DOMAIN matches : matches[i] \in Match
    OBVIOUS
  <2>. QED BY <2>1, <2>2
<1>3. order \in Seq(Positions) /\ DOMAIN order = DOMAIN matches
  BY <1>1, <1>2
<1>4. ToSet(order) = {m.position : m \in ToSet(matches)}
  BY DEF ToSet
<1>5. c = Pass(<<>>, order, among, Itself, Len(matches))
  BY DEF SupportOf
<1>. HIDE DEF c, order, among
<1>6. c \in Seq(Positions) /\ ToSet(c) \subseteq ToSet(order) \cap among
  <2>1. <<>> \in Seq(Positions) /\ ToSet(<<>>) = {}
    BY DEF ToSet
  <2>. QED BY <1>3, <1>5, <2>1, PassMembers
<1>7. ASSUME c # <<>> PROVE \E p \in ToSet(order) : type \in Allowed[p]
  <2>1. 1 \in DOMAIN c
    BY <1>6, <1>7
  <2>2. c[1] \in ToSet(c)
    BY <2>1 DEF ToSet
  <2>. QED BY <1>6, <2>2 DEF among
<1>. QED BY <1>4, <1>6, <1>7 DEF c

----------------------------------------------------------------------------
(* The matches *)

LEMMA SelectedAreBest ==
  ASSUME sent \in Seq(Positions), similarity \in [Positions -> Levels],
         NEW score \in [ToSet(sent) -> Levels], NEW k \in Nat
  PROVE  LET order == InOrder(ToSet(sent), LAMBDA p, q : Outranks(score, p, q))
             best  == Selected(score, order, k)
             left  == ToSet(sent) \ ToSet(best)
             Leading(p) == \A q \in ToSet(sent) \ {p} :
                             Procedure[q] = Procedure[p] => Outranks(score, p, q)
         IN  /\ best \in Seq(ToSet(sent)) /\ Len(best) <= k
             /\ Cardinality(ToSet(best)) = Len(best)
             /\ Len(best) < k => left = {}
             /\ \A i, j \in DOMAIN best : i < j => Outranks(score, best[i], best[j])
             /\ \A p \in ToSet(best), q \in left :
                  \/ Leading(p) /\ (Leading(q) => Outranks(score, p, q))
                  \/ ~ Leading(p) /\ ~ Leading(q) /\ Outranks(score, p, q)
<1>. DEFINE S == ToSet(sent)
            order == InOrder(S, LAMBDA p, q : Outranks(score, p, q))
            e == ToSet(Filled(Coverage(order, k), order, k))
            best == Selected(score, order, k)
            left == S \ ToSet(best)
            Leading(p) == \A q \in S \ {p} : Procedure[q] = Procedure[p] => Outranks(score, p, q)
            Over(Z) == RankedOver(Z, score, similarity)
<1>0. Levels \subseteq Int
  BY GenerationAssumption DEF GenerationAssumption
<1>1. /\ S \in SUBSET Positions /\ IsFiniteSet(S)
      /\ \A p \in S : score[p] \in Int /\ similarity[p] \in Int
  <2>1. S \in SUBSET Positions
    BY MembersTyped
  <2>2. IsFiniteSet(S)
    BY <2>1, PositionsFinite, FS_Subset
  <2>. QED BY <1>0, <2>1, <2>2
<1>. HIDE DEF S
<1>2. Ranks(order, S, Over(S)) /\ StrictOrder(S, Over(S))
  BY <1>1, RankedInOrder, RankedIsStrict
<1>3. ASSUME NEW Z \in SUBSET S, NEW p \in Z, NEW q \in Z
      PROVE  p \in Over(Z)[q] <=> Outranks(score, p, q)
  BY DEF RankedOver, Outranks, Nearer
<1>. HIDE DEF Over, order
<1>4. /\ e \subseteq S /\ IsFiniteSet(e) /\ Cardinality(e) <= k
      /\ Cardinality(e) < k => e = S
      /\ \A p \in e, q \in S \ e :
           \/ /\ \A r \in S \ {p} : Procedure[r] = Procedure[p] => p \in Over(S)[r]
              /\ (\A r \in S \ {q} : Procedure[r] = Procedure[q] => q \in Over(S)[r])
                   => p \in Over(S)[q]
           \/ /\ ~ \A r \in S \ {p} : Procedure[r] = Procedure[p] => p \in Over(S)[r]
              /\ ~ \A r \in S \ {q} : Procedure[r] = Procedure[q] => q \in Over(S)[r]
              /\ p \in Over(S)[q]
  BY <1>1, <1>2, PassesChooseTheBest
<1>5. best = InOrder(e, LAMBDA p, q : Outranks(score, p, q))
  BY DEF Selected
<1>. HIDE DEF e
<1>6. Ranks(best, e, Over(e)) /\ StrictOrder(e, Over(e))
  <2>1. e \in SUBSET Positions /\ \A p \in e : score[p] \in Int /\ similarity[p] \in Int
    BY <1>1, <1>4
  <2>2. StrictOrder(e, Over(e))
    BY <2>1, RankedIsStrict DEF Over
  <2>3. Ranks(InOrder(e, LAMBDA p, q : Outranks(score, p, q)), e, RankedOver(e, score, similarity))
    BY <2>1, RankedInOrder
  <2>. QED BY <1>5, <2>2, <2>3 DEF Over
<1>. HIDE DEF best
<1>7. /\ best \in Seq(e) /\ Len(best) = Cardinality(e) /\ ToSet(best) = e
      /\ DOMAIN best = 1 .. Len(best)
      /\ \A i, j \in 1 .. Len(best) : i < j <=> best[i] \in Over(e)[best[j]]
  BY <1>4, <1>6, RankedSequence
<1>8. best \in Seq(S)
  BY <1>4, <1>7
<1>9. ASSUME NEW i \in DOMAIN best, NEW j \in DOMAIN best, i < j
      PROVE  Outranks(score, best[i], best[j])
  <2>1. best[i] \in e /\ best[j] \in e /\ best[i] \in Over(e)[best[j]]
    BY <1>7, <1>9
  <2>. QED BY <1>3, <1>4, <2>1
<1>10. ASSUME NEW p \in S
       PROVE  Leading(p) <=> \A r \in S \ {p} : Procedure[r] = Procedure[p] => p \in Over(S)[r]
  BY <1>3
<1>. HIDE DEF Leading
<1>11. ASSUME NEW p \in e, NEW q \in S \ e
       PROVE  \/ Leading(p) /\ (Leading(q) => Outranks(score, p, q))
              \/ ~ Leading(p) /\ ~ Leading(q) /\ Outranks(score, p, q)
  <2>1. p \in S /\ q \in S
    BY <1>4
  <2>2. p \in Over(S)[q] <=> Outranks(score, p, q)
    BY <1>3, <2>1
  <2>3. \/ Leading(p) /\ (Leading(q) => p \in Over(S)[q])
        \/ ~ Leading(p) /\ ~ Leading(q) /\ p \in Over(S)[q]
    BY <1>4, <1>10, <2>1
  <2>. QED BY <2>2, <2>3
<1>12. /\ best \in Seq(S) /\ Len(best) <= k
       /\ Cardinality(ToSet(best)) = Len(best)
       /\ Len(best) < k => left = {}
       /\ \A i, j \in DOMAIN best : i < j => Outranks(score, best[i], best[j])
       /\ \A p \in ToSet(best), q \in left :
            \/ Leading(p) /\ (Leading(q) => Outranks(score, p, q))
            \/ ~ Leading(p) /\ ~ Leading(q) /\ Outranks(score, p, q)
  BY <1>4, <1>7, <1>8, <1>9, <1>11
<1>. QED BY <1>12 DEF best, order, S, Leading

----------------------------------------------------------------------------
(* The inductive invariant *)

\* Nothing is judged before the reranker answered, nothing supported before the
\* planner did, and what the reranker was sent are the chunks nearest to the query.
Phases ==
  /\ pc \in {"idle", "embedding", "reranking"} => logit = NoScores /\ matches = <<>>
  /\ pc \in {"idle"} \cup Asking => support = <<>>
  /\ pc = "reranking" => /\ sent # <<>> /\ similarity \in [Positions -> Levels]
                         /\ SentIsNearest(sent, similarity)

GenerationInv == TypeOK /\ Phases /\ EvidenceIsBest

LEMMA InitGeneration == Init => GenerationInv
<1>. SUFFICES ASSUME Init PROVE GenerationInv
  OBVIOUS
<1>0. MaxTopK \in Nat /\ MaxRetries \in Nat /\ RerankCount \in Nat
  BY GenerationAssumption DEF GenerationAssumption
<1>1. TypeOK
  BY <1>0 DEF Init, TypeOK, NoScores
<1>2. Phases
  BY DEF Init, Phases
<1>3. EvidenceIsBest
  BY DEF Init, EvidenceIsBest
<1>. QED BY <1>1, <1>2, <1>3 DEF GenerationInv

LEMMA EndKeeps ==
  ASSUME GenerationInv, NEW how \in Ended, End(how)
  PROVE  GenerationInv'
<1>1. TypeOK'
  BY DEF GenerationInv, TypeOK, End
<1>2. Phases'
  BY DEF Phases, End, Ended, Asking
<1>3. EvidenceIsBest'
  BY DEF GenerationInv, EvidenceIsBest, End, Nearer, Better, Outranks, Leads
<1>. QED BY <1>1, <1>2, <1>3 DEF GenerationInv

LEMMA RequestKeeps ==
  ASSUME GenerationInv,
         \/ \E k \in 1 .. MaxTopK : Start(k)
         \/ \E how \in Transient : RequestFails(how)
  PROVE  GenerationInv'
<1>0. MaxTopK \in Nat /\ MaxRetries \in Nat
  BY GenerationAssumption DEF GenerationAssumption
<1>1. ASSUME NEW k \in 1 .. MaxTopK, Start(k) PROVE GenerationInv'
  <2>1. TypeOK'
    BY <1>0, <1>1 DEF GenerationInv, TypeOK, Phases, Start, Ask, Asking
  <2>2. Phases'
    BY <1>1 DEF GenerationInv, Phases, Start, Ask, Asking
  <2>3. logit' = NoScores
    BY <1>1 DEF GenerationInv, Phases, Start
  <2>4. EvidenceIsBest'
    BY <2>3 DEF EvidenceIsBest
  <2>. QED BY <2>1, <2>2, <2>4 DEF GenerationInv
<1>2. ASSUME NEW how \in Transient, RequestFails(how) PROVE GenerationInv'
  <2>1. CASE End(how)
    BY <2>1, EndKeeps DEF Transient, Ended
  <2>2. CASE /\ attempt < MaxRetries /\ attempt' = attempt + 1
             /\ UNCHANGED <<pc, topK, similarity, sent, logit, matches, support>>
    <3>1. TypeOK'
      BY <1>0, <2>2 DEF GenerationInv, TypeOK
    <3>2. Phases'
      BY <2>2 DEF GenerationInv, Phases
    <3>3. EvidenceIsBest'
      BY <2>2 DEF GenerationInv, EvidenceIsBest, Nearer, Better, Outranks, Leads
    <3>. QED BY <3>1, <3>2, <3>3 DEF GenerationInv
  <2>. QED BY <1>2, <2>1, <2>2 DEF RequestFails
<1>. QED BY <1>1, <1>2

\* The one vector asked for.
LEMMA VectorOfQuery ==
  ASSUME NEW v, NEW data \in Embeddings(v), Covers(data, 1)
  PROVE  ValueOf(data, 1) = v
<1>1. Len(data) = 1 /\ {r.index : r \in ToSet(data)} = 0 .. 0
  BY DEF Covers
<1>2. data # <<>> /\ data # <<Item(0, v), Item(1, v)>>
  <2>1. ASSUME data = <<>> PROVE FALSE
    BY <1>1, <2>1
  <2>2. ASSUME data = <<Item(0, v), Item(1, v)>> PROVE FALSE
    <3>1. Len(data) = 2
      BY <2>2
    <3>. QED BY <1>1, <3>1
  <2>. QED BY <2>1, <2>2
<1>3. data # <<Item(1, v)>>
  <2>1. SUFFICES ASSUME data = <<Item(1, v)>> PROVE FALSE
    OBVIOUS
  <2>2. Item(1, v) \in ToSet(data) /\ Item(1, v).index = 1
    BY <2>1 DEF ToSet, Item
  <2>3. 1 \in 0 .. 0
    BY <1>1, <2>2
  <2>. QED BY <2>3
<1>4. data = <<Item(0, v)>>
  BY <1>2, <1>3 DEF Embeddings
<1>5. ToSet(data) = {Item(0, v)} /\ Item(0, v).index = 0 /\ Item(0, v).value = v
  BY <1>4 DEF ToSet, Item
<1>. QED BY <1>5 DEF ValueOf

LEMMA EmbeddingKeeps ==
  ASSUME GenerationInv, pc = "embedding",
         NEW v \in [Positions -> Levels], NEW data \in Embeddings(v), EmbeddingAnswered(data)
  PROVE  GenerationInv'
<1>0. MaxRetries \in Nat
  BY GenerationAssumption DEF GenerationAssumption
<1>1. CASE ~ Covers(data, 1)
  <2>1. End("invalid")
    BY <1>1 DEF EmbeddingAnswered
  <2>. QED BY <2>1, EndKeeps DEF Ended
<1>2. CASE Covers(data, 1)
  <2>1. /\ similarity' = ValueOf(data, 1) /\ sent' = Candidates'
        /\ \/ sent' = <<>> /\ pc' = "no evidence" /\ attempt' = attempt
           \/ sent' # <<>> /\ pc' = "reranking" /\ attempt' = 0
        /\ UNCHANGED <<topK, logit, matches, support>>
    BY <1>2 DEF EmbeddingAnswered, Ask, NoEvidence
  <2>2. similarity' \in [Positions -> Levels]
    BY <1>2, <2>1, VectorOfQuery
  <2>3. (similarity \in [Positions -> Levels] => SentIsNearest(Candidates, similarity))'
    BY CandidatesAreNearest, PTL
  <2>4. SentIsNearest(sent', similarity')
    BY <2>1, <2>2, <2>3
  <2>5. logit' = NoScores /\ matches' = <<>> /\ support' = <<>>
    BY <2>1 DEF GenerationInv, Phases, Asking
  <2>6. TypeOK'
    <3>1. /\ topK \in 0 .. MaxTopK /\ attempt \in 0 .. MaxRetries
          /\ support \in Seq(Support) /\ topK \in Nat
      BY <1>0 DEF GenerationInv, TypeOK
    <3>2. pc' \in {"idle"} \cup Asking \cup Ended
      BY <2>1 DEF Asking, Ended
    <3>3. attempt' \in 0 .. MaxRetries
      <4>1. attempt' = 0 \/ attempt' = attempt
        BY <2>1
      <4>. QED BY <1>0, <3>1, <4>1
    <3>4. sent' \in Seq(Positions) /\ Len(sent') <= RerankCount
      BY <2>4 DEF SentIsNearest
    <3>5. /\ topK' \in 0 .. MaxTopK /\ support' \in Seq(Support)
          /\ matches' \in Seq(Match) /\ Len(matches') <= topK'
      <4>1. topK' = topK /\ support' = support
        BY <2>1
      <4>2. matches' = <<>>
        BY <2>5
      <4>. QED BY <3>1, <4>1, <4>2
    <3>. QED BY <2>2, <2>5, <3>2, <3>3, <3>4, <3>5 DEF TypeOK
  <2>7. Phases'
    BY <2>1, <2>2, <2>4, <2>5 DEF Phases, Asking, Ended
  <2>8. EvidenceIsBest'
    BY <2>5 DEF EvidenceIsBest
  <2>. QED BY <2>6, <2>7, <2>8 DEF GenerationInv
<1>. QED BY <1>1, <1>2

\* The reranker answered: the matches are the best there were.
LEMMA RerankKeeps ==
  ASSUME GenerationInv, pc = "reranking", NEW opinion \in [ToSet(sent) -> Levels],
         NEW rankings \in Rankings(opinion), RerankAnswered(opinion, rankings)
  PROVE  GenerationInv'
<1>0. MaxRetries \in Nat /\ MaxTopK \in Nat
  BY GenerationAssumption DEF GenerationAssumption
<1>1. CASE ~ Covers(rankings, Len(sent))
  <2>1. End("invalid")
    BY <1>1 DEF RerankAnswered
  <2>. QED BY <2>1, EndKeeps DEF Ended
<1>2. CASE Covers(rankings, Len(sent))
  <2>. DEFINE Order(s) == InOrder(ToSet(sent), LAMBDA p, q : Outranks(s, p, q))
  <2>1. /\ sent \in Seq(Positions) /\ sent # <<>> /\ similarity \in [Positions -> Levels]
        /\ SentIsNearest(sent, similarity) /\ topK \in Nat /\ support = <<>>
    BY <1>0 DEF GenerationInv, Phases, SentIsNearest, TypeOK, Asking
  <2>2. PICK score \in [ToSet(sent) -> Levels] :
          /\ \A i \in DOMAIN sent : score[sent[i]] = ValueOf(rankings, i)
          /\ logit' = opinion
          /\ LET best == Selected(score, Order(score), topK)
             IN  matches' = [i \in DOMAIN best |->
                               [position |-> best[i], rerank |-> score[best[i]],
                                similarity |-> similarity[best[i]]]]
          /\ pc' = "planning" /\ attempt' = 0
          /\ UNCHANGED <<topK, similarity, sent, support>>
    BY <1>2 DEF RerankAnswered, Ask
  <2>3. score = opinion
    <3>. HIDE DEF Order
    <3>1. \A i \in DOMAIN sent : ValueOf(rankings, i) = opinion[sent[i]]
      BY <1>2, <2>1, ValuesAreOpinions
    <3>2. \A i \in DOMAIN sent : score[sent[i]] = opinion[sent[i]]
      <4>1. \A i \in DOMAIN sent : score[sent[i]] = ValueOf(rankings, i)
        BY <2>2
      <4>. QED BY <3>1, <4>1
    <3>3. \A p \in ToSet(sent) : score[p] = opinion[p]
      BY <3>2 DEF ToSet
    <3>. QED BY <3>3
  <2>. DEFINE best == Selected(score, Order(score), topK)
              Leading(p) == \A q \in ToSet(sent) \ {p} :
                              Procedure[q] = Procedure[p] => Outranks(score, p, q)
  <2>4. /\ best \in Seq(ToSet(sent)) /\ Len(best) <= topK
        /\ Cardinality(ToSet(best)) = Len(best)
        /\ Len(best) < topK => ToSet(sent) \ ToSet(best) = {}
        /\ \A i, j \in DOMAIN best : i < j => Outranks(score, best[i], best[j])
        /\ \A p \in ToSet(best), q \in ToSet(sent) \ ToSet(best) :
             \/ Leading(p) /\ (Leading(q) => Outranks(score, p, q))
             \/ ~ Leading(p) /\ ~ Leading(q) /\ Outranks(score, p, q)
    BY <2>1, SelectedAreBest
  <2>5. matches' = [i \in DOMAIN best |->
                      [position |-> best[i], rerank |-> score[best[i]],
                       similarity |-> similarity[best[i]]]]
    BY <2>2
  <2>6. ToSet(sent) \subseteq Positions
    BY <2>1, MembersTyped
  <2>. HIDE DEF best, Order
  <2>7. /\ matches' \in Seq(Match) /\ Len(matches') = Len(best)
        /\ DOMAIN matches' = DOMAIN best
    <3>1. \A i \in DOMAIN best : best[i] \in ToSet(sent)
      BY <2>4
    <3>2. \A i \in DOMAIN best :
            [position |-> best[i], rerank |-> score[best[i]],
             similarity |-> similarity[best[i]]] \in Match
      BY <2>1, <2>6, <3>1 DEF Match
    <3>3. Len(best) \in Nat /\ DOMAIN best = 1 .. Len(best)
      BY <2>4
    <3>. HIDE DEF Match
    <3>. QED BY <2>5, <3>2, <3>3
  <2>8. \A i \in DOMAIN best : /\ matches'[i].position = best[i]
                               /\ matches'[i].rerank = score[best[i]]
    BY <2>5
  <2>9. {m.position : m \in ToSet(matches')} = ToSet(best)
    BY <2>7, <2>8 DEF ToSet
  <2>10. TypeOK'
    <3>1. attempt' \in 0 .. MaxRetries /\ pc' \in {"idle"} \cup Asking \cup Ended
      BY <1>0, <2>2 DEF Asking
    <3>2. logit' \in [ToSet(sent') -> Levels] /\ support' \in Seq(Support)
      BY <2>1, <2>2
    <3>. QED BY <2>2, <2>4, <2>7, <3>1, <3>2 DEF GenerationInv, TypeOK
  <2>11. Phases'
    BY <2>1, <2>2 DEF Phases
  <2>12. EvidenceIsBest'
    <3>. DEFINE Bests == ToSet(best)
    <3>1. /\ logit' = score /\ similarity' = similarity /\ sent' = sent /\ topK' = topK
          /\ support' = <<>>
      BY <2>1, <2>2, <2>3
    <3>2. \A p, q : Better(p, q)' <=> Outranks(score, p, q)
      BY <3>1 DEF Better, Outranks, Nearer
    <3>3. \A p : Leads(p)' <=> Leading(p)
      BY <3>1, <3>2 DEF Leads
    <3>4. \A p \in ToSet(sent), q \in Positions \ ToSet(sent) : Nearer(p, q)'
      <4>1. ASSUME NEW p \in ToSet(sent), NEW q \in Positions \ ToSet(sent)
            PROVE  similarity[p] > similarity[q] \/ (similarity[p] = similarity[q] /\ p < q)
        <5>1. p \in NearerThan(Positions, similarity)[q]
          BY <2>1 DEF SentIsNearest
        <5>. QED BY <5>1 DEF NearerThan
      <4>. QED BY <3>1, <4>1 DEF Nearer
    <3>5. /\ Cardinality(ToSet(sent)) = Len(sent)
          /\ Len(sent) < RerankCount => ToSet(sent) = Positions
      BY <2>1 DEF SentIsNearest
    <3>6. \A i, j \in DOMAIN matches' :
            i < j => Better(matches[i].position, matches[j].position)'
      BY <2>4, <2>7, <2>8, <3>2
    <3>7. \A m \in ToSet(matches') : m.rerank = score[m.position]
      BY <2>7, <2>8 DEF ToSet
    <3>8. ToSet(support') = {}
      BY <3>1 DEF ToSet
    <3>9. \A p \in ToSet(best), q \in ToSet(sent) \ ToSet(best) :
             \/ Leads(p)' /\ (Leads(q)' => Better(p, q)')
             \/ ~ Leads(p)' /\ ~ Leads(q)' /\ Better(p, q)'
      <4>. HIDE DEF Leading
      <4>. QED BY <2>4, <3>2, <3>3
    <3>. QED BY <2>4, <2>7, <2>9, <3>1, <3>4, <3>5, <3>6, <3>7, <3>8, <3>9 DEF EvidenceIsBest
  <2>. QED BY <2>10, <2>11, <2>12 DEF GenerationInv
<1>. QED BY <1>1, <1>2

LEMMA PlanKeeps ==
  ASSUME GenerationInv, NEW plan \in Plans, PlanAnswered(plan)
  PROVE  GenerationInv'
<1>1. CASE Ungrounded(plan)
  <2>1. End("ungrounded")
    BY <1>1 DEF PlanAnswered
  <2>. QED BY <2>1, EndKeeps DEF Ended
<1>2. CASE ~ Ungrounded(plan)
  <2>1. /\ support' = [i \in DOMAIN plan |->
                         [type |-> plan[i], chunks |-> SupportOf(plan[i])]]
        /\ pc' = "accepted"
        /\ UNCHANGED <<topK, attempt, similarity, sent, logit, matches>>
    BY <1>2 DEF PlanAnswered
  <2>2. PICK n \in 0 .. MaxActions : plan \in [1 .. n -> ActionTypes]
    BY DEF Plans
  <2>3. matches \in Seq(Match)
    BY DEF GenerationInv, TypeOK
  <2>4. ASSUME NEW i \in DOMAIN plan
        PROVE  /\ [type |-> plan[i], chunks |-> SupportOf(plan[i])] \in Support
               /\ \E p \in {m.position : m \in ToSet(matches)} : plan[i] \in Allowed[p]
    <3>1. plan[i] \in ActionTypes
      BY <2>2
    <3>2. SupportOf(plan[i]) # <<>>
      BY <1>2 DEF Ungrounded
    <3>. QED BY <2>3, <3>1, <3>2, SupportIsEvidence DEF Support
  <2>5. support' \in Seq(Support)
    <3>1. n \in Nat /\ DOMAIN plan = 1 .. n
      BY <2>2, GenerationAssumption DEF GenerationAssumption
    <3>. QED BY <2>1, <2>4, <3>1
  <2>6. TypeOK'
    BY <2>1, <2>5 DEF GenerationInv, TypeOK, Ended
  <2>7. Phases'
    BY <2>1 DEF Phases, Asking
  <2>8. \A s \in ToSet(support') :
          \E p \in {m.position : m \in ToSet(matches)} : s.type \in Allowed[p]
    BY <2>1, <2>4 DEF ToSet
  <2>9. EvidenceIsBest'
    BY <2>1, <2>8 DEF GenerationInv, EvidenceIsBest, Nearer, Better, Outranks, Leads
  <2>. QED BY <2>6, <2>7, <2>9 DEF GenerationInv
<1>. QED BY <1>1, <1>2

LEMMA NextGeneration == GenerationInv /\ [Next]_vars => GenerationInv'
<1>. SUFFICES ASSUME GenerationInv, [Next]_vars PROVE GenerationInv'
  OBVIOUS
<1>1. CASE QueryTooLarge \/ RequestRefused \/ NoDirection \/ PromptTooLarge \/ PlanUnusable
  <2>1. PICK how \in Ended : End(how)
    BY <1>1 DEF QueryTooLarge, RequestRefused, NoDirection, PromptTooLarge, PlanUnusable, Ended
  <2>. QED BY <2>1, EndKeeps
<1>2. CASE \/ \E k \in 1 .. MaxTopK : Start(k)
           \/ \E how \in Transient : RequestFails(how)
  BY <1>2, RequestKeeps
<1>3. ASSUME pc = "embedding", NEW v \in [Positions -> Levels], NEW data \in Embeddings(v),
             EmbeddingAnswered(data)
      PROVE  GenerationInv'
  BY <1>3, EmbeddingKeeps
<1>4. ASSUME pc = "reranking", NEW opinion \in [ToSet(sent) -> Levels],
             NEW rankings \in Rankings(opinion), RerankAnswered(opinion, rankings)
      PROVE  GenerationInv'
  BY <1>4, RerankKeeps
<1>5. ASSUME NEW plan \in Plans, PlanAnswered(plan) PROVE GenerationInv'
  BY <1>5, PlanKeeps
<1>6. CASE UNCHANGED vars
  <2>1. TypeOK'
    BY <1>6 DEF vars, GenerationInv, TypeOK
  <2>2. Phases'
    BY <1>6 DEF vars, GenerationInv, Phases
  <2>3. EvidenceIsBest'
    BY <1>6 DEF vars, GenerationInv, EvidenceIsBest, Nearer, Better, Outranks, Leads
  <2>. QED BY <2>1, <2>2, <2>3 DEF GenerationInv
<1>. QED BY <1>1, <1>2, <1>3, <1>4, <1>5, <1>6 DEF Next

\* The state of a candidate has its types, for every index and every setting.
THEOREM GenerationTyped == Spec => []TypeOK
<1>1. GenerationInv => TypeOK
  BY DEF GenerationInv
<1>. QED BY <1>1, InitGeneration, NextGeneration, PTL DEF Spec

\* The matches are the best evidence there was, and an accepted plan rests on it:
\* whatever the embedding and the reranker answer, in any order and damaged in any of
\* the ways of Rankings, and however often a request fails.
THEOREM MatchesAreBest == Spec => []EvidenceIsBest
<1>1. GenerationInv => EvidenceIsBest
  BY DEF GenerationInv
<1>. QED BY <1>1, InitGeneration, NextGeneration, PTL DEF Spec

=============================================================================
