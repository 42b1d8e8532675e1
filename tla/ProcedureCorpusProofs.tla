------------------------ MODULE ProcedureCorpusProofs ------------------------
(***************************************************************************)
(* What the parser of ProcedureCorpus makes of a text, whatever its lines  *)
(* and the limit: TextIsSplitWell.                                         *)
(*                                                                         *)
(* A recursive definition is known by its equations once it is known to    *)
(* have a value: Recursion gives one, built up to each bound in turn.      *)
(***************************************************************************)
EXTENDS ProcedureCorpus, SequenceTheorems, WellFoundedInduction, TLAPS

----------------------------------------------------------------------------
(* The kinds of lines *)

\* The kinds of lines, apart.
LEMMA KindsAre ==
  /\ Headings = {"h1", "h2", "h3", "meta", "Meta"}
  /\ Fences = {"ticks", "json", "longticks", "tildes"}
  /\ DOMAIN Joins = {"quote", "iquote", "table", "list", "text", "payload", "indent", "hr"}
  /\ \A h \in Headings : Level[h] \in Nat
BY DEF Headings, Level, Fences, Fence, Joins

\* What goes on with a block is neither blank nor a fence, nor a heading; and
\* every line but a rule goes on with one that goes on with a block.
LEMMA JoinsAre ==
  /\ \A k \in DOMAIN Joins : Joins[k] \subseteq DOMAIN Joins
  /\ \A k \in DOMAIN Joins \ {"hr"} : k \in Joins[k]
  /\ \A k \in DOMAIN Joins : "hr" \notin Joins[k]
  /\ DOMAIN Joins \cap (Fences \cup Headings \cup {"blank"}) = {}
  /\ Fences \cap (Headings \cup {"blank"}) = {} /\ "blank" \notin Headings
BY KindsAre DEF Joins, Quotes, Plain

----------------------------------------------------------------------------
(* Numbers *)

LEMMA LeastMember ==
  ASSUME NEW S, S \subseteq Nat, S # {}
  PROVE  Min(S) \in S /\ \A y \in S : Min(S) <= y
<1>. DEFINE Less == {p \in Nat \X Nat : p[1] < p[2]}
<1>0. IsWellFoundedOn(Less, Nat)
  BY NatLessThanWellFounded DEF OpToRel
<1>. HIDE DEF Less
<1>1. PICK x \in S : \A y \in S : <<y, x>> \notin Less
  BY <1>0, WFMin
<1>2. ASSUME NEW y \in S PROVE x <= y
  <2>1. x \in Nat /\ y \in Nat /\ <<y, x>> \notin Less
    BY <1>1
  <2>2. ~ (y < x)
    BY <2>1 DEF Less
  <2>. QED BY <2>1, <2>2
<1>. QED BY <1>2 DEF Min

LEMMA GreatestMember ==
  ASSUME NEW N \in Nat, NEW S, S \subseteq 0 .. N, S # {}
  PROVE  Max(S) \in S /\ \A y \in S : y <= Max(S)
<1>. DEFINE Below == {N - y : y \in S}
<1>1. Below \subseteq Nat /\ Below # {}
  <2>1. \A y \in S : N - y \in Nat
    OBVIOUS
  <2>. QED BY <2>1
<1>2. PICK m \in Below : \A y \in Below : m <= y
  BY <1>1, LeastMember
<1>3. PICK x \in S : m = N - x
  OBVIOUS
<1>4. \A y \in S : N - x <= N - y
  BY <1>2, <1>3
<1>5. \A y \in S : x >= y
  BY <1>4
<1>6. Max(S) \in S /\ \A y \in S : Max(S) >= y
  BY <1>5 DEF Max
<1>. QED BY <1>6

\* Induction over a set of numbers.
LEMMA UpTo ==
  ASSUME NEW N \in Nat, NEW Good, 0 \in Good,
         \A n \in 1 .. N : n - 1 \in Good => n \in Good
  PROVE  \A n \in 0 .. N : n \in Good
<1>. DEFINE Bad == {n \in 0 .. N : n \notin Good}
<1>1. SUFFICES ASSUME Bad # {} PROVE FALSE
  OBVIOUS
<1>2. PICK m \in Bad : \A n \in Bad : m <= n
  <2>1. Bad \subseteq Nat
    OBVIOUS
  <2>. QED BY <1>1, <2>1, LeastMember
<1>3. m \in 1 .. N /\ m - 1 \in 0 .. N
  OBVIOUS
<1>4. m - 1 \in Good
  BY <1>2, <1>3
<1>. QED BY <1>3, <1>4

\* And from all smaller numbers.
LEMMA UpToAll ==
  ASSUME NEW N \in Nat, NEW Good,
         \A n \in 0 .. N : (\A m \in 0 .. N : m < n => m \in Good) => n \in Good
  PROVE  \A n \in 0 .. N : n \in Good
<1>. DEFINE Bad == {n \in 0 .. N : n \notin Good}
<1>1. SUFFICES ASSUME Bad # {} PROVE FALSE
  OBVIOUS
<1>2. PICK m \in Bad : \A n \in Bad : m <= n
  <2>1. Bad \subseteq Nat
    OBVIOUS
  <2>. QED BY <1>1, <2>1, LeastMember
<1>3. \A n \in 0 .. N : n < m => n \in Good
  BY <1>2
<1>. QED BY <1>3

----------------------------------------------------------------------------
(* A function defined by recursion on a size exists *)

\* F gives the value at x from the function, of which it looks at smaller
\* arguments only.
Recursive(D, T, N, size, F) ==
  /\ N \in Nat /\ size \in [D -> 0 .. N]
  /\ F \in [D \X [D -> T] -> T] /\ T # {}
  /\ \A x \in D : \A g, h \in [D -> T] :
       (\A y \in D : size[y] < size[x] => g[y] = h[y]) => F[<<x, g>>] = F[<<x, h>>]

\* Such a function exists, and the one that CHOOSE takes satisfies its equations.
LEMMA Recursion ==
  ASSUME NEW D, NEW T, NEW N, NEW size, NEW F, Recursive(D, T, N, size, F)
  PROVE  \E f \in [D -> T] : f = [x \in D |-> F[<<x, f>>]]
<1>. USE DEF Recursive
<1>0. PICK start : start \in T
  OBVIOUS
<1>. DEFINE Upto(n, g) == \A x \in D : size[x] < n => g[x] = F[<<x, g>>]
            Good == {n \in 0 .. N + 1 : \E g \in [D -> T] : Upto(n, g)}
<1>1. 0 \in Good
  <2>1. [x \in D |-> start] \in [D -> T]
    BY <1>0
  <2>2. Upto(0, [x \in D |-> start])
    OBVIOUS
  <2>. HIDE DEF Upto
  <2>. QED BY <2>1, <2>2
<1>2. ASSUME NEW n \in 1 .. N + 1, n - 1 \in Good PROVE n \in Good
  <2>1. PICK g \in [D -> T] : Upto(n - 1, g)
    BY <1>2
  <2>. DEFINE h == [x \in D |-> IF size[x] = n - 1 THEN F[<<x, g>>] ELSE g[x]]
  <2>2. h \in [D -> T]
    OBVIOUS
  <2>3. \A y \in D : size[y] < n - 1 => g[y] = h[y]
    OBVIOUS
  <2>4. ASSUME NEW x \in D, size[x] < n PROVE h[x] = F[<<x, h>>]
    <3>1. h[x] = F[<<x, g>>]
      BY <2>1, <2>4
    <3>2. \A y \in D : size[y] < size[x] => g[y] = h[y]
      BY <2>3, <2>4
    <3>. HIDE DEF h
    <3>. QED BY <3>1, <3>2, <2>2
  <2>. HIDE DEF h
  <2>. QED BY <2>2, <2>4
<1>. HIDE DEF Good
<1>3. N + 1 \in Good
  BY <1>1, <1>2, UpTo
<1>4. PICK f \in [D -> T] : Upto(N + 1, f)
  BY <1>3 DEF Good
<1>5. \A x \in D : f[x] = F[<<x, f>>]
  BY <1>4
<1>6. f = [x \in D |-> F[<<x, f>>]]
  BY <1>5
<1>. QED BY <1>6

----------------------------------------------------------------------------
(* FlattenSeq keeps every element, in order *)

FlattenFun(ss) ==
  CHOOSE f : f = [i \in 1 .. Len(ss) |-> IF i = 1 THEN ss[i] ELSE f[i - 1] \o ss[i]]

\* Which row and column of ss each element of c comes from, up to row k.
Placed(c, ss, k) ==
  \E at \in [DOMAIN c -> Nat \X Nat] :
    /\ \A n \in DOMAIN c :
         /\ at[n][1] \in 1 .. k /\ at[n][2] \in DOMAIN ss[at[n][1]]
         /\ c[n] = ss[at[n][1]][at[n][2]]
    /\ \A m, n \in DOMAIN c : m < n =>
         \/ at[m][1] < at[n][1]
         \/ at[m][1] = at[n][1] /\ at[m][2] < at[n][2]
    /\ \A i \in 1 .. k : \A j \in DOMAIN ss[i] : \E n \in DOMAIN c : at[n] = <<i, j>>

LEMMA FlattenFunIs ==
  ASSUME NEW S, NEW ss \in Seq(Seq(S))
  PROVE  /\ FlattenFun(ss) \in [1 .. Len(ss) -> Seq(S)]
         /\ \A i \in 1 .. Len(ss) :
              FlattenFun(ss)[i] = IF i = 1 THEN ss[i] ELSE FlattenFun(ss)[i - 1] \o ss[i]
<1>. DEFINE D == 1 .. Len(ss)
            T == Seq(S)
            F == [p \in D \X [D -> T] |->
                    IF p[1] = 1 THEN ss[p[1]] ELSE p[2][p[1] - 1] \o ss[p[1]]]
            size == [i \in D |-> i]
<1>0. \A i \in D : ss[i] \in T
  OBVIOUS
<1>1. F \in [D \X [D -> T] -> T]
  <2>1. ASSUME NEW i \in D, NEW g \in [D -> T], i # 1 PROVE g[i - 1] \o ss[i] \in T
    <3>1. i - 1 \in D
      BY <2>1
    <3>2. g[i - 1] \in T /\ ss[i] \in T
      BY <3>1, <1>0
    <3>. QED BY <3>2
  <2>2. ASSUME NEW i \in D, NEW g \in [D -> T]
        PROVE  (IF i = 1 THEN ss[i] ELSE g[i - 1] \o ss[i]) \in T
    BY <2>1, <1>0
  <2>. HIDE DEF T
  <2>. QED BY <2>2
<1>2. ASSUME NEW x \in D, NEW g \in [D -> T], NEW h \in [D -> T],
             \A y \in D : size[y] < size[x] => g[y] = h[y]
      PROVE  F[<<x, g>>] = F[<<x, h>>]
  <2>1. x # 1 => x - 1 \in D /\ size[x - 1] < size[x]
    OBVIOUS
  <2>2. x # 1 => g[x - 1] = h[x - 1]
    BY <2>1, <1>2
  <2>3. <<x, g>> \in D \X [D -> T] /\ <<x, h>> \in D \X [D -> T]
    OBVIOUS
  <2>. HIDE DEF T
  <2>. QED BY <2>2, <2>3
<1>3. size \in [D -> 0 .. Len(ss)] /\ <<>> \in T
  OBVIOUS
<1>4. \E f \in [D -> T] : f = [x \in D |-> F[<<x, f>>]]
  <2>1. Len(ss) \in Nat
    OBVIOUS
  <2>. HIDE DEF F, size, T, D
  <2>2. \A x \in D : \A g, h \in [D -> T] :
          (\A y \in D : size[y] < size[x] => g[y] = h[y]) => F[<<x, g>>] = F[<<x, h>>]
    BY <1>2
  <2>3. T # {}
    BY <1>3
  <2>4. Recursive(D, T, Len(ss), size, F)
    BY <1>1, <2>2, <1>3, <2>1, <2>3 DEF Recursive
  <2>. QED BY <2>4, Recursion
<1>5. PICK f \in [D -> T] : f = [x \in D |-> F[<<x, f>>]]
  BY <1>4
<1>6. f = [i \in 1 .. Len(ss) |-> IF i = 1 THEN ss[i] ELSE f[i - 1] \o ss[i]]
  <2>. HIDE DEF T
  <2>1. ASSUME NEW i \in D PROVE F[<<i, f>>] = IF i = 1 THEN ss[i] ELSE f[i - 1] \o ss[i]
    OBVIOUS
  <2>. HIDE DEF F
  <2>. QED BY <1>5, <2>1
<1>7. FlattenFun(ss) =
        [i \in 1 .. Len(ss) |-> IF i = 1 THEN ss[i] ELSE FlattenFun(ss)[i - 1] \o ss[i]]
  BY <1>6 DEF FlattenFun
<1>. DEFINE Good == {n \in 0 .. Len(ss) : n > 0 => FlattenFun(ss)[n] \in T}
<1>8. \A n \in 0 .. Len(ss) : n \in Good
  <2>1. 0 \in Good /\ Len(ss) \in Nat
    OBVIOUS
  <2>2. ASSUME NEW n \in 1 .. Len(ss), n - 1 \in Good PROVE n \in Good
    <3>1. FlattenFun(ss)[n] = IF n = 1 THEN ss[n] ELSE FlattenFun(ss)[n - 1] \o ss[n]
      BY <1>7
    <3>2. ss[n] \in T /\ (n # 1 => FlattenFun(ss)[n - 1] \in T)
      BY <1>0, <2>2
    <3>3. FlattenFun(ss)[n] \in T
      BY <3>1, <3>2
    <3>. QED BY <3>3
  <2>. HIDE DEF Good
  <2>. QED BY <2>1, <2>2, UpTo
<1>9. FlattenFun(ss) \in [D -> T]
  <2>1. \A n \in D : FlattenFun(ss)[n] \in T
    BY <1>8
  <2>. HIDE DEF T
  <2>. QED BY <1>7, <2>1
<1>. QED BY <1>7, <1>9

\* One more row.
LEMMA PlacedAppends ==
  ASSUME NEW S, NEW ss \in Seq(Seq(S)), NEW r \in 1 .. Len(ss), NEW c \in Seq(S),
         Placed(c, ss, r - 1)
  PROVE  Placed(c \o ss[r], ss, r)
<1>. DEFINE row == ss[r]
            d == c \o row
<1>1. row \in Seq(S)
  OBVIOUS
<1>. HIDE DEF row
<1>2. /\ d \in Seq(S) /\ Len(d) = Len(c) + Len(row)
      /\ \A n \in 1 .. Len(c) : d[n] = c[n]
      /\ \A n \in 1 .. Len(row) : d[Len(c) + n] = row[n]
      /\ DOMAIN c = 1 .. Len(c) /\ DOMAIN row = 1 .. Len(row) /\ DOMAIN d = 1 .. Len(d)
      /\ Len(c) \in Nat /\ Len(row) \in Nat
  BY <1>1
<1>. HIDE DEF d
<1>3. PICK at \in [DOMAIN c -> Nat \X Nat] :
        /\ \A n \in DOMAIN c :
             /\ at[n][1] \in 1 .. r - 1 /\ at[n][2] \in DOMAIN ss[at[n][1]]
             /\ c[n] = ss[at[n][1]][at[n][2]]
        /\ \A m, n \in DOMAIN c : m < n =>
             \/ at[m][1] < at[n][1]
             \/ at[m][1] = at[n][1] /\ at[m][2] < at[n][2]
        /\ \A i \in 1 .. r - 1 : \A j \in DOMAIN ss[i] : \E n \in DOMAIN c : at[n] = <<i, j>>
  BY Zenon DEF Placed
<1>. DEFINE new == [n \in DOMAIN d |-> IF n \in DOMAIN c THEN at[n] ELSE <<r, n - Len(c)>>]
<1>4. ASSUME NEW n \in DOMAIN d
      PROVE  \/ n \in DOMAIN c /\ new[n] = at[n] /\ d[n] = c[n]
             \/ /\ n > Len(c) /\ new[n] = <<r, n - Len(c)>>
                /\ n - Len(c) \in DOMAIN row /\ d[n] = row[n - Len(c)]
  <2>1. CASE n \in DOMAIN c
    BY <2>1, <1>2
  <2>2. CASE n \notin DOMAIN c
    <3>1. n > Len(c) /\ n - Len(c) \in 1 .. Len(row) /\ n = Len(c) + (n - Len(c))
      BY <2>2, <1>2
    <3>. QED BY <3>1, <2>2, <1>2
  <2>. QED BY <2>1, <2>2
<1>5. new \in [DOMAIN d -> Nat \X Nat]
  <2>1. ASSUME NEW n \in DOMAIN d PROVE new[n] \in Nat \X Nat
    <3>1. CASE n \in DOMAIN c
      BY <3>1, <1>3
    <3>2. CASE n \notin DOMAIN c
      <4>1. n - Len(c) \in Nat /\ r \in Nat
        BY <3>2, <1>2
      <4>. QED BY <4>1, <3>2
    <3>. QED BY <3>1, <3>2
  <2>. QED BY <2>1
<1>6. ASSUME NEW n \in DOMAIN d
      PROVE  /\ new[n][1] \in 1 .. r /\ new[n][2] \in DOMAIN ss[new[n][1]]
             /\ d[n] = ss[new[n][1]][new[n][2]]
  <2>. HIDE DEF new
  <2>1. CASE n \in DOMAIN c /\ new[n] = at[n] /\ d[n] = c[n]
    BY <2>1, <1>3
  <2>2. CASE /\ n > Len(c) /\ new[n] = <<r, n - Len(c)>>
             /\ n - Len(c) \in DOMAIN row /\ d[n] = row[n - Len(c)]
    BY <2>2, <1>1 DEF row
  <2>. QED BY <2>1, <2>2, <1>4
<1>7. ASSUME NEW m \in DOMAIN d, NEW n \in DOMAIN d, m < n
      PROVE  \/ new[m][1] < new[n][1]
             \/ new[m][1] = new[n][1] /\ new[m][2] < new[n][2]
  <2>1. m \in Nat /\ n \in Nat
    BY <1>2
  <2>2. CASE n \in DOMAIN c
    <3>1. m \in DOMAIN c
      BY <2>1, <2>2, <1>2, <1>7
    <3>2. new[m] = at[m] /\ new[n] = at[n]
      BY <3>1, <2>2
    <3>. HIDE DEF new
    <3>. QED BY <3>1, <3>2, <2>2, <1>3, <1>7
  <2>3. CASE n \notin DOMAIN c /\ m \in DOMAIN c
    <3>1. new[m] = at[m] /\ new[n] = <<r, n - Len(c)>>
      BY <2>3
    <3>2. at[m][1] \in 1 .. r - 1
      BY <2>3, <1>3
    <3>. HIDE DEF new
    <3>. QED BY <3>1, <3>2
  <2>4. CASE n \notin DOMAIN c /\ m \notin DOMAIN c
    <3>1. new[m] = <<r, m - Len(c)>> /\ new[n] = <<r, n - Len(c)>>
      BY <2>4
    <3>2. m - Len(c) < n - Len(c)
      BY <2>1, <1>2, <1>7
    <3>. HIDE DEF new
    <3>. QED BY <3>1, <3>2
  <2>. QED BY <2>2, <2>3, <2>4
<1>8. ASSUME NEW i \in 1 .. r, NEW j \in DOMAIN ss[i]
      PROVE  \E n \in DOMAIN d : new[n] = <<i, j>>
  <2>1. CASE i \in 1 .. r - 1
    <3>1. PICK n \in DOMAIN c : at[n] = <<i, j>>
      BY <2>1, <1>3
    <3>2. n \in DOMAIN d
      BY <1>2
    <3>. QED BY <3>1, <3>2
  <2>2. CASE i = r
    <3>1. j \in 1 .. Len(row)
      BY <2>2, <1>2 DEF row
    <3>. DEFINE n == Len(c) + j
    <3>2. n \in DOMAIN d /\ n \notin DOMAIN c /\ n - Len(c) = j
      <4>0. Len(c) \in Nat /\ Len(row) \in Nat
        BY <1>2
      <4>1. j \in Nat /\ j > 0 /\ j <= Len(row)
        BY <3>1, <4>0
      <4>2. n \in 1 .. Len(c) + Len(row) /\ n \notin 1 .. Len(c) /\ n - Len(c) = j
        BY <4>0, <4>1
      <4>. HIDE DEF n
      <4>. QED BY <4>2, <1>2
    <3>3. new[n] = <<i, j>>
      BY <3>2, <2>2
    <3>. QED BY <3>2, <3>3
  <2>3. i \in 1 .. r - 1 \/ i = r
    OBVIOUS
  <2>. HIDE DEF new
  <2>. QED BY <2>1, <2>2, <2>3
<1>. HIDE DEF new
<1>9. Placed(d, ss, r)
  BY <1>5, <1>6, <1>7, <1>8 DEF Placed
<1>. QED BY <1>9 DEF d, row

\* Every element of the rows is in the result once, row by row.
LEMMA Flattened ==
  ASSUME NEW S, NEW ss \in Seq(Seq(S))
  PROVE  FlattenSeq(ss) \in Seq(S) /\ Placed(FlattenSeq(ss), ss, Len(ss))
<1>. DEFINE Good == {n \in 0 .. Len(ss) : n > 0 => Placed(FlattenFun(ss)[n], ss, n)}
<1>0. 0 \in Good /\ Len(ss) \in Nat
  OBVIOUS
<1>1. Placed(<<>>, ss, 0)
  <2>1. <<>> \in [DOMAIN <<>> -> Nat \X Nat] /\ DOMAIN <<>> = {} /\ 1 .. 0 = {}
    OBVIOUS
  <2>. QED BY <2>1 DEF Placed
<1>2. ASSUME NEW n \in 1 .. Len(ss), n - 1 \in Good PROVE n \in Good
  <2>1. n \in Nat /\ n > 0 /\ ss[n] \in Seq(S)
    OBVIOUS
  <2>2. CASE n = 1
    <3>1. FlattenFun(ss)[n] = ss[n]
      BY <2>2, FlattenFunIs
    <3>2. <<>> \in Seq(S) /\ <<>> \o ss[n] = ss[n]
      BY <2>1
    <3>3. Placed(<<>>, ss, n - 1)
      BY <1>1, <2>2
    <3>4. Placed(<<>> \o ss[n], ss, n)
      BY <3>2, <3>3, PlacedAppends
    <3>. QED BY <3>1, <3>2, <3>4, <2>1
  <2>3. CASE n # 1
    <3>1. n - 1 \in 1 .. Len(ss) /\ n - 1 > 0
      BY <2>3
    <3>2. /\ FlattenFun(ss)[n] = FlattenFun(ss)[n - 1] \o ss[n]
          /\ FlattenFun(ss)[n - 1] \in Seq(S)
      BY <2>3, <3>1, FlattenFunIs
    <3>3. Placed(FlattenFun(ss)[n - 1], ss, n - 1)
      BY <1>2, <3>1
    <3>4. Placed(FlattenFun(ss)[n - 1] \o ss[n], ss, n)
      BY <3>2, <3>3, <2>1, PlacedAppends
    <3>5. Placed(FlattenFun(ss)[n], ss, n)
      BY <3>2, <3>4
    <3>. QED BY <3>5
  <2>. QED BY <2>2, <2>3
<1>. HIDE DEF Good
<1>3. Len(ss) \in Good
  <2>1. \A n \in 1 .. Len(ss) : n - 1 \in Good => n \in Good
    BY <1>2
  <2>2. Len(ss) \in 0 .. Len(ss)
    BY <1>0
  <2>. QED BY <1>0, <2>1, <2>2, UpTo
<1>4. CASE Len(ss) = 0
  <2>1. ss = <<>> /\ <<>> \in Seq(S)
    BY <1>4
  <2>2. FlattenSeq(ss) = <<>>
    BY <1>4, <2>1 DEF FlattenSeq
  <2>. QED BY <2>1, <2>2, <1>1, <1>4
<1>5. CASE Len(ss) # 0
  <2>1. FlattenSeq(ss) = FlattenFun(ss)[Len(ss)]
    BY <1>5, Zenon DEF FlattenSeq, FlattenFun
  <2>2. Len(ss) \in 1 .. Len(ss) /\ Len(ss) > 0
    BY <1>0, <1>5
  <2>. QED BY <2>1, <2>2, <1>3, FlattenFunIs DEF Good
<1>. QED BY <1>4, <1>5

----------------------------------------------------------------------------
(* _tokenize_blocks *)

Lines == Seq(Kinds)

\* The blocks of the lines first..last, as far as they begin at line i or later.
Block == [first : Nat, last : Nat]

BlocksFrom(text, first, last) ==
  CHOOSE from : from = [i \in first .. last + 1 |->
    IF i > last THEN <<>>
    ELSE IF text[i] = "blank" THEN from[i + 1]
    ELSE <<[first |-> i, last |-> BlockEnd(text, i, last)]>>
           \o from[BlockEnd(text, i, last) + 1]]

\* Every line but blank ones is in one block, which ends where it should.
Tokenized(text, bs, i, last) ==
  /\ bs \in Seq(Block)
  /\ \A k \in 1 .. Len(bs) :
       /\ i <= bs[k].first /\ bs[k].first <= bs[k].last /\ bs[k].last <= last
       /\ text[bs[k].first] # "blank"
       /\ bs[k].last = BlockEnd(text, bs[k].first, last)
  /\ \A j, k \in 1 .. Len(bs) : j < k => bs[j].last < bs[k].first
  /\ \A l \in i .. last : text[l] # "blank" =>
       \E k \in 1 .. Len(bs) : bs[k].first <= l /\ l <= bs[k].last

\* A block that starts at a line that is not blank ends at it or later, in its
\* section.
LEMMA BlockEndIn ==
  ASSUME NEW text \in Lines, NEW last \in 0 .. Len(text), NEW i \in 1 .. last,
         text[i] # "blank"
  PROVE  BlockEnd(text, i, last) \in i .. last
<1>1. Len(text) \in Nat /\ last \in Nat /\ i \in Nat /\ i <= last
  OBVIOUS
<1>2. CASE text[i] \notin Fences
  <2>. DEFINE GoesOn(l) == \/ text[l] \in Joins[text[i]]
                           \/ /\ text[l] = "blank" /\ text[i] \in Quotes \cup {"list"}
                              /\ l < last /\ text[l + 1] \in Joins[text[i]]
              ends == {j \in i .. last : \A l \in i + 1 .. j : GoesOn(l)}
  <2>1. BlockEnd(text, i, last) = Max(ends)
    BY <1>2 DEF BlockEnd
  <2>2. i + 1 .. i = {} /\ i \in i .. last
    BY <1>1
  <2>3. i \in ends /\ ends \subseteq 0 .. last /\ ends \subseteq i .. last
    BY <2>2, <1>1
  <2>. HIDE DEF ends
  <2>4. Max(ends) \in ends
    BY <2>3, <1>1, GreatestMember
  <2>. QED BY <2>1, <2>3, <2>4
<1>3. CASE text[i] \in Fences
  <2>. DEFINE closes == {l \in i + 1 .. last : Closes(text[i], text[l])}
              used == {l \in i .. last : text[l] # "blank"}
  <2>1. BlockEnd(text, i, last) = IF closes # {} THEN Min(closes) ELSE Max(used)
    BY <1>3 DEF BlockEnd
  <2>2. i \in used /\ used \subseteq 0 .. last /\ used \subseteq i .. last
    BY <1>1
  <2>3. closes \subseteq Nat /\ closes \subseteq i .. last
    BY <1>1
  <2>. HIDE DEF closes, used
  <2>4. Max(used) \in used
    BY <2>2, <1>1, GreatestMember
  <2>5. closes # {} => Min(closes) \in closes
    BY <2>3, LeastMember
  <2>. QED BY <2>1, <2>2, <2>3, <2>4, <2>5
<1>. QED BY <1>2, <1>3

LEMMA BlocksFromIs ==
  ASSUME NEW text \in Lines, NEW last \in 0 .. Len(text), NEW first \in 1 .. last + 1
  PROVE  \A i \in first .. last + 1 :
           BlocksFrom(text, first, last)[i] =
             IF i > last THEN <<>>
             ELSE IF text[i] = "blank" THEN BlocksFrom(text, first, last)[i + 1]
             ELSE <<[first |-> i, last |-> BlockEnd(text, i, last)]>>
                    \o BlocksFrom(text, first, last)[BlockEnd(text, i, last) + 1]
<1>. DEFINE D == first .. last + 1
            T == Seq(Block)
            F == [p \in D \X [D -> T] |->
                    IF p[1] > last THEN <<>>
                    ELSE IF text[p[1]] = "blank" THEN p[2][p[1] + 1]
                    ELSE <<[first |-> p[1], last |-> BlockEnd(text, p[1], last)]>>
                           \o p[2][BlockEnd(text, p[1], last) + 1]]
            size == [i \in D |-> last + 1 - i]
            Value(i, g) == IF i > last THEN <<>>
                           ELSE IF text[i] = "blank" THEN g[i + 1]
                           ELSE <<[first |-> i, last |-> BlockEnd(text, i, last)]>>
                                  \o g[BlockEnd(text, i, last) + 1]
<1>1. last \in Nat /\ first \in Nat /\ first > 0 /\ last + 1 \in Nat
  OBVIOUS
<1>2. ASSUME NEW i \in D, ~ (i > last)
      PROVE  /\ i \in 1 .. last /\ i + 1 \in D
             /\ text[i] # "blank" => /\ BlockEnd(text, i, last) \in i .. last
                                     /\ BlockEnd(text, i, last) + 1 \in D
  <2>1. i \in 1 .. last /\ i + 1 \in D
    BY <1>1, <1>2
  <2>2. text[i] # "blank" => BlockEnd(text, i, last) \in i .. last
    BY <2>1, BlockEndIn
  <2>3. \A e \in i .. last : e + 1 \in D
    BY <1>1
  <2>. QED BY <2>1, <2>2, <2>3
<1>3. ASSUME NEW i \in D, NEW g \in [D -> T] PROVE Value(i, g) \in T
  <2>1. CASE i > last
    BY <2>1
  <2>2. CASE ~ (i > last) /\ text[i] = "blank"
    <3>1. i + 1 \in D
      BY <2>2, <1>2
    <3>. HIDE DEF D, T
    <3>2. g[i + 1] \in T
      BY <3>1
    <3>. QED BY <3>2, <2>2
  <2>3. CASE ~ (i > last) /\ text[i] # "blank"
    <3>. DEFINE e == BlockEnd(text, i, last)
                b == [first |-> i, last |-> e]
    <3>1. e \in i .. last /\ e + 1 \in D /\ i \in Nat
      BY <2>3, <1>2
    <3>2. e \in Nat
      BY <3>1, <1>1
    <3>. HIDE DEF e
    <3>3. b \in Block
      BY <3>1, <3>2 DEF Block
    <3>. HIDE DEF b
    <3>4. g[e + 1] \in T
      BY <3>1
    <3>5. <<b>> \o g[e + 1] \in T
      BY <3>3, <3>4
    <3>. QED BY <3>5, <2>3 DEF b, e
  <2>. QED BY <2>1, <2>2, <2>3
<1>4. ASSUME NEW i \in D, NEW g \in [D -> T] PROVE F[<<i, g>>] = Value(i, g)
  <2>. HIDE DEF D, T
  <2>1. <<i, g>> \in D \X [D -> T]
    OBVIOUS
  <2>. QED BY <2>1
<1>5. F \in [D \X [D -> T] -> T]
  <2>1. \A p \in D \X [D -> T] : F[p] \in T
    <3>. HIDE DEF F, Value, D, T
    <3>1. ASSUME NEW p \in D \X [D -> T] PROVE F[p] \in T
      <4>1. PICK i \in D, g \in [D -> T] : p = <<i, g>>
        OBVIOUS
      <4>. QED BY <4>1, <1>3, <1>4
    <3>. QED BY <3>1
  <2>. HIDE DEF T, D
  <2>. QED BY <2>1
<1>6. ASSUME NEW x \in D, NEW g \in [D -> T], NEW h \in [D -> T],
             \A y \in D : size[y] < size[x] => g[y] = h[y]
      PROVE  F[<<x, g>>] = F[<<x, h>>]
  <2>1. ASSUME NEW y \in D, x < y PROVE g[y] = h[y]
    <3>1. size[y] < size[x]
      BY <2>1, <1>1
    <3>. QED BY <3>1, <1>6
  <2>2. ~ (x > last) => g[x + 1] = h[x + 1]
    <3>1. x + 1 > x
      OBVIOUS
    <3>. QED BY <2>1, <1>2, <3>1
  <2>3. ~ (x > last) /\ text[x] # "blank" =>
          g[BlockEnd(text, x, last) + 1] = h[BlockEnd(text, x, last) + 1]
    <3>1. \A e \in x .. last : e + 1 > x
      OBVIOUS
    <3>. QED BY <2>1, <1>2, <3>1
  <2>4. Value(x, g) = Value(x, h)
    BY <2>2, <2>3
  <2>. HIDE DEF Value, F, D, T
  <2>. QED BY <2>4, <1>4
<1>7. size \in [D -> 0 .. last + 1] /\ <<>> \in T
  BY <1>1
<1>8. Recursive(D, T, last + 1, size, F)
  <2>. HIDE DEF F, size, T, D
  <2>2. \A x \in D : \A g, h \in [D -> T] :
          (\A y \in D : size[y] < size[x] => g[y] = h[y]) => F[<<x, g>>] = F[<<x, h>>]
    BY <1>6
  <2>3. T # {}
    BY <1>7
  <2>. QED BY <1>1, <1>5, <2>2, <1>7, <2>3 DEF Recursive
<1>9. PICK f \in [D -> T] : f = [x \in D |-> F[<<x, f>>]]
  <2>. HIDE DEF F, size, T, D
  <2>. QED BY <1>8, Recursion
<1>10. f = [i \in D |-> Value(i, f)]
  <2>. HIDE DEF Value, F, D, T
  <2>. QED BY <1>9, <1>4
<1>11. BlocksFrom(text, first, last) = [i \in D |-> Value(i, BlocksFrom(text, first, last))]
  <2>. HIDE DEF T
  <2>. QED BY <1>10 DEF BlocksFrom
<1>. QED BY <1>11

\* _tokenize_blocks gives every line of the section that is not blank to one
\* block, in order.
LEMMA BlocksTokenize ==
  ASSUME NEW text \in Lines, NEW last \in 0 .. Len(text), NEW first \in 1 .. last + 1
  PROVE  Tokenized(text, Blocks(text, first, last), first, last)
<1>. DEFINE from == BlocksFrom(text, first, last)
            Good == {n \in 0 .. last + 1 - first : Tokenized(text, from[last + 1 - n], last + 1 - n, last)}
            Done(i) == Tokenized(text, from[i], i, last)
<1>1. last \in Nat /\ first \in Nat /\ first > 0 /\ last + 1 - first \in Nat
  OBVIOUS
<1>2. ASSUME NEW i \in first .. last + 1, \A j \in first .. last + 1 : i < j => Done(j)
      PROVE  Done(i)
  <2>. HIDE DEF from
  <2>0. i \in Nat /\ i > 0
    BY <1>1
  <2>1. from[i] = IF i > last THEN <<>>
                  ELSE IF text[i] = "blank" THEN from[i + 1]
                  ELSE <<[first |-> i, last |-> BlockEnd(text, i, last)]>>
                         \o from[BlockEnd(text, i, last) + 1]
    BY BlocksFromIs DEF from
  <2>2. CASE i > last
    <3>1. from[i] = <<>> /\ <<>> \in Seq(Block) /\ Len(<<>>) = 0 /\ i .. last = {}
      BY <2>1, <2>2, <1>1
    <3>. QED BY <3>1 DEF Tokenized
  <2>3. CASE ~ (i > last) /\ text[i] = "blank"
    <3>1. i + 1 \in first .. last + 1 /\ i < i + 1 /\ i + 1 \in Nat
      BY <2>3, <1>1
    <3>2. Tokenized(text, from[i + 1], i + 1, last) /\ from[i] = from[i + 1]
      BY <3>1, <1>2, <2>1, <2>3
    <3>. DEFINE bs == from[i + 1]
    <3>. HIDE DEF bs
    <3>3. Tokenized(text, bs, i + 1, last)
      BY <3>2 DEF bs
    <3>4. ASSUME NEW k \in 1 .. Len(bs) PROVE i <= bs[k].first
      <4>1. i + 1 <= bs[k].first /\ bs[k] \in Block
        BY <3>3 DEF Tokenized
      <4>. QED BY <4>1, <2>0 DEF Block
    <3>5. ASSUME NEW l \in i .. last, text[l] # "blank" PROVE l \in i + 1 .. last
      BY <3>5, <2>3, <2>0, <1>1
    <3>6. Tokenized(text, bs, i, last)
      BY <3>3, <3>4, <3>5 DEF Tokenized
    <3>. QED BY <3>6, <3>2 DEF bs
  <2>4. CASE ~ (i > last) /\ text[i] # "blank"
    <3>. DEFINE e == BlockEnd(text, i, last)
                b == [first |-> i, last |-> e]
                tail == from[e + 1]
                bs == <<b>> \o tail
    <3>1. i \in 1 .. last
      BY <2>4, <2>0, <1>1
    <3>2. e \in i .. last
      BY <3>1, <2>4, BlockEndIn
    <3>. HIDE DEF e
    <3>3. e \in Nat /\ e + 1 \in first .. last + 1 /\ i < e + 1 /\ i <= e /\ e <= last
      BY <3>2, <2>0, <1>1
    <3>4. Tokenized(text, tail, e + 1, last)
      BY <3>3, <1>2
    <3>5. from[i] = bs
      BY <2>1, <2>4 DEF e
    <3>6. b \in Block /\ b.first = i /\ b.last = e
      BY <3>3, <2>0 DEF Block
    <3>. HIDE DEF b, tail
    <3>7. tail \in Seq(Block)
      BY <3>4 DEF Tokenized
    <3>8. /\ bs \in Seq(Block) /\ Len(bs) = Len(tail) + 1 /\ bs[1] = b
          /\ \A k \in 1 .. Len(tail) : bs[k + 1] = tail[k]
          /\ Len(tail) \in Nat
      BY <3>6, <3>7
    <3>. HIDE DEF bs
    <3>9. ASSUME NEW k \in 1 .. Len(bs), k # 1
          PROVE  k - 1 \in 1 .. Len(tail) /\ bs[k] = tail[k - 1]
      <4>1. k - 1 \in 1 .. Len(tail) /\ (k - 1) + 1 = k
        BY <3>8, <3>9
      <4>. QED BY <4>1, <3>8
    <3>10. ASSUME NEW k \in 1 .. Len(tail)
           PROVE  /\ tail[k].first \in Nat /\ tail[k].last \in Nat
                  /\ e < tail[k].first /\ i <= tail[k].first
      <4>1. tail[k] \in Block /\ e + 1 <= tail[k].first
        BY <3>4 DEF Tokenized
      <4>2. tail[k].first \in Nat /\ tail[k].last \in Nat
        BY <4>1 DEF Block
      <4>. QED BY <4>1, <4>2, <3>3, <2>0
    <3>11. ASSUME NEW k \in 1 .. Len(bs)
           PROVE  /\ i <= bs[k].first /\ bs[k].first <= bs[k].last /\ bs[k].last <= last
                  /\ text[bs[k].first] # "blank"
                  /\ bs[k].last = BlockEnd(text, bs[k].first, last)
      <4>1. CASE k = 1
        BY <4>1, <3>6, <3>8, <3>3, <2>4, <2>0 DEF e
      <4>2. CASE k # 1
        <5>1. k - 1 \in 1 .. Len(tail) /\ bs[k] = tail[k - 1]
          BY <3>9, <4>2
        <5>2. /\ tail[k - 1].first <= tail[k - 1].last /\ tail[k - 1].last <= last
              /\ text[tail[k - 1].first] # "blank"
              /\ tail[k - 1].last = BlockEnd(text, tail[k - 1].first, last)
          BY <5>1, <3>4 DEF Tokenized
        <5>. QED BY <5>1, <5>2, <3>10
      <4>. QED BY <4>1, <4>2
    <3>12. ASSUME NEW j \in 1 .. Len(bs), NEW k \in 1 .. Len(bs), j < k
           PROVE  bs[j].last < bs[k].first
      <4>1. k # 1 /\ k - 1 \in 1 .. Len(tail) /\ bs[k] = tail[k - 1]
        BY <3>9, <3>12, <3>8
      <4>2. CASE j = 1
        BY <4>1, <4>2, <3>6, <3>8, <3>10
      <4>3. CASE j # 1
        <5>1. j - 1 \in 1 .. Len(tail) /\ bs[j] = tail[j - 1] /\ j - 1 < k - 1
          BY <3>9, <4>3, <3>12, <3>8
        <5>2. tail[j - 1].last < tail[k - 1].first
          BY <5>1, <4>1, <3>4 DEF Tokenized
        <5>. QED BY <5>1, <5>2, <4>1
      <4>. QED BY <4>2, <4>3
    <3>13. ASSUME NEW l \in i .. last, text[l] # "blank"
           PROVE  \E k \in 1 .. Len(bs) : bs[k].first <= l /\ l <= bs[k].last
      <4>1. CASE l <= e
        <5>1. 1 \in 1 .. Len(bs) /\ i <= l
          BY <3>8, <2>0
        <5>. QED BY <5>1, <4>1, <3>8, <3>6
      <4>2. CASE ~ (l <= e)
        <5>1. l \in e + 1 .. last
          BY <4>2, <3>3, <2>0, <1>1
        <5>2. PICK k \in 1 .. Len(tail) : tail[k].first <= l /\ l <= tail[k].last
          BY <5>1, <3>4, <3>13 DEF Tokenized
        <5>3. k + 1 \in 1 .. Len(bs) /\ bs[k + 1] = tail[k]
          BY <3>8
        <5>. QED BY <5>2, <5>3
      <4>. QED BY <4>1, <4>2
    <3>14. Tokenized(text, bs, i, last)
      BY <3>8, <3>11, <3>12, <3>13 DEF Tokenized
    <3>. QED BY <3>14, <3>5
  <2>. QED BY <2>2, <2>3, <2>4
<1>3. ASSUME NEW n \in 0 .. last + 1 - first,
             \A m \in 0 .. last + 1 - first : m < n => m \in Good
      PROVE  n \in Good
  <2>1. last + 1 - n \in first .. last + 1
    BY <1>1
  <2>2. ASSUME NEW j \in first .. last + 1, last + 1 - n < j PROVE Done(j)
    <3>. DEFINE m == last + 1 - j
    <3>1. m \in 0 .. last + 1 - first /\ m < n /\ last + 1 - m = j
      BY <2>2, <1>1
    <3>. HIDE DEF m, from
    <3>2. m \in Good
      BY <3>1, <1>3
    <3>. QED BY <3>1, <3>2
  <2>. HIDE DEF Done
  <2>3. Done(last + 1 - n)
    BY <2>1, <2>2, <1>2
  <2>. QED BY <2>3 DEF Done
<1>4. last + 1 - first \in Good
  <2>. HIDE DEF Good
  <2>1. \A n \in 0 .. last + 1 - first :
          (\A m \in 0 .. last + 1 - first : m < n => m \in Good) => n \in Good
    BY <1>3
  <2>2. last + 1 - first \in 0 .. last + 1 - first
    BY <1>1
  <2>. QED BY <1>1, <2>1, <2>2, UpToAll
<1>5. last + 1 - (last + 1 - first) = first
  BY <1>1
<1>6. Tokenized(text, from[first], first, last)
  <2>. HIDE DEF from
  <2>. QED BY <1>4, <1>5
<1>7. Blocks(text, first, last) = from[first]
  BY DEF Blocks, BlocksFrom
<1>. QED BY <1>6, <1>7

----------------------------------------------------------------------------
(* _split_section_content *)

Ordered(bs) == \A j, k \in 1 .. Len(bs) : j < k => bs[j].last < bs[k].first

\* The groups hold the first n blocks, in order; each is within the limit or a
\* single block.
Grouped(gs, bs, n) ==
  /\ gs \in Seq(Seq(Block))
  /\ \A g \in 1 .. Len(gs) :
       Len(gs[g]) > 0 /\ (JoinedLength(gs[g]) <= SoftMax \/ Len(gs[g]) = 1)
  /\ \A g \in 1 .. Len(gs) : \A i \in 1 .. Len(gs[g]) : \E k \in 1 .. n : gs[g][i] = bs[k]
  /\ \A k \in 1 .. n : \E g \in 1 .. Len(gs) : \E i \in 1 .. Len(gs[g]) : gs[g][i] = bs[k]
  /\ \A f, g \in 1 .. Len(gs) : f < g =>
       \A i \in 1 .. Len(gs[f]), j \in 1 .. Len(gs[g]) : gs[f][i].last < gs[g][j].first

GroupsOf(bs) ==
  CHOOSE it : it = [s \in SUBSET (DOMAIN bs) |->
    IF s = {} THEN <<>> ELSE Add(it[s \ {Max(s)}], bs[Max(s)])]

LEMMA FoldIsGroups ==
  ASSUME NEW bs
  PROVE  FoldLeft(Add, <<>>, bs) = GroupsOf(bs)[DOMAIN bs]
BY DEF FoldLeft, MapThenFoldSet, GroupsOf

LEMMA SequenceFacts ==
  ASSUME NEW S, NEW s \in Seq(S), NEW x \in S
  PROVE  /\ Append(s, x) \in Seq(S) /\ Len(Append(s, x)) = Len(s) + 1
         /\ \A i \in 1 .. Len(s) : Append(s, x)[i] = s[i] /\ s[i] \in S
         /\ Append(s, x)[Len(s) + 1] = x
         /\ <<x>> \in Seq(S) /\ Len(<<x>>) = 1 /\ <<x>>[1] = x
         /\ Len(s) \in Nat /\ DOMAIN s = 1 .. Len(s)
OBVIOUS

\* All groups but the last stay, and the last one may grow.
LEMMA ReplaceLast ==
  ASSUME NEW S, NEW s \in Seq(S), NEW x \in S, s # <<>>
  PROVE  /\ Append(Front(s), x) \in Seq(S) /\ Len(Append(Front(s), x)) = Len(s)
         /\ \A i \in 1 .. Len(s) - 1 : Append(Front(s), x)[i] = s[i]
         /\ Append(Front(s), x)[Len(s)] = x
         /\ Last(s) = s[Len(s)] /\ Len(s) \in Nat /\ Len(s) > 0 /\ Last(s) \in S
<1>1. Len(s) \in Nat /\ Len(s) > 0
  OBVIOUS
<1>2. Front(s) = SubSeq(s, 1, Len(s) - 1)
  BY DEF Front
<1>3. /\ Front(s) \in Seq(S) /\ Len(Front(s)) = Len(s) - 1
      /\ \A i \in 1 .. Len(s) - 1 : Front(s)[i] = s[i]
  <2>. DEFINE n == Len(s) - 1
  <2>1. n \in Nat /\ \A i \in 1 .. n : i \in 1 .. Len(s) /\ s[i] \in S
    BY <1>1
  <2>. HIDE DEF n
  <2>2. SubSeq(s, 1, n) = [i \in 1 .. n |-> s[i]]
    BY <2>1
  <2>3. SubSeq(s, 1, n) \in Seq(S) /\ Len(SubSeq(s, 1, n)) = n
    BY <2>1, <2>2
  <2>. QED BY <2>2, <2>3, <1>2 DEF n
<1>4. Last(s) = s[Len(s)] /\ Last(s) \in S
  BY <1>1 DEF Last
<1>. DEFINE f == Front(s)
<1>. HIDE DEF f
<1>5. /\ Append(f, x) \in Seq(S) /\ Len(Append(f, x)) = Len(s)
      /\ \A i \in 1 .. Len(s) - 1 : Append(f, x)[i] = s[i]
      /\ Append(f, x)[Len(s)] = x
  <2>1. f \in Seq(S) /\ Len(f) = Len(s) - 1 /\ \A i \in 1 .. Len(s) - 1 : f[i] = s[i]
    BY <1>3 DEF f
  <2>2. Len(Append(f, x)) = Len(s) /\ Append(f, x)[Len(f) + 1] = x /\ Append(f, x) \in Seq(S)
    BY <2>1, <1>1
  <2>3. \A i \in 1 .. Len(f) : Append(f, x)[i] = f[i]
    BY <2>1
  <2>. QED BY <2>1, <2>2, <2>3, <1>1
<1>. QED BY <1>1, <1>4, <1>5 DEF f

\* With a block more, they are groups of blocks again.
LEMMA AddTyped ==
  ASSUME NEW gs \in Seq(Seq(Block)), NEW b \in Block
  PROVE  Add(gs, b) \in Seq(Seq(Block))
<1>. DEFINE T == Seq(Block)
<1>1. Append(gs, <<b>>) \in Seq(T)
  <2>1. <<b>> \in T
    OBVIOUS
  <2>. HIDE DEF T
  <2>. QED BY <2>1, SequenceFacts DEF T
<1>2. gs # <<>> => Append(Front(gs), Append(Last(gs), b)) \in Seq(T)
  <2>. SUFFICES ASSUME gs # <<>> PROVE Append(Front(gs), Append(Last(gs), b)) \in Seq(T)
    OBVIOUS
  <2>1. <<b>> \in T
    OBVIOUS
  <2>2. Last(gs) \in T
    <3>. HIDE DEF T
    <3>. QED BY <2>1, ReplaceLast DEF T
  <2>3. Append(Last(gs), b) \in T
    BY <2>2
  <2>. HIDE DEF T
  <2>. QED BY <2>3, ReplaceLast DEF T
<1>. HIDE DEF T
<1>3. Add(gs, b) \in Seq(T)
  BY <1>1, <1>2 DEF Add
<1>. QED BY <1>3 DEF T

LEMMA GroupsOfIs ==
  ASSUME NEW bs \in Seq(Block), NEW s \in SUBSET (1 .. Len(bs))
  PROVE  GroupsOf(bs)[s] = IF s = {} THEN <<>> ELSE Add(GroupsOf(bs)[s \ {Max(s)}], bs[Max(s)])
<1>. DEFINE N == Len(bs)
            D == SUBSET (1 .. N)
            T == Seq(Seq(Block))
            Value(x, g) == IF x = {} THEN <<>> ELSE Add(g[x \ {Max(x)}], bs[Max(x)])
            F == [p \in D \X [D -> T] |-> Value(p[1], p[2])]
            size == [x \in D |-> IF x = {} THEN 0 ELSE Max(x)]
<1>1. N \in Nat /\ DOMAIN bs = 1 .. N /\ \A i \in 1 .. N : bs[i] \in Block
  OBVIOUS
<1>. HIDE DEF N
<1>2. ASSUME NEW x \in D, x # {}
      PROVE  /\ Max(x) \in 1 .. N /\ x \ {Max(x)} \in D
             /\ size[x \ {Max(x)}] < size[x]
  <2>1. x \subseteq 0 .. N
    BY <1>1
  <2>2. Max(x) \in x /\ \A y \in x : y <= Max(x)
    BY <2>1, <1>1, <1>2, GreatestMember
  <2>3. Max(x) \in 1 .. N /\ x \ {Max(x)} \in D
    BY <2>2
  <2>. DEFINE r == x \ {Max(x)}
  <2>4. r # {} => Max(r) \in r
    <3>1. r \subseteq 0 .. N
      BY <2>1
    <3>. HIDE DEF r
    <3>. QED BY <3>1, <1>1, GreatestMember
  <2>5. r # {} => Max(r) < Max(x)
    <3>. SUFFICES ASSUME r # {} PROVE Max(r) < Max(x)
      OBVIOUS
    <3>1. Max(r) \in x /\ Max(r) # Max(x)
      BY <2>4
    <3>2. Max(r) \in 1 .. N /\ Max(r) <= Max(x)
      BY <3>1, <2>2
    <3>. QED BY <3>1, <3>2, <2>3, <1>1
  <2>6. size[x] = Max(x) /\ size[r] = IF r = {} THEN 0 ELSE Max(r)
    BY <2>3, <1>2
  <2>. HIDE DEF size, r
  <2>7. size[r] < size[x]
    BY <2>3, <2>5, <2>6, <1>1
  <2>. QED BY <2>3, <2>7 DEF r
<1>3. size \in [D -> 0 .. N]
  <2>1. ASSUME NEW x \in D PROVE (IF x = {} THEN 0 ELSE Max(x)) \in 0 .. N
    <3>1. x # {} => Max(x) \in 1 .. N
      BY <1>2
    <3>2. 0 \in 0 .. N /\ \A n \in 1 .. N : n \in 0 .. N
      BY <1>1
    <3>. QED BY <3>1, <3>2
  <2>. QED BY <2>1
<1>4. ASSUME NEW x \in D, NEW g \in [D -> T] PROVE F[<<x, g>>] = Value(x, g)
  <2>. HIDE DEF D, T, Value
  <2>1. <<x, g>> \in D \X [D -> T]
    OBVIOUS
  <2>. QED BY <2>1
<1>5. ASSUME NEW x \in D, NEW g \in [D -> T] PROVE Value(x, g) \in T
  <2>1. CASE x = {}
    BY <2>1
  <2>2. CASE x # {}
    <3>1. x \ {Max(x)} \in D /\ bs[Max(x)] \in Block
      BY <2>2, <1>2, <1>1
    <3>2. g[x \ {Max(x)}] \in T
      <4>. HIDE DEF D, T
      <4>. QED BY <3>1
    <3>. QED BY <2>2, <3>1, <3>2, AddTyped
  <2>. QED BY <2>1, <2>2
<1>6. F \in [D \X [D -> T] -> T]
  <2>. HIDE DEF F, Value, D, T
  <2>1. ASSUME NEW p \in D \X [D -> T] PROVE F[p] \in T
    <3>1. PICK x \in D, g \in [D -> T] : p = <<x, g>>
      OBVIOUS
    <3>. QED BY <3>1, <1>4, <1>5
  <2>2. F = [p \in D \X [D -> T] |-> Value(p[1], p[2])]
    BY DEF F
  <2>. QED BY <2>1, <2>2
<1>7. ASSUME NEW x \in D, NEW g \in [D -> T], NEW h \in [D -> T],
             \A y \in D : size[y] < size[x] => g[y] = h[y]
      PROVE  F[<<x, g>>] = F[<<x, h>>]
  <2>1. x # {} => g[x \ {Max(x)}] = h[x \ {Max(x)}]
    <3>. HIDE DEF size, D, T
    <3>. QED BY <1>2, <1>7
  <2>2. Value(x, g) = Value(x, h)
    BY <2>1
  <2>. HIDE DEF Value, F, D, T
  <2>. QED BY <2>2, <1>4
<1>8. Recursive(D, T, N, size, F)
  <2>1. T # {}
    <3>1. <<>> \in T
      OBVIOUS
    <3>. QED BY <3>1
  <2>. HIDE DEF F, size, T, D
  <2>2. \A x \in D : \A g, h \in [D -> T] :
          (\A y \in D : size[y] < size[x] => g[y] = h[y]) => F[<<x, g>>] = F[<<x, h>>]
    BY <1>7
  <2>. QED BY <1>1, <1>6, <2>2, <1>3, <2>1 DEF Recursive
<1>9. PICK f \in [D -> T] : f = [x \in D |-> F[<<x, f>>]]
  <2>. HIDE DEF F, size, T, D
  <2>. QED BY <1>8, Recursion
<1>10. f = [x \in D |-> Value(x, f)]
  <2>. HIDE DEF Value, F, D, T
  <2>. QED BY <1>9, <1>4
<1>11. GroupsOf(bs) = [x \in D |-> Value(x, GroupsOf(bs))]
  <2>1. DOMAIN bs = 1 .. N
    BY <1>1
  <2>. HIDE DEF T
  <2>. QED BY <1>10, <2>1 DEF GroupsOf
<1>12. s \in D
  BY DEF N
<1>. QED BY <1>11, <1>12

\* One more block.
LEMMA AddGroups ==
  ASSUME NEW bs \in Seq(Block), Ordered(bs), NEW n \in 1 .. Len(bs), NEW gs,
         Grouped(gs, bs, n - 1)
  PROVE  Grouped(Add(gs, bs[n]), bs, n)
<1>. DEFINE b == bs[n]
            T == Seq(Block)
            m == Len(gs)
<1>1. /\ n \in Nat /\ b \in Block /\ Len(bs) \in Nat
      /\ \A k \in 1 .. n - 1 : k \in 1 .. Len(bs) /\ k \in 1 .. n /\ bs[k].last < b.first
  BY DEF Ordered
<1>2. \A k \in 1 .. n : k = n \/ k \in 1 .. n - 1
  BY <1>1
<1>3. /\ gs \in Seq(T) /\ m = Len(gs) /\ m \in Nat
      /\ \A g \in 1 .. m :
           Len(gs[g]) > 0 /\ (JoinedLength(gs[g]) <= SoftMax \/ Len(gs[g]) = 1)
      /\ \A g \in 1 .. m : \A i \in 1 .. Len(gs[g]) : \E k \in 1 .. n - 1 : gs[g][i] = bs[k]
      /\ \A k \in 1 .. n - 1 : \E g \in 1 .. m : \E i \in 1 .. Len(gs[g]) : gs[g][i] = bs[k]
      /\ \A f, g \in 1 .. m : f < g =>
           \A i \in 1 .. Len(gs[f]), j \in 1 .. Len(gs[g]) : gs[f][i].last < gs[g][j].first
  BY DEF Grouped
<1>. HIDE DEF m
<1>4. <<b>> \in T /\ Len(<<b>>) = 1 /\ <<b>>[1] = b /\ n \in 1 .. n
  BY <1>1
<1>5. ASSUME NEW g \in 1 .. m
      PROVE  /\ gs[g] \in T /\ Len(gs[g]) \in Nat
             /\ \A i \in 1 .. Len(gs[g]) : gs[g][i].last < b.first
  <2>1. gs[g] \in T
    <3>. HIDE DEF T
    <3>. QED BY <1>3
  <2>2. \A i \in 1 .. Len(gs[g]) : \E k \in 1 .. n - 1 : gs[g][i] = bs[k]
    BY <1>3, Zenon
  <2>3. Len(gs[g]) \in Nat
    BY <2>1
  <2>4. \A i \in 1 .. Len(gs[g]) : gs[g][i].last < b.first
    BY <2>2, <1>1, Zenon
  <2>. QED BY <2>1, <2>3, <2>4
<1>. HIDE DEF b
<1>6. CASE gs # <<>> /\ JoinedLength(Append(Last(gs), b)) <= SoftMax
  <2>. DEFINE grown == Append(gs[m], b)
              new == Append(Front(gs), grown)
  <2>0. m \in Nat /\ m > 0 /\ m \in 1 .. m
    BY <1>3, <1>6
  <2>1. Last(gs) = gs[m] /\ gs[m] \in T
    <3>. HIDE DEF T
    <3>. QED BY <2>0, <1>3, <1>5 DEF Last
  <2>2. /\ grown \in T /\ Len(grown) = Len(gs[m]) + 1 /\ Len(gs[m]) \in Nat
        /\ \A i \in 1 .. Len(gs[m]) : grown[i] = gs[m][i]
        /\ grown[Len(gs[m]) + 1] = b
    BY <2>1, <1>1, SequenceFacts DEF T, b
  <2>. HIDE DEF grown
  <2>3. /\ new \in Seq(T) /\ Len(new) = m
        /\ \A g \in 1 .. m - 1 : new[g] = gs[g]
        /\ new[m] = grown
    <3>1. gs \in Seq(T) /\ gs # <<>> /\ grown \in T
      BY <1>3, <1>6, <2>2
    <3>. HIDE DEF T
    <3>2. new \in Seq(T) /\ Len(new) = Len(gs)
      BY <3>1, ReplaceLast
    <3>3. \A g \in 1 .. Len(gs) - 1 : new[g] = gs[g]
      BY <3>1, ReplaceLast
    <3>4. new[Len(gs)] = grown
      BY <3>1, ReplaceLast
    <3>. QED BY <3>2, <3>3, <3>4, <1>3
  <2>4. Add(gs, b) = new
    BY <1>6, <2>1 DEF Add, grown
  <2>. HIDE DEF new
  <2>5. ASSUME NEW g \in 1 .. m
        PROVE  \/ g \in 1 .. m - 1 /\ g \in 1 .. m /\ new[g] = gs[g]
               \/ g = m /\ new[g] = grown
    <3>1. g = m \/ g \in 1 .. m - 1
      BY <2>0
    <3>. QED BY <3>1, <2>3
  <2>6. ASSUME NEW i \in 1 .. Len(grown)
        PROVE  \/ i \in 1 .. Len(gs[m]) /\ grown[i] = gs[m][i]
               \/ i = Len(gs[m]) + 1 /\ grown[i] = b
    BY <2>2
  <2>7. \A g \in 1 .. m : Len(new[g]) > 0 /\ (JoinedLength(new[g]) <= SoftMax \/ Len(new[g]) = 1)
    <3>1. Len(grown) > 0 /\ JoinedLength(grown) <= SoftMax
      BY <1>6, <2>1, <2>2 DEF grown
    <3>. QED BY <3>1, <2>5, <1>3
  <2>8. ASSUME NEW g \in 1 .. m, NEW i \in 1 .. Len(new[g])
        PROVE  \E k \in 1 .. n : new[g][i] = bs[k]
    <3>1. CASE g \in 1 .. m /\ new[g] = gs[g]
      <4>1. PICK k \in 1 .. n - 1 : gs[g][i] = bs[k]
        BY <3>1, <2>8, <1>3
      <4>. QED BY <4>1, <3>1, <1>1
    <3>2. CASE g = m /\ new[g] = grown
      <4>1. CASE i \in 1 .. Len(gs[m]) /\ grown[i] = gs[m][i]
        <5>1. PICK k \in 1 .. n - 1 : gs[m][i] = bs[k]
          BY <4>1, <2>0, <1>3
        <5>. QED BY <5>1, <4>1, <3>2, <1>1
      <4>2. CASE grown[i] = b
        BY <4>2, <3>2, <1>4 DEF b
      <4>. QED BY <4>1, <4>2, <2>6, <3>2
    <3>. QED BY <3>1, <3>2, <2>5
  <2>9. ASSUME NEW k \in 1 .. n
        PROVE  \E g \in 1 .. m : \E i \in 1 .. Len(new[g]) : new[g][i] = bs[k]
    <3>1. CASE k = n
      <4>1. Len(gs[m]) + 1 \in 1 .. Len(grown)
        BY <2>2
      <4>. QED BY <4>1, <3>1, <2>2, <2>3, <2>0 DEF b
    <3>2. CASE k \in 1 .. n - 1
      <4>1. PICK g \in 1 .. m : \E i \in 1 .. Len(gs[g]) : gs[g][i] = bs[k]
        BY <3>2, <1>3
      <4>. PICK i \in 1 .. Len(gs[g]) : gs[g][i] = bs[k]
        BY <4>1
      <4>2. CASE new[g] = gs[g]
        BY <4>1, <4>2
      <4>3. CASE g = m /\ new[g] = grown
        <5>1. i \in 1 .. Len(grown) /\ grown[i] = gs[m][i]
          BY <4>1, <4>3, <2>2
        <5>. QED BY <5>1, <4>1, <4>3
      <4>. QED BY <4>2, <4>3, <2>5
    <3>. QED BY <3>1, <3>2, <1>2
  <2>10. ASSUME NEW f \in 1 .. m, NEW g \in 1 .. m, f < g,
                NEW i \in 1 .. Len(new[f]), NEW j \in 1 .. Len(new[g])
         PROVE  new[f][i].last < new[g][j].first
    <3>1. f # m
      BY <2>10, <2>0
    <3>2. new[f] = gs[f] /\ f \in 1 .. m
      BY <3>1, <2>5
    <3>3. CASE g \in 1 .. m /\ new[g] = gs[g]
      BY <3>2, <3>3, <2>10, <1>3
    <3>4. CASE g = m /\ new[g] = grown
      <4>1. CASE j \in 1 .. Len(gs[m]) /\ grown[j] = gs[m][j]
        BY <4>1, <3>2, <3>4, <2>0, <2>10, <1>3
      <4>2. CASE grown[j] = b
        BY <4>2, <3>2, <3>4, <1>5
      <4>. QED BY <4>1, <4>2, <2>6, <3>4
    <3>. QED BY <3>3, <3>4, <2>5
  <2>11. Grouped(new, bs, n)
    BY <2>3, <2>7, <2>8, <2>9, <2>10 DEF Grouped
  <2>. QED BY <2>4, <2>11 DEF b
<1>7. CASE ~ (gs # <<>> /\ JoinedLength(Append(Last(gs), b)) <= SoftMax)
  <2>. DEFINE new == Append(gs, <<b>>)
  <2>1. /\ new \in Seq(T) /\ Len(new) = m + 1 /\ m \in Nat
        /\ \A g \in 1 .. m : new[g] = gs[g]
        /\ new[m + 1] = <<b>>
    <3>. HIDE DEF T
    <3>. QED BY <1>3, <1>4, SequenceFacts
  <2>2. Add(gs, b) = new
    BY <1>7 DEF Add
  <2>. HIDE DEF new
  <2>3. ASSUME NEW g \in 1 .. m + 1
        PROVE  \/ g \in 1 .. m /\ new[g] = gs[g]
               \/ g = m + 1 /\ new[g] = <<b>>
    <3>1. g = m + 1 \/ g \in 1 .. m
      BY <2>1
    <3>. QED BY <3>1, <2>1
  <2>4. \A g \in 1 .. m + 1 :
          Len(new[g]) > 0 /\ (JoinedLength(new[g]) <= SoftMax \/ Len(new[g]) = 1)
    <3>. SUFFICES ASSUME NEW g \in 1 .. m + 1
                  PROVE  Len(new[g]) > 0 /\ (JoinedLength(new[g]) <= SoftMax \/ Len(new[g]) = 1)
      OBVIOUS
    <3>1. CASE g \in 1 .. m /\ new[g] = gs[g]
      BY <3>1, <1>3
    <3>2. CASE new[g] = <<b>>
      BY <3>2, <1>4
    <3>. QED BY <3>1, <3>2, <2>3
  <2>5. ASSUME NEW i \in 1 .. Len(<<b>>) PROVE <<b>>[i] = b
    BY <1>4
  <2>6. ASSUME NEW g \in 1 .. m + 1, NEW i \in 1 .. Len(new[g])
        PROVE  \E k \in 1 .. n : new[g][i] = bs[k]
    <3>1. CASE g \in 1 .. m /\ new[g] = gs[g]
      <4>1. PICK k \in 1 .. n - 1 : gs[g][i] = bs[k]
        BY <3>1, <2>6, <1>3
      <4>. QED BY <4>1, <3>1, <1>1
    <3>2. CASE new[g] = <<b>>
      BY <3>2, <2>5, <1>4 DEF b
    <3>. QED BY <3>1, <3>2, <2>3
  <2>7. ASSUME NEW k \in 1 .. n
        PROVE  \E g \in 1 .. m + 1 : \E i \in 1 .. Len(new[g]) : new[g][i] = bs[k]
    <3>1. CASE k = n
      <4>1. m + 1 \in 1 .. m + 1 /\ 1 \in 1 .. Len(new[m + 1]) /\ new[m + 1][1] = b
        BY <2>1, <1>4
      <4>. QED BY <4>1, <3>1 DEF b
    <3>2. CASE k \in 1 .. n - 1
      <4>1. PICK g \in 1 .. m : \E i \in 1 .. Len(gs[g]) : gs[g][i] = bs[k]
        BY <3>2, <1>3
      <4>. PICK i \in 1 .. Len(gs[g]) : gs[g][i] = bs[k]
        BY <4>1
      <4>2. g \in 1 .. m + 1 /\ new[g] = gs[g]
        BY <4>1, <2>1
      <4>. QED BY <4>1, <4>2
    <3>. QED BY <3>1, <3>2, <1>2
  <2>8. ASSUME NEW f \in 1 .. m + 1, NEW g \in 1 .. m + 1, f < g,
               NEW i \in 1 .. Len(new[f]), NEW j \in 1 .. Len(new[g])
        PROVE  new[f][i].last < new[g][j].first
    <3>1. f \in 1 .. m /\ new[f] = gs[f]
      <4>1. f \in 1 .. m
        BY <2>8, <2>1
      <4>. QED BY <4>1, <2>1
    <3>2. CASE g \in 1 .. m /\ new[g] = gs[g]
      <4>1. i \in 1 .. Len(gs[f]) /\ j \in 1 .. Len(gs[g])
        BY <3>1, <3>2
      <4>2. gs[f][i].last < gs[g][j].first
        BY <4>1, <3>1, <3>2, <2>8, <1>3
      <4>. QED BY <4>2, <3>1, <3>2
    <3>3. CASE new[g] = <<b>>
      <4>1. new[g][j] = b
        BY <3>3, <2>5
      <4>2. gs[f][i].last < b.first
        BY <3>1, <1>5
      <4>. QED BY <4>1, <4>2, <3>1
    <3>. QED BY <3>2, <3>3, <2>3
  <2>9. Grouped(new, bs, n)
    BY <2>1, <2>4, <2>6, <2>7, <2>8 DEF Grouped
  <2>. QED BY <2>2, <2>9 DEF b
<1>. QED BY <1>6, <1>7

\* _split_section_content groups all the blocks, in order.
LEMMA SplitGroups ==
  ASSUME NEW bs \in Seq(Block), Ordered(bs)
  PROVE  Grouped(SplitSection(bs), bs, Len(bs))
<1>. DEFINE N == Len(bs)
            Good == {n \in 0 .. N : Grouped(GroupsOf(bs)[1 .. n], bs, n)}
<1>1. N \in Nat /\ DOMAIN bs = 1 .. N
  OBVIOUS
<1>2. Grouped(<<>>, bs, 0)
  <2>1. <<>> \in Seq(Seq(Block)) /\ Len(<<>>) = 0 /\ 1 .. 0 = {}
    OBVIOUS
  <2>. QED BY <2>1 DEF Grouped
<1>3. 0 \in Good
  <2>1. 1 .. 0 = {} /\ {} \in SUBSET (1 .. Len(bs))
    OBVIOUS
  <2>2. GroupsOf(bs)[{}] = <<>>
    BY <2>1, GroupsOfIs
  <2>. QED BY <2>1, <2>2, <1>1, <1>2
<1>4. ASSUME NEW n \in 1 .. N, n - 1 \in Good PROVE n \in Good
  <2>. DEFINE s == 1 .. n
  <2>1. /\ n \in Nat /\ n \in s /\ s # {} /\ s \in SUBSET (1 .. Len(bs))
        /\ s \subseteq 0 .. N /\ \A y \in s : y <= n
    <3>1. n \in Nat /\ n <= N /\ 1 <= n
      BY <1>1
    <3>2. \A y \in s : y \in 1 .. N /\ y \in 0 .. N /\ y <= n
      BY <3>1, <1>1
    <3>3. n \in s
      BY <3>1
    <3>. HIDE DEF s
    <3>. QED BY <3>1, <3>2, <3>3
  <2>2. Max(s) = n
    <3>. HIDE DEF s
    <3>1. Max(s) \in s /\ n <= Max(s)
      BY <2>1, <1>1, GreatestMember
    <3>2. Max(s) \in 0 .. N /\ Max(s) <= n
      BY <3>1, <2>1
    <3>. QED BY <3>1, <3>2, <2>1, <1>1
  <2>3. s \ {n} = 1 .. n - 1
    BY <2>1
  <2>4. GroupsOf(bs)[s] = Add(GroupsOf(bs)[1 .. n - 1], bs[n])
    <3>. HIDE DEF s
    <3>. QED BY <2>1, <2>2, <2>3, GroupsOfIs
  <2>5. Grouped(Add(GroupsOf(bs)[1 .. n - 1], bs[n]), bs, n)
    BY <1>4, AddGroups
  <2>. QED BY <2>4, <2>5, <1>1
<1>5. Grouped(GroupsOf(bs)[1 .. N], bs, N)
  <2>. HIDE DEF Good
  <2>1. \A n \in 0 .. N : n \in Good
    BY <1>1, <1>3, <1>4, UpTo
  <2>2. N \in 0 .. N
    BY <1>1
  <2>. QED BY <2>1, <2>2 DEF Good
<1>6. Grouped(FoldLeft(Add, <<>>, bs), bs, N)
  BY <1>1, <1>5, FoldIsGroups
<1>7. CASE bs = <<>>
  BY <1>7, <1>2 DEF SplitSection
<1>8. CASE bs # <<>> /\ JoinedLength(bs) <= SoftMax
  <2>. DEFINE gs == <<bs>>
  <2>1. SplitSection(bs) = gs
    BY <1>8 DEF SplitSection
  <2>2. gs \in Seq(Seq(Block)) /\ Len(gs) = 1 /\ gs[1] = bs
    <3>. DEFINE T == Seq(Block)
    <3>1. bs \in T
      OBVIOUS
    <3>. HIDE DEF T
    <3>2. gs \in Seq(T)
      BY <3>1
    <3>. QED BY <3>2 DEF T
  <2>3. N > 0
    BY <1>8
  <2>. HIDE DEF gs
  <2>4. \A g \in 1 .. Len(gs) : g = 1
    BY <2>2
  <2>5. \A k \in 1 .. N : \E g \in 1 .. Len(gs) : \E i \in 1 .. Len(gs[g]) : gs[g][i] = bs[k]
    BY <2>2
  <2>6. \A f, g \in 1 .. Len(gs) : ~ (f < g)
    BY <2>4
  <2>7. Grouped(gs, bs, N)
    BY <2>2, <2>3, <2>4, <2>5, <2>6, <1>8 DEF Grouped
  <2>. QED BY <2>1, <2>7
<1>9. CASE bs # <<>> /\ ~ (JoinedLength(bs) <= SoftMax)
  BY <1>9, <1>6 DEF SplitSection
<1>. QED BY <1>7, <1>8, <1>9

----------------------------------------------------------------------------
(* normalize_manual_text *)

Texts == Seq(Kinds \cup {"spaces"})

\* A normalized text has only the kinds of lines the parser knows.
LEMMA NormalizedIs ==
  ASSUME NEW t \in Texts
  PROVE  /\ Normalized(t) \in Lines
         /\ Len(Normalized(t)) > 0 => Normalized(t)[Len(Normalized(t))] # "blank"
<1>. DEFINE lines == [i \in DOMAIN t |-> IF t[i] = "spaces" THEN "blank" ELSE t[i]]
            used == {i \in DOMAIN lines : lines[i] # "blank"}
            n == IF used = {} THEN 0 ELSE Max(used)
            out == SubSeq(lines, 1, n)
<1>1. Normalized(t) = out
  BY DEF Normalized
<1>2. DOMAIN t = 1 .. Len(t) /\ Len(t) \in Nat /\ \A i \in DOMAIN t : t[i] \in Kinds \cup {"spaces"}
  BY DEF Texts
<1>3. "blank" \in Kinds
  BY DEF Kinds
<1>4. \A i \in DOMAIN t : lines[i] \in Kinds
  BY <1>2, <1>3
<1>5. DOMAIN lines = DOMAIN t /\ used \subseteq 0 .. Len(t) /\ used \subseteq 1 .. Len(t)
  BY <1>2
<1>6. used # {} => Max(used) \in used
  <2>. HIDE DEF used
  <2>. QED BY <1>5, <1>2, GreatestMember
<1>7. n \in 0 .. Len(t) /\ (n > 0 => n \in used)
  <2>. HIDE DEF used
  <2>1. CASE used = {}
    BY <2>1, <1>2
  <2>2. CASE used # {}
    BY <2>2, <1>5, <1>6, <1>2
  <2>. QED BY <2>1, <2>2
<1>8. n > 0 => lines[n] # "blank"
  <2>. HIDE DEF n
  <2>. QED BY <1>7
<1>9. n \in Int /\ \A i \in 1 .. n : lines[i] \in Kinds
  <2>. HIDE DEF n, lines
  <2>. QED BY <1>2, <1>4, <1>7
<1>. HIDE DEF lines, n
<1>10. /\ out \in Seq(Kinds) /\ Len(out) = IF 1 <= n THEN n - 1 + 1 ELSE 0
       /\ \A i \in 1 .. n - 1 + 1 : out[i] = lines[1 + i - 1]
  BY <1>9, SubSeqProperties
<1>11. Len(out) = n /\ (n > 0 => out[n] = lines[n])
  <2>1. n \in Nat /\ Len(out) = n
    BY <1>7, <1>2, <1>10
  <2>2. n > 0 => n \in 1 .. n - 1 + 1 /\ 1 + n - 1 = n
    BY <2>1
  <2>3. n > 0 => out[n] = lines[1 + n - 1]
    BY <2>2, <1>10
  <2>. QED BY <2>1, <2>2, <2>3
<1>. QED BY <1>1, <1>8, <1>10, <1>11 DEF Lines

----------------------------------------------------------------------------
(* _parse_sections: the stack of headings *)

\* A stack: headings in order, each of a deeper level than the one before.
Stack(text, path, l) ==
  /\ path \in Seq(1 .. l)
  /\ \A i \in 1 .. Len(path) : text[path[i]] \in Headings
  /\ \A i, j \in 1 .. Len(path) : i < j => Level[text[path[i]]] < Level[text[path[j]]]

\* A heading closes those of its level and below, keeps the others, and joins
\* them.
LEMMA NestStacks ==
  ASSUME NEW text \in Lines, NEW h \in 1 .. Len(text), text[h] \in Headings,
         NEW path, Stack(text, path, h - 1)
  PROVE  /\ Stack(text, Nest(text, path, h), h)
         /\ \A g : g \in ToSet(Nest(text, path, h)) <=>
              g = h \/ (g \in ToSet(path) /\ Level[text[g]] < Level[text[h]])
<1>. DEFINE N == Len(path)
            kept == {n \in 0 .. N : n > 0 => Level[text[path[n]]] < Level[text[h]]}
            m == Max(kept)
            front == SubSeq(path, 1, m)
            new == Append(front, h)
            L(g) == Level[text[g]]
<1>1. /\ path \in Seq(1 .. h - 1) /\ N \in Nat /\ h \in Nat /\ h > 0
      /\ DOMAIN path = 1 .. N
      /\ \A i \in 1 .. N : path[i] \in 1 .. h - 1 /\ text[path[i]] \in Headings /\ L(path[i]) \in Nat
      /\ \A i, j \in 1 .. N : i < j => L(path[i]) < L(path[j])
      /\ L(h) \in Nat
  <2>1. path \in Seq(1 .. h - 1) /\ h \in Nat /\ h > 0
    BY DEF Stack
  <2>2. /\ N \in Nat /\ DOMAIN path = 1 .. N
        /\ \A i \in 1 .. N : path[i] \in 1 .. h - 1
    BY <2>1
  <2>3. \A i \in 1 .. N : text[path[i]] \in Headings
    BY DEF Stack
  <2>4. \A i, j \in 1 .. N : i < j => L(path[i]) < L(path[j])
    BY DEF Stack
  <2>5. L(h) \in Nat /\ \A i \in 1 .. N : L(path[i]) \in Nat
    BY <2>3, KindsAre, Zenon
  <2>. QED BY <2>1, <2>2, <2>3, <2>4, <2>5
<1>2. 0 \in kept /\ kept \subseteq 0 .. N
  BY <1>1
<1>3. m \in kept /\ \A n \in kept : n <= m
  <2>. HIDE DEF kept
  <2>. QED BY <1>1, <1>2, GreatestMember
<1>4. m \in 0 .. N /\ (m > 0 => L(path[m]) < L(h)) /\ m \in Nat
  <2>. HIDE DEF m
  <2>. QED BY <1>3, <1>1
<1>5. \A n \in 1 .. N : n > m => ~ (L(path[n]) < L(h))
  <2>. SUFFICES ASSUME NEW n \in 1 .. N, n > m, L(path[n]) < L(h) PROVE FALSE
    OBVIOUS
  <2>1. n \in kept
    BY <1>1
  <2>. HIDE DEF kept, m
  <2>. QED BY <2>1, <1>3, <1>4, <1>1
<1>6. \A n \in 1 .. m : n \in 1 .. N /\ L(path[n]) < L(h)
  <2>. SUFFICES ASSUME NEW n \in 1 .. m PROVE n \in 1 .. N /\ L(path[n]) < L(h)
    OBVIOUS
  <2>. HIDE DEF m
  <2>1. n \in 1 .. N /\ m \in 1 .. N /\ m > 0 /\ n <= m
    BY <1>4, <1>1
  <2>2. n < m => L(path[n]) < L(path[m])
    BY <2>1, <1>1
  <2>3. /\ L(path[n]) \in Nat /\ L(path[m]) \in Nat /\ L(h) \in Nat
        /\ n \in Nat /\ m \in Nat
    BY <2>1, <1>1
  <2>4. L(path[m]) < L(h)
    BY <2>1, <1>4
  <2>5. n = m \/ n < m
    BY <2>1, <2>3
  <2>. HIDE DEF L
  <2>6. CASE n = m
    BY <2>1, <2>4, <2>6
  <2>7. CASE n < m
    BY <2>1, <2>2, <2>3, <2>4, <2>7
  <2>. QED BY <2>5, <2>6, <2>7
<1>7. Nest(text, path, h) = new
  BY DEF Nest
<1>. HIDE DEF m, kept
<1>8. front \in Seq(1 .. h) /\ Len(front) = m /\ \A i \in 1 .. m : front[i] = path[i]
  <2>1. \A i \in 1 .. m : path[i] \in 1 .. h
    BY <1>1, <1>6
  <2>2. /\ front \in Seq(1 .. h) /\ Len(front) = IF 1 <= m THEN m - 1 + 1 ELSE 0
        /\ \A i \in 1 .. m - 1 + 1 : front[i] = path[1 + i - 1]
    BY <2>1, <1>4, SubSeqProperties
  <2>3. Len(front) = m
    BY <2>2, <1>4
  <2>4. ASSUME NEW i \in 1 .. m PROVE front[i] = path[i]
    <3>1. i \in 1 .. m - 1 + 1 /\ 1 + i - 1 = i
      BY <1>4
    <3>. QED BY <3>1, <2>2
  <2>. QED BY <2>2, <2>3, <2>4
<1>. HIDE DEF front
<1>9. /\ new \in Seq(1 .. h) /\ Len(new) = m + 1 /\ DOMAIN new = 1 .. m + 1
      /\ \A i \in 1 .. m : new[i] = path[i]
      /\ new[m + 1] = h
  <2>1. h \in 1 .. h
    BY <1>1
  <2>. QED BY <2>1, <1>8, SequenceFacts
<1>. HIDE DEF new
<1>10. ASSUME NEW i \in 1 .. m + 1
       PROVE  \/ i \in 1 .. m /\ i \in 1 .. N /\ new[i] = path[i] /\ L(path[i]) < L(h)
              \/ i = m + 1 /\ new[i] = h
  <2>1. i \in 1 .. m \/ i = m + 1
    BY <1>4
  <2>. QED BY <2>1, <1>6, <1>9
<1>11. ASSUME NEW i \in 1 .. m + 1, NEW j \in 1 .. m + 1, i < j PROVE L(new[i]) < L(new[j])
  <2>1. i \in 1 .. m
    BY <1>11, <1>4
  <2>2. i \in 1 .. N /\ new[i] = path[i] /\ L(path[i]) < L(h)
    BY <2>1, <1>6, <1>9
  <2>3. CASE j \in 1 .. N /\ new[j] = path[j]
    BY <2>2, <2>3, <1>1, <1>11
  <2>4. CASE new[j] = h
    BY <2>2, <2>4
  <2>. QED BY <2>3, <2>4, <1>10
<1>12. \A i \in 1 .. m + 1 : text[new[i]] \in Headings
  BY <1>10, <1>1
<1>13. Stack(text, new, h)
  BY <1>9, <1>11, <1>12 DEF Stack
<1>14. ASSUME NEW g
       PROVE  g \in ToSet(new) <=> g = h \/ (g \in ToSet(path) /\ L(g) < L(h))
  <2>1. ASSUME g \in ToSet(new) PROVE g = h \/ (g \in ToSet(path) /\ L(g) < L(h))
    <3>1. PICK i \in 1 .. m + 1 : g = new[i]
      BY <2>1, <1>9 DEF ToSet
    <3>. QED BY <3>1, <1>10, <1>1 DEF ToSet
  <2>2. ASSUME g = h PROVE g \in ToSet(new)
    <3>1. m + 1 \in 1 .. m + 1
      BY <1>4
    <3>. QED BY <3>1, <2>2, <1>9 DEF ToSet
  <2>3. ASSUME g \in ToSet(path), L(g) < L(h) PROVE g \in ToSet(new)
    <3>1. PICK i \in 1 .. N : g = path[i]
      BY <2>3, <1>1 DEF ToSet
    <3>2. i \in 1 .. m /\ i \in 1 .. m + 1
      BY <3>1, <2>3, <1>5, <1>4, <1>1
    <3>. QED BY <3>1, <3>2, <1>9 DEF ToSet
  <2>. QED BY <2>1, <2>2, <2>3
<1>. QED BY <1>7, <1>13, <1>14

LEMMA NestTyped ==
  ASSUME NEW text, NEW h \in Nat, NEW path \in Seq(Nat)
  PROVE  Nest(text, path, h) \in Seq(Nat)
<1>. DEFINE kept == {n \in 0 .. Len(path) : n > 0 => Level[text[path[n]]] < Level[text[h]]}
            m == Max(kept)
            front == SubSeq(path, 1, m)
<1>1. 0 \in kept /\ kept \subseteq 0 .. Len(path) /\ Len(path) \in Nat
  OBVIOUS
<1>2. m \in 0 .. Len(path)
  <2>. HIDE DEF kept
  <2>. QED BY <1>1, GreatestMember
<1>3. Nest(text, path, h) = Append(front, h)
  BY DEF Nest
<1>. HIDE DEF m
<1>4. m \in Int /\ \A i \in 1 .. m : path[i] \in Nat
  BY <1>1, <1>2
<1>5. front \in Seq(Nat)
  BY <1>4, SubSeqProperties
<1>. QED BY <1>3, <1>5

\* The equations of Paths.
LEMMA PathsAre ==
  ASSUME NEW text \in Lines
  PROVE  \A l \in 0 .. Len(text) :
           Paths(text)[l] = IF l = 0 THEN <<>>
                            ELSE IF text[l] \in Headings THEN Nest(text, Paths(text)[l - 1], l)
                            ELSE Paths(text)[l - 1]
<1>. DEFINE N == Len(text)
            D == 0 .. N
            T == Seq(Nat)
            Value(l, g) == IF l = 0 THEN <<>>
                           ELSE IF text[l] \in Headings THEN Nest(text, g[l - 1], l)
                           ELSE g[l - 1]
            F == [p \in D \X [D -> T] |-> Value(p[1], p[2])]
            size == [l \in D |-> l]
<1>1. N \in Nat
  BY DEF Lines
<1>. HIDE DEF N
<1>2. ASSUME NEW l \in D, l # 0 PROVE l - 1 \in D /\ l \in Nat
  BY <1>1, <1>2
<1>3. ASSUME NEW l \in D, NEW g \in [D -> T] PROVE F[<<l, g>>] = Value(l, g)
  <2>. HIDE DEF D, T, Value
  <2>1. <<l, g>> \in D \X [D -> T]
    OBVIOUS
  <2>. QED BY <2>1
<1>4. ASSUME NEW l \in D, NEW g \in [D -> T] PROVE Value(l, g) \in T
  <2>1. CASE l = 0
    BY <2>1
  <2>2. CASE l # 0
    <3>1. l - 1 \in D /\ l \in Nat
      BY <2>2, <1>2
    <3>2. g[l - 1] \in T
      <4>. HIDE DEF D, T
      <4>. QED BY <3>1
    <3>. QED BY <2>2, <3>1, <3>2, NestTyped
  <2>. QED BY <2>1, <2>2
<1>5. F \in [D \X [D -> T] -> T]
  <2>. HIDE DEF F, Value, D, T
  <2>1. ASSUME NEW p \in D \X [D -> T] PROVE F[p] \in T
    <3>1. PICK l \in D, g \in [D -> T] : p = <<l, g>>
      OBVIOUS
    <3>. QED BY <3>1, <1>3, <1>4
  <2>2. F = [p \in D \X [D -> T] |-> Value(p[1], p[2])]
    BY DEF F
  <2>. QED BY <2>1, <2>2
<1>6. ASSUME NEW x \in D, NEW g \in [D -> T], NEW h \in [D -> T],
             \A y \in D : size[y] < size[x] => g[y] = h[y]
      PROVE  F[<<x, g>>] = F[<<x, h>>]
  <2>1. x # 0 => size[x - 1] < size[x]
    BY <1>2
  <2>2. x # 0 => g[x - 1] = h[x - 1]
    <3>. HIDE DEF size, D, T
    <3>. QED BY <1>2, <1>6, <2>1
  <2>3. Value(x, g) = Value(x, h)
    BY <2>2
  <2>. HIDE DEF Value, F, D, T
  <2>. QED BY <2>3, <1>3
<1>7. size \in [D -> 0 .. N] /\ <<>> \in T
  OBVIOUS
<1>8. Recursive(D, T, N, size, F)
  <2>. HIDE DEF F, size, T, D
  <2>1. T # {}
    BY <1>7
  <2>2. \A x \in D : \A g, h \in [D -> T] :
          (\A y \in D : size[y] < size[x] => g[y] = h[y]) => F[<<x, g>>] = F[<<x, h>>]
    BY <1>6
  <2>. QED BY <1>1, <1>5, <2>2, <1>7, <2>1 DEF Recursive
<1>9. PICK f \in [D -> T] : f = [x \in D |-> F[<<x, f>>]]
  <2>. HIDE DEF F, size, T, D
  <2>. QED BY <1>8, Recursion
<1>10. f = [x \in D |-> Value(x, f)]
  <2>. HIDE DEF Value, F, D, T
  <2>. QED BY <1>9, <1>3
<1>11. Paths(text) = [x \in D |-> Value(x, Paths(text))]
  <2>. HIDE DEF T
  <2>. QED BY <1>10 DEF Paths, N
<1>. QED BY <1>11 DEF N

\* The stack after line l holds the headings above it.
LEMMA PathsAreAbove ==
  ASSUME NEW text \in Lines, NEW l \in 0 .. Len(text)
  PROVE  Stack(text, Paths(text)[l], l) /\ ToSet(Paths(text)[l]) = Above(text, l)
<1>. DEFINE N == Len(text)
            P(n) == Stack(text, Paths(text)[n], n) /\ ToSet(Paths(text)[n]) = Above(text, n)
            Good == {n \in 0 .. N : P(n)}
<1>1. N \in Nat
  BY DEF Lines
<1>2. 0 \in Good
  <2>1. Paths(text)[0] = <<>>
    BY <1>1, PathsAre
  <2>2. 1 .. 0 = {} /\ <<>> \in Seq(1 .. 0) /\ Len(<<>>) = 0 /\ DOMAIN <<>> = {}
    OBVIOUS
  <2>3. Above(text, 0) = {} /\ ToSet(<<>>) = {}
    BY <2>2 DEF Above, ToSet
  <2>4. Stack(text, <<>>, 0)
    BY <2>2 DEF Stack
  <2>5. P(0) /\ 0 \in 0 .. N
    BY <2>1, <2>3, <2>4, <1>1
  <2>. QED BY <2>5
<1>3. ASSUME NEW n \in 1 .. N, n - 1 \in Good PROVE n \in Good
  <2>. DEFINE p == Paths(text)[n - 1]
              q == Paths(text)[n]
  <2>0. n \in Nat /\ n > 0 /\ n - 1 \in Nat
    OBVIOUS
  <2>1. Stack(text, p, n - 1) /\ ToSet(p) = Above(text, n - 1)
    BY <1>3
  <2>2. q = IF text[n] \in Headings THEN Nest(text, p, n) ELSE p
    BY PathsAre, <2>0
  <2>. HIDE DEF p, q
  <2>3. CASE text[n] \in Headings
    <3>1. Stack(text, q, n)
      BY <2>1, <2>2, <2>3, NestStacks
    <3>2. ASSUME NEW g
          PROVE  g \in ToSet(q) <=> g = n \/ (g \in Above(text, n - 1) /\ Level[text[g]] < Level[text[n]])
      BY <2>1, <2>2, <2>3, NestStacks
    <3>3. ASSUME NEW g
          PROVE  g \in Above(text, n) <=> g = n \/ (g \in Above(text, n - 1) /\ Level[text[g]] < Level[text[n]])
      <4>. DEFINE Closed(k, m) == \E h \in k + 1 .. m : text[h] \in Headings /\ ~ (Level[text[h]] > Level[text[k]])
      <4>1. ASSUME NEW m \in Nat
            PROVE  g \in Above(text, m) <=> g \in 1 .. m /\ text[g] \in Headings /\ ~ Closed(g, m)
        BY DEF Above
      <4>2. CASE g = n
        <5>1. n + 1 .. n = {} /\ n \in 1 .. n
          BY <2>0
        <5>. QED BY <5>1, <4>1, <4>2, <2>0, <2>3
      <4>3. CASE g # n /\ g \notin 1 .. n - 1
        <5>1. g \notin 1 .. n
          BY <4>3, <2>0
        <5>. QED BY <5>1, <4>1, <4>3, <2>0
      <4>4. CASE g \in 1 .. n - 1
        <5>1. g \in 1 .. n /\ g # n
          BY <4>4, <2>0
        <5>2. \A h : h \in g + 1 .. n <=> h \in g + 1 .. n - 1 \/ h = n
          BY <4>4, <2>0
        <5>3. text[g] \in Headings => Level[text[g]] \in Nat /\ Level[text[n]] \in Nat
          BY <2>3, KindsAre
        <5>4. text[g] \in Headings =>
                ((Level[text[n]] > Level[text[g]]) <=> (Level[text[g]] < Level[text[n]]))
          BY <5>3
        <5>5. text[g] \in Headings =>
                (Closed(g, n) <=> Closed(g, n - 1) \/ ~ (Level[text[n]] > Level[text[g]]))
          BY <5>2, <2>3, Zenon
        <5>. HIDE DEF Closed
        <5>. QED BY <4>4, <5>1, <5>4, <5>5, <4>1, <2>0
      <4>. QED BY <4>2, <4>3, <4>4
    <3>4. ToSet(q) = Above(text, n)
      BY <3>2, <3>3
    <3>. QED BY <3>1, <3>4, <2>0 DEF q
  <2>4. CASE text[n] \notin Headings
    <3>1. p = q
      BY <2>2, <2>4
    <3>2. Stack(text, p, n)
      <4>1. Seq(1 .. n - 1) \subseteq Seq(1 .. n)
        <5>1. 1 .. n - 1 \subseteq 1 .. n
          BY <2>0
        <5>. QED BY <5>1
      <4>. QED BY <4>1, <2>1 DEF Stack
    <3>3. Above(text, n) = Above(text, n - 1)
      <4>1. ASSUME NEW g, text[g] \in Headings PROVE g \in 1 .. n <=> g \in 1 .. n - 1
        BY <4>1, <2>4, <2>0
      <4>2. ASSUME NEW g \in 1 .. n - 1, NEW h, text[h] \in Headings
            PROVE  h \in g + 1 .. n <=> h \in g + 1 .. n - 1
        BY <4>2, <2>4, <2>0
      <4>. QED BY <4>1, <4>2 DEF Above
    <3>. QED BY <3>1, <3>2, <3>3, <2>1, <2>0 DEF q
  <2>. QED BY <2>3, <2>4
<1>. HIDE DEF Good
<1>4. \A n \in 0 .. N : n \in Good
  BY <1>1, <1>2, <1>3, UpTo
<1>. QED BY <1>4 DEF Good

----------------------------------------------------------------------------
(* Where blocks end *)

\* A fenced block ends with the first line that closes it, or nothing but
\* blank lines follows it.
LEMMA FencedBlockEnd ==
  ASSUME NEW text \in Lines, NEW last \in 0 .. Len(text), NEW f \in 1 .. last,
         text[f] \in Fences
  PROVE  LET e == BlockEnd(text, f, last)
         IN  /\ e \in f .. last
             /\ \A c \in f + 1 .. e - 1 : ~ Closes(text[f], text[c])
             /\ \/ e > f /\ Closes(text[f], text[e])
                \/ /\ \A c \in f + 1 .. last : ~ Closes(text[f], text[c])
                   /\ \A l \in e + 1 .. last : text[l] = "blank"
<1>. DEFINE e == BlockEnd(text, f, last)
            closes == {l \in f + 1 .. last : Closes(text[f], text[l])}
            used == {l \in f .. last : text[l] # "blank"}
<1>1. last \in Nat /\ f \in Nat /\ f > 0 /\ f <= last /\ text[f] # "blank"
  BY JoinsAre
<1>2. e = IF closes # {} THEN Min(closes) ELSE Max(used)
  BY DEF BlockEnd
<1>3. e \in f .. last
  BY <1>1, BlockEndIn
<1>4. CASE closes # {}
  <2>1. closes \subseteq Nat
    BY <1>1
  <2>. HIDE DEF closes
  <2>2. e \in closes /\ \A y \in closes : e <= y
    BY <2>1, <1>2, <1>4, LeastMember
  <2>. HIDE DEF e
  <2>3. e > f /\ Closes(text[f], text[e])
    BY <2>2, <1>1 DEF closes
  <2>4. ASSUME NEW c \in f + 1 .. e - 1 PROVE ~ Closes(text[f], text[c])
    <3>1. c \in f + 1 .. last /\ ~ (e <= c)
      BY <1>1, <1>3
    <3>2. c \notin closes
      BY <3>1, <2>2
    <3>. QED BY <3>1, <3>2 DEF closes
  <2>. QED BY <2>3, <2>4, <1>3 DEF e
<1>5. CASE closes = {}
  <2>1. \A c \in f + 1 .. last : ~ Closes(text[f], text[c])
    BY <1>5
  <2>2. used \subseteq 0 .. last /\ f \in used
    BY <1>1
  <2>. HIDE DEF used
  <2>3. \A y \in used : y <= e
    BY <2>2, <1>1, <1>2, <1>5, GreatestMember
  <2>. HIDE DEF e, closes
  <2>4. ASSUME NEW l \in e + 1 .. last PROVE text[l] = "blank"
    <3>1. l \in f .. last /\ ~ (l <= e)
      BY <1>1, <1>3
    <3>2. l \notin used
      BY <3>1, <2>3
    <3>. QED BY <3>1, <3>2 DEF used
  <2>5. \A c \in f + 1 .. e - 1 : c \in f + 1 .. last
    BY <1>1, <1>3
  <2>. QED BY <2>1, <2>4, <2>5, <1>3 DEF e
<1>. QED BY <1>4, <1>5

\* Any other block has lines that go on with it, between them blank ones, and
\* the next line does not.
LEMMA PlainBlockEnd ==
  ASSUME NEW text \in Lines, NEW last \in 0 .. Len(text), NEW f \in 1 .. last,
         text[f] \in DOMAIN Joins
  PROVE  LET e == BlockEnd(text, f, last)
         IN  /\ e \in f .. last
             /\ \A l \in f + 1 .. e : text[l] \in Joins[text[f]] \/ text[l] = "blank"
             /\ e < last => text[e + 1] \notin Joins[text[f]]
<1>. DEFINE e == BlockEnd(text, f, last)
            GoesOn(l) == \/ text[l] \in Joins[text[f]]
                         \/ /\ text[l] = "blank" /\ text[f] \in Quotes \cup {"list"}
                            /\ l < last /\ text[l + 1] \in Joins[text[f]]
            ends == {j \in f .. last : \A l \in f + 1 .. j : GoesOn(l)}
<1>1. last \in Nat /\ f \in Nat /\ f > 0 /\ f <= last /\ text[f] # "blank" /\ text[f] \notin Fences
  BY JoinsAre
<1>2. e = Max(ends)
  BY <1>1 DEF BlockEnd
<1>3. e \in f .. last
  BY <1>1, BlockEndIn
<1>4. f + 1 .. f = {}
  BY <1>1
<1>5. f \in ends /\ ends \subseteq 0 .. last
  BY <1>1, <1>4
<1>6. e \in ends /\ \A y \in ends : y <= e
  <2>. HIDE DEF ends
  <2>. QED BY <1>1, <1>2, <1>5, GreatestMember
<1>. HIDE DEF e
<1>7. \A l \in f + 1 .. e : GoesOn(l)
  BY <1>6
<1>8. ASSUME e < last PROVE ~ GoesOn(e + 1)
  <2>. SUFFICES ASSUME GoesOn(e + 1) PROVE FALSE
    OBVIOUS
  <2>1. \A l \in f + 1 .. e + 1 : l \in f + 1 .. e \/ l = e + 1
    BY <1>1, <1>3
  <2>. HIDE DEF GoesOn
  <2>2. \A l \in f + 1 .. e + 1 : GoesOn(l)
    BY <2>1, <1>7
  <2>3. e + 1 \in f .. last
    BY <1>1, <1>3, <1>8
  <2>4. e + 1 \in ends
    BY <2>2, <2>3
  <2>5. ~ (e + 1 <= e)
    BY <1>1, <1>3
  <2>. HIDE DEF ends
  <2>. QED BY <2>4, <2>5, <1>6
<1>. QED BY <1>3, <1>7, <1>8 DEF e

----------------------------------------------------------------------------
(* Open fences *)

\* The equations of OpenFence.
LEMMA OpenFenceIs ==
  ASSUME NEW text \in Lines
  PROVE  LET open == OpenFence(text)
         IN  \A l \in 0 .. Len(text) :
               /\ open[l] \in Nat
               /\ open[l] = IF l = 0 THEN 0
                            ELSE IF open[l - 1] = 0 THEN IF text[l] \in Fences THEN l ELSE 0
                            ELSE IF Closes(text[open[l - 1]], text[l]) THEN 0 ELSE open[l - 1]
<1>. DEFINE N == Len(text)
            D == 0 .. N
            open == OpenFence(text)
            Value(l, g) == IF l = 0 THEN 0
                           ELSE IF g[l - 1] = 0 THEN IF text[l] \in Fences THEN l ELSE 0
                           ELSE IF Closes(text[g[l - 1]], text[l]) THEN 0 ELSE g[l - 1]
            F == [p \in D \X [D -> Nat] |-> Value(p[1], p[2])]
            size == [l \in D |-> l]
<1>1. N \in Nat
  BY DEF Lines
<1>. HIDE DEF N
<1>2. ASSUME NEW l \in D, l # 0 PROVE l - 1 \in D /\ l \in Nat
  BY <1>1, <1>2
<1>3. ASSUME NEW l \in D, NEW g \in [D -> Nat] PROVE F[<<l, g>>] = Value(l, g)
  <2>. HIDE DEF D, Value
  <2>1. <<l, g>> \in D \X [D -> Nat]
    OBVIOUS
  <2>. QED BY <2>1
<1>4. ASSUME NEW l \in D, NEW g \in [D -> Nat] PROVE Value(l, g) \in Nat
  <2>1. CASE l = 0
    BY <2>1
  <2>2. CASE l # 0
    <3>1. l - 1 \in D /\ l \in Nat
      BY <2>2, <1>2
    <3>2. g[l - 1] \in Nat
      <4>. HIDE DEF D
      <4>. QED BY <3>1
    <3>. QED BY <2>2, <3>1, <3>2
  <2>. QED BY <2>1, <2>2
<1>5. F \in [D \X [D -> Nat] -> Nat]
  <2>. HIDE DEF F, Value, D
  <2>1. ASSUME NEW p \in D \X [D -> Nat] PROVE F[p] \in Nat
    <3>1. PICK l \in D, g \in [D -> Nat] : p = <<l, g>>
      OBVIOUS
    <3>. QED BY <3>1, <1>3, <1>4
  <2>2. F = [p \in D \X [D -> Nat] |-> Value(p[1], p[2])]
    BY DEF F
  <2>. QED BY <2>1, <2>2
<1>6. ASSUME NEW x \in D, NEW g \in [D -> Nat], NEW h \in [D -> Nat],
             \A y \in D : size[y] < size[x] => g[y] = h[y]
      PROVE  F[<<x, g>>] = F[<<x, h>>]
  <2>1. x # 0 => size[x - 1] < size[x]
    BY <1>2
  <2>2. x # 0 => g[x - 1] = h[x - 1]
    <3>. HIDE DEF size, D
    <3>. QED BY <1>2, <1>6, <2>1
  <2>3. Value(x, g) = Value(x, h)
    BY <2>2
  <2>. HIDE DEF Value, F, D
  <2>. QED BY <2>3, <1>3
<1>7. size \in [D -> 0 .. N] /\ Nat # {}
  OBVIOUS
<1>8. Recursive(D, Nat, N, size, F)
  <2>. HIDE DEF F, size, D
  <2>2. \A x \in D : \A g, h \in [D -> Nat] :
          (\A y \in D : size[y] < size[x] => g[y] = h[y]) => F[<<x, g>>] = F[<<x, h>>]
    BY <1>6
  <2>. QED BY <1>1, <1>5, <2>2, <1>7 DEF Recursive
<1>9. PICK f \in [D -> Nat] : f = [x \in D |-> F[<<x, f>>]]
  <2>. HIDE DEF F, size, D
  <2>. QED BY <1>8, Recursion
<1>10. f = [x \in D |-> Value(x, f)]
  <2>. HIDE DEF Value, F, D
  <2>. QED BY <1>9, <1>3
<1>11. open = [x \in D |-> Value(x, open)]
  BY <1>10 DEF OpenFence, N
<1>. HIDE DEF open
<1>12. \A l \in D : open[l] = Value(l, open)
  <2>. HIDE DEF Value
  <2>. QED BY <1>11
<1>. DEFINE Good == {n \in 0 .. N : open[n] \in Nat}
<1>13. 0 \in Good
  BY <1>12, <1>1
<1>14. ASSUME NEW n \in 1 .. N, n - 1 \in Good PROVE n \in Good
  <2>1. n \in D /\ n # 0 /\ n \in Nat /\ open[n - 1] \in Nat
    BY <1>14
  <2>2. open[n] \in Nat
    BY <2>1, <1>12
  <2>. QED BY <2>2
<1>15. \A n \in 0 .. N : n \in Good
  <2>. HIDE DEF Good
  <2>. QED BY <1>1, <1>13, <1>14, UpTo
<1>. QED BY <1>12, <1>15 DEF N, open

\* The blocks of lines without headings, before which no fence is open.
Piece(text, bs, first, last) ==
  /\ text \in Lines /\ last \in 0 .. Len(text) /\ first \in 1 .. last + 1
  /\ \A l \in first .. last : text[l] \notin Headings
  /\ OpenFence(text)[first - 1] = 0
  /\ Tokenized(text, bs, first, last)

\* Line l comes after the fence that block b starts with, and before its end.
Inside(text, b, l) ==
  /\ text[b.first] \in Fences /\ b.first <= l
  /\ \A c \in b.first + 1 .. l : ~ Closes(text[b.first], text[c])

\* Where a block stands, and how it begins.
LEMMA BlockKinds ==
  ASSUME NEW text, NEW bs, NEW first, NEW last, Piece(text, bs, first, last),
         NEW k \in 1 .. Len(bs)
  PROVE  /\ bs[k].first \in Nat /\ bs[k].last \in Nat
         /\ bs[k].first \in first .. last /\ bs[k].first \in 1 .. last
         /\ bs[k].last \in bs[k].first .. last
         /\ bs[k].last = BlockEnd(text, bs[k].first, last)
         /\ text[bs[k].first] \in Fences \cup DOMAIN Joins
<1>. DEFINE b == bs[k]
<1>1. /\ first \in Nat /\ first > 0 /\ last \in Nat /\ text \in Lines /\ Len(text) \in Nat
      /\ last <= Len(text)
  BY DEF Piece, Lines
<1>2. /\ b \in Block
      /\ first <= b.first /\ b.first <= b.last /\ b.last <= last
      /\ text[b.first] # "blank"
      /\ b.last = BlockEnd(text, b.first, last)
  BY DEF Piece, Tokenized
<1>. HIDE DEF b
<1>3. b.first \in Nat /\ b.last \in Nat
  BY <1>2 DEF Block
<1>4. b.first \in first .. last /\ b.first \in 1 .. last /\ b.last \in b.first .. last
  BY <1>1, <1>2, <1>3
<1>5. b.first \in 1 .. Len(text)
  BY <1>1, <1>4
<1>6. text[b.first] \in Kinds
  BY <1>1, <1>5 DEF Lines
<1>7. text[b.first] \notin Headings
  BY <1>4 DEF Piece
<1>. QED BY <1>2, <1>3, <1>4, <1>6, <1>7 DEF b, Kinds

\* Up to line l the open fence is that of the block that l is inside of.
Agree(text, bs, l) ==
  LET open == OpenFence(text)
  IN  /\ \A k \in 1 .. Len(bs) : Inside(text, bs[k], l) => open[l] = bs[k].first
      /\ open[l] # 0 => \E k \in 1 .. Len(bs) : Inside(text, bs[k], l)

\* From one line to the next, the parser and OpenFence go on agreeing.
LEMMA AgreeStep ==
  ASSUME NEW text, NEW bs, NEW first, NEW last, Piece(text, bs, first, last),
         NEW l \in first .. last, Agree(text, bs, l - 1)
  PROVE  Agree(text, bs, l)
<1>. DEFINE open == OpenFence(text)
            A(k) == bs[k].first
            Z(k) == bs[k].last
            In(k, n) == Inside(text, bs[k], n)
            K == 1 .. Len(bs)
<1>1. /\ first \in Nat /\ first > 0 /\ last \in Nat /\ text \in Lines /\ l \in Nat /\ l > 0
      /\ Len(text) \in Nat /\ last <= Len(text) /\ l \in 1 .. last /\ l <= last
  BY DEF Piece, Lines
<1>2. open[l] = IF open[l - 1] = 0 THEN IF text[l] \in Fences THEN l ELSE 0
                ELSE IF Closes(text[open[l - 1]], text[l]) THEN 0 ELSE open[l - 1]
  <2>1. l \in 0 .. Len(text) /\ l # 0
    BY <1>1
  <2>. QED BY <2>1, <1>1, OpenFenceIs
<1>3. ASSUME NEW k \in K
      PROVE  /\ A(k) \in Nat /\ A(k) > 0 /\ Z(k) \in Nat /\ A(k) \in 1 .. last
             /\ A(k) <= Z(k) /\ Z(k) <= last /\ Z(k) = BlockEnd(text, A(k), last)
             /\ text[A(k)] \in Fences \cup DOMAIN Joins
  <2>1. /\ A(k) \in Nat /\ Z(k) \in Nat /\ A(k) \in 1 .. last /\ Z(k) \in A(k) .. last
        /\ Z(k) = BlockEnd(text, A(k), last) /\ text[A(k)] \in Fences \cup DOMAIN Joins
    BY BlockKinds
  <2>. QED BY <2>1, <1>1
<1>4. \A j, k \in K : j < k => Z(j) < A(k)
  BY DEF Piece, Tokenized
<1>5. K \subseteq Nat
  OBVIOUS
<1>6. text[l] # "blank" => \E k \in K : A(k) <= l /\ l <= Z(k)
  BY DEF Piece, Tokenized
<1>7. /\ \A k \in K : In(k, l - 1) => open[l - 1] = A(k)
      /\ open[l - 1] # 0 => \E k \in K : In(k, l - 1)
  BY DEF Agree
<1>8. \A k \in K : In(k, l) <=> \/ In(k, l - 1) /\ ~ Closes(text[A(k)], text[l])
                                \/ A(k) = l /\ text[l] \in Fences
  <2>. SUFFICES ASSUME NEW k \in K
                PROVE  In(k, l) <=> \/ In(k, l - 1) /\ ~ Closes(text[A(k)], text[l])
                                    \/ A(k) = l /\ text[l] \in Fences
    OBVIOUS
  <2>1. A(k) \in Nat
    BY <1>3
  <2>2. CASE A(k) = l
    <3>1. l + 1 .. l = {} /\ ~ (l <= l - 1)
      BY <1>1
    <3>. QED BY <2>2, <3>1, <1>1 DEF Inside
  <2>3. CASE A(k) > l
    BY <2>1, <2>3, <1>1 DEF Inside
  <2>4. CASE A(k) < l
    <3>1. A(k) <= l /\ A(k) <= l - 1 /\ A(k) # l
      BY <2>1, <2>4, <1>1
    <3>2. \A c : c \in A(k) + 1 .. l <=> c \in A(k) + 1 .. l - 1 \/ c = l
      BY <2>1, <2>4, <1>1
    <3>. QED BY <3>1, <3>2, Zenon DEF Inside
  <2>. QED BY <2>1, <2>2, <2>3, <2>4, <1>1
\* Two blocks do not share a line.
<1>9. ASSUME NEW j \in K, NEW k \in K, A(j) <= l, l <= Z(j), A(k) <= l, l <= Z(k)
      PROVE  j = k
  <2>1. ~ (j < k) /\ ~ (k < j)
    BY <1>3, <1>4, <1>9, <1>1
  <2>. QED BY <2>1, <1>5
<1>. HIDE DEF open, In, A, Z, K
<1>10. CASE open[l - 1] = 0
  <2>1. \A k \in K : ~ In(k, l - 1)
    BY <1>3, <1>7, <1>10
  <2>2. CASE text[l] \in Fences
    <3>1. open[l] = l /\ text[l] # "blank"
      BY <1>2, <1>10, <2>2, JoinsAre
    <3>2. PICK k \in K : A(k) <= l /\ l <= Z(k)
      BY <3>1, <1>6
    <3>3. A(k) = l
      <4>. SUFFICES ASSUME A(k) # l PROVE FALSE
        OBVIOUS
      <4>1. A(k) < l /\ A(k) \in Nat /\ l \in A(k) + 1 .. Z(k)
        BY <3>2, <1>3, <1>1
      <4>2. CASE text[A(k)] \in Fences
        <5>1. \A c \in A(k) + 1 .. Z(k) - 1 : ~ Closes(text[A(k)], text[c])
          <6>1. last \in 0 .. Len(text) /\ text \in Lines
            BY <1>1
          <6>. QED BY <6>1, <4>2, <1>3, FencedBlockEnd
        <5>2. \A c \in A(k) + 1 .. l - 1 : c \in A(k) + 1 .. Z(k) - 1
          BY <3>2, <1>3, <1>1
        <5>3. A(k) <= l - 1
          BY <4>1, <1>1
        <5>4. In(k, l - 1)
          BY <5>1, <5>2, <5>3, <4>2 DEF Inside, In, A, Z
        <5>. QED BY <5>4, <2>1
      <4>3. CASE text[A(k)] \in DOMAIN Joins
        <5>1. \A c \in A(k) + 1 .. Z(k) : text[c] \in Joins[text[A(k)]] \/ text[c] = "blank"
          <6>1. last \in 0 .. Len(text) /\ text \in Lines
            BY <1>1
          <6>. QED BY <6>1, <4>3, <1>3, PlainBlockEnd
        <5>2. text[l] \in DOMAIN Joins \/ text[l] = "blank"
          BY <4>1, <5>1, <4>3, JoinsAre
        <5>. QED BY <5>2, <2>2, JoinsAre
      <4>. QED BY <4>2, <4>3, <1>3
    <3>4. In(k, l)
      BY <3>3, <2>2, <1>8
    <3>5. \A j \in K : In(j, l) => A(j) = l
      BY <1>8, <2>1
    <3>. QED BY <3>1, <3>4, <3>5 DEF Agree, In, K, A, open
  <2>3. CASE text[l] \notin Fences
    <3>1. open[l] = 0
      BY <1>2, <1>10, <2>3
    <3>2. \A k \in K : ~ In(k, l)
      BY <1>8, <2>1, <2>3
    <3>. QED BY <3>1, <3>2 DEF Agree, In, K, open
  <2>. QED BY <2>2, <2>3
<1>11. CASE open[l - 1] # 0
  <2>1. PICK k \in K : In(k, l - 1)
    BY <1>7, <1>11
  <2>2. open[l - 1] = A(k) /\ \A j \in K : In(j, l - 1) => A(j) = A(k)
    BY <2>1, <1>7
  \* No block starts here: line l is still in block k.
  <2>3. text[l] \in Fences => \A j \in K : A(j) # l
    <3>. SUFFICES ASSUME text[l] \in Fences, NEW j \in K, A(j) = l PROVE FALSE
      OBVIOUS
    <3>1. text[A(k)] \in Fences /\ A(k) <= l - 1
      BY <2>1 DEF In, Inside, A
    <3>2. \A c \in A(k) + 1 .. l - 1 : ~ Closes(text[A(k)], text[c])
      BY <2>1 DEF In, Inside, A
    <3>3. \/ Z(k) > A(k) /\ Closes(text[A(k)], text[Z(k)])
          \/ \A c \in Z(k) + 1 .. last : text[c] = "blank"
      <4>1. last \in 0 .. Len(text) /\ text \in Lines
        BY <1>1
      <4>. QED BY <4>1, <3>1, <1>3, FencedBlockEnd
    <3>4. l <= Z(k)
      <4>. SUFFICES ASSUME ~ (l <= Z(k)) PROVE FALSE
        OBVIOUS
      <4>1. Z(k) <= l - 1 /\ l \in Z(k) + 1 .. last
        BY <1>1, <1>3
      <4>2. CASE Z(k) > A(k) /\ Closes(text[A(k)], text[Z(k)])
        <5>1. Z(k) \in A(k) + 1 .. l - 1
          BY <4>1, <4>2, <1>3, <1>1
        <5>. QED BY <5>1, <4>2, <3>2
      <4>3. CASE \A c \in Z(k) + 1 .. last : text[c] = "blank"
        BY <4>1, <4>3, JoinsAre
      <4>. QED BY <4>2, <4>3, <3>3
    <3>5. A(j) <= l /\ l <= Z(j) /\ A(k) <= l /\ A(k) # l
      BY <3>1, <1>3, <1>1
    <3>. QED BY <3>4, <3>5, <1>9
  <2>4. \A j \in K : In(j, l) <=> In(j, l - 1) /\ ~ Closes(text[A(k)], text[l])
    BY <2>2, <2>3, <1>8
  <2>5. CASE Closes(text[A(k)], text[l])
    <3>1. open[l] = 0 /\ \A j \in K : ~ In(j, l)
      BY <2>2, <2>4, <2>5, <1>2, <1>11
    <3>. QED BY <3>1 DEF Agree, In, K, open
  <2>6. CASE ~ Closes(text[A(k)], text[l])
    <3>1. open[l] = A(k) /\ In(k, l) /\ \A j \in K : In(j, l) => A(j) = A(k)
      BY <2>1, <2>2, <2>4, <2>6, <1>2, <1>11
    <3>. QED BY <3>1 DEF Agree, In, K, A, open
  <2>. QED BY <2>5, <2>6
<1>. QED BY <1>10, <1>11

\* Inside a section they agree at every line.
LEMMA OpenFencesAreBlocks ==
  ASSUME NEW text, NEW bs, NEW first, NEW last, Piece(text, bs, first, last),
         NEW l \in first - 1 .. last
  PROVE  Agree(text, bs, l)
<1>. DEFINE N == last + 1 - first
            Good == {n \in 0 .. N : Agree(text, bs, first - 1 + n)}
<1>1. first \in Nat /\ first > 0 /\ last \in Nat /\ N \in Nat
  BY DEF Piece
<1>2. 0 \in Good
  <2>1. first - 1 + 0 = first - 1 /\ 0 \in 0 .. N
    BY <1>1
  <2>2. ASSUME NEW k \in 1 .. Len(bs) PROVE ~ Inside(text, bs[k], first - 1)
    <3>1. bs[k].first \in first .. last
      BY BlockKinds
    <3>2. ~ (bs[k].first <= first - 1)
      BY <3>1, <1>1
    <3>. QED BY <3>2 DEF Inside
  <2>3. OpenFence(text)[first - 1] = 0
    BY DEF Piece
  <2>4. Agree(text, bs, first - 1)
    BY <2>2, <2>3 DEF Agree
  <2>. QED BY <2>1, <2>4
<1>3. ASSUME NEW n \in 1 .. N, n - 1 \in Good PROVE n \in Good
  <2>. DEFINE i == first - 1 + n
  <2>1. i \in first .. last /\ i - 1 = first - 1 + (n - 1) /\ n \in 0 .. N
    BY <1>1
  <2>2. Agree(text, bs, i - 1)
    BY <2>1, <1>3
  <2>3. Agree(text, bs, i)
    <3>. HIDE DEF i
    <3>. QED BY <2>1, <2>2, AgreeStep
  <2>. QED BY <2>1, <2>3
<1>4. \A n \in 0 .. N : n \in Good
  <2>. HIDE DEF Good
  <2>. QED BY <1>1, <1>2, <1>3, UpTo
<1>5. l - (first - 1) \in 0 .. N /\ first - 1 + (l - (first - 1)) = l
  BY <1>1
<1>. HIDE DEF N
<1>. QED BY <1>4, <1>5

\* Lines that mean something together only are in one block.
LEMMA BlocksDoNotCut ==
  ASSUME NEW text, NEW bs, NEW first, NEW last, Piece(text, bs, first, last),
         NEW k \in 1 .. Len(bs), NEW l \in bs[k].first .. bs[k].last, text[l] # "blank",
         NEW m \in l + 1 .. last, text[m] # "blank",
         Inseparable(text, OpenFence(text), l, m)
  PROVE  m <= bs[k].last
<1>. DEFINE open == OpenFence(text)
            a == bs[k].first
            z == bs[k].last
<1>1. /\ first \in Nat /\ first > 0 /\ last \in Nat /\ text \in Lines
      /\ last \in 0 .. Len(text) /\ last <= Len(text) /\ Len(text) \in Nat
  BY DEF Piece, Lines
<1>2. /\ a \in Nat /\ z \in Nat /\ a \in 1 .. last /\ a \in first .. last /\ z \in a .. last
      /\ z = BlockEnd(text, a, last) /\ text[a] \in Fences \cup DOMAIN Joins
  BY BlockKinds
<1>3. \A n \in first - 1 .. last : Agree(text, bs, n)
  BY OpenFencesAreBlocks
<1>. HIDE DEF a, z
<1>4. l \in a .. z
  BY DEF a, z
<1>5. /\ l \in Nat /\ m \in Nat /\ last \in Nat /\ z \in Nat /\ a \in Nat
      /\ l < m /\ m <= last /\ a <= l /\ l <= z /\ z <= last /\ a > 0
  BY <1>1, <1>2, <1>4
<1>6. SUFFICES ASSUME ~ (m <= z) PROVE FALSE
  BY DEF z
<1>7. z < m /\ z \in l .. m - 1 /\ z + 1 \in a .. last
  BY <1>2, <1>5, <1>6
<1>8. CASE text[a] \in Fences
  <2>1. /\ \A c \in a + 1 .. z - 1 : ~ Closes(text[a], text[c])
        /\ \/ z > a /\ Closes(text[a], text[z])
           \/ \A c \in z + 1 .. last : text[c] = "blank"
    BY <1>1, <1>2, <1>8, FencedBlockEnd
  <2>2. z > a /\ Closes(text[a], text[z])
    <3>1. m \in z + 1 .. last
      BY <1>2, <1>5, <1>7
    <3>. QED BY <2>1, <3>1
  <2>3. ASSUME NEW n \in a .. z - 1 PROVE open[n] = a
    <3>1. n \in first - 1 .. last /\ a <= n /\ \A c \in a + 1 .. n : c \in a + 1 .. z - 1
      <4>1. a <= n /\ n <= z - 1 /\ n \in Nat /\ first <= a
        BY <1>1, <1>2
      <4>2. n \in first - 1 .. last
        <5>1. \A f, w, x, y \in Nat : f <= w /\ w <= x /\ x <= y - 1 /\ y <= last => x \in f - 1 .. last
          BY <1>1
        <5>. QED BY <5>1, <4>1, <1>1, <1>5, Zenon
      <4>3. \A c \in a + 1 .. n : c \in a + 1 .. z - 1
        BY <4>1, <1>5
      <4>. QED BY <4>1, <4>2, <4>3
    <3>2. Inside(text, bs[k], n)
      BY <3>1, <2>1, <1>8 DEF Inside, a
    <3>. QED BY <3>1, <3>2, <1>3 DEF Agree, a
  <2>4. open[z] = 0
    <3>1. z \in 0 .. Len(text) /\ z # 0 /\ z - 1 \in a .. z - 1
      BY <1>1, <1>2, <2>2
    <3>2. open[z - 1] = a /\ a # 0
      BY <3>1, <2>3, <1>5
    <3>. QED BY <3>1, <3>2, <2>2, <1>1, OpenFenceIs
  <2>5. CASE \A n \in l .. m - 1 : open[n] # 0
    BY <2>4, <2>5, <1>7
  <2>6. CASE m = l + 1 /\ open[l] = 0 /\ text[l] \in DOMAIN Joins
    <3>1. l = z
      BY <2>6, <1>5, <1>7, <1>2
    <3>2. text[z] \in Fences
      BY <2>2 DEF Closes
    <3>. QED BY <3>1, <3>2, <2>6, JoinsAre
  <2>. QED BY <2>5, <2>6 DEF Inseparable
<1>9. CASE text[a] \in DOMAIN Joins
  <2>1. /\ \A n \in a + 1 .. z : text[n] \in Joins[text[a]] \/ text[n] = "blank"
        /\ z < last => text[z + 1] \notin Joins[text[a]]
    BY <1>1, <1>2, <1>9, PlainBlockEnd
  <2>2. CASE \A n \in l .. m - 1 : open[n] # 0
    <3>1. open[l] # 0 /\ l \in first - 1 .. last
      <4>1. l \in l .. m - 1
        BY <1>5
      <4>2. first <= l /\ l <= last
        BY <1>1, <1>2, <1>5
      <4>3. l \in first - 1 .. last
        BY <4>2, <1>1, <1>5
      <4>. QED BY <4>1, <4>3, <2>2
    <3>2. PICK j \in 1 .. Len(bs) : Inside(text, bs[j], l)
      BY <3>1, <1>3 DEF Agree
    <3>. DEFINE f == bs[j].first
                e == bs[j].last
    <3>3. /\ f \in Nat /\ e \in Nat /\ f \in 1 .. last /\ e \in f .. last
          /\ e = BlockEnd(text, f, last)
      BY BlockKinds
    <3>4. text[f] \in Fences /\ f <= l /\ \A c \in f + 1 .. l : ~ Closes(text[f], text[c])
      BY <3>2 DEF Inside
    <3>5. j # k
      BY <3>4, <1>9, JoinsAre DEF a
    <3>6. /\ j < k => e < a
          /\ k < j => z < f
      BY DEF Piece, Tokenized, a, z
    <3>. HIDE DEF f, e
    <3>7. j < k
      <4>1. ~ (k < j)
        BY <3>6, <3>4, <3>3, <1>5, <1>2
      <4>. QED BY <4>1, <3>5
    <3>8. /\ e < l
          /\ \/ e > f /\ Closes(text[f], text[e])
             \/ \A c \in e + 1 .. last : text[c] = "blank"
      <4>1. e < l
        BY <3>6, <3>7, <3>3, <1>5, <1>2
      <4>. QED BY <4>1, <3>3, <3>4, <1>1, FencedBlockEnd
    <3>9. CASE e > f /\ Closes(text[f], text[e])
      <4>1. e \in f + 1 .. l
        BY <3>8, <3>9, <3>3, <1>5
      <4>. QED BY <4>1, <3>4, <3>9
    <3>10. CASE \A c \in e + 1 .. last : text[c] = "blank"
      <4>1. l \in e + 1 .. last
        BY <3>8, <3>3, <1>5
      <4>. QED BY <4>1, <3>10
    <3>. QED BY <3>8, <3>9, <3>10
  <2>3. CASE m = l + 1 /\ text[l] = text[m] /\ text[l] \in DOMAIN Joins \ {"hr"}
    <3>1. l = z /\ m = z + 1 /\ z < last
      BY <2>3, <1>5, <1>7, <1>2
    <3>2. text[l] \in Joins[text[a]]
      <4>1. CASE l = a
        BY <4>1, <2>3, JoinsAre
      <4>2. CASE l # a
        <5>1. l \in a + 1 .. z
          BY <4>2, <1>5, <1>2
        <5>. QED BY <5>1, <2>1
      <4>. QED BY <4>1, <4>2
    <3>. QED BY <3>1, <3>2, <2>1, <2>3
  <2>. QED BY <2>2, <2>3 DEF Inseparable
<1>. QED BY <1>2, <1>8, <1>9

----------------------------------------------------------------------------
(* The sections *)

\* Where sections begin: the preamble, and each heading.
Starts(text) == {0} \cup {h \in 1 .. Len(text) : text[h] \in Headings}

LEMMA SectionEndIs ==
  ASSUME NEW text \in Lines, NEW h \in 0 .. Len(text)
  PROVE  LET e == SectionEnd(text, h)
         IN  /\ e \in h .. Len(text)
             /\ \A l \in h + 1 .. e : text[l] \notin Headings
             /\ e < Len(text) => text[e + 1] \in Headings
<1>. DEFINE N == Len(text)
            e == SectionEnd(text, h)
            next == {l \in h + 1 .. N : text[l] \in Headings}
<1>1. N \in Nat /\ h \in Nat /\ h <= N /\ next \subseteq Nat
  BY DEF Lines
<1>2. e = IF next = {} THEN N ELSE Min(next) - 1
  BY DEF SectionEnd
<1>3. CASE next = {}
  BY <1>1, <1>2, <1>3
<1>4. CASE next # {}
  <2>. DEFINE m == Min(next)
  <2>1. m \in next /\ \A y \in next : m <= y
    <3>. HIDE DEF next
    <3>. QED BY <1>1, <1>4, LeastMember
  <2>. HIDE DEF m
  <2>2. m \in h + 1 .. N /\ text[m] \in Headings
    BY <2>1
  <2>3. e = m - 1 /\ e + 1 = m /\ e \in h .. N
    <3>1. e = m - 1
      BY <1>2, <1>4, Zenon DEF m
    <3>. HIDE DEF e, next
    <3>2. m - 1 + 1 = m /\ m - 1 \in h .. N
      BY <2>2, <1>1
    <3>. QED BY <3>1, <3>2
  <2>4. ASSUME NEW l \in h + 1 .. e PROVE text[l] \notin Headings
    <3>1. l \in h + 1 .. N /\ ~ (m <= l)
      BY <2>2, <2>3, <1>1
    <3>2. l \notin next
      BY <3>1, <2>1
    <3>. QED BY <3>1, <3>2
  <2>. QED BY <2>2, <2>3, <2>4
<1>. QED BY <1>3, <1>4

\* Every line but the headings is in one section, and sections are apart.
LEMMA SectionOfLine ==
  ASSUME NEW text \in Lines, NEW l \in 1 .. Len(text), text[l] \notin Headings
  PROVE  \E h \in Starts(text) : l \in h + 1 .. SectionEnd(text, h)
<1>. DEFINE before == {s \in Starts(text) : s < l}
            h == Max(before)
            e == SectionEnd(text, h)
<1>1. Len(text) \in Nat /\ l \in Nat /\ l > 0 /\ Starts(text) \subseteq 0 .. Len(text)
  BY DEF Lines, Starts
<1>2. 0 \in before /\ before \subseteq 0 .. Len(text)
  BY <1>1 DEF Starts
<1>3. h \in before /\ \A y \in before : y <= h
  <2>. HIDE DEF before
  <2>. QED BY <1>1, <1>2, GreatestMember
<1>. HIDE DEF h
<1>4. h \in Starts(text) /\ h < l /\ h \in 0 .. Len(text)
  BY <1>1, <1>3
<1>5. e \in h .. Len(text) /\ (e < Len(text) => text[e + 1] \in Headings)
  BY <1>4, SectionEndIs
<1>. HIDE DEF e
<1>6. l <= e
  <2>. SUFFICES ASSUME e < l PROVE FALSE
    BY <1>1, <1>4, <1>5
  <2>1. e + 1 \in 1 .. Len(text) /\ e < Len(text)
    BY <1>1, <1>4, <1>5
  <2>2. text[e + 1] \in Headings
    BY <2>1, <1>5
  <2>3. e + 1 \in Starts(text)
    BY <2>1, <2>2 DEF Starts
  <2>4. e + 1 # l
    BY <2>2
  <2>5. e + 1 \in before
    BY <2>3, <2>4, <1>1, <1>4, <1>5
  <2>6. e + 1 <= h
    BY <2>5, <1>3
  <2>. QED BY <2>6, <1>4, <1>5
<1>. QED BY <1>1, <1>4, <1>5, <1>6 DEF e

\* A section ends before the next one begins.
LEMMA SectionsApart ==
  ASSUME NEW text \in Lines, NEW g \in Starts(text), NEW h \in Starts(text), g < h
  PROVE  SectionEnd(text, g) < h
<1>1. Len(text) \in Nat /\ g \in 0 .. Len(text) /\ h \in 1 .. Len(text) /\ text[h] \in Headings
  BY DEF Lines, Starts
<1>2. /\ SectionEnd(text, g) \in g .. Len(text)
      /\ \A l \in g + 1 .. SectionEnd(text, g) : text[l] \notin Headings
  BY <1>1, SectionEndIs
<1>3. h \notin g + 1 .. SectionEnd(text, g)
  BY <1>1, <1>2
<1>. QED BY <1>1, <1>2, <1>3

\* The headings above a line are those above its section's.
LEMMA AboveInSection ==
  ASSUME NEW text \in Lines, NEW h \in Starts(text), NEW l \in h + 1 .. SectionEnd(text, h)
  PROVE  /\ Above(text, l) = Above(text, h)
         /\ h = 0 => Above(text, h) = {}
         /\ h > 0 => Above(text, h) # {} /\ Max(Above(text, h)) = h
<1>. DEFINE e == SectionEnd(text, h)
<1>1. Len(text) \in Nat /\ h \in 0 .. Len(text) /\ h \in Nat
  BY DEF Lines, Starts
<1>2. e \in h .. Len(text) /\ \A k \in h + 1 .. e : text[k] \notin Headings
  BY <1>1, SectionEndIs
<1>. HIDE DEF e
<1>3. l \in Nat /\ l > h /\ l <= e
  BY <1>1, <1>2 DEF e
<1>4. \A k \in h + 1 .. l : text[k] \notin Headings
  BY <1>1, <1>2, <1>3
<1>5. ASSUME NEW g, text[g] \in Headings PROVE g \in 1 .. l <=> g \in 1 .. h
  BY <1>1, <1>3, <1>4, <1>5
<1>6. ASSUME NEW g \in 1 .. h, NEW k, text[k] \in Headings
      PROVE  k \in g + 1 .. l <=> k \in g + 1 .. h
  BY <1>1, <1>3, <1>4, <1>6
<1>7. Above(text, l) = Above(text, h)
  BY <1>5, <1>6 DEF Above
<1>8. h = 0 => Above(text, h) = {}
  BY DEF Above
<1>9. ASSUME h > 0 PROVE Above(text, h) # {} /\ Max(Above(text, h)) = h
  <2>1. text[h] \in Headings /\ h \in 1 .. h /\ h + 1 .. h = {}
    BY <1>9, <1>1 DEF Starts
  <2>2. h \in Above(text, h) /\ Above(text, h) \subseteq 1 .. h
    BY <2>1 DEF Above
  <2>3. Above(text, h) \subseteq 0 .. h
    BY <2>2
  <2>4. Max(Above(text, h)) \in Above(text, h) /\ h <= Max(Above(text, h))
    BY <2>2, <2>3, <1>1, GreatestMember
  <2>. QED BY <2>2, <2>4, <1>1
<1>. QED BY <1>7, <1>8, <1>9

----------------------------------------------------------------------------
(* _chunk_document *)

Chunk == [path : Seq(Nat), blocks : Seq(Block)]

SectionBlocks(text, h) == Section(text, h).blocks

\* The blocks of a section, or none for the metadata.
LEMMA SectionTokenized ==
  ASSUME NEW text \in Lines, NEW h \in Starts(text)
  PROVE  LET bs == SectionBlocks(text, h)
         IN  /\ bs \in Seq(Block) /\ Ordered(bs)
             /\ IF h > 0 /\ text[h] = "meta" THEN bs = <<>>
                ELSE Tokenized(text, bs, h + 1, SectionEnd(text, h))
<1>. DEFINE bs == SectionBlocks(text, h)
            e == SectionEnd(text, h)
<1>1. Len(text) \in Nat /\ h \in 0 .. Len(text)
  BY DEF Lines, Starts
<1>2. e \in h .. Len(text)
  BY <1>1, SectionEndIs
<1>3. e \in 0 .. Len(text) /\ h + 1 \in 1 .. e + 1
  BY <1>1, <1>2
<1>4. bs = IF h > 0 /\ text[h] = "meta" THEN <<>> ELSE Blocks(text, h + 1, e)
  BY DEF SectionBlocks, Section
<1>. HIDE DEF bs, e
<1>5. CASE h > 0 /\ text[h] = "meta"
  <2>1. bs = <<>>
    BY <1>4, <1>5
  <2>2. <<>> \in Seq(Block) /\ 1 .. Len(<<>>) = {}
    OBVIOUS
  <2>. QED BY <2>1, <2>2, <1>5 DEF Ordered, bs
<1>6. CASE ~ (h > 0 /\ text[h] = "meta")
  <2>1. Tokenized(text, Blocks(text, h + 1, e), h + 1, e)
    BY <1>3, BlocksTokenize
  <2>2. Tokenized(text, bs, h + 1, e)
    BY <2>1, <1>4, <1>6
  <2>3. bs \in Seq(Block) /\ Ordered(bs)
    BY <2>2 DEF Tokenized, Ordered
  <2>. QED BY <2>2, <2>3, <1>6 DEF bs, e
<1>. QED BY <1>5, <1>6

\* The chunks of a section are its groups, under its path.
LEMMA SectionChunksAre ==
  ASSUME NEW text \in Lines, NEW h \in Starts(text)
  PROVE  LET bs == SectionBlocks(text, h)
             gs == SplitSection(bs)
             sc == SectionChunks(text, h)
         IN  /\ Grouped(gs, bs, Len(bs))
             /\ sc \in Seq(Chunk) /\ Len(sc) = Len(gs) /\ DOMAIN sc = 1 .. Len(gs)
             /\ \A j \in 1 .. Len(gs) :
                  sc[j].path = Paths(text)[h] /\ sc[j].blocks = gs[j] /\ gs[j] \in Seq(Block)
<1>. DEFINE bs == SectionBlocks(text, h)
            gs == SplitSection(bs)
            sc == SectionChunks(text, h)
            p == Paths(text)[h]
            T == Seq(Block)
<1>1. bs \in Seq(Block) /\ Ordered(bs)
  BY SectionTokenized
<1>2. Grouped(gs, bs, Len(bs))
  BY <1>1, SplitGroups
<1>3. gs \in Seq(T)
  BY <1>2 DEF Grouped
<1>4. sc = [n \in DOMAIN gs |-> [path |-> p, blocks |-> gs[n]]]
  BY DEF SectionChunks, SectionBlocks, Section
<1>5. p \in Seq(Nat)
  <2>1. h \in 0 .. Len(text) /\ h \in Nat
    BY DEF Starts, Lines
  <2>2. p \in Seq(1 .. h)
    BY <2>1, PathsAreAbove DEF Stack
  <2>3. 1 .. h \subseteq Nat
    BY <2>1
  <2>4. \A S, R : \A s \in Seq(S) : S \subseteq R => s \in Seq(R)
    <3>. SUFFICES ASSUME NEW S, NEW R, NEW s \in Seq(S), S \subseteq R PROVE s \in Seq(R)
      OBVIOUS
    <3>1. s \in [1 .. Len(s) -> R] /\ Len(s) \in Nat
      OBVIOUS
    <3>. QED BY <3>1, SeqDef
  <2>. HIDE DEF p
  <2>. QED BY <2>2, <2>3, <2>4, Zenon
<1>. HIDE DEF gs, sc, p, T
<1>6. DOMAIN gs = 1 .. Len(gs) /\ Len(gs) \in Nat /\ \A j \in 1 .. Len(gs) : gs[j] \in T
  BY <1>3
<1>7. \A j \in 1 .. Len(gs) : [path |-> p, blocks |-> gs[j]] \in Chunk
  BY <1>5, <1>6 DEF Chunk, T
<1>8. sc \in Seq(Chunk) /\ Len(sc) = Len(gs) /\ DOMAIN sc = 1 .. Len(gs)
  BY <1>4, <1>6, <1>7
<1>9. \A j \in 1 .. Len(gs) : sc[j].path = p /\ sc[j].blocks = gs[j]
  BY <1>4, <1>6
<1>. QED BY <1>2, <1>6, <1>8, <1>9 DEF gs, sc, p, T, bs

\* The chunks of one section.
SectionKept(text, h, sc) ==
  LET e     == SectionEnd(text, h)
      ln(j) == LinesOf(text, sc[j])
  IN  /\ sc \in Seq(Chunk)
      /\ (h > 0 /\ text[h] = "meta") => Len(sc) = 0
      /\ \A j \in 1 .. Len(sc) :
           /\ sc[j].path = Paths(text)[h]
           /\ JoinedLength(sc[j].blocks) <= SoftMax \/ Len(sc[j].blocks) = 1
           /\ ln(j) \subseteq Content(text) \cap h + 1 .. e
           /\ \A i \in 1 .. Len(sc) : i < j => \A l \in ln(j), m \in ln(i) : m < l
           /\ WellFenced(text) =>
                \A l \in ln(j), m \in Content(text) :
                  l < m /\ Inseparable(text, OpenFence(text), l, m) => m \in ln(j)
      /\ ~ (h > 0 /\ text[h] = "meta") =>
           \A l \in Content(text) \cap h + 1 .. e : \E j \in 1 .. Len(sc) : l \in ln(j)

LEMMA SectionsAreKept ==
  ASSUME NEW text \in Lines, NEW h \in Starts(text)
  PROVE  SectionKept(text, h, SectionChunks(text, h))
<1>. DEFINE bs == SectionBlocks(text, h)
            gs == SplitSection(bs)
            sc == SectionChunks(text, h)
            e == SectionEnd(text, h)
            N == Len(bs)
            G == 1 .. Len(gs)
            ln(j) == LinesOf(text, sc[j])
<1>1. Len(text) \in Nat /\ h \in 0 .. Len(text) /\ h \in Nat
  BY DEF Lines, Starts
<1>2. e \in h .. Len(text) /\ \A k \in h + 1 .. e : text[k] \notin Headings
  BY <1>1, SectionEndIs
<1>3. /\ bs \in Seq(Block) /\ Ordered(bs)
      /\ IF h > 0 /\ text[h] = "meta" THEN bs = <<>> ELSE Tokenized(text, bs, h + 1, e)
  BY SectionTokenized
<1>4. /\ Grouped(gs, bs, N)
      /\ sc \in Seq(Chunk) /\ Len(sc) = Len(gs)
      /\ \A j \in G : sc[j].path = Paths(text)[h] /\ sc[j].blocks = gs[j] /\ gs[j] \in Seq(Block)
  BY SectionChunksAre
<1>. HIDE DEF gs, sc, e, bs
<1>5. /\ \A g \in G :
           Len(gs[g]) > 0 /\ (JoinedLength(gs[g]) <= SoftMax \/ Len(gs[g]) = 1)
      /\ \A g \in G : \A i \in 1 .. Len(gs[g]) : \E k \in 1 .. N : gs[g][i] = bs[k]
      /\ \A k \in 1 .. N : \E g \in G : \E i \in 1 .. Len(gs[g]) : gs[g][i] = bs[k]
      /\ \A f, g \in G : f < g =>
           \A i \in 1 .. Len(gs[f]), j \in 1 .. Len(gs[g]) : gs[f][i].last < gs[g][j].first
  BY <1>4 DEF Grouped
<1>6. N \in Nat /\ \A k \in 1 .. N : bs[k] \in Block /\ bs[k].first \in Nat /\ bs[k].last \in Nat
  <2>1. N \in Nat /\ \A k \in 1 .. N : bs[k] \in Block
    BY <1>3
  <2>2. \A b \in Block : b.first \in Nat /\ b.last \in Nat
    BY DEF Block
  <2>. QED BY <2>1, <2>2
<1>7. ASSUME NEW l, NEW j \in G
      PROVE  l \in ln(j) <=> /\ l \in Content(text)
                             /\ \E i \in 1 .. Len(gs[j]) : l \in gs[j][i].first .. gs[j][i].last
  <2>1. ToSet(sc[j].blocks) = {gs[j][i] : i \in 1 .. Len(gs[j])}
    BY <1>4 DEF ToSet
  <2>. QED BY <2>1 DEF LinesOf
<1>8. ASSUME NEW j \in G, NEW l \in ln(j)
      PROVE  /\ l \in Content(text)
             /\ \E k \in 1 .. N : \E i \in 1 .. Len(gs[j]) :
                  gs[j][i] = bs[k] /\ l \in bs[k].first .. bs[k].last
  <2>1. PICK i \in 1 .. Len(gs[j]) : l \in gs[j][i].first .. gs[j][i].last
    BY <1>7
  <2>2. l \in Content(text)
    BY <1>7
  <2>3. PICK k \in 1 .. N : gs[j][i] = bs[k]
    BY <1>5, Zenon
  <2>4. l \in bs[k].first .. bs[k].last
    BY <2>1, <2>3, Zenon
  <2>. QED BY <2>2, <2>3, <2>4, Zenon
<1>. HIDE DEF ln
<1>9. ASSUME N > 0 PROVE Tokenized(text, bs, h + 1, e) /\ ~ (h > 0 /\ text[h] = "meta")
  BY <1>3, <1>9
<1>10. ASSUME NEW k \in 1 .. N
       PROVE  /\ Tokenized(text, bs, h + 1, e) /\ ~ (h > 0 /\ text[h] = "meta")
              /\ h + 1 <= bs[k].first /\ bs[k].last <= e
  <2>1. Tokenized(text, bs, h + 1, e) /\ ~ (h > 0 /\ text[h] = "meta")
    BY <1>6, <1>9
  <2>. QED BY <2>1 DEF Tokenized
<1>11. ASSUME NEW j \in G PROVE ln(j) \subseteq Content(text) \cap h + 1 .. e
  <2>. SUFFICES ASSUME NEW l \in ln(j) PROVE l \in Content(text) /\ l \in h + 1 .. e
    OBVIOUS
  <2>1. PICK k \in 1 .. N : l \in bs[k].first .. bs[k].last
    BY <1>8
  <2>2. h + 1 <= bs[k].first /\ bs[k].last <= e
    BY <1>10
  <2>3. l \in h + 1 .. e
    BY <2>1, <2>2, <1>1, <1>2, <1>6
  <2>. QED BY <2>3, <1>8
<1>12. ASSUME NEW i \in G, NEW j \in G, i < j, NEW l \in ln(j), NEW m \in ln(i) PROVE m < l
  <2>1. PICK k \in 1 .. N : \E x \in 1 .. Len(gs[j]) :
               gs[j][x] = bs[k] /\ l \in bs[k].first .. bs[k].last
    BY <1>8
  <2>2. PICK n \in 1 .. N : \E x \in 1 .. Len(gs[i]) :
               gs[i][x] = bs[n] /\ m \in bs[n].first .. bs[n].last
    BY <1>8
  <2>3. bs[n].last < bs[k].first
    <3>1. PICK x \in 1 .. Len(gs[j]) : gs[j][x] = bs[k]
      BY <2>1
    <3>2. PICK y \in 1 .. Len(gs[i]) : gs[i][y] = bs[n]
      BY <2>2
    <3>3. gs[i][y].last < gs[j][x].first
      BY <1>5, <1>12
    <3>. QED BY <3>1, <3>2, <3>3
  <2>4. \A x, b, c, y \in Nat : x <= b /\ b < c /\ c <= y => x < y
    OBVIOUS
  <2>5. /\ bs[n].first \in Nat /\ bs[n].last \in Nat /\ bs[k].first \in Nat /\ bs[k].last \in Nat
    BY <1>6
  <2>. HIDE DEF G, N
  <2>6. \A x, b \in Nat : \A y \in x .. b : y \in Nat /\ x <= y /\ y <= b
    OBVIOUS
  <2>7. m \in Nat /\ m <= bs[n].last
    BY <2>2, <2>5, <2>6, Zenon
  <2>8. l \in Nat /\ bs[k].first <= l
    BY <2>1, <2>5, <2>6, Zenon
  <2>. QED BY <2>3, <2>4, <2>5, <2>7, <2>8, Zenon
<1>13. ASSUME ~ (h > 0 /\ text[h] = "meta"), NEW l \in Content(text) \cap h + 1 .. e
       PROVE  \E j \in G : l \in ln(j)
  <2>1. Tokenized(text, bs, h + 1, e) /\ text[l] # "blank"
    BY <1>3, <1>13 DEF Content
  <2>2. PICK k \in 1 .. N : bs[k].first <= l /\ l <= bs[k].last
    BY <2>1 DEF Tokenized
  <2>3. l \in bs[k].first .. bs[k].last
    BY <2>2, <1>6
  <2>4. PICK j \in G : \E i \in 1 .. Len(gs[j]) : gs[j][i] = bs[k]
    BY <1>5
  <2>5. l \in ln(j)
    BY <2>3, <2>4, <1>7 DEF ln
  <2>. QED BY <2>5
<1>14. ASSUME WellFenced(text), NEW j \in G, NEW l \in ln(j), NEW m \in Content(text),
              l < m, Inseparable(text, OpenFence(text), l, m)
       PROVE  m \in ln(j)
  <2>. DEFINE open == OpenFence(text)
  <2>1. PICK k \in 1 .. N : \E i \in 1 .. Len(gs[j]) :
               gs[j][i] = bs[k] /\ l \in bs[k].first .. bs[k].last
    BY <1>8
  <2>2. l \in Content(text) /\ l \in h + 1 .. e
    BY <1>11
  <2>3. /\ text[l] # "blank" /\ text[m] # "blank" /\ text[m] \notin Headings
        /\ m \in 1 .. Len(text) /\ l \in Nat /\ m \in Nat
    BY <2>2, <1>1, <1>2 DEF Content, Lines
  <2>4. \A x \in DOMAIN text : text[x] \in Headings => open[x] = 0
    BY <1>14 DEF WellFenced
  <2>5. DOMAIN text = 1 .. Len(text)
    BY DEF Lines
  <2>6. open[h] = 0
    <3>1. CASE h = 0
      <4>1. open[0] = 0
        BY <1>1, OpenFenceIs
      <4>. QED BY <4>1, <3>1
    <3>2. CASE h # 0
      <4>1. h \in DOMAIN text /\ text[h] \in Headings
        BY <3>2, <2>5, <1>1 DEF Starts
      <4>. QED BY <4>1, <2>4
    <3>. QED BY <3>1, <3>2
  <2>7. m <= e
    <3>. SUFFICES ASSUME e < m PROVE FALSE
      BY <2>3, <1>1, <1>2
    <3>1. e < Len(text) /\ e + 1 \in 1 .. Len(text) /\ e \in l .. m - 1 /\ e \in Nat
      BY <2>2, <2>3, <1>1, <1>2
    <3>2. text[e + 1] \in Headings
      BY <3>1, <1>1, SectionEndIs DEF e
    <3>3. open[e + 1] = 0 /\ text[e + 1] \notin Fences
      BY <3>1, <3>2, <2>4, <2>5, JoinsAre
    <3>4. open[e] = 0
      <4>1. e + 1 \in 0 .. Len(text) /\ e + 1 # 0 /\ (e + 1) - 1 = e
        BY <3>1
      <4>2. ~ Closes(text[open[e]], text[e + 1])
        BY <3>3 DEF Closes
      <4>. QED BY <4>1, <4>2, <3>3, OpenFenceIs
    <3>5. CASE \A x \in l .. m - 1 : open[x] # 0
      BY <3>5, <3>1, <3>4
    <3>6. CASE m = l + 1
      <4>1. m = e + 1
        BY <3>6, <3>1, <2>2, <2>3, <1>1, <1>2
      <4>. QED BY <4>1, <3>2, <2>3
    <3>. QED BY <3>5, <3>6, <1>14 DEF Inseparable
  <2>8. Piece(text, bs, h + 1, e)
    <3>1. e \in 0 .. Len(text) /\ h + 1 \in 1 .. e + 1 /\ (h + 1) - 1 = h
      BY <1>1, <1>2
    <3>. QED BY <3>1, <2>6, <1>2, <1>10 DEF Piece
  <2>9. m \in l + 1 .. e
    BY <2>3, <2>7, <1>14, <1>1, <1>2
  <2>10. l \in bs[k].first .. bs[k].last
    BY <2>1
  <2>11. m <= bs[k].last
    BY <2>3, <2>8, <2>9, <2>10, <1>14, BlocksDoNotCut
  <2>12. m \in bs[k].first .. bs[k].last
    BY <2>3, <2>10, <2>11, <1>6, <1>14
  <2>. QED BY <2>1, <2>12, <1>7 DEF ln
<1>15. ASSUME h > 0 /\ text[h] = "meta" PROVE Len(sc) = 0
  <2>1. N = 0
    BY <1>3, <1>15
  <2>2. ASSUME NEW g \in G PROVE FALSE
    <3>. DEFINE gr == gs[g]
    <3>1. Len(gr) > 0 /\ gr \in Seq(Block)
      BY <1>4, <1>5, Zenon
    <3>. HIDE DEF gr
    <3>2. 1 \in 1 .. Len(gr)
      BY <3>1
    <3>3. \E k \in 1 .. N : gr[1] = bs[k]
      BY <3>2, <1>5, Zenon DEF gr
    <3>. QED BY <3>3, <2>1
  <2>3. Len(gs) \in Nat
    BY <1>4 DEF Grouped
  <2>. QED BY <2>2, <2>3, <1>4
<1>16. \A j \in G : JoinedLength(sc[j].blocks) <= SoftMax \/ Len(sc[j].blocks) = 1
  BY <1>4, <1>5
<1>. HIDE DEF G, N
<1>17. G = 1 .. Len(sc)
  BY <1>4 DEF G
<1>. QED BY <1>4, <1>11, <1>12, <1>13, <1>14, <1>15, <1>16, <1>17 DEF SectionKept, ln, e, sc

----------------------------------------------------------------------------
(* The chunks of a text *)

\* The chunk n is the one at nth[n] of the section from[n], in that order, and
\* no chunk of a section is left out.
Origins(text, c, from, nth) ==
  /\ \A n \in DOMAIN c :
       LET sc == SectionChunks(text, from[n])
       IN  nth[n] \in 1 .. Len(sc) /\ c[n] = sc[nth[n]]
  /\ \A m, n \in DOMAIN c : m < n =>
       from[m] < from[n] \/ (from[m] = from[n] /\ nth[m] < nth[n])
  /\ \A h \in Starts(text) : \A j \in 1 .. Len(SectionChunks(text, h)) :
       \E n \in DOMAIN c : from[n] = h /\ nth[n] = j

\* Every chunk has its place in a section, and the order is that of the text.
LEMMA ChunksOrigins ==
  ASSUME NEW text \in Lines
  PROVE  LET c == Chunks(text)
         IN  /\ c \in Seq(Chunk)
             /\ \E from \in [DOMAIN c -> Starts(text)], nth \in [DOMAIN c -> Nat] :
                  Origins(text, c, from, nth)
<1>. DEFINE N == Len(text)
            c == Chunks(text)
            row(n) == IF n = 1 \/ text[n - 1] \in Headings THEN SectionChunks(text, n - 1) ELSE <<>>
            ss == [n \in 1 .. N + 1 |-> row(n)]
<1>1. N \in Nat
  BY DEF Lines
<1>2. ASSUME NEW n \in 1 .. N + 1
      PROVE  /\ n \in Nat
             /\ (n = 1 \/ text[n - 1] \in Headings) <=> n - 1 \in Starts(text)
  <2>1. n \in Nat /\ (n # 1 => n - 1 \in 1 .. N) /\ (n = 1 <=> n - 1 = 0)
    BY <1>1
  <2>. QED BY <2>1 DEF Starts
<1>3. ASSUME NEW h \in Starts(text)
      PROVE  SectionChunks(text, h) \in Seq(Chunk)
  BY SectionChunksAre
<1>4. \A n \in 1 .. N + 1 : row(n) \in Seq(Chunk)
  BY <1>2, <1>3
<1>. HIDE DEF row
<1>5. /\ ss \in Seq(Seq(Chunk)) /\ Len(ss) = N + 1 /\ DOMAIN ss = 1 .. N + 1
      /\ \A n \in 1 .. N + 1 : ss[n] = row(n)
  <2>. DEFINE T == Seq(Chunk)
  <2>1. \A n \in 1 .. N + 1 : row(n) \in T
    BY <1>4
  <2>. HIDE DEF T, N
  <2>2. ss \in Seq(T) /\ Len(ss) = N + 1
    BY <2>1, <1>1
  <2>. QED BY <2>2 DEF T
<1>6. c = FlattenSeq(ss)
  BY DEF Chunks, row
<1>. HIDE DEF ss
<1>7. c \in Seq(Chunk) /\ Placed(c, ss, N + 1)
  BY <1>5, <1>6, Flattened
<1>. HIDE DEF c
<1>8. PICK at \in [DOMAIN c -> Nat \X Nat] :
        /\ \A n \in DOMAIN c :
             /\ at[n][1] \in 1 .. N + 1 /\ at[n][2] \in DOMAIN ss[at[n][1]]
             /\ c[n] = ss[at[n][1]][at[n][2]]
        /\ \A m, n \in DOMAIN c : m < n =>
             \/ at[m][1] < at[n][1]
             \/ at[m][1] = at[n][1] /\ at[m][2] < at[n][2]
        /\ \A i \in 1 .. N + 1 : \A j \in DOMAIN ss[i] : \E n \in DOMAIN c : at[n] = <<i, j>>
  BY <1>7, Zenon DEF Placed
<1>. DEFINE from == [n \in DOMAIN c |-> at[n][1] - 1]
            nth == [n \in DOMAIN c |-> at[n][2]]
<1>9. ASSUME NEW n \in DOMAIN c
      PROVE  /\ from[n] \in Starts(text) /\ nth[n] \in Nat
             /\ nth[n] \in 1 .. Len(SectionChunks(text, from[n]))
             /\ c[n] = SectionChunks(text, from[n])[nth[n]]
             /\ at[n][1] \in Nat
  <2>. DEFINE i == at[n][1]
              j == at[n][2]
  <2>1. i \in 1 .. N + 1 /\ j \in DOMAIN ss[i] /\ c[n] = ss[i][j] /\ i \in Nat /\ j \in Nat
    BY <1>8
  <2>2. from[n] = i - 1 /\ nth[n] = j
    OBVIOUS
  <2>. HIDE DEF i, j, from, nth
  <2>3. ss[i] # <<>>
    <3>1. DOMAIN <<>> = {}
      OBVIOUS
    <3>. QED BY <2>1, <3>1
  <2>4. i - 1 \in Starts(text) /\ ss[i] = SectionChunks(text, i - 1)
    BY <2>1, <2>3, <1>2, <1>5 DEF row
  <2>5. DOMAIN ss[i] = 1 .. Len(ss[i])
    BY <2>4, <1>3
  <2>. QED BY <2>1, <2>2, <2>4, <2>5 DEF i
<1>10. ASSUME NEW m \in DOMAIN c, NEW n \in DOMAIN c, m < n
       PROVE  from[m] < from[n] \/ (from[m] = from[n] /\ nth[m] < nth[n])
  <2>1. \/ at[m][1] < at[n][1]
        \/ at[m][1] = at[n][1] /\ at[m][2] < at[n][2]
    BY <1>8, <1>10
  <2>2. at[m][1] \in Nat /\ at[n][1] \in Nat
    BY <1>9
  <2>3. from[m] = at[m][1] - 1 /\ from[n] = at[n][1] - 1 /\ nth[m] = at[m][2] /\ nth[n] = at[n][2]
    OBVIOUS
  <2>. HIDE DEF from, nth
  <2>. QED BY <2>1, <2>2, <2>3
<1>11. ASSUME NEW h \in Starts(text), NEW j \in 1 .. Len(SectionChunks(text, h))
       PROVE  \E n \in DOMAIN c : from[n] = h /\ nth[n] = j
  <2>1. h + 1 \in 1 .. N + 1 /\ (h + 1) - 1 = h
    BY <1>1 DEF Starts
  <2>2. ss[h + 1] = SectionChunks(text, h)
    BY <2>1, <1>2, <1>5 DEF row
  <2>3. j \in DOMAIN ss[h + 1]
    BY <2>2, <1>3
  <2>4. PICK n \in DOMAIN c : at[n] = <<h + 1, j>>
    BY <2>1, <2>3, <1>8
  <2>5. from[n] = h /\ nth[n] = j
    BY <2>1, <2>4
  <2>. QED BY <2>5
<1>12. from \in [DOMAIN c -> Starts(text)] /\ nth \in [DOMAIN c -> Nat]
  BY <1>9
<1>. HIDE DEF from, nth
<1>13. Origins(text, c, from, nth)
  <2>1. \A n \in DOMAIN c : nth[n] \in 1 .. Len(SectionChunks(text, from[n]))
                           /\ c[n] = SectionChunks(text, from[n])[nth[n]]
    BY <1>9
  <2>2. \A m, n \in DOMAIN c : m < n =>
            from[m] < from[n] \/ (from[m] = from[n] /\ nth[m] < nth[n])
    BY <1>10
  <2>3. \A h \in Starts(text) : \A j \in 1 .. Len(SectionChunks(text, h)) :
            \E n \in DOMAIN c : from[n] = h /\ nth[n] = j
    BY <1>11
  <2>. QED BY <2>1, <2>2, <2>3 DEF Origins
<1>14. c \in Seq(Chunk)
  BY <1>7
<1>. QED BY <1>12, <1>13, <1>14, Zenon DEF c

\* The lines that are searched, by section.
LEMMA OperationalLines ==
  ASSUME NEW text \in Lines, NEW h \in Starts(text),
         NEW l \in Content(text) \cap h + 1 .. SectionEnd(text, h)
  PROVE  /\ l \in Operational(text) <=> ~ (h > 0 /\ text[h] = "meta")
         /\ Above(text, l) = ToSet(Paths(text)[h])
<1>1. h \in 0 .. Len(text) /\ h \in Nat
  BY DEF Starts, Lines
<1>2. Above(text, h) = ToSet(Paths(text)[h])
  BY <1>1, PathsAreAbove
<1>3. /\ Above(text, l) = Above(text, h)
      /\ h = 0 => Above(text, h) = {}
      /\ h > 0 => Above(text, h) # {} /\ Max(Above(text, h)) = h
  BY AboveInSection
<1>4. h = 0 \/ h > 0
  BY <1>1
<1>. QED BY <1>2, <1>3, <1>4 DEF Operational

\* What the parser makes of any text keeps it.
LEMMA ChunksKeep ==
  ASSUME NEW text \in Lines
  PROVE  KeepsText(text, Chunks(text))
<1>. DEFINE c == Chunks(text)
            D == DOMAIN c
            lines == [n \in DOMAIN c |-> LinesOf(text, c[n])]
            open == OpenFence(text)
            SC(h) == SectionChunks(text, h)
<1>1. PICK from \in [D -> Starts(text)], nth \in [D -> Nat] :
        /\ \A n \in D : nth[n] \in 1 .. Len(SC(from[n])) /\ c[n] = SC(from[n])[nth[n]]
        /\ \A m, n \in D : m < n =>
             from[m] < from[n] \/ (from[m] = from[n] /\ nth[m] < nth[n])
        /\ \A h \in Starts(text) : \A j \in 1 .. Len(SC(h)) :
             \E n \in D : from[n] = h /\ nth[n] = j
  BY ChunksOrigins DEF Origins
<1>2. \A h \in Starts(text) : SectionKept(text, h, SC(h))
  BY SectionsAreKept
<1>3. \A n \in D : from[n] \in Starts(text)
  OBVIOUS
<1>4. D \subseteq Nat
  BY ChunksOrigins
<1>. HIDE DEF c, SC, D
<1>5. ASSUME NEW n \in D
      PROVE  /\ lines[n] = LinesOf(text, SC(from[n])[nth[n]])
             /\ lines[n] \subseteq Content(text) \cap from[n] + 1 .. SectionEnd(text, from[n])
             /\ c[n].path = Paths(text)[from[n]]
             /\ JoinedLength(c[n].blocks) <= SoftMax \/ Len(c[n].blocks) = 1
             /\ ~ (from[n] > 0 /\ text[from[n]] = "meta")
  <2>. DEFINE h == from[n]
              j == nth[n]
              sc == SC(h)
  <2>1. h \in Starts(text) /\ j \in 1 .. Len(sc) /\ c[n] = sc[j] /\ SectionKept(text, h, sc)
    BY <1>1, <1>2, <1>3
  <2>2. lines[n] = LinesOf(text, sc[j])
    BY <2>1 DEF D
  <2>. HIDE DEF h, j, sc, lines
  <2>3. /\ sc[j].path = Paths(text)[h]
        /\ JoinedLength(sc[j].blocks) <= SoftMax \/ Len(sc[j].blocks) = 1
        /\ LinesOf(text, sc[j]) \subseteq Content(text) \cap h + 1 .. SectionEnd(text, h)
    BY <2>1 DEF SectionKept
  <2>4. ~ (h > 0 /\ text[h] = "meta")
    <3>. SUFFICES ASSUME h > 0 /\ text[h] = "meta" PROVE FALSE
      OBVIOUS
    <3>1. Len(sc) = 0
      BY <2>1 DEF SectionKept
    <3>. QED BY <3>1, <2>1
  <2>. QED BY <2>1, <2>2, <2>3, <2>4 DEF h, j, sc
<1>. HIDE DEF lines
<1>6. ASSUME NEW n \in D, NEW l \in lines[n]
      PROVE  l \in Operational(text) /\ Above(text, l) = ToSet(c[n].path) /\ l \in Content(text)
  <2>1. /\ l \in Content(text) \cap from[n] + 1 .. SectionEnd(text, from[n])
        /\ from[n] \in Starts(text)
    BY <1>3, <1>5
  <2>. QED BY <2>1, <1>5, OperationalLines
<1>7. ASSUME NEW l \in Operational(text) PROVE \E n \in D : l \in lines[n]
  <2>1. l \in Content(text) /\ l \in 1 .. Len(text) /\ text[l] \notin Headings
    BY DEF Operational, Content, Lines
  <2>2. PICK h \in Starts(text) : l \in h + 1 .. SectionEnd(text, h)
    BY <2>1, SectionOfLine
  <2>3. ~ (h > 0 /\ text[h] = "meta")
    BY <2>1, <2>2, OperationalLines
  <2>4. PICK j \in 1 .. Len(SC(h)) : l \in LinesOf(text, SC(h)[j])
    BY <2>1, <2>2, <2>3, <1>2 DEF SectionKept
  <2>5. PICK n \in D : from[n] = h /\ nth[n] = j
    BY <1>1
  <2>. QED BY <2>4, <2>5, <1>5
<1>8. ASSUME NEW n \in D, NEW k \in D, k < n, NEW l \in lines[n], NEW m \in lines[k]
      PROVE  m < l
  <2>1. /\ l \in from[n] + 1 .. SectionEnd(text, from[n])
        /\ m \in from[k] + 1 .. SectionEnd(text, from[k])
    BY <1>5
  <2>2. CASE from[k] < from[n]
    <3>1. SectionEnd(text, from[k]) < from[n]
      BY <2>2, <1>3, SectionsApart
    <3>2. /\ from[k] \in 0 .. Len(text) /\ from[n] \in 0 .. Len(text) /\ Len(text) \in Nat
      BY <1>3 DEF Starts, Lines
    <3>3. SectionEnd(text, from[k]) \in Nat /\ SectionEnd(text, from[n]) \in Nat
      BY <3>2, SectionEndIs
    <3>. QED BY <2>1, <3>1, <3>2, <3>3
  <2>3. CASE from[k] = from[n] /\ nth[k] < nth[n]
    <3>. DEFINE h == from[n]
                sc == SC(h)
    <3>1. /\ SectionKept(text, h, sc) /\ nth[k] \in 1 .. Len(sc) /\ nth[n] \in 1 .. Len(sc)
          /\ l \in LinesOf(text, sc[nth[n]]) /\ m \in LinesOf(text, sc[nth[k]])
      BY <2>3, <1>1, <1>2, <1>3, <1>5
    <3>. HIDE DEF h, sc
    <3>. QED BY <3>1, <2>3 DEF SectionKept
  <2>. QED BY <2>2, <2>3, <1>1, <1>8
<1>9. ASSUME NEW n \in D, WellFenced(text), NEW l \in lines[n], NEW m \in Operational(text),
             l < m, Inseparable(text, open, l, m)
      PROVE  m \in lines[n]
  <2>. DEFINE sc == SC(from[n])
              j == nth[n]
  <2>1. /\ SectionKept(text, from[n], sc) /\ j \in 1 .. Len(sc)
        /\ lines[n] = LinesOf(text, sc[j])
    BY <1>1, <1>2, <1>3, <1>5
  <2>2. m \in Content(text)
    BY DEF Operational
  <2>. HIDE DEF sc, j
  <2>. QED BY <2>1, <2>2, <1>9 DEF SectionKept
<1>10. UNION ToSet(lines) = Operational(text)
  <2>1. ToSet(lines) = {lines[n] : n \in D}
    BY DEF ToSet, lines, D
  <2>. QED BY <2>1, <1>6, <1>7
<1>11. ASSUME NEW n \in D, NEW k \in 1 .. n - 1 PROVE k \in D /\ k < n
  <2>1. D = 1 .. Len(c) /\ Len(c) \in Nat
    BY ChunksOrigins DEF D, c
  <2>. QED BY <2>1
<1>12. \A n \in D : \A k \in 1 .. n - 1 : \A l \in lines[n], m \in lines[k] : m < l
  BY <1>8, <1>11
<1>13. \A n \in D :
         /\ \A l \in lines[n] : Above(text, l) = ToSet(c[n].path)
         /\ JoinedLength(c[n].blocks) <= SoftMax \/ Len(c[n].blocks) = 1
         /\ WellFenced(text) =>
              \A l \in lines[n], m \in Operational(text) :
                l < m /\ Inseparable(text, open, l, m) => m \in lines[n]
  BY <1>5, <1>6, <1>9
<1>. QED BY <1>10, <1>12, <1>13, Zenon DEF KeepsText, lines, open, D, c

\* What the parser promises of every text.
SplitsWell == \A t \in Texts : KeepsText(Normalized(t), Chunks(Normalized(t)))

\* Whatever the lines of a manual and whatever the limit, its chunks hold every
\* operational line once, in order and under the headings it stands under; a
\* chunk within the limit or of one block; no fence, table, list, quotation or
\* paragraph is cut (_parse_sections, _tokenize_blocks, _split_section_content).
THEOREM TextIsSplitWell == SplitsWell
BY NormalizedIs, ChunksKeep DEF SplitsWell

=============================================================================
