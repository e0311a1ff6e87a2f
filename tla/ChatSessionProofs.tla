------------------------- MODULE ChatSessionProofs -------------------------
(***************************************************************************)
(* The conversation of a persona, for any limits, sizes and number of      *)
(* turns: its totals are exact and its budgets hold, a running reply keeps *)
(* its place, every request can be answered, an interruption by voice is   *)
(* told once, every snapshot can be read again, and a refused call changes *)
(* nothing.                                                                *)
(*                                                                         *)
(* Total and Pick are recursive functions.  What they compute is proved    *)
(* for every sequence by induction over the numbers, stated with sets      *)
(* (Induction) so that no operator has to be instantiated.                 *)
(***************************************************************************)
EXTENDS ChatSession, WellFoundedInduction, TLAPS

(* Numbers.                                                                *)

\* A set of numbers that has something has a smallest element.
LEMMA Smallest ==
    ASSUME NEW S \in SUBSET Nat, S # {}
    PROVE  \E n \in S : \A k \in S : n <= k
  <1> DEFINE Less == OpToRel(<, Nat)
  <1>1. \E n \in S : \A k \in S : ~(<<k, n>> \in Less)
    <2>1. IsWellFoundedOn(Less, Nat)
      BY NatLessThanWellFounded
    <2> HIDE DEF Less
    <2>2. QED
      BY <2>1, WFMin
  <1>2. PICK n \in S : \A k \in S : ~(<<k, n>> \in Less)
    BY <1>1
  <1>3. \A k \in S : ~(k < n)
    <2>1. \A k, m \in Nat : k < m => <<k, m>> \in Less
      BY DEF OpToRel
    <2> HIDE DEF Less
    <2>2. QED
      BY <1>2, <2>1
  <1>4. \A k \in S : n <= k
    BY <1>3
  <1>5. QED
    BY <1>4

\* Induction, as a statement about a set.
LEMMA Induction ==
    ASSUME NEW T, 0 \in T, \A n \in Nat : n \in T => n + 1 \in T
    PROVE  \A n \in Nat : n \in T
  <1> DEFINE Out == {n \in Nat : n \notin T}
  <1>1. SUFFICES ASSUME Out # {} PROVE FALSE
    OBVIOUS
  <1>2. PICK n \in Out : \A k \in Out : n <= k
    <2>1. Out \in SUBSET Nat
      OBVIOUS
    <2> HIDE DEF Out
    <2>2. QED
      BY <1>1, <2>1, Smallest
  <1>3. n # 0 /\ n \in Nat
    OBVIOUS
  <1>4. n - 1 \in Nat /\ n - 1 \in T /\ (n - 1) + 1 = n
    BY <1>2, <1>3
  <1>5. QED
    BY <1>4

LEMMA Greatest ==
    ASSUME NEW S \in SUBSET Nat, S # {}, NEW b \in Nat, \A n \in S : n <= b
    PROVE  \E m \in S : \A n \in S : n <= m
  <1> DEFINE T == {b - n : n \in S}
  <1>0. \A n \in S : b - n \in Nat
    OBVIOUS
  <1>1. T \in SUBSET Nat /\ T # {}
    BY <1>0
  <1>2. PICK t \in T : \A k \in T : t <= k
    <2> HIDE DEF T
    <2>1. QED
      BY <1>1, Smallest
  <1>3. PICK m \in S : t = b - m
    OBVIOUS
  <1>4. \A n \in S : b - m <= b - n
    BY <1>2, <1>3
  <1>5. \A n \in S : n <= m
    BY <1>4
  <1>6. QED
    BY <1>5

LEMMA MinIs ==
    ASSUME NEW S \in SUBSET Nat, S # {}
    PROVE  Min(S) \in S /\ \A n \in S : Min(S) <= n
  BY Smallest DEF Min

LEMMA MaxIs ==
    ASSUME NEW S \in SUBSET Nat, S # {}, NEW b \in Nat, \A n \in S : n <= b
    PROVE  Max(S) \in S /\ \A n \in S : n <= Max(S)
  <1>1. \E m \in S : \A n \in S : m >= n
    BY Greatest
  <1>2. QED
    BY <1>1 DEF Max

-----------------------------------------------------------------------------
(* Total.                                                                  *)

Sums(w, f) ==
    /\ f \in [0..Len(w) -> Nat]
    /\ f[0] = 0
    /\ \A i \in 1..Len(w) : f[i] = f[i - 1] + w[i]

\* The running sums of a sequence exist.
LEMMA SumsExist ==
    ASSUME NEW w \in Seq(Nat)
    PROVE  \E f \in [0..Len(w) -> Nat] :
               f = [i \in 0..Len(w) |-> IF i = 0 THEN 0 ELSE f[i - 1] + w[i]]
  <1> DEFINE Upto(n) == \E f \in [0..n -> Nat] :
                            f = [i \in 0..n |-> IF i = 0 THEN 0 ELSE f[i - 1] + w[i]]
             T == {n \in Nat : n <= Len(w) => Upto(n)}
  <1>1. Upto(0)
    <2> DEFINE f == [i \in 0..0 |-> 0]
    <2>1. f \in [0..0 -> Nat] /\ f = [i \in 0..0 |-> IF i = 0 THEN 0 ELSE f[i - 1] + w[i]]
      OBVIOUS
    <2>2. QED
      BY <2>1
  <1>2. ASSUME NEW n \in Nat, n + 1 <= Len(w), Upto(n) PROVE Upto(n + 1)
    <2>2. PICK f \in [0..n -> Nat] :
              f = [i \in 0..n |-> IF i = 0 THEN 0 ELSE f[i - 1] + w[i]]
      BY <1>2
    <2> DEFINE g == [i \in 0..(n + 1) |-> IF i = n + 1 THEN f[n] + w[n + 1] ELSE f[i]]
    <2>3. w[n + 1] \in Nat /\ f[n] \in Nat
      BY <1>2
    <2>4. g \in [0..(n + 1) -> Nat]
      BY <2>3
    <2>5. \A i \in 0..(n + 1) : g[i] = IF i = 0 THEN 0 ELSE g[i - 1] + w[i]
      <3>1. TAKE i \in 0..(n + 1)
      <3>2. CASE i = n + 1
        BY <3>2
      <3>3. CASE i # n + 1
        <4>1. i \in 0..n /\ (i # 0 => i - 1 \in 0..n)
          BY <3>3
        <4>2. f[i] = IF i = 0 THEN 0 ELSE f[i - 1] + w[i]
          BY <2>2, <4>1
        <4>3. QED
          BY <4>1, <4>2, <3>3
      <3>4. QED
        BY <3>2, <3>3
    <2>6. g = [i \in 0..(n + 1) |-> IF i = 0 THEN 0 ELSE g[i - 1] + w[i]]
      BY <2>5
    <2> HIDE DEF g
    <2>7. QED
      BY <2>4, <2>6
  <1> HIDE DEF Upto
  <1>3. 0 \in T /\ \A n \in Nat : n \in T => n + 1 \in T
    BY <1>1, <1>2
  <1>4. \A n \in Nat : n \in T
    <2> HIDE DEF T
    <2>1. QED
      BY <1>3, Induction
  <1>5. Upto(Len(w))
    BY <1>4
  <1>6. QED
    BY <1>5 DEF Upto

\* Total is the last of the running sums ...
LEMMA TotalIs ==
    ASSUME NEW w \in Seq(Nat)
    PROVE  \E f : Sums(w, f) /\ Total(w) = f[Len(w)]
  <1> DEFINE F == CHOOSE f : f = [i \in 0..Len(w) |-> IF i = 0 THEN 0 ELSE f[i - 1] + w[i]]
  <1>1. PICK e \in [0..Len(w) -> Nat] :
            e = [i \in 0..Len(w) |-> IF i = 0 THEN 0 ELSE e[i - 1] + w[i]]
    BY SumsExist
  <1>2. F = [i \in 0..Len(w) |-> IF i = 0 THEN 0 ELSE F[i - 1] + w[i]]
    BY <1>1
  <1>3. Total(w) = F[Len(w)]
    BY DEF Total
  <1> HIDE DEF F
  <1>4. \A i \in 0..Len(w) : F[i] = IF i = 0 THEN 0 ELSE F[i - 1] + w[i]
    BY <1>2
  <1>5. \A i \in 0..Len(w) : F[i] \in Nat
    <2> DEFINE T == {n \in Nat : n <= Len(w) => F[n] \in Nat}
    <2>1. 0 \in T
      BY <1>4
    <2>2. ASSUME NEW n \in Nat, n \in T PROVE n + 1 \in T
      BY <1>4, <2>2
    <2>3. \A n \in Nat : n \in T
      <3> HIDE DEF T
      <3>1. QED
        BY <2>1, <2>2, Induction
    <2>4. QED
      BY <2>3
  <1>6. Sums(w, F)
    <2> DEFINE value(i) == IF i = 0 THEN 0 ELSE F[i - 1] + w[i]
    <2>1. F = [i \in 0..Len(w) |-> value(i)] /\ \A i \in 0..Len(w) : value(i) \in Nat
      BY <1>2, <1>4, <1>5
    <2>2. F \in [0..Len(w) -> Nat]
      <3> HIDE DEF value
      <3>1. QED
        BY <2>1
    <2>3. F[0] = 0 /\ \A i \in 1..Len(w) : F[i] = F[i - 1] + w[i]
      BY <1>4
    <2>4. QED
      BY <2>2, <2>3 DEF Sums
  <1>7. QED
    BY <1>3, <1>6

\* ... and the running sums are unique.
LEMMA TotalOf ==
    ASSUME NEW w \in Seq(Nat), NEW g, Sums(w, g)
    PROVE  Total(w) = g[Len(w)]
  <1>1. PICK f : Sums(w, f) /\ Total(w) = f[Len(w)]
    BY TotalIs
  <1> DEFINE T == {n \in Nat : n <= Len(w) => f[n] = g[n]}
  <1>2. 0 \in T
    BY <1>1 DEF Sums
  <1>3. ASSUME NEW n \in Nat, n \in T PROVE n + 1 \in T
    BY <1>1, <1>3 DEF Sums
  <1>4. \A n \in Nat : n \in T
    <2> HIDE DEF T
    <2>1. QED
      BY <1>2, <1>3, Induction
  <1>5. QED
    BY <1>1, <1>4

LEMMA TotalOfFew ==
    /\ Total(<<>>) = 0
    /\ \A x \in Nat : Total(<<x>>) = x
    /\ \A w \in Seq(Nat) : Total(w) \in Nat
  <1>1. Total(<<>>) = 0
    <2> DEFINE f == [i \in 0..0 |-> 0]
               w == <<>>
    <2>1. w \in Seq(Nat) /\ Len(w) = 0
      OBVIOUS
    <2>2. f \in [0..0 -> Nat] /\ f[0] = 0
      OBVIOUS
    <2> HIDE DEF f, w
    <2>3. Sums(w, f)
      BY <2>1, <2>2 DEF Sums
    <2>4. Total(w) = f[Len(w)]
      BY <2>1, <2>3, TotalOf
    <2>5. QED
      BY <2>1, <2>2, <2>4 DEF w
  <1>2. ASSUME NEW x \in Nat PROVE Total(<<x>>) = x
    <2> DEFINE f == [i \in 0..1 |-> IF i = 0 THEN 0 ELSE x]
               w == <<x>>
    <2>1. w \in Seq(Nat) /\ Len(w) = 1 /\ w[1] = x
      OBVIOUS
    <2>2. f \in [0..1 -> Nat] /\ f[0] = 0 /\ f[1] = x
      OBVIOUS
    <2> HIDE DEF f, w
    <2>3. \A i \in 1..Len(w) : f[i] = f[i - 1] + w[i]
      BY <2>1, <2>2
    <2>4. Sums(w, f)
      BY <2>1, <2>2, <2>3 DEF Sums
    <2>5. Total(w) = f[Len(w)]
      BY <2>1, <2>4, TotalOf
    <2>6. QED
      BY <2>1, <2>2, <2>5 DEF w
  <1>3. ASSUME NEW w \in Seq(Nat) PROVE Total(w) \in Nat
    BY TotalIs DEF Sums
  <1>4. QED
    BY <1>1, <1>2, <1>3

LEMMA TotalConcat ==
    ASSUME NEW v \in Seq(Nat), NEW w \in Seq(Nat)
    PROVE  Total(v \o w) = Total(v) + Total(w)
  <1>1. PICK f : Sums(v, f) /\ Total(v) = f[Len(v)]
    BY TotalIs
  <1>2. PICK g : Sums(w, g) /\ Total(w) = g[Len(w)]
    BY TotalIs
  <1> DEFINE n == Len(v)
             u == v \o w
             h == [i \in 0..(n + Len(w)) |-> IF i <= n THEN f[i] ELSE f[n] + g[i - n]]
  <1>3. /\ u \in Seq(Nat) /\ Len(u) = n + Len(w) /\ n \in Nat /\ Len(w) \in Nat
        /\ \A i \in 1..Len(u) : u[i] = IF i <= n THEN v[i] ELSE w[i - n]
    OBVIOUS
  <1>a. /\ f[0] = 0 /\ \A i \in 0..n : f[i] \in Nat
        /\ \A i \in 1..n : f[i] = f[i - 1] + v[i]
    BY <1>1 DEF Sums
  <1>b. /\ g[0] = 0 /\ \A i \in 0..Len(w) : g[i] \in Nat
        /\ \A i \in 1..Len(w) : g[i] = g[i - 1] + w[i]
    BY <1>2 DEF Sums
  <1> HIDE DEF n, u
  <1>4. h \in [0..Len(u) -> Nat] /\ h[0] = 0
    <2>1. \A i \in 0..Len(u) : (IF i <= n THEN f[i] ELSE f[n] + g[i - n]) \in Nat
      <3>1. TAKE i \in 0..Len(u)
      <3>2. CASE i <= n
        BY <1>a, <3>2, <1>3
      <3>3. CASE i > n
        <4>1. i - n \in 0..Len(w) /\ n \in 0..n
          BY <1>3, <3>3
        <4>2. f[n] \in Nat /\ g[i - n] \in Nat
          BY <1>a, <1>b, <4>1
        <4>3. QED
          BY <3>3, <4>2, <1>3
      <3>4. QED
        BY <3>2, <3>3, <1>3
    <2>2. h \in [0..Len(u) -> Nat]
      BY <1>3, <2>1
    <2>3. QED
      BY <1>3, <1>a, <2>2
  <1>5. ASSUME NEW i \in 1..Len(u) PROVE h[i] = h[i - 1] + u[i]
    <2>1. CASE i <= n
      <3>1. i \in 1..n /\ i \in 0..(n + Len(w)) /\ i - 1 \in 0..(n + Len(w)) /\ i - 1 <= n
        BY <1>3, <2>1
      <3>2. h[i] = f[i] /\ h[i - 1] = f[i - 1] /\ u[i] = v[i]
        BY <1>3, <2>1, <3>1
      <3>3. f[i] = f[i - 1] + v[i]
        BY <1>a, <3>1
      <3>4. QED
        BY <3>2, <3>3
    <2>2. CASE i = n + 1
      <3>1. 1 \in 1..Len(w) /\ g[1] = g[1 - 1] + w[1] /\ w[1] \in Nat /\ f[n] \in Nat
        BY <1>3, <1>a, <1>b, <2>2
      <3>a. /\ i \in 0..(n + Len(w)) /\ i - 1 \in 0..(n + Len(w))
            /\ i - 1 = n /\ i - n = 1 /\ ~(i <= n)
        BY <1>3, <2>2
      <3>2. u[i] = w[1] /\ h[i] = f[n] + g[1] /\ h[i - 1] = f[n]
        BY <1>3, <3>a
      <3>3. QED
        BY <3>1, <3>2, <1>b
    <2>3. CASE i > n + 1
      <3>1. /\ i - n \in 1..Len(w)
            /\ (i - n) - 1 \in 0..Len(w)
            /\ w[i - n] \in Nat /\ f[n] \in Nat
        BY <1>3, <1>a, <2>3
      <3>2. g[i - n] = g[(i - n) - 1] + w[i - n] /\ g[(i - n) - 1] \in Nat
        BY <1>b, <3>1
      <3>3. u[i] = w[i - n] /\ h[i] = f[n] + g[i - n] /\ h[i - 1] = f[n] + g[(i - 1) - n]
        <4>1. n \in Nat /\ Len(w) \in Nat /\ i \in 1..(n + Len(w))
          BY <1>3
        <4>2. /\ i \in 0..(n + Len(w)) /\ i - 1 \in 0..(n + Len(w))
              /\ ~(i <= n) /\ ~(i - 1 <= n)
          BY <2>3, <4>1
        <4>3. u[i] = w[i - n]
          BY <1>3, <4>1, <4>2
        <4>4. h[i] = f[n] + g[i - n]
          BY <4>2
        <4>5. h[i - 1] = f[n] + g[(i - 1) - n]
          BY <4>2
        <4>6. QED
          BY <4>3, <4>4, <4>5
      <3>4. (i - 1) - n = (i - n) - 1
        BY <1>3
      <3>5. QED
        BY <3>1, <3>2, <3>3, <3>4
    <2>4. QED
      BY <1>3, <2>1, <2>2, <2>3
  <1>6. Sums(u, h)
    BY <1>4, <1>5 DEF Sums
  <1>7. h[Len(u)] = f[n] + g[Len(w)]
    <2>1. CASE Len(w) = 0
      BY <1>3, <1>a, <1>b, <2>1
    <2>2. CASE Len(w) # 0
      BY <1>3, <2>2
    <2>3. QED
      BY <2>1, <2>2
  <1> HIDE DEF h
  <1>8. QED
    BY <1>1, <1>2, <1>3, <1>6, <1>7, TotalOf DEF n, u

-----------------------------------------------------------------------------
(* Weights of the elements of a sequence, and their total.                 *)

Weigh(W, s) == [i \in DOMAIN s |-> W[s[i]]]

LEMMA WeighIs ==
    ASSUME NEW E, NEW W \in [E -> Nat], NEW a \in Seq(E), NEW b \in Seq(E)
    PROVE  /\ Weigh(W, a) \in Seq(Nat)
           /\ Weigh(W, a \o b) = Weigh(W, a) \o Weigh(W, b)
  <1>1. ASSUME NEW s \in Seq(E)
        PROVE  /\ Weigh(W, s) \in Seq(Nat) /\ Len(Weigh(W, s)) = Len(s)
               /\ \A i \in 1..Len(s) : Weigh(W, s)[i] = W[s[i]]
    BY DEF Weigh
  <1> DEFINE u == Weigh(W, a \o b)
             v == Weigh(W, a) \o Weigh(W, b)
  <1>2. a \o b \in Seq(E) /\ Len(a \o b) = Len(a) + Len(b)
        /\ \A i \in 1..(Len(a) + Len(b)) : (a \o b)[i] = IF i <= Len(a) THEN a[i] ELSE b[i - Len(a)]
    OBVIOUS
  <1>3. u \in Seq(Nat) /\ Len(u) = Len(a) + Len(b)
        /\ \A i \in 1..(Len(a) + Len(b)) : u[i] = W[(a \o b)[i]]
    BY <1>1, <1>2
  <1>4. v \in Seq(Nat) /\ Len(v) = Len(a) + Len(b)
        /\ \A i \in 1..(Len(a) + Len(b)) :
             v[i] = IF i <= Len(a) THEN Weigh(W, a)[i] ELSE Weigh(W, b)[i - Len(a)]
    BY <1>1
  <1> HIDE DEF u, v
  <1>5. ASSUME NEW i \in 1..(Len(a) + Len(b)) PROVE u[i] = v[i]
    <2>1. CASE i <= Len(a)
      <3>1. i \in 1..Len(a)
        BY <2>1
      <3>2. Weigh(W, a)[i] = W[a[i]]
        BY <1>1, <3>1
      <3>3. QED
        BY <1>2, <1>3, <1>4, <2>1, <3>2
    <2>2. CASE i > Len(a)
      <3>1. i - Len(a) \in 1..Len(b) /\ ~(i <= Len(a))
        BY <2>2
      <3>2. Weigh(W, b)[i - Len(a)] = W[b[i - Len(a)]]
        BY <1>1, <3>1
      <3>3. QED
        BY <1>2, <1>3, <1>4, <3>1, <3>2
    <2>3. QED
      BY <2>1, <2>2
  <1>6. u = v
    BY <1>3, <1>4, <1>5
  <1>7. QED
    BY <1>1, <1>6 DEF u, v

LEMMA WeighFew ==
    ASSUME NEW E, NEW W \in [E -> Nat]
    PROVE  Weigh(W, <<>>) = <<>> /\ \A e \in E : Weigh(W, <<e>>) = <<W[e]>>
  BY DEF Weigh

LEMMA WeightIs ==
    ASSUME NEW E, NEW W \in [E -> Nat]
    PROVE  /\ Total(Weigh(W, <<>>)) = 0
           /\ \A e \in E : Total(Weigh(W, <<e>>)) = W[e]
           /\ \A a \in Seq(E) : Total(Weigh(W, a)) \in Nat
           /\ \A a, b \in Seq(E) :
                Total(Weigh(W, a \o b)) = Total(Weigh(W, a)) + Total(Weigh(W, b))
  <1>1. Total(Weigh(W, <<>>)) = 0
    BY WeighFew, TotalOfFew
  <1>2. ASSUME NEW e \in E PROVE Total(Weigh(W, <<e>>)) = W[e]
    BY WeighFew, TotalOfFew
  <1>3. ASSUME NEW a \in Seq(E) PROVE Total(Weigh(W, a)) \in Nat
    BY WeighIs, TotalOfFew
  <1>4. ASSUME NEW a \in Seq(E), NEW b \in Seq(E)
        PROVE  Total(Weigh(W, a \o b)) = Total(Weigh(W, a)) + Total(Weigh(W, b))
    <2>1. /\ Weigh(W, a) \in Seq(Nat) /\ Weigh(W, b) \in Seq(Nat)
          /\ Weigh(W, a \o b) = Weigh(W, a) \o Weigh(W, b)
      BY WeighIs
    <2>2. QED
      BY <2>1, TotalConcat
  <1>5. QED
    BY <1>1, <1>2, <1>3, <1>4

-----------------------------------------------------------------------------
(* The totals of a conversation.                                           *)

Usage == [tokens : Nat, images : Nat, traces : Nat]

\* What one message uses.
Cost(m) == [tokens |-> Tokens(m), images |-> ImageBytes(m), traces |-> m.trace]

LEMMA CostIs ==
    ASSUME NEW m \in Message
    PROVE  /\ Tokens(m) \in Nat /\ ImageBytes(m) \in Nat /\ m.trace \in Nat
           /\ Cost(m) \in Usage
  BY SessionAssumption DEF Tokens, ImageBytes, Message, Cost, Usage

LEMMA PlusIs ==
    \A a, b, c, d, e, f \in Nat :
        Plus([tokens |-> a, images |-> b, traces |-> c], [tokens |-> d, images |-> e, traces |-> f])
            = [tokens |-> a + d, images |-> b + e, traces |-> c + f]
  BY DEF Plus

LEMMA UseIs ==
    /\ Use(<<>>) = Empty
    /\ \A m \in Message : Use(<<m>>) = Cost(m)
    /\ \A a \in Seq(Message) : Use(a) \in Usage
    /\ \A a, b \in Seq(Message) : Use(a \o b) = Plus(Use(a), Use(b))
  <1> DEFINE T == [m \in Message |-> Tokens(m)]
             I == [m \in Message |-> ImageBytes(m)]
             R == [m \in Message |-> m.trace]
  <1>1. T \in [Message -> Nat] /\ I \in [Message -> Nat] /\ R \in [Message -> Nat]
    BY CostIs
  <1>2. ASSUME NEW a \in Seq(Message)
        PROVE  Use(a) = [tokens |-> Total(Weigh(T, a)), images |-> Total(Weigh(I, a)),
                         traces |-> Total(Weigh(R, a))]
    <2>1. \A i \in DOMAIN a : a[i] \in Message
      OBVIOUS
    <2>2. /\ [i \in DOMAIN a |-> Tokens(a[i])] = Weigh(T, a)
          /\ [i \in DOMAIN a |-> ImageBytes(a[i])] = Weigh(I, a)
          /\ [i \in DOMAIN a |-> a[i].trace] = Weigh(R, a)
      BY <2>1 DEF Weigh
    <2>3. QED
      BY <2>2 DEF Use
  <1>3. \A m \in Message : T[m] = Tokens(m) /\ I[m] = ImageBytes(m) /\ R[m] = m.trace
    OBVIOUS
  <1> HIDE DEF T, I, R
  <1>4. <<>> \in Seq(Message) /\ \A m \in Message : <<m>> \in Seq(Message)
    OBVIOUS
  <1>5. Use(<<>>) = Empty
    BY <1>1, <1>2, <1>4, WeightIs DEF Empty
  <1>6. ASSUME NEW m \in Message PROVE Use(<<m>>) = Cost(m)
    <2>1. /\ Total(Weigh(T, <<m>>)) = T[m] /\ Total(Weigh(I, <<m>>)) = I[m]
          /\ Total(Weigh(R, <<m>>)) = R[m]
      BY <1>1, WeightIs
    <2>2. QED
      BY <1>2, <1>3, <1>4, <2>1 DEF Cost
  <1>7. ASSUME NEW a \in Seq(Message) PROVE Use(a) \in Usage
    <2>1. Total(Weigh(T, a)) \in Nat /\ Total(Weigh(I, a)) \in Nat /\ Total(Weigh(R, a)) \in Nat
      BY <1>1, WeightIs
    <2>2. QED
      BY <1>2, <2>1 DEF Usage
  <1>8. ASSUME NEW a \in Seq(Message), NEW b \in Seq(Message)
        PROVE  Use(a \o b) = Plus(Use(a), Use(b))
    <2>1. a \o b \in Seq(Message)
      OBVIOUS
    <2>2. /\ Total(Weigh(T, a \o b)) = Total(Weigh(T, a)) + Total(Weigh(T, b))
          /\ Total(Weigh(I, a \o b)) = Total(Weigh(I, a)) + Total(Weigh(I, b))
          /\ Total(Weigh(R, a \o b)) = Total(Weigh(R, a)) + Total(Weigh(R, b))
      BY <1>1, WeightIs
    <2>3. \A s \in Seq(Message) : /\ Total(Weigh(T, s)) \in Nat /\ Total(Weigh(I, s)) \in Nat
                                   /\ Total(Weigh(R, s)) \in Nat
      BY <1>1, WeightIs
    <2>4. Plus(Use(a), Use(b)) =
            [tokens |-> Total(Weigh(T, a)) + Total(Weigh(T, b)),
             images |-> Total(Weigh(I, a)) + Total(Weigh(I, b)),
             traces |-> Total(Weigh(R, a)) + Total(Weigh(R, b))]
      <3>1. /\ Use(a) = [tokens |-> Total(Weigh(T, a)), images |-> Total(Weigh(I, a)),
                          traces |-> Total(Weigh(R, a))]
            /\ Use(b) = [tokens |-> Total(Weigh(T, b)), images |-> Total(Weigh(I, b)),
                          traces |-> Total(Weigh(R, b))]
        BY <1>2
      <3>2. QED
        BY <2>3, <3>1, PlusIs
    <2>5. QED
      BY <1>2, <2>1, <2>2, <2>4
  <1>9. QED
    BY <1>5, <1>6, <1>7, <1>8

\* Subtracting what was added gives back the rest, without a loss at zero.
LEMMA MinusPlus ==
    ASSUME NEW u \in Usage, NEW v \in Usage
    PROVE  /\ Minus(Plus(u, v), u) = v /\ Minus(Plus(u, v), v) = u
           /\ Plus(u, v) \in Usage /\ Plus(u, Empty) = u /\ Plus(Empty, u) = u
           /\ Plus(u, v) = Plus(v, u)
           /\ Plus(u, v).tokens = u.tokens + v.tokens
           /\ Plus(u, v).images = u.images + v.images
           /\ Plus(u, v).traces = u.traces + v.traces
           /\ Minus(u, Empty) = u
  BY DEF Usage, Minus, Plus, Monus, Empty

\* A sequence is what precedes a place and what follows it.
LEMMA Parts ==
    ASSUME NEW E, NEW s \in Seq(E), NEW k \in 0..Len(s)
    PROVE  /\ Leading(s, k) \in Seq(E) /\ Rest(s, k) \in Seq(E)
           /\ Len(Leading(s, k)) = k /\ Len(Rest(s, k)) = Len(s) - k
           /\ \A i \in 1..k : Leading(s, k)[i] = s[i]
           /\ \A i \in 1..(Len(s) - k) : Rest(s, k)[i] = s[k + i]
           /\ s = Leading(s, k) \o Rest(s, k)
  <1>1. /\ Leading(s, k) \in Seq(E) /\ Len(Leading(s, k)) = k
        /\ \A i \in 1..k : Leading(s, k)[i] = s[i]
    BY DEF Leading
  <1>2. /\ Rest(s, k) \in Seq(E) /\ Len(Rest(s, k)) = Len(s) - k
        /\ \A i \in 1..(Len(s) - k) : Rest(s, k)[i] = s[k + i]
    BY DEF Rest
  <1> DEFINE c == Leading(s, k) \o Rest(s, k)
  <1>3. c \in Seq(E) /\ Len(c) = Len(s)
        /\ \A i \in 1..Len(s) : c[i] = IF i <= k THEN Leading(s, k)[i] ELSE Rest(s, k)[i - k]
    BY <1>1, <1>2
  <1> HIDE DEF c
  <1>4. \A i \in 1..Len(s) : c[i] = s[i]
    <2>1. TAKE i \in 1..Len(s)
    <2>2. CASE i <= k
      BY <1>1, <1>3, <2>2
    <2>3. CASE i > k
      <3>1. i - k \in 1..(Len(s) - k) /\ k + (i - k) = i /\ ~(i <= k)
        BY <2>3
      <3>2. QED
        BY <1>2, <1>3, <3>1
    <2>4. QED
      BY <2>2, <2>3
  <1>5. s = c
    BY <1>3, <1>4
  <1>6. QED
    BY <1>1, <1>2, <1>5 DEF c

LEMMA UseParts ==
    ASSUME NEW ms \in Seq(Message), NEW k \in 0..Len(ms)
    PROVE  /\ Use(ms) = Plus(Use(Leading(ms, k)), Use(Rest(ms, k)))
           /\ Minus(Use(ms), Use(Leading(ms, k))) = Use(Rest(ms, k))
  <1>1. Leading(ms, k) \in Seq(Message) /\ Rest(ms, k) \in Seq(Message)
        /\ ms = Leading(ms, k) \o Rest(ms, k)
    BY Parts
  <1>2. Use(ms) = Plus(Use(Leading(ms, k)), Use(Rest(ms, k)))
    BY <1>1, UseIs
  <1>3. QED
    BY <1>1, <1>2, UseIs, MinusPlus

\* Replacing one message replaces its cost.
LEMMA UseExcept ==
    ASSUME NEW ms \in Seq(Message), NEW i \in 1..Len(ms), NEW m \in Message
    PROVE  /\ [ms EXCEPT ![i] = m] \in Seq(Message)
           /\ \E u \in Usage : /\ Use(ms) = Plus(u, Cost(ms[i]))
                               /\ Use([ms EXCEPT ![i] = m]) = Plus(u, Cost(m))
  <1> DEFINE ns == [ms EXCEPT ![i] = m]
             a == Leading(ms, i - 1)
             b == Rest(ms, i)
  <1>1. ns \in Seq(Message) /\ Len(ns) = Len(ms) /\ ns[i] = m
        /\ \A j \in 1..Len(ms) : j # i => ns[j] = ms[j]
    OBVIOUS
  <1>2. ASSUME NEW s \in Seq(Message), Len(s) = Len(ms),
               \A j \in 1..Len(ms) : j # i => s[j] = ms[j]
        PROVE  Use(s) = Plus(Plus(Use(a), Use(b)), Cost(s[i]))
    <2>1. i - 1 \in 0..Len(ms) /\ i \in 0..Len(ms) /\ s[i] \in Message /\ <<s[i]>> \in Seq(Message)
      BY <1>2
    <2>a. s \in Seq(Message) /\ i - 1 \in 0..Len(s) /\ Len(s) = Len(ms)
      BY <1>2
    <2>2. Leading(s, i - 1) = a
      <3>1. /\ a \in Seq(Message) /\ Len(a) = i - 1 /\ \A j \in 1..(i - 1) : a[j] = ms[j]
        BY <2>1, Parts
      <3>a. /\ Leading(s, i - 1) \in Seq(Message) /\ Len(Leading(s, i - 1)) = i - 1
            /\ \A j \in 1..(i - 1) : Leading(s, i - 1)[j] = s[j]
        BY <2>a, Parts
      <3>2. \A j \in 1..(i - 1) : s[j] = ms[j]
        BY <1>2
      <3> HIDE DEF a
      <3>3. \A j \in 1..(i - 1) : Leading(s, i - 1)[j] = a[j]
        BY <3>1, <3>a, <3>2
      <3>4. QED
        BY <3>1, <3>a, <3>3
    <2>3. Rest(s, i - 1) = <<s[i]>> \o b
      <3>1. /\ b \in Seq(Message) /\ Len(b) = Len(ms) - i
            /\ \A j \in 1..(Len(ms) - i) : b[j] = ms[i + j]
        BY <2>1, Parts
      <3>a. /\ Rest(s, i - 1) \in Seq(Message) /\ Len(Rest(s, i - 1)) = Len(ms) - (i - 1)
            /\ \A j \in 1..(Len(ms) - (i - 1)) : Rest(s, i - 1)[j] = s[(i - 1) + j]
        <4>1. /\ Rest(s, i - 1) \in Seq(Message) /\ Len(Rest(s, i - 1)) = Len(s) - (i - 1)
              /\ \A j \in 1..(Len(s) - (i - 1)) : Rest(s, i - 1)[j] = s[(i - 1) + j]
          BY <2>a, Parts
        <4>2. QED
          BY <2>a, <4>1
      <3> DEFINE one == <<s[i]>>
                 c == one \o b
                 r == Rest(s, i - 1)
      <3>2. /\ c \in Seq(Message) /\ Len(c) = Len(ms) - (i - 1)
            /\ c[1] = s[i] /\ \A j \in 1..(Len(ms) - i) : c[j + 1] = b[j]
        <4>1. one \in Seq(Message) /\ Len(one) = 1 /\ one[1] = s[i]
          BY <2>1
        <4> HIDE DEF b, one
        <4>2. /\ c \in Seq(Message) /\ Len(c) = 1 + Len(b)
              /\ \A j \in 1..(1 + Len(b)) : c[j] = IF j <= 1 THEN one[j] ELSE b[j - 1]
          <5>1. /\ c \in Seq(Message) /\ Len(c) = Len(one) + Len(b)
                /\ \A j \in 1..(Len(one) + Len(b)) :
                     c[j] = IF j <= Len(one) THEN one[j] ELSE b[j - Len(one)]
            <6>1. one \in Seq(Message) /\ b \in Seq(Message)
              BY <3>1, <4>1
            <6>2. QED
              BY <6>1
          <5> HIDE DEF c
          <5>2. QED
            BY <4>1, <5>1
        <4> HIDE DEF c
        <4>3. ASSUME NEW j \in 1..(Len(ms) - i) PROVE c[j + 1] = b[j]
          <5>1. j + 1 \in 1..(1 + Len(b)) /\ ~(j + 1 <= 1) /\ (j + 1) - 1 = j
            BY <3>1
          <5>2. QED
            BY <4>2, <5>1
        <4>4. QED
          BY <3>1, <4>1, <4>2, <4>3
      <3> HIDE DEF b, c, r, one
      <3>3. ASSUME NEW j \in 1..(Len(ms) - (i - 1)) PROVE r[j] = c[j]
        <4>1. CASE j = 1
          BY <3>a, <3>2, <4>1 DEF r
        <4>2. CASE j # 1
          <5>1. j - 1 \in 1..(Len(ms) - i) /\ (i - 1) + j = i + (j - 1) /\ (j - 1) + 1 = j
                /\ i + (j - 1) \in 1..Len(ms) /\ i + (j - 1) # i
            BY <4>2
          <5>2. c[j] = ms[i + (j - 1)] /\ r[j] = s[i + (j - 1)]
            BY <3>1, <3>a, <3>2, <5>1 DEF r
          <5>3. QED
            BY <1>2, <5>1, <5>2
        <4>3. QED
          BY <4>1, <4>2
      <3>4. r = c
        <4>1. r \in Seq(Message) /\ Len(r) = Len(ms) - (i - 1)
          BY <3>a DEF r
        <4>2. QED
          BY <4>1, <3>2, <3>3
      <3>5. QED
        BY <3>4 DEF c, r, one
    <2>4. Use(s) = Plus(Use(a), Plus(Cost(s[i]), Use(b)))
      <3>1. b \in Seq(Message) /\ a \in Seq(Message)
        BY <2>1, Parts
      <3> HIDE DEF a, b
      <3>2. Use(s) = Plus(Use(a), Use(Rest(s, i - 1)))
        BY <1>2, <2>1, <2>2, UseParts
      <3>3. Use(Rest(s, i - 1)) = Plus(Cost(s[i]), Use(b))
        BY <2>1, <2>3, <3>1, UseIs
      <3>4. QED
        BY <3>2, <3>3
    <2>5. Use(a) \in Usage /\ Use(b) \in Usage /\ Cost(s[i]) \in Usage
      BY <2>1, Parts, UseIs, CostIs
    <2> HIDE DEF a, b
    <2>6. Plus(Use(a), Plus(Cost(s[i]), Use(b))) = Plus(Plus(Use(a), Use(b)), Cost(s[i]))
      BY <2>5 DEF Usage, Plus
    <2>7. QED
      BY <2>4, <2>6
  <1>3. Plus(Use(a), Use(b)) \in Usage
    <2>1. i - 1 \in 0..Len(ms) /\ i \in 0..Len(ms)
      OBVIOUS
    <2>2. Use(a) \in Usage /\ Use(b) \in Usage
      BY <2>1, Parts, UseIs
    <2> HIDE DEF a, b
    <2>3. QED
      BY <2>2, MinusPlus
  <1> HIDE DEF a, b, ns
  <1>4. Use(ms) = Plus(Plus(Use(a), Use(b)), Cost(ms[i]))
    BY <1>2
  <1>5. Use(ns) = Plus(Plus(Use(a), Use(b)), Cost(m))
    BY <1>1, <1>2
  <1>6. QED
    BY <1>1, <1>3, <1>4, <1>5 DEF ns

-----------------------------------------------------------------------------
(* Pick.                                                                   *)

Picks(E, s, S, f) ==
    /\ f \in [0..Len(s) -> Seq(E)]
    /\ f[0] = <<>>
    /\ \A i \in 1..Len(s) : f[i] = IF s[i] \in S THEN Append(f[i - 1], s[i]) ELSE f[i - 1]

\* The equation that defines the function in Pick.
PickEquation(s, S, f) ==
    f = [i \in 0..Len(s) |->
           IF i = 0 THEN <<>> ELSE IF s[i] \in S THEN Append(f[i - 1], s[i]) ELSE f[i - 1]]

LEMMA PicksExist ==
    ASSUME NEW E, NEW s \in Seq(E), NEW S
    PROVE  \E f \in [0..Len(s) -> Seq(E)] : PickEquation(s, S, f)
  <1> DEFINE Upto(n) ==
                 \E f \in [0..n -> Seq(E)] :
                     f = [i \in 0..n |-> IF i = 0 THEN <<>>
                                         ELSE IF s[i] \in S THEN Append(f[i - 1], s[i]) ELSE f[i - 1]]
             T == {n \in Nat : n <= Len(s) => Upto(n)}
  <1>1. Upto(0)
    <2> DEFINE f == [i \in 0..0 |-> <<>>]
    <2>1. f \in [0..0 -> Seq(E)]
      OBVIOUS
    <2>2. f = [i \in 0..0 |-> IF i = 0 THEN <<>>
                              ELSE IF s[i] \in S THEN Append(f[i - 1], s[i]) ELSE f[i - 1]]
      OBVIOUS
    <2>3. QED
      BY <2>1, <2>2
  <1>2. ASSUME NEW n \in Nat, n + 1 <= Len(s), Upto(n) PROVE Upto(n + 1)
    <2>1. PICK f \in [0..n -> Seq(E)] :
              f = [i \in 0..n |-> IF i = 0 THEN <<>>
                                  ELSE IF s[i] \in S THEN Append(f[i - 1], s[i]) ELSE f[i - 1]]
      BY <1>2
    <2> DEFINE new == IF s[n + 1] \in S THEN Append(f[n], s[n + 1]) ELSE f[n]
               g == [i \in 0..(n + 1) |-> IF i = n + 1 THEN new ELSE f[i]]
    <2>2. s[n + 1] \in E /\ f[n] \in Seq(E)
      BY <1>2
    <2>3. new \in Seq(E)
      BY <2>2
    <2>4. g \in [0..(n + 1) -> Seq(E)]
      <3> HIDE DEF new
      <3>1. QED
        BY <2>3
    <2>5. \A i \in 0..(n + 1) :
             g[i] = IF i = 0 THEN <<>> ELSE IF s[i] \in S THEN Append(g[i - 1], s[i]) ELSE g[i - 1]
      <3>1. TAKE i \in 0..(n + 1)
      <3>2. CASE i = n + 1
        <4>1. g[i] = new /\ i - 1 = n /\ g[i - 1] = f[n] /\ i # 0
          <5> HIDE DEF new
          <5>1. QED
            BY <3>2
        <4> HIDE DEF g
        <4>2. QED
          BY <3>2, <4>1
      <3>3. CASE i # n + 1
        <4>1. i \in 0..n /\ (i # 0 => i - 1 \in 0..n)
          BY <3>3
        <4>2. f[i] = IF i = 0 THEN <<>> ELSE IF s[i] \in S THEN Append(f[i - 1], s[i]) ELSE f[i - 1]
          BY <2>1, <4>1
        <4>3. g[i] = f[i] /\ (i # 0 => g[i - 1] = f[i - 1])
          BY <4>1, <3>3
        <4> HIDE DEF g
        <4>4. QED
          BY <4>2, <4>3
      <3>4. QED
        BY <3>2, <3>3
    <2> HIDE DEF g
    <2>6. g = [i \in 0..(n + 1) |->
                 IF i = 0 THEN <<>> ELSE IF s[i] \in S THEN Append(g[i - 1], s[i]) ELSE g[i - 1]]
      BY <2>4, <2>5
    <2>7. QED
      BY <2>4, <2>6
  <1> HIDE DEF Upto
  <1>3. 0 \in T /\ \A n \in Nat : n \in T => n + 1 \in T
    BY <1>1, <1>2
  <1>4. \A n \in Nat : n \in T
    <2> HIDE DEF T
    <2>1. QED
      BY <1>3, Induction
  <1>5. Upto(Len(s))
    BY <1>4
  <1>6. QED
    BY <1>5 DEF Upto, PickEquation

LEMMA PickIs ==
    ASSUME NEW E, NEW s \in Seq(E), NEW S
    PROVE  \E f : Picks(E, s, S, f) /\ Pick(s, S) = f[Len(s)]
  <1>0. \E e : PickEquation(s, S, e)
    BY PicksExist
  <1>1. \E e : e = [i \in 0..Len(s) |->
                        IF i = 0 THEN <<>>
                        ELSE IF s[i] \in S THEN Append(e[i - 1], s[i]) ELSE e[i - 1]]
    BY <1>0 DEF PickEquation
  <1> DEFINE F == CHOOSE f : f = [i \in 0..Len(s) |->
                                    IF i = 0 THEN <<>>
                                    ELSE IF s[i] \in S THEN Append(f[i - 1], s[i]) ELSE f[i - 1]]
  <1>2. F = [i \in 0..Len(s) |-> IF i = 0 THEN <<>>
                                 ELSE IF s[i] \in S THEN Append(F[i - 1], s[i]) ELSE F[i - 1]]
    BY <1>1
  <1>3. Pick(s, S) = F[Len(s)]
    BY DEF Pick
  <1> HIDE DEF F
  <1>4. \A i \in 0..Len(s) :
           F[i] = IF i = 0 THEN <<>> ELSE IF s[i] \in S THEN Append(F[i - 1], s[i]) ELSE F[i - 1]
    BY <1>2
  <1>5. \A i \in 0..Len(s) : F[i] \in Seq(E)
    <2> DEFINE T == {n \in Nat : n <= Len(s) => F[n] \in Seq(E)}
    <2>1. 0 \in T
      <3>1. F[0] = <<>>
        BY <1>4
      <3>2. F[0] \in Seq(E)
        BY <3>1
      <3>3. QED
        BY <3>2
    <2>2. ASSUME NEW n \in Nat, n \in T PROVE n + 1 \in T
      <3>1. SUFFICES ASSUME n + 1 <= Len(s) PROVE F[n + 1] \in Seq(E)
        OBVIOUS
      <3>2. /\ F[n] \in Seq(E) /\ s[n + 1] \in E
            /\ n + 1 \in 0..Len(s) /\ n + 1 # 0 /\ (n + 1) - 1 = n
        BY <2>2, <3>1
      <3>3. F[n + 1] = IF s[n + 1] \in S THEN Append(F[n], s[n + 1]) ELSE F[n]
        BY <1>4, <3>2
      <3>4. QED
        BY <3>2, <3>3
    <2>3. \A n \in Nat : n \in T
      <3> HIDE DEF T
      <3>1. QED
        BY <2>1, <2>2, Induction
    <2>4. QED
      BY <2>3
  <1>6. Picks(E, s, S, F)
    <2> DEFINE e(i) == IF i = 0 THEN <<>> ELSE IF s[i] \in S THEN Append(F[i - 1], s[i]) ELSE F[i - 1]
    <2>1. F = [i \in 0..Len(s) |-> e(i)] /\ \A i \in 0..Len(s) : e(i) \in Seq(E)
      BY <1>2, <1>4, <1>5
    <2>2. F \in [0..Len(s) -> Seq(E)]
      <3> HIDE DEF e
      <3>1. QED
        BY <2>1
    <2>3. /\ F[0] = <<>>
          /\ \A i \in 1..Len(s) : F[i] = IF s[i] \in S THEN Append(F[i - 1], s[i]) ELSE F[i - 1]
      BY <1>4
    <2>4. QED
      BY <2>2, <2>3 DEF Picks
  <1>7. QED
    BY <1>3, <1>6

\* r is part of s, in the order of s: its i-th element is at the place h[i].
Embeds(r, s, h) ==
    /\ h \in [1..Len(r) -> 1..Len(s)]
    /\ \A i \in 1..Len(r) : r[i] = s[h[i]]
    /\ \A i, j \in 1..Len(r) : i < j => h[i] < h[j]

\* What is picked is in the sequence in the same order, and complete.
LEMMA PickEmbeds ==
    ASSUME NEW E, NEW s \in Seq(E), NEW S
    PROVE  /\ Pick(s, S) \in Seq(E)
           /\ \E h : /\ Embeds(Pick(s, S), s, h)
                     /\ \A i \in 1..Len(Pick(s, S)) : s[h[i]] \in S
                     /\ \A k \in 1..Len(s) : s[k] \in S => \E i \in 1..Len(Pick(s, S)) : h[i] = k
  <1>1. PICK f : Picks(E, s, S, f) /\ Pick(s, S) = f[Len(s)]
    BY PickIs
  <1>a. /\ \A i \in 0..Len(s) : f[i] \in Seq(E)
        /\ f[0] = <<>>
        /\ \A i \in 1..Len(s) : f[i] = IF s[i] \in S THEN Append(f[i - 1], s[i]) ELSE f[i - 1]
    BY <1>1 DEF Picks
  <1> DEFINE Holds(r, n, h) ==
                 /\ h \in [1..Len(r) -> 1..n]
                 /\ \A i \in 1..Len(r) : r[i] = s[h[i]] /\ s[h[i]] \in S
                 /\ \A i, j \in 1..Len(r) : i < j => h[i] < h[j]
                 /\ \A k \in 1..n : s[k] \in S => \E i \in 1..Len(r) : h[i] = k
             Upto(n) == \E h : Holds(f[n], n, h)
             T == {n \in Nat : n <= Len(s) => Upto(n)}
  <1>2. Upto(0)
    <2> DEFINE h == [i \in 1..0 |-> 0]
    <2>1. Len(f[0]) = 0
      BY <1>a
    <2>2. Holds(f[0], 0, h)
      BY <2>1
    <2>3. QED
      BY <2>2
  <1>3. ASSUME NEW n \in Nat, n + 1 <= Len(s), Upto(n) PROVE Upto(n + 1)
    <2>1. PICK h : Holds(f[n], n, h)
      BY <1>3
    <2>2. /\ n + 1 \in 1..Len(s) /\ (n + 1) - 1 = n /\ n \in 0..Len(s)
          /\ f[n] \in Seq(E) /\ s[n + 1] \in E
      BY <1>3, <1>a
    <2>3. CASE s[n + 1] \notin S
      <3>1. f[n + 1] = f[n]
        BY <1>a, <2>2, <2>3
      <3>2. Holds(f[n], n + 1, h)
        BY <2>1, <2>3
      <3>3. QED
        BY <3>1, <3>2
    <2>4. CASE s[n + 1] \in S
      <3> DEFINE r == f[n]
                 q == Append(r, s[n + 1])
                 m == Len(r)
                 g == [i \in 1..(m + 1) |-> IF i = m + 1 THEN n + 1 ELSE h[i]]
      <3>1. f[n + 1] = q
        BY <1>a, <2>2, <2>4
      <3>2. r \in Seq(E) /\ m \in Nat /\ Holds(r, n, h)
        BY <2>1, <2>2
      <3>3. /\ q \in Seq(E) /\ Len(q) = m + 1 /\ q[m + 1] = s[n + 1]
            /\ \A i \in 1..m : q[i] = r[i]
        <4> HIDE DEF r
        <4>1. QED
          BY <2>2, <3>2
      <3> HIDE DEF r, q, m
      <3>4. g \in [1..(m + 1) -> 1..(n + 1)]
        BY <3>2 DEF m
      <3>5. g[m + 1] = n + 1 /\ \A i \in 1..m : g[i] = h[i] /\ g[i] \in 1..n
        <4>1. m \in Nat /\ m + 1 \in 1..(m + 1) /\ \A i \in 1..m : i \in 1..(m + 1) /\ i # m + 1
          BY <3>2
        <4>2. \A i \in 1..m : h[i] \in 1..n
          BY <3>2 DEF m
        <4>3. \A i \in 1..m : g[i] = h[i]
          BY <4>1
        <4>4. g[m + 1] = n + 1
          BY <4>1
        <4>5. QED
          BY <4>2, <4>3, <4>4
      <3> HIDE DEF g
      <3>6. \A i \in 1..(m + 1) : q[i] = s[g[i]] /\ s[g[i]] \in S
        <4>1. TAKE i \in 1..(m + 1)
        <4>2. CASE i = m + 1
          BY <3>3, <3>5, <2>4, <4>2
        <4>3. CASE i # m + 1
          <5>1. i \in 1..m
            BY <4>3, <3>2
          <5>2. QED
            BY <5>1, <3>2, <3>3, <3>5 DEF m
        <4>4. QED
          BY <4>2, <4>3
      <3>7. \A i, j \in 1..(m + 1) : i < j => g[i] < g[j]
        <4>1. TAKE i, j \in 1..(m + 1)
        <4>2. SUFFICES ASSUME i < j PROVE g[i] < g[j]
          OBVIOUS
        <4>3. i \in 1..m
          BY <4>2, <3>2
        <4>4. CASE j = m + 1
          BY <3>5, <4>3, <4>4
        <4>5. CASE j # m + 1
          <5>1. j \in 1..m
            BY <4>5, <3>2
          <5>2. QED
            BY <5>1, <4>2, <4>3, <3>2, <3>5 DEF m
        <4>6. QED
          BY <4>4, <4>5
      <3>8. ASSUME NEW k \in 1..(n + 1), s[k] \in S PROVE \E i \in 1..(m + 1) : g[i] = k
        <4>1. CASE k = n + 1
          <5>1. m + 1 \in 1..(m + 1)
            BY <3>2
          <5>2. QED
            BY <5>1, <3>5, <4>1
        <4>2. CASE k # n + 1
          <5>1. k \in 1..n
            BY <4>2
          <5>2. PICK i \in 1..m : h[i] = k
            BY <5>1, <3>2, <3>8 DEF m
          <5>3. i \in 1..(m + 1) /\ g[i] = k
            BY <5>2, <3>2, <3>5
          <5>4. QED
            BY <5>3
        <4>3. QED
          BY <4>1, <4>2
      <3>9. Holds(q, n + 1, g)
        BY <3>3, <3>4, <3>6, <3>7, <3>8
      <3>10. QED
        BY <3>1, <3>9
    <2>5. QED
      BY <2>3, <2>4
  <1> HIDE DEF Upto
  <1>4. 0 \in T /\ \A n \in Nat : n \in T => n + 1 \in T
    BY <1>2, <1>3
  <1>5. \A n \in Nat : n \in T
    <2> HIDE DEF T
    <2>1. QED
      BY <1>4, Induction
  <1>6. Upto(Len(s))
    BY <1>5
  <1>7. PICK h : Holds(f[Len(s)], Len(s), h)
    BY <1>6 DEF Upto
  <1>8. Embeds(Pick(s, S), s, h)
    BY <1>1, <1>7 DEF Embeds
  <1>9. Pick(s, S) \in Seq(E)
    BY <1>1, <1>a
  <1>10. QED
    BY <1>1, <1>7, <1>8, <1>9

LEMMA LeadingIs ==
    ASSUME NEW E, NEW s \in Seq(E)
    PROVE  /\ Leading(s, 0) = <<>> /\ Leading(s, Len(s)) = s
           /\ Rest(s, 0) = s /\ Rest(s, Len(s)) = <<>>
           /\ \A n \in Nat : n + 1 <= Len(s) => Leading(s, n + 1) = Append(Leading(s, n), s[n + 1])
  <1>1. Leading(s, 0) = <<>> /\ Rest(s, Len(s)) = <<>>
    <2>1. /\ Leading(s, 0) \in Seq(E) /\ Len(Leading(s, 0)) = 0
          /\ Rest(s, Len(s)) \in Seq(E) /\ Len(Rest(s, Len(s))) = 0
      <3>1. 0 \in 0..Len(s) /\ Len(s) \in 0..Len(s)
        OBVIOUS
      <3>2. QED
        BY <3>1, Parts
    <2>2. QED
      BY <2>1
  <1>2. Leading(s, Len(s)) = s /\ Rest(s, 0) = s
    BY DEF Leading, Rest
  <1>3. ASSUME NEW n \in Nat, n + 1 <= Len(s)
        PROVE  Leading(s, n + 1) = Append(Leading(s, n), s[n + 1])
    <2> DEFINE a == Leading(s, n + 1)
               c == Leading(s, n)
               b == Append(c, s[n + 1])
    <2>1. n \in 0..Len(s) /\ n + 1 \in 0..Len(s) /\ s[n + 1] \in E
      BY <1>3
    <2>2. a \in Seq(E) /\ Len(a) = n + 1 /\ \A i \in 1..(n + 1) : a[i] = s[i]
      BY <2>1, Parts
    <2>3. c \in Seq(E) /\ Len(c) = n /\ \A i \in 1..n : c[i] = s[i]
      BY <2>1, Parts
    <2> HIDE DEF a, c
    <2>4. /\ b \in Seq(E) /\ Len(b) = n + 1 /\ b[n + 1] = s[n + 1]
          /\ \A i \in 1..n : b[i] = c[i]
      BY <2>1, <2>3
    <2> HIDE DEF b
    <2>5. \A i \in 1..(n + 1) : a[i] = b[i]
      <3>1. TAKE i \in 1..(n + 1)
      <3>2. CASE i = n + 1
        BY <2>2, <2>4, <3>2
      <3>3. CASE i # n + 1
        <4>1. i \in 1..n
          BY <3>3
        <4>2. QED
          BY <2>2, <2>3, <2>4, <4>1
      <3>4. QED
        BY <3>2, <3>3
    <2>6. a = b
      BY <2>2, <2>4, <2>5
    <2>7. QED
      BY <2>6 DEF a, b, c
  <1>4. QED
    BY <1>1, <1>2, <1>3

LEMMA UseAppend ==
    ASSUME NEW s \in Seq(Message), NEW m \in Message
    PROVE  Use(Append(s, m)) = Plus(Use(s), Cost(m))
  <1>1. <<m>> \in Seq(Message)
    OBVIOUS
  <1>2. Append(s, m) = s \o <<m>>
    OBVIOUS
  <1>3. QED
    BY <1>1, <1>2, UseIs

\* What two disjoint selections use together.
LEMMA PickUnion ==
    ASSUME NEW ms \in Seq(Message), NEW S, NEW T, NEW U,
           \A i \in 1..Len(ms) : /\ ms[i] \in U <=> ms[i] \in S \/ ms[i] \in T
                                 /\ ~(ms[i] \in S /\ ms[i] \in T)
    PROVE  Use(Pick(ms, U)) = Plus(Use(Pick(ms, S)), Use(Pick(ms, T)))
  <1>1. PICK f : Picks(Message, ms, S, f) /\ Pick(ms, S) = f[Len(ms)]
    BY PickIs
  <1>2. PICK g : Picks(Message, ms, T, g) /\ Pick(ms, T) = g[Len(ms)]
    BY PickIs
  <1>h. PICK h : Picks(Message, ms, U, h) /\ Pick(ms, U) = h[Len(ms)]
    BY PickIs
  <1>3. /\ f[0] = <<>> /\ g[0] = <<>> /\ h[0] = <<>>
        /\ \A i \in 0..Len(ms) :
             f[i] \in Seq(Message) /\ g[i] \in Seq(Message) /\ h[i] \in Seq(Message)
        /\ \A i \in 1..Len(ms) :
             /\ f[i] = IF ms[i] \in S THEN Append(f[i - 1], ms[i]) ELSE f[i - 1]
             /\ g[i] = IF ms[i] \in T THEN Append(g[i - 1], ms[i]) ELSE g[i - 1]
             /\ h[i] = IF ms[i] \in U THEN Append(h[i - 1], ms[i]) ELSE h[i - 1]
    BY <1>1, <1>2, <1>h DEF Picks
  <1> DEFINE Upto(n) == Use(h[n]) = Plus(Use(f[n]), Use(g[n]))
             N == {n \in Nat : n <= Len(ms) => Upto(n)}
  <1>4. Upto(0)
    <2>1. Empty = Plus(Empty, Empty)
      BY DEF Empty, Plus
    <2>2. QED
      BY <1>3, <2>1, UseIs
  <1>5. ASSUME NEW n \in Nat, n + 1 <= Len(ms), Upto(n) PROVE Upto(n + 1)
    <2> DEFINE m == ms[n + 1]
    <2>1. n \in 0..Len(ms) /\ n + 1 \in 1..Len(ms) /\ (n + 1) - 1 = n
      BY <1>5
    <2>a. m \in Message
      BY <2>1
    <2>2. f[n] \in Seq(Message) /\ g[n] \in Seq(Message) /\ h[n] \in Seq(Message)
      BY <1>3, <2>1
    <2>3. /\ f[n + 1] = IF m \in S THEN Append(f[n], m) ELSE f[n]
          /\ g[n + 1] = IF m \in T THEN Append(g[n], m) ELSE g[n]
          /\ h[n + 1] = IF m \in U THEN Append(h[n], m) ELSE h[n]
      BY <1>3, <2>1
    <2>4. (m \in U <=> m \in S \/ m \in T) /\ ~(m \in S /\ m \in T)
      BY <2>1 DEF m
    <2>5. Use(h[n]) = Plus(Use(f[n]), Use(g[n]))
      BY <1>5
    <2> HIDE DEF m
    <2>6. /\ Use(f[n]) \in Usage /\ Use(g[n]) \in Usage /\ Cost(m) \in Usage
          /\ Use(Append(h[n], m)) = Plus(Use(h[n]), Cost(m))
          /\ Use(Append(f[n], m)) = Plus(Use(f[n]), Cost(m))
          /\ Use(Append(g[n], m)) = Plus(Use(g[n]), Cost(m))
      BY <2>a, <2>2, UseIs, CostIs, UseAppend
    <2>7. \A u, v, w \in Usage : /\ Plus(Plus(u, v), w) = Plus(Plus(u, w), v)
                                 /\ Plus(Plus(u, v), w) = Plus(u, Plus(v, w))
      BY DEF Usage, Plus
    <2>8. CASE m \in S
      <3>1. /\ f[n + 1] = Append(f[n], m) /\ g[n + 1] = g[n] /\ h[n + 1] = Append(h[n], m)
        BY <2>3, <2>4, <2>8
      <3>2. QED
        BY <2>5, <2>6, <2>7, <3>1
    <2>9. CASE m \in T
      <3>1. /\ f[n + 1] = f[n] /\ g[n + 1] = Append(g[n], m) /\ h[n + 1] = Append(h[n], m)
        BY <2>3, <2>4, <2>9
      <3>2. QED
        BY <2>5, <2>6, <2>7, <3>1
    <2>10. CASE m \notin U
      <3>1. f[n + 1] = f[n] /\ g[n + 1] = g[n] /\ h[n + 1] = h[n]
        BY <2>3, <2>4, <2>10
      <3>2. QED
        BY <2>5, <3>1
    <2>11. QED
      BY <2>4, <2>8, <2>9, <2>10
  <1> HIDE DEF Upto
  <1>6. 0 \in N /\ \A n \in Nat : n \in N => n + 1 \in N
    BY <1>4, <1>5
  <1>7. \A n \in Nat : n \in N
    <2> HIDE DEF N
    <2>1. QED
      BY <1>6, Induction
  <1>8. Upto(Len(ms))
    BY <1>7
  <1>9. QED
    BY <1>1, <1>2, <1>h, <1>8 DEF Upto

\* Picking everything changes nothing.
LEMMA PickAll ==
    ASSUME NEW E, NEW s \in Seq(E), NEW S, \A i \in 1..Len(s) : s[i] \in S
    PROVE  Pick(s, S) = s
  <1>1. PICK f : Picks(E, s, S, f) /\ Pick(s, S) = f[Len(s)]
    BY PickIs
  <1>2. /\ f[0] = <<>>
        /\ \A i \in 1..Len(s) : f[i] = IF s[i] \in S THEN Append(f[i - 1], s[i]) ELSE f[i - 1]
    BY <1>1 DEF Picks
  <1> DEFINE N == {n \in Nat : n <= Len(s) => f[n] = Leading(s, n)}
  <1>3. 0 \in N
    BY <1>2, LeadingIs
  <1>4. ASSUME NEW n \in Nat, n \in N PROVE n + 1 \in N
    <2>1. SUFFICES ASSUME n + 1 <= Len(s) PROVE f[n + 1] = Leading(s, n + 1)
      OBVIOUS
    <2>2. n + 1 \in 1..Len(s) /\ (n + 1) - 1 = n /\ f[n] = Leading(s, n)
      BY <1>4, <2>1
    <2>3. f[n + 1] = Append(f[n], s[n + 1])
      BY <1>2, <2>2
    <2>4. QED
      BY <2>1, <2>2, <2>3, LeadingIs
  <1>5. \A n \in Nat : n \in N
    <2> HIDE DEF N
    <2>1. QED
      BY <1>3, <1>4, Induction
  <1>6. f[Len(s)] = Leading(s, Len(s))
    BY <1>5
  <1>7. QED
    BY <1>1, <1>6, LeadingIs

\* What is picked and what is left together use what the whole uses.
LEMMA PickUse ==
    ASSUME NEW ms \in Seq(Message), NEW S, NEW T,
           \A i \in 1..Len(ms) : ms[i] \in S <=> ms[i] \notin T
    PROVE  /\ Use(ms) = Plus(Use(Pick(ms, S)), Use(Pick(ms, T)))
           /\ Minus(Use(ms), Use(Pick(ms, S))) = Use(Pick(ms, T))
           /\ Use(Pick(ms, T)).traces <= Use(ms).traces
  <1>1. Pick(ms, Message) = ms
    BY PickAll
  <1>2. Use(Pick(ms, Message)) = Plus(Use(Pick(ms, S)), Use(Pick(ms, T)))
    <2>1. \A i \in 1..Len(ms) : /\ ms[i] \in Message <=> ms[i] \in S \/ ms[i] \in T
                                /\ ~(ms[i] \in S /\ ms[i] \in T)
      OBVIOUS
    <2>2. QED
      BY <2>1, PickUnion
  <1>3. Use(Pick(ms, S)) \in Usage /\ Use(Pick(ms, T)) \in Usage
    BY PickEmbeds, UseIs
  <1>4. Use(ms) = Plus(Use(Pick(ms, S)), Use(Pick(ms, T)))
    BY <1>1, <1>2
  <1>5. Minus(Use(ms), Use(Pick(ms, S))) = Use(Pick(ms, T))
    BY <1>3, <1>4, MinusPlus
  <1>6. Use(ms).traces = Use(Pick(ms, S)).traces + Use(Pick(ms, T)).traces
    BY <1>3, <1>4, MinusPlus
  <1>7. QED
    BY <1>3, <1>4, <1>5, <1>6 DEF Usage


-----------------------------------------------------------------------------
(* The order of a conversation.                                            *)

\* What is true of a message wherever it stands.
Sound(m) ==
    /\ m \in Message
    /\ m.id # 0 /\ m.turn # 0 /\ m.size <= MaxText
    /\ m.role = "User" => m.state = "Complete" /\ m.trace = 0
    /\ m.role = "Assistant" => m.image = "none"

\* What is true of a message and a later one: ids grow, and a turn is a
\* question and its answer.
Before(m, n) ==
    /\ m.id < n.id /\ m.turn <= n.turn
    /\ m.turn = n.turn => m.role = "User" /\ n.role = "Assistant"

Shape(ms) ==
    /\ ms \in Seq(Message)
    /\ \A i \in 1..Len(ms) : Sound(ms[i])
    /\ \A i, j \in 1..Len(ms) : i < j => Before(ms[i], ms[j])

\* What remains of a conversation is one.
LEMMA EmbedShape ==
    ASSUME NEW s, Shape(s), NEW r \in Seq(Message), NEW h, Embeds(r, s, h)
    PROVE  Shape(r)
  <1>1. /\ \A i \in 1..Len(r) : h[i] \in 1..Len(s) /\ r[i] = s[h[i]]
        /\ \A i, j \in 1..Len(r) : i < j => h[i] < h[j]
    BY DEF Embeds
  <1>2. QED
    BY <1>1 DEF Shape

LEMMA PickShape ==
    ASSUME NEW s, Shape(s), NEW S
    PROVE  Shape(Pick(s, S))
  <1>1. s \in Seq(Message)
    BY DEF Shape
  <1>2. QED
    BY <1>1, PickEmbeds, EmbedShape

LEMMA PartShape ==
    ASSUME NEW s, Shape(s), NEW k \in 0..Len(s)
    PROVE  Shape(Rest(s, k)) /\ Shape(Leading(s, k))
  <1>1. s \in Seq(Message)
    BY DEF Shape
  <1>2. /\ Leading(s, k) \in Seq(Message) /\ Rest(s, k) \in Seq(Message)
        /\ Len(Leading(s, k)) = k /\ Len(Rest(s, k)) = Len(s) - k
        /\ \A i \in 1..k : Leading(s, k)[i] = s[i]
        /\ \A i \in 1..(Len(s) - k) : Rest(s, k)[i] = s[k + i]
    BY <1>1, Parts
  <1>3. Shape(Rest(s, k))
    <2> DEFINE h == [i \in 1..(Len(s) - k) |-> k + i]
    <2>1. Embeds(Rest(s, k), s, h)
      BY <1>1, <1>2 DEF Embeds
    <2>2. QED
      BY <1>2, <2>1, EmbedShape
  <1>4. Shape(Leading(s, k))
    <2> DEFINE h == [i \in 1..k |-> i]
    <2>1. Embeds(Leading(s, k), s, h)
      BY <1>1, <1>2 DEF Embeds
    <2>2. QED
      BY <1>2, <2>1, EmbedShape
  <1>5. QED
    BY <1>3, <1>4

\* A change of messages in their places.
LEMMA MapShape ==
    ASSUME NEW s, Shape(s), NEW r \in Seq(Message), Len(r) = Len(s),
           \A i \in 1..Len(s) : /\ Sound(r[i])
                                /\ r[i].id = s[i].id /\ r[i].turn = s[i].turn /\ r[i].role = s[i].role
    PROVE  Shape(r)
  <1>1. \A i, j \in 1..Len(s) : i < j => Before(s[i], s[j])
    BY DEF Shape
  <1>2. \A i, j \in 1..Len(s) : i < j => Before(r[i], r[j])
    BY <1>1 DEF Before
  <1>3. QED
    BY <1>2 DEF Shape

LEMMA JoinShape ==
    ASSUME NEW a, Shape(a), NEW b, Shape(b),
           \A i \in 1..Len(a), j \in 1..Len(b) : Before(a[i], b[j])
    PROVE  /\ Shape(a \o b) /\ Len(a \o b) = Len(a) + Len(b)
           /\ \A i \in 1..Len(a) : (a \o b)[i] = a[i]
           /\ \A i \in 1..Len(b) : (a \o b)[Len(a) + i] = b[i]
           /\ \A i \in 1..(Len(a) + Len(b)) : (a \o b)[i] = IF i <= Len(a) THEN a[i] ELSE b[i - Len(a)]
  <1> DEFINE c == a \o b
  <1>1. a \in Seq(Message) /\ b \in Seq(Message)
    BY DEF Shape
  <1>2. /\ c \in Seq(Message) /\ Len(c) = Len(a) + Len(b)
        /\ \A i \in 1..(Len(a) + Len(b)) : c[i] = IF i <= Len(a) THEN a[i] ELSE b[i - Len(a)]
    BY <1>1
  <1>n. Len(a) \in Nat /\ Len(b) \in Nat
    BY <1>1
  <1> HIDE DEF c
  <1>3. ASSUME NEW i \in 1..Len(a) PROVE c[i] = a[i]
    BY <1>2, <1>n
  <1>4. ASSUME NEW i \in 1..Len(b) PROVE c[Len(a) + i] = b[i]
    <2>1. Len(a) + i \in 1..(Len(a) + Len(b)) /\ ~(Len(a) + i <= Len(a)) /\ (Len(a) + i) - Len(a) = i
      BY <1>n
    <2>2. QED
      BY <1>2, <2>1
  <1>5. ASSUME NEW i \in 1..Len(c) PROVE Sound(c[i])
    <2>1. CASE i <= Len(a)
      <3>1. i \in 1..Len(a)
        BY <1>2, <1>n, <2>1
      <3>2. QED
        BY <1>3, <3>1 DEF Shape
    <2>2. CASE ~(i <= Len(a))
      <3>1. i - Len(a) \in 1..Len(b) /\ c[i] = b[i - Len(a)]
        BY <1>2, <1>n, <2>2
      <3>2. QED
        BY <3>1 DEF Shape
    <2>3. QED
      BY <2>1, <2>2
  <1>6. ASSUME NEW i \in 1..Len(c), NEW j \in 1..Len(c), i < j PROVE Before(c[i], c[j])
    <2>1. CASE j <= Len(a)
      <3>1. i \in 1..Len(a) /\ j \in 1..Len(a)
        BY <1>2, <1>n, <1>6, <2>1
      <3>2. c[i] = a[i] /\ c[j] = a[j]
        BY <1>3, <3>1
      <3>3. QED
        BY <1>6, <3>1, <3>2 DEF Shape
    <2>2. CASE i <= Len(a) /\ ~(j <= Len(a))
      <3>1. i \in 1..Len(a) /\ j - Len(a) \in 1..Len(b)
        BY <1>2, <1>n, <2>2
      <3>2. c[i] = a[i] /\ c[j] = b[j - Len(a)]
        BY <1>2, <2>2
      <3>3. QED
        BY <3>1, <3>2
    <2>3. CASE ~(i <= Len(a))
      <3>1. i - Len(a) \in 1..Len(b) /\ j - Len(a) \in 1..Len(b) /\ i - Len(a) < j - Len(a)
            /\ ~(j <= Len(a))
        BY <1>2, <1>n, <1>6, <2>3
      <3>2. c[i] = b[i - Len(a)] /\ c[j] = b[j - Len(a)]
        BY <1>2, <2>3, <3>1
      <3>3. QED
        BY <3>1, <3>2 DEF Shape
    <2>4. QED
      BY <1>n, <2>1, <2>2, <2>3
  <1>7. Shape(c)
    BY <1>2, <1>5, <1>6 DEF Shape
  <1>8. QED
    BY <1>2, <1>3, <1>4, <1>7 DEF c

\* Messages of equal cost in their places use the same.
LEMMA UseSame ==
    ASSUME NEW a \in Seq(Message), NEW b \in Seq(Message), Len(a) = Len(b),
           \A i \in 1..Len(a) : /\ Tokens(a[i]) = Tokens(b[i])
                                /\ ImageBytes(a[i]) = ImageBytes(b[i])
                                /\ a[i].trace = b[i].trace
    PROVE  Use(a) = Use(b)
  <1>1. DOMAIN a = 1..Len(a) /\ DOMAIN b = 1..Len(a)
    OBVIOUS
  <1>2. /\ [i \in DOMAIN a |-> Tokens(a[i])] = [i \in DOMAIN b |-> Tokens(b[i])]
        /\ [i \in DOMAIN a |-> ImageBytes(a[i])] = [i \in DOMAIN b |-> ImageBytes(b[i])]
        /\ [i \in DOMAIN a |-> a[i].trace] = [i \in DOMAIN b |-> b[i].trace]
    BY <1>1
  <1>3. QED
    BY <1>2 DEF Use

-----------------------------------------------------------------------------
(* Eviction.                                                               *)

\* What Trim keeps is what follows a whole turn, with exact totals, and fits
\* unless all that may leave has left.
Trimmed(kept, ms, reply, more, extra, l, k) ==
    /\ k \in WholeTurns(ms, reply)
    /\ kept = [messages |-> Rest(ms, k), usage |-> Use(Rest(ms, k))]
    /\ \/ Fits(Len(ms) - k, Use(Rest(ms, k)), more, extra, l)
       \/ \A j \in WholeTurns(ms, reply) : j <= k

LEMMA TrimIs ==
    ASSUME NEW ms \in Seq(Message), NEW reply, NEW more, NEW extra, NEW l
    PROVE  \E k \in 0..Len(ms) : Trimmed(Trim(ms, Use(ms), reply, more, extra, l), ms, reply, more, extra, l, k)
  <1> DEFINE cuts == WholeTurns(ms, reply)
             enough == {k \in cuts : Fits(Len(ms) - k, Minus(Use(ms), Use(Leading(ms, k))), more, extra, l)}
             cut == IF enough # {} THEN Min(enough) ELSE Max(cuts)
  <1>1. Trim(ms, Use(ms), reply, more, extra, l)
            = [messages |-> Rest(ms, cut), usage |-> Minus(Use(ms), Use(Leading(ms, cut)))]
    BY DEF Trim
  <1>2. cuts \in SUBSET (0..Len(ms)) /\ 0 \in cuts
    BY DEF WholeTurns
  <1>3. enough \in SUBSET cuts
    OBVIOUS
  <1>4. \A k \in cuts : k \in 0..Len(ms) /\ Minus(Use(ms), Use(Leading(ms, k))) = Use(Rest(ms, k))
    BY <1>2, UseParts
  <1>5. \A k \in enough : Fits(Len(ms) - k, Use(Rest(ms, k)), more, extra, l)
    BY <1>4
  <1> HIDE DEF cuts, enough
  <1>6. CASE enough # {}
    <2>1. enough \in SUBSET Nat
      BY <1>2, <1>3
    <2>2. cut \in enough
      BY <1>6, <2>1, MinIs
    <2> HIDE DEF cut
    <2>3. Trimmed(Trim(ms, Use(ms), reply, more, extra, l), ms, reply, more, extra, l, cut)
      BY <1>1, <1>3, <1>4, <1>5, <2>2 DEF Trimmed, cuts
    <2>4. QED
      BY <1>3, <1>4, <2>2, <2>3
  <1>7. CASE enough = {}
    <2>1. cuts \in SUBSET Nat /\ cuts # {} /\ Len(ms) \in Nat /\ \A n \in cuts : n <= Len(ms)
      BY <1>2
    <2>2. cut \in cuts /\ \A n \in cuts : n <= cut
      BY <1>7, <2>1, MaxIs
    <2> HIDE DEF cut
    <2>3. Trimmed(Trim(ms, Use(ms), reply, more, extra, l), ms, reply, more, extra, l, cut)
      BY <1>1, <1>4, <2>2 DEF Trimmed, cuts
    <2>4. QED
      BY <1>4, <2>2, <2>3
  <1>8. QED
    BY <1>6, <1>7

\* Without a running reply everything may leave.
LEMMA AllMayLeave ==
    ASSUME NEW ms, Shape(ms)
    PROVE  Len(ms) \in WholeTurns(ms, NoReply)
  <1>1. Len(ms) \in Nat /\ \A i \in 1..Len(ms) : ms[i].turn # 0
    BY DEF Shape, Sound
  <1>2. QED
    BY <1>1 DEF WholeTurns, NoReply

\* A question and its reply end the conversation.
Answering(ms, reply) ==
    /\ Len(ms) >= 2
    /\ ms[Len(ms)].id = reply.message
    /\ ms[Len(ms)].turn = reply.turn /\ ms[Len(ms) - 1].turn = reply.turn

LEMMA LastTwo ==
    ASSUME NEW ms, Shape(ms), NEW reply, Answering(ms, reply)
    PROVE  /\ Len(ms) - 1 \in 1..Len(ms) /\ Len(ms) \in 1..Len(ms)
           /\ ms[Len(ms) - 1].role = "User" /\ ms[Len(ms)].role = "Assistant"
           /\ \A i \in 1..Len(ms) : i <= Len(ms) - 2 => ms[i].turn # reply.turn /\ ms[i].turn < reply.turn
           /\ reply.turn # 0
  <1> DEFINE n == Len(ms)
  <1>1. n \in Nat /\ n >= 2 /\ ms[n].turn = reply.turn /\ ms[n - 1].turn = reply.turn
    BY DEF Shape, Answering
  <1>2. n - 1 \in 1..n /\ n \in 1..n /\ n - 1 < n
    BY <1>1
  <1>3. \A i \in 1..n : Sound(ms[i]) /\ ms[i].turn \in Nat
    BY DEF Shape, Sound, Message
  <1>4. Before(ms[n - 1], ms[n])
    BY <1>2 DEF Shape
  <1>5. ASSUME NEW i \in 1..n, i <= n - 2 PROVE ms[i].turn # reply.turn /\ ms[i].turn < reply.turn
    <2>1. i < n - 1
      BY <1>1, <1>5
    <2>2. Before(ms[i], ms[n - 1])
      BY <1>2, <2>1 DEF Shape
    <2>3. ms[i].turn # ms[n - 1].turn /\ ms[i].turn <= ms[n - 1].turn
      BY <1>1, <1>4, <2>2 DEF Before
    <2>4. QED
      BY <1>1, <1>2, <1>3, <2>3
  <1>6. QED
    BY <1>1, <1>2, <1>3, <1>4, <1>5 DEF Before, Sound

\* The turn being answered stays, and everything before it may leave.
LEMMA AnsweredStays ==
    ASSUME NEW ms, Shape(ms), NEW reply, Answering(ms, reply)
    PROVE  /\ Len(ms) - 2 \in WholeTurns(ms, reply)
           /\ \A k \in WholeTurns(ms, reply) : k <= Len(ms) - 2
  <1> DEFINE n == Len(ms)
  <1>1. /\ n \in Nat /\ n >= 2 /\ ms[n - 1].turn = reply.turn /\ n - 1 \in 1..n
        /\ \A i \in 1..n : i <= n - 2 => ms[i].turn # reply.turn
    BY LastTwo DEF Shape, Answering
  <1>2. n - 2 \in WholeTurns(ms, reply)
    <2>1. n - 2 \in 0..n
      BY <1>1
    <2>2. \A i \in 1..(n - 2) : ms[i].turn # reply.turn
      BY <1>1
    <2>3. n - 2 \in 1..(n - 1) => ms[n - 2].turn # ms[(n - 2) + 1].turn
      <3>1. (n - 2) + 1 = n - 1
        BY <1>1
      <3>2. QED
        BY <1>1, <2>2, <3>1
    <2>4. QED
      BY <2>1, <2>2, <2>3 DEF WholeTurns
  <1>3. ASSUME NEW k \in WholeTurns(ms, reply) PROVE k <= n - 2
    <2>1. k \in 0..n /\ \A i \in 1..k : ms[i].turn # reply.turn
      BY DEF WholeTurns
    <2>2. ~(n - 1 \in 1..k)
      BY <1>1, <2>1
    <2>3. QED
      BY <1>1, <2>1, <2>2
  <1>4. QED
    BY <1>2, <1>3

-----------------------------------------------------------------------------
(* The inductive invariant.                                                *)

\* Only one turn is over the budgets.
OverBudget(ms, u, l) ==
    \/ Fits(Len(ms), u, 0, Empty, l)
    \/ \A i, j \in 1..Len(ms) : ms[i].turn = ms[j].turn

\* The reply that is running, and no other, is streaming.
Streams(ms, a) ==
    \A i \in 1..Len(ms) : ms[i].state = "Streaming" <=> a # NoReply /\ i = Len(ms)

\* An interruption is owed by the last message or by an empty conversation.
Owes(ms, pending) ==
    /\ EndsInterrupted(ms) => pending
    /\ pending => ms = <<>> \/ EndsInterrupted(ms)

\* A conversation at any moment, but for its budgets.
Steady(ms, u, a, pending) ==
    /\ Shape(ms)
    /\ u = Use(ms)
    /\ u.traces <= MaxTraces
    /\ a # NoReply => Answering(ms, a)
    /\ Streams(ms, a)
    /\ pending \in BOOLEAN /\ Owes(ms, pending)

\* The numbers given so far.
Numbered(ms, turns, ids) ==
    /\ turns \in Nat /\ ids \in Nat
    /\ \A i \in 1..Len(ms) : ms[i].turn <= turns /\ ms[i].id <= ids

IInv ==
    /\ limits \in Limits
    /\ nextResponse \in Nat
    /\ active \in [id : Nat, turn : Nat, message : Nat]
    /\ Steady(messages, usage, active, voicePending)
    /\ OverBudget(messages, usage, limits)
    /\ Numbered(messages, nextTurn, nextMessage)

LEMMA LimitsAre ==
    ASSUME NEW l \in Limits
    PROVE  l.messages \in Nat /\ l.messages >= 2 /\ l.tokens \in Nat /\ l.request \in Nat
  BY SessionAssumption

LEMMA FitsBare ==
    ASSUME NEW l \in Limits, NEW c \in Nat, NEW u \in Usage, NEW more \in Nat, NEW extra \in Usage,
           Fits(c, u, more, extra, l)
    PROVE  Fits(c, u, 0, Empty, l)
  <1>1. /\ l.messages \in Nat /\ l.tokens \in Nat /\ MaxImages \in Nat
        /\ u.tokens \in Nat /\ u.images \in Nat /\ extra.tokens \in Nat /\ extra.images \in Nat
    BY SessionAssumption DEF Usage
  <1>2. QED
    BY <1>1 DEF Fits, Empty

\* What is left of a conversation that made room.
Kept(kept, ms, a, more, extra, l, k) ==
    /\ k \in 0..Len(ms)
    /\ kept = [messages |-> Rest(ms, k), usage |-> Use(Rest(ms, k))]
    /\ Shape(Rest(ms, k)) /\ Len(Rest(ms, k)) = Len(ms) - k
    /\ \A i \in 1..(Len(ms) - k) : Rest(ms, k)[i] = ms[k + i]
    /\ a # NoReply => k <= Len(ms) - 2
    /\ \/ Fits(Len(Rest(ms, k)), Use(Rest(ms, k)), more, extra, l)
       \/ k = IF a = NoReply THEN Len(ms) ELSE Len(ms) - 2

LEMMA TrimKeeps ==
    ASSUME NEW ms, Shape(ms), NEW a, a # NoReply => Answering(ms, a),
           NEW more, NEW extra, NEW l
    PROVE  \E k \in 0..Len(ms) : Kept(Trim(ms, Use(ms), a, more, extra, l), ms, a, more, extra, l, k)
  <1>1. ms \in Seq(Message) /\ Len(ms) \in Nat
    BY DEF Shape
  <1>2. PICK k \in 0..Len(ms) : Trimmed(Trim(ms, Use(ms), a, more, extra, l), ms, a, more, extra, l, k)
    BY <1>1, TrimIs
  <1>3. /\ Shape(Rest(ms, k)) /\ Len(Rest(ms, k)) = Len(ms) - k
        /\ \A i \in 1..(Len(ms) - k) : Rest(ms, k)[i] = ms[k + i]
    BY <1>1, Parts, PartShape
  <1>4. a # NoReply => k <= Len(ms) - 2
    BY <1>2, AnsweredStays DEF Trimmed
  <1>5. \/ Fits(Len(Rest(ms, k)), Use(Rest(ms, k)), more, extra, l)
        \/ k = IF a = NoReply THEN Len(ms) ELSE Len(ms) - 2
    <2>1. CASE Fits(Len(ms) - k, Use(Rest(ms, k)), more, extra, l)
      BY <1>3, <2>1
    <2>2. CASE \A j \in WholeTurns(ms, a) : j <= k
      <3>1. CASE a = NoReply
        <4>1. Len(ms) <= k
          BY <2>2, <3>1, AllMayLeave
        <4>2. QED
          BY <1>1, <3>1, <4>1
      <3>2. CASE a # NoReply
        <4>1. Len(ms) - 2 <= k
          BY <2>2, <3>2, AnsweredStays
        <4>2. QED
          BY <1>1, <1>4, <3>2, <4>1
      <3>3. QED
        BY <3>1, <3>2
    <2>3. QED
      BY <1>2, <2>1, <2>2 DEF Trimmed
  <1>6. Kept(Trim(ms, Use(ms), a, more, extra, l), ms, a, more, extra, l, k)
    BY <1>2, <1>3, <1>4, <1>5 DEF Trimmed, Kept
  <1>7. QED
    BY <1>6

\* Making room keeps a conversation, and only one turn is over the budgets.
LEMMA KeptSteady ==
    ASSUME NEW ms, NEW u, NEW a, NEW pending, Steady(ms, u, a, pending),
           NEW more \in Nat, NEW extra \in Usage, NEW l \in Limits, NEW kept,
           NEW k, Kept(kept, ms, a, more, extra, l, k)
    PROVE  /\ Steady(kept.messages, kept.usage, a, pending)
           /\ OverBudget(kept.messages, kept.usage, l)
  <1> DEFINE n == Len(ms)
             r == Rest(ms, k)
  <1>1. /\ k \in 0..n /\ n \in Nat /\ ms \in Seq(Message)
        /\ kept.messages = r /\ kept.usage = Use(r)
        /\ Shape(r) /\ r \in Seq(Message) /\ Len(r) = n - k
        /\ \A i \in 1..(n - k) : r[i] = ms[k + i]
        /\ a # NoReply => k <= n - 2
        /\ Fits(Len(r), Use(r), more, extra, l) \/ k = IF a = NoReply THEN n ELSE n - 2
    BY DEF Kept, Steady, Shape
  <1>2. Use(r) \in Usage /\ Use(r).traces <= MaxTraces
    <2>1. Use(ms) = Plus(Use(Leading(ms, k)), Use(r)) /\ Leading(ms, k) \in Seq(Message)
      BY <1>1, UseParts, Parts
    <2>2. Use(r) \in Usage /\ Use(Leading(ms, k)) \in Usage
      BY <1>1, <2>1, UseIs
    <2>3. Use(ms).traces = Use(Leading(ms, k)).traces + Use(r).traces
      BY <2>1, <2>2, MinusPlus
    <2>4. Use(ms).traces <= MaxTraces /\ MaxTraces \in Nat
      BY SessionAssumption DEF Steady
    <2>5. QED
      BY <2>2, <2>3, <2>4 DEF Usage
  <1> HIDE DEF r
  <1>3. k < n => n - k \in 1..(n - k) /\ r # <<>> /\ ms # <<>> /\ r[Len(r)] = ms[n]
    <2> SUFFICES ASSUME k < n PROVE n - k \in 1..(n - k) /\ r # <<>> /\ ms # <<>> /\ r[Len(r)] = ms[n]
      OBVIOUS
    <2>1. n - k \in 1..(n - k) /\ k + (n - k) = n /\ Len(r) # 0 /\ Len(ms) # 0
      BY <1>1
    <2>2. r # <<>> /\ ms # <<>>
      BY <2>1
    <2>3. QED
      BY <1>1, <2>1, <2>2
  <1>4. a # NoReply => Answering(r, a)
    <2> SUFFICES ASSUME a # NoReply PROVE Answering(r, a)
      OBVIOUS
    <2>1. k < n /\ Len(r) >= 2 /\ (n - k) - 1 \in 1..(n - k) /\ k + ((n - k) - 1) = n - 1
      BY <1>1
    <2>2. r[Len(r) - 1] = ms[n - 1] /\ r[Len(r)] = ms[n]
      BY <1>1, <1>3, <2>1
    <2>3. Answering(ms, a)
      BY DEF Steady
    <2>4. QED
      BY <2>1, <2>2, <2>3 DEF Answering
  <1>5. Streams(r, a)
    <2> SUFFICES ASSUME NEW i \in 1..Len(r)
                 PROVE  r[i].state = "Streaming" <=> a # NoReply /\ i = Len(r)
      BY DEF Streams
    <2>1. i \in 1..(n - k) /\ k + i \in 1..n /\ (k + i = n <=> i = Len(r))
      BY <1>1
    <2>2. r[i] = ms[k + i] /\ (ms[k + i].state = "Streaming" <=> a # NoReply /\ k + i = n)
      BY <1>1, <2>1 DEF Steady, Streams
    <2>3. QED
      BY <2>1, <2>2
  <1>6. Owes(r, pending)
    <2>1. CASE k < n
      <3>1. Last(r) = Last(ms) /\ r # <<>> /\ ms # <<>>
        BY <1>3, <2>1 DEF Last
      <3>2. Owes(ms, pending)
        BY DEF Steady
      <3>3. QED
        BY <3>1, <3>2 DEF Owes, EndsInterrupted
    <2>2. CASE ~(k < n)
      <3>1. Len(r) = 0
        BY <1>1, <2>2
      <3>2. r = <<>>
        BY <1>1, <3>1
      <3>3. QED
        BY <3>2 DEF Owes, EndsInterrupted
    <2>3. QED
      BY <2>1, <2>2
  <1>7. Steady(r, Use(r), a, pending)
    BY <1>1, <1>2, <1>4, <1>5, <1>6 DEF Steady
  <1>8. OverBudget(r, Use(r), l)
    <2>1. CASE Fits(Len(r), Use(r), more, extra, l)
      <3>1. Len(r) \in Nat
        BY <1>1
      <3>2. QED
        BY <1>2, <2>1, <3>1, FitsBare DEF OverBudget
    <2>2. CASE k = n
      <3>1. Len(r) = 0
        BY <1>1, <2>2
      <3>2. QED
        BY <3>1 DEF OverBudget
    <2>3. CASE a # NoReply /\ k = n - 2
      <3>1. Len(r) = 2
        BY <1>1, <2>3
      <3>2. r[1].turn = a.turn /\ r[2].turn = a.turn
        BY <1>4, <2>3, <3>1 DEF Answering
      <3>3. QED
        BY <3>1, <3>2 DEF OverBudget
    <2>4. QED
      BY <1>1, <2>1, <2>2, <2>3
  <1>9. QED
    BY <1>1, <1>7, <1>8

-----------------------------------------------------------------------------
(* A new turn.                                                             *)

Question(text, image) ==
    [id |-> nextMessage + 1, turn |-> nextTurn + 1, role |-> "User",
     size |-> IF text = 0 /\ image = "live" THEN 1 ELSE text,
     image |-> image, trace |-> 0, state |-> "Complete"]

Reply ==
    [id |-> nextMessage + 2, turn |-> nextTurn + 1, role |-> "Assistant", size |-> 0,
     image |-> "none", trace |-> 0, state |-> "Streaming"]

Now == [id |-> nextResponse + 1, turn |-> nextTurn + 1, message |-> nextMessage + 2]

Turn(text, image) == <<Question(text, image), Reply>>

\* The request a turn sends, from the queue it leaves.
Requested(queue) ==
    LET trimmed == TrimRequest(Context(queue, Now), limits.request)
        context == IF voicePending THEN Announce(trimmed, LatestInterrupted) ELSE trimmed
    IN TrimRequest(context, limits.request)

StartFits(text, image) ==
    ~Rejected(Question(text, image), Use(Turn(text, image)), IF voicePending THEN MarkerSize ELSE 0)

LEMMA TurnIs ==
    ASSUME NEW text \in Sizes, NEW image \in {"none", "live"},
           nextMessage \in Nat, nextTurn \in Nat, StartFits(text, image)
    PROVE  /\ Question(text, image).size \in 1..MaxText
           /\ Sound(Question(text, image)) /\ Sound(Reply)
           /\ Shape(Turn(text, image)) /\ Len(Turn(text, image)) = 2
           /\ Use(Turn(text, image)) \in Usage /\ Use(Turn(text, image)).traces = 0
  <1> DEFINE q == Question(text, image)
             t == Turn(text, image)
  <1>1. text \in Nat /\ MaxText \in Nat
    BY SessionAssumption
  <1>2. q.size \in 1..MaxText
    BY DEF StartFits, Rejected
  <1>3. q.size \in Nat /\ q.size <= MaxText
    BY <1>1, <1>2
  <1>4. /\ q.id = nextMessage + 1 /\ q.turn = nextTurn + 1 /\ q.role = "User"
        /\ q.image = image /\ q.trace = 0 /\ q.state = "Complete"
    BY DEF Question
  <1>5. q = [id |-> q.id, turn |-> q.turn, role |-> q.role, size |-> q.size,
             image |-> q.image, trace |-> q.trace, state |-> q.state]
    BY DEF Question
  <1> HIDE DEF q
  <1>6. q \in Message
    <2>1. /\ q.id \in Nat /\ q.turn \in Nat /\ q.role \in {"User", "Assistant"}
          /\ q.image \in Images /\ q.trace \in Nat /\ q.state \in States
      BY <1>4 DEF Images, States
    <2>2. QED
      BY <1>3, <1>5, <2>1 DEF Message
  <1>7. Sound(q)
    <2>1. q.id # 0 /\ q.turn # 0
      BY <1>4
    <2>2. QED
      BY <1>3, <1>4, <1>6, <2>1 DEF Sound
  <1>8. Reply \in Message /\ Sound(Reply) /\ Reply.trace = 0
    BY <1>1 DEF Reply, Message, Images, States, Sound
  <1>9. Before(q, Reply)
    <2>1. q.id < Reply.id /\ q.turn <= Reply.turn /\ q.role = "User" /\ Reply.role = "Assistant"
      BY <1>4 DEF Reply
    <2>2. QED
      BY <2>1 DEF Before
  <1>10. t = <<q, Reply>>
    BY DEF Turn, q
  <1>11. Shape(t) /\ Len(t) = 2
    <2>1. t \in Seq(Message) /\ Len(t) = 2 /\ t[1] = q /\ t[2] = Reply
      BY <1>6, <1>8, <1>10
    <2>2. QED
      BY <1>7, <1>8, <1>9, <2>1 DEF Shape
  <1>12. Use(t) = Plus(Cost(q), Cost(Reply))
    <2>1. t = <<q>> \o <<Reply>>
      BY <1>10
    <2>2. <<q>> \in Seq(Message) /\ <<Reply>> \in Seq(Message)
      BY <1>6, <1>8
    <2>3. Use(t) = Plus(Use(<<q>>), Use(<<Reply>>))
      BY <2>1, <2>2, UseIs
    <2>4. QED
      BY <1>6, <1>8, <2>3, UseIs
  <1>13. Use(t) \in Usage /\ Use(t).traces = 0
    <2>1. Cost(q) \in Usage /\ Cost(Reply) \in Usage
      BY <1>6, <1>8, CostIs
    <2>2. Cost(q).traces = 0 /\ Cost(Reply).traces = 0
      BY <1>4, <1>8 DEF Cost
    <2>3. QED
      BY <1>12, <2>1, <2>2, MinusPlus
  <1>14. QED
    BY <1>2, <1>7, <1>8, <1>11, <1>13 DEF q, t

\* A turn that passes the tests finds room, so nothing leaves in vain.
LEMMA StartIs ==
    ASSUME IInv, NEW text \in Sizes, NEW image \in {"none", "live"}, StartTurn(text, image)
    PROVE  \/ /\ answer' = Answer("refused")
              /\ UNCHANGED <<messages, usage, limits, active, voicePending,
                             nextTurn, nextMessage, nextResponse>>
           \/ \E k \in 0..Len(messages) :
                /\ StartFits(text, image) /\ active = NoReply
                /\ Kept([messages |-> Rest(messages, k), usage |-> Use(Rest(messages, k))],
                        messages, NoReply, 2, Use(Turn(text, image)), limits, k)
                /\ Fits(Len(Rest(messages, k)), Use(Rest(messages, k)), 2, Use(Turn(text, image)), limits)
                /\ messages' = Rest(messages, k) \o Turn(text, image)
                /\ usage' = Plus(Use(Rest(messages, k)), Use(Turn(text, image)))
                /\ limits' = limits
                /\ nextTurn' = nextTurn + 1 /\ nextMessage' = nextMessage + 2
                /\ nextResponse' = nextResponse + 1
                /\ active' = Now /\ voicePending' = FALSE
                /\ answer' = Started(Requested(messages'), voicePending)
  <1> DEFINE extra == Use(Turn(text, image))
             kept == Trim(messages, usage, active, 2, extra, limits)
             queue == kept.messages \o Turn(text, image)
  <1>1. /\ limits' = limits
        /\ IF ~StartFits(text, image)
           THEN /\ answer' = Answer("refused")
                /\ UNCHANGED <<messages, usage, active, voicePending, nextTurn, nextMessage, nextResponse>>
           ELSE IF Fits(Len(kept.messages), kept.usage, 2, extra, limits)
           THEN /\ messages' = queue
                /\ usage' = Plus(kept.usage, extra)
                /\ nextTurn' = nextTurn + 1 /\ nextMessage' = nextMessage + 2
                /\ nextResponse' = nextResponse + 1
                /\ active' = Now /\ voicePending' = FALSE
                /\ answer' = Started(Requested(queue), voicePending)
           ELSE messages' = kept.messages
    BY DEF StartTurn, StartFits, Question, Reply, Turn, Now, Requested, Refuse, NoNewIds, Keep
  <1>2. CASE ~StartFits(text, image)
    BY <1>1, <1>2
  <1>3. CASE StartFits(text, image)
    <2>a. /\ active = NoReply /\ ~(extra.tokens > limits.tokens) /\ ~(extra.images > MaxImages)
      BY <1>3 DEF StartFits, Rejected
    <2>2. Shape(messages) /\ usage = Use(messages) /\ limits \in Limits
          /\ nextMessage \in Nat /\ nextTurn \in Nat
      BY DEF IInv, Steady, Numbered
    <2>3. extra \in Usage
      BY <1>3, <2>2, TurnIs
    <2> HIDE DEF extra, kept
    <2>1. /\ active = NoReply /\ extra.tokens <= limits.tokens /\ extra.images <= MaxImages
      <3>1. /\ extra.tokens \in Nat /\ extra.images \in Nat /\ limits.tokens \in Nat /\ MaxImages \in Nat
        BY <2>2, <2>3, LimitsAre, SessionAssumption DEF Usage
      <3>2. QED
        BY <2>a, <3>1
    <2>4. PICK k \in 0..Len(messages) : Kept(kept, messages, NoReply, 2, extra, limits, k)
      <3>1. kept = Trim(messages, Use(messages), NoReply, 2, extra, limits)
        BY <2>1, <2>2 DEF kept
      <3>2. QED
        BY <2>2, <3>1, TrimKeeps
    <2>5. /\ kept = [messages |-> Rest(messages, k), usage |-> Use(Rest(messages, k))]
          /\ \/ Fits(Len(Rest(messages, k)), Use(Rest(messages, k)), 2, extra, limits)
             \/ k = Len(messages)
      BY <2>4 DEF Kept
    <2>6. Fits(Len(Rest(messages, k)), Use(Rest(messages, k)), 2, extra, limits)
      <3>1. CASE k = Len(messages)
        <4>1. Rest(messages, k) = <<>>
          BY <2>2, <3>1, LeadingIs DEF Shape
        <4>2. Len(Rest(messages, k)) = 0 /\ Use(Rest(messages, k)) = Empty
          BY <4>1, UseIs
        <4>3. Fits(0, Empty, 2, extra, limits)
          <5>1. 0 + 2 <= limits.messages /\ extra.tokens \in Nat /\ extra.images \in Nat
            BY <2>2, <2>3, LimitsAre DEF Usage
          <5>2. QED
            BY <2>1, <5>1 DEF Fits, Empty
        <4>4. QED
          BY <4>2, <4>3
      <3>2. QED
        BY <2>5, <3>1
    <2>7. kept.messages = Rest(messages, k) /\ kept.usage = Use(Rest(messages, k))
      BY <2>5
    <2>8. QED
      BY <1>1, <1>3, <2>1, <2>4, <2>5, <2>6, <2>7 DEF extra
  <1>4. QED
    BY <1>2, <1>3

LEMMA StartKeeps ==
    ASSUME IInv, NEW text \in Sizes, NEW image \in {"none", "live"}, StartTurn(text, image)
    PROVE  IInv'
  <1>1. CASE UNCHANGED <<messages, usage, limits, active, voicePending, nextTurn, nextMessage, nextResponse>>
    BY <1>1 DEF IInv, Steady, OverBudget, Numbered, Owes, Streams, EndsInterrupted, Answering
  <1>2. ASSUME NEW k \in 0..Len(messages),
               StartFits(text, image), active = NoReply,
               Kept([messages |-> Rest(messages, k), usage |-> Use(Rest(messages, k))],
                    messages, NoReply, 2, Use(Turn(text, image)), limits, k),
               Fits(Len(Rest(messages, k)), Use(Rest(messages, k)), 2, Use(Turn(text, image)), limits),
               messages' = Rest(messages, k) \o Turn(text, image),
               usage' = Plus(Use(Rest(messages, k)), Use(Turn(text, image))),
               limits' = limits, nextTurn' = nextTurn + 1, nextMessage' = nextMessage + 2,
               nextResponse' = nextResponse + 1, active' = Now, voicePending' = FALSE
        PROVE  IInv'
    <2> DEFINE r == Rest(messages, k)
               t == Turn(text, image)
               q == Question(text, image)
               n == Len(r)
    <2>1. /\ limits \in Limits /\ nextMessage \in Nat /\ nextTurn \in Nat /\ nextResponse \in Nat
          /\ Steady(messages, usage, active, voicePending)
          /\ Numbered(messages, nextTurn, nextMessage)
      BY DEF IInv, Numbered
    <2>2. /\ Sound(q) /\ Sound(Reply) /\ Shape(t) /\ Len(t) = 2 /\ t[1] = q /\ t[2] = Reply
          /\ Use(t) \in Usage /\ Use(t).traces = 0
      BY <1>2, <2>1, TurnIs DEF Turn
    <2> DEFINE kept == [messages |-> r, usage |-> Use(r)]
    <2>3. Steady(r, Use(r), NoReply, voicePending)
      <3>1. Steady(kept.messages, kept.usage, active, voicePending)
        <4>1. Kept(kept, messages, active, 2, Use(t), limits, k) /\ 2 \in Nat
          BY <1>2
        <4> HIDE DEF kept, t
        <4>2. QED
          BY <2>1, <2>2, <4>1, KeptSteady
      <3>2. kept.messages = r /\ kept.usage = Use(r)
        OBVIOUS
      <3>3. QED
        BY <1>2, <3>1, <3>2
    <2>4. /\ Shape(r) /\ r \in Seq(Message) /\ n \in Nat /\ n = Len(messages) - k
          /\ \A i \in 1..n : r[i] = messages[k + i] /\ k + i \in 1..Len(messages)
      BY <1>2, <2>1 DEF Kept, Shape, Steady
    <2>q. /\ q.id = nextMessage + 1 /\ q.turn = nextTurn + 1 /\ q.state = "Complete"
          /\ Reply.id = nextMessage + 2 /\ Reply.turn = nextTurn + 1 /\ Reply.state = "Streaming"
      BY DEF Question, Reply
    <2> HIDE DEF r, t, q
    <2>5. \A i \in 1..n : r[i].turn \in Nat /\ r[i].id \in Nat /\ r[i].turn <= nextTurn /\ r[i].id <= nextMessage
      <3>1. \A i \in 1..n : r[i] \in Message
        BY <2>4
      <3>2. QED
        BY <2>1, <2>4, <3>1 DEF Numbered, Message
    <2>6. \A i \in 1..n, j \in 1..Len(t) : Before(r[i], t[j])
      <3>1. \A j \in 1..Len(t) : t[j] = q \/ t[j] = Reply
        BY <2>2
      <3>2. \A i \in 1..n : Before(r[i], q) /\ Before(r[i], Reply)
        BY <2>1, <2>q, <2>5 DEF Before
      <3>3. QED
        BY <3>1, <3>2
    <2> DEFINE c == r \o t
    <2>7. /\ Shape(c) /\ Len(c) = n + 2
          /\ \A i \in 1..n : c[i] = r[i]
          /\ c[n + 1] = q /\ c[n + 2] = Reply
      <3>1. /\ Shape(c) /\ Len(c) = n + Len(t)
            /\ \A i \in 1..n : c[i] = r[i]
            /\ \A i \in 1..Len(t) : c[n + i] = t[i]
        <4>1. Shape(r) /\ Shape(t) /\ \A i \in 1..Len(r), j \in 1..Len(t) : Before(r[i], t[j])
          BY <2>2, <2>4, <2>6
        <4>2. /\ Shape(r \o t) /\ Len(r \o t) = Len(r) + Len(t)
              /\ \A i \in 1..Len(r) : (r \o t)[i] = r[i]
              /\ \A i \in 1..Len(t) : (r \o t)[Len(r) + i] = t[i]
          BY <4>1, JoinShape
        <4>3. QED
          BY <4>2
      <3>2. 1 \in 1..Len(t) /\ 2 \in 1..Len(t)
        BY <2>2
      <3>3. QED
        BY <2>2, <3>1, <3>2
    <2>8. /\ Use(r) \in Usage /\ Use(c) = Plus(Use(r), Use(t))
      BY <2>2, <2>4, UseIs DEF Shape
    <2>u. /\ Plus(Use(r), Use(t)) \in Usage
          /\ Plus(Use(r), Use(t)).tokens = Use(r).tokens + Use(t).tokens
          /\ Plus(Use(r), Use(t)).images = Use(r).images + Use(t).images
          /\ Plus(Use(r), Use(t)).traces = Use(r).traces + Use(t).traces
      BY <2>2, <2>8, MinusPlus
    <2> HIDE DEF c
    <2>9. messages' = c /\ usage' = Use(c)
      BY <1>2, <2>8 DEF r, t, c
    <2>10. Use(c).traces <= MaxTraces
      <3>1. Use(r).traces <= MaxTraces /\ Use(r).traces \in Nat
        BY <2>3, <2>8 DEF Steady, Usage
      <3>2. QED
        BY <2>2, <2>8, <2>u, <3>1
    <2>11. Now # NoReply /\ Now.id \in Nat /\ Now \in [id : Nat, turn : Nat, message : Nat]
      <3>1. Now.turn # NoReply.turn
        BY <2>1 DEF Now, NoReply
      <3>2. QED
        BY <2>1, <3>1 DEF Now
    <2>12. Answering(c, Now)
      <3>1. Len(c) >= 2 /\ Len(c) - 1 = n + 1
        BY <2>4, <2>7
      <3>2. QED
        BY <2>7, <2>q, <3>1 DEF Answering, Now
    <2>13. Streams(c, Now)
      <3> SUFFICES ASSUME NEW i \in 1..Len(c) PROVE c[i].state = "Streaming" <=> i = n + 2
        BY <2>7, <2>11 DEF Streams
      <3>1. CASE i \in 1..n
        <4>1. r[i].state # "Streaming" /\ i # n + 2
          BY <2>3, <2>4, <3>1 DEF Steady, Streams
        <4>2. QED
          BY <2>7, <3>1, <4>1
      <3>2. CASE i = n + 1
        BY <2>4, <2>7, <2>q, <3>2
      <3>3. CASE i = n + 2
        BY <2>4, <2>7, <2>q, <3>3
      <3>4. i \in 1..n \/ i = n + 1 \/ i = n + 2
        <4>1. \A x \in Nat : \A y \in 1..(x + 2) : y \in 1..x \/ y = x + 1 \/ y = x + 2
          OBVIOUS
        <4>2. n \in Nat /\ i \in 1..(n + 2)
          BY <2>4, <2>7
        <4> HIDE DEF n
        <4>3. QED
          BY <4>1, <4>2
      <3>5. QED
        BY <3>1, <3>2, <3>3, <3>4
    <2>14. Owes(c, FALSE)
      <3>1. Last(c) = Reply
        BY <2>7 DEF Last
      <3>2. QED
        BY <2>q, <3>1 DEF Owes, EndsInterrupted
    <2>15. Steady(c, Use(c), Now, FALSE)
      BY <2>7, <2>10, <2>12, <2>13, <2>14 DEF Steady
    <2>16. OverBudget(c, Use(c), limits)
      <3>1. /\ n + 2 <= limits.messages
            /\ Use(r).tokens + Use(t).tokens <= limits.tokens
            /\ Use(r).images + Use(t).images <= MaxImages
        BY <1>2 DEF r, t, Fits
      <3>2. Fits(Len(c), Use(c), 0, Empty, limits)
        <4>1. Use(c).tokens \in Nat /\ Use(c).images \in Nat /\ Len(c) + 0 = n + 2
          BY <2>4, <2>7, <2>8, <2>u DEF Usage
        <4>2. QED
          BY <2>8, <2>u, <3>1, <4>1 DEF Fits, Empty
      <3>3. QED
        BY <3>2 DEF OverBudget
    <2>17. Numbered(c, nextTurn + 1, nextMessage + 2)
      <3> SUFFICES ASSUME NEW i \in 1..Len(c)
                   PROVE  c[i].turn <= nextTurn + 1 /\ c[i].id <= nextMessage + 2
        BY <2>1 DEF Numbered
      <3>1. CASE i \in 1..n
        BY <2>1, <2>5, <2>7, <3>1
      <3>2. CASE i = n + 1
        BY <2>1, <2>7, <2>q, <3>2
      <3>3. CASE i = n + 2
        BY <2>1, <2>7, <2>q, <3>3
      <3>4. i \in 1..n \/ i = n + 1 \/ i = n + 2
        <4>1. \A x \in Nat : \A y \in 1..(x + 2) : y \in 1..x \/ y = x + 1 \/ y = x + 2
          OBVIOUS
        <4>2. n \in Nat /\ i \in 1..(n + 2)
          BY <2>4, <2>7
        <4> HIDE DEF n
        <4>3. QED
          BY <4>1, <4>2
      <3>5. QED
        BY <3>1, <3>2, <3>3, <3>4
    <2>18. /\ limits' \in Limits /\ nextResponse' \in Nat
           /\ active' \in [id : Nat, turn : Nat, message : Nat]
      BY <1>2, <2>1, <2>11
    <2>19. Steady(messages, usage, active, voicePending)'
      BY <1>2, <2>9, <2>15
    <2>20. OverBudget(messages, usage, limits)' /\ Numbered(messages, nextTurn, nextMessage)'
      BY <1>2, <2>9, <2>16, <2>17
    <2>21. QED
      BY <2>18, <2>19, <2>20 DEF IInv
  <1>3. QED
    BY <1>1, <1>2, StartIs

-----------------------------------------------------------------------------
(* The running reply.                                                      *)

LEMMA ReplaceLast ==
    ASSUME NEW E, NEW s \in Seq(E), Len(s) # 0, NEW m \in E
    PROVE  Leading(s, Len(s) - 1) \o <<m>> = [s EXCEPT ![Len(s)] = m]
  <1> DEFINE n == Len(s)
             a == Leading(s, n - 1)
             one == <<m>>
             c == a \o one
             d == [s EXCEPT ![n] = m]
  <1>1. n \in Nat /\ n - 1 \in 0..n /\ n \in 1..n
    OBVIOUS
  <1>2. a \in Seq(E) /\ Len(a) = n - 1 /\ \A i \in 1..(n - 1) : a[i] = s[i]
    BY <1>1, Parts
  <1>3. one \in Seq(E) /\ Len(one) = 1 /\ one[1] = m
    OBVIOUS
  <1>4. d \in Seq(E) /\ Len(d) = n /\ d[n] = m /\ \A i \in 1..n : i # n => d[i] = s[i]
    BY <1>1
  <1> HIDE DEF a, one, d
  <1>5. c \in Seq(E) /\ Len(c) = Len(a) + Len(one)
        /\ \A i \in 1..(Len(a) + Len(one)) : c[i] = IF i <= Len(a) THEN a[i] ELSE one[i - Len(a)]
    <2>1. a \in Seq(E) /\ one \in Seq(E)
      BY <1>2, <1>3
    <2>2. QED
      BY <2>1
  <1> HIDE DEF c
  <1>6. Len(c) = n
    BY <1>1, <1>2, <1>3, <1>5
  <1>7. ASSUME NEW i \in 1..n PROVE c[i] = d[i]
    <2>1. CASE i = n
      <3>1. i \in 1..(Len(a) + Len(one)) /\ ~(i <= Len(a)) /\ i - Len(a) = 1
        BY <1>1, <1>2, <1>3, <2>1
      <3>2. c[i] = m
        BY <1>3, <1>5, <3>1
      <3>3. QED
        BY <1>4, <2>1, <3>2
    <2>2. CASE i # n
      <3>1. i \in 1..(Len(a) + Len(one)) /\ i <= Len(a) /\ i \in 1..(n - 1)
        BY <1>1, <1>2, <1>3, <2>2
      <3>2. c[i] = a[i]
        BY <1>5, <3>1
      <3>3. QED
        BY <1>2, <1>4, <2>2, <3>1, <3>2
    <2>3. QED
      BY <2>1, <2>2
  <1>8. c = d
    BY <1>4, <1>5, <1>6, <1>7
  <1>9. QED
    BY <1>8 DEF c, a, one, d

\* A change of messages in their places that leaves their states.
LEMMA MapSteady ==
    ASSUME NEW s, NEW a, NEW p, Steady(s, Use(s), a, p),
           NEW r \in Seq(Message), Len(r) = Len(s),
           \A i \in 1..Len(s) :
               /\ Sound(r[i])
               /\ r[i].id = s[i].id /\ r[i].turn = s[i].turn /\ r[i].role = s[i].role
               /\ r[i].state = s[i].state,
           Use(r).traces <= MaxTraces
    PROVE  Steady(r, Use(r), a, p)
  <1>1. Shape(s) /\ Len(s) \in Nat
    BY DEF Steady, Shape
  <1>2. Shape(r)
    BY <1>1, MapShape
  <1>3. a # NoReply => Answering(r, a)
    <2> SUFFICES ASSUME a # NoReply PROVE Answering(r, a)
      OBVIOUS
    <2>1. Answering(s, a)
      BY DEF Steady
    <2>2. Len(s) - 1 \in 1..Len(s) /\ Len(s) \in 1..Len(s)
      BY <1>1, <2>1 DEF Answering
    <2>3. QED
      BY <2>1, <2>2 DEF Answering
  <1>4. Streams(r, a)
    BY DEF Steady, Streams
  <1>5. Owes(r, p)
    <2>1. Owes(s, p)
      BY DEF Steady
    <2>2. CASE Len(s) = 0
      <3>1. s = <<>> /\ r = <<>>
        BY <1>1, <2>2 DEF Shape
      <3>2. QED
        BY <2>1, <3>1
    <2>3. CASE Len(s) # 0
      <3>1. Len(s) \in 1..Len(s) /\ s # <<>> /\ r # <<>>
        BY <1>1, <2>3
      <3>2. Last(r).state = Last(s).state
        BY <3>1 DEF Last
      <3>3. QED
        BY <2>1, <3>1, <3>2 DEF Owes, EndsInterrupted
    <2>4. QED
      BY <2>2, <2>3
  <1>6. QED
    BY <1>2, <1>3, <1>4, <1>5 DEF Steady

LEMMA AppendOne ==
    ASSUME NEW x \in Message, NEW y \in Message
    PROVE  Append(<<x>>, y) = <<x, y>>
  <1>1. <<x>> \in Seq(Message) /\ <<y>> \in Seq(Message)
    OBVIOUS
  <1>2. \A s \in Seq(Message) : Append(s, y) = s \o <<y>>
    OBVIOUS
  <1> DEFINE a == <<x>>
             b == <<y>>
             c == a \o b
             d == <<x, y>>
  <1>3. a \in Seq(Message) /\ Len(a) = 1 /\ a[1] = x /\ b \in Seq(Message) /\ Len(b) = 1 /\ b[1] = y
    OBVIOUS
  <1>4. d \in Seq(Message) /\ Len(d) = 2 /\ d[1] = x /\ d[2] = y
    OBVIOUS
  <1>5. Append(a, y) = c
    BY <1>1, <1>2
  <1> HIDE DEF a, b, d
  <1>6. /\ c \in Seq(Message) /\ Len(c) = Len(a) + Len(b)
        /\ \A i \in 1..(Len(a) + Len(b)) : c[i] = IF i <= Len(a) THEN a[i] ELSE b[i - Len(a)]
    <2>1. a \in Seq(Message) /\ b \in Seq(Message)
      BY <1>3
    <2>2. QED
      BY <2>1
  <1> HIDE DEF c
  <1>7. Len(c) = 2 /\ c[1] = x /\ c[2] = y
    BY <1>3, <1>6
  <1>8. \A i \in 1..2 : c[i] = d[i]
    BY <1>4, <1>7
  <1>9. c = d
    BY <1>4, <1>6, <1>7, <1>8
  <1>10. QED
    BY <1>5, <1>9 DEF a, d

LEMMA AppendKeeps ==
    ASSUME IInv, NEW r, NEW chunk \in Sizes, AppendResponse(r, chunk)
    PROVE  IInv' /\ (answer'.result = "refused" => UNCHANGED <<messages, usage, active, voicePending>>)
                 /\ answer'.result # "started"
  <1> DEFINE last == Last(messages)
             grown == [last EXCEPT !.size = @ + chunk]
             n == Len(messages)
             question == IF /\ n - 1 > 0 /\ messages[n - 1].turn = active.turn
                            /\ messages[n - 1].role = "User"
                         THEN <<messages[n - 1]>> ELSE <<>>
             extra == [Empty EXCEPT !.tokens = chunk]
             kept == Trim(messages, usage, active, 0, extra, limits)
             fits == kept.usage.tokens + chunk <= limits.tokens
             tests == /\ Current(r) /\ n \in Streamed /\ last.state = "Streaming"
                      /\ grown.size <= MaxText
                      /\ Use(Append(question, grown)).tokens <= limits.tokens
  <1>1. /\ UNCHANGED <<limits, active, voicePending, nextTurn, nextMessage, nextResponse>>
        /\ IF tests
           THEN /\ messages' = IF fits THEN Leading(kept.messages, Len(kept.messages) - 1) \o <<grown>>
                               ELSE kept.messages
                /\ usage' = IF fits THEN Plus(kept.usage, extra) ELSE kept.usage
                /\ answer' = Answer(IF fits THEN "ok" ELSE "refused")
           ELSE answer' = Answer("refused") /\ UNCHANGED <<messages, usage>>
    BY DEF AppendResponse, NoNewIds, Refuse
  <1>2. CASE ~tests
    <2>1. UNCHANGED <<messages, usage, limits, active, voicePending, nextTurn, nextMessage, nextResponse>>
      BY <1>1, <1>2
    <2>2. answer'.result # "started"
      BY <1>1, <1>2 DEF Answer
    <2>3. QED
      BY <2>1, <2>2 DEF IInv, Steady, OverBudget, Numbered, Owes, Streams, EndsInterrupted, Answering
  <1>3. CASE tests
    <2>1. /\ Current(r) /\ last.state = "Streaming" /\ grown.size <= MaxText
          /\ Use(Append(question, grown)).tokens <= limits.tokens
      BY <1>3
    <2>2. active # NoReply
      BY <2>1 DEF Current
    <2>3. /\ limits \in Limits /\ Steady(messages, usage, active, voicePending)
          /\ Shape(messages) /\ messages \in Seq(Message) /\ n \in Nat /\ usage = Use(messages)
          /\ Numbered(messages, nextTurn, nextMessage)
          /\ chunk \in Nat /\ MaxText \in Nat /\ MaxTraces \in Nat
      BY SessionAssumption DEF IInv, Steady, Shape
    <2>4. Answering(messages, active)
      BY <2>2, <2>3 DEF Steady
    <2>5. /\ n >= 2 /\ n - 1 \in 1..n /\ n \in 1..n
          /\ messages[n - 1].role = "User" /\ messages[n - 1].turn = active.turn
          /\ messages[n].role = "Assistant"
          /\ messages[n - 1] \in Message /\ last = messages[n]
      BY <2>3, <2>4, LastTwo DEF Answering, Last
    <2>6. question = <<messages[n - 1]>>
      BY <2>3, <2>5
    <2>7. Sound(last) /\ last \in Message
      BY <2>3, <2>5 DEF Shape, Sound
    <2>8. /\ grown \in Message /\ Sound(grown)
          /\ Cost(grown) = Plus(Cost(last), extra)
          /\ grown.id = last.id /\ grown.turn = last.turn /\ grown.role = last.role
          /\ grown.state = last.state
      <3> HIDE DEF last
      <3>1. /\ grown \in Message /\ grown.id = last.id /\ grown.turn = last.turn
            /\ grown.role = last.role /\ grown.state = last.state
            /\ grown.image = last.image /\ grown.trace = last.trace
            /\ grown.size = last.size + chunk
        <4>1. /\ last \in [id : Nat, turn : Nat, role : {"User", "Assistant"}, size : Nat,
                           image : Images, trace : Nat, state : States]
              /\ last.size + chunk \in Nat
          BY <2>3, <2>7 DEF Message
        <4>2. grown = [last EXCEPT !.size = last.size + chunk]
          OBVIOUS
        <4> HIDE DEF grown
        <4>3. QED
          BY <4>1, <4>2 DEF Message
      <3>2. last.size \in Nat /\ last.image = "none" /\ last.trace \in Nat
        BY <2>5, <2>7 DEF Sound, Message
      <3> HIDE DEF grown
      <3>3. Sound(grown)
        BY <2>1, <2>5, <2>7, <3>1 DEF Sound
      <3>4. /\ Tokens(grown) = Tokens(last) + chunk /\ Tokens(last) \in Nat
            /\ ImageBytes(grown) = ImageBytes(last) /\ ImageBytes(last) \in Nat
        BY <2>3, <3>1, <3>2, SessionAssumption DEF Tokens, ImageBytes
      <3>5. extra = [tokens |-> chunk, images |-> 0, traces |-> 0]
        BY DEF Empty
      <3> HIDE DEF extra
      <3>6. Cost(grown) = Plus(Cost(last), extra)
        BY <2>3, <3>1, <3>2, <3>4, <3>5, PlusIs DEF Cost
      <3>7. QED
        BY <3>1, <3>3, <3>6
    <2>9. extra \in Usage /\ extra.tokens = chunk /\ extra.images = 0 /\ extra.traces = 0
      BY <2>3 DEF Usage, Empty
    <2> HIDE DEF grown, last, extra, question
    <2>10. PICK k \in 0..n : Kept(kept, messages, active, 0, extra, limits, k)
      BY <2>3, <2>4, TrimKeeps
    <2> DEFINE R == Rest(messages, k)
               m == Len(R)
               N == [R EXCEPT ![m] = grown]
    <2>11. /\ Steady(R, Use(R), active, voicePending)
           /\ Shape(R) /\ R \in Seq(Message) /\ m = n - k /\ m >= 2 /\ m \in 1..m
           /\ m \in Nat /\ R[m] = last /\ R[m - 1] = messages[n - 1] /\ k <= n - 2 /\ m - 1 \in 1..m
           /\ kept.messages = R /\ kept.usage = Use(R)
           /\ Fits(m, Use(R), 0, extra, limits) \/ k = n - 2
      <3>1. /\ kept = [messages |-> R, usage |-> Use(R)] /\ Shape(R) /\ m = n - k /\ k <= n - 2
            /\ \A i \in 1..(n - k) : R[i] = messages[k + i]
            /\ Fits(m, Use(R), 0, extra, limits) \/ k = n - 2
        BY <2>2, <2>10 DEF Kept
      <3>2. kept.messages = R /\ kept.usage = Use(R)
        BY <3>1
      <3>3. Steady(kept.messages, kept.usage, active, voicePending)
        <4> HIDE DEF kept
        <4>1. QED
          BY <2>3, <2>9, <2>10, KeptSteady
      <3>4. /\ m \in Nat /\ m >= 2 /\ m \in 1..(n - k) /\ m - 1 \in 1..(n - k) /\ k + m = n
            /\ k + (m - 1) = n - 1
        BY <2>3, <3>1
      <3> HIDE DEF R, kept
      <3>5. R[m] = messages[n] /\ R[m - 1] = messages[n - 1]
        BY <3>1, <3>4
      <3>6. QED
        BY <2>5, <3>1, <3>2, <3>3, <3>4, <3>5 DEF Shape
    <2> HIDE DEF R, kept
    <2>12. /\ N \in Seq(Message) /\ Len(N) = m /\ N[m] = grown
           /\ \A i \in 1..m : i # m => N[i] = R[i]
      BY <2>8, <2>11
    <2>13. Use(N) = Plus(Use(R), extra) /\ Use(R) \in Usage
      <3>1. PICK u \in Usage : Use(R) = Plus(u, Cost(R[m])) /\ Use(N) = Plus(u, Cost(grown))
        BY <2>8, <2>11, UseExcept
      <3>2. /\ Use(R) = Plus(u, Cost(last)) /\ Use(N) = Plus(u, Plus(Cost(last), extra))
            /\ Cost(last) \in Usage
        BY <2>7, <2>8, <2>11, <3>1, CostIs
      <3>3. \A v, w, x \in Usage : Plus(v, Plus(w, x)) = Plus(Plus(v, w), x) /\ Plus(v, w) \in Usage
        BY DEF Usage, Plus
      <3>4. QED
        BY <2>9, <3>1, <3>2, <3>3
    <2> HIDE DEF N
    <2>14. fits
      <3>1. kept.usage.tokens = Use(R).tokens /\ limits.tokens \in Nat /\ Use(R).tokens \in Nat
        BY <2>3, <2>11, <2>13, LimitsAre DEF Usage
      <3>2. CASE Fits(m, Use(R), 0, extra, limits)
        BY <2>9, <3>1, <3>2 DEF Fits
      <3>3. CASE k = n - 2
        <4> DEFINE two == <<messages[n - 1], grown>>
        <4>1. Append(question, grown) = two
          <5>1. QED
            BY <2>5, <2>6, <2>8, AppendOne
        <4>2. N = two
          <5>1. m = 2 /\ N[1] = R[1] /\ R[1] = messages[n - 1] /\ N[2] = grown
            BY <2>3, <2>11, <2>12, <3>3
          <5>2. two \in Seq(Message) /\ Len(two) = 2 /\ two[1] = messages[n - 1] /\ two[2] = grown
            BY <2>5, <2>8
          <5> HIDE DEF two
          <5>3. \A i \in 1..2 : N[i] = two[i]
            BY <5>1, <5>2
          <5>4. QED
            BY <2>12, <5>1, <5>2, <5>3
        <4>3. Use(N).tokens = Use(R).tokens + chunk
          BY <2>9, <2>13, MinusPlus
        <4> HIDE DEF two
        <4>4. QED
          BY <2>1, <3>1, <4>1, <4>2, <4>3
      <3>4. QED
        BY <2>11, <3>2, <3>3
    <2>15. messages' = N /\ usage' = Use(N) /\ answer' = Answer("ok")
      <3>1. /\ messages' = Leading(kept.messages, Len(kept.messages) - 1) \o <<grown>>
            /\ usage' = Plus(kept.usage, extra) /\ answer' = Answer("ok")
        BY <1>1, <1>3, <2>14
      <3>2. Leading(R, m - 1) \o <<grown>> = N
        <4>1. R \in Seq(Message) /\ Len(R) # 0 /\ grown \in Message
          BY <2>8, <2>11
        <4>2. Leading(R, Len(R) - 1) \o <<grown>> = [R EXCEPT ![Len(R)] = grown]
          BY <4>1, ReplaceLast
        <4>3. QED
          BY <4>2 DEF N
      <3>3. QED
        BY <2>11, <2>13, <3>1, <3>2
    <2>16. Steady(N, Use(N), active, voicePending)
      <3>1. \A i \in 1..m : /\ Sound(N[i]) /\ N[i].id = R[i].id /\ N[i].turn = R[i].turn
                            /\ N[i].role = R[i].role /\ N[i].state = R[i].state
        BY <2>8, <2>11, <2>12 DEF Shape
      <3>2. Use(N).traces <= MaxTraces
        <4>1. Use(R).traces <= MaxTraces /\ Use(R).traces \in Nat
          BY <2>11, <2>13 DEF Steady, Usage
        <4>2. Use(N).traces = Use(R).traces + 0
          BY <2>9, <2>13, MinusPlus
        <4>3. QED
          BY <4>1, <4>2
      <3>3. QED
        BY <2>11, <2>12, <3>1, <3>2, MapSteady
    <2>17. OverBudget(N, Use(N), limits)
      <3>1. CASE Fits(m, Use(R), 0, extra, limits)
        <4>1. /\ Use(N).tokens = Use(R).tokens + chunk /\ Use(N).images = Use(R).images + 0
              /\ Use(R).tokens \in Nat /\ Use(R).images \in Nat
          BY <2>9, <2>13, MinusPlus DEF Usage
        <4>2. Fits(m, Use(N), 0, Empty, limits)
          BY <2>3, <2>9, <2>11, <3>1, <4>1 DEF Fits, Empty
        <4>3. QED
          BY <2>12, <4>2 DEF OverBudget
      <3>2. CASE k = n - 2
        <4>1. m = 2
          BY <2>3, <2>11, <3>2
        <4>2. N[1].turn = active.turn /\ N[2].turn = active.turn
          BY <2>2, <2>12, <2>16, <4>1 DEF Steady, Answering
        <4>3. QED
          BY <2>12, <4>1, <4>2 DEF OverBudget
      <3>3. QED
        BY <2>11, <3>1, <3>2
    <2>18. Numbered(N, nextTurn, nextMessage)
      <3>1. \A i \in 1..m : k + i \in 1..n /\ R[i] = messages[k + i]
        <4>1. \A i \in 1..m : i \in 1..(n - k) /\ k + i \in 1..n
          BY <2>3, <2>11
        <4>2. QED
          BY <2>10, <4>1 DEF Kept, R
      <3>2. \A i \in 1..m : N[i].id = R[i].id /\ N[i].turn = R[i].turn
        BY <2>8, <2>11, <2>12
      <3>3. QED
        BY <2>3, <2>12, <3>1, <3>2 DEF Numbered
    <2>19. Steady(messages, usage, active, voicePending)'
      BY <1>1, <2>15, <2>16
    <2>20. OverBudget(messages, usage, limits)' /\ Numbered(messages, nextTurn, nextMessage)'
      BY <1>1, <2>15, <2>17, <2>18
    <2>21. IInv'
      BY <1>1, <2>19, <2>20 DEF IInv
    <2>22. QED
      BY <2>15, <2>21 DEF Answer
  <1>4. QED
    BY <1>2, <1>3

\* A call that starts no turn, and that changes nothing if it is refused.
Quiet ==
    /\ answer'.result # "started"
    /\ answer'.result = "refused" => UNCHANGED <<messages, usage, active, voicePending>>

LEMMA RefusedKeeps ==
    ASSUME IInv, answer' = Answer("refused"),
           UNCHANGED <<messages, usage, limits, active, voicePending, nextTurn, nextMessage, nextResponse>>
    PROVE  IInv' /\ Quiet
  BY DEF IInv, Steady, OverBudget, Numbered, Owes, Streams, EndsInterrupted, Answering, Quiet, Answer

\* Where the running reply is.
LEMMA StreamedIs ==
    ASSUME IInv, active # NoReply
    PROVE  /\ Streamed = {Len(messages)} /\ Len(messages) \in 1..Len(messages)
           /\ messages[Len(messages)].state = "Streaming"
           /\ messages[Len(messages)].role = "Assistant"
           /\ messages[Len(messages)].turn = active.turn
           /\ voicePending = FALSE
  <1> DEFINE n == Len(messages)
  <1>1. /\ Shape(messages) /\ Answering(messages, active) /\ Streams(messages, active)
        /\ Owes(messages, voicePending) /\ voicePending \in BOOLEAN /\ messages \in Seq(Message)
    BY DEF IInv, Steady, Shape
  <1>2. /\ n \in 1..n /\ n \in Nat /\ messages[n].role = "Assistant"
        /\ messages[n].id = active.message /\ messages[n].turn = active.turn
    BY <1>1, LastTwo DEF Answering
  <1>3. messages[n].state = "Streaming"
    BY <1>1, <1>2 DEF Streams
  <1>4. ASSUME NEW i \in 1..n, messages[i].id = active.message PROVE i = n
    <2>1. CASE i < n
      <3>1. messages[i].id < messages[n].id /\ messages[i].id \in Nat
        BY <1>1, <1>2, <2>1 DEF Shape, Before, Sound, Message
      <3>2. QED
        BY <1>2, <1>4, <3>1
    <2>2. QED
      BY <1>2, <2>1
  <1>5. DOMAIN messages = 1..n
    BY <1>1
  <1>6. Streamed = {n}
    BY <1>2, <1>4, <1>5 DEF Streamed
  <1>7. voicePending = FALSE
    <2>1. messages # <<>> /\ Last(messages) = messages[n]
      BY <1>1, <1>2 DEF Last
    <2>2. ~EndsInterrupted(messages)
      BY <1>3, <2>1 DEF EndsInterrupted
    <2>3. QED
      BY <1>1, <2>1, <2>2 DEF Owes
  <1>8. QED
    BY <1>2, <1>3, <1>6, <1>7

LEMMA AttachKeeps ==
    ASSUME IInv, NEW r, NEW size \in TraceSizes, AttachTrace(r, size)
    PROVE  IInv' /\ Quiet
  <1> DEFINE n == Len(messages)
             old == messages[n]
             new == [old EXCEPT !.trace = size]
             N == [messages EXCEPT ![n] = new]
  <1>1. UNCHANGED <<limits, active, voicePending, nextTurn, nextMessage, nextResponse>>
    BY DEF AttachTrace, NoNewIds
  <1>2. CASE answer' = Answer("refused") /\ UNCHANGED <<messages, usage>>
    BY <1>1, <1>2, RefusedKeeps
  <1>3. CASE ~(answer' = Answer("refused") /\ UNCHANGED <<messages, usage>>)
    <2>1. /\ Current(r) /\ usage.traces + size <= MaxTraces
          /\ \E i \in Streamed :
               /\ messages[i].state = "Streaming" /\ messages[i].trace = 0
               /\ messages' = [messages EXCEPT ![i].trace = size]
               /\ usage' = [usage EXCEPT !.traces = @ + size]
               /\ answer' = Answer("ok")
      BY <1>3 DEF AttachTrace, Refuse, Accept
    <2>2. active # NoReply
      BY <2>1 DEF Current
    <2>3. Streamed = {n} /\ n \in 1..n /\ old.role = "Assistant" /\ old.state = "Streaming"
      BY <2>2, StreamedIs
    <2>4. /\ old.trace = 0 /\ messages' = N /\ answer' = Answer("ok")
          /\ usage' = [usage EXCEPT !.traces = @ + size]
      BY <2>1, <2>3
    <2>5. /\ limits \in Limits /\ Steady(messages, usage, active, voicePending)
          /\ Shape(messages) /\ messages \in Seq(Message) /\ n \in Nat /\ usage = Use(messages)
          /\ Numbered(messages, nextTurn, nextMessage)
          /\ OverBudget(messages, usage, limits) /\ size \in Nat
      BY SessionAssumption DEF IInv, Steady, Shape
    <2>6. Sound(old) /\ old \in Message
      BY <2>3, <2>5 DEF Shape, Sound
    <2>7. usage \in Usage
      BY <2>5, UseIs
    <2> HIDE DEF old
    <2>8. /\ new \in Message /\ new.id = old.id /\ new.turn = old.turn /\ new.role = old.role
          /\ new.state = old.state /\ new.size = old.size /\ new.image = old.image /\ new.trace = size
      BY <2>5, <2>6 DEF Message
    <2> HIDE DEF new
    <2>9. Sound(new)
      BY <2>3, <2>6, <2>8 DEF Sound
    <2>10. /\ N \in Seq(Message) /\ Len(N) = n /\ N[n] = new
           /\ \A i \in 1..n : i # n => N[i] = messages[i]
      BY <2>3, <2>5, <2>8
    <2>11. Use(N) = usage'
      <3>1. PICK u \in Usage : Use(messages) = Plus(u, Cost(messages[n])) /\ Use(N) = Plus(u, Cost(new))
        BY <2>3, <2>5, <2>8, UseExcept
      <3> DEFINE t == Tokens(old)
                 b == ImageBytes(old)
      <3>2. t \in Nat /\ b \in Nat /\ Tokens(new) = t /\ ImageBytes(new) = b
        BY <2>6, <2>8, CostIs DEF Tokens, ImageBytes
      <3>3. /\ Cost(messages[n]) = [tokens |-> t, images |-> b, traces |-> 0]
            /\ Cost(new) = [tokens |-> t, images |-> b, traces |-> size]
        BY <2>4, <2>8, <3>2 DEF Cost, old
      <3> HIDE DEF t, b, N
      <3>4. PICK x \in Nat, y \in Nat, z \in Nat : u = [tokens |-> x, images |-> y, traces |-> z]
        BY DEF Usage
      <3>5. usage = [tokens |-> x + t, images |-> y + b, traces |-> z + 0]
        BY <2>5, <3>1, <3>2, <3>3, <3>4, PlusIs
      <3>6. Use(N) = [tokens |-> x + t, images |-> y + b, traces |-> z + size]
        BY <2>5, <3>1, <3>2, <3>3, <3>4, PlusIs
      <3>7. QED
        BY <2>4, <3>5, <3>6
    <2>12. /\ usage'.traces = usage.traces + size /\ usage'.tokens = usage.tokens
           /\ usage'.images = usage.images
      BY <2>4, <2>7 DEF Usage
    <2> HIDE DEF N
    <2>13. Steady(N, Use(N), active, voicePending)
      <3>1. Use(N).traces <= MaxTraces
        BY <2>1, <2>11, <2>12
      <3>2. \A i \in 1..n : /\ Sound(N[i]) /\ N[i].id = messages[i].id /\ N[i].turn = messages[i].turn
                            /\ N[i].role = messages[i].role /\ N[i].state = messages[i].state
        BY <2>5, <2>8, <2>9, <2>10 DEF Shape, old
      <3>3. Steady(messages, Use(messages), active, voicePending)
        BY <2>5
      <3>4. QED
        BY <2>10, <3>1, <3>2, <3>3, MapSteady
    <2>14. \A i \in 1..n : N[i].turn = messages[i].turn /\ N[i].id = messages[i].id
      BY <2>8, <2>10 DEF old
    <2>15. OverBudget(N, usage', limits)
      BY <2>5, <2>10, <2>12, <2>14 DEF OverBudget, Fits
    <2>16. Numbered(N, nextTurn, nextMessage)
      BY <2>5, <2>10, <2>14 DEF Numbered
    <2>17. Steady(messages, usage, active, voicePending)'
      BY <1>1, <2>4, <2>11, <2>13
    <2>18. OverBudget(messages, usage, limits)' /\ Numbered(messages, nextTurn, nextMessage)'
      BY <1>1, <2>4, <2>15, <2>16
    <2>19. IInv'
      BY <1>1, <2>17, <2>18 DEF IInv
    <2>20. QED
      BY <2>4, <2>19 DEF Quiet, Answer
  <1>4. QED
    BY <1>2, <1>3

\* The end of the running reply.
Ended(state) ==
    [i \in DOMAIN messages |->
        IF i \in Streamed THEN [messages[i] EXCEPT !.state = state] ELSE messages[i]]

LEMMA EndedIs ==
    ASSUME IInv, active # NoReply, NEW state \in {"Complete", "Broken", "InterruptedByVoice"},
           NEW pending \in BOOLEAN, pending <=> state = "InterruptedByVoice"
    PROVE  /\ Steady(Ended(state), usage, NoReply, pending)
           /\ OverBudget(Ended(state), usage, limits)
           /\ Numbered(Ended(state), nextTurn, nextMessage)
  <1> DEFINE n == Len(messages)
             old == messages[n]
             new == [old EXCEPT !.state = state]
             N == Ended(state)
  <1>1. Streamed = {n} /\ n \in 1..n /\ old.role = "Assistant" /\ old.state = "Streaming"
    BY StreamedIs
  <1>2. /\ limits \in Limits /\ Steady(messages, usage, active, voicePending)
        /\ Shape(messages) /\ messages \in Seq(Message) /\ n \in Nat /\ usage = Use(messages)
        /\ Numbered(messages, nextTurn, nextMessage)
        /\ OverBudget(messages, usage, limits)
    BY DEF IInv, Steady, Shape
  <1>3. Sound(old) /\ old \in Message
    BY <1>1, <1>2 DEF Shape, Sound
  <1> HIDE DEF old
  <1>4. /\ new \in Message /\ new.id = old.id /\ new.turn = old.turn /\ new.role = old.role
        /\ new.state = state /\ new.size = old.size /\ new.image = old.image /\ new.trace = old.trace
    BY <1>3 DEF Message, States
  <1>5. Sound(new)
    BY <1>1, <1>3, <1>4 DEF Sound
  <1>6. /\ N \in Seq(Message) /\ Len(N) = n /\ N[n] = new
        /\ \A i \in 1..n : i # n => N[i] = messages[i]
    <2>1. DOMAIN messages = 1..n
      BY <1>2
    <2>2. N = [i \in 1..n |-> IF i = n THEN new ELSE messages[i]]
      BY <1>1, <2>1 DEF Ended, old
    <2> HIDE DEF N, new
    <2>3. QED
      BY <1>1, <1>2, <1>4, <2>2
  <1> HIDE DEF N, new
  <1>7. \A i \in 1..n : /\ Sound(N[i]) /\ N[i].id = messages[i].id /\ N[i].turn = messages[i].turn
                        /\ N[i].role = messages[i].role
    BY <1>2, <1>4, <1>5, <1>6 DEF Shape, old
  <1>8. Shape(N)
    BY <1>2, <1>6, <1>7, MapShape
  <1>9. Use(N) = usage
    <2>1. /\ Tokens(new) = Tokens(old) /\ ImageBytes(new) = ImageBytes(old) /\ new.trace = old.trace
      BY <1>4 DEF Tokens, ImageBytes
    <2>2. \A i \in 1..n : /\ Tokens(N[i]) = Tokens(messages[i])
                          /\ ImageBytes(N[i]) = ImageBytes(messages[i])
                          /\ N[i].trace = messages[i].trace
      BY <1>6, <2>1 DEF old
    <2>3. QED
      BY <1>2, <1>6, <2>2, UseSame
  <1>10. Streams(N, NoReply)
    <2> SUFFICES ASSUME NEW i \in 1..n PROVE N[i].state # "Streaming"
      BY <1>6 DEF Streams
    <2>1. CASE i = n
      BY <1>4, <1>6, <2>1
    <2>2. CASE i # n
      BY <1>2, <1>6, <2>2 DEF Steady, Streams
    <2>3. QED
      BY <2>1, <2>2
  <1>11. Owes(N, pending)
    <2>1. N # <<>> /\ Last(N) = new
      BY <1>1, <1>6 DEF Last
    <2>2. EndsInterrupted(N) <=> state = "InterruptedByVoice"
      BY <1>4, <2>1 DEF EndsInterrupted
    <2>3. QED
      BY <2>1, <2>2 DEF Owes
  <1>12. Steady(N, usage, NoReply, pending)
    BY <1>2, <1>8, <1>9, <1>10, <1>11 DEF Steady
  <1>13. OverBudget(N, usage, limits) /\ Numbered(N, nextTurn, nextMessage)
    BY <1>2, <1>6, <1>7 DEF OverBudget, Numbered
  <1>14. QED
    BY <1>12, <1>13 DEF N

LEMMA SettleKeeps ==
    ASSUME IInv, NEW r, NEW state \in {"Complete", "Broken"}, Settle(r, state)
    PROVE  IInv' /\ Quiet
  <1>1. UNCHANGED <<usage, limits, voicePending, nextTurn, nextMessage, nextResponse>>
    BY DEF Settle, NoNewIds
  <1>2. CASE ~Current(r)
    <2>1. answer' = Answer("refused") /\ UNCHANGED <<messages, active>>
      BY <1>2 DEF Settle, Refuse
    <2>2. QED
      BY <1>1, <2>1, RefusedKeeps
  <1>3. CASE Current(r)
    <2>1. messages' = Ended(state) /\ active' = NoReply /\ answer' = Answer("ok") /\ active # NoReply
      BY <1>3 DEF Settle, Ended, Accept, Current
    <2>2. voicePending = FALSE
      BY <2>1, StreamedIs
    <2>3. /\ Steady(Ended(state), usage, NoReply, FALSE)
          /\ OverBudget(Ended(state), usage, limits)
          /\ Numbered(Ended(state), nextTurn, nextMessage)
      <3>1. FALSE <=> state = "InterruptedByVoice"
        OBVIOUS
      <3>2. QED
        BY <2>1, <3>1, EndedIs
    <2>4. Steady(messages, usage, active, voicePending)'
      BY <1>1, <2>1, <2>2, <2>3
    <2>5. OverBudget(messages, usage, limits)' /\ Numbered(messages, nextTurn, nextMessage)'
      BY <1>1, <2>1, <2>3
    <2>6. limits' \in Limits /\ nextResponse' \in Nat /\ active' \in [id : Nat, turn : Nat, message : Nat]
      BY <1>1, <2>1 DEF IInv, NoReply
    <2>7. IInv'
      BY <2>4, <2>5, <2>6 DEF IInv
    <2>8. QED
      BY <2>1, <2>7 DEF Quiet, Answer
  <1>4. QED
    BY <1>2, <1>3

LEMMA InterruptKeeps ==
    ASSUME IInv, InterruptByVoice
    PROVE  IInv' /\ Quiet
  <1>1. /\ messages' = Ended("InterruptedByVoice") /\ active # NoReply /\ active' = NoReply
        /\ voicePending' = TRUE /\ answer' = Answer("ok")
        /\ UNCHANGED <<usage, limits, nextTurn, nextMessage, nextResponse>>
    BY DEF InterruptByVoice, Ended, Accept, NoNewIds
  <1>2. /\ Steady(Ended("InterruptedByVoice"), usage, NoReply, TRUE)
        /\ OverBudget(Ended("InterruptedByVoice"), usage, limits)
        /\ Numbered(Ended("InterruptedByVoice"), nextTurn, nextMessage)
    BY <1>1, EndedIs
  <1>3. Steady(messages, usage, active, voicePending)'
    BY <1>1, <1>2
  <1>4. OverBudget(messages, usage, limits)' /\ Numbered(messages, nextTurn, nextMessage)'
    BY <1>1, <1>2
  <1>5. limits' \in Limits /\ nextResponse' \in Nat /\ active' \in [id : Nat, turn : Nat, message : Nat]
    BY <1>1 DEF IInv, NoReply
  <1>6. IInv'
    BY <1>3, <1>4, <1>5 DEF IInv
  <1>7. QED
    BY <1>1, <1>6 DEF Quiet, Answer

-----------------------------------------------------------------------------
(* The whole conversation.                                                 *)

LEMMA EmptyIs ==
    ASSUME NEW l \in Limits
    PROVE  /\ Steady(<<>>, Empty, NoReply, FALSE) /\ OverBudget(<<>>, Empty, l)
           /\ \A a, b \in Nat : Numbered(<<>>, a, b)
  <1>1. Shape(<<>>)
    BY DEF Shape
  <1>2. Use(<<>>) = Empty
    BY UseIs
  <1>3. Empty.traces <= MaxTraces
    BY SessionAssumption DEF Empty
  <1>4. Streams(<<>>, NoReply) /\ Owes(<<>>, FALSE)
    BY DEF Streams, Owes, EndsInterrupted
  <1>5. Steady(<<>>, Empty, NoReply, FALSE)
    BY <1>1, <1>2, <1>3, <1>4 DEF Steady
  <1>6. OverBudget(<<>>, Empty, l)
    BY DEF OverBudget
  <1>7. \A a, b \in Nat : Numbered(<<>>, a, b)
    BY DEF Numbered
  <1>8. QED
    BY <1>5, <1>6, <1>7

LEMMA ClearKeeps ==
    ASSUME IInv, Clear
    PROVE  IInv' /\ Quiet
  <1>1. /\ messages' = <<>> /\ usage' = Empty /\ active' = NoReply /\ voicePending' = FALSE
        /\ answer' = Answer("ok") /\ UNCHANGED <<limits, nextTurn, nextMessage, nextResponse>>
    BY DEF Clear, Accept, NoNewIds
  <1>2. limits \in Limits /\ nextTurn \in Nat /\ nextMessage \in Nat /\ nextResponse \in Nat
    BY DEF IInv, Numbered
  <1>3. Steady(messages, usage, active, voicePending)'
    BY <1>1, <1>2, EmptyIs
  <1>4. OverBudget(messages, usage, limits)' /\ Numbered(messages, nextTurn, nextMessage)'
    BY <1>1, <1>2, EmptyIs
  <1>5. IInv'
    BY <1>1, <1>2, <1>3, <1>4 DEF IInv, NoReply
  <1>6. QED
    BY <1>1, <1>5 DEF Quiet, Answer

LEMMA LimitKeeps ==
    ASSUME IInv, NEW l \in Limits, UpdateLimits(l)
    PROVE  IInv' /\ Quiet
  <1> DEFINE n == Len(messages)
             kept == Trim(messages, usage, active, 0, Empty, l)
  <1>1. /\ limits' = l /\ messages' = kept.messages /\ usage' = kept.usage
        /\ answer' = Answer("ok")
        /\ UNCHANGED <<active, voicePending, nextTurn, nextMessage, nextResponse>>
    BY DEF UpdateLimits, Keep, Accept, NoNewIds
  <1>2. /\ Steady(messages, usage, active, voicePending) /\ Shape(messages) /\ n \in Nat
        /\ usage = Use(messages) /\ (active # NoReply => Answering(messages, active))
        /\ Numbered(messages, nextTurn, nextMessage)
    BY DEF IInv, Steady, Shape
  <1>3. PICK k \in 0..n : Kept(kept, messages, active, 0, Empty, l, k)
    BY <1>2, TrimKeeps
  <1> DEFINE R == Rest(messages, k)
  <1>4. /\ kept.messages = R /\ Len(R) = n - k
        /\ \A i \in 1..(n - k) : R[i] = messages[k + i]
    BY <1>3 DEF Kept
  <1> HIDE DEF R, kept
  <1>5. Steady(kept.messages, kept.usage, active, voicePending) /\ OverBudget(kept.messages, kept.usage, l)
    <2>1. Empty \in Usage /\ 0 \in Nat
      BY DEF Empty, Usage
    <2>2. QED
      BY <1>2, <1>3, <2>1, KeptSteady
  <1>6. Numbered(R, nextTurn, nextMessage)
    <2>1. \A i \in 1..(n - k) : k + i \in 1..n
      BY <1>2
    <2>2. QED
      BY <1>2, <1>4, <2>1 DEF Numbered
  <1>7. Steady(messages, usage, active, voicePending)'
    BY <1>1, <1>5
  <1>8. OverBudget(messages, usage, limits)' /\ Numbered(messages, nextTurn, nextMessage)'
    BY <1>1, <1>4, <1>5, <1>6
  <1>9. IInv'
    BY <1>1, <1>7, <1>8 DEF IInv
  <1>10. QED
    BY <1>1, <1>9 DEF Quiet, Answer

\* A subsequence is not longer: its elements lie no further in front.
LEMMA EmbedShort ==
    ASSUME NEW E, NEW F, NEW s \in Seq(E), NEW r \in Seq(F), NEW h, Embeds(r, s, h)
    PROVE  Len(r) <= Len(s) /\ \A i \in 1..Len(r) : i <= h[i]
  <1> DEFINE T == {n \in Nat : n \in 1..Len(r) => n <= h[n]}
  <1>1. /\ \A i \in 1..Len(r) : h[i] \in 1..Len(s)
        /\ \A i, j \in 1..Len(r) : i < j => h[i] < h[j]
        /\ Len(r) \in Nat /\ Len(s) \in Nat
    BY DEF Embeds
  <1>2. 0 \in T
    OBVIOUS
  <1>3. ASSUME NEW n \in Nat, n \in T PROVE n + 1 \in T
    <2> SUFFICES ASSUME n + 1 \in 1..Len(r) PROVE n + 1 <= h[n + 1]
      OBVIOUS
    <2>1. CASE n = 0
      <3>1. h[1] \in 1..Len(s)
        BY <1>1, <2>1
      <3>2. QED
        BY <1>1, <2>1, <3>1
    <2>2. CASE n # 0
      <3>1. n \in 1..Len(r) /\ n <= h[n] /\ n < n + 1
        BY <1>1, <1>3, <2>2
      <3>2. h[n] < h[n + 1] /\ h[n] \in 1..Len(s) /\ h[n + 1] \in 1..Len(s)
        BY <1>1, <3>1
      <3>3. QED
        BY <3>1, <3>2
    <2>3. QED
      BY <2>1, <2>2
  <1>4. \A n \in Nat : n \in T
    <2> HIDE DEF T
    <2>1. QED
      BY <1>2, <1>3, Induction
  <1>5. \A i \in 1..Len(r) : i <= h[i]
    BY <1>1, <1>4
  <1>6. Len(r) <= Len(s)
    <2>1. CASE Len(r) = 0
      BY <1>1, <2>1
    <2>2. CASE Len(r) # 0
      <3>1. Len(r) \in 1..Len(r)
        BY <1>1, <2>2
      <3>2. Len(r) <= h[Len(r)] /\ h[Len(r)] \in 1..Len(s)
        BY <1>1, <1>5, <3>1
      <3>3. QED
        BY <1>1, <3>2
    <2>3. QED
      BY <2>1, <2>2
  <1>7. QED
    BY <1>5, <1>6

\* What a deletion leaves: exact totals, no new excess, and the running reply
\* if its turn is not touched.
Left(ids) == {m \in ToSet(messages) : m.id \notin ids}

LEMMA WithoutIs ==
    ASSUME IInv, NEW ids
    PROVE  /\ Without(ids).messages = Pick(messages, Left(ids))
           /\ Without(ids).usage = Use(Pick(messages, Left(ids)))
           /\ Shape(Pick(messages, Left(ids)))
           /\ Use(Pick(messages, Left(ids))).traces <= MaxTraces
           /\ OverBudget(Pick(messages, Left(ids)), Use(Pick(messages, Left(ids))), limits)
           /\ Numbered(Pick(messages, Left(ids)), nextTurn, nextMessage)
  <1> DEFINE n == Len(messages)
             gone == {m \in ToSet(messages) : m.id \in ids}
             R == Pick(messages, Left(ids))
  <1>1. /\ Shape(messages) /\ messages \in Seq(Message) /\ n \in Nat /\ usage = Use(messages)
        /\ usage.traces <= MaxTraces /\ MaxTraces \in Nat /\ limits \in Limits
        /\ OverBudget(messages, usage, limits) /\ Numbered(messages, nextTurn, nextMessage)
    BY SessionAssumption DEF IInv, Steady, Shape
  <1>2. ToSet(messages) \ gone = Left(ids)
    BY DEF Left
  <1>3. \A i \in 1..n : messages[i] \in ToSet(messages)
    BY <1>1 DEF ToSet
  <1>4. \A i \in 1..n : messages[i] \in gone <=> messages[i] \notin Left(ids)
    BY <1>3 DEF Left
  <1>5. Without(ids) = [messages |-> R, usage |-> Minus(usage, Use(Pick(messages, gone)))]
    BY <1>2 DEF Without
  <1> HIDE DEF gone
  <1>6. /\ Use(messages) = Plus(Use(Pick(messages, gone)), Use(R))
        /\ Minus(Use(messages), Use(Pick(messages, gone))) = Use(R)
        /\ Use(R).traces <= Use(messages).traces
    BY <1>1, <1>4, PickUse
  <1>7. R \in Seq(Message) /\ Pick(messages, gone) \in Seq(Message)
    BY <1>1, PickEmbeds
  <1>8. PICK h : Embeds(R, messages, h)
    BY <1>1, PickEmbeds
  <1>9. Len(R) <= n /\ Shape(R) /\ Len(R) \in Nat
    BY <1>1, <1>7, <1>8, EmbedShort, PickShape
  <1>10. \A i \in 1..Len(R) : h[i] \in 1..n /\ R[i] = messages[h[i]]
    BY <1>8 DEF Embeds
  <1>11. /\ Use(R) \in Usage /\ Use(Pick(messages, gone)) \in Usage
    BY <1>7, UseIs
  <1>12. /\ usage.tokens = Use(Pick(messages, gone)).tokens + Use(R).tokens
         /\ usage.images = Use(Pick(messages, gone)).images + Use(R).images
    BY <1>1, <1>6, <1>11, MinusPlus
  <1> HIDE DEF R
  <1>13. Use(R).tokens <= usage.tokens /\ Use(R).images <= usage.images
         /\ Use(R).traces <= MaxTraces /\ usage \in Usage
    <2>1. usage \in Usage
      BY <1>1, UseIs
    <2>2. QED
      BY <1>1, <1>6, <1>11, <1>12, <2>1 DEF Usage
  <1>14. OverBudget(R, Use(R), limits)
    <2>1. CASE Fits(n, usage, 0, Empty, limits)
      <3>1. Fits(Len(R), Use(R), 0, Empty, limits)
        <4>1. limits.messages \in Nat /\ limits.tokens \in Nat /\ MaxImages \in Nat
          BY <1>1, LimitsAre, SessionAssumption
        <4>2. /\ Use(R).tokens \in Nat /\ usage.tokens \in Nat
              /\ Use(R).images \in Nat /\ usage.images \in Nat
          BY <1>11, <1>13 DEF Usage
        <4>3. QED
          BY <1>1, <1>9, <1>13, <2>1, <4>1, <4>2 DEF Fits, Empty
      <3>2. QED
        BY <3>1 DEF OverBudget
    <2>2. CASE \A i, j \in 1..n : messages[i].turn = messages[j].turn
      <3>1. \A i, j \in 1..Len(R) : R[i].turn = R[j].turn
        BY <1>10, <2>2
      <3>2. QED
        BY <3>1 DEF OverBudget
    <2>3. QED
      BY <1>1, <2>1, <2>2 DEF OverBudget
  <1>15. Numbered(R, nextTurn, nextMessage)
    BY <1>1, <1>10 DEF Numbered
  <1>16. QED
    BY <1>1, <1>5, <1>6, <1>9, <1>13, <1>14, <1>15 DEF R

LEMMA DeleteKeeps ==
    ASSUME IInv, NEW ids, Delete(ids)
    PROVE  IInv' /\ Quiet
  <1> DEFINE n == Len(messages)
             R == Pick(messages, Left(ids))
             m == Len(R)
             touched == \E x \in ToSet(messages) : x.id \in ids /\ x.turn = active.turn
  <1>1. UNCHANGED <<limits, active, nextTurn, nextMessage, nextResponse>>
    BY DEF Delete, NoNewIds
  <1>2. CASE touched
    <2>1. answer' = Answer("refused") /\ UNCHANGED <<messages, usage, voicePending>>
      BY <1>2 DEF Delete, Refuse
    <2>2. QED
      BY <1>1, <2>1, RefusedKeeps
  <1>3. CASE ~touched
    <2>1. /\ messages' = Without(ids).messages /\ usage' = Without(ids).usage
          /\ voicePending' = EndsInterrupted(messages') /\ answer' = Answer("ok")
      BY <1>3 DEF Delete, Keep, Accept
    <2>2. messages' = R /\ usage' = Use(R)
      BY <2>1, WithoutIs
    <2>3. /\ Shape(R) /\ Use(R).traces <= MaxTraces /\ OverBudget(R, Use(R), limits)
          /\ Numbered(R, nextTurn, nextMessage)
      BY WithoutIs
    <2>4. /\ Steady(messages, usage, active, voicePending) /\ Shape(messages)
          /\ messages \in Seq(Message) /\ n \in Nat /\ R \in Seq(Message) /\ m \in Nat
      BY <2>3 DEF IInv, Steady, Shape
    <2>5. PICK h : /\ Embeds(R, messages, h)
                   /\ \A k \in 1..n : messages[k] \in Left(ids) => \E i \in 1..m : h[i] = k
      BY <2>4, PickEmbeds
    <2> HIDE DEF R
    <2>6. /\ \A i \in 1..m : h[i] \in 1..n /\ R[i] = messages[h[i]]
          /\ \A i, j \in 1..m : i < j => h[i] < h[j]
      BY <2>5 DEF Embeds
    <2>7. ASSUME active # NoReply
          PROVE  m >= 2 /\ h[m] = n /\ h[m - 1] = n - 1
      <3>1. /\ n - 1 \in 1..n /\ n \in 1..n
            /\ messages[n - 1].turn = active.turn /\ messages[n].turn = active.turn
        BY <2>4, <2>7, LastTwo DEF Steady, Answering
      <3>2. messages[n - 1] \in ToSet(messages) /\ messages[n] \in ToSet(messages)
        BY <2>4, <3>1 DEF ToSet
      <3>3. messages[n - 1] \in Left(ids) /\ messages[n] \in Left(ids)
        BY <1>3, <3>1, <3>2 DEF Left
      <3>4. PICK i \in 1..m : h[i] = n - 1
        BY <2>5, <3>1, <3>3
      <3>5. PICK j \in 1..m : h[j] = n
        BY <2>5, <3>1, <3>3
      <3>6. j = m
        <4>1. m \in 1..m /\ ~(j < m)
          BY <2>4, <2>6, <3>5
        <4>2. QED
          BY <2>4, <4>1
      <3>7. i < j
        <4>1. ~(j < i) /\ i # j
          BY <2>4, <2>6, <3>4, <3>5
        <4>2. QED
          BY <4>1
      <3>8. i = m - 1
        <4>1. CASE i + 1 < m
          <5>1. i + 1 \in 1..m /\ i < i + 1
            BY <2>4, <4>1
          <5>2. h[i] < h[i + 1] /\ h[i + 1] < h[m] /\ h[i + 1] \in Nat
            BY <2>6, <3>6, <4>1, <5>1
          <5>3. QED
            BY <2>4, <3>4, <3>5, <3>6, <5>2
        <4>2. QED
          BY <2>4, <3>6, <3>7, <4>1
      <3>9. QED
        BY <2>4, <3>4, <3>5, <3>6, <3>7, <3>8
    <2>8. active # NoReply => Answering(R, active)
      <3> SUFFICES ASSUME active # NoReply PROVE Answering(R, active)
        OBVIOUS
      <3>1. m >= 2 /\ h[m] = n /\ h[m - 1] = n - 1 /\ m \in 1..m /\ m - 1 \in 1..m
        BY <2>4, <2>7
      <3>2. R[m] = messages[n] /\ R[m - 1] = messages[n - 1]
        BY <2>6, <3>1
      <3>3. QED
        BY <2>4, <3>1, <3>2 DEF Steady, Answering
    <2>9. Streams(R, active)
      <3> SUFFICES ASSUME NEW i \in 1..m
                   PROVE  R[i].state = "Streaming" <=> active # NoReply /\ i = m
        BY DEF Streams
      <3>1. R[i].state = "Streaming" <=> active # NoReply /\ h[i] = n
        BY <2>4, <2>6 DEF Steady, Streams
      <3>2. active # NoReply => (h[i] = n <=> i = m)
        <4>1. ASSUME active # NoReply, h[i] = n PROVE i = m
          <5>1. h[m] = n /\ m \in 1..m
            BY <2>4, <2>7, <4>1
          <5>2. ~(i < m)
            BY <2>4, <2>6, <4>1, <5>1
          <5>3. QED
            BY <2>4, <5>2
        <4>2. QED
          BY <2>7, <4>1
      <3>3. QED
        BY <3>1, <3>2
    <2>10. voicePending' = EndsInterrupted(R) /\ voicePending' \in BOOLEAN /\ Owes(R, voicePending')
      BY <2>1, <2>2 DEF Owes, EndsInterrupted
    <2>11. Steady(R, Use(R), active, voicePending')
      BY <2>3, <2>8, <2>9, <2>10 DEF Steady
    <2>12. Steady(messages, usage, active, voicePending)'
      BY <1>1, <2>2, <2>11
    <2>13. OverBudget(messages, usage, limits)' /\ Numbered(messages, nextTurn, nextMessage)'
      BY <1>1, <2>2, <2>3
    <2>14. IInv'
      BY <1>1, <2>12, <2>13 DEF IInv
    <2>15. QED
      BY <2>1, <2>14 DEF Quiet, Answer
  <1>4. QED
    BY <1>2, <1>3

LEMMA DiscardKeeps ==
    ASSUME IInv, NEW r, Discard(r)
    PROVE  IInv' /\ Quiet
  <1> DEFINE n == Len(messages)
             ids == {m.id : m \in {m \in ToSet(messages) : m.turn = active.turn}}
             R == Pick(messages, Left(ids))
             m == Len(R)
  <1>1. UNCHANGED <<limits, nextTurn, nextMessage, nextResponse>>
    BY DEF Discard, NoNewIds
  <1>2. CASE ~Current(r)
    <2>1. answer' = Answer("refused") /\ UNCHANGED <<messages, usage, active, voicePending>>
      BY <1>2 DEF Discard, Refuse
    <2>2. QED
      BY <1>1, <2>1, RefusedKeeps
  <1>3. CASE Current(r)
    <2>1. /\ messages' = Without(ids).messages /\ usage' = Without(ids).usage /\ active' = NoReply
          /\ voicePending' = EndsInterrupted(Without(ids).messages) /\ answer' = Answer("ok")
          /\ active # NoReply
      BY <1>3 DEF Discard, Keep, Accept, Current
    <2>2. \A x \in Left(ids) : x.turn # active.turn
      BY DEF Left
    <2> HIDE DEF ids
    <2>3. messages' = R /\ usage' = Use(R) /\ voicePending' = EndsInterrupted(R)
      BY <2>1, WithoutIs
    <2>4. /\ Shape(R) /\ Use(R).traces <= MaxTraces /\ OverBudget(R, Use(R), limits)
          /\ Numbered(R, nextTurn, nextMessage)
      BY WithoutIs
    <2>5. /\ Steady(messages, usage, active, voicePending) /\ Shape(messages)
          /\ messages \in Seq(Message) /\ n \in Nat /\ R \in Seq(Message) /\ m \in Nat
      BY <2>4 DEF IInv, Steady, Shape
    <2>6. PICK h : Embeds(R, messages, h) /\ \A i \in 1..m : messages[h[i]] \in Left(ids)
      BY <2>5, PickEmbeds
    <2> HIDE DEF R
    <2>7. Streams(R, NoReply)
      <3> SUFFICES ASSUME NEW i \in 1..m PROVE R[i].state # "Streaming"
        BY DEF Streams
      <3>1. h[i] \in 1..n /\ R[i] = messages[h[i]] /\ messages[h[i]].turn # active.turn
        BY <2>2, <2>6 DEF Embeds
      <3>2. messages[n].turn = active.turn
        BY <2>1, <2>5 DEF Steady, Answering
      <3>3. h[i] # n
        BY <3>1, <3>2
      <3>4. QED
        BY <2>5, <3>1, <3>3 DEF Steady, Streams
    <2>8. voicePending' \in BOOLEAN /\ Owes(R, voicePending')
      BY <2>3 DEF Owes, EndsInterrupted
    <2>9. Steady(R, Use(R), NoReply, voicePending')
      BY <2>4, <2>7, <2>8 DEF Steady
    <2>10. Steady(messages, usage, active, voicePending)'
      BY <2>1, <2>3, <2>9
    <2>11. OverBudget(messages, usage, limits)' /\ Numbered(messages, nextTurn, nextMessage)'
      BY <1>1, <2>3, <2>4
    <2>12. limits' \in Limits /\ nextResponse' \in Nat /\ active' \in [id : Nat, turn : Nat, message : Nat]
      BY <1>1, <2>1 DEF IInv, NoReply
    <2>13. IInv'
      BY <2>10, <2>11, <2>12 DEF IInv
    <2>14. QED
      BY <2>1, <2>13 DEF Quiet, Answer
  <1>4. QED
    BY <1>2, <1>3

LEMMA EditKeeps ==
    ASSUME IInv, NEW id, NEW size \in Sizes, Edit(id, size)
    PROVE  IInv' /\ Quiet
  <1> DEFINE n == Len(messages)
             New(i) == [messages[i] EXCEPT !.size = size, !.trace = 0, !.state = "Complete"]
             Sum(i) == Monus(usage.tokens, Tokens(messages[i])) + Tokens(New(i))
  <1>1. UNCHANGED <<limits, active, nextTurn, nextMessage, nextResponse>>
    BY DEF Edit, NoNewIds
  <1>2. CASE answer' = Answer("refused") /\ UNCHANGED <<messages, usage, voicePending>>
    BY <1>1, <1>2, RefusedKeeps
  <1>3. CASE ~(answer' = Answer("refused") /\ UNCHANGED <<messages, usage, voicePending>>)
    <2>1. PICK i \in DOMAIN messages :
            /\ size \in 1..MaxText /\ messages[i].turn # active.turn /\ Sum(i) <= limits.tokens
            /\ messages' = [messages EXCEPT ![i] = New(i)]
            /\ usage' = [usage EXCEPT !.tokens = Sum(i), !.traces = Monus(@, messages[i].trace)]
            /\ voicePending' = EndsInterrupted(messages')
            /\ answer' = Answer("ok")
      BY <1>3 DEF Edit, Refuse, Accept
    <2> DEFINE old == messages[i]
               new == New(i)
               total == Sum(i)
               N == [messages EXCEPT ![i] = new]
    <2>2. /\ limits \in Limits /\ Steady(messages, usage, active, voicePending)
          /\ Shape(messages) /\ messages \in Seq(Message) /\ n \in Nat /\ usage = Use(messages)
          /\ Numbered(messages, nextTurn, nextMessage) /\ usage.traces <= MaxTraces
          /\ OverBudget(messages, usage, limits) /\ size \in Nat /\ MaxText \in Nat /\ MaxTraces \in Nat
      BY SessionAssumption DEF IInv, Steady, Shape
    <2>3. i \in 1..n /\ messages' = N /\ old.turn # active.turn
          /\ usage' = [usage EXCEPT !.tokens = total, !.traces = Monus(@, old.trace)]
      BY <2>1, <2>2
    <2>4. Sound(old) /\ old \in Message
      BY <2>2, <2>3 DEF Shape, Sound
    <2>5. usage \in Usage
      BY <2>2, UseIs
    <2>6. total = Monus(usage.tokens, Tokens(old)) + Tokens(new) /\ total <= limits.tokens
      BY <2>1
    <2> HIDE DEF old
    <2>7. /\ new \in Message /\ new.id = old.id /\ new.turn = old.turn /\ new.role = old.role
          /\ new.state = "Complete" /\ new.size = size /\ new.image = old.image /\ new.trace = 0
      <3>1. new = [id |-> old.id, turn |-> old.turn, role |-> old.role, size |-> size,
                   image |-> old.image, trace |-> 0, state |-> "Complete"]
        <4>1. new = [old EXCEPT !.size = size, !.trace = 0, !.state = "Complete"]
          BY DEF old
        <4> HIDE DEF new, New
        <4>2. QED
          BY <2>4, <4>1 DEF Message
      <3> HIDE DEF new
      <3>2. QED
        BY <2>2, <2>4, <3>1 DEF Message, States
    <2> HIDE DEF new, total, New, Sum
    <2>8. Sound(new)
      <3>1. size <= MaxText
        BY <2>1, <2>2
      <3>2. QED
        BY <2>4, <2>7, <3>1 DEF Sound
    <2>9. /\ N \in Seq(Message) /\ Len(N) = n /\ N[i] = new
          /\ \A j \in 1..n : j # i => N[j] = messages[j]
      BY <2>2, <2>3, <2>7
    <2>10. /\ Use(N) = usage' /\ usage'.tokens = total /\ usage'.images = usage.images
           /\ usage'.traces <= usage.traces /\ usage' \in Usage
      <3>1. PICK u \in Usage : Use(messages) = Plus(u, Cost(messages[i])) /\ Use(N) = Plus(u, Cost(new))
        BY <2>2, <2>3, <2>7, UseExcept
      <3> DEFINE t == Tokens(old)
                 b == ImageBytes(old)
                 w == Tokens(new)
                 c == old.trace
      <3>2. /\ t \in Nat /\ b \in Nat /\ c \in Nat /\ w \in Nat /\ ImageBytes(new) = b
        BY <2>4, <2>7, CostIs DEF ImageBytes
      <3>3. /\ Cost(messages[i]) = [tokens |-> t, images |-> b, traces |-> c]
            /\ Cost(new) = [tokens |-> w, images |-> b, traces |-> 0]
        BY <2>7, <3>2 DEF Cost, old
      <3>h. total = Monus(usage.tokens, t) + w /\ usage' = [usage EXCEPT !.tokens = total, !.traces = Monus(@, c)]
        BY <2>3, <2>6
      <3> HIDE DEF t, b, w, c, N
      <3>4. PICK x \in Nat, y \in Nat, z \in Nat : u = [tokens |-> x, images |-> y, traces |-> z]
        BY DEF Usage
      <3>5. usage = [tokens |-> x + t, images |-> y + b, traces |-> z + c]
        BY <2>2, <3>1, <3>2, <3>3, <3>4, PlusIs
      <3>6. Use(N) = [tokens |-> x + w, images |-> y + b, traces |-> z + 0]
        BY <3>1, <3>2, <3>3, <3>4, PlusIs
      <3>7. Monus(x + t, t) = x /\ Monus(z + c, c) = z
        BY <3>2 DEF Monus
      <3>8. usage.tokens = x + t /\ usage.traces = z + c
        BY <3>5
      <3>9. total = x + w
        BY <3>h, <3>7, <3>8
      <3>10. usage' = [tokens |-> x + w, images |-> y + b, traces |-> z]
        BY <3>h, <3>5, <3>7, <3>9
      <3>11. z + 0 = z /\ z <= z + c /\ x + w \in Nat /\ y + b \in Nat
        BY <3>2
      <3>12. QED
        BY <3>5, <3>6, <3>9, <3>10, <3>11 DEF Usage
    <2> HIDE DEF N
    <2>11. \A j \in 1..n : /\ Sound(N[j]) /\ N[j].id = messages[j].id /\ N[j].turn = messages[j].turn
                           /\ N[j].role = messages[j].role
      BY <2>2, <2>7, <2>8, <2>9 DEF Shape, old
    <2>12. Shape(N)
      BY <2>2, <2>9, <2>11, MapShape
    <2>13. active # NoReply => Answering(N, active) /\ i # n
      <3> SUFFICES ASSUME active # NoReply PROVE Answering(N, active) /\ i # n
        OBVIOUS
      <3>1. Answering(messages, active)
        BY <2>2 DEF Steady
      <3>2. n - 1 \in 1..n /\ n \in 1..n
        BY <2>2, <3>1 DEF Answering
      <3>3. QED
        BY <2>3, <2>9, <2>11, <3>1, <3>2 DEF Answering, old
    <2>14. Streams(N, active)
      <3> SUFFICES ASSUME NEW j \in 1..n
                   PROVE  N[j].state = "Streaming" <=> active # NoReply /\ j = n
        BY <2>9 DEF Streams
      <3>1. CASE j = i
        BY <2>7, <2>9, <2>13, <3>1
      <3>2. CASE j # i
        BY <2>2, <2>9, <3>2 DEF Steady, Streams
      <3>3. QED
        BY <3>1, <3>2
    <2>15. voicePending' \in BOOLEAN /\ Owes(N, voicePending')
      BY <2>1, <2>3 DEF Owes, EndsInterrupted
    <2>16. Use(N).traces <= MaxTraces
      BY <2>2, <2>5, <2>10 DEF Usage
    <2>17. Steady(N, Use(N), active, voicePending')
      BY <2>12, <2>13, <2>14, <2>15, <2>16 DEF Steady
    <2>18. OverBudget(N, usage', limits)
      <3>1. CASE Fits(n, usage, 0, Empty, limits)
        <4>1. total + 0 <= limits.tokens
          <5>1. limits.tokens \in Nat /\ total \in Nat
            BY <2>2, <2>10, LimitsAre DEF Usage
          <5>2. QED
            BY <2>6, <5>1
        <4>2. Fits(n, usage', 0, Empty, limits)
          BY <2>10, <3>1, <4>1 DEF Fits, Empty
        <4>3. QED
          BY <2>9, <4>2 DEF OverBudget
      <3>2. CASE \A j, k \in 1..n : messages[j].turn = messages[k].turn
        BY <2>9, <2>11, <3>2 DEF OverBudget
      <3>3. QED
        BY <2>2, <3>1, <3>2 DEF OverBudget
    <2>19. Numbered(N, nextTurn, nextMessage)
      BY <2>2, <2>9, <2>11 DEF Numbered
    <2>20. Steady(messages, usage, active, voicePending)'
      BY <1>1, <2>3, <2>10, <2>17
    <2>21. OverBudget(messages, usage, limits)' /\ Numbered(messages, nextTurn, nextMessage)'
      BY <1>1, <2>3, <2>18, <2>19
    <2>22. IInv'
      BY <1>1, <2>20, <2>21 DEF IInv
    <2>23. QED
      BY <2>1, <2>22 DEF Quiet, Answer
  <1>4. QED
    BY <1>2, <1>3

-----------------------------------------------------------------------------
(* Snapshots.                                                              *)

\* The messages of one turn: a question, an answer, or both in this order.
LEMMA OfTurnIs ==
    ASSUME NEW ms, Shape(ms), NEW t
    PROVE  /\ Shape(OfTurn(ms, t)) /\ Len(OfTurn(ms, t)) \in 0..2
           /\ \A i \in 1..Len(OfTurn(ms, t)) :
                /\ OfTurn(ms, t)[i].turn = t
                /\ \E j \in 1..Len(ms) : OfTurn(ms, t)[i] = ms[j]
           /\ \A j \in 1..Len(ms) : ms[j].turn = t => Len(OfTurn(ms, t)) # 0
           /\ Len(OfTurn(ms, t)) = 2 =>
                OfTurn(ms, t)[1].role = "User" /\ OfTurn(ms, t)[2].role = "Assistant"
  <1> DEFINE S == {m \in ToSet(ms) : m.turn = t}
             R == Pick(ms, S)
             n == Len(R)
  <1>1. ms \in Seq(Message) /\ OfTurn(ms, t) = R
    BY DEF Shape, OfTurn
  <1>2. \A j \in 1..Len(ms) : ms[j] \in ToSet(ms)
    BY <1>1 DEF ToSet
  <1>3. \A j \in 1..Len(ms) : ms[j] \in S <=> ms[j].turn = t
    BY <1>2
  <1> HIDE DEF S
  <1>4. PICK h : /\ Embeds(R, ms, h)
                 /\ \A i \in 1..n : ms[h[i]] \in S
                 /\ \A k \in 1..Len(ms) : ms[k] \in S => \E i \in 1..n : h[i] = k
    BY <1>1, PickEmbeds
  <1>5. Shape(R)
    BY PickShape
  <1> HIDE DEF R
  <1>6. \A i \in 1..n : h[i] \in 1..Len(ms) /\ R[i] = ms[h[i]]
    BY <1>4 DEF Embeds
  <1>7. \A i \in 1..n : R[i].turn = t /\ \E j \in 1..Len(ms) : R[i] = ms[j]
    BY <1>3, <1>4, <1>6
  <1>8. n \in Nat /\ \A i, j \in 1..n : i < j => R[i].role = "User" /\ R[j].role = "Assistant"
    BY <1>5, <1>7 DEF Shape, Before
  <1>9. n <= 2
    <2> SUFFICES ASSUME ~(n <= 2) PROVE FALSE
      OBVIOUS
    <2>1. 1 \in 1..n /\ 2 \in 1..n /\ 3 \in 1..n
      BY <1>8
    <2>2. R[2].role = "Assistant" /\ R[2].role = "User"
      BY <1>8, <2>1
    <2>3. QED
      BY <2>2
  <1>10. \A j \in 1..Len(ms) : ms[j].turn = t => n # 0
    BY <1>3, <1>4, <1>8
  <1>11. n = 2 => R[1].role = "User" /\ R[2].role = "Assistant"
    BY <1>8
  <1>n. n \in Nat
    BY <1>8
  <1>12. n \in 0..2
    <2>1. \A x \in Nat : x <= 2 => x \in 0..2
      OBVIOUS
    <2>2. QED
      BY <1>9, <1>n, <2>1, Zenon
  <1>13. QED
    BY <1>1, <1>5, <1>7, <1>10, <1>11, <1>12

LEMMA SnapshotIs ==
    ASSUME NEW ms, Shape(ms), Use(ms).traces <= MaxTraces
    PROVE  ValidSnapshot(ms)
  <1>1. ms \in Seq(Message) /\ DOMAIN ms = 1..Len(ms)
    BY DEF Shape
  <1>2. \A i \in 1..Len(ms) : Sound(ms[i]) /\ ms[i].id \in Nat /\ ms[i].turn \in Nat
    BY DEF Shape, Sound, Message
  <1>3. \A i, k \in DOMAIN ms : i < k => ms[i].id # ms[k].id
    BY <1>1, <1>2 DEF Shape, Before
  <1>4. \A i, j, k \in DOMAIN ms : i < j /\ j < k /\ ms[i].turn = ms[k].turn => ms[j].turn = ms[i].turn
    BY <1>1, <1>2 DEF Shape, Before
  <1>5. ASSUME NEW m \in ToSet(ms)
        PROVE  /\ m.id # 0 /\ m.turn # 0 /\ m.size <= MaxText
               /\ IF m.role = "User" THEN m.state = "Complete" /\ m.trace = 0 ELSE m.image = "none"
               /\ \/ Len(OfTurn(ms, m.turn)) = 1
                  \/ /\ Len(OfTurn(ms, m.turn)) = 2
                     /\ OfTurn(ms, m.turn)[1].role = "User" /\ OfTurn(ms, m.turn)[2].role = "Assistant"
    <2>1. PICK i \in 1..Len(ms) : m = ms[i]
      BY <1>1 DEF ToSet
    <2>2. Sound(m)
      BY <1>2, <2>1
    <2>3. /\ Len(OfTurn(ms, m.turn)) \in 0..2 /\ Len(OfTurn(ms, m.turn)) # 0
          /\ Len(OfTurn(ms, m.turn)) = 2 =>
               OfTurn(ms, m.turn)[1].role = "User" /\ OfTurn(ms, m.turn)[2].role = "Assistant"
      BY <2>1, OfTurnIs
    <2>4. QED
      BY <2>2, <2>3 DEF Sound, Message
  <1>6. QED
    BY <1>3, <1>4, <1>5 DEF ValidSnapshot

LEMMA StoredIs ==
    ASSUME NEW ms, Shape(ms)
    PROVE  /\ Shape(Stored(ms)) /\ Len(Stored(ms)) = Len(ms)
           /\ Use(Stored(ms)).traces = Use(ms).traces
           /\ \A i \in 1..Len(ms) : Stored(ms)[i].turn = ms[i].turn /\ Stored(ms)[i].id = ms[i].id
  <1> DEFINE n == Len(ms)
             N == Stored(ms)
             Ghost(m) == [m EXCEPT !.image = IF @ = "live" THEN "ghost" ELSE @]
  <1>1. ms \in Seq(Message) /\ n \in Nat /\ DOMAIN ms = 1..n /\ \A i \in 1..n : Sound(ms[i])
    BY DEF Shape
  <1>2. ASSUME NEW m \in Message, Sound(m)
        PROVE  /\ Ghost(m) \in Message /\ Sound(Ghost(m))
               /\ Ghost(m).id = m.id /\ Ghost(m).turn = m.turn /\ Ghost(m).role = m.role
               /\ Ghost(m).trace = m.trace
    <2>1. /\ Ghost(m) \in Message /\ Ghost(m).id = m.id /\ Ghost(m).turn = m.turn /\ Ghost(m).role = m.role
          /\ Ghost(m).trace = m.trace /\ Ghost(m).state = m.state /\ Ghost(m).size = m.size
          /\ Ghost(m).image = IF m.image = "live" THEN "ghost" ELSE m.image
      BY <1>2 DEF Message, Images
    <2> HIDE DEF Ghost
    <2>2. QED
      BY <1>2, <2>1 DEF Sound
  <1>3. N = [i \in 1..n |-> Ghost(ms[i])]
    BY <1>1 DEF Stored
  <1> HIDE DEF Ghost, N
  <1>4. \A i \in 1..n : /\ N[i] \in Message /\ Sound(N[i])
                        /\ N[i].id = ms[i].id /\ N[i].turn = ms[i].turn /\ N[i].role = ms[i].role
                        /\ N[i].trace = ms[i].trace
    BY <1>1, <1>2, <1>3
  <1>5. N \in Seq(Message) /\ Len(N) = n /\ DOMAIN N = 1..n
    BY <1>1, <1>3, <1>4
  <1>6. Shape(N)
    BY <1>4, <1>5, MapShape
  <1>7. [i \in DOMAIN N |-> N[i].trace] = [i \in DOMAIN ms |-> ms[i].trace]
    BY <1>1, <1>4, <1>5
  <1>8. Use(N).traces = Use(ms).traces
    BY <1>7 DEF Use
  <1>9. QED
    BY <1>4, <1>5, <1>6, <1>8 DEF N

\* A turn that is read keeps its order and its size, and nothing streams.
LEMMA StoppedIs ==
    ASSUME NEW ms, Shape(ms)
    PROVE  /\ Shape(Stopped(ms)) /\ Len(Stopped(ms)) = Len(ms) /\ Use(Stopped(ms)) = Use(ms)
           /\ \A i \in 1..Len(ms) : /\ Stopped(ms)[i].turn = ms[i].turn /\ Stopped(ms)[i].id = ms[i].id
                                    /\ Stopped(ms)[i].state # "Streaming"
  <1> DEFINE n == Len(ms)
             N == Stopped(ms)
             Stop(m) == [m EXCEPT !.state = IF @ = "Streaming" THEN "Broken" ELSE @]
  <1>1. ms \in Seq(Message) /\ n \in Nat /\ DOMAIN ms = 1..n /\ \A i \in 1..n : Sound(ms[i])
    BY DEF Shape
  <1>2. ASSUME NEW m \in Message, Sound(m)
        PROVE  /\ Stop(m) \in Message /\ Sound(Stop(m))
               /\ Stop(m).id = m.id /\ Stop(m).turn = m.turn /\ Stop(m).role = m.role
               /\ Stop(m).trace = m.trace /\ Stop(m).size = m.size /\ Stop(m).image = m.image
               /\ Stop(m).state # "Streaming"
    <2>1. /\ Stop(m) \in Message /\ Stop(m).id = m.id /\ Stop(m).turn = m.turn /\ Stop(m).role = m.role
          /\ Stop(m).trace = m.trace /\ Stop(m).image = m.image /\ Stop(m).size = m.size
          /\ Stop(m).state = IF m.state = "Streaming" THEN "Broken" ELSE m.state
      BY <1>2 DEF Message, States
    <2> HIDE DEF Stop
    <2>2. QED
      BY <1>2, <2>1 DEF Sound
  <1>3. N = [i \in 1..n |-> Stop(ms[i])]
    BY <1>1 DEF Stopped
  <1> HIDE DEF Stop, N
  <1>4. \A i \in 1..n : /\ N[i] \in Message /\ Sound(N[i])
                        /\ N[i].id = ms[i].id /\ N[i].turn = ms[i].turn /\ N[i].role = ms[i].role
                        /\ N[i].trace = ms[i].trace /\ N[i].size = ms[i].size /\ N[i].image = ms[i].image
                        /\ N[i].state # "Streaming"
    BY <1>1, <1>2, <1>3
  <1>5. N \in Seq(Message) /\ Len(N) = n
    BY <1>1, <1>3, <1>4
  <1>6. Shape(N)
    BY <1>4, <1>5, MapShape
  <1>7. Use(N) = Use(ms)
    <2>1. \A i \in 1..n : Tokens(N[i]) = Tokens(ms[i]) /\ ImageBytes(N[i]) = ImageBytes(ms[i])
      BY <1>4 DEF Tokens, ImageBytes
    <2>2. QED
      BY <1>1, <1>4, <1>5, <2>1, UseSame
  <1>8. QED
    BY <1>4, <1>5, <1>6, <1>7 DEF N

\* The conversation read from the turns up to one.
Settled(ms, u) ==
    /\ Shape(ms) /\ u = Use(ms) /\ u.traces <= MaxTraces
    /\ Streams(ms, NoReply)

UpTo(src, t) == Pick(src, {m \in ToSet(src) : m.turn <= t})

ReadUpTo(store, src, t, l) ==
    /\ Settled(store.messages, store.usage)
    /\ OverBudget(store.messages, store.usage, l)
    /\ store.usage.traces <= Use(UpTo(src, t)).traces
    /\ \A i \in 1..Len(store.messages) : \E j \in 1..Len(src) :
         /\ store.messages[i].id = src[j].id
         /\ store.messages[i].turn = src[j].turn /\ src[j].turn <= t

LEMMA SettledIs ==
    ASSUME NEW ms, NEW u, NEW p
    PROVE  /\ Settled(ms, u) => Steady(ms, u, NoReply, EndsInterrupted(ms))
           /\ Steady(ms, u, NoReply, p) => Settled(ms, u)
  BY DEF Settled, Steady, Owes, EndsInterrupted

\* The usage of the turns up to one grows by that of the next turn.
LEMMA UpToIs ==
    ASSUME NEW src, Shape(src), Use(src).traces <= MaxTraces, NEW t \in Nat
    PROVE  /\ Use(UpTo(src, t)) \in Usage /\ Use(OfTurn(src, t + 1)) \in Usage
           /\ Use(UpTo(src, t + 1)).traces = Use(UpTo(src, t)).traces + Use(OfTurn(src, t + 1)).traces
           /\ Use(UpTo(src, t + 1)).traces <= MaxTraces
  <1> DEFINE S == {m \in ToSet(src) : m.turn <= t}
             T == {m \in ToSet(src) : m.turn = t + 1}
             U == {m \in ToSet(src) : m.turn <= t + 1}
             V == {m \in ToSet(src) : ~(m.turn <= t + 1)}
  <1>1. src \in Seq(Message) /\ \A i \in 1..Len(src) : src[i].turn \in Nat /\ src[i] \in ToSet(src)
    <2>1. src \in Seq(Message) /\ \A i \in 1..Len(src) : Sound(src[i])
      BY DEF Shape
    <2>2. QED
      BY <2>1 DEF Sound, Message, ToSet
  <1>2. /\ UpTo(src, t) = Pick(src, S) /\ OfTurn(src, t + 1) = Pick(src, T)
        /\ UpTo(src, t + 1) = Pick(src, U)
    BY DEF UpTo, OfTurn
  <1>3. \A i \in 1..Len(src) : /\ src[i] \in U <=> src[i] \in S \/ src[i] \in T
                               /\ ~(src[i] \in S /\ src[i] \in T)
    BY <1>1
  <1>4. \A i \in 1..Len(src) : src[i] \in V <=> src[i] \notin U
    BY <1>1
  <1> HIDE DEF S, T, U, V
  <1>5. Use(Pick(src, U)) = Plus(Use(Pick(src, S)), Use(Pick(src, T)))
    BY <1>1, <1>3, PickUnion
  <1>6. Use(Pick(src, U)).traces <= Use(src).traces
    BY <1>1, <1>4, PickUse
  <1>7. Use(Pick(src, S)) \in Usage /\ Use(Pick(src, T)) \in Usage /\ Use(Pick(src, U)) \in Usage
        /\ Use(src) \in Usage
    BY <1>1, PickEmbeds, UseIs
  <1>8. Use(Pick(src, U)).traces = Use(Pick(src, S)).traces + Use(Pick(src, T)).traces
    BY <1>5, <1>7, MinusPlus
  <1>9. Use(Pick(src, U)).traces <= MaxTraces
    BY <1>6, <1>7, SessionAssumption DEF Usage
  <1>10. QED
    BY <1>2, <1>7, <1>8, <1>9

\* Reading one more turn.
LEMMA TakeTurnIs ==
    ASSUME NEW src, Shape(src), Use(src).traces <= MaxTraces, NEW t \in Nat, NEW l \in Limits,
           NEW store, ReadUpTo(store, src, t, l)
    PROVE  ReadUpTo(TakeTurn(store, Stopped(OfTurn(src, t + 1)), l), src, t + 1, l)
  <1> DEFINE T == OfTurn(src, t + 1)
             S == Stopped(T)
             new == Use(S)
             ms == store.messages
             n == Len(ms)
             kept == Trim(ms, store.usage, NoReply, Len(S), new, l)
             after == TakeTurn(store, S, l)
  <1>1. /\ Settled(ms, store.usage) /\ Shape(ms) /\ ms \in Seq(Message) /\ n \in Nat
        /\ store.usage = Use(ms) /\ OverBudget(ms, store.usage, l)
        /\ store.usage.traces <= Use(UpTo(src, t)).traces /\ store.usage \in Usage
    <2>1. Settled(ms, store.usage) /\ Shape(ms) /\ ms \in Seq(Message) /\ store.usage = Use(ms)
      BY DEF ReadUpTo, Settled, Shape
    <2>2. Use(ms) \in Usage
      BY <2>1, UseIs
    <2>3. QED
      BY <2>1, <2>2 DEF ReadUpTo
  <1>2. /\ Shape(T) /\ Shape(S) /\ Len(S) = Len(T) /\ new = Use(T) /\ Len(S) \in Nat
        /\ \A i \in 1..Len(S) : /\ S[i].id = T[i].id /\ S[i].turn = T[i].turn /\ S[i].state # "Streaming"
                                /\ T[i].turn = t + 1 /\ \E j \in 1..Len(src) : T[i] = src[j]
    <2>1. /\ Shape(T) /\ Len(T) \in 0..2
          /\ \A i \in 1..Len(T) : T[i].turn = t + 1 /\ \E j \in 1..Len(src) : T[i] = src[j]
      BY OfTurnIs
    <2> HIDE DEF T
    <2>2. /\ Shape(S) /\ Len(S) = Len(T) /\ Use(S) = Use(T)
          /\ \A i \in 1..Len(T) : S[i].id = T[i].id /\ S[i].turn = T[i].turn /\ S[i].state # "Streaming"
      BY <2>1, StoppedIs
    <2> HIDE DEF S
    <2>3. QED
      BY <2>1, <2>2
  <1>3. /\ Use(UpTo(src, t)) \in Usage /\ new \in Usage
        /\ Use(UpTo(src, t + 1)).traces = Use(UpTo(src, t)).traces + new.traces
        /\ Use(UpTo(src, t + 1)).traces <= MaxTraces
    BY <1>2, UpToIs
  <1>4. \A i \in 1..n : \E j \in 1..Len(src) :
           ms[i].id = src[j].id /\ ms[i].turn = src[j].turn /\ src[j].turn <= t
    BY DEF ReadUpTo
  <1>5. after = IF S = <<>> \/ ~Fits(0, Empty, Len(S), new, l) THEN store
                ELSE IF ~Fits(Len(kept.messages), kept.usage, Len(S), new, l) THEN kept
                ELSE [messages |-> kept.messages \o S, usage |-> Plus(kept.usage, new)]
    BY DEF TakeTurn
  <1>src. \A j \in 1..Len(src) : src[j].turn \in Nat /\ src[j].id \in Nat
    BY DEF Shape, Sound, Message
  <1> HIDE DEF T, S, new, kept, after
  <1>6. CASE S = <<>> \/ ~Fits(0, Empty, Len(S), new, l)
    <2>1. after = store
      BY <1>5, <1>6
    <2>2. store.usage.traces <= Use(UpTo(src, t + 1)).traces
      <3>1. Use(UpTo(src, t)).traces \in Nat /\ new.traces \in Nat /\ store.usage.traces \in Nat
        BY <1>1, <1>3 DEF Usage
      <3>2. QED
        BY <1>1, <1>3, <3>1
    <2>3. \A i \in 1..n : \E j \in 1..Len(src) :
             ms[i].id = src[j].id /\ ms[i].turn = src[j].turn /\ src[j].turn <= t + 1
      BY <1>4, <1>src
    <2>4. ReadUpTo(store, src, t + 1, l)
      BY <1>1, <2>2, <2>3 DEF ReadUpTo
    <2>5. QED
      BY <2>1, <2>4 DEF after, S, T
  <1>7. CASE ~(S = <<>> \/ ~Fits(0, Empty, Len(S), new, l))
    <2>1. PICK k \in 0..n : Kept(kept, ms, NoReply, Len(S), new, l, k)
      <3>1. kept = Trim(ms, Use(ms), NoReply, Len(S), new, l)
        BY <1>1 DEF kept
      <3>2. QED
        BY <1>1, <3>1, TrimKeeps
    <2> DEFINE R == Rest(ms, k)
               r == Len(R)
    <2>2. /\ kept.messages = R /\ kept.usage = Use(R) /\ r = n - k /\ Shape(R)
          /\ \A i \in 1..(n - k) : R[i] = ms[k + i]
          /\ Fits(r, Use(R), Len(S), new, l) \/ k = n
      BY <2>1 DEF Kept
    <2>3. Settled(R, Use(R))
      <3>1. Steady(ms, store.usage, NoReply, EndsInterrupted(ms))
        BY <1>1, SettledIs
      <3>2. Steady(kept.messages, kept.usage, NoReply, EndsInterrupted(ms))
        BY <1>2, <1>3, <2>1, <3>1, KeptSteady
      <3>3. QED
        BY <2>2, <3>2, SettledIs
    <2>4. Fits(r, Use(R), Len(S), new, l)
      <3>1. CASE k = n
        <4>1. R = <<>>
          BY <1>1, <3>1, LeadingIs
        <4>2. r = 0 /\ Use(R) = Empty
          BY <4>1, UseIs
        <4>3. Fits(0, Empty, Len(S), new, l)
          BY <1>7
        <4>4. QED
          BY <4>2, <4>3
      <3>2. QED
        BY <2>2, <3>1
    <2>5. Use(R).traces <= Use(ms).traces /\ Use(R) \in Usage
      <3>1. Use(ms) = Plus(Use(Leading(ms, k)), Use(R)) /\ Leading(ms, k) \in Seq(Message)
        BY <1>1, UseParts, Parts
      <3>2. Use(R) \in Usage /\ Use(Leading(ms, k)) \in Usage
        BY <2>2, <3>1, UseIs DEF Shape
      <3>3. Use(ms).traces = Use(Leading(ms, k)).traces + Use(R).traces
        BY <3>1, <3>2, MinusPlus
      <3>4. QED
        BY <3>2, <3>3 DEF Usage
    <2> HIDE DEF R
    <2>6. \A i \in 1..r : \E j \in 1..Len(src) :
             R[i].id = src[j].id /\ R[i].turn = src[j].turn /\ src[j].turn <= t
      <3>1. \A i \in 1..r : i \in 1..(n - k) /\ k + i \in 1..n
        BY <1>1, <2>2
      <3>2. TAKE i \in 1..r
      <3>3. i \in 1..(n - k) /\ k + i \in 1..n
        BY <3>1
      <3>4. R[i] = ms[k + i]
        BY <2>2, <3>3
      <3>5. QED
        BY <1>4, <3>3, <3>4
    <2>7. \A i \in 1..Len(S) : \E j \in 1..Len(src) :
             S[i].id = src[j].id /\ S[i].turn = src[j].turn /\ src[j].turn = t + 1
      BY <1>2
    <2>8. ASSUME NEW i \in 1..r, NEW j \in 1..Len(S) PROVE Before(R[i], S[j])
      <3>1. PICK a \in 1..Len(src) :
               R[i].id = src[a].id /\ R[i].turn = src[a].turn /\ src[a].turn <= t
        BY <2>6
      <3>2. PICK b \in 1..Len(src) :
               S[j].id = src[b].id /\ S[j].turn = src[b].turn /\ src[b].turn = t + 1
        BY <2>7
      <3>3. src[a].turn < src[b].turn
        BY <1>src, <3>1, <3>2
      <3>4. a < b
        <4>1. CASE b < a
          <5>1. src[b].turn <= src[a].turn
            BY <4>1 DEF Shape, Before
          <5>2. QED
            BY <1>src, <3>3, <5>1
        <4>2. a # b
          BY <1>src, <3>3
        <4>3. Len(src) \in Nat
          BY DEF Shape
        <4>4. QED
          BY <4>1, <4>2, <4>3
      <3>5. Before(src[a], src[b])
        BY <3>4 DEF Shape
      <3>6. QED
        BY <1>src, <3>1, <3>2, <3>3, <3>5 DEF Before
    <2> DEFINE C == R \o S
    <2>9. /\ Shape(C) /\ Len(C) = r + Len(S)
          /\ \A i \in 1..r : C[i] = R[i]
          /\ \A i \in 1..Len(S) : C[r + i] = S[i]
          /\ \A i \in 1..(r + Len(S)) : C[i] = IF i <= r THEN R[i] ELSE S[i - r]
      <3>1. Shape(R) /\ Shape(S) /\ \A i \in 1..Len(R), j \in 1..Len(S) : Before(R[i], S[j])
        BY <1>2, <2>2, <2>8
      <3>2. /\ Shape(R \o S) /\ Len(R \o S) = Len(R) + Len(S)
            /\ \A i \in 1..Len(R) : (R \o S)[i] = R[i]
            /\ \A i \in 1..Len(S) : (R \o S)[Len(R) + i] = S[i]
            /\ \A i \in 1..(Len(R) + Len(S)) : (R \o S)[i] = IF i <= Len(R) THEN R[i] ELSE S[i - Len(R)]
        BY <3>1, JoinShape
      <3>3. QED
        BY <3>2
    <2>10. Use(C) = Plus(Use(R), new)
      BY <1>2, <2>2, UseIs DEF Shape, new
    <2> HIDE DEF C
    <2>11. after.messages = C /\ after.usage = Use(C)
      <3>1. after = [messages |-> kept.messages \o S, usage |-> Plus(kept.usage, new)]
        BY <1>5, <1>7, <2>2, <2>4
      <3>2. QED
        BY <2>2, <2>10, <3>1 DEF C
    <2>12. /\ Use(C).tokens = Use(R).tokens + new.tokens
           /\ Use(C).images = Use(R).images + new.images
           /\ Use(C).traces = Use(R).traces + new.traces
      BY <1>3, <2>5, <2>10, MinusPlus
    <2>13. Use(C).traces <= Use(UpTo(src, t + 1)).traces /\ Use(C).traces <= MaxTraces
      <3>1. /\ Use(R).traces \in Nat /\ new.traces \in Nat /\ Use(UpTo(src, t)).traces \in Nat
            /\ Use(ms).traces \in Nat /\ MaxTraces \in Nat
        BY <1>1, <1>3, <2>5, SessionAssumption DEF Usage
      <3>2. QED
        BY <1>1, <1>3, <2>5, <2>12, <3>1
    <2>14. ASSUME NEW i \in 1..Len(C)
           PROVE  \/ i \in 1..r /\ C[i] = R[i]
                  \/ i - r \in 1..Len(S) /\ C[i] = S[i - r]
      <3>1. r \in Nat
        BY <1>1, <2>2
      <3>2. QED
        BY <1>2, <2>9, <3>1
    <2>15. Streams(C, NoReply)
      <3>1. \A i \in 1..r : R[i].state # "Streaming"
        BY <2>3 DEF Settled, Streams
      <3>2. \A i \in 1..Len(C) : C[i].state # "Streaming"
        BY <1>2, <2>14, <3>1
      <3>3. QED
        BY <3>2 DEF Streams
    <2>16. OverBudget(C, Use(C), l)
      <3>1. /\ r + Len(S) <= l.messages /\ Use(R).tokens + new.tokens <= l.tokens
            /\ Use(R).images + new.images <= MaxImages
        BY <2>4 DEF Fits
      <3>2. /\ Use(C).tokens \in Nat /\ Use(C).images \in Nat /\ Len(C) + 0 = r + Len(S)
        <4>1. r \in Nat /\ Use(R).tokens \in Nat /\ Use(R).images \in Nat
              /\ new.tokens \in Nat /\ new.images \in Nat
          BY <1>1, <1>3, <2>2, <2>5 DEF Usage
        <4>2. QED
          BY <1>2, <2>9, <2>12, <4>1
      <3>3. Fits(Len(C), Use(C), 0, Empty, l)
        BY <2>12, <3>1, <3>2 DEF Fits, Empty
      <3>4. QED
        BY <3>3 DEF OverBudget
    <2>17. \A i \in 1..Len(C) : \E j \in 1..Len(src) :
              C[i].id = src[j].id /\ C[i].turn = src[j].turn /\ src[j].turn <= t + 1
      <3>1. TAKE i \in 1..Len(C)
      <3>2. CASE i \in 1..r /\ C[i] = R[i]
        <4>1. PICK j \in 1..Len(src) :
                 R[i].id = src[j].id /\ R[i].turn = src[j].turn /\ src[j].turn <= t
          BY <2>6, <3>2
        <4>2. src[j].turn <= t + 1
          BY <1>src, <4>1
        <4>3. QED
          BY <3>2, <4>1, <4>2
      <3>3. CASE i - r \in 1..Len(S) /\ C[i] = S[i - r]
        BY <2>7, <3>3
      <3>4. QED
        BY <2>14, <3>2, <3>3
    <2>18. Settled(C, Use(C))
      BY <2>9, <2>13, <2>15 DEF Settled
    <2>19. ReadUpTo(after, src, t + 1, l)
      BY <2>11, <2>13, <2>16, <2>17, <2>18 DEF ReadUpTo
    <2>20. QED
      BY <2>19 DEF after, S, T
  <1>8. QED
    BY <1>6, <1>7

\* What Restored computes, turn by turn.
Nothing == [messages |-> <<>>, usage |-> Empty]

\* The equation that defines the function in Restored.
TakenEquation(src, l, last, f) ==
    f = [t \in 0..last |-> IF t = 0 THEN Nothing
                           ELSE TakeTurn(f[t - 1], Stopped(OfTurn(src, t)), l)]

LEMMA TakenExists ==
    ASSUME NEW src, NEW l, NEW last \in Nat
    PROVE  \E f : TakenEquation(src, l, last, f)
  <1> DEFINE Upto(n) == \E f : f = [t \in 0..n |-> IF t = 0 THEN Nothing
                                                   ELSE TakeTurn(f[t - 1], Stopped(OfTurn(src, t)), l)]
             T == {n \in Nat : Upto(n)}
  <1>1. Upto(0)
    <2> DEFINE f == [t \in 0..0 |-> Nothing]
    <2>1. f = [t \in 0..0 |-> IF t = 0 THEN Nothing
                              ELSE TakeTurn(f[t - 1], Stopped(OfTurn(src, t)), l)]
      OBVIOUS
    <2>2. QED
      BY <2>1
  <1>2. ASSUME NEW n \in Nat, Upto(n) PROVE Upto(n + 1)
    <2>1. PICK f : f = [t \in 0..n |-> IF t = 0 THEN Nothing
                                       ELSE TakeTurn(f[t - 1], Stopped(OfTurn(src, t)), l)]
      BY <1>2
    <2> DEFINE new == TakeTurn(f[n], Stopped(OfTurn(src, n + 1)), l)
               g == [t \in 0..(n + 1) |-> IF t = n + 1 THEN new ELSE f[t]]
    <2>2. ASSUME NEW t \in 0..(n + 1)
          PROVE  g[t] = IF t = 0 THEN Nothing ELSE TakeTurn(g[t - 1], Stopped(OfTurn(src, t)), l)
      <3>1. CASE t = n + 1
        <4>1. g[t] = new /\ t - 1 = n /\ g[t - 1] = f[n] /\ t # 0
          <5> HIDE DEF new
          <5>1. QED
            BY <3>1
        <4> HIDE DEF g
        <4>2. QED
          BY <3>1, <4>1
      <3>2. CASE t # n + 1
        <4>1. t \in 0..n /\ (t # 0 => t - 1 \in 0..n)
          BY <3>2
        <4>2. f[t] = IF t = 0 THEN Nothing ELSE TakeTurn(f[t - 1], Stopped(OfTurn(src, t)), l)
          BY <2>1, <4>1
        <4>3. g[t] = f[t] /\ (t # 0 => g[t - 1] = f[t - 1])
          BY <3>2, <4>1
        <4> HIDE DEF g
        <4>4. QED
          BY <4>2, <4>3
      <3>3. QED
        BY <3>1, <3>2
    <2>3. \E s : g = [t \in 0..(n + 1) |-> s[t]]
      <3> DEFINE s == [t \in 0..(n + 1) |-> IF t = n + 1 THEN new ELSE f[t]]
      <3>1. g = [t \in 0..(n + 1) |-> s[t]]
        OBVIOUS
      <3>2. QED
        BY <3>1
    <2> HIDE DEF g
    <2>4. g = [t \in 0..(n + 1) |->
                 IF t = 0 THEN Nothing ELSE TakeTurn(g[t - 1], Stopped(OfTurn(src, t)), l)]
      BY <2>2, <2>3
    <2>5. QED
      BY <2>4
  <1> HIDE DEF Upto
  <1>3. 0 \in T /\ \A n \in Nat : n \in T => n + 1 \in T
    BY <1>1, <1>2
  <1>4. \A n \in Nat : n \in T
    <2> HIDE DEF T
    <2>1. QED
      BY <1>3, Induction
  <1>5. Upto(last)
    BY <1>4
  <1>6. QED
    BY <1>5 DEF Upto, TakenEquation

\* The numbers of a snapshot are those of its messages or below.
LEMMA HighestIs ==
    ASSUME NEW src, Shape(src), NEW a \in Nat, NEW b \in Nat, Numbered(src, a, b)
    PROVE  /\ HighestTurn(src) \in Nat /\ HighestMessage(src) \in Nat
           /\ \A j \in 1..Len(src) : src[j].turn <= HighestTurn(src) /\ src[j].id <= HighestMessage(src)
  <1> DEFINE S == {0} \cup {m.turn : m \in ToSet(src)}
             T == {0} \cup {m.id : m \in ToSet(src)}
  <1>1. src \in Seq(Message) /\ ToSet(src) = {src[j] : j \in 1..Len(src)}
    BY DEF Shape, ToSet
  <1>2. \A j \in 1..Len(src) : /\ src[j].turn \in Nat /\ src[j].id \in Nat
                               /\ src[j].turn <= a /\ src[j].id <= b
    BY DEF Shape, Sound, Message, Numbered
  <1>3. S \in SUBSET Nat /\ T \in SUBSET Nat /\ S # {} /\ T # {}
    BY <1>1, <1>2
  <1>4. (\A n \in S : n <= a) /\ (\A n \in T : n <= b)
    BY <1>1, <1>2
  <1>5. \A j \in 1..Len(src) : src[j].turn \in S /\ src[j].id \in T
    BY <1>1
  <1>6. HighestTurn(src) = Max(S) /\ HighestMessage(src) = Max(T)
    BY DEF HighestTurn, HighestMessage
  <1> HIDE DEF S, T
  <1>7. Max(S) \in S /\ \A n \in S : n <= Max(S)
    BY <1>3, <1>4, MaxIs
  <1>8. Max(T) \in T /\ \A n \in T : n <= Max(T)
    BY <1>3, <1>4, MaxIs
  <1>9. QED
    BY <1>3, <1>5, <1>6, <1>7, <1>8

\* What is read of a snapshot.
LEMMA RestoredIs ==
    ASSUME NEW src, Shape(src), Use(src).traces <= MaxTraces, NEW l \in Limits,
           NEW a \in Nat, NEW b \in Nat, Numbered(src, a, b)
    PROVE  ReadUpTo(Restored(src, l), src, HighestTurn(src), l)
  <1> DEFINE last == HighestTurn(src)
             F == CHOOSE f : f = [t \in 0..last |-> IF t = 0 THEN [messages |-> <<>>, usage |-> Empty]
                                                    ELSE TakeTurn(f[t - 1], Stopped(OfTurn(src, t)), l)]
             T == {t \in Nat : t <= last => ReadUpTo(F[t], src, t, l)}
  <1>1. last \in Nat
    BY HighestIs
  <1>2. Restored(src, l) = F[last]
    BY DEF Restored
  <1> HIDE DEF last
  <1>3. \E f : f = [t \in 0..last |-> IF t = 0 THEN [messages |-> <<>>, usage |-> Empty]
                                      ELSE TakeTurn(f[t - 1], Stopped(OfTurn(src, t)), l)]
    <2>1. \E f : TakenEquation(src, l, last, f)
      BY <1>1, TakenExists
    <2>2. QED
      BY <2>1 DEF TakenEquation, Nothing
  <1>4. F = [t \in 0..last |-> IF t = 0 THEN [messages |-> <<>>, usage |-> Empty]
                               ELSE TakeTurn(F[t - 1], Stopped(OfTurn(src, t)), l)]
    BY <1>3
  <1> HIDE DEF F
  <1>5. F[0] = Nothing
    BY <1>1, <1>4 DEF Nothing
  <1>6. \A t \in 1..last : F[t] = TakeTurn(F[t - 1], Stopped(OfTurn(src, t)), l)
    <2>1. ASSUME NEW t \in 1..last PROVE F[t] = TakeTurn(F[t - 1], Stopped(OfTurn(src, t)), l)
      <3>1. t \in 0..last /\ t # 0
        BY <1>1
      <3>2. QED
        BY <1>4, <3>1
    <2>2. QED
      BY <2>1
  <1>7. 0 \in T
    <2>1. Steady(<<>>, Empty, NoReply, FALSE) /\ OverBudget(<<>>, Empty, l)
      BY EmptyIs
    <2>2. Settled(<<>>, Empty)
      BY <2>1, SettledIs
    <2>3. UpTo(src, 0) \in Seq(Message)
      BY PickEmbeds DEF UpTo, Shape
    <2>4. Empty.traces <= Use(UpTo(src, 0)).traces
      <3>1. Use(UpTo(src, 0)) \in Usage
        BY <2>3, UseIs
      <3>2. QED
        BY <3>1 DEF Usage, Empty
    <2>5. ReadUpTo(Nothing, src, 0, l)
      BY <2>1, <2>2, <2>4 DEF ReadUpTo, Nothing
    <2>6. QED
      BY <1>5, <2>5
  <1>8. ASSUME NEW t \in Nat, t \in T PROVE t + 1 \in T
    <2> SUFFICES ASSUME t + 1 <= last PROVE ReadUpTo(F[t + 1], src, t + 1, l)
      OBVIOUS
    <2>1. t + 1 \in 1..last /\ (t + 1) - 1 = t /\ t <= last
      BY <1>1
    <2>2. ReadUpTo(F[t], src, t, l)
      BY <1>8, <2>1
    <2>3. F[t + 1] = TakeTurn(F[t], Stopped(OfTurn(src, t + 1)), l)
      BY <1>6, <2>1
    <2>4. QED
      BY <2>2, <2>3, TakeTurnIs
  <1>9. \A t \in Nat : t \in T
    <2> HIDE DEF T
    <2>1. QED
      BY <1>7, <1>8, Induction
  <1>10. ReadUpTo(F[last], src, last, l)
    BY <1>1, <1>9
  <1>11. QED
    BY <1>2, <1>10 DEF last

LEMMA RestoreKeeps ==
    ASSUME IInv, NEW l \in Limits, Restore(l)
    PROVE  IInv' /\ Quiet
  <1> DEFINE src == Stored(messages)
             store == Restored(src, l)
             ms == store.messages
             turns == HighestTurn(src)
             ids == HighestMessage(src)
  <1>1. /\ messages' = ms /\ usage' = store.usage /\ limits' = l
        /\ nextTurn' = turns /\ nextMessage' = ids /\ nextResponse' = 0
        /\ active' = NoReply /\ voicePending' = EndsInterrupted(ms) /\ answer' = Answer("restored")
    BY DEF Restore, Keep
  <1>2. /\ Shape(messages) /\ usage = Use(messages) /\ usage.traces <= MaxTraces
        /\ nextTurn \in Nat /\ nextMessage \in Nat /\ Numbered(messages, nextTurn, nextMessage)
    BY DEF IInv, Steady, Numbered
  <1>3. /\ Shape(src) /\ Use(src).traces <= MaxTraces /\ Numbered(src, nextTurn, nextMessage)
    <2>1. /\ Shape(src) /\ Len(src) = Len(messages) /\ Use(src).traces = Use(messages).traces
          /\ \A i \in 1..Len(messages) : src[i].turn = messages[i].turn /\ src[i].id = messages[i].id
      BY <1>2, StoredIs
    <2> HIDE DEF src
    <2>2. QED
      BY <1>2, <2>1 DEF Numbered
  <1> HIDE DEF src
  <1>4. ReadUpTo(store, src, turns, l)
    BY <1>2, <1>3, RestoredIs
  <1>5. /\ turns \in Nat /\ ids \in Nat
        /\ \A j \in 1..Len(src) : src[j].turn <= turns /\ src[j].id <= ids
    BY <1>2, <1>3, HighestIs
  <1> HIDE DEF store, turns, ids
  <1>6. Steady(ms, store.usage, NoReply, EndsInterrupted(ms)) /\ OverBudget(ms, store.usage, l)
    BY <1>4, SettledIs DEF ReadUpTo
  <1>7. Numbered(ms, turns, ids)
    <2>1. \A i \in 1..Len(ms) : \E j \in 1..Len(src) : ms[i].id = src[j].id /\ ms[i].turn = src[j].turn
      BY <1>4 DEF ReadUpTo
    <2>2. QED
      BY <1>5, <2>1 DEF Numbered
  <1>8. Steady(messages, usage, active, voicePending)'
    BY <1>1, <1>6
  <1>9. OverBudget(messages, usage, limits)' /\ Numbered(messages, nextTurn, nextMessage)'
    BY <1>1, <1>6, <1>7
  <1>10. IInv'
    BY <1>1, <1>8, <1>9 DEF IInv, NoReply
  <1>11. QED
    BY <1>1, <1>10 DEF Quiet, Answer

-----------------------------------------------------------------------------
(* Requests.                                                               *)

Entries == [source : Nat, role : {"User", "Assistant"}, image : Images, marked : BOOLEAN, size : Nat]

\* Questions and answers in turn, from a question to a question.
Alternating(c) ==
    /\ c \in Seq(Entries)
    /\ Len(c) % 2 = 1
    /\ \A i \in 1..Len(c) : c[i].role = IF i % 2 = 1 THEN "User" ELSE "Assistant"

LEMMA EntryIs ==
    ASSUME NEW e \in Entries
    PROVE  RequestTokens(e) \in Nat
  BY SessionAssumption DEF Entries, RequestTokens, Images

LEMMA RequestSizeIs ==
    /\ \A c \in Seq(Entries) : RequestSize(c) \in Nat
    /\ \A e \in Entries : RequestSize(<<e>>) = RequestTokens(e)
  <1> DEFINE W == [e \in Entries |-> RequestTokens(e)]
  <1>1. W \in [Entries -> Nat] /\ \A e \in Entries : W[e] = RequestTokens(e)
    BY EntryIs
  <1>2. ASSUME NEW c \in Seq(Entries) PROVE RequestSize(c) = Total(Weigh(W, c))
    <2>1. \A i \in DOMAIN c : c[i] \in Entries
      OBVIOUS
    <2> HIDE DEF W
    <2>2. [i \in DOMAIN c |-> RequestTokens(c[i])] = Weigh(W, c)
      BY <1>1, <2>1 DEF Weigh
    <2>3. QED
      BY <2>2 DEF RequestSize
  <1> HIDE DEF W
  <1>3. \A e \in Entries : <<e>> \in Seq(Entries)
    OBVIOUS
  <1>4. \A c \in Seq(Entries) : Total(Weigh(W, c)) \in Nat
    BY <1>1, WeightIs
  <1>5. \A e \in Entries : Total(Weigh(W, <<e>>)) = W[e]
    BY <1>1, WeightIs
  <1>6. QED
    BY <1>1, <1>2, <1>3, <1>4, <1>5

\* What is left of an alternating context after questions left with answers.
Shortened(s, c, k) ==
    /\ k \in 0..(Len(c) - 1) /\ k % 2 = 0
    /\ s = Rest(c, k) /\ Alternating(s) /\ Len(s) = Len(c) - k
    /\ \A i \in 1..(Len(c) - k) : s[i] = c[k + i]
    /\ Last(s) = Last(c)

LEMMA ShortenedIs ==
    ASSUME NEW c, Alternating(c), NEW k \in 0..(Len(c) - 1), k % 2 = 0
    PROVE  Shortened(Rest(c, k), c, k)
  <1> DEFINE n == Len(c)
             s == Rest(c, k)
  <1>1. c \in Seq(Entries) /\ n \in Nat /\ k \in 0..n /\ n % 2 = 1 /\ k \in Nat /\ k < n
    BY DEF Alternating
  <1>2. s \in Seq(Entries) /\ Len(s) = n - k /\ \A i \in 1..(n - k) : s[i] = c[k + i]
    BY <1>1, Parts
  <1> HIDE DEF s
  <1>3. (n - k) % 2 = 1
    BY <1>1
  <1>4. ASSUME NEW i \in 1..(n - k)
        PROVE  s[i].role = IF i % 2 = 1 THEN "User" ELSE "Assistant"
    <2>1. k + i \in 1..n /\ ((k + i) % 2 = 1 <=> i % 2 = 1)
      BY <1>1
    <2>2. c[k + i].role = IF (k + i) % 2 = 1 THEN "User" ELSE "Assistant"
      BY <2>1 DEF Alternating
    <2>3. QED
      BY <1>2, <2>1, <2>2
  <1>5. Alternating(s)
    BY <1>2, <1>3, <1>4 DEF Alternating
  <1>6. Last(s) = Last(c)
    <2>1. n - k \in 1..(n - k) /\ k + (n - k) = n
      BY <1>1
    <2>2. s[n - k] = c[n]
      BY <1>2, <2>1
    <2>3. QED
      BY <1>2, <2>2 DEF Last
  <1>7. QED
    BY <1>1, <1>2, <1>5, <1>6 DEF Shortened, s

\* A request that was shortened fits, and is not shortened twice.
LEMMA TrimRequestIs ==
    ASSUME NEW c, Alternating(c), NEW budget \in Nat, RequestTokens(Last(c)) <= budget
    PROVE  \E k \in 0..(Len(c) - 1) :
             /\ Shortened(TrimRequest(c, budget), c, k)
             /\ RequestSize(TrimRequest(c, budget)) <= budget
             /\ RequestSize(c) <= budget => TrimRequest(c, budget) = c
  <1> DEFINE n == Len(c)
             stops == {k \in 0..(n - 1) :
                         ~(k > 0 /\ c[k].role = "User" /\ c[k + 1].role = "Assistant")}
             enough == {k \in stops : RequestSize(Rest(c, k)) <= budget}
  <1>1. c \in Seq(Entries) /\ n \in Nat /\ n % 2 = 1 /\ n # 0 /\ n \in 1..n
    BY DEF Alternating
  <1>2. c # <<>> /\ TrimRequest(c, budget) = Rest(c, IF enough # {} THEN Min(enough) ELSE Max(stops))
    BY <1>1 DEF TrimRequest
  <1>3. ASSUME NEW k \in stops PROVE k \in 0..(n - 1) /\ k % 2 = 0
    <2>1. k \in 0..(n - 1) /\ k \in Nat
      BY <1>1
    <2>2. CASE k % 2 # 0
      <3>1. k > 0 /\ k \in 1..n /\ k + 1 \in 1..n /\ k % 2 = 1 /\ (k + 1) % 2 # 1
        BY <1>1, <2>1, <2>2
      <3>2. c[k].role = "User" /\ c[k + 1].role = "Assistant"
        BY <3>1 DEF Alternating
      <3>3. QED
        BY <3>1, <3>2
    <2>3. QED
      BY <2>1, <2>2
  <1>4. n - 1 \in stops
    <2>1. n - 1 \in 0..(n - 1)
      BY <1>1
    <2>2. CASE n - 1 > 0
      <3>1. n - 1 \in 1..n /\ (n - 1) % 2 # 1
        BY <1>1, <2>2
      <3>2. c[n - 1].role # "User"
        BY <3>1 DEF Alternating
      <3>3. QED
        BY <2>1, <3>2
    <2>3. QED
      BY <2>1, <2>2
  <1>5. RequestSize(Rest(c, n - 1)) <= budget
    <2> DEFINE s == Rest(c, n - 1)
    <2>1. n - 1 \in 0..n /\ n - (n - 1) = 1
      BY <1>1
    <2>2. s \in Seq(Entries) /\ Len(s) = n - (n - 1) /\ \A i \in 1..(n - (n - 1)) : s[i] = c[(n - 1) + i]
      BY <1>1, <2>1, Parts
    <2> HIDE DEF s
    <2>3. Len(s) = 1 /\ s[1] = c[n] /\ c[n] \in Entries
      BY <1>1, <2>1, <2>2
    <2> DEFINE one == <<c[n]>>
    <2>4. one \in Seq(Entries) /\ Len(one) = 1 /\ one[1] = c[n]
      BY <2>3
    <2> HIDE DEF one
    <2>5. \A i \in 1..1 : s[i] = one[i]
      BY <2>3, <2>4
    <2>6. s = one
      BY <2>2, <2>3, <2>4, <2>5
    <2>7. RequestSize(one) = RequestTokens(c[n])
      BY <2>3, RequestSizeIs DEF one
    <2>8. QED
      BY <2>6, <2>7 DEF Last, s
  <1>6. n - 1 \in enough
    BY <1>4, <1>5
  <1>7. 0 \in stops
    BY <1>1
  <1>8. RequestSize(c) <= budget => 0 \in enough
    <2>1. Rest(c, 0) = c
      BY <1>1, LeadingIs
    <2>2. QED
      BY <1>7, <2>1
  <1>9. \A k \in enough : k \in stops /\ RequestSize(Rest(c, k)) <= budget
    OBVIOUS
  <1> HIDE DEF enough, stops
  <1>10. enough \in SUBSET Nat /\ enough # {}
    BY <1>3, <1>6, <1>9
  <1>11. Min(enough) \in enough /\ \A k \in enough : Min(enough) <= k
    BY <1>10, MinIs
  <1> DEFINE cut == Min(enough)
  <1>12. /\ cut \in 0..(n - 1) /\ cut % 2 = 0 /\ RequestSize(Rest(c, cut)) <= budget
         /\ TrimRequest(c, budget) = Rest(c, cut)
    BY <1>2, <1>3, <1>9, <1>10, <1>11
  <1>13. RequestSize(c) <= budget => cut = 0
    <2>1. RequestSize(c) <= budget => cut <= 0
      BY <1>8, <1>11
    <2>2. QED
      BY <1>1, <1>12, <2>1
  <1> HIDE DEF cut
  <1>14. Shortened(Rest(c, cut), c, cut)
    BY <1>12, ShortenedIs
  <1>15. RequestSize(c) <= budget => TrimRequest(c, budget) = c
    BY <1>1, <1>12, <1>13, LeadingIs
  <1>16. QED
    BY <1>12, <1>14, <1>15

\* The interruption is told at the question.
Marked(c) == [c EXCEPT ![Len(c)].marked = TRUE, ![Len(c)].size = @ + MarkerSize]

LEMMA AnnounceIs ==
    ASSUME NEW c, Alternating(c), NEW id
    PROVE  Announce(c, id) = IF \E i \in 1..Len(c) : c[i].source = id /\ c[i].marked
                             THEN c ELSE Marked(c)
  <1> DEFINE n == Len(c)
             asked == {i \in DOMAIN c : c[i].role = "User"}
  <1>1. c \in Seq(Entries) /\ n \in Nat /\ n % 2 = 1 /\ DOMAIN c = 1..n /\ n \in 1..n
    BY DEF Alternating
  <1>2. c[n].role = "User"
    BY <1>1 DEF Alternating
  <1>3. n \in asked /\ asked \in SUBSET Nat /\ \A i \in asked : i <= n
    BY <1>1, <1>2
  <1>4. Announce(c, id) = IF (\E i \in DOMAIN c : c[i].source = id /\ c[i].marked) \/ asked = {} THEN c
                          ELSE [c EXCEPT ![Max(asked)].marked = TRUE, ![Max(asked)].size = @ + MarkerSize]
    BY DEF Announce
  <1> HIDE DEF asked
  <1>5. Max(asked) \in asked /\ \A i \in asked : i <= Max(asked)
    BY <1>1, <1>3, MaxIs
  <1>6. Max(asked) = n
    <2>1. Max(asked) \in Nat /\ n <= Max(asked) /\ Max(asked) <= n
      BY <1>3, <1>5
    <2>2. QED
      BY <1>1, <2>1
  <1>7. asked # {}
    BY <1>3
  <1>8. QED
    BY <1>1, <1>4, <1>6, <1>7 DEF Marked

LEMMA MarkedIs ==
    ASSUME NEW c, Alternating(c)
    PROVE  /\ Alternating(Marked(c)) /\ Len(Marked(c)) = Len(c)
           /\ \A i \in 1..Len(c) : i # Len(c) => Marked(c)[i] = c[i]
           /\ Last(Marked(c)).marked = TRUE /\ Last(Marked(c)).source = Last(c).source
           /\ Last(Marked(c)).image = Last(c).image
           /\ Last(Marked(c)).size = Last(c).size + MarkerSize
  <1> DEFINE n == Len(c)
             e == c[n]
             new == [e EXCEPT !.marked = TRUE, !.size = @ + MarkerSize]
             N == [c EXCEPT ![n] = new]
  <1>1. c \in Seq(Entries) /\ n \in Nat /\ n % 2 = 1 /\ n \in 1..n /\ MarkerSize \in Nat /\ e \in Entries
        /\ Last(c) = e
    BY SessionAssumption DEF Alternating, Last
  <1>2. Marked(c) = N
    BY <1>1 DEF Marked
  <1> HIDE DEF e
  <1>3. /\ new \in Entries /\ new.marked = TRUE /\ new.source = e.source /\ new.image = e.image
        /\ new.role = e.role /\ new.size = e.size + MarkerSize
    <2>1. new = [source |-> e.source, role |-> e.role, image |-> e.image, marked |-> TRUE,
                 size |-> e.size + MarkerSize]
      <3>1. e \in Entries
        BY <1>1
      <3>2. new = [e EXCEPT !.marked = TRUE, !.size = e.size + MarkerSize]
        OBVIOUS
      <3> HIDE DEF new
      <3>3. QED
        BY <3>1, <3>2 DEF Entries
    <2>2. e.size + MarkerSize \in Nat
      BY <1>1 DEF Entries
    <2> HIDE DEF new
    <2>3. QED
      BY <1>1, <2>1, <2>2 DEF Entries
  <1> HIDE DEF new
  <1>4. N \in Seq(Entries) /\ Len(N) = n /\ N[n] = new /\ \A i \in 1..n : i # n => N[i] = c[i]
    BY <1>1, <1>3
  <1> HIDE DEF N
  <1>5. \A i \in 1..n : N[i].role = c[i].role
    BY <1>3, <1>4 DEF e
  <1>6. Alternating(N)
    BY <1>1, <1>4, <1>5 DEF Alternating
  <1>7. Last(N) = new
    BY <1>4 DEF Last
  <1>8. QED
    BY <1>1, <1>2, <1>3, <1>4, <1>6, <1>7

\* The parts of Context by name.
Side(ms, t, role) == {m \in ToSet(ms) : m.turn = t /\ m.role = role}

Answered(ms, t) == \E m \in Side(ms, t, "Assistant") : m.state \in Sendable

Sent(ms, reply, m) ==
    /\ ~(m.turn # reply.turn /\ \E x \in Side(ms, m.turn, "Assistant") : x.state \notin Sendable)
    /\ IF m.role = "User" THEN m.turn = reply.turn \/ Answered(ms, m.turn)
       ELSE m.state \in Sendable /\ Side(ms, m.turn, "User") # {}

Chosen(ms, reply) == Pick(ms, {m \in ToSet(ms) : Sent(ms, reply, m)})

Entry(m) ==
    [source |-> m.id, role |-> m.role, image |-> m.image, marked |-> m.state = "InterruptedByVoice",
     size |-> m.size + (IF m.state = "InterruptedByVoice" THEN MarkerSize ELSE 0)]

LEMMA ContextParts ==
    ASSUME NEW ms, NEW reply
    PROVE  Context(ms, reply) = [i \in DOMAIN Chosen(ms, reply) |-> Entry(Chosen(ms, reply)[i])]
  BY DEF Context, Chosen, Sent, Answered, Side, Entry

LEMMA EntryOf ==
    ASSUME NEW m \in Message
    PROVE  /\ Entry(m) \in Entries /\ Entry(m).source = m.id /\ Entry(m).role = m.role
           /\ Entry(m).image = m.image /\ (Entry(m).marked <=> m.state = "InterruptedByVoice")
           /\ Entry(m).marked \in BOOLEAN
           /\ m.state # "InterruptedByVoice" => Entry(m).size = m.size
  <1>1. m.id \in Nat /\ m.role \in {"User", "Assistant"} /\ m.image \in Images /\ m.size \in Nat
    BY DEF Message
  <1>2. m.size + (IF m.state = "InterruptedByVoice" THEN MarkerSize ELSE 0) \in Nat
    BY <1>1, SessionAssumption
  <1>3. m.state # "InterruptedByVoice" =>
           m.size + (IF m.state = "InterruptedByVoice" THEN MarkerSize ELSE 0) = m.size
    BY <1>1
  <1>4. QED
    BY <1>1, <1>2, <1>3 DEF Entry, Entries

\* No message stands between the two of a turn.
LEMMA Adjacent ==
    ASSUME NEW ms, Shape(ms), NEW i \in 1..Len(ms), NEW j \in 1..Len(ms), NEW k \in 1..Len(ms),
           i < j, j < k
    PROVE  ms[i].turn # ms[k].turn
  <1>1. Before(ms[i], ms[j]) /\ Before(ms[j], ms[k])
    BY DEF Shape
  <1>2. ms[i].turn \in Nat /\ ms[j].turn \in Nat /\ ms[k].turn \in Nat
    BY DEF Shape, Sound, Message
  <1>3. QED
    BY <1>1, <1>2 DEF Before

\* A question is chosen with its answer behind it, an answer with its question
\* in front, and the question being answered comes last.
LEMMA ChosenIs ==
    ASSUME NEW ms, Shape(ms), NEW reply, Answering(ms, reply), ms[Len(ms)].state = "Streaming"
    PROVE  LET C == Chosen(ms, reply)
           IN /\ C \in Seq(Message) /\ Len(C) # 0 /\ C[Len(C)] = ms[Len(ms) - 1]
              /\ \A i \in 1..Len(C) : \E k \in 1..Len(ms) : C[i] = ms[k]
              /\ \A i \in 1..Len(C) : C[i].role \in {"User", "Assistant"}
              /\ \A i \in 1..Len(C) : C[i].role = "User" /\ i # Len(C) => C[i + 1].role = "Assistant"
              /\ \A i \in 1..Len(C) : C[i].role = "Assistant" => i # 1 /\ C[i - 1].role = "User"
  <1> DEFINE n == Len(ms)
             S == {m \in ToSet(ms) : Sent(ms, reply, m)}
             C == Pick(ms, S)
             c == Len(C)
  <1>1. ms \in Seq(Message) /\ n \in Nat /\ ToSet(ms) = {ms[i] : i \in 1..n}
    BY DEF Shape, ToSet
  <1>2. \A i \in 1..n : ms[i] \in ToSet(ms) /\ ms[i].role \in {"User", "Assistant"}
    <2>1. \A i \in 1..n : ms[i] \in Message
      BY <1>1
    <2>2. \A m \in Message : m.role \in {"User", "Assistant"}
      BY DEF Message
    <2>3. QED
      BY <1>1, <2>1, <2>2
  <1>3. /\ n - 1 \in 1..n /\ n \in 1..n
        /\ ms[n - 1].role = "User" /\ ms[n].role = "Assistant"
        /\ ms[n - 1].turn = reply.turn /\ ms[n].turn = reply.turn
        /\ \A i \in 1..n : i <= n - 2 => ms[i].turn # reply.turn
    BY LastTwo DEF Answering
  <1>4. \A i \in 1..n : ms[i] \in S <=> Sent(ms, reply, ms[i])
    BY <1>2
  <1>5. ms[n - 1] \in S
    BY <1>3, <1>4 DEF Sent
  <1>6. ms[n] \notin S
    BY <1>3, <1>4 DEF Sent, Sendable
  <1> HIDE DEF S
  <1>7. PICK h : /\ Embeds(C, ms, h)
                 /\ \A i \in 1..c : ms[h[i]] \in S
                 /\ \A k \in 1..n : ms[k] \in S => \E i \in 1..c : h[i] = k
    BY <1>1, PickEmbeds
  <1>8. C \in Seq(Message) /\ c \in Nat
    BY <1>1, PickEmbeds
  <1> HIDE DEF C
  <1>9. /\ \A i \in 1..c : h[i] \in 1..n /\ C[i] = ms[h[i]]
        /\ \A i, j \in 1..c : i < j => h[i] < h[j]
    BY <1>7 DEF Embeds
  <1>10. c # 0 /\ h[c] = n - 1 /\ c \in 1..c
    <2>1. PICK i \in 1..c : h[i] = n - 1
      BY <1>3, <1>5, <1>7
    <2>2. c \in 1..c /\ c # 0
      BY <1>8, <2>1
    <2>3. h[c] # n
      BY <1>6, <1>7, <2>2
    <2>4. ~(i < c)
      <3> SUFFICES ASSUME i < c PROVE FALSE
        OBVIOUS
      <3>1. h[i] < h[c] /\ h[c] \in 1..n
        BY <1>9, <2>2
      <3>2. QED
        BY <1>1, <2>1, <2>3, <3>1
    <2>5. QED
      BY <1>8, <2>1, <2>2, <2>4
  <1>11. ASSUME NEW i \in 1..c, NEW j \in 1..c, i < j, C[i].turn = C[j].turn PROVE j = i + 1
    <2> SUFFICES ASSUME j # i + 1 PROVE FALSE
      OBVIOUS
    <2>1. i + 1 \in 1..c /\ i < i + 1 /\ i + 1 < j
      BY <1>8, <1>11
    <2>2. h[i] < h[i + 1] /\ h[i + 1] < h[j] /\ h[i] \in 1..n /\ h[i + 1] \in 1..n /\ h[j] \in 1..n
      BY <1>9, <2>1
    <2>3. ms[h[i]].turn # ms[h[j]].turn
      BY <2>2, Adjacent
    <2>4. QED
      BY <1>9, <1>11, <2>3
  <1>12. ASSUME NEW i \in 1..c, C[i].role = "User", i # c PROVE C[i + 1].role = "Assistant"
    <2> DEFINE a == h[i]
    <2>1. a \in 1..n /\ C[i] = ms[a] /\ ms[a] \in S
      BY <1>7, <1>9
    <2>2. i < c /\ a < n - 1
      <3>1. i < c
        BY <1>8, <1>12
      <3>2. a < h[c]
        BY <1>9, <1>10, <3>1
      <3>3. QED
        BY <1>10, <3>1, <3>2
    <2>3. ms[a].turn # reply.turn
      <3>1. a <= n - 2
        BY <1>1, <2>1, <2>2
      <3>2. QED
        BY <1>3, <2>1, <3>1
    <2>4. Sent(ms, reply, ms[a])
      BY <1>4, <2>1
    <2>5. Answered(ms, ms[a].turn)
      BY <1>12, <2>1, <2>3, <2>4 DEF Sent
    <2>6. PICK k \in 1..n : ms[k].turn = ms[a].turn /\ ms[k].role = "Assistant" /\ ms[k].state \in Sendable
      BY <1>1, <2>5 DEF Answered, Side
    <2>7. ms[k] \in S
      <3>1. Side(ms, ms[k].turn, "User") # {}
        BY <1>2, <1>12, <2>1, <2>6 DEF Side
      <3>2. Sent(ms, reply, ms[k])
        BY <2>4, <2>6, <3>1 DEF Sent
      <3>3. QED
        BY <1>4, <3>2
    <2>8. PICK j \in 1..c : h[j] = k
      BY <1>7, <2>7
    <2>9. a < k
      <3>1. CASE k < a
        <4>1. Before(ms[k], ms[a])
          BY <2>1, <3>1 DEF Shape
        <4>2. QED
          BY <2>6, <4>1 DEF Before
      <3>2. k # a
        BY <1>12, <2>1, <2>6
      <3>3. QED
        BY <1>1, <2>1, <3>1, <3>2
    <2>10. i < j
      <3>1. i # j
        BY <2>8, <2>9
      <3>2. ~(j < i)
        BY <1>1, <1>9, <2>1, <2>8, <2>9
      <3>3. QED
        BY <1>8, <3>1, <3>2
    <2>11. C[j] = ms[k] /\ C[i].turn = C[j].turn
      BY <1>9, <2>1, <2>6, <2>8
    <2>12. j = i + 1
      BY <1>11, <2>10, <2>11
    <2>13. QED
      BY <2>6, <2>11, <2>12
  <1>13. ASSUME NEW i \in 1..c, C[i].role = "Assistant" PROVE i # 1 /\ C[i - 1].role = "User"
    <2> DEFINE a == h[i]
    <2>1. a \in 1..n /\ C[i] = ms[a] /\ ms[a] \in S
      BY <1>7, <1>9
    <2>2. Sent(ms, reply, ms[a])
      BY <1>4, <2>1
    <2>3. ms[a].state \in Sendable /\ Side(ms, ms[a].turn, "User") # {}
      BY <1>13, <2>1, <2>2 DEF Sent
    <2>4. PICK k \in 1..n : ms[k].turn = ms[a].turn /\ ms[k].role = "User"
      BY <1>1, <2>3 DEF Side
    <2>5. ms[k] \in S
      <3>1. Answered(ms, ms[k].turn)
        BY <1>2, <1>13, <2>1, <2>3, <2>4 DEF Answered, Side
      <3>2. Sent(ms, reply, ms[k])
        BY <2>2, <2>4, <3>1 DEF Sent
      <3>3. QED
        BY <1>4, <3>2
    <2>6. PICK j \in 1..c : h[j] = k
      BY <1>7, <2>5
    <2>7. k < a
      <3>1. CASE a < k
        <4>1. Before(ms[a], ms[k])
          BY <2>1, <3>1 DEF Shape
        <4>2. QED
          BY <1>13, <2>1, <2>4, <4>1 DEF Before
      <3>2. k # a
        BY <1>13, <2>1, <2>4
      <3>3. QED
        BY <1>1, <2>1, <3>1, <3>2
    <2>8. j < i
      <3>1. i # j
        BY <2>6, <2>7
      <3>2. ~(i < j)
        BY <1>1, <1>9, <2>1, <2>6, <2>7
      <3>3. QED
        BY <1>8, <3>1, <3>2
    <2>9. C[j] = ms[k] /\ C[j].turn = C[i].turn
      BY <1>9, <2>1, <2>4, <2>6
    <2>10. i = j + 1
      BY <1>11, <2>8, <2>9
    <2>11. i # 1 /\ i - 1 = j
      BY <1>8, <2>10
    <2>12. QED
      BY <2>4, <2>9, <2>11
  <1>14. C[c] = ms[n - 1]
    BY <1>9, <1>10
  <1>15. /\ \A i \in 1..c : \E k \in 1..n : C[i] = ms[k]
         /\ \A i \in 1..c : C[i].role \in {"User", "Assistant"}
    BY <1>2, <1>9
  <1>16. Chosen(ms, reply) = C
    BY DEF Chosen, C, S
  <1>17. QED
    BY <1>8, <1>10, <1>12, <1>13, <1>14, <1>15, <1>16

\* The context alternates and ends with the question, unmarked.
LEMMA ContextIs ==
    ASSUME NEW ms, Shape(ms), NEW reply, Answering(ms, reply), ms[Len(ms)].state = "Streaming"
    PROVE  LET c == Context(ms, reply)
           IN /\ Alternating(c)
              /\ Last(c).source = ms[Len(ms) - 1].id /\ Last(c).marked = FALSE
              /\ Last(c).image = ms[Len(ms) - 1].image /\ Last(c).size = ms[Len(ms) - 1].size
              /\ \A i \in 1..Len(c) : \E k \in 1..Len(ms) :
                   c[i].source = ms[k].id /\ (c[i].marked <=> ms[k].state = "InterruptedByVoice")
  <1> DEFINE C == Chosen(ms, reply)
             n == Len(C)
             q == ms[Len(ms) - 1]
             c == [i \in DOMAIN C |-> Entry(C[i])]
             T == {i \in Nat : i + 1 <= n =>
                                 C[i + 1].role = IF (i + 1) % 2 = 1 THEN "User" ELSE "Assistant"}
  <1>1. /\ C \in Seq(Message) /\ n # 0 /\ C[n] = q
        /\ \A i \in 1..n : \E k \in 1..Len(ms) : C[i] = ms[k]
        /\ \A i \in 1..n : C[i].role \in {"User", "Assistant"}
        /\ \A i \in 1..n : C[i].role = "User" /\ i # n => C[i + 1].role = "Assistant"
        /\ \A i \in 1..n : C[i].role = "Assistant" => i # 1 /\ C[i - 1].role = "User"
    BY ChosenIs
  <1>2. Context(ms, reply) = c
    BY ContextParts
  <1>3. q.role = "User" /\ q.state = "Complete" /\ q \in Message
    <2>1. Len(ms) - 1 \in 1..Len(ms) /\ q.role = "User"
      BY LastTwo
    <2>2. QED
      BY <2>1 DEF Shape, Sound
  <1> HIDE DEF C, q
  <1>4. n \in Nat /\ DOMAIN C = 1..n /\ n \in 1..n
    BY <1>1
  <1>5. \A i \in 1..n : C[i] \in Message
    BY <1>1
  <1>6. c \in Seq(Entries) /\ Len(c) = n /\ \A i \in 1..n : c[i] = Entry(C[i])
    <2>1. \A i \in 1..n : Entry(C[i]) \in Entries
      BY <1>5, EntryOf
    <2>2. c = [i \in 1..n |-> Entry(C[i])]
      BY <1>4
    <2> HIDE DEF c
    <2>3. QED
      BY <1>4, <2>1, <2>2
  <1> HIDE DEF c
  <1>7. 0 \in T
    <2>1. 1 \in 1..n
      BY <1>4
    <2>2. C[1].role = "User"
      BY <1>1, <2>1
    <2>3. 0 + 1 = 1 /\ 1 % 2 = 1
      OBVIOUS
    <2>4. QED
      BY <2>2, <2>3
  <1>8. ASSUME NEW i \in Nat, i \in T PROVE i + 1 \in T
    <2> SUFFICES ASSUME (i + 1) + 1 <= n
                 PROVE  C[(i + 1) + 1].role = IF ((i + 1) + 1) % 2 = 1 THEN "User" ELSE "Assistant"
      OBVIOUS
    <2> DEFINE j == i + 1
    <2>1. j \in 1..n /\ j + 1 \in 1..n /\ (j + 1) - 1 = j /\ j # n
      <3>1. ASSUME NEW x \in Nat, j + 1 <= x
            PROVE  j \in 1..x /\ j + 1 \in 1..x /\ (j + 1) - 1 = j /\ j # x
        BY <3>1
      <3>2. j + 1 <= n /\ n \in Nat
        BY <1>4
      <3>3. QED
        BY <3>1, <3>2, Zenon
    <2>2. C[j].role = IF j % 2 = 1 THEN "User" ELSE "Assistant"
      BY <1>4, <1>8
    <2>3. j % 2 = 1 <=> (j + 1) % 2 # 1
      OBVIOUS
    <2> HIDE DEF j
    <2>4. CASE j % 2 = 1
      <3>1. C[j].role = "User"
        BY <2>2, <2>4
      <3>2. C[j + 1].role = "Assistant"
        BY <1>1, <2>1, <3>1
      <3>3. QED
        BY <2>3, <2>4, <3>2 DEF j
    <2>5. CASE j % 2 # 1
      <3>1. C[j].role = "Assistant"
        BY <2>2, <2>5
      <3>2. C[j + 1].role # "Assistant" /\ C[j + 1].role \in {"User", "Assistant"}
        BY <1>1, <2>1, <3>1
      <3>3. QED
        BY <2>3, <2>5, <3>2 DEF j
    <2>6. QED
      BY <2>4, <2>5
  <1>9. \A i \in Nat : i \in T
    <2> HIDE DEF T
    <2>1. QED
      BY <1>7, <1>8, Induction
  <1>10. ASSUME NEW i \in 1..n
         PROVE  C[i].role = IF i % 2 = 1 THEN "User" ELSE "Assistant"
    <2>1. i - 1 \in Nat /\ (i - 1) + 1 = i /\ i <= n
      BY <1>4
    <2>2. i - 1 \in T
      BY <1>9, <2>1
    <2>3. QED
      BY <2>1, <2>2
  <1>11. n % 2 = 1
    <2>1. C[n].role = "User"
      BY <1>1, <1>3
    <2>2. C[n].role = IF n % 2 = 1 THEN "User" ELSE "Assistant"
      BY <1>4, <1>10
    <2>3. QED
      BY <2>1, <2>2
  <1>12. \A i \in 1..n : c[i].role = C[i].role
    BY <1>5, <1>6, EntryOf
  <1>13. Alternating(c)
    BY <1>6, <1>10, <1>11, <1>12 DEF Alternating
  <1>14. Last(c) = Entry(q)
    BY <1>1, <1>4, <1>6 DEF Last
  <1>15. /\ Entry(q).source = q.id /\ Entry(q).marked = FALSE
         /\ Entry(q).image = q.image /\ Entry(q).size = q.size
    BY <1>3, EntryOf
  <1>16. ASSUME NEW i \in 1..n
         PROVE  \E k \in 1..Len(ms) :
                   c[i].source = ms[k].id /\ (c[i].marked <=> ms[k].state = "InterruptedByVoice")
    <2>1. PICK k \in 1..Len(ms) : C[i] = ms[k]
      BY <1>1
    <2>2. c[i] = Entry(ms[k]) /\ ms[k] \in Message
      BY <1>5, <1>6, <2>1
    <2>3. QED
      BY <2>2, EntryOf
  <1>17. QED
    BY <1>2, <1>6, <1>13, <1>14, <1>15, <1>16 DEF q

\* What an interruption that is owed points to.
LEMMA LatestIs ==
    ASSUME IInv, voicePending
    PROVE  /\ messages = <<>> => LatestInterrupted = 0
           /\ messages # <<>> => LatestInterrupted = messages[Len(messages)].id
  <1> DEFINE n == Len(messages)
             found == {i \in DOMAIN messages : messages[i].state = "InterruptedByVoice"}
  <1>1. messages \in Seq(Message) /\ n \in Nat /\ DOMAIN messages = 1..n /\ Owes(messages, voicePending)
    BY DEF IInv, Steady, Shape
  <1>2. LatestInterrupted = IF found # {} THEN messages[Max(found)].id ELSE 0
    BY DEF LatestInterrupted
  <1>3. CASE messages = <<>>
    <2>1. found = {}
      BY <1>3
    <2>2. QED
      BY <1>2, <1>3, <2>1
  <1>4. CASE messages # <<>>
    <2>1. n \in 1..n /\ messages[n].state = "InterruptedByVoice"
      <3>1. Last(messages).state = "InterruptedByVoice"
        BY <1>1, <1>4 DEF Owes, EndsInterrupted
      <3>2. n # 0
        BY <1>1, <1>4
      <3>3. QED
        BY <1>1, <3>1, <3>2 DEF Last
    <2>2. n \in found /\ found \in SUBSET Nat /\ \A i \in found : i <= n
      BY <1>1, <2>1
    <2> HIDE DEF found
    <2>3. Max(found) \in found /\ \A i \in found : i <= Max(found)
      BY <1>1, <2>2, MaxIs
    <2>4. Max(found) = n
      <3>1. Max(found) \in Nat /\ n <= Max(found) /\ Max(found) <= n
        BY <2>2, <2>3
      <3>2. QED
        BY <1>1, <3>1
    <2>5. QED
      BY <1>2, <1>4, <2>2, <2>4
  <1>5. QED
    BY <1>3, <1>4

\* The question fits a request, with the marker if an interruption is owed.
LEMMA QuestionFits ==
    ASSUME IInv, NEW text \in Sizes, NEW image \in {"none", "live"}, StartFits(text, image),
           NEW e, e.image = image, NEW d \in Nat, e.size = Question(text, image).size + d,
           d <= IF voicePending THEN MarkerSize ELSE 0
    PROVE  RequestTokens(e) <= limits.request
  <1> DEFINE q == Question(text, image)
             m == IF voicePending THEN MarkerSize ELSE 0
             f == [q EXCEPT !.size = @ + m]
  <1>1. /\ limits \in Limits /\ nextMessage \in Nat /\ nextTurn \in Nat
    BY DEF IInv, Numbered
  <1>2. q.size \in Nat /\ q \in Message /\ q.image = image
    BY <1>1, TurnIs DEF Sound, Message, Question
  <1>3. ~(RequestTokens(f) > limits.request)
    BY DEF StartFits, Rejected
  <1> HIDE DEF q
  <1>4. f.size = q.size + m /\ f.image = image
    BY <1>2 DEF Message
  <1>5. m \in Nat /\ limits.request \in Nat
    BY <1>1, LimitsAre, SessionAssumption
  <1> DEFINE x == CASE image = "live" -> ImageTokens
                    [] image = "ghost" -> MissingImageTokens
                    [] OTHER -> 0
  <1>6. x \in Nat /\ PerMessage \in Nat
    BY SessionAssumption
  <1>7. RequestTokens(f) = PerMessage + (q.size + m) + x /\ RequestTokens(e) = PerMessage + (q.size + d) + x
    BY <1>4 DEF RequestTokens, q
  <1>8. d <= m
    OBVIOUS
  <1> HIDE DEF x, f, m
  <1>9. QED
    BY <1>2, <1>3, <1>5, <1>6, <1>7, <1>8

LEMMA StartTells ==
    ASSUME IInv, NEW text \in Sizes, NEW image \in {"none", "live"}, StartTurn(text, image),
           answer'.result = "started"
    PROVE  Alternates(answer.context)' /\ TellsInterruption(answer.context, answer.owed)'
  <1>1. ~(answer' = Answer("refused"))
    BY DEF Answer
  <1>2. PICK k \in 0..Len(messages) :
          /\ StartFits(text, image) /\ active = NoReply
          /\ Kept([messages |-> Rest(messages, k), usage |-> Use(Rest(messages, k))],
                  messages, NoReply, 2, Use(Turn(text, image)), limits, k)
          /\ messages' = Rest(messages, k) \o Turn(text, image)
          /\ limits' = limits /\ active' = Now
          /\ answer' = Started(Requested(messages'), voicePending)
    BY <1>1, StartIs
  <1> DEFINE R == Rest(messages, k)
             r == Len(R)
             ms == messages'
             q == Question(text, image)
             c == Context(ms, Now)
             budget == limits.request
             trimmed == TrimRequest(c, budget)
             told == IF voicePending THEN Announce(trimmed, LatestInterrupted) ELSE trimmed
             final == TrimRequest(told, budget)
  <1>3. /\ messages \in Seq(Message) /\ Shape(messages) /\ Len(messages) \in Nat
        /\ limits \in Limits /\ budget \in Nat /\ nextMessage \in Nat /\ nextTurn \in Nat
        /\ voicePending \in BOOLEAN /\ Numbered(messages, nextTurn, nextMessage)
    BY LimitsAre DEF IInv, Steady, Shape, Numbered
  <1>4. /\ r = Len(messages) - k /\ Shape(R) /\ R \in Seq(Message) /\ r \in Nat
        /\ \A i \in 1..r : k + i \in 1..Len(messages) /\ R[i] = messages[k + i]
    <2>1. /\ Shape(R) /\ Len(R) = Len(messages) - k
          /\ \A i \in 1..(Len(messages) - k) : R[i] = messages[k + i]
      BY <1>2 DEF Kept
    <2>2. k \in Nat /\ k <= Len(messages)
      BY <1>2, <1>3
    <2> HIDE DEF R
    <2>3. R \in Seq(Message) /\ Len(R) \in Nat
      BY <2>1 DEF Shape
    <2>4. \A x \in Nat : \A i \in 1..(x - k) : k + i \in 1..x
      BY <2>2
    <2>5. \A i \in 1..Len(R) : k + i \in 1..Len(messages)
      BY <1>3, <2>1, <2>4
    <2>6. QED
      BY <2>1, <2>3, <2>5
  <1>5. /\ Sound(q) /\ q.id = nextMessage + 1 /\ q.image = image /\ q.state = "Complete"
        /\ Reply.state = "Streaming" /\ q.size \in Nat
    <2>1. Sound(q)
      BY <1>2, <1>3, TurnIs
    <2>2. q.id = nextMessage + 1 /\ q.image = image /\ q.state = "Complete"
      BY DEF Question
    <2>3. QED
      BY <2>1, <2>2 DEF Sound, Message, Reply
  <1>6. /\ Shape(ms) /\ Answering(ms, Now) /\ Len(ms) = r + 2
        /\ \A i \in 1..r : ms[i] = R[i]
        /\ ms[r + 1] = q /\ ms[r + 2] = Reply
    <2>1. IInv'
      BY StartKeeps
    <2>2. Shape(ms) /\ (active' # NoReply => Answering(ms, active'))
      BY <2>1 DEF IInv, Steady
    <2>3. active' # NoReply
      <3>1. Now.turn # NoReply.turn
        BY <1>3 DEF Now, NoReply
      <3>2. QED
        BY <1>2, <3>1
    <2> DEFINE t == Turn(text, image)
    <2>4. t \in Seq(Message) /\ Len(t) = 2 /\ t[1] = q /\ t[2] = Reply
      BY <1>2, <1>3, TurnIs DEF Turn, Shape
    <2>5. ms = R \o t
      BY <1>2
    <2> HIDE DEF R, t, q, ms
    <2>6. /\ Len(R \o t) = r + Len(t)
          /\ \A i \in 1..(r + Len(t)) : (R \o t)[i] = IF i <= r THEN R[i] ELSE t[i - r]
      <3>1. R \in Seq(Message) /\ t \in Seq(Message)
        BY <1>4, <2>4
      <3>2. /\ Len(R \o t) = Len(R) + Len(t)
            /\ \A i \in 1..(Len(R) + Len(t)) :
                 (R \o t)[i] = IF i <= Len(R) THEN R[i] ELSE t[i - Len(R)]
        BY <3>1
      <3>3. QED
        BY <3>2
    <2>7. Len(ms) = r + 2 /\ \A i \in 1..(r + 2) : ms[i] = IF i <= r THEN R[i] ELSE t[i - r]
      BY <2>4, <2>5, <2>6
    <2>8. /\ \A i \in 1..r : i \in 1..(r + 2) /\ i <= r
          /\ r + 1 \in 1..(r + 2) /\ ~(r + 1 <= r) /\ (r + 1) - r = 1
          /\ r + 2 \in 1..(r + 2) /\ ~(r + 2 <= r) /\ (r + 2) - r = 2
      BY <1>4
    <2>9. QED
      BY <1>2, <2>2, <2>3, <2>4, <2>7, <2>8
  <1>7. /\ Alternating(c)
        /\ Last(c).source = q.id /\ Last(c).marked = FALSE
        /\ Last(c).image = image /\ Last(c).size = q.size
        /\ \A i \in 1..Len(c) : \E j \in 1..Len(ms) :
             c[i].source = ms[j].id /\ (c[i].marked <=> ms[j].state = "InterruptedByVoice")
    <2>1. ms[Len(ms)].state = "Streaming" /\ ms[Len(ms) - 1] = q
      BY <1>4, <1>5, <1>6
    <2> HIDE DEF ms, q
    <2>2. Shape(ms) /\ Answering(ms, Now) /\ ms[Len(ms)].state = "Streaming"
      BY <1>6, <2>1
    <2> DEFINE d == Context(ms, Now)
    <2>3. /\ Alternating(d)
          /\ Last(d).source = ms[Len(ms) - 1].id /\ Last(d).marked = FALSE
          /\ Last(d).image = ms[Len(ms) - 1].image /\ Last(d).size = ms[Len(ms) - 1].size
          /\ \A i \in 1..Len(d) : \E j \in 1..Len(ms) :
               d[i].source = ms[j].id /\ (d[i].marked <=> ms[j].state = "InterruptedByVoice")
      BY <2>2, ContextIs
    <2>4. c = d
      OBVIOUS
    <2> HIDE DEF c, d
    <2>5. QED
      BY <1>5, <2>1, <2>3, <2>4
  <1>8. answer'.context = final /\ answer'.owed = voicePending
    BY <1>2 DEF Started, Requested
  <1>9. ReplyBefore' = IF r > 0 THEN R[r].id ELSE 0
    <2>1. Len(ms) > 2 <=> r > 0
      BY <1>4, <1>6
    <2>2. r > 0 => ms[Len(ms) - 2] = R[r]
      BY <1>4, <1>6
    <2>3. QED
      BY <2>1, <2>2 DEF ReplyBefore
  <1>10. r > 0 => R[r] = messages[Len(messages)] /\ messages # <<>>
    <2> SUFFICES ASSUME r > 0 PROVE R[r] = messages[Len(messages)] /\ messages # <<>>
      OBVIOUS
    <2>1. r \in 1..r /\ k + r = Len(messages) /\ Len(messages) # 0
      BY <1>3, <1>4
    <2>2. QED
      BY <1>4, <2>1
  <1> HIDE DEF R, c, ms, q
  <1>11. RequestTokens(Last(c)) <= budget
    <2>1. Last(c).size = q.size + 0 /\ 0 <= IF voicePending THEN MarkerSize ELSE 0
      BY <1>5, <1>7, SessionAssumption
    <2>2. QED
      BY <1>2, <1>7, <2>1, QuestionFits DEF q
  <1>12. PICK cut \in 0..(Len(c) - 1) : Shortened(trimmed, c, cut) /\ RequestSize(trimmed) <= budget
    BY <1>3, <1>7, <1>11, TrimRequestIs
  <1> HIDE DEF trimmed
  <1>13. /\ Alternating(trimmed) /\ Last(trimmed) = Last(c) /\ Len(trimmed) \in Nat
         /\ Len(trimmed) \in 1..Len(trimmed)
         /\ \A i \in 1..Len(trimmed) : \E j \in 1..Len(ms) :
              trimmed[i].source = ms[j].id /\ (trimmed[i].marked <=> ms[j].state = "InterruptedByVoice")
    <2>1. /\ Alternating(trimmed) /\ Last(trimmed) = Last(c) /\ Len(trimmed) = Len(c) - cut
          /\ \A i \in 1..(Len(c) - cut) : trimmed[i] = c[cut + i]
      BY <1>12 DEF Shortened
    <2>2. Len(c) \in Nat /\ \A i \in 1..(Len(c) - cut) : cut + i \in 1..Len(c)
      BY <1>7 DEF Alternating
    <2>3. Len(trimmed) \in Nat /\ Len(trimmed) # 0
      BY <2>1 DEF Alternating
    <2>4. Len(trimmed) \in 1..Len(trimmed)
      BY <2>3
    <2>5. ASSUME NEW i \in 1..Len(trimmed)
          PROVE  \E j \in 1..Len(ms) :
              trimmed[i].source = ms[j].id /\ (trimmed[i].marked <=> ms[j].state = "InterruptedByVoice")
      <3>1. trimmed[i] = c[cut + i] /\ cut + i \in 1..Len(c)
        BY <2>1, <2>2
      <3>2. QED
        BY <1>7, <3>1
    <2>6. QED
      BY <2>1, <2>3, <2>4, <2>5
  \* Every entry of the request but the question is of a message that was there.
  <1>14. ASSUME NEW i \in 1..Len(trimmed), trimmed[i].marked
         PROVE  r > 0 /\ \E j \in 1..r : trimmed[i].source = R[j].id /\ R[j].id # 0
    <2>1. PICK j \in 1..Len(ms) :
             trimmed[i].source = ms[j].id /\ ms[j].state = "InterruptedByVoice"
      BY <1>13, <1>14
    <2>2. j # r + 1 /\ j # r + 2
      BY <1>5, <1>6, <2>1
    <2>3. j \in 1..r /\ r > 0
      <3>1. \A x \in Nat : \A y \in 1..(x + 2) : y # x + 1 /\ y # x + 2 => y \in 1..x /\ x > 0
        OBVIOUS
      <3>2. r \in Nat /\ j \in 1..(r + 2)
        BY <1>4, <1>6
      <3> HIDE DEF r
      <3>3. QED
        BY <2>2, <3>1, <3>2
    <2>4. ms[j] = R[j] /\ R[j].id # 0
      BY <1>4, <1>6, <2>3 DEF Shape, Sound
    <2>5. QED
      BY <2>1, <2>3, <2>4
  <1> DEFINE retained == \E i \in 1..Len(trimmed) : trimmed[i].source = LatestInterrupted /\ trimmed[i].marked
  <1>15. CASE ~voicePending
    <2>1. told = trimmed
      BY <1>15
    <2>2. final = trimmed
      <3>1. RequestTokens(Last(trimmed)) <= budget
        BY <1>11, <1>13
      <3>2. TrimRequest(trimmed, budget) = trimmed
        BY <1>3, <1>12, <1>13, <3>1, TrimRequestIs
      <3>3. QED
        BY <2>1, <3>2
    <2>3. Last(final).marked = FALSE
      BY <1>7, <1>13, <2>2
    <2>4. TellsInterruption(answer.context, answer.owed)'
      BY <1>8, <1>15, <2>3 DEF TellsInterruption
    <2>5. Alternating(final) /\ Last(final) = Last(c) /\ RequestSize(final) <= budget
      BY <1>12, <1>13, <2>2
    <2> HIDE DEF final
    <2>6. Alternates(answer.context)'
      <3>1. final # <<>> /\ final \in Seq(Entries) /\ DOMAIN final = 1..Len(final)
        BY <2>5 DEF Alternating
      <3>2. ms[Len(ms) - 1].id = q.id
        BY <1>4, <1>6
      <3>3. Last(final).source = ms[Len(ms) - 1].id
        BY <1>7, <2>5, <3>2
      <3>4. QED
        BY <1>2, <1>8, <2>5, <3>1, <3>3 DEF Alternates, Alternating, ms
    <2>7. QED
      BY <2>4, <2>6
  <1>16. CASE voicePending /\ retained
    <2>1. told = trimmed
      BY <1>13, <1>16, AnnounceIs
    <2>2. final = trimmed
      <3>1. RequestTokens(Last(trimmed)) <= budget
        BY <1>11, <1>13
      <3>2. TrimRequest(trimmed, budget) = trimmed
        BY <1>3, <1>12, <1>13, <3>1, TrimRequestIs
      <3>3. QED
        BY <2>1, <3>2
    <2>3. Last(final).marked = FALSE
      BY <1>7, <1>13, <2>2
    <2>4. PICK i \in 1..Len(trimmed) : trimmed[i].source = LatestInterrupted /\ trimmed[i].marked
      BY <1>16
    <2>5. r > 0
      BY <1>14, <2>4
    <2>6. LatestInterrupted = ReplyBefore'
      <3>1. messages # <<>> /\ R[r] = messages[Len(messages)]
        BY <1>10, <2>5
      <3>2. LatestInterrupted = messages[Len(messages)].id
        BY <1>16, <3>1, LatestIs
      <3>3. QED
        BY <1>9, <2>5, <3>1, <3>2
    <2>7. Alternating(final) /\ Last(final) = Last(c) /\ RequestSize(final) <= budget
      BY <1>12, <1>13, <2>2
    <2>8. i \in DOMAIN final /\ final[i].marked /\ final[i].source = ReplyBefore'
      BY <1>13, <2>2, <2>4, <2>6 DEF Alternating
    <2> HIDE DEF final
    <2>9. TellsInterruption(answer.context, answer.owed)'
      BY <1>8, <1>16, <2>3, <2>8 DEF TellsInterruption
    <2>10. Alternates(answer.context)'
      <3>1. final # <<>> /\ final \in Seq(Entries) /\ DOMAIN final = 1..Len(final)
        BY <2>7 DEF Alternating
      <3>2. ms[Len(ms) - 1].id = q.id
        BY <1>4, <1>6
      <3>3. Last(final).source = ms[Len(ms) - 1].id
        BY <1>7, <2>7, <3>2
      <3>4. QED
        BY <1>2, <1>8, <2>7, <3>1, <3>3 DEF Alternates, Alternating, ms
    <2>11. QED
      BY <2>9, <2>10
  <1>17. CASE voicePending /\ ~retained
    <2>1. told = Marked(trimmed)
      BY <1>13, <1>17, AnnounceIs
    <2>2. /\ Alternating(told) /\ Len(told) = Len(trimmed)
          /\ \A i \in 1..Len(trimmed) : i # Len(trimmed) => told[i] = trimmed[i]
          /\ Last(told).marked = TRUE /\ Last(told).source = q.id
          /\ Last(told).image = image /\ Last(told).size = q.size + MarkerSize
      <3> DEFINE w == Marked(trimmed)
      <3>1. /\ Alternating(w) /\ Len(w) = Len(trimmed)
            /\ \A i \in 1..Len(trimmed) : i # Len(trimmed) => w[i] = trimmed[i]
            /\ Last(w).marked = TRUE /\ Last(w).source = Last(trimmed).source
            /\ Last(w).image = Last(trimmed).image
            /\ Last(w).size = Last(trimmed).size + MarkerSize
        BY <1>13, MarkedIs
      <3>2. told = w
        BY <2>1
      <3> HIDE DEF told, w
      <3>3. QED
        BY <1>7, <1>13, <3>1, <3>2
    <2> HIDE DEF told
    <2>3. RequestTokens(Last(told)) <= budget
      <3>1. MarkerSize \in Nat /\ MarkerSize <= IF voicePending THEN MarkerSize ELSE 0
        BY <1>17, SessionAssumption
      <3>2. QED
        BY <1>2, <2>2, <3>1, QuestionFits DEF q
    <2>4. PICK more \in 0..(Len(told) - 1) : Shortened(final, told, more) /\ RequestSize(final) <= budget
      BY <1>3, <2>2, <2>3, TrimRequestIs
    <2> HIDE DEF final
    <2>5. /\ Alternating(final) /\ Last(final) = Last(told) /\ Len(final) = Len(told) - more
          /\ \A i \in 1..(Len(told) - more) : final[i] = told[more + i]
      BY <2>4 DEF Shortened
    <2>6. ASSUME NEW i \in 1..Len(final), final[i].marked, final[i].source = ReplyBefore'
          PROVE  FALSE
      <3>1. more + i \in 1..Len(trimmed) /\ final[i] = told[more + i]
        <4>1. Len(told) = Len(trimmed) /\ Len(trimmed) \in Nat /\ i \in 1..(Len(told) - more)
          BY <1>13, <2>2, <2>5, <2>6
        <4>2. QED
          BY <2>5, <4>1
      <3>2. CASE more + i = Len(trimmed)
        <4>1. final[i].source = q.id
          BY <2>2, <3>1, <3>2 DEF Last
        <4>2. CASE r > 0
          <5>1. r \in 1..r
            BY <1>4, <4>2
          <5>2. R[r].id <= nextMessage /\ R[r].id \in Nat
            <6>1. R[r].id <= nextMessage
              BY <1>3, <1>4, <5>1 DEF Numbered
            <6>2. R[r] \in Message
              BY <1>4, <5>1
            <6>3. QED
              BY <6>1, <6>2 DEF Message
          <5>3. QED
            BY <1>3, <1>5, <1>9, <2>6, <4>1, <4>2, <5>2
        <4>3. CASE ~(r > 0)
          BY <1>3, <1>5, <1>9, <2>6, <4>1, <4>3
        <4>4. QED
          BY <4>2, <4>3
      <3>3. CASE more + i # Len(trimmed)
        <4> DEFINE j == more + i
        <4>1. j \in 1..Len(trimmed) /\ trimmed[j].marked /\ trimmed[j].source = ReplyBefore'
          BY <2>2, <2>6, <3>1, <3>3
        <4> HIDE DEF j
        <4>2. r > 0
          BY <1>14, <4>1
        <4>3. messages # <<>> /\ R[r] = messages[Len(messages)]
          BY <1>10, <4>2
        <4>4. LatestInterrupted = messages[Len(messages)].id
          BY <1>17, <4>3, LatestIs
        <4>5. trimmed[j].source = LatestInterrupted
          BY <1>9, <4>1, <4>2, <4>3, <4>4
        <4>6. QED
          BY <1>17, <4>1, <4>5
      <3>4. QED
        BY <3>2, <3>3
    <2>7. final # <<>> /\ final \in Seq(Entries) /\ DOMAIN final = 1..Len(final)
      BY <2>5 DEF Alternating
    <2>8. TellsInterruption(answer.context, answer.owed)'
      BY <1>8, <1>17, <2>2, <2>5, <2>6, <2>7 DEF TellsInterruption
    <2>9. Alternates(answer.context)'
      <3>1. ms[Len(ms) - 1].id = q.id
        BY <1>4, <1>6
      <3>2. Last(final).source = ms[Len(ms) - 1].id
        BY <2>2, <2>5, <3>1
      <3>3. QED
        BY <1>2, <1>8, <2>4, <2>5, <2>7, <3>2 DEF Alternates, Alternating, ms
    <2>10. QED
      BY <2>8, <2>9
  <1>18. QED
    BY <1>3, <1>15, <1>16, <1>17

-----------------------------------------------------------------------------
(* The theorems.                                                           *)

\* What a step comes to: the invariant, a request that tells what it has to,
\* and a refusal that changed nothing.
Stepped ==
    /\ IInv'
    /\ answer'.result = "started" =>
         Alternates(answer.context)' /\ TellsInterruption(answer.context, answer.owed)'
    /\ answer'.result = "refused" => UNCHANGED <<messages, usage, active, voicePending>>

LEMMA StepIs ==
    ASSUME IInv, Next
    PROVE  Stepped
  <1>1. ASSUME IInv', Quiet
        PROVE  Stepped
    BY <1>1 DEF Quiet, Stepped
  <1>2. ASSUME NEW size \in Sizes, NEW image \in {"none", "live"}, StartTurn(size, image)
        PROVE  Stepped
    <2>1. IInv'
      BY <1>2, StartKeeps
    <2>2. answer'.result = "started" =>
            Alternates(answer.context)' /\ TellsInterruption(answer.context, answer.owed)'
      BY <1>2, StartTells
    <2>3. answer'.result = "refused" => UNCHANGED <<messages, usage, active, voicePending>>
      <3>1. \/ UNCHANGED <<messages, usage, active, voicePending>>
            \/ answer' = Started(Requested(messages'), voicePending)
        BY <1>2, StartIs
      <3>2. Started(Requested(messages'), voicePending).result # "refused"
        BY DEF Started
      <3>3. QED
        BY <3>1, <3>2
    <2>4. QED
      BY <2>1, <2>2, <2>3 DEF Stepped
  <1>3. ASSUME NEW r \in Responses, NEW size \in Sizes, AppendResponse(r, size)
        PROVE  Stepped
    BY <1>3, AppendKeeps DEF Stepped
  <1>4. ASSUME NEW r \in Responses, NEW size \in TraceSizes, AttachTrace(r, size)
        PROVE  Stepped
    BY <1>1, <1>4, AttachKeeps
  <1>5. ASSUME NEW r \in Responses, NEW state \in {"Complete", "Broken"}, Settle(r, state)
        PROVE  Stepped
    BY <1>1, <1>5, SettleKeeps
  <1>6. ASSUME NEW r \in Responses, Discard(r)
        PROVE  Stepped
    BY <1>1, <1>6, DiscardKeeps
  <1>7. CASE InterruptByVoice
    BY <1>1, <1>7, InterruptKeeps
  <1>8. CASE Clear
    BY <1>1, <1>8, ClearKeeps
  <1>9. ASSUME NEW l \in Limits, UpdateLimits(l)
        PROVE  Stepped
    BY <1>1, <1>9, LimitKeeps
  <1>10. ASSUME NEW l \in Limits, Restore(l)
         PROVE  Stepped
    BY <1>1, <1>10, RestoreKeeps
  <1>11. ASSUME NEW id \in {m.id : m \in ToSet(messages)}, NEW size \in Sizes, Edit(id, size)
         PROVE  Stepped
    BY <1>1, <1>11, EditKeeps
  <1>12. ASSUME NEW ids \in SUBSET {m.id : m \in ToSet(messages)}, Delete(ids)
         PROVE  Stepped
    BY <1>1, <1>12, DeleteKeeps
  <1>13. QED
    BY <1>2, <1>3, <1>4, <1>5, <1>6, <1>7, <1>8, <1>9, <1>10, <1>11, <1>12 DEF Next

LEMMA StutterIs ==
    ASSUME UNCHANGED vars
    PROVE  /\ IInv => IInv'
           /\ RequestIsAnswerable => RequestIsAnswerable'
  <1>1. IInv => IInv'
    BY DEF vars, IInv, Steady, OverBudget, Numbered, Owes, Streams, EndsInterrupted, Answering
  <1>2. RequestIsAnswerable => RequestIsAnswerable'
    BY DEF vars, RequestIsAnswerable, Alternates, TellsInterruption, ReplyBefore, RequestSize
  <1>3. QED
    BY <1>1, <1>2

LEMMA InitIs ==
    ASSUME Init
    PROVE  IInv /\ RequestIsAnswerable
  <1>1. /\ messages = <<>> /\ usage = Empty /\ limits \in Limits /\ active = NoReply
        /\ nextTurn = 0 /\ nextMessage = 0 /\ nextResponse = 0
        /\ voicePending = FALSE /\ answer.result # "started"
    BY DEF Init, Answer
  <1>2. Steady(messages, usage, active, voicePending) /\ OverBudget(messages, usage, limits)
    BY <1>1, EmptyIs
  <1>3. Numbered(messages, nextTurn, nextMessage)
    BY <1>1, EmptyIs
  <1>4. active \in [id : Nat, turn : Nat, message : Nat]
    BY <1>1 DEF NoReply
  <1>5. QED
    BY <1>1, <1>2, <1>3, <1>4 DEF IInv, RequestIsAnswerable

\* Every sequence of turns, chunks, traces, edits, deletions, changed limits
\* and restarts keeps the conversation in order: ids grow, a turn is a
\* question and its answer side by side, the totals are exact, and at most the
\* last message is streaming.
THEOREM ConversationStaysInOrder == Spec => []IInv
  <1>1. Init => IInv
    BY InitIs
  <1>2. IInv /\ [Next]_vars => IInv'
    BY StepIs, StutterIs DEF Stepped
  <1>3. QED
    BY <1>1, <1>2, PTL DEF Spec

\* The running totals are exact and the budgets are held for any limits: only
\* the turn that was being answered when the limits shrank may exceed them
\* (trim_completed_turns_for, update_limits).
THEOREM ConversationKeepsItsBudgets == Spec => []BudgetsHold
  <1>1. ASSUME IInv
        PROVE  BudgetsHold
    <2>1. /\ messages \in Seq(Message) /\ DOMAIN messages = 1..Len(messages)
          /\ usage = Use(messages) /\ usage.traces <= MaxTraces /\ voicePending \in BOOLEAN
          /\ limits \in Limits /\ nextResponse \in Nat /\ nextTurn \in Nat /\ nextMessage \in Nat
          /\ active \in [id : Nat, turn : Nat, message : Nat]
          /\ OverBudget(messages, usage, limits)
      BY <1>1 DEF IInv, Steady, Shape, Numbered
    <2>2. usage \in [tokens : Nat, images : Nat, traces : Nat]
      BY <2>1, UseIs DEF Usage
    <2>3. TypeOK
      BY <2>1, <2>2 DEF TypeOK
    <2>4. OneTurnOverBudget
      BY <2>1 DEF OneTurnOverBudget, OverBudget
    <2>5. QED
      BY <2>1, <2>3, <2>4 DEF BudgetsHold, TotalsMatch
  <1>2. QED
    BY <1>1, ConversationStaysInOrder, PTL

\* A reply that is being streamed stays the last message, behind its question,
\* whatever is edited, deleted or evicted meanwhile, and no other message is
\* streaming.
THEOREM RunningReplyKeepsItsPlace == Spec => []ReplyKeepsItsPlace
  <1>1. ASSUME IInv
        PROVE  ReplyKeepsItsPlace
    <2>1. /\ DOMAIN messages = 1..Len(messages)
          /\ active # NoReply => Answering(messages, active)
          /\ Streams(messages, active)
      BY <1>1 DEF IInv, Steady, Shape
    <2>2. QED
      BY <2>1 DEF ReplyKeepsItsPlace, Answering, Streams
  <1>2. QED
    BY <1>1, ConversationStaysInOrder, PTL

\* Whatever history a request is built from and whatever the budget of a
\* request is, it alternates questions and answers, ends with the new
\* question, fits the budget, and tells an owed interruption exactly once: at
\* the cut reply, or at the question (start_turn_with_image).
THEOREM EveryRequestIsAnswerable == Spec => []RequestIsAnswerable
  <1> DEFINE Both == IInv /\ RequestIsAnswerable
  <1>1. Init => Both
    BY InitIs
  <1>2. Both /\ [Next]_vars => Both'
    <2>1. ASSUME IInv, Next
          PROVE  IInv' /\ RequestIsAnswerable'
      BY <2>1, StepIs DEF Stepped, RequestIsAnswerable
    <2>2. QED
      BY <2>1, StutterIs
  <1>3. Both => RequestIsAnswerable
    OBVIOUS
  <1>4. QED
    BY <1>1, <1>2, <1>3, PTL DEF Spec

\* An interruption by voice is owed exactly while the reply that was cut is
\* the last message, or nothing is left of the conversation
\* (refresh_voice_interruption_pending).
THEOREM InterruptionStaysOwed == Spec => []InterruptionIsOwed
  <1>1. IInv => InterruptionIsOwed
    BY DEF IInv, Steady, Owes, InterruptionIsOwed
  <1>2. QED
    BY <1>1, ConversationStaysInOrder, PTL

\* At any moment, under a running reply too, what the session would write is a
\* snapshot that from_snapshot accepts.
THEOREM EverySnapshotRestores == Spec => []SnapshotRestores
  <1>1. ASSUME IInv
        PROVE  SnapshotRestores
    <2>1. Shape(messages) /\ Use(messages).traces <= MaxTraces
      BY <1>1 DEF IInv, Steady
    <2>2. Shape(Stored(messages)) /\ Use(Stored(messages)).traces <= MaxTraces
      BY <2>1, StoredIs
    <2>3. QED
      BY <2>2, SnapshotIs DEF SnapshotRestores
  <1>2. QED
    BY <1>1, ConversationStaysInOrder, PTL

\* A refused call changes nothing: a turn that is too large for the budgets,
\* a chunk or trace that is too late or too long and an edit that does not fit
\* evict no older turn.
THEOREM RefusalChangesNothing == Spec => RefusedCallsChangeNothing
  <1>1. IInv /\ [Next]_vars =>
          [answer'.result = "refused" => UNCHANGED <<messages, usage, active, voicePending>>]_vars
    BY StepIs DEF Stepped
  <1>2. QED
    BY <1>1, ConversationStaysInOrder, PTL DEF Spec, RefusedCallsChangeNothing
====
