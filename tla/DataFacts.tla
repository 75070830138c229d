----------------------------- MODULE DataFacts -----------------------------
(***************************************************************************)
(* Facts about the data that the proof modules share.                      *)
(*                                                                         *)
(* How many of the handlers in an io_service's queue are of some kind, and *)
(* how that changes when handlers are posted and the first one is run: the *)
(* queues of DeviceBox (Dropbox.cpp, StreamingHandler.cpp) are sequences   *)
(* of such handlers.                                                       *)
(*                                                                         *)
(* Induction over the subsets of a finite set, and what it shows of the    *)
(* folds of the community modules: there is one function with a fold's     *)
(* equation, so SumFunction adds up, in any order.  The sizes of the       *)
(* Dropbox folder are such sums, and its pages are folded.                 *)
(*                                                                         *)
(* Sequences that list a set, with an element taken out or put in.         *)
(***************************************************************************)
EXTENDS Integers, Sequences, FiniteSets, SequencesExt, FiniteSetTheorems,
        FunctionTheorems, WellFoundedInduction, TLAPS

-----------------------------------------------------------------------------
(* How many handlers are queued.                                           *)

\* Where in the queue s the handlers of X are.
At(s, X) == {i \in DOMAIN s : s[i] \in X}

\* How many there are.
Count(s, X) == Cardinality(At(s, X))

\* A queue has finitely many handlers of any kind.
LEMMA CountType ==
  ASSUME NEW S, NEW s \in Seq(S), NEW X
  PROVE  /\ IsFiniteSet(At(s, X))
         /\ Count(s, X) \in Nat
         /\ Count(s, X) <= Len(s)
<1>1. /\ DOMAIN s = 1 .. Len(s) /\ Len(s) \in Nat
      /\ At(s, X) \in SUBSET (1 .. Len(s))
  BY DEF At
<1>2. IsFiniteSet(1 .. Len(s)) /\ Cardinality(1 .. Len(s)) = Len(s)
  <2>1. 1 \in Int /\ Len(s) \in Int
    BY <1>1
  <2>2. /\ IsFiniteSet(1 .. Len(s))
        /\ Cardinality(1 .. Len(s)) = IF 1 > Len(s) THEN 0 ELSE Len(s) - 1 + 1
    BY <2>1, FS_Interval
  <2> QED BY <1>1, <2>2
<1> QED BY <1>1, <1>2, FS_Subset, FS_CardinalityType DEF Count

\* Nothing is in the empty queue.
LEMMA CountEmpty ==
  ASSUME NEW X
  PROVE  Count(<<>>, X) = 0
<1>1. At(<<>>, X) = {}
  BY DEF At
<1> QED BY <1>1, FS_EmptySet DEF Count

\* Some are there when the count is not zero.
LEMMA CountPositive ==
  ASSUME NEW S, NEW s \in Seq(S), NEW X
  PROVE  Count(s, X) > 0 <=> \E i \in DOMAIN s : s[i] \in X
<1>1. IsFiniteSet(At(s, X)) /\ Count(s, X) \in Nat
  BY CountType
<1>2. Count(s, X) = 0 <=> At(s, X) = {}
  BY <1>1, FS_EmptySet DEF Count
<1>3. At(s, X) = {} <=> ~\E i \in DOMAIN s : s[i] \in X
  BY DEF At
<1> QED BY <1>1, <1>2, <1>3

\* None is there that the queue cannot have.
LEMMA CountNone ==
  ASSUME NEW S, NEW s \in Seq(S), NEW X, X \cap S = {}
  PROVE  Count(s, X) = 0
<1>1. \A i \in DOMAIN s : s[i] \in S
  OBVIOUS
<1>2. ~(Count(s, X) > 0)
  BY <1>1, CountPositive
<1>3. Count(s, X) \in Nat
  BY CountType
<1> QED BY <1>2, <1>3

\* The queue s followed by t.
LEMMA CountConcat ==
  ASSUME NEW S, NEW s \in Seq(S), NEW t \in Seq(S), NEW X
  PROVE  Count(s \o t, X) = Count(s, X) + Count(t, X)
<1> DEFINE n == Len(s)
           Moved == {n + i : i \in At(t, X)}
           F == [i \in At(t, X) |-> n + i]
<1>1. /\ DOMAIN s = 1 .. n /\ DOMAIN t = 1 .. Len(t)
      /\ n \in Nat /\ Len(t) \in Nat
      /\ DOMAIN (s \o t) = 1 .. (n + Len(t))
      /\ \A i \in 1 .. (n + Len(t)) :
            (s \o t)[i] = IF i <= n THEN s[i] ELSE t[i - n]
  OBVIOUS
<1>2. At(s \o t, X) = At(s, X) \cup Moved
  <2>1. ASSUME NEW i \in At(s \o t, X) PROVE i \in At(s, X) \cup Moved
    <3>1. i \in 1 .. (n + Len(t)) /\ (s \o t)[i] \in X
      BY <1>1 DEF At
    <3>2. CASE i <= n
      BY <1>1, <3>1, <3>2 DEF At
    <3>3. CASE i > n
      <4>1. i - n \in At(t, X)
        BY <1>1, <3>1, <3>3 DEF At
      <4>2. i = n + (i - n)
        BY <1>1, <3>1
      <4> QED BY <4>1, <4>2
    <3> QED BY <1>1, <3>1, <3>2, <3>3
  <2>2. ASSUME NEW i \in At(s, X) PROVE i \in At(s \o t, X)
    BY <1>1 DEF At
  <2>3. ASSUME NEW j \in At(t, X) PROVE n + j \in At(s \o t, X)
    BY <1>1 DEF At
  <2> QED BY <2>1, <2>2, <2>3
<1>3. At(s, X) \cap Moved = {}
  BY <1>1 DEF At
<1>4. /\ IsFiniteSet(At(s, X)) /\ IsFiniteSet(At(t, X))
      /\ Count(s, X) \in Nat /\ Count(t, X) \in Nat
  BY CountType
<1>5. IsFiniteSet(Moved) /\ Cardinality(Moved) = Count(t, X)
  <2>1. F \in [At(t, X) -> Moved]
    OBVIOUS
  <2>2. \A i, j \in At(t, X) : F[i] = F[j] => i = j
    BY <1>1 DEF At
  <2>3. \A m \in Moved : \E i \in At(t, X) : F[i] = m
    OBVIOUS
  <2>4. F \in Bijection(At(t, X), Moved)
    BY <2>1, <2>2, <2>3, Fun_IsBij
  <2>5. ExistsBijection(At(t, X), Moved)
    BY <2>4 DEF ExistsBijection
  <2> QED BY <1>4, <2>5, FS_Bijection DEF Count
<1>6. Cardinality(At(s, X) \cap Moved) = 0
  BY <1>3, FS_EmptySet
<1>7. Cardinality(At(s, X) \cup Moved) = Count(s, X) + Count(t, X)
  <2>1. Cardinality(At(s, X) \cup Moved)
          = Cardinality(At(s, X)) + Cardinality(Moved)
              - Cardinality(At(s, X) \cap Moved)
    BY <1>4, <1>5, FS_Union
  <2> QED BY <1>4, <1>5, <1>6, <2>1 DEF Count
<1> QED BY <1>2, <1>7 DEF Count

\* One handler is there, or is not.
LEMMA CountOne ==
  ASSUME NEW x, NEW X
  PROVE  Count(<<x>>, X) = IF x \in X THEN 1 ELSE 0
<1>1. At(<<x>>, X) = IF x \in X THEN {1} ELSE {}
  BY DEF At
<1> QED BY <1>1, FS_Singleton, FS_EmptySet DEF Count

\* A handler is posted.
LEMMA CountAppend ==
  ASSUME NEW S, NEW s \in Seq(S), NEW x \in S, NEW X
  PROVE  Count(Append(s, x), X) = Count(s, X) + (IF x \in X THEN 1 ELSE 0)
<1>1. Append(s, x) = s \o <<x>> /\ <<x>> \in Seq(S)
  OBVIOUS
<1>2. Count(s \o <<x>>, X) = Count(s, X) + Count(<<x>>, X)
  BY <1>1, CountConcat
<1> QED BY <1>1, <1>2, CountOne

\* The first handler is taken.
LEMMA CountTail ==
  ASSUME NEW S, NEW s \in Seq(S), s # <<>>, NEW X
  PROVE  Count(s, X) = Count(Tail(s), X) + (IF Head(s) \in X THEN 1 ELSE 0)
<1>1. /\ s = <<Head(s)>> \o Tail(s)
      /\ <<Head(s)>> \in Seq(S) /\ Tail(s) \in Seq(S)
  OBVIOUS
<1>2. Count(Tail(s), X) \in Nat
  BY <1>1, CountType
<1>3. Count(<<Head(s)>> \o Tail(s), X)
         = Count(<<Head(s)>>, X) + Count(Tail(s), X)
  BY <1>1, CountConcat
<1>4. Count(s, X) = Count(<<Head(s)>>, X) + Count(Tail(s), X)
  BY <1>1, <1>3
<1> QED BY <1>2, <1>4, CountOne

\* The values of a function on a finite set.
LEMMA FiniteValues ==
  ASSUME NEW S, IsFiniteSet(S), NEW F
  PROVE  IsFiniteSet({F[s] : s \in S})
<1> DEFINE T == {F[s] : s \in S}
           G == [s \in S |-> F[s]]
<1>1. G \in [S -> T] /\ \A t \in T : \E s \in S : G[s] = t
  OBVIOUS
<1>2. G \in Surjection(S, T)
  BY <1>1, Fun_IsSurj
<1> QED BY <1>2, FS_Surjection

\* What is posted in some order: each member of T, once.
LEMMA Ordered ==
  ASSUME NEW T, IsFiniteSet(T), NEW order \in SetToSeqs(T)
  PROVE  /\ order \in Seq(T)
         /\ Len(order) = Cardinality(T)
         /\ \A i, j \in DOMAIN order : order[i] = order[j] => i = j
         /\ \A x \in T : \E i \in DOMAIN order : order[i] = x
<1> DEFINE n == Cardinality(T)
<1>1. n \in Nat
  BY FS_CardinalityType
<1>2. /\ order \in [1 .. n -> T]
      /\ \A i, j \in 1 .. n : i # j => order[i] # order[j]
  BY DEF SetToSeqs
<1>3. order \in Seq(T) /\ Len(order) = n /\ DOMAIN order = 1 .. n
  BY <1>1, <1>2
<1>4. IsFiniteSet(1 .. n) /\ Cardinality(1 .. n) = n
  <2>1. 1 \in Int /\ n \in Int
    BY <1>1
  <2>2. /\ IsFiniteSet(1 .. n)
        /\ Cardinality(1 .. n) = IF 1 > n THEN 0 ELSE n - 1 + 1
    BY <2>1, FS_Interval
  <2> QED BY <1>1, <2>2
<1>5. order \in Injection(1 .. n, T)
  BY <1>2, Fun_IsInj
<1>6. order \in Surjection(1 .. n, T)
  BY <1>4, <1>5, FS_Injection
<1>7. \A x \in T : \E i \in 1 .. n : order[i] = x
  BY <1>6 DEF Surjection
<1> QED BY <1>2, <1>3, <1>7

\* How often a sequence without repetitions has x.
LEMMA CountOnce ==
  ASSUME NEW S, NEW s \in Seq(S), NEW x,
         \A i, j \in DOMAIN s : s[i] = s[j] => i = j
  PROVE  Count(s, {x}) = IF \E i \in DOMAIN s : s[i] = x THEN 1 ELSE 0
<1>1. CASE \E i \in DOMAIN s : s[i] = x
  <2>1. PICK i \in DOMAIN s : s[i] = x
    BY <1>1
  <2>2. At(s, {x}) = {i}
    BY <2>1 DEF At
  <2> QED BY <1>1, <2>2, FS_Singleton DEF Count
<1>2. CASE ~\E i \in DOMAIN s : s[i] = x
  <2>1. At(s, {x}) = {}
    BY <1>2 DEF At
  <2> QED BY <1>2, <2>1, FS_EmptySet DEF Count
<1> QED BY <1>1, <1>2

\* What is posted in some order is posted once.
LEMMA CountOrdered ==
  ASSUME NEW T, IsFiniteSet(T), NEW order \in SetToSeqs(T), NEW x
  PROVE  Count(order, {x}) = IF x \in T THEN 1 ELSE 0
<1>1. /\ order \in Seq(T)
      /\ \A i, j \in DOMAIN order : order[i] = order[j] => i = j
      /\ \A y \in T : \E i \in DOMAIN order : order[i] = y
  BY Ordered
<1>2. Count(order, {x}) = IF \E i \in DOMAIN order : order[i] = x THEN 1 ELSE 0
  BY <1>1, CountOnce
<1>3. (\E i \in DOMAIN order : order[i] = x) <=> x \in T
  BY <1>1
<1> QED BY <1>2, <1>3

\* Which handlers are in a queue.
LEMMA CountToSet ==
  ASSUME NEW S, NEW s \in Seq(S), NEW x
  PROVE  x \in ToSet(s) <=> Count(s, {x}) > 0
<1>1. Count(s, {x}) > 0 <=> \E i \in DOMAIN s : s[i] \in {x}
  BY CountPositive
<1> QED BY <1>1 DEF ToSet

-----------------------------------------------------------------------------
(* The order of what is queued.                                            *)

\* One of X is ahead of one of Y.
Before(s, X, Y) ==
    \E i, j \in DOMAIN s : i < j /\ s[i] \in X /\ s[j] \in Y

\* One of Y is behind one of X and ahead of one of Z.
Between(s, X, Y, Z) ==
    \E i, j, k \in DOMAIN s :
        i < j /\ j < k /\ s[i] \in X /\ s[j] \in Y /\ s[k] \in Z

\* There is no order in the empty queue.
LEMMA NoOrder ==
  ASSUME NEW X, NEW Y, NEW Z
  PROVE  ~Before(<<>>, X, Y) /\ ~Between(<<>>, X, Y, Z)
BY DEF Before, Between

\* What is posted goes behind what is there.
LEMMA OrderAppend ==
  ASSUME NEW S, NEW s \in Seq(S), NEW x \in S, NEW X, NEW Y, NEW Z
  PROVE  /\ Before(Append(s, x), X, Y) <=>
              Before(s, X, Y) \/ (Count(s, X) > 0 /\ x \in Y)
         /\ Between(Append(s, x), X, Y, Z) <=>
              Between(s, X, Y, Z) \/ (Before(s, X, Y) /\ x \in Z)
<1> DEFINE n == Len(s)
           t == Append(s, x)
<1>1. /\ DOMAIN s = 1 .. n /\ n \in Nat /\ DOMAIN t = 1 .. n + 1
      /\ \A i \in 1 .. n : t[i] = s[i]
      /\ t[n + 1] = x
  OBVIOUS
<1>2. Count(s, X) > 0 <=> \E i \in 1 .. n : s[i] \in X
  BY <1>1, CountPositive
<1> HIDE DEF n, t
<1>3. Before(t, X, Y) <=> Before(s, X, Y) \/ (Count(s, X) > 0 /\ x \in Y)
  <2>1. ASSUME Before(t, X, Y)
        PROVE  Before(s, X, Y) \/ (Count(s, X) > 0 /\ x \in Y)
    <3>1. PICK i, j \in 1 .. n + 1 : i < j /\ t[i] \in X /\ t[j] \in Y
      BY <1>1, <2>1 DEF Before
    <3>2. i \in 1 .. n /\ s[i] \in X
      BY <1>1, <3>1
    <3>3. CASE j = n + 1
      BY <1>1, <1>2, <3>1, <3>2, <3>3
    <3>4. CASE j # n + 1
      <4>1. j \in 1 .. n /\ s[j] \in Y
        BY <1>1, <3>1, <3>4
      <4> QED BY <1>1, <3>1, <3>2, <4>1 DEF Before
    <3> QED BY <3>3, <3>4
  <2>2. ASSUME Before(s, X, Y) PROVE Before(t, X, Y)
    <3>1. PICK i, j \in 1 .. n : i < j /\ s[i] \in X /\ s[j] \in Y
      BY <1>1, <2>2 DEF Before
    <3> QED BY <1>1, <3>1 DEF Before
  <2>3. ASSUME Count(s, X) > 0, x \in Y PROVE Before(t, X, Y)
    <3>1. PICK i \in 1 .. n : s[i] \in X
      BY <1>2, <2>3
    <3>2. i \in 1 .. n + 1 /\ n + 1 \in 1 .. n + 1 /\ i < n + 1
      BY <1>1, <3>1
    <3> QED BY <1>1, <2>3, <3>1, <3>2 DEF Before
  <2> QED BY <2>1, <2>2, <2>3
<1>4. Between(t, X, Y, Z) <=> Between(s, X, Y, Z) \/ (Before(s, X, Y) /\ x \in Z)
  <2>1. ASSUME Between(t, X, Y, Z)
        PROVE  Between(s, X, Y, Z) \/ (Before(s, X, Y) /\ x \in Z)
    <3>1. PICK i, j, k \in 1 .. n + 1 :
             i < j /\ j < k /\ t[i] \in X /\ t[j] \in Y /\ t[k] \in Z
      BY <1>1, <2>1 DEF Between
    <3>2. i \in 1 .. n /\ j \in 1 .. n /\ s[i] \in X /\ s[j] \in Y
      BY <1>1, <3>1
    <3>3. CASE k = n + 1
      BY <1>1, <3>1, <3>2, <3>3 DEF Before
    <3>4. CASE k # n + 1
      <4>1. k \in 1 .. n /\ s[k] \in Z
        BY <1>1, <3>1, <3>4
      <4> QED BY <1>1, <3>1, <3>2, <4>1 DEF Between
    <3> QED BY <3>3, <3>4
  <2>2. ASSUME Between(s, X, Y, Z) PROVE Between(t, X, Y, Z)
    <3>1. PICK i, j, k \in 1 .. n :
             i < j /\ j < k /\ s[i] \in X /\ s[j] \in Y /\ s[k] \in Z
      BY <1>1, <2>2 DEF Between
    <3> QED BY <1>1, <3>1 DEF Between
  <2>3. ASSUME Before(s, X, Y), x \in Z PROVE Between(t, X, Y, Z)
    <3>1. PICK i, j \in 1 .. n : i < j /\ s[i] \in X /\ s[j] \in Y
      BY <1>1, <2>3 DEF Before
    <3>2. n + 1 \in 1 .. n + 1 /\ j < n + 1
      BY <1>1, <3>1
    <3> QED BY <1>1, <2>3, <3>1, <3>2 DEF Between
  <2> QED BY <2>1, <2>2, <2>3
<1> QED BY <1>3, <1>4 DEF t

\* All that is posted together goes behind what is there.
LEMMA OrderConcat ==
  ASSUME NEW S, NEW s \in Seq(S), NEW t \in Seq(S), NEW X, NEW Y
  PROVE  Before(s \o t, X, Y) =>
            \/ Before(s, X, Y) \/ Before(t, X, Y)
            \/ Count(s, X) > 0 /\ Count(t, Y) > 0
<1> DEFINE n == Len(s)
           u == s \o t
<1>1. /\ DOMAIN s = 1 .. n /\ DOMAIN t = 1 .. Len(t)
      /\ n \in Nat /\ Len(t) \in Nat
      /\ DOMAIN u = 1 .. (n + Len(t))
      /\ \A i \in 1 .. (n + Len(t)) : u[i] = IF i <= n THEN s[i] ELSE t[i - n]
  OBVIOUS
<1> HIDE DEF n, u
<1>2. SUFFICES ASSUME NEW i \in DOMAIN u, NEW j \in DOMAIN u,
                      i < j, u[i] \in X, u[j] \in Y
               PROVE  \/ Before(s, X, Y) \/ Before(t, X, Y)
                      \/ Count(s, X) > 0 /\ Count(t, Y) > 0
  BY DEF Before, u
<1>3. CASE j <= n
  <2>1. i \in DOMAIN s /\ j \in DOMAIN s /\ s[i] \in X /\ s[j] \in Y
    BY <1>1, <1>2, <1>3
  <2> QED BY <1>2, <2>1 DEF Before
<1>4. CASE n < i
  <2>1. /\ i - n \in DOMAIN t /\ j - n \in DOMAIN t /\ i - n < j - n
        /\ t[i - n] \in X /\ t[j - n] \in Y
    BY <1>1, <1>2, <1>4
  <2> QED BY <2>1 DEF Before
<1>5. CASE i <= n /\ n < j
  <2>1. i \in DOMAIN s /\ s[i] \in X /\ j - n \in DOMAIN t /\ t[j - n] \in Y
    BY <1>1, <1>2, <1>5
  <2> QED BY <2>1, CountPositive
<1> QED BY <1>1, <1>2, <1>3, <1>4, <1>5

\* What is taken was ahead of all that stays.
LEMMA OrderTail ==
  ASSUME NEW S, NEW s \in Seq(S), s # <<>>, NEW X, NEW Y, NEW Z
  PROVE  /\ Before(s, X, Y) <=>
              Before(Tail(s), X, Y) \/ (Head(s) \in X /\ Count(Tail(s), Y) > 0)
         /\ Between(s, X, Y, Z) <=>
              \/ Between(Tail(s), X, Y, Z)
              \/ Head(s) \in X /\ Before(Tail(s), Y, Z)
<1> DEFINE n == Len(s) - 1
           t == Tail(s)
<1>1. /\ n \in Nat /\ DOMAIN s = 1 .. n + 1 /\ DOMAIN t = 1 .. n
      /\ \A i \in 1 .. n : t[i] = s[i + 1]
      /\ s[1] = Head(s)
      /\ t \in Seq(S)
  OBVIOUS
<1>2. Count(t, Y) > 0 <=> \E i \in 1 .. n : t[i] \in Y
  BY <1>1, CountPositive
<1> HIDE DEF n, t
<1>3. \A i \in 2 .. n + 1 : i - 1 \in 1 .. n /\ s[i] = t[i - 1]
  <2>1. ASSUME NEW i \in 2 .. n + 1 PROVE i - 1 \in 1 .. n /\ s[i] = t[i - 1]
    <3>1. i - 1 \in 1 .. n /\ (i - 1) + 1 = i
      BY <1>1
    <3> QED BY <1>1, <3>1
  <2> QED BY <2>1
<1>4. \A i \in 1 .. n : i + 1 \in 1 .. n + 1 /\ s[i + 1] = t[i]
  BY <1>1
<1>5. Before(s, X, Y) <=>
         Before(t, X, Y) \/ (Head(s) \in X /\ Count(t, Y) > 0)
  <2>1. ASSUME Before(s, X, Y)
        PROVE  Before(t, X, Y) \/ (Head(s) \in X /\ Count(t, Y) > 0)
    <3>1. PICK i, j \in 1 .. n + 1 : i < j /\ s[i] \in X /\ s[j] \in Y
      BY <1>1, <2>1 DEF Before
    <3>2. j \in 2 .. n + 1
      BY <1>1, <3>1
    <3>3. j - 1 \in 1 .. n /\ t[j - 1] \in Y
      BY <1>3, <3>1, <3>2
    <3>4. CASE i = 1
      BY <1>1, <1>2, <3>1, <3>3, <3>4
    <3>5. CASE i # 1
      <4>1. i \in 2 .. n + 1
        BY <1>1, <3>1, <3>5
      <4>2. i - 1 \in 1 .. n /\ t[i - 1] \in X /\ i - 1 < j - 1
        BY <1>1, <1>3, <3>1, <4>1
      <4> QED BY <1>1, <3>3, <4>2 DEF Before
    <3> QED BY <3>4, <3>5
  <2>2. ASSUME Before(t, X, Y) PROVE Before(s, X, Y)
    <3>1. PICK i, j \in 1 .. n : i < j /\ t[i] \in X /\ t[j] \in Y
      BY <1>1, <2>2 DEF Before
    <3>2. /\ i + 1 \in 1 .. n + 1 /\ j + 1 \in 1 .. n + 1 /\ i + 1 < j + 1
          /\ s[i + 1] \in X /\ s[j + 1] \in Y
      BY <1>1, <1>4, <3>1
    <3> QED BY <1>1, <3>2 DEF Before
  <2>3. ASSUME Head(s) \in X, Count(t, Y) > 0 PROVE Before(s, X, Y)
    <3>1. PICK j \in 1 .. n : t[j] \in Y
      BY <1>2, <2>3
    <3>2. /\ 1 \in 1 .. n + 1 /\ j + 1 \in 1 .. n + 1 /\ 1 < j + 1
          /\ s[1] \in X /\ s[j + 1] \in Y
      BY <1>1, <1>4, <2>3, <3>1
    <3> QED BY <1>1, <3>2 DEF Before
  <2> QED BY <2>1, <2>2, <2>3
<1>6. Between(s, X, Y, Z) <=>
         Between(t, X, Y, Z) \/ (Head(s) \in X /\ Before(t, Y, Z))
  <2>1. ASSUME Between(s, X, Y, Z)
        PROVE  Between(t, X, Y, Z) \/ (Head(s) \in X /\ Before(t, Y, Z))
    <3>1. PICK i, j, k \in 1 .. n + 1 :
             i < j /\ j < k /\ s[i] \in X /\ s[j] \in Y /\ s[k] \in Z
      BY <1>1, <2>1 DEF Between
    <3>2. j \in 2 .. n + 1 /\ k \in 2 .. n + 1
      BY <1>1, <3>1
    <3>3. /\ j - 1 \in 1 .. n /\ t[j - 1] \in Y
          /\ k - 1 \in 1 .. n /\ t[k - 1] \in Z /\ j - 1 < k - 1
      BY <1>1, <1>3, <3>1, <3>2
    <3>4. CASE i = 1
      BY <1>1, <3>1, <3>3, <3>4 DEF Before
    <3>5. CASE i # 1
      <4>1. i \in 2 .. n + 1
        BY <1>1, <3>1, <3>5
      <4>2. i - 1 \in 1 .. n /\ t[i - 1] \in X /\ i - 1 < j - 1
        BY <1>1, <1>3, <3>1, <4>1
      <4> QED BY <1>1, <3>3, <4>2 DEF Between
    <3> QED BY <3>4, <3>5
  <2>2. ASSUME Between(t, X, Y, Z) PROVE Between(s, X, Y, Z)
    <3>1. PICK i, j, k \in 1 .. n :
             i < j /\ j < k /\ t[i] \in X /\ t[j] \in Y /\ t[k] \in Z
      BY <1>1, <2>2 DEF Between
    <3>2. /\ i + 1 \in 1 .. n + 1 /\ j + 1 \in 1 .. n + 1 /\ k + 1 \in 1 .. n + 1
          /\ i + 1 < j + 1 /\ j + 1 < k + 1
          /\ s[i + 1] \in X /\ s[j + 1] \in Y /\ s[k + 1] \in Z
      BY <1>1, <1>4, <3>1
    <3> QED BY <1>1, <3>2 DEF Between
  <2>3. ASSUME Head(s) \in X, Before(t, Y, Z) PROVE Between(s, X, Y, Z)
    <3>1. PICK j, k \in 1 .. n : j < k /\ t[j] \in Y /\ t[k] \in Z
      BY <1>1, <2>3 DEF Before
    <3>2. /\ 1 \in 1 .. n + 1 /\ j + 1 \in 1 .. n + 1 /\ k + 1 \in 1 .. n + 1
          /\ 1 < j + 1 /\ j + 1 < k + 1
          /\ s[1] \in X /\ s[j + 1] \in Y /\ s[k + 1] \in Z
      BY <1>1, <1>4, <2>3, <3>1
    <3> QED BY <1>1, <3>2 DEF Between
  <2> QED BY <2>1, <2>2, <2>3
<1> QED BY <1>5, <1>6 DEF t

\* What is ahead of or behind something is there.
LEMMA OrderCounts ==
  ASSUME NEW S, NEW s \in Seq(S), NEW X, NEW Y, Before(s, X, Y)
  PROVE  Count(s, X) > 0 /\ Count(s, Y) > 0
BY CountPositive DEF Before

\* There are no more of some kinds than of all of them.
LEMMA CountFewer ==
  ASSUME NEW S, NEW s \in Seq(S), NEW X, NEW Y, X \subseteq Y
  PROVE  Count(s, X) <= Count(s, Y)
<1>1. At(s, X) \subseteq At(s, Y)
  BY DEF At
<1>2. IsFiniteSet(At(s, Y))
  BY CountType
<1> QED BY <1>1, <1>2, FS_Subset DEF Count

\* The queue t is s with x behind it.
Puts(s, x, t) ==
    /\ \A X : /\ Count(s, X) \in Nat /\ Count(t, X) \in Nat
              /\ Count(t, X) = Count(s, X) + (IF x \in X THEN 1 ELSE 0)
    /\ \A X, Y : Before(t, X, Y) <=>
                    Before(s, X, Y) \/ (Count(s, X) > 0 /\ x \in Y)
    /\ \A X, Y, Z : Between(t, X, Y, Z) <=>
                       Between(s, X, Y, Z) \/ (Before(s, X, Y) /\ x \in Z)

\* The queue t is s without x, its first.
Takes(s, x, t) ==
    /\ \A X : /\ Count(s, X) \in Nat /\ Count(t, X) \in Nat
              /\ Count(s, X) = Count(t, X) + (IF x \in X THEN 1 ELSE 0)
    /\ \A X, Y : Before(s, X, Y) <=>
                    Before(t, X, Y) \/ (x \in X /\ Count(t, Y) > 0)
    /\ \A X, Y, Z : Between(s, X, Y, Z) <=>
                       Between(t, X, Y, Z) \/ (x \in X /\ Before(t, Y, Z))

\* All that is to be known of a post.
LEMMA Putting ==
  ASSUME NEW S, NEW s \in Seq(S), NEW x \in S
  PROVE  Append(s, x) \in Seq(S) /\ Puts(s, x, Append(s, x))
<1>1. Append(s, x) \in Seq(S)
  OBVIOUS
<1>2. \A X : /\ Count(s, X) \in Nat /\ Count(Append(s, x), X) \in Nat
             /\ Count(Append(s, x), X) = Count(s, X) + (IF x \in X THEN 1 ELSE 0)
  BY <1>1, CountType, CountAppend
<1>3. ASSUME NEW X, NEW Y, NEW Z
      PROVE  /\ Before(Append(s, x), X, Y) <=>
                  Before(s, X, Y) \/ (Count(s, X) > 0 /\ x \in Y)
             /\ Between(Append(s, x), X, Y, Z) <=>
                  Between(s, X, Y, Z) \/ (Before(s, X, Y) /\ x \in Z)
  BY OrderAppend
<1> QED BY <1>1, <1>2, <1>3 DEF Puts

\* All that is to be known of the handler that runs.
LEMMA Taking ==
  ASSUME NEW S, NEW s \in Seq(S), s # <<>>
  PROVE  Tail(s) \in Seq(S) /\ Takes(s, Head(s), Tail(s))
<1>1. Tail(s) \in Seq(S)
  OBVIOUS
<1>2. \A X : /\ Count(s, X) \in Nat /\ Count(Tail(s), X) \in Nat
             /\ Count(s, X) = Count(Tail(s), X) + (IF Head(s) \in X THEN 1 ELSE 0)
  BY <1>1, CountType, CountTail
<1>3. ASSUME NEW X, NEW Y, NEW Z
      PROVE  /\ Before(s, X, Y) <=>
                  Before(Tail(s), X, Y) \/ (Head(s) \in X /\ Count(Tail(s), Y) > 0)
             /\ Between(s, X, Y, Z) <=>
                  \/ Between(Tail(s), X, Y, Z)
                  \/ Head(s) \in X /\ Before(Tail(s), Y, Z)
  BY OrderTail
<1> QED BY <1>1, <1>2, <1>3 DEF Takes

\* The queue t is s with y behind it.
Added(s, y, t) ==
    /\ \A X : /\ Count(s, X) \in Nat /\ Count(t, X) \in Nat
              /\ y \in X => Count(t, X) = Count(s, X) + 1
              /\ y \notin X => Count(t, X) = Count(s, X)
    /\ \A X, Y : Before(t, X, Y) =>
                    Before(s, X, Y) \/ (Count(s, X) > 0 /\ y \in Y)

\* The queue t is s without x, its first.
Removed(s, x, t) ==
    /\ \A X : /\ Count(s, X) \in Nat /\ Count(t, X) \in Nat
              /\ x \in X => Count(s, X) = Count(t, X) + 1
              /\ x \notin X => Count(t, X) = Count(s, X)
    /\ \A X, Y : /\ Before(t, X, Y) => Before(s, X, Y)
                 /\ x \in X /\ ~Before(s, X, Y) => Count(t, Y) = 0

\* The queue t is s without x, its first, and with y behind it.
Replaced(s, x, y, t) ==
    /\ \A X : /\ Count(s, X) \in Nat /\ Count(t, X) \in Nat
              /\ (x \in X <=> y \in X) => Count(t, X) = Count(s, X)
              /\ x \in X /\ y \notin X => Count(s, X) = Count(t, X) + 1
              /\ x \notin X /\ y \in X => Count(t, X) = Count(s, X) + 1
    /\ \A X, Y : /\ Before(t, X, Y) =>
                       Before(s, X, Y) \/ (Count(s, X) > 0 /\ y \in Y)
                 /\ x \in X /\ ~Before(s, X, Y) /\ y \notin Y =>
                       Count(t, Y) = 0

\* What a post changes.
LEMMA Adding ==
  ASSUME NEW S, NEW s \in Seq(S), NEW y \in S
  PROVE  Append(s, y) \in Seq(S) /\ Added(s, y, Append(s, y))
<1>1. Append(s, y) \in Seq(S) /\ Puts(s, y, Append(s, y))
  BY Putting
<1> QED BY <1>1 DEF Puts, Added

\* What running a handler that posts nothing changes.
LEMMA Removing ==
  ASSUME NEW S, NEW s \in Seq(S), s # <<>>
  PROVE  Tail(s) \in Seq(S) /\ Removed(s, Head(s), Tail(s))
<1>1. Tail(s) \in Seq(S) /\ Takes(s, Head(s), Tail(s))
  BY Taking
<1>2. \A X, Y : Head(s) \in X /\ ~Before(s, X, Y) => Count(Tail(s), Y) = 0
  BY <1>1 DEF Takes
<1> QED BY <1>1, <1>2 DEF Takes, Removed

\* What running a handler that posts another one changes.
LEMMA Replacing ==
  ASSUME NEW S, NEW s \in Seq(S), s # <<>>, NEW y \in S
  PROVE  /\ Append(Tail(s), y) \in Seq(S)
         /\ Replaced(s, Head(s), y, Append(Tail(s), y))
<1> DEFINE x == Head(s)
           r == Tail(s)
           t == Append(Tail(s), y)
<1>1. r \in Seq(S) /\ Removed(s, x, r)
  BY Removing
<1>2. t \in Seq(S) /\ Added(r, y, t)
  BY <1>1, Adding
<1> HIDE DEF x, r, t
<1>3. \A X : /\ Count(s, X) \in Nat /\ Count(t, X) \in Nat
             /\ (x \in X <=> y \in X) => Count(t, X) = Count(s, X)
             /\ x \in X /\ y \notin X => Count(s, X) = Count(t, X) + 1
             /\ x \notin X /\ y \in X => Count(t, X) = Count(s, X) + 1
  BY <1>1, <1>2 DEF Removed, Added
<1>4. \A X, Y : Before(t, X, Y) =>
                   Before(s, X, Y) \/ (Count(s, X) > 0 /\ y \in Y)
  <2> TAKE X, Y
  <2>1. Count(r, X) > 0 => Count(s, X) > 0
    BY <1>1 DEF Removed
  <2> QED BY <1>1, <1>2, <2>1 DEF Removed, Added
<1>5. \A X, Y : x \in X /\ ~Before(s, X, Y) /\ y \notin Y => Count(t, Y) = 0
  BY <1>1, <1>2 DEF Removed, Added
<1> QED BY <1>2, <1>3, <1>4, <1>5 DEF Replaced, x, t

\* The sequence that SetToSeq chooses is one of SetToSeqs.
LEMMA Chosen ==
  ASSUME NEW T, IsFiniteSet(T)
  PROVE  SetToSeq(T) \in SetToSeqs(T)
<1> DEFINE n == Cardinality(T)
<1>1. \E f \in [1 .. n -> T] : IsInjective(f)
  <2>1. PICK f : f \in Bijection(1 .. n, T)
    BY FS_NatBijection, FS_CardinalityType, Fun_ExistsBij DEF ExistsBijection
  <2> QED BY <2>1 DEF Bijection, Injection, IsInjective
<1>2. SetToSeq(T) \in [1 .. n -> T] /\ IsInjective(SetToSeq(T))
  BY <1>1 DEF SetToSeq
<1> QED BY <1>2 DEF SetToSeqs, IsInjective

-----------------------------------------------------------------------------
(* Induction and folds.                                                    *)

\* Induction over the subsets of a finite set: what holds of a set if it holds
\* of all smaller ones holds of the whole set.
LEMMA SubsetInduction ==
  ASSUME NEW D, IsFiniteSet(D), NEW Good,
         \A T \in SUBSET D :
             (\A U \in SUBSET T : U # T => U \in Good) => T \in Good
  PROVE  \A T \in SUBSET D : T \in Good
<1> SUFFICES ASSUME (SUBSET D) \ Good # {} PROVE FALSE
  OBVIOUS
<1>1. IsWellFoundedOn(StrictSubsetOrdering(D), SUBSET D)
  <2>1. FiniteSubsetsOf(D) = SUBSET D
    BY FS_FiniteSubsetsOfFinite
  <2>2. IsWellFoundedOn(StrictSubsetOrdering(D), FiniteSubsetsOf(D))
    BY FS_StrictSubsetOrderingWellFounded
  <2> QED BY Zenon, <2>1, <2>2
<1>2. PICK T \in (SUBSET D) \ Good :
          \A U \in (SUBSET D) \ Good : ~(<<U, T>> \in StrictSubsetOrdering(D))
  <2> DEFINE Bad == (SUBSET D) \ Good
  <2>1. Bad \subseteq SUBSET D /\ Bad # {}
    OBVIOUS
  <2> HIDE DEF Bad
  <2>2. \E x \in Bad : \A y \in Bad : ~(<<y, x>> \in StrictSubsetOrdering(D))
    BY <1>1, <2>1, WFMin
  <2> QED BY <2>2 DEF Bad
<1>3. \A U \in SUBSET T : U # T => U \in Good
  BY <1>2 DEF StrictSubsetOrdering
<1> QED BY <1>2, <1>3

\* A finite set of numbers has a least and a greatest member.
LEMMA Extremes ==
  ASSUME NEW D \in SUBSET Int, IsFiniteSet(D), D # {}
  PROVE  /\ \E m \in D : \A n \in D : m <= n
         /\ \E m \in D : \A n \in D : n <= m
<1> DEFINE Good == {T \in SUBSET D : T = {} \/
                       /\ \E m \in T : \A n \in T : m <= n
                       /\ \E m \in T : \A n \in T : n <= m}
<1>1. ASSUME NEW T \in SUBSET D, \A U \in SUBSET T : U # T => U \in Good,
             NEW x \in T
      PROVE  T \in Good
  <2> DEFINE U == T \ {x}
  <2>1. U \in Good
    BY <1>1
  <2>2. CASE U = {}
    BY <2>2
  <2>3. CASE U # {}
    <3>1. PICK a \in U : \A n \in U : a <= n
      BY <2>1, <2>3
    <3>2. PICK b \in U : \A n \in U : n <= b
      BY <2>1, <2>3
    <3>3. \E m \in T : \A n \in T : m <= n
      BY <3>1
    <3>4. \E m \in T : \A n \in T : n <= m
      BY <3>2
    <3> QED BY <3>3, <3>4
  <2> QED BY <2>2, <2>3
<1>2. \A T \in SUBSET D : (\A U \in SUBSET T : U # T => U \in Good) => T \in Good
  BY <1>1
<1> HIDE DEF Good
<1>3. D \in Good
  BY <1>2, SubsetInduction
<1> QED BY <1>3 DEF Good

\* The values of a fold: f[T] is base for the empty set, and otherwise a step
\* from what the rest gives.
FoldsTo(f, D, V, base, c, step) ==
    /\ f \in [SUBSET D -> V]
    /\ \A T \in SUBSET D :
          f[T] = IF T = {} THEN base ELSE step[<<c[T], f[T \ {c[T]}]>>]

\* Its values on a part are the same for a function on the part.
LEMMA FoldsAlike ==
  ASSUME NEW D, IsFiniteSet(D), NEW E \in SUBSET D, NEW V, NEW base, NEW c, NEW step,
         \A T \in SUBSET D : T # {} => c[T] \in T,
         NEW f, FoldsTo(f, D, V, base, c, step),
         NEW g, FoldsTo(g, E, V, base, c, step)
  PROVE  \A T \in SUBSET E : f[T] = g[T]
<1> DEFINE Good == {T \in SUBSET E : f[T] = g[T]}
<1>1. IsFiniteSet(E)
  BY FS_Subset
<1>2. ASSUME NEW T \in SUBSET E, \A U \in SUBSET T : U # T => U \in Good
      PROVE  T \in Good
  <2>1. CASE T = {}
    BY <2>1 DEF FoldsTo
  <2>2. CASE T # {}
    <3>1. c[T] \in T /\ T \ {c[T]} \in SUBSET T /\ T \ {c[T]} # T
      BY <2>2
    <3>2. f[T \ {c[T]}] = g[T \ {c[T]}]
      BY <1>2, <3>1
    <3> QED BY <2>2, <3>2 DEF FoldsTo
  <2> QED BY <2>1, <2>2
<1> HIDE DEF Good
<1>3. \A T \in SUBSET E : T \in Good
  BY <1>1, <1>2, SubsetInduction
<1> QED BY <1>3 DEF Good

\* There is one such function.
LEMMA FoldExists ==
  ASSUME NEW D, IsFiniteSet(D), NEW V, NEW base \in V, NEW c,
         \A T \in SUBSET D : T # {} => c[T] \in T,
         NEW step \in [D \X V -> V]
  PROVE  \E f : FoldsTo(f, D, V, base, c, step)
<1> DEFINE Fold(f, T) == FoldsTo(f, T, V, base, c, step)
           Good == {T \in SUBSET D : \E f : Fold(f, T)}
           of(T) == CHOOSE f : Fold(f, T)
<1>1. ASSUME NEW T \in SUBSET D, \A U \in SUBSET T : U # T => U \in Good
      PROVE  T \in Good
  <2>1. \A U \in SUBSET T : U # T => Fold(of(U), U)
    <3> SUFFICES ASSUME NEW U \in SUBSET T, U # T PROVE Fold(of(U), U)
      OBVIOUS
    <3>1. \E f : Fold(f, U)
      BY <1>1
    <3> HIDE DEF Fold
    <3> QED BY <3>1
  <2>2. \A U \in SUBSET T : \A W \in SUBSET U :
            U # T => of(U)[W] = of(W)[W]
    <3> SUFFICES ASSUME NEW U \in SUBSET T, NEW W \in SUBSET U, U # T
                 PROVE  of(U)[W] = of(W)[W]
      OBVIOUS
    <3>1. Fold(of(U), U) /\ Fold(of(W), W)
      BY <2>1
    <3>2. IsFiniteSet(U) /\ \A X \in SUBSET U : X # {} => c[X] \in X
      BY FS_Subset
    <3> HIDE DEF of
    <3> QED BY <3>1, <3>2, FoldsAlike
  <2> DEFINE top == IF T = {} THEN base
                    ELSE step[<<c[T], of(T \ {c[T]})[T \ {c[T]}]>>]
             g == [U \in SUBSET T |-> IF U = T THEN top ELSE of(U)[U]]
  <2>3. top \in V
    <3>1. CASE T = {}
      BY <3>1
    <3>2. CASE T # {}
      <4> DEFINE U == T \ {c[T]}
      <4>1. c[T] \in T /\ U \in SUBSET T /\ U # T
        BY <3>2
      <4>2. of(U)[U] \in V
        <5> HIDE DEF of, U
        <5>1. FoldsTo(of(U), U, V, base, c, step)
          BY <2>1, <4>1
        <5>2. of(U) \in [SUBSET U -> V] /\ U \in SUBSET U
          BY <5>1 DEF FoldsTo
        <5> QED BY <5>2
      <4> HIDE DEF of
      <4> QED BY <3>2, <4>1, <4>2
    <3> QED BY <3>1, <3>2
  <2>4. g \in [SUBSET T -> V]
    <3>1. \A U \in SUBSET T : U # T => of(U)[U] \in V
      BY <2>1 DEF FoldsTo
    <3> HIDE DEF of, top
    <3> QED BY <2>3, <3>1
  <2>5. ASSUME NEW U \in SUBSET T
        PROVE  g[U] = IF U = {} THEN base ELSE step[<<c[U], g[U \ {c[U]}]>>]
    <3> DEFINE W == U \ {c[U]}
    <3>1. U # {} => c[U] \in U /\ W \in SUBSET U /\ W # U
      OBVIOUS
    <3>2. CASE U = T
      <4>1. U # {} => g[W] = of(W)[W]
        BY <3>1, <3>2
      <4> HIDE DEF of
      <4> QED BY <3>2, <4>1
    <3>3. CASE U # T
      <4>1. g[U] = of(U)[U]
        BY <3>3
      <4>2. of(U)[U] = IF U = {} THEN base ELSE step[<<c[U], of(U)[W]>>]
        BY <2>1, <3>3 DEF FoldsTo
      <4>3. U # {} => of(U)[W] = g[W]
        <5>1. U # {} => W # T /\ W \in SUBSET T
          BY <3>1
        <5> HIDE DEF of
        <5> QED BY <2>2, <3>1, <3>3, <5>1
      <4> HIDE DEF of, g, W
      <4> QED BY <4>1, <4>2, <4>3 DEF W
    <3> QED BY <3>2, <3>3
  <2> HIDE DEF g
  <2>6. Fold(g, T)
    BY <2>4, <2>5 DEF FoldsTo
  <2> QED BY <2>6
<1>2. \A T \in SUBSET D : (\A U \in SUBSET T : U # T => U \in Good) => T \in Good
  BY <1>1
<1> HIDE DEF Good
<1>3. D \in Good
  BY <1>2, SubsetInduction
<1> QED BY <1>3 DEF Good

\* What has this equation as long as its values are of V.
Solves(g, D, V, base, c, step) ==
    /\ g[{}] = base
    /\ \A T \in SUBSET D : T # {} /\ g[T \ {c[T]}] \in V =>
           g[T] = step[<<c[T], g[T \ {c[T]}]>>]

\* Then it is that function.
LEMMA FoldUnique ==
  ASSUME NEW D, IsFiniteSet(D), NEW V, NEW base, NEW c, NEW step,
         \A T \in SUBSET D : T # {} => c[T] \in T,
         NEW f, FoldsTo(f, D, V, base, c, step),
         NEW g, Solves(g, D, V, base, c, step)
  PROVE  \A T \in SUBSET D : g[T] = f[T]
<1> DEFINE Good == {T \in SUBSET D : g[T] = f[T]}
<1>1. ASSUME NEW T \in SUBSET D, \A U \in SUBSET T : U # T => U \in Good
      PROVE  T \in Good
  <2>1. CASE T = {}
    BY <2>1 DEF FoldsTo, Solves
  <2>2. CASE T # {}
    <3> DEFINE U == T \ {c[T]}
    <3>1. U \in SUBSET T /\ U # T
      BY <2>2
    <3>2. g[U] = f[U]
      BY <1>1, <3>1
    <3>3. f[U] \in V
      BY <3>1 DEF FoldsTo
    <3>4. f[T] = step[<<c[T], f[U]>>]
      BY <2>2 DEF FoldsTo
    <3> QED BY <2>2, <3>2, <3>3, <3>4 DEF Solves
  <2> QED BY <2>1, <2>2
<1>2. \A T \in SUBSET D : (\A U \in SUBSET T : U # T => U \in Good) => T \in Good
  BY <1>1
<1> HIDE DEF Good
<1>3. \A T \in SUBSET D : T \in Good
  BY <1>2, SubsetInduction
<1> QED BY <1>3 DEF Good

-----------------------------------------------------------------------------
\* Which member SumFunction takes next, and what it does with it.
Pick(D) == [T \in SUBSET D |-> CHOOSE x \in T : TRUE]
Plus(D, w) == [p \in D \X Nat |-> w[p[1]] + p[2]]

\* It is a member.
LEMMA Picks == ASSUME NEW D, NEW T \in SUBSET D, T # {} PROVE Pick(D)[T] \in T
  BY DEF Pick

\* SumFunction is such a fold.
LEMMA SumFolds ==
  ASSUME NEW D, IsFiniteSet(D), NEW w \in [D -> Nat]
  PROVE  \E f : FoldsTo(f, D, Nat, 0, Pick(D), Plus(D, w))
                /\ SumFunction(w) = f[D]
<1> DEFINE c == Pick(D)
           step == Plus(D, w)
           Eq(g) == g = [s \in SUBSET D |->
                           IF s = {} THEN 0
                           ELSE w[CHOOSE x \in s : TRUE]
                                  + g[s \ {CHOOSE x \in s : TRUE}]]
<1>1. \A T \in SUBSET D : c[T] = CHOOSE x \in T : TRUE
  BY DEF Pick
<1>2. \A T \in SUBSET D : T # {} => c[T] \in T
  BY Picks
<1>3. step \in [D \X Nat -> Nat]
  BY DEF Plus
<1>4. \A x \in D, n \in Nat : step[<<x, n>>] = w[x] + n
  BY DEF Plus
<1> HIDE DEF c, step
<1>5. PICK f : FoldsTo(f, D, Nat, 0, c, step)
  BY <1>2, <1>3, FoldExists, Zenon
<1>6. Eq(f)
  <2>1. f \in [SUBSET D -> Nat]
    BY <1>5 DEF FoldsTo
  <2>2. ASSUME NEW T \in SUBSET D
        PROVE  f[T] = IF T = {} THEN 0 ELSE w[c[T]] + f[T \ {c[T]}]
    <3>1. f[T] = IF T = {} THEN 0 ELSE step[<<c[T], f[T \ {c[T]}]>>]
      BY <1>5 DEF FoldsTo
    <3>2. T # {} => c[T] \in D /\ f[T \ {c[T]}] \in Nat
      BY <1>2, <2>1
    <3> QED BY <1>4, <3>1, <3>2
  <2>3. ASSUME NEW T \in SUBSET D
        PROVE  f[T] = IF T = {} THEN 0
                      ELSE w[CHOOSE x \in T : TRUE]
                             + f[T \ {CHOOSE x \in T : TRUE}]
    BY Zenon, <1>1, <2>2
  <2> QED BY <2>1, <2>3
<1> DEFINE iter == CHOOSE g : Eq(g)
<1>7. Eq(iter)
  BY <1>6
<1>8. SumFunction(w) = iter[D]
  BY DEF SumFunction, SumFunctionOnSet, FoldFunctionOnSet, MapThenFoldSet
<1> HIDE DEF iter
<1>9. \A T \in SUBSET D :
          iter[T] = IF T = {} THEN 0 ELSE w[c[T]] + iter[T \ {c[T]}]
  BY Zenon, <1>1, <1>7
<1>10. Solves(iter, D, Nat, 0, c, step)
  <2> SUFFICES ASSUME NEW T \in SUBSET D, T # {}, iter[T \ {c[T]}] \in Nat
               PROVE  iter[T] = step[<<c[T], iter[T \ {c[T]}]>>]
    BY <1>9 DEF Solves
  <2>1. c[T] \in D /\ iter[T] = w[c[T]] + iter[T \ {c[T]}]
    BY <1>2, <1>9
  <2> QED BY <1>4, <2>1
<1>11. \A T \in SUBSET D : iter[T] = f[T]
  BY <1>2, <1>5, <1>10, FoldUnique
<1> QED BY <1>5, <1>8, <1>11 DEF c, step

\* The sum over a part of a table, f's, is the fold's value there.
LEMMA SumOfPart ==
  ASSUME NEW D, IsFiniteSet(D), NEW w \in [D -> Nat],
         NEW f, FoldsTo(f, D, Nat, 0, Pick(D), Plus(D, w))
  PROVE  \A T \in SUBSET D : SumFunction([x \in T |-> w[x]]) = f[T]
<1> SUFFICES ASSUME NEW T \in SUBSET D
             PROVE  SumFunction([x \in T |-> w[x]]) = f[T]
  OBVIOUS
<1> DEFINE v == [x \in T |-> w[x]]
<1>1. IsFiniteSet(T) /\ v \in [T -> Nat]
  BY FS_Subset
<1> HIDE DEF v
<1>2. PICK g : /\ FoldsTo(g, T, Nat, 0, Pick(T), Plus(T, v))
               /\ SumFunction(v) = g[T]
  BY <1>1, SumFolds
<1>3. FoldsTo(g, T, Nat, 0, Pick(D), Plus(D, w))
  <2>1. g \in [SUBSET T -> Nat]
    BY <1>2 DEF FoldsTo
  <2>2. ASSUME NEW U \in SUBSET T
        PROVE  g[U] = IF U = {} THEN 0
                      ELSE Plus(D, w)[<<Pick(D)[U], g[U \ {Pick(D)[U]}]>>]
    <3>1. g[U] = IF U = {} THEN 0
                 ELSE Plus(T, v)[<<Pick(T)[U], g[U \ {Pick(T)[U]}]>>]
      BY <1>2 DEF FoldsTo
    <3>2. Pick(T)[U] = Pick(D)[U]
      BY DEF Pick
    <3>3. ASSUME U # {}
          PROVE  LET x == Pick(D)[U]  n == g[U \ {x}]
                 IN  Plus(T, v)[<<x, n>>] = Plus(D, w)[<<x, n>>]
      <4>1. Pick(D)[U] \in U
        BY <3>3, Picks
      <4>2. g[U \ {Pick(D)[U]}] \in Nat
        BY <2>1
      <4> QED BY <4>1, <4>2 DEF Plus, v
    <3> QED BY <3>1, <3>2, <3>3
  <2> QED BY <2>1, <2>2 DEF FoldsTo
<1>4. \A U \in SUBSET D : U # {} => Pick(D)[U] \in U
  BY Picks
<1>5. f[T] = g[T]
  BY <1>3, <1>4, FoldsAlike
<1> QED BY <1>2, <1>5 DEF v

\* The sum of w over T.
Total(w, T) == SumFunction([x \in T |-> w[x]])

\* The sum of natural numbers is one, and may be taken in any order.
LEMMA Totals ==
  ASSUME NEW D, IsFiniteSet(D), NEW w \in [D -> Nat]
  PROVE  /\ Total(w, {}) = 0
         /\ \A T \in SUBSET D : Total(w, T) \in Nat
         /\ \A T \in SUBSET D : \A x \in T :
                Total(w, T) = w[x] + Total(w, T \ {x})
<1>1. PICK f : FoldsTo(f, D, Nat, 0, Pick(D), Plus(D, w))
  BY SumFolds
<1>2. \A T \in SUBSET D : Total(w, T) = f[T]
  BY <1>1, SumOfPart DEF Total
<1>3. f \in [SUBSET D -> Nat] /\ f[{}] = 0
  BY <1>1 DEF FoldsTo
<1> DEFINE Good == {T \in SUBSET D : \A x \in T : f[T] = w[x] + f[T \ {x}]}
<1>4. ASSUME NEW T \in SUBSET D, \A U \in SUBSET T : U # T => U \in Good,
             NEW x \in T
      PROVE  f[T] = w[x] + f[T \ {x}]
  <2> DEFINE y == Pick(D)[T]
  <2>1. y \in T
    BY Picks
  <2> HIDE DEF y
  <2>2. f[T] = w[y] + f[T \ {y}]
    <3>1. f[T] = Plus(D, w)[<<y, f[T \ {y}]>>]
      BY <1>1, <1>4 DEF FoldsTo, y
    <3>2. f[T \ {y}] \in Nat
      BY <1>3
    <3> QED BY <2>1, <3>1, <3>2 DEF Plus
  <2>3. CASE x = y
    BY <2>2, <2>3
  <2>4. CASE x # y
    <3>1. f[T \ {y}] = w[x] + f[(T \ {y}) \ {x}]
      <4>1. T \ {y} \in Good /\ x \in T \ {y}
        BY <1>4, <2>1, <2>4
      <4> QED BY <4>1
    <3>2. f[T \ {x}] = w[y] + f[(T \ {x}) \ {y}]
      <4>1. T \ {x} \in Good /\ y \in T \ {x}
        BY <1>4, <2>1, <2>4
      <4> QED BY <4>1
    <3>3. (T \ {x}) \ {y} = (T \ {y}) \ {x}
      OBVIOUS
    <3> DEFINE r == f[(T \ {y}) \ {x}]
    <3>4. r \in Nat /\ w[x] \in Nat /\ w[y] \in Nat
      BY <1>3, <2>1
    <3>5. f[T \ {y}] = w[x] + r /\ f[T \ {x}] = w[y] + r
      BY <3>1, <3>2, <3>3
    <3> HIDE DEF r
    <3> QED BY <2>2, <3>4, <3>5
  <2> QED BY <2>3, <2>4
<1>5. \A T \in SUBSET D : (\A U \in SUBSET T : U # T => U \in Good) => T \in Good
  BY <1>4
<1> HIDE DEF Good
<1>6. \A T \in SUBSET D : T \in Good
  BY <1>5, SubsetInduction
<1>7. \A T \in SUBSET D : \A x \in T : f[T] = w[x] + f[T \ {x}]
  BY <1>6 DEF Good
<1>8. \A T \in SUBSET D : \A x \in T : T \ {x} \in SUBSET D
  OBVIOUS
<1> QED BY <1>2, <1>3, <1>7, <1>8

\* The sum over a set is that over a part of it and that over the rest.
LEMMA TotalRest ==
  ASSUME NEW D, IsFiniteSet(D), NEW w \in [D -> Nat]
  PROVE  \A T \in SUBSET D : Total(w, D) = Total(w, T) + Total(w, D \ T)
<1> DEFINE Good == {T \in SUBSET D : Total(w, D) = Total(w, T) + Total(w, D \ T)}
<1>1. ASSUME NEW T \in SUBSET D, \A U \in SUBSET T : U # T => U \in Good
      PROVE  T \in Good
  <2>1. CASE T = {}
    <3>1. D \ T = D /\ Total(w, D) \in Nat /\ Total(w, T) = 0
      BY <2>1, Totals
    <3> QED BY <3>1
  <2>2. CASE T # {}
    <3>1. PICK x \in T : TRUE
      BY <2>2
    <3> DEFINE U == T \ {x}
    <3>2. Total(w, D) = Total(w, U) + Total(w, D \ U)
      <4>1. U \in Good
        BY <1>1, <3>1
      <4> QED BY <4>1
    <3>3. Total(w, T) = w[x] + Total(w, U)
      BY Totals
    <3>4. Total(w, D \ U) = w[x] + Total(w, D \ T)
      <4>1. x \in D \ U /\ D \ U \in SUBSET D /\ (D \ U) \ {x} = D \ T
        OBVIOUS
      <4>2. Total(w, D \ U) = w[x] + Total(w, (D \ U) \ {x})
        BY <4>1, Totals
      <4> QED BY <4>1, <4>2
    <3>5. Total(w, U) \in Nat /\ Total(w, D \ T) \in Nat /\ w[x] \in Nat
      <4>1. U \in SUBSET D /\ D \ T \in SUBSET D
        OBVIOUS
      <4> QED BY <4>1, Totals
    <3> HIDE DEF U
    <3> QED BY <3>2, <3>3, <3>4, <3>5
  <2> QED BY <2>1, <2>2
<1>2. \A T \in SUBSET D : (\A U \in SUBSET T : U # T => U \in Good) => T \in Good
  BY <1>1
<1> HIDE DEF Good
<1>3. \A T \in SUBSET D : T \in Good
  BY <1>2, SubsetInduction
<1> QED BY <1>3 DEF Good

-----------------------------------------------------------------------------
(* Sequences with an element more or less.                                 *)

\* One sequence after another.
LEMMA Concatenation ==
  ASSUME NEW S, NEW s \in Seq(S), NEW t \in Seq(S)
  PROVE  /\ s \o t \in Seq(S) /\ Len(s \o t) = Len(s) + Len(t)
         /\ \A i \in 1 .. Len(s) + Len(t) :
                (s \o t)[i] = IF i <= Len(s) THEN s[i] ELSE t[i - Len(s)]
OBVIOUS

\* A sequence without its k-th element.
LEMMA Removal ==
  ASSUME NEW S, NEW s \in Seq(S), NEW k \in 1 .. Len(s)
  PROVE  LET t == RemoveAt(s, k)
         IN  /\ t \in Seq(S) /\ Len(t) = Len(s) - 1
             /\ \A i \in 1 .. Len(t) : t[i] = IF i < k THEN s[i] ELSE s[i + 1]
<1> DEFINE a == SubSeq(s, 1, k - 1)
           b == SubSeq(s, k + 1, Len(s))
           n == Len(s)
<1>1. n \in Nat /\ k \in 1 .. n /\ DOMAIN s = 1 .. n
  OBVIOUS
<1>2. /\ a \in Seq(S) /\ Len(a) = k - 1
      /\ \A i \in 1 .. k - 1 : a[i] = s[i]
  BY <1>1
<1>3. /\ b \in Seq(S) /\ Len(b) = n - k
      /\ \A i \in 1 .. n - k : b[i] = s[k + i]
  <2>1. k + 1 \in 1 .. n + 1
    BY <1>1
  <2>2. b \in Seq(S) /\ Len(b) = IF k + 1 <= n THEN n - (k + 1) + 1 ELSE 0
    BY <1>1, <2>1
  <2>3. Len(b) = n - k
    <3>1. CASE k = n
      <4>1. ~(k + 1 <= n)
        BY <1>1, <3>1
      <4> QED BY <1>1, <2>2, <3>1, <4>1
    <3>2. CASE k # n
      <4>1. n \in Int /\ k \in Int /\ k <= n
        BY <1>1
      <4>2. k + 1 <= n
        BY <3>2, <4>1
      <4>3. n - (k + 1) + 1 = n - k
        BY <4>1
      <4> QED BY <2>2, <4>2, <4>3
    <3> QED BY <3>1, <3>2
  <2>4. ASSUME NEW i \in 1 .. n - k PROVE b[i] = s[k + i]
    <3>1. b[i] = s[(k + 1) + i - 1]
      BY <1>1, <2>1
    <3>2. (k + 1) + i - 1 = k + i
      BY <1>1
    <3> QED BY <3>1, <3>2
  <2> QED BY <2>2, <2>3, <2>4
<1> HIDE DEF a, b, n
<1>4. /\ a \o b \in Seq(S) /\ Len(a \o b) = n - 1
      /\ \A i \in 1 .. n - 1 :
            (a \o b)[i] = IF i <= k - 1 THEN a[i] ELSE b[i - (k - 1)]
  <2>1. /\ a \o b \in Seq(S) /\ Len(a \o b) = Len(a) + Len(b)
        /\ \A i \in 1 .. Len(a) + Len(b) :
              (a \o b)[i] = IF i <= Len(a) THEN a[i] ELSE b[i - Len(a)]
    BY <1>2, <1>3, Concatenation
  <2>2. Len(a) + Len(b) = n - 1
    BY <1>1, <1>2, <1>3
  <2> QED BY <1>2, <2>1, <2>2
<1>5. ASSUME NEW i \in 1 .. n - 1
      PROVE  (a \o b)[i] = IF i < k THEN s[i] ELSE s[i + 1]
  <2>1. CASE i < k
    BY <1>1, <1>2, <1>4, <2>1
  <2>2. CASE ~(i < k)
    <3>1. i - (k - 1) \in 1 .. n - k /\ k + (i - (k - 1)) = i + 1
      BY <1>1, <2>2
    <3>2. (a \o b)[i] = b[i - (k - 1)]
      BY <1>1, <1>4, <2>2
    <3> QED BY <1>3, <2>2, <3>1, <3>2
  <2> QED BY <2>1, <2>2
<1>6. RemoveAt(s, k) = a \o b
  BY DEF RemoveAt, a, b, n
<1> QED BY <1>4, <1>5, <1>6 DEF n

\* A sequence with e as its new k-th element.
LEMMA Insertion ==
  ASSUME NEW S, NEW s \in Seq(S), NEW k \in 1 .. Len(s) + 1, NEW e \in S
  PROVE  LET t == InsertAt(s, k, e)
         IN  /\ t \in Seq(S) /\ Len(t) = Len(s) + 1
             /\ \A i \in 1 .. Len(t) :
                    t[i] = IF i < k THEN s[i] ELSE IF i = k THEN e ELSE s[i - 1]
<1> DEFINE a == SubSeq(s, 1, k - 1)
           b == SubSeq(s, k, Len(s))
           n == Len(s)
           d == Append(a, e)
<1>1. n \in Nat /\ k \in 1 .. n + 1 /\ DOMAIN s = 1 .. n
  OBVIOUS
<1>2. /\ a \in Seq(S) /\ Len(a) = k - 1
      /\ \A i \in 1 .. k - 1 : a[i] = s[i]
  BY <1>1
<1>3. /\ b \in Seq(S) /\ Len(b) = n - k + 1
      /\ \A i \in 1 .. n - k + 1 : b[i] = s[k + i - 1]
  BY <1>1
<1> HIDE DEF a, b, n
<1>4. /\ d \in Seq(S) /\ Len(d) = k
      /\ \A i \in 1 .. k : d[i] = IF i < k THEN s[i] ELSE e
  BY <1>1, <1>2
<1>5. a \o <<e>> = d
  BY <1>2
<1> HIDE DEF d
<1>6. /\ d \o b \in Seq(S) /\ Len(d \o b) = n + 1
      /\ \A i \in 1 .. n + 1 : (d \o b)[i] = IF i <= k THEN d[i] ELSE b[i - k]
  <2>1. /\ d \o b \in Seq(S) /\ Len(d \o b) = Len(d) + Len(b)
        /\ \A i \in 1 .. Len(d) + Len(b) :
              (d \o b)[i] = IF i <= Len(d) THEN d[i] ELSE b[i - Len(d)]
    BY <1>3, <1>4, Concatenation
  <2>2. Len(d) + Len(b) = n + 1
    BY <1>1, <1>3, <1>4
  <2> QED BY <1>4, <2>1, <2>2
<1>7. ASSUME NEW i \in 1 .. n + 1
      PROVE  (d \o b)[i] = IF i < k THEN s[i] ELSE IF i = k THEN e ELSE s[i - 1]
  <2>1. CASE i <= k
    BY <1>1, <1>4, <1>6, <2>1
  <2>2. CASE ~(i <= k)
    <3>1. i - k \in 1 .. n - k + 1 /\ k + (i - k) - 1 = i - 1
      BY <1>1, <2>2
    <3>2. (d \o b)[i] = b[i - k]
      BY <1>1, <1>6, <2>2
    <3>3. b[i - k] = s[k + (i - k) - 1]
      BY <1>3, <3>1
    <3> QED BY <1>1, <2>2, <3>1, <3>2, <3>3
  <2> QED BY <2>1, <2>2
<1>8. InsertAt(s, k, e) = d \o b
  BY <1>5 DEF InsertAt, a, b, n
<1> QED BY <1>6, <1>7, <1>8 DEF n

\* A set of positions with all that are before one of them is counted by its
\* last one.
LEMMA Initial ==
  ASSUME NEW n \in Nat, NEW A \in SUBSET (1 .. n),
         \A i \in A : \A j \in 1 .. i : j \in A
  PROVE  Cardinality(A) \in 0 .. n /\ A = 1 .. Cardinality(A)
<1>1. CASE A = {}
  <2>1. Cardinality(A) = 0
    BY <1>1, FS_EmptySet
  <2> QED BY <1>1, <2>1
<1>2. CASE A # {}
  <2>1. A \in SUBSET Int /\ IsFiniteSet(A)
    <3>1. 1 \in Int /\ n \in Int
      OBVIOUS
    <3>2. IsFiniteSet(1 .. n)
      BY <3>1, FS_Interval
    <3>3. IsFiniteSet(A)
      BY <3>2, FS_Subset
    <3> QED BY <3>3
  <2>2. PICK m \in A : \A i \in A : i <= m
    BY <1>2, <2>1, Extremes
  <2>3. m \in Nat /\ 1 <= m /\ m <= n
    OBVIOUS
  <2>4. A \subseteq 1 .. m
    BY <2>2, <2>3
  <2>5. \A j \in 1 .. m : j \in A
    BY <2>3
  <2>6. A = 1 .. m
    BY <2>4, <2>5
  <2>7. Cardinality(1 .. m) = m
    <3>1. 1 \in Int /\ m \in Int /\ m >= 1
      BY <2>3
    <3>2. Cardinality(1 .. m) = IF 1 > m THEN 0 ELSE m - 1 + 1
      BY <3>1, FS_Interval
    <3> QED BY <3>1, <3>2
  <2> QED BY <2>3, <2>6, <2>7
<1> QED BY <1>1, <1>2

\* The sequence s has the members of T, each once.
Lists(s, T) ==
    /\ s \in Seq(T)
    /\ \A i, j \in 1 .. Len(s) : s[i] = s[j] => i = j
    /\ \A x \in T : \E i \in 1 .. Len(s) : s[i] = x

\* So it is as long as T is large, and T is finite.
LEMMA ListLength ==
  ASSUME NEW T, NEW s, Lists(s, T)
  PROVE  /\ IsFiniteSet(T) /\ Len(s) = Cardinality(T)
         /\ \A k \in 1 .. Len(s) : Cardinality({s[i] : i \in 1 .. k}) = k
<1>1. ASSUME NEW k \in 0 .. Len(s), NEW U, U = {s[i] : i \in 1 .. k}
      PROVE  IsFiniteSet(U) /\ Cardinality(U) = k
  <2> DEFINE f == [i \in 1 .. k |-> s[i]]
  <2>1. Len(s) \in Nat
    BY DEF Lists
  <2>2. f \in [1 .. k -> U] /\ \A i, j \in 1 .. k : f[i] = f[j] => i = j
    <3>1. \A i \in 1 .. k : i \in 1 .. Len(s)
      BY <2>1
    <3>2. \A i \in 1 .. k : s[i] \in U
      BY <1>1
    <3>3. \A i, j \in 1 .. k : s[i] = s[j] => i = j
      BY <3>1 DEF Lists
    <3> QED BY <3>2, <3>3
  <2>3. \A x \in U : \E i \in 1 .. k : f[i] = x
    BY <1>1
  <2> HIDE DEF f
  <2>4. f \in Bijection(1 .. k, U)
    BY <2>2, <2>3, Fun_IsBij
  <2>5. IsFiniteSet(1 .. k) /\ Cardinality(1 .. k) = k
    <3>1. 1 \in Int /\ k \in Int /\ k >= 0
      BY <2>1
    <3>2. /\ IsFiniteSet(1 .. k)
          /\ Cardinality(1 .. k) = IF 1 > k THEN 0 ELSE k - 1 + 1
      BY <3>1, FS_Interval
    <3> QED BY <3>1, <3>2
  <2>6. ExistsBijection(1 .. k, U)
    BY <2>4 DEF ExistsBijection
  <2> QED BY <2>5, <2>6, FS_Bijection
<1>2. Len(s) \in Nat /\ Len(s) \in 0 .. Len(s) /\ T = {s[i] : i \in 1 .. Len(s)}
  BY DEF Lists
<1>3. IsFiniteSet(T) /\ Cardinality(T) = Len(s)
  BY <1>1, <1>2
<1>4. ASSUME NEW k \in 1 .. Len(s)
      PROVE  Cardinality({s[i] : i \in 1 .. k}) = k
  <2>1. k \in 0 .. Len(s)
    BY <1>2
  <2> QED BY <1>1, <2>1
<1> QED BY <1>3, <1>4

\* A sequence of the members of T, each once, without its k-th.
LEMMA ListRemoval ==
  ASSUME NEW T, NEW s, Lists(s, T), NEW k \in 1 .. Len(s)
  PROVE  LET t == RemoveAt(s, k)
         IN  /\ Lists(t, T \ {s[k]}) /\ Len(t) = Len(s) - 1
             /\ \A i \in 1 .. Len(t) : t[i] = IF i < k THEN s[i] ELSE s[i + 1]
<1> DEFINE t == RemoveAt(s, k)
           n == Len(s)
<1>1. s \in Seq(T) /\ n \in Nat
  BY DEF Lists
<1>2. /\ t \in Seq(T) /\ Len(t) = n - 1
      /\ \A i \in 1 .. Len(t) : t[i] = IF i < k THEN s[i] ELSE s[i + 1]
  BY <1>1, Removal
<1>3. /\ \A i, j \in 1 .. n : s[i] = s[j] => i = j
      /\ \A x \in T : \E i \in 1 .. n : s[i] = x
      /\ k \in 1 .. n
  BY DEF Lists
<1> HIDE DEF t, n
<1>4. ASSUME NEW i \in 1 .. n - 1
      PROVE  \E m \in 1 .. n : m # k /\ t[i] = s[m] /\ m = IF i < k THEN i ELSE i + 1
  <2>1. CASE i < k
    <3>1. i \in 1 .. n /\ i # k
      BY <1>1, <1>3, <2>1
    <3> QED BY <1>2, <2>1, <3>1
  <2>2. CASE ~(i < k)
    <3>1. i + 1 \in 1 .. n /\ i + 1 # k
      BY <1>1, <1>3, <2>2
    <3> QED BY <1>2, <2>2, <3>1
  <2> QED BY <2>1, <2>2
<1>5. t \in Seq(T \ {s[k]})
  <2>1. \A i \in 1 .. n - 1 : t[i] \in T \ {s[k]}
    <3>1. ASSUME NEW i \in 1 .. n - 1 PROVE t[i] \in T \ {s[k]}
      <4>1. PICK m \in 1 .. n : m # k /\ t[i] = s[m]
        BY <1>4
      <4>2. s[m] # s[k] /\ s[m] \in T
        BY <1>1, <1>3, <4>1 DEF n
      <4> QED BY <4>1, <4>2
    <3> QED BY <3>1
  <2> QED BY <1>2, <2>1
<1>6. ASSUME NEW i \in 1 .. n - 1, NEW j \in 1 .. n - 1, t[i] = t[j] PROVE i = j
  <2>1. PICK a \in 1 .. n : a # k /\ t[i] = s[a] /\ a = IF i < k THEN i ELSE i + 1
    BY <1>4
  <2>2. PICK b \in 1 .. n : b # k /\ t[j] = s[b] /\ b = IF j < k THEN j ELSE j + 1
    BY <1>4
  <2>3. a = b
    BY <1>3, <1>6, <2>1, <2>2
  <2> QED BY <1>3, <2>1, <2>2, <2>3
<1>7. ASSUME NEW x \in T \ {s[k]} PROVE \E i \in 1 .. n - 1 : t[i] = x
  <2>1. PICK m \in 1 .. n : s[m] = x
    BY <1>3
  <2>2. m # k
    BY <1>7, <2>1
  <2>3. CASE m < k
    <3>1. m \in 1 .. n - 1 /\ t[m] = s[m]
      BY <1>1, <1>2, <1>3, <2>3
    <3> QED BY <2>1, <3>1
  <2>4. CASE ~(m < k)
    <3>1. m - 1 \in 1 .. n - 1 /\ ~(m - 1 < k) /\ (m - 1) + 1 = m
      BY <1>1, <1>3, <2>2, <2>4
    <3>2. t[m - 1] = s[m]
      BY <1>2, <3>1
    <3> QED BY <2>1, <3>1, <3>2
  <2> QED BY <2>3, <2>4
<1>8. Lists(t, T \ {s[k]})
  BY <1>2, <1>5, <1>6, <1>7 DEF Lists
<1> QED BY <1>2, <1>8 DEF t, n

\* The sequence t is s with x as its new k-th element, and has what T has and x.
Inserted(t, s, T, k, x) ==
    /\ Lists(t, T \cup {x}) /\ Len(t) = Len(s) + 1
    /\ \A i \in 1 .. Len(t) :
           t[i] = IF i < k THEN s[i] ELSE IF i = k THEN x ELSE s[i - 1]

\* One more member.
LEMMA ListInsertion ==
  ASSUME NEW T, NEW s, Lists(s, T), NEW k \in 1 .. Len(s) + 1, NEW x, x \notin T
  PROVE  Inserted(InsertAt(s, k, x), s, T, k, x)
<1> DEFINE t == InsertAt(s, k, x)
           n == Len(s)
<1>1. s \in Seq(T) /\ s \in Seq(T \cup {x}) /\ n \in Nat
  BY DEF Lists
<1>2. /\ t \in Seq(T \cup {x}) /\ Len(t) = n + 1
      /\ \A i \in 1 .. Len(t) :
            t[i] = IF i < k THEN s[i] ELSE IF i = k THEN x ELSE s[i - 1]
  <2>1. x \in T \cup {x}
    OBVIOUS
  <2> QED BY <1>1, <2>1, Insertion
<1>3. /\ \A i, j \in 1 .. n : s[i] = s[j] => i = j
      /\ \A y \in T : \E i \in 1 .. n : s[i] = y
      /\ \A i \in 1 .. n : s[i] # x
      /\ k \in 1 .. n + 1
  BY DEF Lists
<1> HIDE DEF t, n
<1>4. ASSUME NEW i \in 1 .. n + 1, i # k
      PROVE  \E m \in 1 .. n : t[i] = s[m] /\ m = IF i < k THEN i ELSE i - 1
  <2>1. CASE i < k
    BY <1>1, <1>2, <1>3, <2>1
  <2>2. CASE ~(i < k)
    <3>1. i - 1 \in 1 .. n /\ ~(i < k) /\ i # k
      BY <1>1, <1>3, <1>4, <2>2
    <3> QED BY <1>2, <3>1
  <2> QED BY <2>1, <2>2
<1>5. t[k] = x
  BY <1>1, <1>2, <1>3
<1>6. ASSUME NEW i \in 1 .. n + 1, NEW j \in 1 .. n + 1, t[i] = t[j] PROVE i = j
  <2>1. CASE i = k /\ j = k
    BY <2>1
  <2>2. CASE i # k /\ j = k
    BY <1>3, <1>4, <1>5, <1>6, <2>2
  <2>3. CASE i = k /\ j # k
    BY <1>3, <1>4, <1>5, <1>6, <2>3
  <2>4. CASE i # k /\ j # k
    <3>1. PICK a \in 1 .. n : t[i] = s[a] /\ a = IF i < k THEN i ELSE i - 1
      BY <1>4, <2>4
    <3>2. PICK b \in 1 .. n : t[j] = s[b] /\ b = IF j < k THEN j ELSE j - 1
      BY <1>4, <2>4
    <3>3. a = b
      BY <1>3, <1>6, <3>1, <3>2
    <3> QED BY <1>3, <2>4, <3>1, <3>2, <3>3
  <2> QED BY <2>1, <2>2, <2>3, <2>4
<1>7. ASSUME NEW y \in T \cup {x} PROVE \E i \in 1 .. n + 1 : t[i] = y
  <2>1. CASE y = x
    BY <1>3, <1>5, <2>1
  <2>2. CASE y # x
    <3>1. PICK m \in 1 .. n : s[m] = y
      BY <1>3, <2>2
    <3>2. CASE m < k
      <4>1. m \in 1 .. n + 1 /\ t[m] = s[m]
        BY <1>1, <1>2, <1>3, <3>2
      <4> QED BY <3>1, <4>1
    <3>3. CASE ~(m < k)
      <4>1. m + 1 \in 1 .. n + 1 /\ ~(m + 1 < k) /\ m + 1 # k /\ (m + 1) - 1 = m
        BY <1>1, <1>3, <3>3
      <4>2. t[m + 1] = s[m]
        BY <1>2, <4>1
      <4> QED BY <3>1, <4>1, <4>2
    <3> QED BY <3>2, <3>3
  <2> QED BY <2>1, <2>2
<1>8. Lists(t, T \cup {x})
  BY <1>2, <1>6, <1>7 DEF Lists
<1> QED BY <1>2, <1>8 DEF t, n, Inserted

=============================================================================
