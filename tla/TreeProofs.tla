----------------------------- MODULE TreeProofs -----------------------------
(***************************************************************************)
(* The search of a dumped tree is exact for trees of any size, any chain   *)
(* of containers and any index.                                            *)
(***************************************************************************)
EXTENDS Tree, FiniteSetTheorems, SequenceTheorems, TLAPS

-----------------------------------------------------------------------------
(* Induction and recursion over numbers.                                   *)

(* A set of numbers that is not empty has a least one.                     *)
LEMMA Least ==
  ASSUME NEW T, T \subseteq Nat, T # {}
  PROVE  \E x \in T : \A y \in T : ~ (y < x)
<1> DEFINE R == OpToRel(<, Nat)
<1>1. IsWellFoundedOn(R, Nat)
  BY NatLessThanWellFounded
<1>2. \A x, y \in Nat : x < y => <<x, y>> \in R
  BY DEF OpToRel
<1> HIDE DEF R
<1>3. \E x \in T : \A y \in T : ~ (<<y, x>> \in R)
  BY <1>1, WFMin
<1> QED
  BY <1>2, <1>3

(* A set that contains a number if it contains all smaller ones contains   *)
(* every number.                                                           *)
LEMMA Strong ==
  ASSUME NEW T, \A n \in Nat : (\A k \in Nat : k < n => k \in T) => n \in T
  PROVE  Nat \subseteq T
<1> SUFFICES ASSUME Nat \ T # {} PROVE FALSE
  OBVIOUS
<1>1. PICK x \in Nat \ T : \A y \in Nat \ T : ~ (y < x)
  BY Least
<1> QED
  BY <1>1

(* So does one with 0 that contains with n also n + 1.                     *)
LEMMA Counting ==
  ASSUME NEW T, 0 \in T, \A n \in Nat : n \in T => n + 1 \in T
  PROVE  Nat \subseteq T
<1>1. ASSUME NEW n \in Nat, \A k \in Nat : k < n => k \in T PROVE n \in T
  <2>1. CASE n = 0
    BY <2>1
  <2>2. CASE n # 0
    <3>1. n - 1 \in Nat /\ n - 1 < n /\ (n - 1) + 1 = n
      BY <2>2
    <3>2. n - 1 \in T
      BY <1>1, <3>1
    <3> QED
      BY <3>1, <3>2
  <2> QED
    BY <2>1, <2>2
<1> QED
  BY <1>1, Strong

(* What each value of a function on 0..n is to be, given the function; and *)
(* that there is one with these values.                                    *)
Rules(n, V) == [0..n -> [[0..n -> V] -> V]]
Fulfilled(n, V, F) == \E g \in [0..n -> V] : \A k \in 0..n : g[k] = F[k][g]

(* A recursion on 0..n defines a function if each value depends only on    *)
(* those before it.                                                        *)
LEMMA Recursion ==
  ASSUME NEW n \in Nat, NEW V, NEW v \in V, NEW F \in Rules(n, V),
         \A k \in 0..n : \A g, h \in [0..n -> V] :
            (\A j \in 0..n : j < k => g[j] = h[j]) => F[k][g] = F[k][h]
  PROVE  Fulfilled(n, V, F)
<1> DEFINE T == {m \in Nat : \E g \in [0..n -> V] : \A k \in 0..n : k < m => g[k] = F[k][g]}
<1>1. 0 \in T
  <2>1. [k \in 0..n |-> v] \in [0..n -> V] /\ \A k \in 0..n : ~ (k < 0)
    OBVIOUS
  <2> QED
    BY <2>1
<1>2. ASSUME NEW m \in Nat, m \in T PROVE m + 1 \in T
  <2>1. PICK g \in [0..n -> V] : \A k \in 0..n : k < m => g[k] = F[k][g]
    BY <1>2
  <2>2. CASE m \notin 0..n
    BY <2>1, <2>2
  <2>3. CASE m \in 0..n
    <3> DEFINE h == [g EXCEPT ![m] = F[m][g]]
    <3>1. F[m][g] \in V
      BY <2>3 DEF Rules
    <3>2. h \in [0..n -> V] /\ h[m] = F[m][g] /\ \A k \in 0..n : k # m => h[k] = g[k]
      BY <2>3, <3>1
    <3> HIDE DEF h
    <3>3. \A k \in 0..n : k <= m => F[k][h] = F[k][g]
      <4> SUFFICES ASSUME NEW k \in 0..n, k <= m PROVE F[k][h] = F[k][g]
        OBVIOUS
      <4>1. \A j \in 0..n : j < k => h[j] = g[j]
        BY <3>2
      <4> QED
        BY <3>2, <4>1
    <3>4. \A k \in 0..n : k < m + 1 => h[k] = F[k][h]
      BY <2>1, <2>3, <3>2, <3>3
    <3> QED
      BY <3>2, <3>4
  <2> QED
    BY <2>2, <2>3
<1>3. n + 1 \in T
  <2> HIDE DEF T
  <2> QED
    BY <1>1, <1>2, Counting
<1> QED
  BY <1>3 DEF Fulfilled

-----------------------------------------------------------------------------
(* Sequences of numbers.                                                   *)

(* Nodes in pre-order, each once.                                          *)
Ascending(s) == \A i, j \in 1..Len(s) : i < j => s[i] < s[j]

(* Each member is new and greater than all before it, or one of those.     *)
Rising(s) ==
    \A j \in 1..Len(s) : \/ \E i \in 1..Len(s) : i < j /\ s[i] = s[j]
                         \/ \A i \in 1..Len(s) : i < j => s[i] < s[j]

(* All of S comes before all of T.                                         *)
Below(S, T) == \A x \in S, y \in T : x < y

(* The members of a sequence are the numbers at its places.                *)
LEMMA MembersOf ==
  ASSUME NEW s \in Seq(Nat)
  PROVE  /\ Len(s) \in Nat /\ ToSet(s) \subseteq Nat
         /\ \A x : x \in ToSet(s) <=> \E i \in 1..Len(s) : s[i] = x
BY LenProperties DEF ToSet

(* A sequence of one number.                                               *)
LEMMA OneIs ==
  ASSUME NEW x \in Nat
  PROVE  /\ <<x>> \in Seq(Nat) /\ Len(<<x>>) = 1 /\ <<x>>[1] = x
         /\ ToSet(<<x>>) = {x} /\ Ascending(<<x>>)
<1> DEFINE s == <<x>>
<1>1. s \in Seq(Nat) /\ Len(s) = 1 /\ s[1] = x
  OBVIOUS
<1> HIDE DEF s
<1>2. \A k : k \in 1..Len(s) <=> k = 1
  BY <1>1
<1>3. \A y : y \in ToSet(s) <=> \E k \in 1..Len(s) : s[k] = y
  BY <1>1, MembersOf
<1>4. ToSet(s) = {x} /\ Ascending(s)
  BY <1>1, <1>2, <1>3 DEF Ascending
<1> QED
  BY <1>1, <1>4 DEF s

(* Appending a greater number keeps a sequence ascending.                  *)
LEMMA AppendIs ==
  ASSUME NEW s \in Seq(Nat), NEW x \in Nat
  PROVE  /\ Append(s, x) \in Seq(Nat)
         /\ ToSet(Append(s, x)) = ToSet(s) \cup {x}
         /\ Ascending(s) /\ Below(ToSet(s), {x}) => Ascending(Append(s, x))
<1>1. /\ Append(s, x) \in Seq(Nat) /\ Len(s) \in Nat /\ Len(Append(s, x)) = Len(s) + 1
      /\ \A k \in 1..Len(s) : Append(s, x)[k] = s[k]
      /\ Append(s, x)[Len(s) + 1] = x
  BY AppendProperties
<1>2. \A k : k \in 1..Len(s) + 1 <=> k \in 1..Len(s) \/ k = Len(s) + 1
  BY <1>1
<1>3. \A y : y \in ToSet(Append(s, x)) <=> y \in ToSet(s) \/ y = x
  <2>1. \A y : y \in ToSet(Append(s, x)) <=> \E i \in 1..Len(s) + 1 : Append(s, x)[i] = y
    BY <1>1, MembersOf
  <2>2. \A y : y \in ToSet(s) <=> \E i \in 1..Len(s) : s[i] = y
    BY MembersOf
  <2> QED
    BY <1>1, <1>2, <2>1, <2>2
<1>4. ASSUME Ascending(s), Below(ToSet(s), {x}) PROVE Ascending(Append(s, x))
  <2>1. \A k \in 1..Len(s) : s[k] < x
    BY <1>4, MembersOf DEF Below
  <2> QED
    BY <1>1, <1>2, <1>4, <2>1 DEF Ascending
<1> QED
  BY <1>1, <1>3, <1>4

(* So does appending a sequence of greater ones; and appending one that is *)
(* greater, or that repeats members, keeps a sequence rising.              *)
LEMMA ConcatIs ==
  ASSUME NEW s \in Seq(Nat), NEW r \in Seq(Nat)
  PROVE  /\ s \o r \in Seq(Nat)
         /\ ToSet(s \o r) = ToSet(s) \cup ToSet(r)
         /\ Ascending(s) /\ Ascending(r) /\ Below(ToSet(s), ToSet(r)) => Ascending(s \o r)
         /\ Rising(s) /\ Ascending(r) /\ (Below(ToSet(s), ToSet(r)) \/ ToSet(r) \subseteq ToSet(s))
               => Rising(s \o r)
<1>1. /\ s \o r \in Seq(Nat) /\ Len(s) \in Nat /\ Len(r) \in Nat /\ Len(s \o r) = Len(s) + Len(r)
      /\ \A i \in 1..Len(s) + Len(r) : (s \o r)[i] = IF i <= Len(s) THEN s[i] ELSE r[i - Len(s)]
  BY ConcatProperties, LenProperties
<1>2. \A i \in 1..Len(s) : i \in 1..Len(s \o r) /\ (s \o r)[i] = s[i]
  BY <1>1
<1>3. \A i \in 1..Len(r) : i + Len(s) \in 1..Len(s \o r) /\ (s \o r)[i + Len(s)] = r[i]
  BY <1>1
<1>4. \A i \in 1..Len(s \o r) : i \in 1..Len(s) \/ \E j \in 1..Len(r) : i = j + Len(s)
  <2> SUFFICES ASSUME NEW i \in 1..Len(s \o r), i \notin 1..Len(s)
               PROVE  \E j \in 1..Len(r) : i = j + Len(s)
    OBVIOUS
  <2>1. i - Len(s) \in 1..Len(r) /\ i = (i - Len(s)) + Len(s)
    BY <1>1
  <2> QED
    BY <2>1
<1>5. ToSet(s \o r) = ToSet(s) \cup ToSet(r)
  <2>1. \A x : x \in ToSet(s \o r) <=> \E i \in 1..Len(s \o r) : (s \o r)[i] = x
    BY <1>1, MembersOf
  <2>2. \A x : x \in ToSet(s) <=> \E i \in 1..Len(s) : s[i] = x
    BY MembersOf
  <2>3. \A x : x \in ToSet(r) <=> \E i \in 1..Len(r) : r[i] = x
    BY MembersOf
  <2>4. \A x : x \in ToSet(s \o r) => x \in ToSet(s) \/ x \in ToSet(r)
    BY <1>2, <1>3, <1>4, <2>1, <2>2, <2>3
  <2>5. \A x : x \in ToSet(s) \/ x \in ToSet(r) => x \in ToSet(s \o r)
    BY <1>2, <1>3, <2>1, <2>2, <2>3
  <2> QED
    BY <2>4, <2>5
<1>6. ASSUME Ascending(s), Ascending(r), Below(ToSet(s), ToSet(r)) PROVE Ascending(s \o r)
  <2> SUFFICES ASSUME NEW i \in 1..Len(s \o r), NEW j \in 1..Len(s \o r), i < j
               PROVE  (s \o r)[i] < (s \o r)[j]
    BY DEF Ascending
  <2>1. CASE i \in 1..Len(s) /\ j \in 1..Len(s)
    BY <1>2, <1>6, <2>1 DEF Ascending
  <2>2. CASE i \in 1..Len(s) /\ j \notin 1..Len(s)
    <3>1. PICK b \in 1..Len(r) : j = b + Len(s)
      BY <1>4, <2>2
    <3>2. s[i] \in ToSet(s) /\ r[b] \in ToSet(r)
      BY <2>2, MembersOf
    <3> QED
      BY <1>2, <1>3, <1>6, <2>2, <3>1, <3>2 DEF Below
  <2>3. CASE i \notin 1..Len(s) /\ j \notin 1..Len(s)
    <3>1. PICK a \in 1..Len(r) : i = a + Len(s)
      BY <1>4, <2>3
    <3>2. PICK b \in 1..Len(r) : j = b + Len(s)
      BY <1>4, <2>3
    <3>3. a < b
      BY <1>1, <3>1, <3>2
    <3> QED
      BY <1>3, <1>6, <3>1, <3>2, <3>3 DEF Ascending
  <2>4. ~ (i \notin 1..Len(s) /\ j \in 1..Len(s))
    BY <1>1
  <2> QED
    BY <2>1, <2>2, <2>3, <2>4
<1>7. ASSUME Rising(s), Ascending(r), Below(ToSet(s), ToSet(r)) \/ ToSet(r) \subseteq ToSet(s)
      PROVE  Rising(s \o r)
  <2> SUFFICES ASSUME NEW j \in 1..Len(s \o r)
               PROVE  \/ \E i \in 1..Len(s \o r) : i < j /\ (s \o r)[i] = (s \o r)[j]
                      \/ \A i \in 1..Len(s \o r) : i < j => (s \o r)[i] < (s \o r)[j]
    BY DEF Rising
  <2>1. CASE j \in 1..Len(s)
    <3>1. \A i \in 1..Len(s \o r) : i < j => i \in 1..Len(s)
      BY <2>1
    <3> QED
      BY <1>2, <1>7, <2>1, <3>1 DEF Rising
  <2>2. CASE j \notin 1..Len(s)
    <3>1. PICK b \in 1..Len(r) : j = b + Len(s)
      BY <1>4, <2>2
    <3>2. (s \o r)[j] = r[b] /\ r[b] \in ToSet(r)
      BY <1>3, <3>1, MembersOf
    <3>3. CASE ToSet(r) \subseteq ToSet(s)
      <4>1. PICK i \in 1..Len(s) : s[i] = r[b]
        BY <3>2, <3>3, MembersOf
      <4>2. i < j
        BY <1>1, <3>1
      <4> QED
        BY <1>2, <3>2, <4>1, <4>2
    <3>4. CASE Below(ToSet(s), ToSet(r))
      <4> SUFFICES ASSUME NEW i \in 1..Len(s \o r), i < j
                   PROVE  (s \o r)[i] < (s \o r)[j]
        OBVIOUS
      <4>1. CASE i \in 1..Len(s)
        BY <1>2, <3>2, <3>4, <4>1, MembersOf DEF Below
      <4>2. CASE i \notin 1..Len(s)
        <5>1. PICK a \in 1..Len(r) : i = a + Len(s)
          BY <1>4, <4>2
        <5>2. a < b
          BY <1>1, <3>1, <5>1
        <5> QED
          BY <1>3, <1>7, <3>2, <5>1, <5>2 DEF Ascending
      <4> QED
        BY <4>1, <4>2
    <3> QED
      BY <1>7, <3>3, <3>4
  <2> QED
    BY <2>1, <2>2
<1> QED
  BY <1>1, <1>5, <1>6, <1>7

-----------------------------------------------------------------------------
(* What the helpers of the search compute.                                 *)

(* The same for a recursion in which each value comes from the one before. *)
Steps(n, V) == [1..n -> [V -> V]]
Taken(n, V, v, F) == \E g \in [0..n -> V] : g[0] = v /\ \A k \in 1..n : g[k] = F[k][g[k - 1]]

(* Such a recursion defines a function.                                    *)
LEMMA Linear ==
  ASSUME NEW n \in Nat, NEW V, NEW v \in V, NEW F \in Steps(n, V)
  PROVE  Taken(n, V, v, F)
<1> DEFINE G == [k \in 0..n |-> [g \in [0..n -> V] |-> IF k = 0 THEN v ELSE F[k][g[k - 1]]]]
<1>1. \A k \in 0..n : k # 0 => k \in 1..n /\ k - 1 \in 0..n /\ k - 1 < k
  OBVIOUS
<1>2. \A k \in 1..n : k \in 0..n /\ k # 0
  OBVIOUS
<1>3. \A k \in 0..n, g \in [0..n -> V] :
         (IF k = 0 THEN v ELSE F[k][g[k - 1]]) \in V
  BY <1>1 DEF Steps
<1>4. G \in Rules(n, V)
  BY <1>3 DEF Rules
<1>5. \A k \in 0..n, g \in [0..n -> V] : G[k][g] = IF k = 0 THEN v ELSE F[k][g[k - 1]]
  OBVIOUS
<1> HIDE DEF G
<1>6. \A k \in 0..n : \A g, h \in [0..n -> V] :
         (\A j \in 0..n : j < k => g[j] = h[j]) => G[k][g] = G[k][h]
  BY <1>1, <1>5
<1>7. Fulfilled(n, V, G)
  BY <1>4, <1>6, Recursion
<1>8. 0 \in 0..n
  OBVIOUS
<1> QED
  BY <1>2, <1>5, <1>7, <1>8 DEF Fulfilled, Taken

(* Among(s, S) has the members of s that are in S, in their order.         *)
LEMMA AmongIs ==
  ASSUME NEW s \in Seq(Nat), NEW S
  PROVE  /\ Among(s, S) \in Seq(Nat)
         /\ ToSet(Among(s, S)) = ToSet(s) \cap S
         /\ Ascending(s) => Ascending(Among(s, S))
<1> DEFINE n == Len(s)
           Step(g, i) == IF i = 0 THEN <<>>
                         ELSE IF s[i] \in S THEN Append(g[i - 1], s[i]) ELSE g[i - 1]
           f == CHOOSE g : g = [i \in 0..n |-> Step(g, i)]
<1>1. n \in Nat /\ \A i \in 1..n : s[i] \in Nat
  BY LenProperties, ElementOfSeq
<1>2. \E g \in [0..n -> Seq(Nat)] : \A i \in 0..n : g[i] = Step(g, i)
  <2> DEFINE F == [i \in 1..n |-> [q \in Seq(Nat) |-> IF s[i] \in S THEN Append(q, s[i]) ELSE q]]
  <2>1. \A i \in 1..n, q \in Seq(Nat) : Append(q, s[i]) \in Seq(Nat)
    BY <1>1, AppendIs
  <2>2. F \in Steps(n, Seq(Nat))
    BY <2>1 DEF Steps
  <2>3. \A i \in 1..n, q \in Seq(Nat) : F[i][q] = IF s[i] \in S THEN Append(q, s[i]) ELSE q
    OBVIOUS
  <2>4. <<>> \in Seq(Nat)
    OBVIOUS
  <2> HIDE DEF F, n
  <2>5. Taken(n, Seq(Nat), <<>>, F)
    BY <1>1, <2>2, <2>4, Linear
  <2>6. PICK g \in [0..n -> Seq(Nat)] : g[0] = <<>> /\ \A i \in 1..n : g[i] = F[i][g[i - 1]]
    BY <2>5 DEF Taken
  <2>7. \A i \in 0..n : i # 0 => i \in 1..n /\ i - 1 \in 0..n
    BY <1>1
  <2>8. \A i \in 0..n : i # 0 => g[i - 1] \in Seq(Nat) /\ g[i] = F[i][g[i - 1]]
    BY <2>7, <2>6
  <2>9. \A i \in 0..n : g[i] = Step(g, i)
    BY <2>3, <2>7, <2>8, <2>6
  <2> QED
    BY <2>9
<1>3. f = [i \in 0..n |-> Step(f, i)]
  <2> HIDE DEF Step, n
  <2>1. \A g \in [0..n -> Seq(Nat)] :
           (\A i \in 0..n : g[i] = Step(g, i)) => g = [i \in 0..n |-> Step(g, i)]
    OBVIOUS
  <2> QED
    BY <1>2, <2>1
<1>4. Among(s, S) = f[n]
  BY DEF Among
<1> HIDE DEF f
<1>5. /\ f[0] = <<>>
      /\ \A k \in Nat : k < n => f[k + 1] = IF s[k + 1] \in S THEN Append(f[k], s[k + 1]) ELSE f[k]
  <2>1. \A i \in 0..n : f[i] = Step(f, i)
    BY <1>3
  <2>2. \A k \in Nat : k < n => k + 1 \in 0..n /\ k + 1 # 0 /\ (k + 1) - 1 = k
    BY <1>1
  <2>3. 0 \in 0..n
    BY <1>1
  <2> HIDE DEF n
  <2> QED
    BY <2>1, <2>2, <2>3
<1> HIDE DEF Step
<1> DEFINE Good(k) == /\ f[k] \in Seq(Nat)
                      /\ \A x : x \in ToSet(f[k]) <=> x \in S /\ \E i \in 1..k : s[i] = x
                      /\ Ascending(s) => Ascending(f[k])
           U == {k \in Nat : k <= n => Good(k)}
<1>6. 0 \in U
  <2>1. f[0] \in Seq(Nat) /\ Len(f[0]) = 0 /\ Ascending(f[0])
    BY <1>5 DEF Ascending
  <2>2. \A x : x \notin ToSet(f[0])
    BY <2>1, MembersOf
  <2> QED
    BY <2>1, <2>2
<1>7. ASSUME NEW k \in Nat, k \in U PROVE k + 1 \in U
  <2> SUFFICES ASSUME k + 1 <= n PROVE Good(k + 1)
    OBVIOUS
  <2>1. k < n /\ k <= n /\ k + 1 \in 1..n /\ s[k + 1] \in Nat
    BY <1>1
  <2>2. Good(k)
    BY <1>7, <2>1
  <2>3. \A i : i \in 1..k + 1 <=> i \in 1..k \/ i = k + 1
    OBVIOUS
  <2>4. CASE s[k + 1] \notin S
    <3>1. f[k + 1] = f[k]
      BY <1>5, <2>1, <2>4
    <3> QED
      BY <2>2, <2>3, <2>4, <3>1
  <2>5. CASE s[k + 1] \in S
    <3>1. f[k + 1] = Append(f[k], s[k + 1])
      BY <1>5, <2>1, <2>5
    <3>2. Ascending(s) => Below(ToSet(f[k]), {s[k + 1]})
      <4>1. \A i \in 1..k : i < k + 1 /\ i \in 1..Len(s)
        BY <2>1
      <4> QED
        BY <2>1, <2>2, <4>1 DEF Ascending, Below
    <3>3. /\ Append(f[k], s[k + 1]) \in Seq(Nat)
          /\ ToSet(Append(f[k], s[k + 1])) = ToSet(f[k]) \cup {s[k + 1]}
          /\ Ascending(s) => Ascending(Append(f[k], s[k + 1]))
      BY <2>1, <2>2, <3>2, AppendIs
    <3> QED
      BY <2>2, <2>3, <2>5, <3>1, <3>3
  <2> QED
    BY <2>4, <2>5
<1>8. Good(n)
  <2>1. n \in U
    <3> HIDE DEF U, n
    <3> QED
      BY <1>1, <1>6, <1>7, Counting
  <2> QED
    BY <1>1, <2>1
<1>9. \A x : x \in ToSet(s) <=> \E i \in 1..n : s[i] = x
  BY MembersOf
<1> QED
  BY <1>4, <1>8, <1>9

(* Once(s) has the members of s; if those that are new are always greater  *)
(* than the others, it is ascending.                                       *)
LEMMA OnceIs ==
  ASSUME NEW s \in Seq(Nat)
  PROVE  /\ Once(s) \in Seq(Nat)
         /\ ToSet(Once(s)) = ToSet(s)
         /\ Rising(s) => Ascending(Once(s))
<1> DEFINE n == Len(s)
           Step(g, i) == IF i = 0 THEN <<>>
                         ELSE IF s[i] \in ToSet(g[i - 1]) THEN g[i - 1]
                         ELSE Append(g[i - 1], s[i])
           f == CHOOSE g : g = [i \in 0..n |-> Step(g, i)]
<1>1. n \in Nat /\ \A i \in 1..n : s[i] \in Nat
  BY LenProperties, ElementOfSeq
<1>2. \E g \in [0..n -> Seq(Nat)] : \A i \in 0..n : g[i] = Step(g, i)
  <2> DEFINE F == [i \in 1..n |-> [q \in Seq(Nat) |->
                          IF s[i] \in ToSet(q) THEN q ELSE Append(q, s[i])]]
  <2>1. \A i \in 1..n, q \in Seq(Nat) : Append(q, s[i]) \in Seq(Nat)
    BY <1>1, AppendIs
  <2>2. F \in Steps(n, Seq(Nat))
    BY <2>1 DEF Steps
  <2>3. \A i \in 1..n, q \in Seq(Nat) : F[i][q] = IF s[i] \in ToSet(q) THEN q ELSE Append(q, s[i])
    OBVIOUS
  <2>4. <<>> \in Seq(Nat)
    OBVIOUS
  <2> HIDE DEF F, n
  <2>5. Taken(n, Seq(Nat), <<>>, F)
    BY <1>1, <2>2, <2>4, Linear
  <2>6. PICK g \in [0..n -> Seq(Nat)] : g[0] = <<>> /\ \A i \in 1..n : g[i] = F[i][g[i - 1]]
    BY <2>5 DEF Taken
  <2>7. \A i \in 0..n : i # 0 => i \in 1..n /\ i - 1 \in 0..n
    BY <1>1
  <2>8. \A i \in 0..n : i # 0 => g[i - 1] \in Seq(Nat) /\ g[i] = F[i][g[i - 1]]
    BY <2>7, <2>6
  <2>9. \A i \in 0..n : g[i] = Step(g, i)
    BY <2>3, <2>7, <2>8, <2>6
  <2> QED
    BY <2>9
<1>3. f = [i \in 0..n |-> Step(f, i)]
  <2> HIDE DEF Step, n
  <2>1. \A g \in [0..n -> Seq(Nat)] :
           (\A i \in 0..n : g[i] = Step(g, i)) => g = [i \in 0..n |-> Step(g, i)]
    OBVIOUS
  <2> QED
    BY <1>2, <2>1
<1>4. Once(s) = f[n]
  BY DEF Once
<1> HIDE DEF f
<1>5. /\ f[0] = <<>>
      /\ \A k \in Nat : k < n =>
            f[k + 1] = IF s[k + 1] \in ToSet(f[k]) THEN f[k] ELSE Append(f[k], s[k + 1])
  <2>1. \A i \in 0..n : f[i] = Step(f, i)
    BY <1>3
  <2>2. \A k \in Nat : k < n => k + 1 \in 0..n /\ k + 1 # 0 /\ (k + 1) - 1 = k
    BY <1>1
  <2>3. 0 \in 0..n
    BY <1>1
  <2> HIDE DEF n
  <2> QED
    BY <2>1, <2>2, <2>3
<1> HIDE DEF Step
<1> DEFINE Good(k) == /\ f[k] \in Seq(Nat)
                      /\ \A x : x \in ToSet(f[k]) <=> \E i \in 1..k : s[i] = x
                      /\ Rising(s) => Ascending(f[k])
           U == {k \in Nat : k <= n => Good(k)}
<1>6. 0 \in U
  <2>1. f[0] \in Seq(Nat) /\ Len(f[0]) = 0 /\ Ascending(f[0])
    BY <1>5 DEF Ascending
  <2>2. \A x : x \notin ToSet(f[0])
    BY <2>1, MembersOf
  <2> QED
    BY <2>1, <2>2
<1>7. ASSUME NEW k \in Nat, k \in U PROVE k + 1 \in U
  <2> SUFFICES ASSUME k + 1 <= n PROVE Good(k + 1)
    OBVIOUS
  <2>1. k < n /\ k <= n /\ k + 1 \in 1..n /\ s[k + 1] \in Nat
    BY <1>1
  <2>2. Good(k)
    BY <1>7, <2>1
  <2>3. \A i : i \in 1..k + 1 <=> i \in 1..k \/ i = k + 1
    OBVIOUS
  <2>4. CASE s[k + 1] \in ToSet(f[k])
    <3>1. f[k + 1] = f[k]
      BY <1>5, <2>1, <2>4
    <3> QED
      BY <2>2, <2>3, <2>4, <3>1
  <2>5. CASE s[k + 1] \notin ToSet(f[k])
    <3>1. f[k + 1] = Append(f[k], s[k + 1])
      BY <1>5, <2>1, <2>5
    <3>2. Rising(s) => Below(ToSet(f[k]), {s[k + 1]})
      <4>1. \A i \in 1..Len(s) : i < k + 1 <=> i \in 1..k
        OBVIOUS
      <4>2. \A i \in 1..k : i \in 1..Len(s)
        BY <2>1
      <4>3. \A i \in 1..k : s[i] # s[k + 1]
        BY <2>2, <2>5
      <4>4. Rising(s) => \A i \in 1..k : s[i] < s[k + 1]
        BY <2>1, <4>1, <4>2, <4>3 DEF Rising
      <4> QED
        BY <2>2, <4>4 DEF Below
    <3>3. /\ Append(f[k], s[k + 1]) \in Seq(Nat)
          /\ ToSet(Append(f[k], s[k + 1])) = ToSet(f[k]) \cup {s[k + 1]}
          /\ Rising(s) => Ascending(Append(f[k], s[k + 1]))
      BY <2>1, <2>2, <3>2, AppendIs
    <3> QED
      BY <2>2, <2>3, <3>1, <3>3
  <2> QED
    BY <2>4, <2>5
<1>8. Good(n)
  <2>1. n \in U
    <3> HIDE DEF U, n
    <3> QED
      BY <1>1, <1>6, <1>7, Counting
  <2> QED
    BY <1>1, <2>1
<1>9. \A x : x \in ToSet(s) <=> \E i \in 1..n : s[i] = x
  BY MembersOf
<1> QED
  BY <1>4, <1>8, <1>9

(* Sequences that follow one another, or of which each either follows all  *)
(* before it or repeats what one of those has.                             *)
Follows(ss, k) == \A j \in 1..Len(ss) : j < k => Below(ToSet(ss[j]), ToSet(ss[k]))
Repeats(ss, k) == \E j \in 1..Len(ss) : j < k /\ ToSet(ss[k]) \subseteq ToSet(ss[j])

(* FlattenSeq joins ascending sequences into one with their members: an    *)
(* ascending one if each follows those before it, a rising one if some     *)
(* only repeat.                                                            *)
LEMMA FlattenIs ==
  ASSUME NEW ss \in Seq(Seq(Nat))
  PROVE  /\ FlattenSeq(ss) \in Seq(Nat)
         /\ \A x : x \in ToSet(FlattenSeq(ss)) <=> \E k \in 1..Len(ss) : x \in ToSet(ss[k])
         /\ (\A k \in 1..Len(ss) : Ascending(ss[k]) /\ Follows(ss, k)) => Ascending(FlattenSeq(ss))
         /\ (\A k \in 1..Len(ss) : Ascending(ss[k]) /\ (Follows(ss, k) \/ Repeats(ss, k)))
               => Rising(FlattenSeq(ss))
<1> DEFINE n == Len(ss)
           Step(g, i) == IF i = 1 THEN ss[i] ELSE g[i - 1] \o ss[i]
           f == CHOOSE g : g = [i \in 1..n |-> Step(g, i)]
<1>1. n \in Nat /\ \A i \in 1..n : ss[i] \in Seq(Nat)
  BY LenProperties, ElementOfSeq
<1>2. \A k \in Nat : \A i : i \in 1..k + 1 <=> i \in 1..k \/ i = k + 1
  OBVIOUS
<1>3. CASE n = 0
  <2>1. FlattenSeq(ss) = ss /\ ss = <<>>
    BY <1>3, EmptySeq DEF FlattenSeq
  <2>2. ss \in Seq(Nat) /\ Len(ss) = 0
    BY <2>1, <1>3
  <2>3. \A x : x \in ToSet(ss) <=> \E i \in 1..Len(ss) : ss[i] = x
    BY <2>2, MembersOf
  <2>4. \A x : x \notin ToSet(ss)
    BY <2>2, <2>3
  <2> QED
    BY <1>3, <2>1, <2>2, <2>4 DEF Ascending, Rising
<1>4. CASE n # 0
  <2>1. FlattenSeq(ss) = f[n]
    BY <1>4 DEF FlattenSeq
  <2>2. \E g : g = [i \in 1..n |-> Step(g, i)]
    <3> DEFINE F == [i \in 1..n |-> [q \in Seq(Nat) |-> IF i = 1 THEN ss[i] ELSE q \o ss[i]]]
    <3>1. \A i \in 1..n, q \in Seq(Nat) : q \o ss[i] \in Seq(Nat)
      BY <1>1, ConcatIs
    <3>2. F \in Steps(n, Seq(Nat))
      BY <1>1, <3>1 DEF Steps
    <3>3. \A i \in 1..n, q \in Seq(Nat) : F[i][q] = IF i = 1 THEN ss[i] ELSE q \o ss[i]
      OBVIOUS
    <3>4. <<>> \in Seq(Nat)
      OBVIOUS
    <3> HIDE DEF F, n
    <3>5. Taken(n, Seq(Nat), <<>>, F)
      BY <1>1, <3>2, <3>4, Linear
    <3>6. PICK g \in [0..n -> Seq(Nat)] : \A i \in 1..n : g[i] = F[i][g[i - 1]]
      BY <3>5 DEF Taken
    <3> DEFINE h == [i \in 1..n |-> g[i]]
    <3>7. \A i \in 1..n : i - 1 \in 0..n /\ i \in 0..n /\ (i # 1 => i - 1 \in 1..n)
      BY <1>1
    <3>8. \A i \in 1..n : g[i - 1] \in Seq(Nat) /\ h[i] = F[i][g[i - 1]]
      BY <3>6, <3>7
    <3>9. \A i \in 1..n : h[i] = IF i = 1 THEN ss[i] ELSE g[i - 1] \o ss[i]
      BY <3>3, <3>8
    <3>10. \A i \in 1..n : i # 1 => h[i - 1] = g[i - 1]
      BY <3>7
    <3>11. h = [i \in 1..n |-> h[i]]
      OBVIOUS
    <3> HIDE DEF h
    <3>12. \A i \in 1..n : h[i] = Step(h, i)
      BY <3>9, <3>10
    <3>13. h = [i \in 1..n |-> Step(h, i)]
      <4> HIDE DEF Step
      <4> QED
        BY <3>11, <3>12
    <3> QED
      BY <3>13
  <2>3. f = [i \in 1..n |-> Step(f, i)]
    <3> HIDE DEF Step, n
    <3> QED
      BY <2>2
  <2> HIDE DEF f
  <2>4. /\ f[1] = ss[1]
        /\ \A k \in Nat : k # 0 /\ k < n => f[k + 1] = f[k] \o ss[k + 1]
    <3>1. \A i \in 1..n : f[i] = Step(f, i)
      BY <2>3
    <3>2. \A k \in Nat : k # 0 /\ k < n => k + 1 \in 1..n /\ k + 1 # 1 /\ (k + 1) - 1 = k
      BY <1>1
    <3>3. 1 \in 1..n
      BY <1>1, <1>4
    <3> HIDE DEF n
    <3> QED
      BY <3>1, <3>2, <3>3
  <2> HIDE DEF Step
  <2> DEFINE Order == \A k \in 1..Len(ss) : Ascending(ss[k]) /\ Follows(ss, k)
             Nest == \A k \in 1..Len(ss) : Ascending(ss[k]) /\ (Follows(ss, k) \/ Repeats(ss, k))
             Good(k) == /\ f[k] \in Seq(Nat)
                        /\ \A x : x \in ToSet(f[k]) <=> \E i \in 1..k : x \in ToSet(ss[i])
                        /\ Order => Ascending(f[k])
                        /\ Nest => Rising(f[k])
             U == {k \in Nat : k # 0 /\ k <= n => Good(k)}
  <2>5. 0 \in U
    OBVIOUS
  <2>6. ASSUME NEW k \in Nat, k \in U PROVE k + 1 \in U
    <3> SUFFICES ASSUME k + 1 <= n PROVE Good(k + 1)
      OBVIOUS
    <3>1. k < n /\ k <= n /\ k + 1 \in 1..n /\ ss[k + 1] \in Seq(Nat)
      BY <1>1
    <3>2. \A i : i \in 1..k + 1 <=> i \in 1..k \/ i = k + 1
      BY <1>2
    <3>3. CASE k = 0
      <4>1. f[k + 1] = ss[k + 1] /\ 1..k = {}
        BY <2>4, <3>3
      <4>2. Ascending(ss[k + 1]) => Rising(ss[k + 1])
        BY DEF Ascending, Rising
      <4>3. f[k + 1] \in Seq(Nat) /\ (Order => Ascending(f[k + 1])) /\ (Nest => Rising(f[k + 1]))
        BY <3>1, <4>1, <4>2
      <4>4. \A x : x \in ToSet(f[k + 1]) <=> \E i \in 1..k + 1 : x \in ToSet(ss[i])
        <5>1. \A i : i \in 1..k + 1 <=> i = k + 1
          BY <3>2, <4>1
        <5>2. \A x : (\E i \in 1..k + 1 : x \in ToSet(ss[i])) <=> x \in ToSet(ss[k + 1])
          BY <5>1, Zenon
        <5> QED
          BY <4>1, <5>2
      <4> QED
        BY <4>3, <4>4
    <3>4. CASE k # 0
      <4>1. f[k + 1] = f[k] \o ss[k + 1]
        BY <2>4, <3>1, <3>4
      <4>2. Good(k)
        BY <2>6, <3>1, <3>4
      <4>3. \A i \in 1..Len(ss) : i < k + 1 <=> i \in 1..k
        OBVIOUS
      <4>4. \A i \in 1..k : i \in 1..Len(ss)
        BY <3>1
      <4>5. Follows(ss, k + 1) => Below(ToSet(f[k]), ToSet(ss[k + 1]))
        BY <4>2, <4>3, <4>4 DEF Follows, Below
      <4>6. Repeats(ss, k + 1) => ToSet(ss[k + 1]) \subseteq ToSet(f[k])
        BY <4>2, <4>3 DEF Repeats
      <4>7. /\ f[k] \o ss[k + 1] \in Seq(Nat)
            /\ ToSet(f[k] \o ss[k + 1]) = ToSet(f[k]) \cup ToSet(ss[k + 1])
            /\ Order => Ascending(f[k] \o ss[k + 1])
            /\ Nest => Rising(f[k] \o ss[k + 1])
        BY <3>1, <4>2, <4>5, <4>6, ConcatIs
      <4> QED
        BY <3>2, <4>1, <4>2, <4>7
    <3> QED
      BY <3>3, <3>4
  <2>7. Good(n)
    <3>1. n \in U
      <4> HIDE DEF U, n
      <4> QED
        BY <1>1, <2>5, <2>6, Counting
    <3> QED
      BY <1>1, <1>4, <3>1
  <2> QED
    BY <2>1, <2>7
<1> QED
  BY <1>3, <1>4

(* In an ascending sequence k - 1 members are smaller than the k-th.       *)
LEMMA Rank ==
  ASSUME NEW s \in Seq(Nat), Ascending(s), NEW k \in 1..Len(s)
  PROVE  Cardinality({y \in ToSet(s) : y < s[k]}) = k - 1
<1> DEFINE Y == {y \in ToSet(s) : y < s[k]}
           f == [i \in 1..k - 1 |-> s[i]]
<1>1. Len(s) \in Nat /\ \A i \in 1..Len(s) : s[i] \in Nat /\ s[i] \in ToSet(s)
  BY LenProperties, ElementOfSeq, MembersOf
<1>2. \A i \in 1..k - 1 : i \in 1..Len(s) /\ i < k
  BY <1>1
<1>3. \A i \in 1..Len(s) : s[i] < s[k] => i \in 1..k - 1
  <2> SUFFICES ASSUME NEW i \in 1..Len(s), i \notin 1..k - 1 PROVE ~ (s[i] < s[k])
    OBVIOUS
  <2>1. i = k \/ k < i
    BY <1>1
  <2>2. s[i] = s[k] \/ s[k] < s[i]
    BY <2>1 DEF Ascending
  <2> QED
    BY <1>1, <2>2
<1>4. f \in [1..k - 1 -> Y]
  BY <1>1, <1>2 DEF Ascending
<1>5. \A i, j \in 1..k - 1 : f[i] = f[j] => i = j
  <2> SUFFICES ASSUME NEW i \in 1..k - 1, NEW j \in 1..k - 1, i # j PROVE s[i] # s[j]
    OBVIOUS
  <2>1. i < j \/ j < i
    OBVIOUS
  <2>2. s[i] < s[j] \/ s[j] < s[i]
    BY <1>2, <2>1 DEF Ascending
  <2> QED
    BY <1>1, <1>2, <2>2
<1>6. \A y \in Y : \E i \in 1..k - 1 : f[i] = y
  <2> SUFFICES ASSUME NEW y \in Y PROVE \E i \in 1..k - 1 : s[i] = y
    OBVIOUS
  <2>1. PICK i \in 1..Len(s) : s[i] = y
    BY MembersOf
  <2> QED
    BY <1>3, <2>1
<1>7. ExistsBijection(1..k - 1, Y)
  <2> HIDE DEF f, Y
  <2>1. f \in Injection(1..k - 1, Y)
    BY <1>4, <1>5 DEF Injection, IsInjective
  <2>2. f \in Surjection(1..k - 1, Y)
    BY <1>4, <1>6 DEF Surjection
  <2> QED
    BY <2>1, <2>2 DEF ExistsBijection, Bijection
<1>8. IsFiniteSet(1..k - 1) /\ Cardinality(1..k - 1) = k - 1
  BY FS_Interval
<1> QED
  BY <1>7, <1>8, FS_Bijection

(* What an index leaves of the matches, told by how many come before.      *)
Picked(S, index) ==
    IF index = Absent THEN S
    ELSE {y \in S : Cardinality({z \in S : z < y}) = index}

(* The index of a criterion counts the matches in pre-order.               *)
LEMMA PickIs ==
  ASSUME NEW s \in Seq(Nat), Ascending(s), NEW index \in Nat \cup {Absent}
  PROVE  /\ Pick(s, index) \in Seq(Nat) /\ Ascending(Pick(s, index))
         /\ ToSet(Pick(s, index)) = Picked(ToSet(s), index)
<1>1. CASE index = Absent
  BY <1>1 DEF Pick, Picked
<1>2. CASE index # Absent
  <2>1. index \in Nat /\ Len(s) \in Nat
    BY <1>2, MembersOf
  <2>2. \A y \in ToSet(s) : Cardinality({z \in ToSet(s) : z < y}) = index <=>
                               index < Len(s) /\ y = s[index + 1]
    <3> SUFFICES ASSUME NEW y \in ToSet(s)
                 PROVE  Cardinality({z \in ToSet(s) : z < y}) = index <=>
                               index < Len(s) /\ y = s[index + 1]
      OBVIOUS
    <3>1. PICK k \in 1..Len(s) : s[k] = y
      BY MembersOf
    <3>2. Cardinality({z \in ToSet(s) : z < y}) = k - 1
      BY <3>1, Rank
    <3>3. k - 1 = index <=> k = index + 1
      BY <2>1
    <3>4. index < Len(s) /\ y = s[index + 1] => k = index + 1
      <4> SUFFICES ASSUME index < Len(s), s[k] = s[index + 1] PROVE k = index + 1
        BY <3>1
      <4>1. index + 1 \in 1..Len(s)
        BY <2>1
      <4>2. s[k] \in Nat /\ s[index + 1] \in Nat
        BY <4>1, ElementOfSeq
      <4>3. ~ (k < index + 1) /\ ~ (index + 1 < k)
        BY <4>1, <4>2 DEF Ascending
      <4> QED
        BY <2>1, <4>3
    <3>5. k = index + 1 => index < Len(s) /\ y = s[index + 1]
      BY <2>1, <3>1
    <3> QED
      BY <3>2, <3>3, <3>4, <3>5
  <2>3. CASE index < Len(s)
    <3>1. index + 1 \in 1..Len(s) /\ s[index + 1] \in Nat /\ s[index + 1] \in ToSet(s)
      BY <2>1, <2>3, ElementOfSeq, MembersOf
    <3>2. Pick(s, index) = <<s[index + 1]>>
      BY <1>2, <2>3 DEF Pick
    <3>3. /\ <<s[index + 1]>> \in Seq(Nat) /\ Ascending(<<s[index + 1]>>)
          /\ ToSet(<<s[index + 1]>>) = {s[index + 1]}
      BY <3>1, OneIs
    <3>4. {s[index + 1]} = Picked(ToSet(s), index)
      BY <1>2, <2>2, <2>3, <3>1 DEF Picked
    <3> QED
      BY <3>2, <3>3, <3>4
  <2>4. CASE ~ (index < Len(s))
    <3>1. Pick(s, index) = <<>>
      BY <1>2, <2>4 DEF Pick
    <3>2. <<>> \in Seq(Nat) /\ Len(<<>>) = 0 /\ Ascending(<<>>)
      BY EmptySeq DEF Ascending
    <3>3. \A y : y \in ToSet(<<>>) <=> \E i \in 1..Len(<<>>) : <<>>[i] = y
      BY <3>2, MembersOf
    <3>4. \A y : y \notin ToSet(<<>>)
      BY <3>2, <3>3
    <3>5. Picked(ToSet(s), index) = {}
      BY <1>2, <2>2, <2>4 DEF Picked
    <3> QED
      BY <3>1, <3>2, <3>4, <3>5
  <2> QED
    BY <2>3, <2>4
<1> QED
  BY <1>1, <1>2

-----------------------------------------------------------------------------
(* Trees.                                                                  *)

(* i is below m: from m + 1 up to i, nobody's parent is before m.          *)
Under(p, i, m) == m < i /\ \A j \in 1..i : m < j => m <= p[j]

(* The tree t has n nodes, numbered in pre-order, with the parents p.      *)
IsTree(t, n, p) ==
    /\ n \in Nat \ {0} /\ p \in Parentings(n)
    /\ Nodes(t) = 0..n - 1
    /\ \A m \in 0..n - 1 : /\ t.children[m] \in Seq(Nat) /\ Ascending(t.children[m])
                           /\ ToSet(t.children[m]) = {i \in 1..n - 1 : p[i] = m}

(* A node is below m if its parent is m or below m.                        *)
LEMMA UnderParent ==
  ASSUME NEW n \in Nat \ {0}, NEW p \in Parentings(n), NEW i \in 1..n - 1, NEW m \in 0..n - 1
  PROVE  /\ p[i] \in 0..n - 1 /\ p[i] < i
         /\ Under(p, i, m) <=> p[i] = m \/ Under(p, p[i], m)
<1>1. /\ \A j \in 1..n - 1 : p[j] \in 0..n - 1 /\ p[j] < j
      /\ \A j \in (p[i] + 1)..(i - 1) : p[j] >= p[i]
  BY DEF Parentings
<1>2. \A j \in 1..i : /\ j \in 1..n - 1 /\ p[j] \in Nat
                      /\ (j = i \/ j \in (p[i] + 1)..(i - 1) \/ j \in 1..p[i])
  BY <1>1
<1>3. \A j \in 1..p[i] : j \in 1..i
  BY <1>1
<1>4. ASSUME Under(p, i, m) PROVE p[i] = m \/ Under(p, p[i], m)
  <2>1. m <= p[i]
    BY <1>2, <1>4 DEF Under
  <2>2. \A j \in 1..p[i] : m < j => m <= p[j]
    BY <1>3, <1>4 DEF Under
  <2> QED
    BY <1>1, <2>1, <2>2 DEF Under
<1>5. ASSUME p[i] = m \/ Under(p, p[i], m) PROVE Under(p, i, m)
  <2>1. m <= p[i] /\ m < i
    BY <1>1, <1>5 DEF Under
  <2>2. ASSUME NEW j \in 1..i, m < j PROVE m <= p[j]
    <3>1. CASE j = i
      BY <2>1, <3>1
    <3>2. CASE j \in (p[i] + 1)..(i - 1)
      BY <1>1, <1>2, <2>1, <3>2
    <3>3. CASE j \in 1..p[i]
      BY <1>5, <2>2, <3>3, <1>1 DEF Under
    <3> QED
      BY <1>2, <3>1, <3>2, <3>3
  <2> QED
    BY <2>1, <2>2 DEF Under
<1> QED
  BY <1>1, <1>4, <1>5

(* A dump is such a tree.                                                  *)
LEMMA DumpIs ==
  ASSUME NEW n \in Nat \ {0}, NEW p \in Parentings(n), NEW V, NEW label \in [0..n - 1 -> V]
  PROVE  IsTree(Dump(n, p, label), n, p)
<1> DEFINE t == Dump(n, p, label)
           all == [i \in 1..n - 1 |-> i]
<1>1. all \in Seq(Nat) /\ Len(all) = n - 1 /\ \A i \in 1..n - 1 : all[i] = i
  OBVIOUS
<1>2. Nodes(t) = 0..n - 1
  BY DEF Nodes, Dump
<1>3. \A m \in 0..n - 1 : t.children[m] = Among(all, {i \in 1..n - 1 : p[i] = m})
  BY DEF Dump
<1> HIDE DEF t, all
<1>4. Ascending(all) /\ \A i : i \in ToSet(all) <=> i \in 1..n - 1
  <2>1. \A i : i \in ToSet(all) <=> \E k \in 1..Len(all) : all[k] = i
    BY <1>1, MembersOf
  <2> QED
    BY <1>1, <2>1 DEF Ascending
<1>5. ASSUME NEW m \in 0..n - 1
      PROVE  /\ t.children[m] \in Seq(Nat) /\ Ascending(t.children[m])
             /\ ToSet(t.children[m]) = {i \in 1..n - 1 : p[i] = m}
  <2> DEFINE S == {i \in 1..n - 1 : p[i] = m}
  <2>1. ToSet(all) \cap S = S
    BY <1>4
  <2> HIDE DEF S
  <2>2. /\ Among(all, S) \in Seq(Nat) /\ Ascending(Among(all, S))
        /\ ToSet(Among(all, S)) = S
    BY <1>1, <1>4, <2>1, AmongIs
  <2>3. t.children[m] = Among(all, S)
    BY <1>3 DEF S
  <2> QED
    BY <2>2, <2>3 DEF S
<1> QED
  BY <1>2, <1>5 DEF IsTree, t

(* link_parents finds each node's parent.                                  *)
LEMMA LinkIs ==
  ASSUME NEW t, NEW n, NEW p, IsTree(t, n, p), NEW i \in 0..n - 1
  PROVE  /\ i = 0 => Link(t)[i] = Absent
         /\ i # 0 => Link(t)[i] = p[i]
<1>1. /\ n \in Nat \ {0} /\ p \in [1..n - 1 -> 0..n - 1] /\ Nodes(t) = 0..n - 1
      /\ \A m \in 0..n - 1 : ToSet(t.children[m]) = {j \in 1..n - 1 : p[j] = m}
  BY DEF IsTree, Parentings
<1>2. \A m : m \in Holders(t, i) <=> m \in 0..n - 1 /\ i \in 1..n - 1 /\ p[i] = m
  BY <1>1 DEF Holders
<1>3. Link(t)[i] = IF Holders(t, i) = {} THEN Absent ELSE CHOOSE m \in Holders(t, i) : TRUE
  BY <1>1 DEF Link
<1>4. CASE i = 0
  <2>1. Holders(t, i) = {}
    BY <1>2, <1>4
  <2> QED
    BY <1>3, <1>4, <2>1
<1>5. CASE i # 0
  <2>1. i \in 1..n - 1 /\ p[i] \in 0..n - 1
    BY <1>1, <1>5
  <2>2. Holders(t, i) = {p[i]}
    BY <1>2, <2>1
  <2> QED
    BY <1>3, <1>5, <2>2
<1> QED
  BY <1>4, <1>5

(* The ancestors of a node are those it is below.                          *)
LEMMA AncestorsAre ==
  ASSUME NEW t, NEW n, NEW p, IsTree(t, n, p)
  PROVE  \A i, m \in 0..n - 1 : m \in ToSet(Ancestors(t)[i]) <=> Under(p, i, m)
<1> DEFINE N == n - 1
           Step(g, i) == IF Link(t)[i] = Absent THEN <<>> ELSE <<Link(t)[i]>> \o g[Link(t)[i]]
           f == CHOOSE g : g = [i \in Nodes(t) |-> Step(g, i)]
<1>1. /\ n \in Nat \ {0} /\ N \in Nat /\ p \in Parentings(n) /\ Nodes(t) = 0..N
      /\ \A i \in 0..N : i # 0 => i \in 1..n - 1
  BY DEF IsTree
<1>2. \A i \in 1..N : p[i] \in 0..N /\ p[i] < i /\ <<p[i]>> \in Seq(Nat)
  BY <1>1 DEF Parentings
<1>3. \A i \in 0..N : \/ i = 0 /\ Link(t)[i] = Absent
                      \/ i \in 1..N /\ Link(t)[i] = p[i] /\ Link(t)[i] # Absent
  <2>1. \A i \in 1..N : p[i] # Absent
    BY <1>2, TreeAssumption
  <2>2. \A i \in 0..N : (i = 0 => Link(t)[i] = Absent) /\ (i # 0 => Link(t)[i] = p[i])
    BY LinkIs
  <2> QED
    BY <1>1, <2>1, <2>2
<1> HIDE DEF N
<1>4. \E g : g = [i \in Nodes(t) |-> Step(g, i)]
  <2> DEFINE F == [i \in 0..N |-> [g \in [0..N -> Seq(Nat)] |->
                      IF i = 0 THEN <<>> ELSE <<p[i]>> \o g[p[i]]]]
  <2>1. \A i \in 0..N, g \in [0..N -> Seq(Nat)] :
           (IF i = 0 THEN <<>> ELSE <<p[i]>> \o g[p[i]]) \in Seq(Nat)
    <3> SUFFICES ASSUME NEW i \in 0..N, NEW g \in [0..N -> Seq(Nat)], i # 0
                 PROVE  <<p[i]>> \o g[p[i]] \in Seq(Nat)
      BY EmptySeq
    <3>1. <<p[i]>> \in Seq(Nat) /\ g[p[i]] \in Seq(Nat)
      BY <1>2, <1>3
    <3> QED
      BY <3>1, ConcatIs
  <2>2. F \in Rules(N, Seq(Nat))
    BY <2>1 DEF Rules
  <2>3. \A i \in 0..N, g \in [0..N -> Seq(Nat)] :
           F[i][g] = IF i = 0 THEN <<>> ELSE <<p[i]>> \o g[p[i]]
    OBVIOUS
  <2> HIDE DEF F
  <2>4. \A k \in 0..N : \A g, h \in [0..N -> Seq(Nat)] :
           (\A j \in 0..N : j < k => g[j] = h[j]) => F[k][g] = F[k][h]
    <3> SUFFICES ASSUME NEW k \in 0..N, NEW g \in [0..N -> Seq(Nat)],
                        NEW h \in [0..N -> Seq(Nat)], \A j \in 0..N : j < k => g[j] = h[j]
                 PROVE  F[k][g] = F[k][h]
      OBVIOUS
    <3>1. CASE k = 0
      BY <2>3, <3>1
    <3>2. CASE k # 0
      <4>1. p[k] \in 0..N /\ p[k] < k
        BY <1>2, <1>3, <3>2
      <4>2. g[p[k]] = h[p[k]]
        BY <4>1
      <4> QED
        BY <2>3, <3>2, <4>2
    <3> QED
      BY <3>1, <3>2
  <2>5. <<>> \in Seq(Nat)
    BY EmptySeq
  <2>6. Fulfilled(N, Seq(Nat), F)
    BY <1>1, <2>2, <2>4, <2>5, Recursion
  <2>7. PICK g \in [0..N -> Seq(Nat)] : \A k \in 0..N : g[k] = F[k][g]
    BY <2>6 DEF Fulfilled
  <2>8. \A k \in 0..N : g[k] = Step(g, k)
    <3> SUFFICES ASSUME NEW k \in 0..N PROVE g[k] = Step(g, k)
      OBVIOUS
    <3>1. g[k] = IF k = 0 THEN <<>> ELSE <<p[k]>> \o g[p[k]]
      BY <2>3, <2>7
    <3>2. CASE k = 0 /\ Link(t)[k] = Absent
      BY <3>1, <3>2
    <3>3. CASE k \in 1..N /\ Link(t)[k] = p[k] /\ Link(t)[k] # Absent
      <4>1. k # 0
        BY <3>3
      <4> QED
        BY <3>1, <3>3, <4>1
    <3> QED
      BY <1>3, <3>2, <3>3
  <2>9. g = [i \in Nodes(t) |-> Step(g, i)]
    <3> HIDE DEF Step
    <3> QED
      BY <1>1, <2>7, <2>8
  <2> QED
    BY <2>9
<1>5. f = [i \in Nodes(t) |-> Step(f, i)]
  <2> HIDE DEF Step
  <2> QED
    BY <1>4
<1>6. Ancestors(t) = f
  BY DEF Ancestors
<1> HIDE DEF f
<1>7. f[0] = <<>> /\ \A i \in 1..N : f[i] = <<p[i]>> \o f[p[i]]
  <2>1. \A i \in 0..N : f[i] = Step(f, i)
    BY <1>1, <1>5
  <2>2. 0 \in 0..N /\ \A i \in 1..N : i \in 0..N /\ i # 0
    BY <1>1
  <2> QED
    BY <1>3, <2>1, <2>2
<1> HIDE DEF Step
<1> DEFINE Good(i) == f[i] \in Seq(Nat) /\ \A m \in 0..N : m \in ToSet(f[i]) <=> Under(p, i, m)
           T == {i \in Nat : i <= N => Good(i)}
<1>8. ASSUME NEW i \in Nat, \A k \in Nat : k < i => k \in T PROVE i \in T
  <2> SUFFICES ASSUME i <= N PROVE Good(i)
    OBVIOUS
  <2>1. CASE i = 0
    <3>1. f[i] \in Seq(Nat) /\ Len(f[i]) = 0
      BY <1>7, <2>1, EmptySeq
    <3>2. \A m : m \in ToSet(f[i]) <=> \E k \in 1..Len(f[i]) : f[i][k] = m
      BY <3>1, MembersOf
    <3>3. \A m \in 0..N : ~ Under(p, i, m)
      BY <2>1 DEF Under
    <3> QED
      BY <3>1, <3>2, <3>3
  <2>2. CASE i # 0
    <3>1. i \in 1..N /\ p[i] \in 0..N /\ p[i] < i
      BY <1>2, <2>2
    <3>2. Good(p[i])
      <4>1. p[i] \in T /\ p[i] <= N
        BY <1>8, <3>1
      <4> QED
        BY <4>1
    <3>3. <<p[i]>> \in Seq(Nat) /\ ToSet(<<p[i]>>) = {p[i]}
      BY <3>1, OneIs
    <3>4. f[i] \in Seq(Nat) /\ ToSet(f[i]) = {p[i]} \cup ToSet(f[p[i]])
      BY <1>7, <3>1, <3>2, <3>3, ConcatIs
    <3>5. \A m \in 0..N : Under(p, i, m) <=> p[i] = m \/ Under(p, p[i], m)
      BY <1>1, <3>1, UnderParent DEF N
    <3> QED
      BY <3>2, <3>4, <3>5
  <2> QED
    BY <2>1, <2>2
<1>9. \A i \in 0..N : Good(i)
  <2>1. Nat \subseteq T
    <3> HIDE DEF T
    <3> QED
      BY <1>8, Strong
  <2> QED
    BY <1>1, <2>1
<1> QED
  BY <1>6, <1>9 DEF N

(* What is below a node is below all nodes that node is below.             *)
LEMMA UnderTransitive ==
  ASSUME NEW n \in Nat \ {0}, NEW p \in Parentings(n), NEW x \in 0..n - 1, NEW c \in 0..n - 1,
         NEW m \in 0..n - 1, Under(p, x, c), Under(p, c, m)
  PROVE  Under(p, x, m)
<1>1. c < x /\ m < c /\ x \in 1..n - 1 /\ \A j \in 1..x : j \in 1..n - 1 /\ p[j] \in Nat
  BY DEF Under, Parentings
<1>2. ASSUME NEW j \in 1..x, m < j PROVE m <= p[j]
  <2>1. CASE j \in 1..c
    BY <1>2, <2>1 DEF Under
  <2>2. CASE j \notin 1..c
    <3>1. c <= p[j]
      BY <2>2 DEF Under
    <3> QED
      BY <1>1, <3>1
  <2> QED
    BY <2>1, <2>2
<1> QED
  BY <1>1, <1>2 DEF Under

(* Below a node are its children and what is below one of them.            *)
LEMMA UnderChild ==
  ASSUME NEW n \in Nat \ {0}, NEW p \in Parentings(n), NEW m \in 0..n - 1
  PROVE  \A x \in 0..n - 1 :
            Under(p, x, m) <=> \E c \in 1..n - 1 : p[c] = m /\ (x = c \/ Under(p, x, c))
<1>1. \A i \in 1..n - 1 : /\ p[i] \in 0..n - 1 /\ p[i] < i
                          /\ Under(p, i, m) <=> p[i] = m \/ Under(p, p[i], m)
  BY UnderParent
<1>2. ASSUME NEW x \in 0..n - 1, NEW c \in 1..n - 1, p[c] = m, x = c \/ Under(p, x, c)
      PROVE  Under(p, x, m)
  <2>1. Under(p, c, m)
    BY <1>1, <1>2
  <2>2. CASE x = c
    BY <2>1, <2>2
  <2>3. CASE Under(p, x, c)
    BY <2>1, <2>3, UnderTransitive
  <2> QED
    BY <1>2, <2>2, <2>3
<1> DEFINE On(x) == \E c \in 1..n - 1 : p[c] = m /\ (x = c \/ Under(p, x, c))
           T == {x \in Nat : x <= n - 1 /\ Under(p, x, m) => On(x)}
<1>3. ASSUME NEW x \in Nat, \A k \in Nat : k < x => k \in T PROVE x \in T
  <2> SUFFICES ASSUME x <= n - 1, Under(p, x, m) PROVE On(x)
    OBVIOUS
  <2>1. x \in 1..n - 1 /\ p[x] \in 0..n - 1 /\ p[x] < x
    BY <1>1 DEF Under
  <2>2. CASE p[x] = m
    BY <2>1, <2>2
  <2>3. CASE Under(p, p[x], m)
    <3>1. p[x] \in T /\ p[x] <= n - 1
      BY <1>3, <2>1
    <3>2. PICK c \in 1..n - 1 : p[c] = m /\ (p[x] = c \/ Under(p, p[x], c))
      BY <2>3, <3>1
    <3>3. Under(p, x, c)
      BY <2>1, <3>2, UnderParent
    <3> QED
      BY <3>2, <3>3
  <2> QED
    BY <1>1, <2>1, <2>2, <2>3
<1>4. Nat \subseteq T
  <2> HIDE DEF T
  <2> QED
    BY <1>3, Strong
<1>5. ASSUME NEW x \in 0..n - 1, Under(p, x, m) PROVE On(x)
  BY <1>4, <1>5
<1> QED
  BY <1>2, <1>5

(* Below a node that comes before d, but not above it, all is before d.    *)
LEMMA UnderBefore ==
  ASSUME NEW n \in Nat \ {0}, NEW p \in Parentings(n),
         NEW c \in 0..n - 1, NEW d \in 1..n - 1, c < d, ~ Under(p, d, c)
  PROVE  \A x \in 0..n - 1 : Under(p, x, c) => x < d
<1> SUFFICES ASSUME NEW x \in 0..n - 1, Under(p, x, c), d <= x PROVE FALSE
  OBVIOUS
<1>1. \A j \in 1..d : j \in 1..x
  OBVIOUS
<1> QED
  BY <1>1 DEF Under

(* The pieces of which UiNode.descendants puts together what is below m.   *)
Pieces(t, g, m) ==
    [k \in DOMAIN t.children[m] |-> <<t.children[m][k]>> \o g[t.children[m][k]]]

(* They are sequences, one for each child of m.                            *)
ByChild(t, n, p, g, m) ==
    /\ Pieces(t, g, m) \in Seq(Seq(Nat))
    /\ Len(Pieces(t, g, m)) = Len(t.children[m])
    /\ \A k \in 1..Len(t.children[m]) :
          /\ t.children[m][k] \in 1..n - 1 /\ p[t.children[m][k]] = m /\ m < t.children[m][k]
          /\ Pieces(t, g, m)[k] = <<t.children[m][k]>> \o g[t.children[m][k]]
          /\ ToSet(Pieces(t, g, m)[k]) = {t.children[m][k]} \cup ToSet(g[t.children[m][k]])

(* A child comes after m, so what is below it was defined before.          *)
LEMMA PiecesAre ==
  ASSUME NEW t, NEW n, NEW p, IsTree(t, n, p), NEW m \in 0..n - 1,
         NEW g, \A c \in 0..n - 1 : m < c => g[c] \in Seq(Nat)
  PROVE  ByChild(t, n, p, g, m)
<1> DEFINE s == t.children[m]
<1>1. /\ n \in Nat \ {0} /\ p \in Parentings(n) /\ s \in Seq(Nat)
      /\ ToSet(s) = {i \in 1..n - 1 : p[i] = m}
  BY DEF IsTree
<1> HIDE DEF s
<1>2. Len(s) \in Nat /\ DOMAIN s = 1..Len(s) /\ \A k \in 1..Len(s) : s[k] \in ToSet(s)
  BY <1>1, LenProperties, MembersOf
<1>3. \A k \in 1..Len(s) : s[k] \in 1..n - 1 /\ p[s[k]] = m
  BY <1>1, <1>2
<1>4. \A k \in 1..Len(s) : m < s[k] /\ s[k] \in 0..n - 1 /\ s[k] \in Nat
  BY <1>1, <1>3 DEF Parentings
<1>5. \A k \in 1..Len(s) : g[s[k]] \in Seq(Nat) /\ <<s[k]>> \in Seq(Nat) /\ ToSet(<<s[k]>>) = {s[k]}
  BY <1>4, OneIs
<1>6. \A k \in 1..Len(s) : /\ <<s[k]>> \o g[s[k]] \in Seq(Nat)
                           /\ ToSet(<<s[k]>> \o g[s[k]]) = {s[k]} \cup ToSet(g[s[k]])
  BY <1>5, ConcatIs
<1>7. Pieces(t, g, m) = [k \in 1..Len(s) |-> <<s[k]>> \o g[s[k]]]
  BY <1>2 DEF Pieces, s
<1>8. [k \in 1..Len(s) |-> <<s[k]>> \o g[s[k]]] \in Seq(Seq(Nat))
  <2> DEFINE ss == [k \in 1..Len(s) |-> <<s[k]>> \o g[s[k]]]
  <2>1. ss \in [1..Len(s) -> Seq(Nat)]
    BY <1>6
  <2> HIDE DEF ss
  <2>2. ss \in Seq(Seq(Nat))
    BY <1>2, <2>1, SeqDef
  <2> QED
    BY <2>2 DEF ss
<1>9. Len([k \in 1..Len(s) |-> <<s[k]>> \o g[s[k]]]) = Len(s)
  BY <1>2
<1> QED
  BY <1>3, <1>4, <1>6, <1>7, <1>8, <1>9 DEF s, ByChild

(* UiNode.descendants returns what is below a node, in order.              *)
LEMMA DescendantsAre ==
  ASSUME NEW t, NEW n, NEW p, IsTree(t, n, p)
  PROVE  \A m \in 0..n - 1 :
            /\ Descendants(t)[m] \in Seq(Nat) /\ Ascending(Descendants(t)[m])
            /\ ToSet(Descendants(t)[m]) = {x \in 0..n - 1 : Under(p, x, m)}
<1> DEFINE N == n - 1
           Step(g, m) == FlattenSeq(Pieces(t, g, m))
           f == CHOOSE g : g = [m \in Nodes(t) |-> Step(g, m)]
<1>1. /\ n \in Nat \ {0} /\ N \in Nat /\ p \in Parentings(n) /\ Nodes(t) = 0..N
  BY DEF IsTree
<1>2. ASSUME NEW g, NEW m \in 0..N, \A c \in 0..N : m < c => g[c] \in Seq(Nat)
      PROVE  ByChild(t, n, p, g, m)
  BY <1>2, PiecesAre
<1>3. \A m \in 0..N : /\ t.children[m] \in Seq(Nat) /\ Ascending(t.children[m])
                      /\ DOMAIN t.children[m] = 1..Len(t.children[m])
                      /\ ToSet(t.children[m]) = {i \in 1..N : p[i] = m}
  BY LenProperties DEF IsTree
<1> HIDE DEF N
<1>4. \E g : g = [m \in Nodes(t) |-> Step(g, m)]
  <2> DEFINE Back(g) == [m \in 0..N |-> g[N - m]]
             F == [k \in 0..N |-> [g \in [0..N -> Seq(Nat)] |-> Step(Back(g), N - k)]]
  <2>1. \A k \in 0..N : N - k \in 0..N /\ N - (N - k) = k
    BY <1>1
  <2>2. \A g \in [0..N -> Seq(Nat)] : \A m \in 0..N :
           Back(g)[m] = g[N - m] /\ Back(g)[m] \in Seq(Nat)
    BY <2>1
  <2> HIDE DEF Back
  <2>3. \A k \in 0..N, g \in [0..N -> Seq(Nat)] : Step(Back(g), N - k) \in Seq(Nat)
    BY <1>2, <2>1, <2>2, FlattenIs DEF ByChild
  <2>4. F \in Rules(N, Seq(Nat))
    BY <2>3 DEF Rules
  <2>5. \A k \in 0..N, g \in [0..N -> Seq(Nat)] : F[k][g] = Step(Back(g), N - k)
    OBVIOUS
  <2> HIDE DEF F
  <2>6. ASSUME NEW k \in 0..N, NEW g \in [0..N -> Seq(Nat)], NEW h \in [0..N -> Seq(Nat)],
               \A j \in 0..N : j < k => g[j] = h[j]
        PROVE  F[k][g] = F[k][h]
    <3> DEFINE m == N - k
    <3>1. \A i \in 1..Len(t.children[m]) :
             t.children[m][i] \in 0..N /\ N - t.children[m][i] \in 0..N /\ N - t.children[m][i] < k
      <4>1. m \in 0..N /\ \A c \in 0..N : m < c => Back(g)[c] \in Seq(Nat)
        BY <2>1, <2>2
      <4>2. \A i \in 1..Len(t.children[m]) : t.children[m][i] \in 1..N /\ m < t.children[m][i]
        <5> HIDE DEF m
        <5> QED
          BY <1>2, <4>1 DEF N, ByChild
      <4>3. \A c \in 1..N : m < c => c \in 0..N /\ N - c \in 0..N /\ N - c < k
        BY <1>1
      <4> HIDE DEF m
      <4> QED
        BY <4>2, <4>3
    <3>2. \A i \in DOMAIN t.children[m] : Back(g)[t.children[m][i]] = Back(h)[t.children[m][i]]
      <4> SUFFICES ASSUME NEW i \in DOMAIN t.children[m]
                   PROVE  Back(g)[t.children[m][i]] = Back(h)[t.children[m][i]]
        OBVIOUS
      <4>1. m \in 0..N
        BY <2>1
      <4> HIDE DEF m
      <4>2. i \in 1..Len(t.children[m])
        BY <1>3, <4>1
      <4> DEFINE c == t.children[m][i]
      <4>3. c \in 0..N /\ N - c \in 0..N /\ N - c < k
        BY <3>1, <4>2
      <4> HIDE DEF c
      <4>4. Back(g)[c] = g[N - c] /\ Back(h)[c] = h[N - c] /\ g[N - c] = h[N - c]
        BY <2>2, <2>6, <4>3
      <4> QED
        BY <4>4 DEF c
    <3> HIDE DEF m
    <3>3. Pieces(t, Back(g), m) = Pieces(t, Back(h), m)
      BY <3>2 DEF Pieces
    <3> QED
      BY <2>5, <3>3 DEF m
  <2>7. <<>> \in Seq(Nat)
    BY EmptySeq
  <2>8. Fulfilled(N, Seq(Nat), F)
    <3>1. \A k \in 0..N : \A g, h \in [0..N -> Seq(Nat)] :
             (\A j \in 0..N : j < k => g[j] = h[j]) => F[k][g] = F[k][h]
      BY <2>6
    <3> QED
      BY <1>1, <2>4, <2>7, <3>1, Recursion
  <2>9. PICK g \in [0..N -> Seq(Nat)] : \A k \in 0..N : g[k] = F[k][g]
    BY <2>8 DEF Fulfilled
  <2>10. \A m \in 0..N : Back(g)[m] = Step(Back(g), m)
    <3> HIDE DEF Step
    <3> SUFFICES ASSUME NEW m \in 0..N PROVE Back(g)[m] = Step(Back(g), m)
      OBVIOUS
    <3>1. N - m \in 0..N /\ N - (N - m) = m
      BY <2>1
    <3>2. F[N - m][g] = Step(Back(g), m)
      BY <2>5, <3>1
    <3> QED
      BY <2>2, <2>9, <3>1, <3>2
  <2>11. Back(g) = [m \in 0..N |-> Back(g)[m]]
    BY DEF Back
  <2>12. Back(g) = [m \in Nodes(t) |-> Step(Back(g), m)]
    <3> HIDE DEF Step
    <3> QED
      BY <1>1, <2>10, <2>11
  <2> QED
    BY <2>12
<1>5. f = [m \in Nodes(t) |-> Step(f, m)]
  <2> HIDE DEF Step
  <2> QED
    BY <1>4
<1>6. Descendants(t) = f
  BY DEF Descendants, Pieces
<1> HIDE DEF f
<1>7. \A m \in 0..N : f[m] = FlattenSeq(Pieces(t, f, m))
  BY <1>1, <1>5
<1> HIDE DEF Step
<1> DEFINE Good(m) == /\ f[m] \in Seq(Nat) /\ Ascending(f[m])
                      /\ \A x : x \in ToSet(f[m]) <=> x \in 0..N /\ Under(p, x, m)
           T == {k \in Nat : k <= N => Good(N - k)}
<1>8. ASSUME NEW m \in 0..N, \A c \in 0..N : m < c => Good(c) PROVE Good(m)
  <2> DEFINE s == t.children[m]
             ss == Pieces(t, f, m)
  <2>1. /\ ss \in Seq(Seq(Nat)) /\ Len(ss) = Len(s)
        /\ \A k \in 1..Len(s) : /\ s[k] \in 1..N /\ p[s[k]] = m /\ m < s[k]
                                /\ ss[k] = <<s[k]>> \o f[s[k]]
                                /\ ToSet(ss[k]) = {s[k]} \cup ToSet(f[s[k]])
    <3>1. \A c \in 0..N : m < c => f[c] \in Seq(Nat)
      BY <1>8
    <3>2. ByChild(t, n, p, f, m)
      BY <1>2, <3>1
    <3> QED
      BY <3>2 DEF ByChild, N, s, ss
  <2>2. s \in Seq(Nat) /\ Ascending(s) /\ ToSet(s) = {i \in 1..N : p[i] = m}
    BY <1>3
  <2> HIDE DEF s, ss
  <2>3. \A k \in 1..Len(s) : Good(s[k]) /\ s[k] \in 0..N
    <3>1. \A c \in 1..N : c \in 0..N
      OBVIOUS
    <3>2. \A k \in 1..Len(s) : s[k] \in 1..N /\ s[k] \in 0..N /\ m < s[k]
      BY <2>1, <3>1
    <3> HIDE DEF Good
    <3> QED
      BY <1>8, <3>2
  <2>4. \A k \in 1..Len(s) : Ascending(ss[k])
    <3> SUFFICES ASSUME NEW k \in 1..Len(s) PROVE Ascending(ss[k])
      OBVIOUS
    <3>1. s[k] \in Nat /\ f[s[k]] \in Seq(Nat) /\ Ascending(f[s[k]])
      <4>1. s[k] \in 0..N /\ Good(s[k])
        BY <2>3
      <4> QED
        BY <1>1, <4>1
    <3>2. <<s[k]>> \in Seq(Nat) /\ Ascending(<<s[k]>>) /\ ToSet(<<s[k]>>) = {s[k]}
      BY <3>1, OneIs
    <3>3. Below({s[k]}, ToSet(f[s[k]]))
      BY <2>3 DEF Below, Under
    <3> QED
      BY <2>1, <3>1, <3>2, <3>3, ConcatIs
  <2>5. \A k \in 1..Len(ss) : Follows(ss, k)
    <3> SUFFICES ASSUME NEW k \in 1..Len(s), NEW j \in 1..Len(s), j < k,
                        NEW x \in ToSet(ss[j]), NEW y \in ToSet(ss[k])
                 PROVE  x < y
      BY <2>1 DEF Follows, Below
    <3>1. s[j] < s[k] /\ s[j] \in 1..N /\ s[k] \in 1..N /\ p[s[j]] = m /\ p[s[k]] = m /\ m < s[j]
      BY <2>1, <2>2 DEF Ascending
    <3>2. ~ Under(p, s[k], s[j])
      BY <3>1 DEF Under
    <3>3. \A z \in 0..N : Under(p, z, s[j]) => z < s[k]
      BY <1>1, <3>1, <3>2, UnderBefore DEF N
    <3>4. /\ ToSet(ss[j]) = {s[j]} \cup ToSet(f[s[j]]) /\ Good(s[j])
          /\ ToSet(ss[k]) = {s[k]} \cup ToSet(f[s[k]]) /\ Good(s[k])
      BY <2>1, <2>3
    <3>5. x \in Nat /\ x < s[k]
      <4>1. x = s[j] \/ (x \in 0..N /\ Under(p, x, s[j]))
        BY <3>4
      <4> QED
        BY <1>1, <3>1, <3>3, <4>1
    <3>6. y \in Nat /\ s[k] <= y
      <4>1. y = s[k] \/ (y \in 0..N /\ Under(p, y, s[k]))
        BY <3>4
      <4> QED
        BY <1>1, <3>1, <4>1 DEF Under
    <3> QED
      BY <3>1, <3>5, <3>6
  <2>6. /\ f[m] \in Seq(Nat) /\ Ascending(f[m])
        /\ \A x : x \in ToSet(f[m]) <=> \E k \in 1..Len(ss) : x \in ToSet(ss[k])
    BY <1>7, <2>1, <2>4, <2>5, FlattenIs DEF ss
  <2>7. \A c : (\E k \in 1..Len(s) : s[k] = c) <=> c \in 1..N /\ p[c] = m
    BY <2>2, MembersOf
  <2>8. \A x : x \in ToSet(f[m]) <=>
                  \E c \in 1..N : p[c] = m /\ (x = c \/ (x \in 0..N /\ Under(p, x, c)))
    <3>1. \A x : \A k \in 1..Len(s) :
             x \in ToSet(ss[k]) <=> x = s[k] \/ (x \in 0..N /\ Under(p, x, s[k]))
      BY <2>1, <2>3
    <3>2. \A x : x \in ToSet(f[m]) <=>
                    \E k \in 1..Len(s) : x = s[k] \/ (x \in 0..N /\ Under(p, x, s[k]))
      BY <2>1, <2>6, <3>1
    <3> HIDE DEF Good
    <3> SUFFICES ASSUME NEW x
                 PROVE  x \in ToSet(f[m]) <=>
                           \E c \in 1..N : p[c] = m /\ (x = c \/ (x \in 0..N /\ Under(p, x, c)))
      OBVIOUS
    <3>3. ASSUME x \in ToSet(f[m])
          PROVE  \E c \in 1..N : p[c] = m /\ (x = c \/ (x \in 0..N /\ Under(p, x, c)))
      <4>1. PICK k \in 1..Len(s) : x = s[k] \/ (x \in 0..N /\ Under(p, x, s[k]))
        BY <3>2, <3>3
      <4>2. s[k] \in 1..N /\ p[s[k]] = m
        BY <2>7
      <4> QED
        BY <4>1, <4>2
    <3>4. ASSUME NEW c \in 1..N, p[c] = m, x = c \/ (x \in 0..N /\ Under(p, x, c))
          PROVE  x \in ToSet(f[m])
      <4>1. PICK k \in 1..Len(s) : s[k] = c
        BY <2>7, <3>4
      <4> QED
        BY <3>2, <3>4, <4>1
    <3> QED
      BY <3>3, <3>4
  <2>9. \A x \in 0..N : Under(p, x, m) <=> \E c \in 1..N : p[c] = m /\ (x = c \/ Under(p, x, c))
    BY <1>1, UnderChild DEF N
  <2>10. \A c \in 1..N : c \in 0..N
    BY <1>1
  <2>11. \A x : x \in ToSet(f[m]) <=> x \in 0..N /\ Under(p, x, m)
    BY <2>8, <2>9, <2>10
  <2> QED
    BY <2>6, <2>11
<1>9. ASSUME NEW k \in Nat, \A j \in Nat : j < k => j \in T PROVE k \in T
  <2> SUFFICES ASSUME k <= N PROVE Good(N - k)
    OBVIOUS
  <2>1. ASSUME NEW c \in 0..N, N - k < c PROVE Good(c)
    <3>1. N - c \in Nat /\ N - c < k /\ N - c <= N /\ N - (N - c) = c
      BY <1>1, <2>1
    <3>2. Good(N - (N - c))
      BY <1>9, <3>1
    <3> HIDE DEF Good
    <3> QED
      BY <3>1, <3>2
  <2>2. N - k \in 0..N
    BY <1>1
  <2> HIDE DEF Good
  <2> QED
    BY <1>8, <2>1, <2>2
<1>10. \A m \in 0..N : Good(m)
  <2>1. Nat \subseteq T
    <3> HIDE DEF T
    <3> QED
      BY <1>9, Strong
  <2>2. \A m \in 0..N : N - m \in Nat /\ N - m <= N /\ N - (N - m) = m
    BY <1>1
  <2>3. \A m \in 0..N : Good(N - (N - m))
    <3> HIDE DEF Good
    <3> QED
      BY <2>1, <2>2
  <2> HIDE DEF Good
  <2> QED
    BY <2>2, <2>3
<1> QED
  BY <1>6, <1>10 DEF N

(* UiNode.walk visits a node and what is below it, in order.               *)
LEMMA WalkIs ==
  ASSUME NEW t, NEW n, NEW p, IsTree(t, n, p), NEW root \in 0..n - 1
  PROVE  /\ Walk(t, root) \in Seq(Nat) /\ Ascending(Walk(t, root))
         /\ ToSet(Walk(t, root)) = {x \in 0..n - 1 : x = root \/ Under(p, x, root)}
<1> DEFINE s == Descendants(t)[root]
<1>1. s \in Seq(Nat) /\ Ascending(s) /\ ToSet(s) = {x \in 0..n - 1 : Under(p, x, root)}
  BY DescendantsAre
<1>2. Walk(t, root) = <<root>> \o s
  BY DEF Walk
<1> HIDE DEF s
<1>3. <<root>> \in Seq(Nat) /\ Ascending(<<root>>) /\ ToSet(<<root>>) = {root}
  BY OneIs
<1>4. Below({root}, ToSet(s))
  BY <1>1 DEF Below, Under
<1>5. /\ <<root>> \o s \in Seq(Nat) /\ Ascending(<<root>> \o s)
      /\ ToSet(<<root>> \o s) = {root} \cup ToSet(s)
  BY <1>1, <1>3, <1>4, ConcatIs
<1>6. {root} \cup ToSet(s) = {x \in 0..n - 1 : x = root \/ Under(p, x, root)}
  BY <1>1
<1> QED
  BY <1>2, <1>5, <1>6

(* Lists of nodes in pre-order.                                            *)
Lists(n) == {v \in Seq(Nat) : Ascending(v) /\ ToSet(v) \subseteq 0..n - 1}

(* Selector._scope yields what is below some container once, in order:     *)
(* what a container repeats is in one that it is itself in.                *)
LEMMA InsideIs ==
  ASSUME NEW t, NEW n, NEW p, IsTree(t, n, p), NEW v \in Lists(n)
  PROVE  /\ Inside(t, v) \in Seq(Nat) /\ Ascending(Inside(t, v))
         /\ ToSet(Inside(t, v)) = {x \in 0..n - 1 : \E m \in ToSet(v) : Under(p, x, m)}
<1> DEFINE ss == [k \in 1..Len(v) |-> Descendants(t)[v[k]]]
<1>1. /\ n \in Nat \ {0} /\ p \in Parentings(n)
      /\ v \in Seq(Nat) /\ Ascending(v) /\ Len(v) \in Nat /\ DOMAIN v = 1..Len(v)
      /\ \A m : m \in ToSet(v) <=> \E k \in 1..Len(v) : v[k] = m
  BY LenProperties, MembersOf DEF Lists, IsTree
<1>2. \A k \in 1..Len(v) : v[k] \in 0..n - 1
  BY <1>1 DEF Lists
<1>3. \A k \in 1..Len(v) : /\ Descendants(t)[v[k]] \in Seq(Nat) /\ Ascending(Descendants(t)[v[k]])
                           /\ ToSet(Descendants(t)[v[k]]) = {x \in 0..n - 1 : Under(p, x, v[k])}
  BY <1>2, DescendantsAre
<1>4. ss \in [1..Len(v) -> Seq(Nat)]
  BY <1>3
<1>5. Len(ss) = Len(v)
  BY <1>1
<1>6. Inside(t, v) = Once(FlattenSeq(ss))
  BY <1>1 DEF Inside
<1>7. \A k \in 1..Len(v) : ss[k] = Descendants(t)[v[k]]
  OBVIOUS
<1> HIDE DEF ss
<1>8. ss \in Seq(Seq(Nat))
  BY <1>1, <1>4, SeqDef
<1>9. \A k \in 1..Len(v) : Ascending(ss[k]) /\ ToSet(ss[k]) = {x \in 0..n - 1 : Under(p, x, v[k])}
  BY <1>3, <1>7
<1>10. ASSUME NEW k \in 1..Len(v) PROVE Follows(ss, k) \/ Repeats(ss, k)
  <2>1. CASE \E j \in 1..Len(v) : j < k /\ Under(p, v[k], v[j])
    <3>1. PICK j \in 1..Len(v) : j < k /\ Under(p, v[k], v[j])
      BY <2>1
    <3>2. \A x \in 0..n - 1 : Under(p, x, v[k]) => Under(p, x, v[j])
      BY <1>1, <1>2, <3>1, UnderTransitive
    <3>3. ToSet(ss[k]) \subseteq ToSet(ss[j])
      BY <1>9, <3>2
    <3> QED
      BY <1>5, <3>1, <3>3 DEF Repeats
  <2>2. CASE \A j \in 1..Len(v) : j < k => ~ Under(p, v[k], v[j])
    <3> SUFFICES ASSUME NEW j \in 1..Len(v), j < k, NEW x \in ToSet(ss[j]), NEW y \in ToSet(ss[k])
                 PROVE  x < y
      BY <1>5 DEF Follows, Below
    <3>1. v[j] < v[k] /\ v[j] \in 0..n - 1 /\ v[k] \in 0..n - 1
      BY <1>1, <1>2 DEF Ascending
    <3>2. v[k] \in 1..n - 1 /\ ~ Under(p, v[k], v[j])
      BY <2>2, <3>1
    <3>3. \A z \in 0..n - 1 : Under(p, z, v[j]) => z < v[k]
      BY <1>1, <3>1, <3>2, UnderBefore
    <3>4. x \in 0..n - 1 /\ x < v[k]
      BY <1>9, <3>3
    <3>5. y \in 0..n - 1 /\ v[k] < y
      BY <1>9 DEF Under
    <3> QED
      BY <1>1, <3>1, <3>4, <3>5
  <2> QED
    BY <2>1, <2>2
<1>11. /\ FlattenSeq(ss) \in Seq(Nat) /\ Rising(FlattenSeq(ss))
       /\ \A x : x \in ToSet(FlattenSeq(ss)) <=> \E k \in 1..Len(ss) : x \in ToSet(ss[k])
  BY <1>5, <1>8, <1>9, <1>10, FlattenIs
<1>12. /\ Once(FlattenSeq(ss)) \in Seq(Nat) /\ Ascending(Once(FlattenSeq(ss)))
       /\ ToSet(Once(FlattenSeq(ss))) = ToSet(FlattenSeq(ss))
  BY <1>11, OnceIs
<1>13. \A x : x \in ToSet(FlattenSeq(ss)) <=>
                 x \in 0..n - 1 /\ \E m \in ToSet(v) : Under(p, x, m)
  <2>1. \A x : x \in ToSet(FlattenSeq(ss)) <=>
                  \E k \in 1..Len(v) : x \in 0..n - 1 /\ Under(p, x, v[k])
    BY <1>5, <1>9, <1>11
  <2> QED
    BY <1>1, <2>1
<1> QED
  BY <1>6, <1>12, <1>13

-----------------------------------------------------------------------------
(* Searches.                                                               *)

(* A chain of containers is worked off from its end.                       *)
Chained(n, V, v, F) ==
    \E g \in [1..n -> V] : g[n] = v /\ \A d \in 1..n - 1 : g[d] = F[d][g[d + 1]]

(* There is a function that does so.                                       *)
LEMMA Backward ==
  ASSUME NEW n \in Nat \ {0}, NEW V, NEW v \in V, NEW F \in Steps(n - 1, V)
  PROVE  Chained(n, V, v, F)
<1> DEFINE N == n - 1
           L == [k \in 1..N |-> F[n - k]]
<1>1. N \in Nat /\ \A k \in 1..N : n - k \in 1..N
  OBVIOUS
<1>2. L \in Steps(N, V)
  BY <1>1 DEF Steps
<1>3. \A k \in 1..N : L[k] = F[n - k]
  OBVIOUS
<1> HIDE DEF L, N
<1>4. Taken(N, V, v, L)
  BY <1>1, <1>2, Linear
<1>5. PICK h \in [0..N -> V] : h[0] = v /\ \A k \in 1..N : h[k] = L[k][h[k - 1]]
  BY <1>4 DEF Taken
<1> DEFINE g == [d \in 1..n |-> h[n - d]]
<1>6. \A d \in 1..n : n - d \in 0..N /\ g[d] = h[n - d]
  BY DEF N
<1>7. g \in [1..n -> V]
  BY <1>6
<1> HIDE DEF g
<1>8. g[n] = v
  <2>1. n \in 1..n /\ n - n = 0
    OBVIOUS
  <2> QED
    BY <1>5, <1>6, <2>1
<1>9. ASSUME NEW d \in 1..n - 1 PROVE g[d] = F[d][g[d + 1]]
  <2>1. /\ n - d \in 1..N /\ n - (n - d) = d /\ (n - d) - 1 = n - (d + 1)
        /\ d \in 1..n /\ d + 1 \in 1..n
    BY DEF N
  <2>2. h[n - d] = F[d][h[n - (d + 1)]]
    BY <1>3, <1>5, <2>1
  <2> QED
    BY <1>6, <2>1, <2>2
<1> QED
  BY <1>7, <1>8, <1>9 DEF Chained

(* What a search for c makes of the nodes it goes through, and what it     *)
(* should.                                                                 *)
Result(t, scope, c) == Pick(Among(scope, {m \in Nodes(t) : Matches(t, m, c)}), c.index)
Meant(t, S, c) == Picked({m \in Nodes(t) : Matches(t, m, c) /\ m \in S}, c.index)

(* On nodes in pre-order the two agree.                                    *)
LEMMA ResultIs ==
  ASSUME NEW t, NEW n, Nodes(t) = 0..n - 1, NEW scope \in Seq(Nat), Ascending(scope),
         NEW c, c.index \in Indices
  PROVE  /\ Result(t, scope, c) \in Lists(n)
         /\ ToSet(Result(t, scope, c)) = Meant(t, ToSet(scope), c)
<1> DEFINE M == {m \in Nodes(t) : Matches(t, m, c)}
           s == Among(scope, M)
           S == {m \in Nodes(t) : Matches(t, m, c) /\ m \in ToSet(scope)}
<1>1. s \in Seq(Nat) /\ Ascending(s) /\ ToSet(s) = ToSet(scope) \cap M
  BY AmongIs
<1>2. ToSet(scope) \cap M = S
  OBVIOUS
<1>3. c.index \in Nat \cup {Absent} /\ S \subseteq 0..n - 1
  BY TreeAssumption
<1>4. Result(t, scope, c) = Pick(s, c.index) /\ Meant(t, ToSet(scope), c) = Picked(S, c.index)
  BY DEF Result, Meant
<1> HIDE DEF s, S, M
<1>5. /\ Pick(s, c.index) \in Seq(Nat) /\ Ascending(Pick(s, c.index))
      /\ ToSet(Pick(s, c.index)) = Picked(S, c.index)
  BY <1>1, <1>2, <1>3, PickIs
<1>6. Picked(S, c.index) \subseteq S
  BY DEF Picked
<1> QED
  BY <1>3, <1>4, <1>5, <1>6 DEF Lists

(* Selector.find_all yields, in pre-order and without repetition, the      *)
(* nodes the selector names, for a chain of containers of any length.      *)
LEMMA FindAllIs ==
  ASSUME NEW t, NEW n, NEW p, IsTree(t, n, p), NEW root \in 0..n - 1,
         NEW selector, Len(selector) \in Nat \ {0}, DOMAIN selector = 1..Len(selector),
         \A d \in 1..Len(selector) : selector[d].index \in Indices
  PROVE  /\ FindAll(t, root, selector) \in Lists(n)
         /\ ToSet(FindAll(t, root, selector)) = Named(t, root, selector)
<1> DEFINE D == Len(selector)
           Walked == Result(t, Walk(t, root), selector[D])
           Searched(v, d) == Result(t, Inside(t, v), selector[d])
           SearchOf(f) == [d \in DOMAIN selector |->
                              Result(t, IF d = D THEN Walk(t, root) ELSE Inside(t, f[d + 1]),
                                     selector[d])]
           found == CHOOSE f : f = SearchOf(f)
           At(m) == {x \in 0..n - 1 : x = root \/ Under(p, x, root)}
           All(d, g) == {m \in Nodes(t) :
                           /\ Matches(t, m, selector[d])
                           /\ IF d = D THEN m = root \/ root \in ToSet(Ancestors(t)[m])
                              ELSE \E c \in g[d + 1] : c \in ToSet(Ancestors(t)[m])}
           NamedBy(g) == [d \in DOMAIN selector |-> Picked(All(d, g), selector[d].index)]
           named == CHOOSE g : g = NamedBy(g)
<1>1. n \in Nat \ {0} /\ Nodes(t) = 0..n - 1
  BY DEF IsTree
<1>2. FindAll(t, root, selector) = found[1]
  BY DEF FindAll, Result
<1>3. Named(t, root, selector) = named[1]
  BY DEF Named, Picked
<1>4. D \in Nat \ {0} /\ DOMAIN selector = 1..D /\ \A d \in 1..D : selector[d].index \in Indices
  OBVIOUS
<1> HIDE DEF found, named, D
<1>5. Walked \in Lists(n)
  BY <1>4, <1>1, WalkIs, ResultIs
<1>6. ASSUME NEW v \in Lists(n), NEW d \in 1..D PROVE Searched(v, d) \in Lists(n)
  BY <1>4, <1>1, <1>6, InsideIs, ResultIs
<1>7. found = SearchOf(found)
  <2> DEFINE F == [d \in 1..D - 1 |-> [v \in Lists(n) |-> Searched(v, d)]]
  <2>1. F \in Steps(D - 1, Lists(n))
    <3>1. \A d \in 1..D - 1 : d \in 1..D
      BY <1>4
    <3> HIDE DEF Searched
    <3> QED
      BY <1>6, <3>1 DEF Steps
  <2>2. \A d \in 1..D - 1, v \in Lists(n) : F[d][v] = Searched(v, d)
    OBVIOUS
  <2> HIDE DEF F, Walked
  <2>3. Chained(D, Lists(n), Walked, F)
    BY <1>4, <1>5, <2>1, Backward
  <2>4. PICK f \in [1..D -> Lists(n)] :
           f[D] = Walked /\ \A d \in 1..D - 1 : f[d] = F[d][f[d + 1]]
    BY <2>3 DEF Chained
  <2>5. ASSUME NEW d \in 1..D PROVE f[d] = SearchOf(f)[d]
    <3>1. CASE d = D
      BY <1>4, <2>4, <3>1 DEF Walked
    <3>2. CASE d # D
      <4>1. d \in 1..D - 1 /\ d + 1 \in 1..D
        BY <1>4, <3>2
      <4>2. f[d] = Searched(f[d + 1], d)
        <5> HIDE DEF Searched
        <5> QED
          BY <2>2, <2>4, <4>1
      <4> QED
        BY <1>4, <3>2, <4>2
    <3> QED
      BY <3>1, <3>2
  <2>6. f = [d \in 1..D |-> f[d]]
    BY <2>4
  <2>7. f = SearchOf(f)
    BY <1>4, <2>5, <2>6
  <2> QED
    BY <2>7 DEF found
<1>8. named = NamedBy(named)
  <2> DEFINE V == SUBSET (0..n - 1)
             F == [d \in 1..D - 1 |-> [v \in V |->
                      Picked({m \in Nodes(t) : /\ Matches(t, m, selector[d])
                                               /\ \E c \in v : c \in ToSet(Ancestors(t)[m])},
                             selector[d].index)]]
             Outer == Picked({m \in Nodes(t) : /\ Matches(t, m, selector[D])
                                               /\ m = root \/ root \in ToSet(Ancestors(t)[m])},
                             selector[D].index)
  <2>1. \A S, index : Picked(S, index) \subseteq S
    BY DEF Picked
  <2>2. F \in Steps(D - 1, V) /\ Outer \in V
    <3>1. \A d \in 1..D - 1, v \in V : F[d][v] \subseteq Nodes(t)
      BY <2>1
    <3>2. F = [d \in 1..D - 1 |-> [v \in V |-> F[d][v]]]
      OBVIOUS
    <3>3. Outer \subseteq Nodes(t)
      BY <2>1
    <3> HIDE DEF F, Outer
    <3>4. \A d \in 1..D - 1, v \in V : F[d][v] \in V
      BY <1>1, <3>1
    <3>5. \A d \in 1..D - 1 : F[d] \in [V -> V]
      BY <3>2, <3>4
    <3> HIDE DEF V
    <3>6. F \in [1..D - 1 -> [V -> V]]
      BY <3>2, <3>5
    <3> QED
      BY <1>1, <3>3, <3>6 DEF Steps, V
  <2>3. \A d \in 1..D - 1, v \in V : F[d][v] =
           Picked({m \in Nodes(t) : /\ Matches(t, m, selector[d])
                                    /\ \E c \in v : c \in ToSet(Ancestors(t)[m])},
                  selector[d].index)
    OBVIOUS
  <2> HIDE DEF F, V, Outer
  <2>4. Chained(D, V, Outer, F)
    BY <1>4, <2>2, Backward
  <2>5. PICK g \in [1..D -> V] : g[D] = Outer /\ \A d \in 1..D - 1 : g[d] = F[d][g[d + 1]]
    BY <2>4 DEF Chained
  <2>6. ASSUME NEW d \in 1..D PROVE g[d] = NamedBy(g)[d]
    <3>1. CASE d = D
      BY <1>4, <2>5, <3>1 DEF Outer
    <3>2. CASE d # D
      <4>1. d \in 1..D - 1 /\ d + 1 \in 1..D
        BY <1>4, <3>2
      <4>2. g[d + 1] \in V
        BY <2>5, <4>1
      <4>3. g[d] = F[d][g[d + 1]]
        BY <2>5, <4>1
      <4>4. All(d, g) = {m \in Nodes(t) : /\ Matches(t, m, selector[d])
                                          /\ \E c \in g[d + 1] : c \in ToSet(Ancestors(t)[m])}
        BY <3>2
      <4>5. g[d] = Picked(All(d, g), selector[d].index)
        <5> HIDE DEF All
        <5> QED
          BY <2>3, <4>1, <4>2, <4>3, <4>4
      <4> HIDE DEF All
      <4> QED
        BY <1>4, <4>5
    <3> QED
      BY <3>1, <3>2
  <2>7. g = [d \in 1..D |-> g[d]]
    BY <2>5
  <2>8. g = NamedBy(g)
    BY <1>4, <2>6, <2>7
  <2> QED
    BY <2>8 DEF named
<1> DEFINE Agree(d) == found[d] \in Lists(n) /\ ToSet(found[d]) = named[d]
           T == {k \in Nat : k < D => Agree(D - k)}
<1>9. \A m \in 0..n - 1, S \in SUBSET (0..n - 1) :
         (\E c \in S : c \in ToSet(Ancestors(t)[m])) <=> (\E c \in S : Under(p, m, c))
  BY AncestorsAre
<1>10. 0 \in T
  <2>1. /\ D \in DOMAIN selector /\ Walk(t, root) \in Seq(Nat) /\ Ascending(Walk(t, root))
        /\ ToSet(Walk(t, root)) = At(root)
    BY <1>4, WalkIs
  <2>2. found[D] = Walked
    BY <1>7, <2>1
  <2>3. ToSet(Walked) = Meant(t, At(root), selector[D])
    BY <1>4, <1>1, <2>1, ResultIs
  <2>4. named[D] = Picked(All(D, named), selector[D].index)
    BY <1>8, <2>1
  <2>5. All(D, named) = {m \in Nodes(t) : Matches(t, m, selector[D]) /\ m \in At(root)}
    BY <1>1, AncestorsAre
  <2>6. Agree(D)
    BY <1>5, <2>2, <2>3, <2>4, <2>5 DEF Meant
  <2>7. D - 0 = D
    BY <1>4
  <2> HIDE DEF Agree
  <2> QED
    BY <2>6, <2>7
<1>11. ASSUME NEW k \in Nat, k \in T PROVE k + 1 \in T
  <2> SUFFICES ASSUME k + 1 < D PROVE Agree(D - (k + 1))
    OBVIOUS
  <2> DEFINE d == D - (k + 1)
             S == {x \in 0..n - 1 : \E m \in ToSet(found[d + 1]) : Under(p, x, m)}
  <2>1. d \in 1..D /\ d # D /\ d + 1 = D - k /\ d \in DOMAIN selector
    BY <1>4
  <2>2. Agree(d + 1)
    <3>1. k < D
      BY <1>4
    <3> HIDE DEF Agree
    <3> QED
      BY <1>11, <2>1, <3>1
  <2> HIDE DEF d
  <2>3. found[d] = Searched(found[d + 1], d)
    BY <1>7, <2>1
  <2>4. /\ Inside(t, found[d + 1]) \in Seq(Nat) /\ Ascending(Inside(t, found[d + 1]))
        /\ ToSet(Inside(t, found[d + 1])) = S
    BY <2>2, InsideIs
  <2>5. found[d] \in Lists(n) /\ ToSet(found[d]) = Meant(t, S, selector[d])
    <3>1. selector[d].index \in Indices
      BY <1>4, <2>1
    <3> HIDE DEF S
    <3>2. /\ Result(t, Inside(t, found[d + 1]), selector[d]) \in Lists(n)
          /\ ToSet(Result(t, Inside(t, found[d + 1]), selector[d])) = Meant(t, S, selector[d])
      BY <1>1, <2>4, <3>1, ResultIs
    <3> QED
      BY <2>3, <3>2
  <2>6. named[d] = Picked(All(d, named), selector[d].index)
    BY <1>8, <2>1
  <2>7. named[d + 1] = ToSet(found[d + 1]) /\ ToSet(found[d + 1]) \subseteq 0..n - 1
    BY <2>2 DEF Lists
  <2>8. All(d, named) = {m \in Nodes(t) : Matches(t, m, selector[d]) /\ m \in S}
    BY <1>1, <1>9, <2>1, <2>7
  <2> QED
    BY <2>5, <2>6, <2>8 DEF Meant, d
<1>12. Agree(1)
  <2>1. Nat \subseteq T
    <3> HIDE DEF T
    <3> QED
      BY <1>10, <1>11, Counting
  <2>2. D - 1 \in Nat /\ D - 1 < D /\ D - (D - 1) = 1
    BY <1>4
  <2>3. Agree(D - (D - 1))
    <3> HIDE DEF Agree
    <3> QED
      BY <2>1, <2>2
  <2> QED
    BY <2>2, <2>3
<1> QED
  BY <1>2, <1>3, <1>12

(* A list in pre-order starts with the first of its nodes.                 *)
LEMMA FirstIs ==
  ASSUME NEW s \in Seq(Nat), Ascending(s), s # <<>>
  PROVE  /\ ToSet(s) # {}
         /\ s[1] = CHOOSE m \in ToSet(s) : \A k \in ToSet(s) : m <= k
<1> DEFINE S == ToSet(s)
<1>1. \A x : x \in S <=> \E k \in 1..Len(s) : s[k] = x
  BY MembersOf
<1>2. Len(s) \in Nat \ {0} /\ \A k \in 1..Len(s) : s[k] \in Nat
  BY LenProperties, EmptySeq, ElementOfSeq
<1> HIDE DEF S
<1>3. 1 \in 1..Len(s) /\ \A k \in 1..Len(s) : k = 1 \/ 1 < k
  BY <1>2
<1>4. s[1] \in S /\ \A k \in S : s[1] <= k
  BY <1>1, <1>2, <1>3 DEF Ascending
<1>5. \A m \in S : (\A k \in S : m <= k) => m = s[1]
  BY <1>1, <1>2, <1>4
<1> DEFINE least == CHOOSE m \in S : \A k \in S : m <= k
<1>6. least \in S /\ \A k \in S : least <= k
  BY <1>4
<1>7. least = s[1]
  BY <1>5, <1>6
<1> QED
  BY <1>4, <1>7 DEF S

(* On a tree of any size, whatever its labels, and for a selector with a   *)
(* chain of containers of any length, Selector.find_all finds exactly the  *)
(* nodes the selector names, in pre-order and each once, and Selector.find *)
(* the first of them.                                                      *)
THEOREM SearchesAreExact ==
  ASSUME NEW n \in Nat \ {0}, NEW p \in Parentings(n),
         NEW label \in [0..n - 1 -> Values \cup {Absent}], NEW root \in 0..n - 1,
         NEW D \in Nat \ {0}, NEW selector \in [1..D -> [accepts : Criteria, index : Indices]]
  PROVE  ExactOn(Dump(n, p, label), root, selector)
<1> DEFINE t == Dump(n, p, label)
           found == FindAll(t, root, selector)
           named == Named(t, root, selector)
<1>1. IsTree(t, n, p)
  BY DumpIs
<1>2. DOMAIN selector = 1..D /\ \A d \in 1..D : selector[d].index \in Indices
  OBVIOUS
<1>3. Len(selector) = D
  BY <1>2, SeqDef, LenProperties
<1> HIDE DEF t
<1>4. found \in Lists(n) /\ ToSet(found) = named
  BY <1>1, <1>2, <1>3, FindAllIs
<1>5. Find(t, root, selector) = IF found = <<>> THEN Absent ELSE found[1]
  BY DEF Find
<1>6. ExactOn(t, root, selector) <=>
         /\ ToSet(found) = named
         /\ \A i, j \in DOMAIN found : i < j => found[i] < found[j]
         /\ Find(t, root, selector) =
                IF named = {} THEN Absent
                ELSE CHOOSE m \in named : \A k \in named : m <= k
  BY DEF ExactOn
<1> HIDE DEF found, named
<1>7. found \in Seq(Nat) /\ Ascending(found) /\ DOMAIN found = 1..Len(found)
  BY <1>4, LenProperties DEF Lists
<1>8. \A i, j \in DOMAIN found : i < j => found[i] < found[j]
  BY <1>7 DEF Ascending
<1>9. CASE found = <<>>
  <2>1. named = {}
    <3>1. \A x : x \in ToSet(found) <=> \E k \in 1..Len(found) : found[k] = x
      BY <1>7, MembersOf
    <3>2. Len(found) = 0
      BY <1>9
    <3> QED
      BY <1>4, <3>1, <3>2
  <2> QED
    BY <1>4, <1>5, <1>6, <1>8, <1>9, <2>1 DEF t
<1>10. CASE found # <<>>
  <2>1. named # {} /\ found[1] = CHOOSE m \in named : \A k \in named : m <= k
    BY <1>4, <1>7, <1>10, FirstIs
  <2> QED
    BY <1>4, <1>5, <1>6, <1>8, <1>10, <2>1 DEF t
<1> QED
  BY <1>9, <1>10

(* Hence the search is exact within the bounds of every run.               *)
THEOREM ExactWithinAnyBounds == ExactWithinBounds
<1> SUFFICES ASSUME NEW t \in Dumps, NEW selector \in Selectors, NEW root \in Nodes(t)
             PROVE  ExactOn(t, root, selector)
  BY DEF ExactWithinBounds
<1>1. PICK n \in 1..MaxNodes :
         \E p \in Parentings(n), label \in [0..n - 1 -> Values \cup {Absent}] : t = Dump(n, p, label)
  BY DEF Dumps
<1>2. PICK p \in Parentings(n), label \in [0..n - 1 -> Values \cup {Absent}] :
         t = Dump(n, p, label)
  BY <1>1
<1>3. PICK D \in 1..MaxDepth : selector \in [1..D -> [accepts : Criteria, index : Indices]]
  BY DEF Selectors
<1>4. n \in Nat \ {0} /\ D \in Nat \ {0}
  BY TreeAssumption
<1>5. root \in 0..n - 1
  BY <1>2 DEF Nodes, Dump
<1> QED
  BY <1>2, <1>3, <1>4, <1>5, SearchesAreExact
=============================================================================
