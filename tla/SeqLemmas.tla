----------------------------- MODULE SeqLemmas -----------------------------
(****************************************************************************)
(* Facts about the sequences that model the queues of the RTL: what Append, *)
(* Tail and a transfer from one queue to another do to the places at which  *)
(* an item stands and to their number.  Then facts about sums over finite   *)
(* sets, what a change of order or a regrouping does to them, and about     *)
(* concatenations of many sequences.  No fact is about a program state.     *)
(****************************************************************************)
EXTENDS Integers, Sequences, FiniteSets, SequenceTheorems, FiniteSetTheorems,
        WellFoundedInduction, SequencesExt, TLAPS

(* The places of x in s. *)
Places(s, x) == {k \in 1 .. Len(s) : s[k] = x}

-----------------------------------------------------------------------------
(* Sequences are determined by their length and their members. *)
LEMMA AppendIs ==
  ASSUME NEW S, NEW s \in Seq(S), NEW x \in S
  PROVE  Append(s, x) = [k \in 1 .. Len(s) + 1 |-> IF k = Len(s) + 1 THEN x ELSE s[k]]
<1>. DEFINE t == Append(s, x)
<1>1. Len(s) \in Nat /\ t \in Seq(S) /\ Len(t) = Len(s) + 1
  BY LenProperties, AppendProperties
<1>2. t \in [1 .. Len(s) + 1 -> S]
  BY <1>1, LenProperties
<1>3. \A k \in 1 .. Len(s) + 1 : t[k] = IF k = Len(s) + 1 THEN x ELSE s[k]
  BY <1>1, AppendProperties
<1>. HIDE DEF t
<1>4. t = [k \in 1 .. Len(s) + 1 |-> IF k = Len(s) + 1 THEN x ELSE s[k]]
  BY <1>2, <1>3
<1>. QED BY <1>4 DEF t

LEMMA TailIs ==
  ASSUME NEW S, NEW s \in Seq(S), s # << >>
  PROVE  Tail(s) = [k \in 1 .. Len(s) - 1 |-> s[k + 1]]
<1>. DEFINE t == Tail(s)
<1>1. Len(s) \in Nat /\ t \in Seq(S) /\ Len(t) = Len(s) - 1
      /\ \A k \in 1 .. Len(t) : t[k] = s[k + 1]
  BY LenProperties, HeadTailProperties
<1>2. t \in [1 .. Len(s) - 1 -> S]
  BY <1>1, LenProperties
<1>. HIDE DEF t
<1>3. t = [k \in 1 .. Len(s) - 1 |-> s[k + 1]]
  BY <1>1, <1>2
<1>. QED BY <1>3 DEF t

LEMMA TailAppendIs ==
  ASSUME NEW S, NEW s \in Seq(S), s # << >>, NEW x \in S
  PROVE  Append(Tail(s), x) = [k \in 1 .. Len(s) |-> IF k = Len(s) THEN x ELSE s[k + 1]]
<1>0. PICK m \in Nat \ {0} : m = Len(s)
  BY EmptySeq
<1>1. Len(s) = m /\ Tail(s) \in Seq(S) /\ Len(Tail(s)) = Len(s) - 1
      /\ \A k \in 1 .. Len(s) - 1 : Tail(s)[k] = s[k + 1]
  BY <1>0, HeadTailProperties
<1>. DEFINE t == Tail(s)
<1>2. Append(t, x) = [k \in 1 .. Len(t) + 1 |-> IF k = Len(t) + 1 THEN x ELSE t[k]]
  <2>. HIDE DEF t
  <2>1. t \in Seq(S) => Append(t, x) = [k \in 1 .. Len(t) + 1 |-> IF k = Len(t) + 1 THEN x ELSE t[k]]
    BY AppendIs
  <2>. QED BY <1>1, <2>1 DEF t
<1>3. Len(t) + 1 = Len(s)
  BY <1>1
<1>4. \A k \in 1 .. m : k # m => k \in 1 .. m - 1
  OBVIOUS
<1>. HIDE DEF t
<1>5. \A k \in 1 .. Len(s) : k # Len(s) => t[k] = s[k + 1]
  BY <1>1, <1>4 DEF t
<1>6. Append(t, x) = [k \in 1 .. Len(s) |-> IF k = Len(s) THEN x ELSE s[k + 1]]
  BY <1>2, <1>3, <1>5
<1>. QED BY <1>6 DEF t

-----------------------------------------------------------------------------
(* The places of an item are finitely many. *)
LEMMA PlacesFinite ==
  ASSUME NEW S, NEW s \in Seq(S), NEW x
  PROVE  /\ IsFiniteSet(Places(s, x))
         /\ Cardinality(Places(s, x)) \in 0 .. Len(s)
<1>1. Len(s) \in Nat
  BY LenProperties
<1>2. IsFiniteSet(1 .. Len(s)) /\ Cardinality(1 .. Len(s)) = Len(s)
  BY <1>1, FS_Interval
<1>3. Places(s, x) \in SUBSET (1 .. Len(s))
  BY DEF Places
<1>4. IsFiniteSet(Places(s, x)) /\ Cardinality(Places(s, x)) <= Len(s)
  BY <1>2, <1>3, FS_Subset
<1>5. Cardinality(Places(s, x)) \in Nat
  BY <1>4, FS_CardinalityType
<1>. QED BY <1>1, <1>4, <1>5

(* An appended item has one place more. *)
LEMMA PlacesAppend ==
  ASSUME NEW S, NEW s \in Seq(S), NEW y \in S, NEW x
  PROVE  Cardinality(Places(Append(s, y), x))
           = Cardinality(Places(s, x)) + (IF x = y THEN 1 ELSE 0)
<1>. DEFINE n == Len(s)
            t == Append(s, y)
<1>1. n \in Nat /\ Len(t) = n + 1 /\ t[n + 1] = y /\ \A k \in 1 .. n : t[k] = s[k]
  BY LenProperties, AppendProperties
<1>2. IsFiniteSet(Places(s, x)) /\ Cardinality(Places(s, x)) \in Nat
  BY PlacesFinite, FS_CardinalityType
<1>. HIDE DEF t, n
<1>3. CASE x = y
  <2>1. Places(t, x) = Places(s, x) \cup {n + 1}
    BY <1>1, <1>3 DEF Places, n
  <2>2. n + 1 \notin Places(s, x)
    BY <1>1 DEF Places, n
  <2>. QED BY <1>2, <1>3, <2>1, <2>2, FS_AddElement DEF t
<1>4. CASE x # y
  <2>1. Places(t, x) = Places(s, x)
    BY <1>1, <1>4 DEF Places, n
  <2>. QED BY <1>2, <1>4, <2>1 DEF t
<1>. QED BY <1>3, <1>4

(* The item that is taken has one place less. *)
LEMMA PlacesTail ==
  ASSUME NEW S, NEW s \in Seq(S), s # << >>, NEW x
  PROVE  Cardinality(Places(Tail(s), x))
           = Cardinality(Places(s, x)) - (IF x = Head(s) THEN 1 ELSE 0)
<1>. DEFINE n == Len(s)
            t == Tail(s)
            f == [k \in Places(t, x) |-> k + 1]
<1>1. n \in Nat \ {0} /\ Len(t) = n - 1 /\ \A k \in 1 .. n - 1 : t[k] = s[k + 1]
  BY EmptySeq, HeadTailProperties
<1>2. Head(s) = s[1]
  OBVIOUS
<1>3. t \in Seq(S)
  BY HeadTailProperties
<1>4. IsFiniteSet(Places(s, x)) /\ Cardinality(Places(s, x)) \in Nat /\ IsFiniteSet(Places(t, x))
  <2>. HIDE DEF t
  <2>. QED BY <1>3, PlacesFinite, FS_CardinalityType
<1>. HIDE DEF t, n
<1>5. f \in Bijection(Places(t, x), Places(s, x) \ {1})
  <2>1. \A k \in Places(t, x) : k \in Int /\ k + 1 \in Places(s, x) \ {1}
    BY <1>1 DEF Places, n
  <2>2. \A m \in Places(s, x) \ {1} : \E k \in Places(t, x) : m = k + 1
    <3>. TAKE m \in Places(s, x) \ {1}
    <3>1. m \in 2 .. n /\ s[m] = x
      BY <1>1 DEF Places, n
    <3>2. m - 1 \in 1 .. n - 1 /\ m = (m - 1) + 1
      BY <1>1, <3>1
    <3>3. t[m - 1] = x
      BY <1>1, <3>1, <3>2
    <3>4. m - 1 \in Places(t, x)
      BY <1>1, <3>2, <3>3 DEF Places
    <3>. QED BY <3>2, <3>4
  <2>3. f \in [Places(t, x) -> Places(s, x) \ {1}]
    BY <2>1
  <2>4. \A j, k \in Places(t, x) : f[j] = f[k] => j = k
    BY <2>1
  <2>5. \A m \in Places(s, x) \ {1} : \E k \in Places(t, x) : f[k] = m
    BY <2>2
  <2>. HIDE DEF f
  <2>. QED BY <2>3, <2>4, <2>5 DEF Bijection, Injection, IsInjective, Surjection
<1>6. Cardinality(Places(t, x)) = Cardinality(Places(s, x) \ {1})
  <2>. HIDE DEF f
  <2>1. ExistsBijection(Places(t, x), Places(s, x) \ {1})
    BY <1>5 DEF ExistsBijection
  <2>. QED BY <1>4, <2>1, FS_Bijection
<1>7. 1 \in Places(s, x) <=> x = Head(s)
  BY <1>1, <1>2 DEF Places, n
<1>8. Cardinality(Places(s, x) \ {1})
        = IF 1 \in Places(s, x) THEN Cardinality(Places(s, x)) - 1 ELSE Cardinality(Places(s, x))
  BY <1>4, FS_RemoveElement
<1>9. Cardinality(Places(t, x)) = Cardinality(Places(s, x)) - (IF x = Head(s) THEN 1 ELSE 0)
  BY <1>4, <1>6, <1>7, <1>8
<1>. QED BY <1>9 DEF t

(* A set that gains one member and loses one. *)
LEMMA GainAndLose ==
  ASSUME NEW A, IsFiniteSet(A), NEW N, NEW W, N \cap A = {}, W \cap N = {},
         \A x, y \in N : x = y, \A x, y \in W : x = y
  PROVE  /\ IsFiniteSet((A \cup N) \ W)
         /\ Cardinality((A \cup N) \ W)
              = Cardinality(A) + (IF N = {} THEN 0 ELSE 1) - (IF W \cap A = {} THEN 0 ELSE 1)
<1>. DEFINE B == A \cup N
<1>1. Cardinality(A) \in Nat
  BY FS_CardinalityType
<1>2. IsFiniteSet(B) /\ Cardinality(B) = Cardinality(A) + (IF N = {} THEN 0 ELSE 1)
  <2>1. CASE N = {}
    BY <1>1, <2>1
  <2>2. CASE N # {}
    <3>1. PICK x : N = {x} /\ x \notin A
      BY <2>2
    <3>. QED BY <1>1, <2>2, <3>1, FS_AddElement
  <2>. QED BY <2>1, <2>2
<1>3. Cardinality(B) \in Nat
  BY <1>2, FS_CardinalityType
<1>4. \A w \in W : w \in B <=> w \in A
  OBVIOUS
<1>. HIDE DEF B
<1>5. IsFiniteSet(B \ W)
      /\ Cardinality(B \ W) = Cardinality(B) - (IF W \cap A = {} THEN 0 ELSE 1)
  <2>1. CASE W = {}
    BY <1>2, <1>3, <2>1
  <2>2. CASE W # {}
    <3>0. PICK w : W = {w}
      BY <2>2
    <3>1. IsFiniteSet(B \ {w}) /\ Cardinality(B \ {w}) = IF w \in B THEN Cardinality(B) - 1 ELSE Cardinality(B)
      BY <1>2, FS_RemoveElement
    <3>2. W \cap A = {} <=> w \notin B
      BY <1>4, <3>0
    <3>. QED BY <1>3, <3>0, <3>1, <3>2
  <2>. QED BY <2>1, <2>2
<1>. QED BY <1>1, <1>2, <1>5 DEF B

-----------------------------------------------------------------------------
(* A sequence whose items each occur at most c times is not longer than c   *)
(* times the number of items.                                               *)
LEMMA LengthBound ==
  ASSUME NEW S, IsFiniteSet(S), NEW s \in Seq(S), NEW c \in Nat,
         \A x \in S : Cardinality(Places(s, x)) <= c
  PROVE  Len(s) <= Cardinality(S) * c
<1>. DEFINE n == Len(s)
            Upto(k) == {j \in Places(s, s[k]) : j <= k}
            T == S \X (1 .. c)
            f == [k \in 1 .. n |-> <<s[k], Cardinality(Upto(k))>>]
<1>1. n \in Nat /\ \A k \in 1 .. n : s[k] \in S
  BY LenProperties, ElementOfSeq
<1>2. ASSUME NEW k \in 1 .. n
      PROVE  /\ IsFiniteSet(Upto(k)) /\ k \in Upto(k)
             /\ Cardinality(Upto(k)) \in 1 .. c
  <2>0. s[k] \in S
    BY <1>1
  <2>1. IsFiniteSet(Places(s, s[k])) /\ Cardinality(Places(s, s[k])) <= c
    BY <2>0, PlacesFinite
  <2>2. Upto(k) \in SUBSET Places(s, s[k])
    OBVIOUS
  <2>3. k \in Upto(k)
    BY <1>1 DEF Places
  <2>. HIDE DEF Upto
  <2>4. IsFiniteSet(Upto(k)) /\ Cardinality(Upto(k)) <= Cardinality(Places(s, s[k]))
    BY <2>1, <2>2, FS_Subset
  <2>5. Cardinality(Upto(k)) \in Nat /\ Cardinality(Upto(k)) # 0
    BY <2>3, <2>4, FS_CardinalityType, FS_EmptySet
  <2>6. Cardinality(Places(s, s[k])) \in Nat
    BY <2>1, FS_CardinalityType
  <2>. QED BY <2>1, <2>3, <2>4, <2>5, <2>6
<1>3. ASSUME NEW j \in 1 .. n, NEW k \in 1 .. n, j < k, s[j] = s[k]
      PROVE  Cardinality(Upto(j)) # Cardinality(Upto(k))
  <2>1. Upto(j) \in SUBSET Upto(k)
    BY <1>1, <1>3 DEF Places
  <2>2. k \notin Upto(j)
    BY <1>1, <1>3
  <2>3. IsFiniteSet(Upto(k)) /\ k \in Upto(k)
    BY <1>2
  <2>. HIDE DEF Upto
  <2>4. Cardinality(Upto(k)) = Cardinality(Upto(j)) => Upto(k) = Upto(j)
    BY <2>1, <2>3, FS_Subset
  <2>. QED BY <2>2, <2>3, <2>4
<1>. HIDE DEF Upto
<1>4. f \in [1 .. n -> T]
  BY <1>1, <1>2
<1>5. ASSUME NEW j \in 1 .. n, NEW k \in 1 .. n, f[j] = f[k] PROVE j = k
  <2>1. s[j] = s[k] /\ Cardinality(Upto(j)) = Cardinality(Upto(k))
    BY <1>5
  <2>2. ~(j < k) /\ ~(k < j)
    BY <1>3, <2>1
  <2>. QED BY <1>1, <2>2
<1>6. IsFiniteSet(1 .. c) /\ Cardinality(1 .. c) = c
  BY FS_Interval
<1>7. IsFiniteSet(T) /\ Cardinality(T) = Cardinality(S) * c
  BY <1>6, FS_Product
<1>8. IsFiniteSet(1 .. n) /\ Cardinality(1 .. n) = n
  <2>1. n \in Nat
    BY <1>1
  <2>. HIDE DEF n, f, T
  <2>2. ASSUME NEW i \in Nat PROVE IsFiniteSet(1 .. i) /\ Cardinality(1 .. i) = i
    BY FS_Interval
  <2>. QED BY <2>1, <2>2
<1>9. Cardinality(1 .. n) <= Cardinality(T)
  <2>. HIDE DEF f, T, n
  <2>1. f \in Injection(1 .. n, T)
    BY <1>4, <1>5 DEF Injection, IsInjective
  <2>. QED BY <1>7, <2>1, FS_Injection
<1>. QED BY <1>7, <1>8, <1>9

-----------------------------------------------------------------------------
(* The sequence of what m maps the items of s to. *)
Mapped(s, m) == [k \in 1 .. Len(s) |-> m[s[k]]]

MapsSeqs(m, S, T) ==
  \A s \in Seq(S) : /\ Mapped(s, m) \in Seq(T)
                    /\ Len(Mapped(s, m)) = Len(s)
                    /\ \A k \in 1 .. Len(s) : Mapped(s, m)[k] = m[s[k]]
                    /\ s # << >> => Mapped(s, m) # << >> /\ Head(Mapped(s, m)) = m[Head(s)]
                    /\ s = << >> => Mapped(s, m) = << >>

LEMMA MappedType ==
  ASSUME NEW S, NEW T, NEW m \in [S -> T]
  PROVE  MapsSeqs(m, S, T)
<1>. SUFFICES ASSUME NEW s \in Seq(S)
     PROVE  /\ Mapped(s, m) \in Seq(T)
            /\ Len(Mapped(s, m)) = Len(s)
            /\ \A k \in 1 .. Len(s) : Mapped(s, m)[k] = m[s[k]]
            /\ s # << >> => Mapped(s, m) # << >> /\ Head(Mapped(s, m)) = m[Head(s)]
            /\ s = << >> => Mapped(s, m) = << >>
  BY DEF MapsSeqs
<1>1. Len(s) \in Nat /\ \A k \in 1 .. Len(s) : s[k] \in S
  BY LenProperties, ElementOfSeq
<1>2. Mapped(s, m) \in Seq(T) /\ Len(Mapped(s, m)) = Len(s)
  BY <1>1 DEF Mapped
<1>3. \A k \in 1 .. Len(s) : Mapped(s, m)[k] = m[s[k]]
  BY DEF Mapped
<1>4. s # << >> => Len(s) \in Nat \ {0}
  BY EmptySeq
<1>5. s # << >> => Mapped(s, m) # << >> /\ Head(Mapped(s, m)) = m[Head(s)]
  BY <1>2, <1>3, <1>4
<1>6. s = << >> => Mapped(s, m) = << >>
  BY <1>2
<1>. QED BY <1>2, <1>3, <1>5, <1>6

(* A concatenation, and the rest of a sequence, item by item. *)
IsJoined(u, s, t, S) ==
  /\ u \in Seq(S)
  /\ Len(s) \in Nat /\ Len(t) \in Nat /\ Len(u) = Len(s) + Len(t)
  /\ \A i \in 1 .. Len(s) : u[i] = s[i]
  /\ \A i \in 1 .. Len(s) + Len(t) : ~(i <= Len(s)) =>
        i - Len(s) \in 1 .. Len(t) /\ u[i] = t[i - Len(s)]

LEMMA ConcatItems ==
  ASSUME NEW S, NEW s \in Seq(S), NEW t \in Seq(S)
  PROVE  IsJoined(s \o t, s, t, S)
<1>1. Len(s) \in Nat /\ Len(t) \in Nat
  BY LenProperties
<1>2. /\ s \o t \in Seq(S) /\ Len(s \o t) = Len(s) + Len(t)
      /\ \A i \in 1 .. Len(s) + Len(t) :
           (s \o t)[i] = IF i <= Len(s) THEN s[i] ELSE t[i - Len(s)]
  BY ConcatProperties
<1>3. \A i \in 1 .. Len(s) : i \in 1 .. Len(s) + Len(t) /\ i <= Len(s)
  BY <1>1
<1>4. \A i \in 1 .. Len(s) + Len(t) : ~(i <= Len(s)) => i - Len(s) \in 1 .. Len(t)
  BY <1>1
<1>. QED BY <1>1, <1>2, <1>3, <1>4 DEF IsJoined

LEMMA MappedConcat ==
  ASSUME NEW S, NEW T, NEW m \in [S -> T], NEW s \in Seq(S), NEW t \in Seq(S)
  PROVE  Mapped(s \o t, m) = Mapped(s, m) \o Mapped(t, m)
<1>0. \A q \in Seq(S) :
        /\ Mapped(q, m) \in Seq(T)
        /\ Len(Mapped(q, m)) = Len(q)
        /\ \A k \in 1 .. Len(q) : Mapped(q, m)[k] = m[q[k]]
        /\ q # << >> => Mapped(q, m) # << >> /\ Head(Mapped(q, m)) = m[Head(q)]
        /\ q = << >> => Mapped(q, m) = << >>
  <2>1. MapsSeqs(m, S, T)
    BY MappedType
  <2>. QED BY <2>1 DEF MapsSeqs
<1>. DEFINE c == s \o t
            ms == Mapped(s, m)
            mt == Mapped(t, m)
            u == Mapped(c, m)
            v == ms \o mt
<1>1. /\ c \in Seq(S) /\ Len(s) \in Nat /\ Len(t) \in Nat /\ Len(c) = Len(s) + Len(t)
      /\ \A i \in 1 .. Len(s) : c[i] = s[i]
      /\ \A i \in 1 .. Len(s) + Len(t) : ~(i <= Len(s)) =>
            i - Len(s) \in 1 .. Len(t) /\ c[i] = t[i - Len(s)]
  <2>1. IsJoined(c, s, t, S)
    BY ConcatItems
  <2>. QED BY <2>1 DEF IsJoined
<1>2. ms \in Seq(T) /\ Len(ms) = Len(s) /\ \A k \in 1 .. Len(s) : ms[k] = m[s[k]]
  BY <1>0
<1>3. mt \in Seq(T) /\ Len(mt) = Len(t) /\ \A k \in 1 .. Len(t) : mt[k] = m[t[k]]
  BY <1>0
<1>4. u \in Seq(T) /\ Len(u) = Len(c) /\ \A k \in 1 .. Len(c) : u[k] = m[c[k]]
  <2>. HIDE DEF c
  <2>. QED BY <1>1, <1>0
<1>5. /\ v \in Seq(T) /\ Len(v) = Len(ms) + Len(mt)
      /\ \A i \in 1 .. Len(ms) : v[i] = ms[i]
      /\ \A i \in 1 .. Len(ms) + Len(mt) : ~(i <= Len(ms)) =>
            i - Len(ms) \in 1 .. Len(mt) /\ v[i] = mt[i - Len(ms)]
  <2>. HIDE DEF ms, mt
  <2>1. IsJoined(v, ms, mt, T)
    BY <1>2, <1>3, ConcatItems
  <2>. HIDE DEF v
  <2>. QED BY <2>1 DEF IsJoined
<1>. HIDE DEF c, ms, mt, u, v
<1>6. ASSUME NEW i \in 1 .. Len(c) PROVE u[i] = v[i]
  <2>0. i \in 1 .. Len(s) + Len(t)
    BY <1>1
  <2>1. CASE i <= Len(s)
    <3>1. i \in 1 .. Len(s)
      BY <1>1, <2>0, <2>1
    <3>. QED BY <1>1, <1>2, <1>4, <1>5, <3>1
  <2>2. CASE ~(i <= Len(s))
    <3>1. i - Len(s) \in 1 .. Len(t) /\ c[i] = t[i - Len(s)]
      BY <1>1, <2>0, <2>2
    <3>2. v[i] = mt[i - Len(s)]
      BY <1>2, <1>3, <1>5, <2>0, <2>2
    <3>3. mt[i - Len(s)] = m[t[i - Len(s)]]
      BY <1>3, <3>1
    <3>. QED BY <1>4, <3>1, <3>2, <3>3
  <2>. QED BY <2>1, <2>2
<1>7. u = v
  BY <1>1, <1>2, <1>3, <1>4, <1>5, <1>6, SeqEqual
<1>. QED BY <1>7 DEF c, u, v, ms, mt

LEMMA MappedTail ==
  ASSUME NEW S, NEW T, NEW m \in [S -> T], NEW s \in Seq(S), s # << >>
  PROVE  Mapped(Tail(s), m) = Tail(Mapped(s, m))
<1>0. \A q \in Seq(S) :
        /\ Mapped(q, m) \in Seq(T)
        /\ Len(Mapped(q, m)) = Len(q)
        /\ \A k \in 1 .. Len(q) : Mapped(q, m)[k] = m[q[k]]
        /\ q # << >> => Mapped(q, m) # << >> /\ Head(Mapped(q, m)) = m[Head(q)]
        /\ q = << >> => Mapped(q, m) = << >>
  <2>1. MapsSeqs(m, S, T)
    BY MappedType
  <2>. QED BY <2>1 DEF MapsSeqs
<1>. DEFINE r == Tail(s)
            ms == Mapped(s, m)
            u == Mapped(r, m)
            v == Tail(ms)
<1>1. /\ r \in Seq(S) /\ Len(r) = Len(s) - 1 /\ \A i \in 1 .. Len(r) : r[i] = s[i + 1]
  BY HeadTailProperties
<1>2. Len(s) \in Nat \ {0}
  BY EmptySeq
<1>3. /\ ms \in Seq(T) /\ Len(ms) = Len(s) /\ ms # << >>
      /\ \A k \in 1 .. Len(s) : ms[k] = m[s[k]]
  BY <1>0
<1>4. u \in Seq(T) /\ Len(u) = Len(r) /\ \A k \in 1 .. Len(r) : u[k] = m[r[k]]
  <2>. HIDE DEF r
  <2>. QED BY <1>1, <1>0
<1>5. v \in Seq(T) /\ Len(v) = Len(ms) - 1 /\ \A i \in 1 .. Len(v) : v[i] = ms[i + 1]
  <2>. HIDE DEF ms
  <2>. QED BY <1>3, HeadTailProperties
<1>. HIDE DEF r, ms, u, v
<1>6. ASSUME NEW i \in 1 .. Len(r) PROVE u[i] = v[i]
  <2>1. i \in 1 .. Len(v) /\ i + 1 \in 1 .. Len(s)
    BY <1>1, <1>2, <1>3, <1>5
  <2>. QED BY <1>1, <1>3, <1>4, <1>5, <2>1
<1>7. Len(u) = Len(v)
  BY <1>1, <1>3, <1>4, <1>5
<1>8. u = v
  BY <1>4, <1>5, <1>6, <1>7, SeqEqual
<1>. QED BY <1>8 DEF u, v, r, ms

(* The first item of a concatenation is the first of its first part. *)
LEMMA ConcatFirst ==
  ASSUME NEW S, NEW s \in Seq(S), NEW t \in Seq(S), s # << >>
  PROVE  /\ Head(s \o t) = Head(s) /\ Tail(s \o t) = Tail(s) \o t
         /\ s \o t # << >>
         /\ <<Head(s)>> \o Tail(s) = s
<1>1. Len(s) \in Nat \ {0} /\ Len(t) \in Nat
  BY EmptySeq, LenProperties
<1>2. /\ s \o t \in Seq(S) /\ Len(s \o t) = Len(s) + Len(t)
      /\ \A i \in 1 .. Len(s) + Len(t) :
           (s \o t)[i] = IF i <= Len(s) THEN s[i] ELSE t[i - Len(s)]
  BY ConcatProperties
<1>3. /\ Head(s) \in S /\ Tail(s) \in Seq(S) /\ Len(Tail(s)) = Len(s) - 1
      /\ \A i \in 1 .. Len(Tail(s)) : Tail(s)[i] = s[i + 1]
  BY HeadTailProperties
<1>4. s \o t # << >> /\ Head(s \o t) = Head(s)
  BY <1>1, <1>2
<1>5. /\ Tail(s \o t) \in Seq(S) /\ Len(Tail(s \o t)) = Len(s) + Len(t) - 1
      /\ \A i \in 1 .. Len(s) + Len(t) - 1 : Tail(s \o t)[i] = (s \o t)[i + 1]
  BY <1>1, <1>2, <1>4, HeadTailProperties
<1>6. /\ Tail(s) \o t \in Seq(S) /\ Len(Tail(s) \o t) = Len(s) + Len(t) - 1
      /\ \A i \in 1 .. Len(s) + Len(t) - 1 :
           (Tail(s) \o t)[i] = IF i <= Len(s) - 1 THEN Tail(s)[i] ELSE t[i - (Len(s) - 1)]
  BY <1>1, <1>3, ConcatProperties
<1>7. Tail(s \o t) = Tail(s) \o t
  <2>. DEFINE u == Tail(s \o t)
              v == Tail(s) \o t
  <2>1. u \in Seq(S) /\ v \in Seq(S) /\ Len(u) = Len(v) /\ Len(u) = Len(s) + Len(t) - 1
    BY <1>5, <1>6
  <2>2. \A i \in 1 .. Len(s) + Len(t) - 1 : u[i] = v[i]
    <3>1. SUFFICES ASSUME NEW i \in 1 .. Len(s) + Len(t) - 1 PROVE u[i] = v[i]
      OBVIOUS
    <3>2. i + 1 \in 1 .. Len(s) + Len(t) /\ u[i] = (s \o t)[i + 1]
      BY <1>1, <1>5
    <3>3. CASE i <= Len(s) - 1
      <4>1. i \in 1 .. Len(Tail(s)) /\ i + 1 <= Len(s)
        BY <1>1, <1>3, <3>3
      <4>2. v[i] = Tail(s)[i]
        BY <1>6, <3>3
      <4>3. u[i] = s[i + 1]
        BY <1>2, <3>2, <4>1
      <4>. QED BY <1>3, <4>1, <4>2, <4>3
    <3>4. CASE ~(i <= Len(s) - 1)
      <4>1. ~(i + 1 <= Len(s)) /\ i + 1 - Len(s) = i - (Len(s) - 1)
        BY <1>1, <3>4
      <4>2. v[i] = t[i - (Len(s) - 1)]
        BY <1>6, <3>4
      <4>3. u[i] = t[i + 1 - Len(s)]
        BY <1>2, <3>2, <4>1
      <4>. QED BY <4>1, <4>2, <4>3
    <3>. QED BY <3>3, <3>4
  <2>. HIDE DEF u, v
  <2>3. u = v
    BY <2>1, <2>2, SeqEqual
  <2>. QED BY <2>3 DEF u, v
<1>8. <<Head(s)>> \o Tail(s) = s
  <2>. DEFINE h == <<Head(s)>>
  <2>1. h \in Seq(S) /\ Len(h) = 1 /\ h[1] = s[1]
    BY <1>1, <1>3
  <2>. HIDE DEF h
  <2>2. /\ h \o Tail(s) \in Seq(S)
        /\ Len(h \o Tail(s)) = Len(h) + Len(Tail(s))
        /\ \A i \in 1 .. Len(h) : (h \o Tail(s))[i] = h[i]
        /\ \A i \in 1 .. Len(h) + Len(Tail(s)) : ~(i <= Len(h)) =>
              (h \o Tail(s))[i] = Tail(s)[i - Len(h)]
    <3>. DEFINE r == Tail(s)
    <3>1. r \in Seq(S)
      BY <1>3
    <3>. HIDE DEF r
    <3>2. /\ h \o r \in Seq(S)
          /\ Len(h \o r) = Len(h) + Len(r)
          /\ \A i \in 1 .. Len(h) : (h \o r)[i] = h[i]
          /\ \A i \in 1 .. Len(h) + Len(r) : ~(i <= Len(h)) => (h \o r)[i] = r[i - Len(h)]
      <4>. DEFINE u == h \o r
      <4>1. IsJoined(u, h, r, S)
        BY <2>1, <3>1, ConcatItems
      <4>. HIDE DEF u
      <4>2. /\ u \in Seq(S) /\ Len(u) = Len(h) + Len(r)
            /\ \A i \in 1 .. Len(h) : u[i] = h[i]
            /\ \A i \in 1 .. Len(h) + Len(r) : ~(i <= Len(h)) => u[i] = r[i - Len(h)]
        BY <4>1 DEF IsJoined
      <4>. QED BY <4>2 DEF u
    <3>. QED BY <3>2 DEF r
  <2>3. Len(h) = 1 /\ Len(h) + Len(Tail(s)) = Len(s)
    BY <1>1, <1>3, <2>1
  <2>4. ASSUME NEW i \in 1 .. Len(s) PROVE (h \o Tail(s))[i] = s[i]
    <3>1. CASE i = 1
      BY <2>1, <2>2, <2>3, <3>1
    <3>2. CASE i # 1
      <4>1. i - 1 \in 1 .. Len(Tail(s)) /\ ~(i <= 1) /\ (i - 1) + 1 = i
        BY <1>1, <1>3, <3>2
      <4>2. Tail(s)[i - 1] = s[(i - 1) + 1]
        BY <1>3, <4>1
      <4>3. (h \o Tail(s))[i] = Tail(s)[i - 1]
        BY <2>2, <2>3, <4>1
      <4>. QED BY <4>1, <4>2, <4>3
    <3>. QED BY <3>1, <3>2
  <2>. DEFINE u == h \o Tail(s)
  <2>5. u \in Seq(S) /\ Len(u) = Len(s) /\ \A i \in 1 .. Len(s) : u[i] = s[i]
    BY <2>2, <2>3, <2>4
  <2>. HIDE DEF u
  <2>6. u = s
    BY <2>5, SeqEqual
  <2>. QED BY <2>6 DEF u, h
<1>. QED BY <1>4, <1>7, <1>8

-----------------------------------------------------------------------------
(* What a queue keeps, and what it gives away, in a cycle. *)
Rest(s, pop)  == IF pop THEN Tail(s) ELSE s
First(s, pop) == IF pop THEN <<Head(s)>> ELSE << >>

(* Brackets of a concatenation. *)
Regroups(s, t, u) == (s \o t) \o u = s \o (t \o u)

LEMMA ConcatRegroups ==
  ASSUME NEW S, NEW s \in Seq(S), NEW t \in Seq(S), NEW u \in Seq(S)
  PROVE  Regroups(s, t, u) /\ s \o t \in Seq(S)
BY ConcatProperties, ConcatAssociative DEF Regroups

(* Two queues in a row: s leaves before t. *)
Row(s, t) == s \o t

LEMMA RowType ==
  ASSUME NEW S, NEW s \in Seq(S), NEW t \in Seq(S)
  PROVE  Row(s, t) \in Seq(S) /\ Len(Row(s, t)) = Len(s) + Len(t)
BY ConcatProperties DEF Row

LEMMA RestType ==
  ASSUME NEW S, NEW s \in Seq(S), NEW pop \in BOOLEAN, pop => s # << >>
  PROVE  Rest(s, pop) \in Seq(S) /\ First(s, pop) \in Seq(S)
<1>1. CASE pop
  <2>1. Head(s) \in S /\ Tail(s) \in Seq(S)
    BY <1>1, HeadTailProperties
  <2>. QED BY <1>1, <2>1 DEF Rest, First
<1>2. CASE ~pop
  BY <1>2, EmptySeq DEF Rest, First
<1>. QED BY <1>1, <1>2

LEMMA RestLength ==
  ASSUME NEW S, NEW s \in Seq(S), NEW pop \in BOOLEAN, pop => s # << >>
  PROVE  /\ Len(Rest(s, pop)) = Len(s) - (IF pop THEN 1 ELSE 0)
         /\ Len(First(s, pop)) = IF pop THEN 1 ELSE 0
<1>1. CASE pop
  BY <1>1, HeadTailProperties DEF Rest, First
<1>2. CASE ~pop
  BY <1>2, LenProperties DEF Rest, First
<1>. QED BY <1>1, <1>2

(* Nothing is lost when the first item of t moves to the end of another.   *)
LEMMA FirstAndRest ==
  ASSUME NEW S, NEW t \in Seq(S), NEW pop \in BOOLEAN, pop => t # << >>
  PROVE  First(t, pop) \o Rest(t, pop) = t
<1>1. CASE pop
  BY <1>1, ConcatFirst DEF First, Rest
<1>2. CASE ~pop
  BY <1>2, ConcatEmptySeq DEF First, Rest
<1>. QED BY <1>1, <1>2

(* When the first of two queues in a row is fed from the second, what they *)
(* hold together changes only at its two ends.                              *)
LEMMA RowStep ==
  ASSUME NEW S, NEW a \in Seq(S), NEW b \in Seq(S), NEW x \in Seq(S),
         NEW pop \in BOOLEAN, pop => a # << >>,
         NEW move \in BOOLEAN, move => b # << >>
  PROVE  Row(Row(Rest(a, pop), First(b, move)), Row(Rest(b, move), x)) = Row(Rest(Row(a, b), pop), x)
<1>. DEFINE ra == Rest(a, pop)
            fb == First(b, move)
            rb == Rest(b, move)
<1>1. ra \in Seq(S)
  BY RestType
<1>2. ra \o b = Rest(a \o b, pop)
  <2>1. CASE pop
    BY <2>1, ConcatFirst DEF Rest
  <2>2. CASE ~pop
    BY <2>2 DEF Rest
  <2>. QED BY <2>1, <2>2
<1>3. fb \in Seq(S) /\ rb \in Seq(S)
  BY RestType
<1>4. fb \o rb = b
  BY FirstAndRest
<1>. HIDE DEF ra, fb, rb
<1>5. (ra \o fb) \o (rb \o x) = (ra \o (fb \o rb)) \o x
  <2>. DEFINE g == ra \o fb
  <2>1. g \in Seq(S)
    BY <1>1, <1>3, ConcatProperties
  <2>2. g = ra \o fb
    OBVIOUS
  <2>3. g \o rb = ra \o (fb \o rb)
    <3>1. Regroups(ra, fb, rb)
      BY <1>1, <1>3, ConcatRegroups
    <3>. QED BY <3>1 DEF Regroups
  <2>. HIDE DEF g
  <2>4. (g \o rb) \o x = g \o (rb \o x)
    <3>1. Regroups(g, rb, x)
      BY <1>3, <2>1, ConcatRegroups
    <3>. QED BY <3>1 DEF Regroups
  <2>. QED BY <2>2, <2>3, <2>4
<1>6. (ra \o fb) \o (rb \o x) = Rest(a \o b, pop) \o x
  BY <1>2, <1>4, <1>5
<1>. QED BY <1>6 DEF ra, fb, rb, Row

(* Two rows that hold the same begin with the same item. *)
LEMMA RowHeads ==
  ASSUME NEW S, NEW a \in Seq(S), NEW b \in Seq(S), NEW c \in Seq(S), NEW e \in Seq(S),
         Row(a, b) = Row(c, e), a # << >>, c # << >>
  PROVE  Head(a) = Head(c)
<1>1. Head(a \o b) = Head(a)
  BY ConcatFirst
<1>2. Head(c \o e) = Head(c)
  BY ConcatFirst
<1>. QED BY <1>1, <1>2 DEF Row

(* What is mapped moves as the items do. *)
MovesAlong(s, t, m) ==
  /\ Mapped(Row(s, t), m) = Row(Mapped(s, m), Mapped(t, m))
  /\ s # << >> => Mapped(Row(Tail(s), t), m) = Row(Tail(Mapped(s, m)), Mapped(t, m))

LEMMA MappedRow ==
  ASSUME NEW S, NEW T, NEW m \in [S -> T], NEW s \in Seq(S), NEW t \in Seq(S)
  PROVE  MovesAlong(s, t, m)
<1>1. Mapped(s \o t, m) = Mapped(s, m) \o Mapped(t, m)
  BY MappedConcat
<1>2. ASSUME s # << >>
      PROVE  Mapped(Tail(s) \o t, m) = Tail(Mapped(s, m)) \o Mapped(t, m)
  <2>. DEFINE r == Tail(s)
  <2>1. r \in Seq(S)
    BY <1>2, HeadTailProperties
  <2>2. Mapped(r, m) = Tail(Mapped(s, m))
    BY <1>2, MappedTail
  <2>. HIDE DEF r
  <2>3. Mapped(r \o t, m) = Mapped(r, m) \o Mapped(t, m)
    BY <2>1, MappedConcat
  <2>. QED BY <2>2, <2>3 DEF r
<1>. QED BY <1>1, <1>2 DEF MovesAlong, Row

LEMMA MappedFirst ==
  ASSUME NEW S, NEW T, NEW m \in [S -> T], NEW s \in Seq(S),
         NEW pop \in BOOLEAN, pop => s # << >>
  PROVE  Mapped(First(s, pop), m) = First(Mapped(s, m), pop)
<1>0. \A q \in Seq(S) :
        /\ Mapped(q, m) \in Seq(T)
        /\ Len(Mapped(q, m)) = Len(q)
        /\ \A k \in 1 .. Len(q) : Mapped(q, m)[k] = m[q[k]]
        /\ q # << >> => Mapped(q, m) # << >> /\ Head(Mapped(q, m)) = m[Head(q)]
        /\ q = << >> => Mapped(q, m) = << >>
  <2>1. MapsSeqs(m, S, T)
    BY MappedType
  <2>. QED BY <2>1 DEF MapsSeqs
<1>1. CASE pop
  <2>1. Head(Mapped(s, m)) = m[Head(s)] /\ Head(s) \in S
    BY <1>0, <1>1, HeadTailProperties
  <2>2. Mapped(<<Head(s)>>, m) = <<m[Head(s)]>>
    BY <2>1 DEF Mapped
  <2>. QED BY <1>1, <2>1, <2>2 DEF First
<1>2. CASE ~pop
  BY <1>0, <1>2, EmptySeq DEF First
<1>. QED BY <1>1, <1>2

(* How the number of places of x changes with what a queue loses and gains. *)
LEMMA PlacesStep ==
  ASSUME NEW S, NEW s \in Seq(S), NEW pop \in BOOLEAN, pop => s # << >>,
         NEW y \in S, NEW push \in BOOLEAN, NEW x
  PROVE  Cardinality(Places(Row(Rest(s, pop), IF push THEN <<y>> ELSE << >>), x))
           = Cardinality(Places(s, x)) - (IF pop /\ x = Head(s) THEN 1 ELSE 0)
                                       + (IF push /\ x = y THEN 1 ELSE 0)
<1>. DEFINE r == Rest(s, pop)
            n == Cardinality(Places(r, x))
            k == Cardinality(Places(s, x))
<1>1. r \in Seq(S)
  BY RestType
<1>2. n = k - (IF pop /\ x = Head(s) THEN 1 ELSE 0)
  <2>0. k \in Nat
    BY PlacesFinite, FS_CardinalityType
  <2>1. CASE pop
    BY <2>1, PlacesTail DEF Rest
  <2>2. CASE ~pop
    <3>. HIDE DEF k
    <3>1. n = k
      BY <2>2 DEF Rest, k
    <3>. QED BY <2>0, <2>2, <3>1
  <2>. QED BY <2>1, <2>2
<1>. HIDE DEF r
<1>3. Cardinality(Places(r \o (IF push THEN <<y>> ELSE << >>), x))
        = n + (IF push /\ x = y THEN 1 ELSE 0)
  <2>0. n \in Nat
    BY <1>1, PlacesFinite, FS_CardinalityType
  <2>1. CASE push
    <3>1. r \o <<y>> = Append(r, y)
      BY <1>1, AppendIsConcat
    <3>2. Cardinality(Places(Append(r, y), x)) = n + (IF x = y THEN 1 ELSE 0)
      BY <1>1, PlacesAppend
    <3>. QED BY <2>1, <3>1, <3>2
  <2>2. CASE ~push
    <3>1. r \o << >> = r
      BY <1>1, ConcatEmptySeq
    <3>. HIDE DEF n
    <3>2. Cardinality(Places(r \o (IF push THEN <<y>> ELSE << >>), x)) = n
      BY <2>2, <3>1 DEF n
    <3>. QED BY <2>0, <2>2, <3>2
  <2>. QED BY <2>1, <2>2
<1>. QED BY <1>2, <1>3 DEF r, Row

-----------------------------------------------------------------------------
(* The sequence without its k-th item. *)
Without(s, k) == [i \in 1 .. Len(s) - 1 |-> IF i < k THEN s[i] ELSE s[i + 1]]

LEMMA RemoveIs ==
  ASSUME NEW S, NEW s \in Seq(S), NEW k \in 1 .. Len(s)
  PROVE  SubSeq(s, 1, k - 1) \o SubSeq(s, k + 1, Len(s)) = Without(s, k)
<1>. DEFINE n == Len(s)
            a == SubSeq(s, 1, k - 1)
            b == SubSeq(s, k + 1, n)
            r == a \o b
            t == [i \in 1 .. n - 1 |-> IF i < k THEN s[i] ELSE s[i + 1]]
<1>1. n \in Nat /\ k \in 1 .. n /\ \A i \in 1 .. n : s[i] \in S
  BY LenProperties, ElementOfSeq
<1>2. a \in Seq(S) /\ Len(a) = k - 1 /\ \A i \in 1 .. k - 1 : a[i] = s[i]
  <2>1. /\ a \in Seq(S) /\ Len(a) = IF 1 <= k - 1 THEN k - 1 ELSE 0
        /\ \A i \in 1 .. (k - 1) - 1 + 1 : a[i] = s[1 + i - 1]
    <3>1. \A i \in 1 .. k - 1 : s[i] \in S
      BY <1>1
    <3>2. k - 1 \in Int
      BY <1>1
    <3>. HIDE DEF n
    <3>. QED BY <3>1, <3>2, SubSeqProperties
  <2>. QED BY <1>1, <2>1
<1>3. b \in Seq(S) /\ Len(b) = n - k /\ \A i \in 1 .. n - k : b[i] = s[k + i]
  <2>1. /\ b \in Seq(S) /\ Len(b) = IF k + 1 <= n THEN n - (k + 1) + 1 ELSE 0
        /\ \A i \in 1 .. n - (k + 1) + 1 : b[i] = s[(k + 1) + i - 1]
    <3>1. \A i \in k + 1 .. n : s[i] \in S
      BY <1>1
    <3>2. k + 1 \in Int /\ n \in Int
      BY <1>1
    <3>. HIDE DEF n
    <3>. QED BY <3>1, <3>2, SubSeqProperties
  <2>. QED BY <1>1, <2>1
<1>. HIDE DEF a, b
<1>4. /\ r \in Seq(S) /\ Len(r) = n - 1
      /\ \A i \in 1 .. Len(a) + Len(b) : r[i] = IF i <= Len(a) THEN a[i] ELSE b[i - Len(a)]
  BY <1>1, <1>2, <1>3, ConcatProperties
<1>. HIDE DEF r, n
<1>5. r \in [1 .. n - 1 -> S]
  BY <1>4, LenProperties
<1>6. ASSUME NEW i \in 1 .. n - 1 PROVE r[i] = IF i < k THEN s[i] ELSE s[i + 1]
  <2>1. i \in 1 .. Len(a) + Len(b)
    BY <1>1, <1>2, <1>3
  <2>2. CASE i < k
    BY <1>1, <1>2, <1>4, <2>1, <2>2
  <2>3. CASE ~(i < k)
    <3>1. r[i] = b[i - Len(a)]
      BY <1>1, <1>2, <1>4, <2>1, <2>3
    <3>2. i - Len(a) \in 1 .. n - k /\ k + (i - Len(a)) = i + 1
      BY <1>1, <1>2, <2>3
    <3>3. b[i - Len(a)] = s[k + (i - Len(a))]
      BY <1>3, <3>2
    <3>. QED BY <2>3, <3>1, <3>2, <3>3
  <2>. QED BY <2>2, <2>3
<1>7. r = t
  BY <1>5, <1>6
<1>. QED BY <1>7 DEF r, a, b, n, Without

(* The places of the items that are in V. *)
Marks(s, V) == {k \in 1 .. Len(s) : s[k] \in V}

LEMMA MarksFinite ==
  ASSUME NEW S, NEW s \in Seq(S), NEW V
  PROVE  /\ IsFiniteSet(Marks(s, V))
         /\ Cardinality(Marks(s, V)) \in 0 .. Len(s)
         /\ Marks(s, V) # {} => Cardinality(Marks(s, V)) >= 1
<1>1. Len(s) \in Nat
  BY LenProperties
<1>2. IsFiniteSet(1 .. Len(s)) /\ Cardinality(1 .. Len(s)) = Len(s)
  BY <1>1, FS_Interval
<1>3. Marks(s, V) \in SUBSET (1 .. Len(s))
  BY DEF Marks
<1>4. IsFiniteSet(Marks(s, V)) /\ Cardinality(Marks(s, V)) <= Len(s)
  BY <1>2, <1>3, FS_Subset
<1>5. Cardinality(Marks(s, V)) \in Nat /\ (Cardinality(Marks(s, V)) = 0 <=> Marks(s, V) = {})
  BY <1>4, FS_CardinalityType, FS_EmptySet
<1>. QED BY <1>1, <1>4, <1>5

LEMMA MarksAppend ==
  ASSUME NEW S, NEW s \in Seq(S), NEW y \in S, NEW V
  PROVE  Cardinality(Marks(Append(s, y), V)) = Cardinality(Marks(s, V)) + (IF y \in V THEN 1 ELSE 0)
<1>. DEFINE n == Len(s)
            t == Append(s, y)
<1>1. n \in Nat /\ Len(t) = n + 1 /\ t[n + 1] = y /\ \A k \in 1 .. n : t[k] = s[k]
  BY LenProperties, AppendProperties
<1>2. IsFiniteSet(Marks(s, V)) /\ Cardinality(Marks(s, V)) \in Nat
  BY MarksFinite, FS_CardinalityType
<1>. HIDE DEF t, n
<1>3. CASE y \in V
  <2>1. Marks(t, V) = Marks(s, V) \cup {n + 1}
    BY <1>1, <1>3 DEF Marks, n
  <2>2. n + 1 \notin Marks(s, V)
    BY <1>1 DEF Marks, n
  <2>. QED BY <1>2, <1>3, <2>1, <2>2, FS_AddElement DEF t
<1>4. CASE y \notin V
  <2>1. Marks(t, V) = Marks(s, V)
    BY <1>1, <1>4 DEF Marks, n
  <2>. QED BY <1>2, <1>4, <2>1 DEF t
<1>. QED BY <1>3, <1>4

LEMMA MarksRemove ==
  ASSUME NEW S, NEW s \in Seq(S), NEW k \in 1 .. Len(s), NEW V
  PROVE  Cardinality(Marks(Without(s, k), V)) = Cardinality(Marks(s, V)) - (IF s[k] \in V THEN 1 ELSE 0)
<1>. DEFINE n == Len(s)
            t == Without(s, k)
            f == [i \in Marks(t, V) |-> IF i < k THEN i ELSE i + 1]
<1>1. n \in Nat /\ k \in 1 .. n /\ \A i \in 1 .. n : s[i] \in S
  BY LenProperties, ElementOfSeq
<1>2. Len(t) = n - 1 /\ \A i \in 1 .. n - 1 : t[i] = IF i < k THEN s[i] ELSE s[i + 1]
  BY <1>1 DEF Without
<1>3. t \in Seq(S)
  BY <1>1 DEF Without
<1>4. /\ IsFiniteSet(Marks(s, V)) /\ Cardinality(Marks(s, V)) \in Nat /\ IsFiniteSet(Marks(t, V))
  BY <1>3, MarksFinite, FS_CardinalityType
<1>. HIDE DEF n, t
<1>5. f \in Bijection(Marks(t, V), Marks(s, V) \ {k})
  <2>1. \A i \in Marks(t, V) : i \in 1 .. n - 1
    BY <1>2 DEF Marks
  <2>2. \A i \in Marks(t, V) : f[i] \in Marks(s, V) \ {k}
    <3>1. SUFFICES ASSUME NEW i \in Marks(t, V) PROVE f[i] \in Marks(s, V) \ {k}
      OBVIOUS
    <3>2. i \in 1 .. n - 1 /\ t[i] \in V
      BY <2>1 DEF Marks
    <3>3. CASE i < k
      BY <1>1, <1>2, <3>2, <3>3 DEF Marks, n
    <3>4. CASE ~(i < k)
      <4>1. i + 1 \in 1 .. n /\ i + 1 # k /\ s[i + 1] \in V
        BY <1>1, <1>2, <3>2, <3>4
      <4>. QED BY <3>4, <4>1 DEF Marks, n
    <3>. QED BY <3>3, <3>4
  <2>3. \A m \in Marks(s, V) \ {k} : \E i \in Marks(t, V) : m = f[i]
    <3>1. SUFFICES ASSUME NEW m \in Marks(s, V) \ {k} PROVE \E i \in Marks(t, V) : m = f[i]
      OBVIOUS
    <3>2. m \in 1 .. n /\ s[m] \in V /\ m # k
      BY DEF Marks, n
    <3>3. CASE m < k
      <4>1. m \in 1 .. n - 1 /\ t[m] = s[m]
        BY <1>1, <1>2, <3>2, <3>3
      <4>2. m \in Marks(t, V)
        BY <1>2, <3>2, <4>1 DEF Marks
      <4>3. f[m] = m
        BY <3>3, <4>2
      <4>. HIDE DEF f
      <4>. QED BY <4>2, <4>3
    <3>4. CASE ~(m < k)
      <4>1. m - 1 \in 1 .. n - 1 /\ ~(m - 1 < k) /\ (m - 1) + 1 = m
        BY <1>1, <3>2, <3>4
      <4>2. t[m - 1] = s[m]
        BY <1>2, <4>1
      <4>3. m - 1 \in Marks(t, V)
        BY <1>2, <3>2, <4>1, <4>2 DEF Marks
      <4>4. f[m - 1] = m
        BY <4>1, <4>3
      <4>. HIDE DEF f
      <4>. QED BY <4>3, <4>4
    <3>. QED BY <3>3, <3>4
  <2>4. \A i, j \in Marks(t, V) : f[i] = f[j] => i = j
    BY <1>1, <2>1
  <2>. HIDE DEF f
  <2>5. f \in [Marks(t, V) -> Marks(s, V) \ {k}]
    BY <2>2 DEF f
  <2>. QED BY <2>3, <2>4, <2>5 DEF Bijection, Injection, IsInjective, Surjection
<1>6. Cardinality(Marks(t, V)) = Cardinality(Marks(s, V) \ {k})
  <2>1. ExistsBijection(Marks(t, V), Marks(s, V) \ {k})
    BY <1>5 DEF ExistsBijection
  <2>. QED BY <1>4, <2>1, FS_Bijection
<1>7. k \in Marks(s, V) <=> s[k] \in V
  BY <1>1 DEF Marks, n
<1>8. Cardinality(Marks(s, V) \ {k}) = IF k \in Marks(s, V) THEN Cardinality(Marks(s, V)) - 1
                                                         ELSE Cardinality(Marks(s, V))
  BY <1>4, FS_RemoveElement
<1>. HIDE DEF f
<1>. QED BY <1>4, <1>6, <1>7, <1>8 DEF t
-----------------------------------------------------------------------------
(* Induction over the naturals, for sets: a set of naturals has a least     *)
(* member, so what holds at i and is handed on holds from i on.             *)
LEMMA NatIsOrdered == \E R : IsWellFoundedOn(R, Nat) /\ \A m, n \in Nat : m < n => <<m, n>> \in R
<1>1. \A m, n \in Nat : m < n => <<m, n>> \in OpToRel(<, Nat)
  BY DEF OpToRel
<1>. QED BY <1>1, NatLessThanWellFounded, Zenon

LEMMA Least == ASSUME NEW T \in SUBSET Nat, T # {} PROVE \E n \in T : \A m \in T : n <= m
<1>1. PICK R : IsWellFoundedOn(R, Nat) /\ \A m, n \in Nat : m < n => <<m, n>> \in R
  BY NatIsOrdered
<1>2. IsWellFoundedOn(R, Nat) /\ T \subseteq Nat
  BY <1>1
<1>3. \E n \in T : \A m \in T : <<m, n>> \notin R
  BY <1>2, WFMin, Zenon
<1>4. PICK n \in T : \A m \in T : <<m, n>> \notin R
  BY <1>3
<1>5. ASSUME NEW m \in T PROVE n <= m
  <2>1. m \in Nat /\ n \in Nat /\ ~(m < n)
    BY <1>1, <1>4
  <2>. QED BY <2>1
<1>. QED BY <1>5

LEMMA Upward ==
  ASSUME NEW i \in Nat, NEW T, i \in T, \A n \in Nat : i <= n /\ n \in T => n + 1 \in T
  PROVE  \A n \in Nat : i <= n => n \in T
<1>. DEFINE U == {n \in Nat : i <= n /\ n \notin T}
<1>1. SUFFICES ASSUME U # {} PROVE FALSE
  OBVIOUS
<1>2. PICK n \in U : \A m \in U : n <= m
  BY <1>1, Least
<1>3. n # i /\ n - 1 \in Nat /\ i <= n - 1 /\ n - 1 \notin U
  BY <1>2
<1>. QED BY <1>2, <1>3

-----------------------------------------------------------------------------
(* The items of a tuple. *)
LEMMA Tuples ==
  \A a, b : /\ Append(<< >>, a) = << a >> /\ Append(<< a >>, b) = << a, b >>
            /\ DOMAIN << a >> = 1 .. 1 /\ << a >>[1] = a
            /\ DOMAIN << a, b >> = 1 .. 2 /\ << a, b >>[1] = a /\ << a, b >>[2] = b
<1>. SUFFICES ASSUME NEW a, NEW b
     PROVE  /\ Append(<< >>, a) = << a >> /\ Append(<< a >>, b) = << a, b >>
            /\ DOMAIN << a >> = 1 .. 1 /\ << a >>[1] = a
            /\ DOMAIN << a, b >> = 1 .. 2 /\ << a, b >>[1] = a /\ << a, b >>[2] = b
  OBVIOUS
<1>1. DOMAIN << a >> = 1 .. 1
  OBVIOUS
<1>2. << a >>[1] = a
  OBVIOUS
<1>3. DOMAIN << a, b >> = 1 .. 2
  OBVIOUS
<1>4. << a, b >>[1] = a /\ << a, b >>[2] = b
  OBVIOUS
<1>5. Append(<< >>, a) = << a >>
  OBVIOUS
<1>6. Append(<< a >>, b) = << a, b >>
  <2>. DEFINE V == {a, b}
              s == Append(<< a >>, b)
              t == << a, b >>
  <2>1. << a >> \in Seq(V) /\ Len(<< a >>) = 1
    OBVIOUS
  <2>2. t \in Seq(V) /\ Len(t) = 2
    OBVIOUS
  <2>3. s \in Seq(V) /\ Len(s) = 2 /\ s[2] = b /\ s[1] = a
    <3>1. b \in V
      OBVIOUS
    <3>. HIDE DEF V
    <3>. QED BY <1>2, <2>1, <3>1, AppendProperties
  <2>. HIDE DEF s, t, V
  <2>4. \A k \in 1 .. 2 : s[k] = t[k]
    <3>1. t[1] = a /\ t[2] = b
      BY <1>4 DEF t
    <3>. QED BY <2>3, <3>1
  <2>5. s = t
    BY <2>2, <2>3, <2>4, SeqEqual
  <2>. QED BY <2>5 DEF s, t
<1>. QED BY <1>1, <1>2, <1>3, <1>4, <1>5, <1>6

-----------------------------------------------------------------------------
(* What a sum over the members of S is: a number for every subset, of which *)
(* each member takes its own part.                                          *)
IsSum(G, f, S) ==
  /\ G \in [SUBSET S -> Int] /\ G[{}] = 0
  /\ \A s \in SUBSET S : \A x \in s : G[s] = f[x] + G[s \ {x}]

LEMMA SumExists ==
  ASSUME NEW S, IsFiniteSet(S), NEW f, \A x \in S : f[x] \in Int
  PROVE  \E G : IsSum(G, f, S)
<1>. DEFINE T == {n \in Nat : \A s \in SUBSET S : Cardinality(s) = n => \E G : IsSum(G, f, s)}
<1>1. 0 \in T
  <2>1. ASSUME NEW s \in SUBSET S, Cardinality(s) = 0 PROVE \E G : IsSum(G, f, s)
    <3>1. s = {}
      BY <2>1, FS_Subset, FS_EmptySet
    <3>2. IsSum([t \in SUBSET s |-> 0], f, s)
      BY <3>1 DEF IsSum
    <3>. QED BY <3>2
  <2>. QED BY <2>1
<1>2. ASSUME NEW n \in Nat, n \in T PROVE n + 1 \in T
  <2>1. ASSUME NEW s \in SUBSET S, Cardinality(s) = n + 1 PROVE \E G : IsSum(G, f, s)
    <3>1. IsFiniteSet(s) /\ s # {}
      BY <2>1, FS_Subset, FS_EmptySet
    <3>2. PICK y \in s : TRUE
      BY <3>1
    <3>3. Cardinality(s \ {y}) = n /\ s \ {y} \in SUBSET S
      <4>1. Cardinality(s \ {y}) = Cardinality(s) - 1
        BY <3>1, <3>2, FS_RemoveElement
      <4>. QED BY <2>1, <4>1
    <3>4. PICK G : IsSum(G, f, s \ {y})
      BY <1>2, <3>3
    <3>. DEFINE H == [t \in SUBSET s |-> IF y \in t THEN f[y] + G[t \ {y}] ELSE G[t]]
    <3>5. f[y] \in Int /\ \A t \in SUBSET s : y \notin t => t \in SUBSET (s \ {y})
      BY <3>2
    <3>6. G \in [SUBSET (s \ {y}) -> Int] /\ G[{}] = 0
          /\ \A t \in SUBSET (s \ {y}) : \A x \in t : G[t] = f[x] + G[t \ {x}]
      BY <3>4 DEF IsSum
    <3>7. \A t \in SUBSET s : t \ {y} \in SUBSET (s \ {y})
      OBVIOUS
    <3>8. H \in [SUBSET s -> Int] /\ H[{}] = 0
      BY <3>5, <3>6, <3>7
    <3>9. ASSUME NEW t \in SUBSET s, NEW x \in t PROVE H[t] = f[x] + H[t \ {x}]
      <4>0. f[x] \in Int /\ t \ {x} \in SUBSET s
        OBVIOUS
      <4>1. CASE x = y
        <5>1. H[t] = f[y] + G[t \ {y}] /\ H[t \ {x}] = G[t \ {y}]
          BY <4>0, <4>1
        <5>. QED BY <4>1, <5>1
      <4>2. CASE x # y /\ y \in t
        <5>1. H[t] = f[y] + G[t \ {y}] /\ H[t \ {x}] = f[y] + G[(t \ {x}) \ {y}]
          BY <4>0, <4>2
        <5>2. x \in t \ {y} /\ t \ {y} \in SUBSET (s \ {y}) /\ (t \ {y}) \ {x} = (t \ {x}) \ {y}
          BY <4>2
        <5>3. G[t \ {y}] = f[x] + G[(t \ {x}) \ {y}]
          <6>1. G[t \ {y}] = f[x] + G[(t \ {y}) \ {x}]
            BY <3>6, <5>2
          <6>. QED BY <5>2, <6>1
        <5>4. G[(t \ {x}) \ {y}] \in Int
          BY <3>6, <3>7, <4>0
        <5>. HIDE DEF H
        <5>. QED BY <3>5, <4>0, <5>1, <5>3, <5>4
      <4>3. CASE y \notin t
        <5>1. H[t] = G[t] /\ H[t \ {x}] = G[t \ {x}] /\ t \in SUBSET (s \ {y})
          BY <4>0, <4>3
        <5>. QED BY <3>6, <5>1
      <4>. QED BY <4>1, <4>2, <4>3
    <3>. HIDE DEF H
    <3>10. IsSum(H, f, s)
      BY <3>8, <3>9 DEF IsSum
    <3>. QED BY <3>10
  <2>. QED BY <2>1
<1>. HIDE DEF T
<1>3. \A n \in Nat : 0 <= n => n \in T
  BY <1>1, <1>2, Upward
<1>4. Cardinality(S) \in Nat
  BY FS_CardinalityType
<1>. QED BY <1>3, <1>4 DEF T

(* SumFunctionOnSet computes it. *)
LEMMA SumIs ==
  ASSUME NEW S, IsFiniteSet(S), NEW f, NEW G, IsSum(G, f, S)
  PROVE  SumFunctionOnSet(f, S) = G[S]
<1>. DEFINE Chosen(s) == CHOOSE x \in s : TRUE
            Body(g) == [s \in SUBSET S |-> IF s = {} THEN 0 ELSE f[Chosen(s)] + g[s \ {Chosen(s)}]]
            g == CHOOSE h : h = Body(h)
            T == {n \in Nat : \A s \in SUBSET S : Cardinality(s) = n => g[s] = G[s]}
<1>1. SumFunctionOnSet(f, S) = g[S]
  BY DEF SumFunctionOnSet, FoldFunctionOnSet, MapThenFoldSet
<1>0. ASSUME NEW s \in SUBSET S, s # {} PROVE Chosen(s) \in s
  BY <1>0
<1>. HIDE DEF Chosen
<1>2. G = Body(G)
  <2>1. G \in [SUBSET S -> Int]
    BY DEF IsSum
  <2>2. ASSUME NEW s \in SUBSET S PROVE G[s] = Body(G)[s]
    <3>1. CASE s = {}
      BY <3>1 DEF IsSum
    <3>2. CASE s # {}
      BY <1>0, <3>2 DEF IsSum
    <3>. QED BY <3>1, <3>2
  <2>3. Body(G) = [s \in SUBSET S |-> Body(G)[s]]
    OBVIOUS
  <2>. HIDE DEF Body
  <2>. QED BY <2>1, <2>2, <2>3
<1>3. g = Body(g)
  <2>. HIDE DEF Body
  <2>. QED BY <1>2
<1>. HIDE DEF g
<1>4. g[{}] = 0 /\ \A s \in SUBSET S : s # {} => g[s] = f[Chosen(s)] + g[s \ {Chosen(s)}]
  BY <1>3
<1>5. 0 \in T
  <2>1. ASSUME NEW s \in SUBSET S, Cardinality(s) = 0 PROVE g[s] = G[s]
    <3>1. s = {}
      BY <2>1, FS_Subset, FS_EmptySet
    <3>. QED BY <1>4, <3>1 DEF IsSum
  <2>. QED BY <2>1
<1>6. ASSUME NEW n \in Nat, n \in T PROVE n + 1 \in T
  <2>1. ASSUME NEW s \in SUBSET S, Cardinality(s) = n + 1 PROVE g[s] = G[s]
    <3>1. IsFiniteSet(s) /\ s # {}
      BY <2>1, FS_Subset, FS_EmptySet
    <3>2. Chosen(s) \in s
      BY <1>0, <3>1
    <3>3. Cardinality(s \ {Chosen(s)}) = n /\ s \ {Chosen(s)} \in SUBSET S
      <4>1. Cardinality(s \ {Chosen(s)}) = Cardinality(s) - 1
        BY <3>1, <3>2, FS_RemoveElement
      <4>. QED BY <2>1, <4>1
    <3>4. g[s \ {Chosen(s)}] = G[s \ {Chosen(s)}]
      BY <1>6, <3>3
    <3>5. G[s] = f[Chosen(s)] + G[s \ {Chosen(s)}]
      BY <3>2 DEF IsSum
    <3>. QED BY <1>4, <3>1, <3>4, <3>5
  <2>. QED BY <2>1
<1>. HIDE DEF T
<1>7. \A n \in Nat : 0 <= n => n \in T
  BY <1>5, <1>6, Upward
<1>8. Cardinality(S) \in Nat
  BY FS_CardinalityType
<1>. QED BY <1>1, <1>7, <1>8 DEF T

(* A sum is what one member adds to the sum of the others. *)
LEMMA SumStep ==
  ASSUME NEW S, IsFiniteSet(S), NEW f, \A x \in S : f[x] \in Int
  PROVE  /\ SumFunctionOnSet(f, S) \in Int
         /\ \A x \in S : SumFunctionOnSet(f, S) = f[x] + SumFunctionOnSet(f, S \ {x})
<1>1. PICK G : IsSum(G, f, S)
  BY SumExists
<1>2. SumFunctionOnSet(f, S) = G[S]
  BY <1>1, SumIs
<1>3. ASSUME NEW x \in S PROVE SumFunctionOnSet(f, S \ {x}) = G[S \ {x}]
  <2>. DEFINE R == S \ {x}
              H == [t \in SUBSET R |-> G[t]]
  <2>1. IsFiniteSet(R)
    BY FS_Subset
  <2>2. IsSum(H, f, R)
    <3>1. H \in [SUBSET R -> Int] /\ H[{}] = 0
      BY <1>1 DEF IsSum
    <3>2. ASSUME NEW t \in SUBSET R, NEW y \in t PROVE H[t] = f[y] + H[t \ {y}]
      <4>1. G[t] = f[y] + G[t \ {y}]
        BY <1>1 DEF IsSum
      <4>2. H[t] = G[t] /\ H[t \ {y}] = G[t \ {y}]
        OBVIOUS
      <4>. QED BY <4>1, <4>2
    <3>. HIDE DEF H, R
    <3>. QED BY <3>1, <3>2 DEF IsSum
  <2>3. H[R] = G[R]
    OBVIOUS
  <2>. HIDE DEF H, R
  <2>4. SumFunctionOnSet(f, R) = H[R]
    BY <2>1, <2>2, SumIs
  <2>. QED BY <2>3, <2>4 DEF R
<1>4. G[S] \in Int /\ \A x \in S : G[S] = f[x] + G[S \ {x}]
  BY <1>1 DEF IsSum
<1>. QED BY <1>2, <1>3, <1>4

LEMMA SumEmpty == \A f : SumFunctionOnSet(f, {}) = 0
<1>. SUFFICES ASSUME NEW f PROVE SumFunctionOnSet(f, {}) = 0
  OBVIOUS
<1>. DEFINE G == [s \in SUBSET {} |-> 0]
<1>1. IsSum(G, f, {})
  BY DEF IsSum
<1>2. G[{}] = 0
  OBVIOUS
<1>. HIDE DEF G
<1>. QED BY <1>1, <1>2, SumIs, FS_EmptySet

(* The sum of a multiple and another: sums are linear, and look only at the *)
(* members.                                                                 *)
IsLinear(h, a, f, g, S) == \A x \in S : f[x] \in Int /\ g[x] \in Int /\ h[x] = a * f[x] + g[x]

LEMMA SumLinear ==
  ASSUME NEW S, IsFiniteSet(S), NEW a \in Int, NEW f, NEW g, NEW h, IsLinear(h, a, f, g, S)
  PROVE  SumFunctionOnSet(h, S) = a * SumFunctionOnSet(f, S) + SumFunctionOnSet(g, S)
<1>0. \A x \in S : f[x] \in Int /\ g[x] \in Int /\ h[x] = a * f[x] + g[x]
  BY DEF IsLinear
<1>1. PICK F : IsSum(F, f, S)
  BY <1>0, SumExists
<1>2. PICK G : IsSum(G, g, S)
  BY <1>0, SumExists
<1>. DEFINE H == [s \in SUBSET S |-> a * F[s] + G[s]]
<1>3. \A s \in SUBSET S : F[s] \in Int /\ G[s] \in Int
  BY <1>1, <1>2 DEF IsSum
<1>4. ASSUME NEW s \in SUBSET S, NEW x \in s PROVE H[s] = h[x] + H[s \ {x}]
  <2>1. F[s] = f[x] + F[s \ {x}] /\ G[s] = g[x] + G[s \ {x}]
    BY <1>1, <1>2 DEF IsSum
  <2>2. F[s \ {x}] \in Int /\ G[s \ {x}] \in Int
    BY <1>3
  <2>3. H[s] = a * F[s] + G[s] /\ H[s \ {x}] = a * F[s \ {x}] + G[s \ {x}]
    OBVIOUS
  <2>4. \A p, q, r, t \in Int : a * (p + q) + (r + t) = (a * p + r) + (a * q + t)
    OBVIOUS
  <2>5. f[x] \in Int /\ g[x] \in Int /\ h[x] = a * f[x] + g[x]
    BY <1>0
  <2>. HIDE DEF H
  <2>6. H[s] = a * (f[x] + F[s \ {x}]) + (g[x] + G[s \ {x}])
    BY <2>1, <2>3
  <2>7. H[s] = (a * f[x] + g[x]) + (a * F[s \ {x}] + G[s \ {x}])
    BY <2>2, <2>4, <2>5, <2>6
  <2>. QED BY <2>3, <2>5, <2>7
<1>5. H[{}] = 0
  <2>1. F[{}] = 0 /\ G[{}] = 0
    BY <1>1, <1>2 DEF IsSum
  <2>. QED BY <2>1
<1>6. H \in [SUBSET S -> Int]
  <2>1. ASSUME NEW s \in SUBSET S PROVE a * F[s] + G[s] \in Int
    BY <1>3
  <2>. QED BY <2>1
<1>7. H[S] = a * F[S] + G[S]
  OBVIOUS
<1>. HIDE DEF H
<1>8. IsSum(H, h, S)
  BY <1>4, <1>5, <1>6 DEF IsSum
<1>9. /\ SumFunctionOnSet(h, S) = H[S] /\ SumFunctionOnSet(f, S) = F[S]
      /\ SumFunctionOnSet(g, S) = G[S]
  BY <1>1, <1>2, <1>8, SumIs
<1>. QED BY <1>7, <1>9

LEMMA SumSame ==
  ASSUME NEW S, IsFiniteSet(S), NEW f, NEW h, \A x \in S : f[x] \in Int /\ h[x] = f[x]
  PROVE  SumFunctionOnSet(h, S) = SumFunctionOnSet(f, S)
<1>1. PICK F : IsSum(F, f, S)
  BY SumExists
<1>2. IsSum(F, h, S)
  BY <1>1 DEF IsSum
<1>. QED BY <1>1, <1>2, SumIs

(* Members without a part may be left out. *)
LEMMA SumPart ==
  ASSUME NEW S, IsFiniteSet(S), NEW f, \A x \in S : f[x] \in Int,
         NEW R \in SUBSET S, \A x \in S \ R : f[x] = 0
  PROVE  SumFunctionOnSet(f, S) = SumFunctionOnSet(f, R)
<1>1. PICK F : IsSum(F, f, R)
  <2>1. IsFiniteSet(R)
    BY FS_Subset
  <2>. QED BY <2>1, SumExists
<1>. DEFINE G == [s \in SUBSET S |-> F[s \cap R]]
<1>2. G \in [SUBSET S -> Int] /\ G[{}] = 0
  BY <1>1 DEF IsSum
<1>3. ASSUME NEW s \in SUBSET S, NEW x \in s PROVE G[s] = f[x] + G[s \ {x}]
  <2>1. G[s] = F[s \cap R] /\ G[s \ {x}] = F[(s \ {x}) \cap R]
    OBVIOUS
  <2>2. F[s \cap R] \in Int
    BY <1>1 DEF IsSum
  <2>3. CASE x \in R
    <3>1. (s \ {x}) \cap R = (s \cap R) \ {x} /\ x \in s \cap R /\ s \cap R \in SUBSET R
      BY <2>3
    <3>2. F[s \cap R] = f[x] + F[(s \cap R) \ {x}]
      BY <1>1, <3>1 DEF IsSum
    <3>3. F[(s \ {x}) \cap R] = F[(s \cap R) \ {x}]
      BY <3>1
    <3>. HIDE DEF G
    <3>. QED BY <2>1, <3>2, <3>3
  <2>4. CASE x \notin R
    <3>1. (s \ {x}) \cap R = s \cap R /\ f[x] = 0
      BY <2>4
    <3>2. F[(s \ {x}) \cap R] = F[s \cap R]
      BY <3>1
    <3>. HIDE DEF G
    <3>. QED BY <2>1, <2>2, <3>1, <3>2
  <2>. QED BY <2>3, <2>4
<1>4. G[S] = F[R]
  <2>1. S \cap R = R
    OBVIOUS
  <2>. QED BY <2>1
<1>. HIDE DEF G
<1>5. IsSum(G, f, S)
  BY <1>2, <1>3 DEF IsSum
<1>6. IsFiniteSet(R)
  BY FS_Subset
<1>. QED BY <1>1, <1>4, <1>5, <1>6, SumIs

(* A sum may be taken over names for the members. *)
LEMMA SumRenamed ==
  ASSUME NEW S, IsFiniteSet(S), NEW D, IsFiniteSet(D), NEW e \in [D -> S],
         \A i, j \in D : e[i] = e[j] => i = j, \A x \in S : \E i \in D : e[i] = x,
         NEW f, \A x \in S : f[x] \in Int, NEW h, \A i \in D : h[i] = f[e[i]]
  PROVE  SumFunctionOnSet(h, D) = SumFunctionOnSet(f, S)
<1>1. PICK F : IsSum(F, f, S)
  BY SumExists
<1>. DEFINE Image(s) == {e[i] : i \in s}
            G == [s \in SUBSET D |-> F[Image(s)]]
<1>2. \A s \in SUBSET D : Image(s) \in SUBSET S
  OBVIOUS
<1>3. G \in [SUBSET D -> Int] /\ G[{}] = 0
  <2>1. Image({}) = {}
    OBVIOUS
  <2>. HIDE DEF Image
  <2>. QED BY <1>1, <1>2, <2>1 DEF IsSum
<1>4. ASSUME NEW s \in SUBSET D, NEW i \in s PROVE G[s] = h[i] + G[s \ {i}]
  <2>1. Image(s \ {i}) = Image(s) \ {e[i]} /\ e[i] \in Image(s)
    OBVIOUS
  <2>2. G[s] = F[Image(s)] /\ G[s \ {i}] = F[Image(s \ {i})]
    OBVIOUS
  <2>. HIDE DEF Image
  <2>3. F[Image(s)] = f[e[i]] + F[Image(s) \ {e[i]}]
    BY <1>1, <1>2, <2>1 DEF IsSum
  <2>. QED BY <2>1, <2>2, <2>3
<1>5. Image(D) = S
  OBVIOUS
<1>6. G[D] = F[S]
  BY <1>5
<1>. HIDE DEF G
<1>7. IsSum(G, h, D)
  BY <1>3, <1>4 DEF IsSum
<1>. QED BY <1>1, <1>6, <1>7, SumIs

LEMMA SumScaled ==
  ASSUME NEW S, IsFiniteSet(S), NEW a \in Int, NEW f, NEW h,
         \A x \in S : f[x] \in Int /\ h[x] = a * f[x]
  PROVE  SumFunctionOnSet(h, S) = a * SumFunctionOnSet(f, S)
<1>. DEFINE z == [x \in S |-> 0]
<1>1. \A x \in S : z[x] = 0
  OBVIOUS
<1>. HIDE DEF z
<1>2. SumFunctionOnSet(z, S) = 0
  <2>1. SumFunctionOnSet(z, S) = SumFunctionOnSet(z, {})
    BY <1>1, SumPart
  <2>. QED BY <2>1, SumEmpty
<1>3. \A x \in S : f[x] \in Int /\ z[x] \in Int /\ h[x] = a * f[x] + z[x]
  <2>1. \A n \in Int : a * n \in Int
    OBVIOUS
  <2>. QED BY <1>1, <2>1
<1>4. SumFunctionOnSet(h, S) = a * SumFunctionOnSet(f, S) + SumFunctionOnSet(z, S)
  <2>1. IsLinear(h, a, f, z, S)
    BY <1>3 DEF IsLinear
  <2>. QED BY <2>1, SumLinear
<1>5. SumFunctionOnSet(f, S) \in Int
  BY <1>3, SumStep
<1>. QED BY <1>2, <1>4, <1>5

LEMMA SumPlus ==
  ASSUME NEW S, IsFiniteSet(S), NEW f, NEW g, NEW h,
         \A x \in S : f[x] \in Int /\ g[x] \in Int /\ h[x] = f[x] + g[x]
  PROVE  SumFunctionOnSet(h, S) = SumFunctionOnSet(f, S) + SumFunctionOnSet(g, S)
<1>1. IsLinear(h, 1, f, g, S)
  BY DEF IsLinear
<1>2. SumFunctionOnSet(h, S) = 1 * SumFunctionOnSet(f, S) + SumFunctionOnSet(g, S)
  BY <1>1, SumLinear
<1>3. SumFunctionOnSet(f, S) \in Int
  BY SumStep
<1>. QED BY <1>2, <1>3

LEMMA Cancel == \A p, q, r \in Int : p + r = q + r => p = q
OBVIOUS

(* Sums may change places. *)
AreSums(f, a, S, D)      == \A x \in S : f[x] = SumFunctionOnSet(a[x], D)
IsTransposed(t, a, S, D) == \A x \in S, y \in D : a[x][y] \in Int /\ t[y][x] = a[x][y]

LEMMA SumExchange ==
  ASSUME NEW S, IsFiniteSet(S), NEW D, IsFiniteSet(D), NEW a, NEW t, IsTransposed(t, a, S, D),
         NEW f, AreSums(f, a, S, D), NEW g, AreSums(g, t, D, S)
  PROVE  SumFunctionOnSet(f, S) = SumFunctionOnSet(g, D)
<1>. DEFINE Of(s) == [y \in D |-> SumFunctionOnSet(t[y], s)]
            G == [s \in SUBSET S |-> SumFunctionOnSet(Of(s), D)]
<1>0. /\ \A x \in S, y \in D : a[x][y] \in Int /\ t[y][x] = a[x][y]
      /\ \A x \in S : f[x] = SumFunctionOnSet(a[x], D)
      /\ \A y \in D : g[y] = SumFunctionOnSet(t[y], S)
  BY DEF AreSums, IsTransposed
<1>2. ASSUME NEW s \in SUBSET S, NEW y \in D
      PROVE  /\ Of(s)[y] \in Int
             /\ \A x \in s : Of(s)[y] = a[x][y] + Of(s \ {x})[y]
  <2>1. IsFiniteSet(s) /\ \A x \in s : t[y][x] \in Int
    BY <1>0, FS_Subset
  <2>2. /\ SumFunctionOnSet(t[y], s) \in Int
        /\ \A x \in s : SumFunctionOnSet(t[y], s) = t[y][x] + SumFunctionOnSet(t[y], s \ {x})
    BY <2>1, SumStep
  <2>. QED BY <1>0, <2>2
<1>3. Of({}) = [y \in D |-> 0]
  BY SumEmpty
<1>4. \A y \in D : Of(S)[y] = g[y]
  BY <1>0
<1>. HIDE DEF Of
<1>5. ASSUME NEW s \in SUBSET S
      PROVE  /\ G[s] \in Int
             /\ \A x \in s : G[s] = f[x] + G[s \ {x}]
  <2>1. \A y \in D : Of(s)[y] \in Int
    BY <1>2
  <2>2. SumFunctionOnSet(Of(s), D) \in Int
    BY <2>1, SumStep
  <2>3. ASSUME NEW x \in s PROVE SumFunctionOnSet(Of(s), D) = f[x] + SumFunctionOnSet(Of(s \ {x}), D)
    <3>1. \A y \in D : a[x][y] \in Int /\ Of(s \ {x})[y] \in Int
                       /\ Of(s)[y] = a[x][y] + Of(s \ {x})[y]
      BY <1>0, <1>2
    <3>. DEFINE p == a[x]
                q == Of(s \ {x})
                r == Of(s)
    <3>0. \A y \in D : p[y] \in Int /\ q[y] \in Int /\ r[y] = p[y] + q[y]
      BY <3>1
    <3>. HIDE DEF p, q, r
    <3>2. SumFunctionOnSet(r, D) = SumFunctionOnSet(p, D) + SumFunctionOnSet(q, D)
      BY <3>0, SumPlus
    <3>. USE DEF p, q, r
    <3>3. SumFunctionOnSet(a[x], D) \in Int
      BY <1>0, SumStep
    <3>. QED BY <1>0, <3>2, <3>3
  <2>. QED BY <2>2, <2>3
<1>6. G[{}] = 0
  <2>1. \A y \in D : Of({})[y] = 0
    BY <1>3
  <2>2. SumFunctionOnSet(Of({}), D) = SumFunctionOnSet(Of({}), {})
    BY <2>1, SumPart
  <2>. QED BY <2>2, SumEmpty
<1>7. G[S] = SumFunctionOnSet(g, D)
  <2>1. \A y \in D : Of(S)[y] \in Int
    BY <1>2
  <2>2. SumFunctionOnSet(g, D) = SumFunctionOnSet(Of(S), D)
    BY <1>4, <2>1, SumSame
  <2>. QED BY <2>2
<1>8. G = [s \in SUBSET S |-> G[s]]
  OBVIOUS
<1>. HIDE DEF G
<1>9. IsSum(G, f, S)
  BY <1>5, <1>6, <1>8 DEF IsSum
<1>. QED BY <1>7, <1>9, SumIs

(* A graph whose edges go from a number to a greater one, with weights C:   *)
(* T is what each node is worth with all that is below it, where A is its   *)
(* own part; I is how often a node is reached from top.                     *)
IsWorth(T, A, C, P, S) ==
  \A m \in S : /\ T[m] \in Int /\ A[m] \in Int /\ T[m] = A[m] + SumFunctionOnSet(P[m], S)
               /\ \A s \in S : C[m][s] \in Int /\ P[m][s] = C[m][s] * T[s]
IsReached(I, C, Q, S, top) ==
  \A s \in S : /\ I[s] \in Int /\ I[s] = (IF s = top THEN 1 ELSE 0) + SumFunctionOnSet(Q[s], S)
               /\ \A m \in S : Q[s][m] = I[m] * C[m][s]
IsProduct(IA, I, A, S) == \A m \in S : IA[m] = I[m] * A[m]

(* The worth of the top, added up from below, is what all nodes that are    *)
(* reached from it are worth by themselves: the sum over the edges is taken *)
(* by their starts and by their ends.                                       *)
LEMMA TopDown ==
  ASSUME NEW S, IsFiniteSet(S), NEW top \in S, NEW A, NEW C,
         NEW T, NEW P, IsWorth(T, A, C, P, S), NEW I, NEW Q, IsReached(I, C, Q, S, top),
         NEW IA, IsProduct(IA, I, A, S)
  PROVE  T[top] = SumFunctionOnSet(IA, S)
<1>. DEFINE a == [m \in S |-> [s \in S |-> I[m] * (C[m][s] * T[s])]]
            t == [s \in S |-> [m \in S |-> I[m] * (C[m][s] * T[s])]]
            row == [m \in S |-> SumFunctionOnSet(a[m], S)]
            col == [s \in S |-> SumFunctionOnSet(t[s], S)]
            IT == [m \in S |-> I[m] * T[m]]
            at == [m \in S |-> IF m = top THEN T[top] ELSE 0]
<1>1. \A m \in S : /\ T[m] \in Int /\ A[m] \in Int /\ I[m] \in Int /\ IA[m] = I[m] * A[m]
                   /\ T[m] = A[m] + SumFunctionOnSet(P[m], S)
                   /\ I[m] = (IF m = top THEN 1 ELSE 0) + SumFunctionOnSet(Q[m], S)
  BY DEF IsWorth, IsReached, IsProduct
<1>2. ASSUME NEW m \in S, NEW s \in S
      PROVE  /\ C[m][s] \in Int /\ P[m][s] = C[m][s] * T[s] /\ Q[s][m] = I[m] * C[m][s]
             /\ P[m][s] \in Int /\ Q[s][m] \in Int
             /\ a[m][s] = I[m] * P[m][s] /\ a[m][s] \in Int
             /\ t[s][m] = a[m][s] /\ t[s][m] = T[s] * Q[s][m]
  <2>1. C[m][s] \in Int /\ P[m][s] = C[m][s] * T[s]
    BY DEF IsWorth
  <2>2. Q[s][m] = I[m] * C[m][s]
    BY DEF IsReached
  <2>3. a[m][s] = I[m] * (C[m][s] * T[s]) /\ t[s][m] = I[m] * (C[m][s] * T[s])
    OBVIOUS
  <2>. DEFINE i == I[m]
              c == C[m][s]
              w == T[s]
  <2>4. i \in Int /\ c \in Int /\ w \in Int
    BY <1>1, <2>1
  <2>. HIDE DEF i, c, w
  <2>5. i * c \in Int /\ c * w \in Int /\ i * (c * w) = w * (i * c) /\ i * (c * w) \in Int
    BY <2>4
  <2>. HIDE DEF a, t
  <2>. QED BY <2>1, <2>2, <2>3, <2>5 DEF i, c, w
<1>3. /\ \A m \in S : row[m] = SumFunctionOnSet(a[m], S) /\ col[m] = SumFunctionOnSet(t[m], S)
      /\ \A m \in S : IT[m] = I[m] * T[m] /\ at[m] = IF m = top THEN T[top] ELSE 0
  OBVIOUS
<1>. HIDE DEF row, col, IT, at, a, t
<1>4. ASSUME NEW m \in S PROVE row[m] \in Int /\ IA[m] \in Int /\ IT[m] = IA[m] + row[m]
  <2>. DEFINE p == P[m]
              h == a[m]
              i == I[m]
              x == SumFunctionOnSet(p, S)
  <2>1. \A s \in S : p[s] \in Int /\ h[s] = i * p[s]
    BY <1>2
  <2>2. i \in Int /\ A[m] \in Int /\ T[m] = A[m] + x /\ IT[m] = i * T[m] /\ IA[m] = i * A[m]
        /\ row[m] = SumFunctionOnSet(h, S)
    BY <1>1, <1>3
  <2>. HIDE DEF p, h, i
  <2>3. x \in Int
    BY <2>1, SumStep
  <2>4. SumFunctionOnSet(h, S) = i * x
    BY <2>1, <2>2, SumScaled
  <2>. HIDE DEF x
  <2>5. i * (A[m] + x) = i * A[m] + i * x /\ i * A[m] \in Int /\ i * x \in Int
    BY <2>2, <2>3
  <2>. QED BY <2>2, <2>4, <2>5
<1>5. ASSUME NEW s \in S PROVE col[s] \in Int /\ at[s] \in Int /\ IT[s] = at[s] + col[s]
  <2>. DEFINE q == Q[s]
              h == t[s]
              w == T[s]
              d == IF s = top THEN 1 ELSE 0
              x == SumFunctionOnSet(q, S)
  <2>1. \A m \in S : q[m] \in Int /\ h[m] = w * q[m]
    BY <1>2
  <2>2. w \in Int /\ I[s] \in Int /\ I[s] = d + x /\ IT[s] = I[s] * w /\ d \in Int
        /\ at[s] = (IF s = top THEN w ELSE 0) /\ col[s] = SumFunctionOnSet(h, S)
    BY <1>1, <1>3
  <2>3. (d = 1 /\ s = top) \/ (d = 0 /\ s # top)
    OBVIOUS
  <2>. HIDE DEF q, h, w, d
  <2>4. x \in Int
    BY <2>1, SumStep
  <2>5. SumFunctionOnSet(h, S) = w * x
    BY <2>1, <2>2, SumScaled
  <2>. HIDE DEF x
  <2>6. I[s] * w = w * I[s] /\ w * (d + x) = w * d + w * x /\ w * x \in Int /\ w * d = d * w
        /\ 0 * w = 0 /\ 1 * w = w
    <3>1. \A u, v \in Int : u * v = v * u
      OBVIOUS
    <3>2. \A u, v, z \in Int : u * (v + z) = u * v + u * z
      OBVIOUS
    <3>3. \A u, v \in Int : u * v \in Int /\ 0 * u = 0 /\ 1 * u = u
      OBVIOUS
    <3>4. I[s] * w = w * I[s] /\ w * d = d * w
      BY <2>2, <3>1, Zenon
    <3>5. w * (d + x) = w * d + w * x
      BY <2>2, <2>4, <3>2, Zenon
    <3>6. w * x \in Int /\ 0 * w = 0 /\ 1 * w = w
      BY <2>2, <2>4, <3>3, Zenon
    <3>. QED BY <3>4, <3>5, <3>6, Zenon
  <2>7. at[s] = w * d
    <3>1. CASE d = 1 /\ s = top
      BY <2>2, <2>6, <3>1, Zenon
    <3>2. CASE d = 0 /\ s # top
      BY <2>2, <2>6, <3>2, Zenon
    <3>. QED BY <2>3, <3>1, <3>2, Zenon
  <2>8. IT[s] = w * d + w * x
    BY <2>2, <2>6
  <2>9. at[s] \in Int
    BY <2>2
  <2>. QED BY <2>2, <2>5, <2>6, <2>7, <2>8, <2>9
<1>6. SumFunctionOnSet(row, S) = SumFunctionOnSet(col, S)
  <2>1. IsTransposed(t, a, S, S) /\ AreSums(row, a, S, S) /\ AreSums(col, t, S, S)
    BY <1>2, <1>3 DEF IsTransposed, AreSums
  <2>. QED BY <2>1, SumExchange
<1>7. SumFunctionOnSet(IT, S) = SumFunctionOnSet(IA, S) + SumFunctionOnSet(row, S)
  BY <1>4, SumPlus
<1>8. SumFunctionOnSet(IT, S) = SumFunctionOnSet(at, S) + SumFunctionOnSet(col, S)
  BY <1>5, SumPlus
<1>9. SumFunctionOnSet(at, S) = T[top]
  <2>1. (\A s \in S \ {top} : at[s] = 0) /\ at[top] = T[top] /\ T[top] \in Int
    BY <1>1, <1>3
  <2>2. SumFunctionOnSet(at, S) = SumFunctionOnSet(at, {top})
    BY <1>5, <2>1, SumPart
  <2>3. IsFiniteSet({top}) /\ {top} \ {top} = {}
    BY FS_Singleton
  <2>4. SumFunctionOnSet(at, {top}) = at[top] + SumFunctionOnSet(at, {top} \ {top})
    BY <1>5, <2>3, SumStep
  <2>. QED BY <2>1, <2>2, <2>3, <2>4, SumEmpty
<1>10. /\ SumFunctionOnSet(IA, S) \in Int /\ SumFunctionOnSet(col, S) \in Int
       /\ SumFunctionOnSet(at, S) \in Int
  BY <1>4, <1>5, SumStep
<1>11. SumFunctionOnSet(IA, S) + SumFunctionOnSet(col, S)
       = SumFunctionOnSet(at, S) + SumFunctionOnSet(col, S)
  BY <1>6, <1>7, <1>8
<1>12. SumFunctionOnSet(IA, S) = SumFunctionOnSet(at, S)
  BY <1>10, <1>11, Cancel, Zenon
<1>. QED BY <1>9, <1>12

-----------------------------------------------------------------------------
(* An item before a sequence. *)
LEMMA ConsIs ==
  ASSUME NEW S, NEW x \in S, NEW s \in Seq(S)
  PROVE  << x >> \o s \in Seq(S) /\ << x >> \o s # << >> /\ Head(<< x >> \o s) = x /\ Tail(<< x >> \o s) = s
<1>. DEFINE a == << x >>
<1>1. a \in Seq(S) /\ a # << >> /\ Head(a) = x /\ Tail(a) = << >>
  OBVIOUS
<1>. HIDE DEF a
<1>2. Head(a \o s) = x /\ Tail(a \o s) = Tail(a) \o s /\ a \o s # << >>
  BY <1>1, ConcatFirst
<1>3. a \o s \in Seq(S) /\ << >> \o s = s
  BY <1>1, ConcatProperties, ConcatEmptySeq
<1>. QED BY <1>1, <1>2, <1>3 DEF a

(* What is made step by step, each from the last one: it exists. *)
IsMade(g, nx, W, n) == \A i \in 1 .. n : g[i - 1] \in W /\ g[i] \in W /\ g[i] = nx[i][g[i - 1]]

LEMMA ChainExists ==
  ASSUME NEW n \in Nat, NEW W, NEW w \in W, NEW nx, \A i \in 1 .. n : \A v \in W : nx[i][v] \in W
  PROVE  \E g : g[0] = w /\ IsMade(g, nx, W, n)
<1>. DEFINE K == {k \in Nat : k <= n => \E g \in [0 .. n -> W] : g[0] = w /\ IsMade(g, nx, W, k)}
<1>1. 0 \in K
  <2>1. [i \in 0 .. n |-> w] \in [0 .. n -> W] /\ [i \in 0 .. n |-> w][0] = w
        /\ IsMade([i \in 0 .. n |-> w], nx, W, 0)
    BY DEF IsMade
  <2>. QED BY <2>1
<1>2. ASSUME NEW k \in Nat, k \in K PROVE k + 1 \in K
  <2>. SUFFICES ASSUME k + 1 <= n PROVE \E g \in [0 .. n -> W] : g[0] = w /\ IsMade(g, nx, W, k + 1)
    OBVIOUS
  <2>1. PICK g \in [0 .. n -> W] : g[0] = w /\ IsMade(g, nx, W, k)
    BY <1>2
  <2>. DEFINE v == nx[k + 1][g[k]]
              h == [g EXCEPT ![k + 1] = v]
  <2>2. g[k] \in W /\ v \in W /\ k + 1 \in 0 .. n
    OBVIOUS
  <2>. HIDE DEF v
  <2>3. h \in [0 .. n -> W] /\ \A i \in 0 .. n : h[i] = IF i = k + 1 THEN v ELSE g[i]
    BY <2>2
  <2>. HIDE DEF h
  <2>4. ASSUME NEW i \in 1 .. k + 1 PROVE h[i - 1] \in W /\ h[i] \in W /\ h[i] = nx[i][h[i - 1]]
    <3>1. i - 1 \in 0 .. n /\ i \in 0 .. n /\ h[i - 1] = g[i - 1]
      BY <2>3
    <3>2. h[i - 1] \in W /\ h[i] \in W
      BY <2>3, <3>1
    <3>3. CASE i = k + 1
      <4>1. i - 1 = k
        BY <3>3
      <4>. QED BY <2>3, <3>1, <3>2, <3>3, <4>1 DEF v
    <3>4. CASE i # k + 1
      <4>1. i \in 1 .. k
        BY <3>4
      <4>2. g[i] = nx[i][g[i - 1]]
        BY <2>1, <4>1 DEF IsMade
      <4>. QED BY <2>3, <3>1, <3>2, <3>4, <4>2
    <3>. QED BY <3>3, <3>4
  <2>5. h[0] = w
    BY <2>1, <2>3
  <2>. QED BY <2>3, <2>4, <2>5 DEF IsMade
<1>3. \A k \in Nat : 0 <= k => k \in K
  <2>. HIDE DEF K
  <2>. QED BY <1>1, <1>2, Upward
<1>4. n \in K
  <2>. HIDE DEF K
  <2>. QED BY <1>3
<1>. QED BY <1>4

(* A concatenation of many, from its last part up: what is left from the    *)
(* i-th on is the i-th and what is left after it.                           *)
IsLeft(r, ss, S, n) ==
  \A i \in 1 .. n : ss[i] \in Seq(S) /\ r[i] \in Seq(S) /\ r[i + 1] \in Seq(S) /\ r[i] = ss[i] \o r[i + 1]

LEMMA LeftExists ==
  ASSUME NEW S, NEW n \in Nat, NEW ss, \A i \in 1 .. n : ss[i] \in Seq(S), NEW e \in Seq(S)
  PROVE  \E r : r[n + 1] = e /\ IsLeft(r, ss, S, n)
<1>. DEFINE nx == [i \in 1 .. n |-> [v \in Seq(S) |-> ss[n + 1 - i] \o v]]
            W == Seq(S)
<1>1. ASSUME NEW i \in 1 .. n, NEW v \in W PROVE nx[i][v] \in W /\ nx[i][v] = ss[n + 1 - i] \o v
  <2>. DEFINE a == ss[n + 1 - i]
  <2>1. a \in Seq(S) /\ v \in Seq(S)
    <3>1. n + 1 - i \in 1 .. n
      OBVIOUS
    <3>. QED BY <3>1
  <2>2. nx[i][v] = a \o v
    OBVIOUS
  <2>. HIDE DEF a, nx
  <2>3. a \o v \in Seq(S)
    BY <2>1, ConcatProperties
  <2>. QED BY <2>2, <2>3 DEF a
<1>. HIDE DEF nx, W
<1>2. PICK g : g[0] = e /\ IsMade(g, nx, W, n)
  <2>1. e \in W
    BY DEF W
  <2>. QED BY <1>1, <2>1, ChainExists
<1>. DEFINE r == [i \in 1 .. n + 1 |-> g[n + 1 - i]]
<1>3. \A i \in 1 .. n + 1 : r[i] = g[n + 1 - i]
  OBVIOUS
<1>. HIDE DEF r
<1>4. ASSUME NEW i \in 1 .. n
      PROVE  ss[i] \in Seq(S) /\ r[i] \in Seq(S) /\ r[i + 1] \in Seq(S) /\ r[i] = ss[i] \o r[i + 1]
  <2>. DEFINE j == n + 1 - i
  <2>1. j \in 1 .. n /\ n + 1 - j = i /\ n + 1 - (i + 1) = j - 1 /\ i + 1 \in 1 .. n + 1 /\ i \in 1 .. n + 1
    OBVIOUS
  <2>2. r[i] = g[j] /\ r[i + 1] = g[j - 1]
    BY <1>3, <2>1
  <2>. HIDE DEF j
  <2>3. g[j - 1] \in W /\ g[j] \in W /\ g[j] = nx[j][g[j - 1]]
    BY <1>2, <2>1 DEF IsMade
  <2>4. nx[j][g[j - 1]] = ss[i] \o g[j - 1]
    BY <1>1, <2>1, <2>3
  <2>. QED BY <2>2, <2>3, <2>4 DEF W
<1>5. r[n + 1] = e
  <2>1. n + 1 \in 1 .. n + 1 /\ n + 1 - (n + 1) = 0
    OBVIOUS
  <2>. QED BY <1>2, <1>3, <2>1
<1>. QED BY <1>4, <1>5 DEF IsLeft

LEMMA FlattenIs ==
  ASSUME NEW S, NEW n \in Nat \ {0}, NEW ss, ss \in [1 .. n -> Seq(S)], NEW r, IsLeft(r, ss, S, n)
  PROVE  FlattenSeq(ss) \o r[n + 1] = r[1]
<1>. DEFINE Body(g) == [i \in 1 .. Len(ss) |-> IF i = 1 THEN ss[i] ELSE g[i - 1] \o ss[i]]
            F == CHOOSE g : g = Body(g)
            nx == [i \in 1 .. n |-> [v \in Seq(S) |-> v \o ss[i]]]
            W == Seq(S)
<1>0. Len(ss) = n /\ \A i \in 1 .. n : ss[i] \in W
  OBVIOUS
<1>1. FlattenSeq(ss) = F[n]
  <2>1. Len(ss) # 0
    BY <1>0
  <2>. HIDE DEF F, Body
  <2>2. FlattenSeq(ss) = F[Len(ss)]
    BY <2>1 DEF FlattenSeq, F, Body
  <2>. QED BY <1>0, <2>2
<1>2. ASSUME NEW i \in 1 .. n, NEW v \in W PROVE nx[i][v] \in W /\ nx[i][v] = v \o ss[i]
  <2>. DEFINE a == ss[i]
  <2>1. a \in Seq(S) /\ v \in Seq(S) /\ nx[i][v] = v \o a
    BY <1>0
  <2>. HIDE DEF a, nx
  <2>2. v \o a \in Seq(S)
    BY <2>1, ConcatProperties
  <2>. QED BY <2>1, <2>2 DEF a
<1>. HIDE DEF nx
<1>3. PICK g : g[0] = << >> /\ IsMade(g, nx, W, n)
  <2>. HIDE DEF W
  <2>1. << >> \in W
    BY EmptySeq DEF W
  <2>. QED BY <1>2, <2>1, ChainExists
<1>. HIDE DEF W
<1>4. ASSUME NEW i \in 1 .. n
      PROVE  g[i] \in W /\ g[i] = IF i = 1 THEN ss[i] ELSE g[i - 1] \o ss[i]
  <2>1. g[i - 1] \in W /\ g[i] \in W /\ g[i] = g[i - 1] \o ss[i]
    BY <1>2, <1>3 DEF IsMade
  <2>2. CASE i = 1
    <3>1. g[i] = << >> \o ss[i]
      BY <1>3, <2>1, <2>2
    <3>. DEFINE a == ss[i]
    <3>2. a \in Seq(S)
      BY <1>0 DEF W
    <3>. HIDE DEF a
    <3>3. << >> \o a = a
      BY <3>2, ConcatEmptySeq
    <3>. QED BY <2>1, <2>2, <3>1, <3>3 DEF a
  <2>. QED BY <2>1, <2>2
<1>5. \E h : h = Body(h)
  <2>. DEFINE h == [i \in 1 .. n |-> g[i]]
  <2>1. ASSUME NEW i \in 1 .. n PROVE h[i] = Body(h)[i]
    <3>1. i # 1 => i - 1 \in 1 .. n
      OBVIOUS
    <3>2. i # 1 => h[i - 1] = g[i - 1]
      BY <3>1
    <3>3. h[i] = g[i] /\ Body(h)[i] = IF i = 1 THEN ss[i] ELSE h[i - 1] \o ss[i]
      BY <1>0
    <3>. HIDE DEF h, Body
    <3>. QED BY <1>4, <3>2, <3>3
  <2>2. Body(h) = [i \in 1 .. n |-> Body(h)[i]]
    BY <1>0
  <2>3. h = [i \in 1 .. n |-> h[i]]
    OBVIOUS
  <2>. HIDE DEF Body, h
  <2>4. h = Body(h)
    BY <2>1, <2>2, <2>3
  <2>. QED BY <2>4
<1>6. F = Body(F)
  <2>. HIDE DEF Body
  <2>. QED BY <1>5
<1>. HIDE DEF F
<1>7. \A i \in 1 .. n : F[i] = IF i = 1 THEN ss[i] ELSE F[i - 1] \o ss[i]
  BY <1>0, <1>6
<1>. DEFINE Holds(k) == F[k] \in Seq(S) /\ F[k] \o r[k + 1] = r[1]
            J == {k \in Nat : k <= n => Holds(k)}
<1>. HIDE DEF Holds
<1>8. 1 \in J
  <2>1. 1 \in 1 .. n /\ 1 + 1 = 2
    OBVIOUS
  <2>2. F[1] = ss[1]
    BY <1>7, <2>1
  <2>3. ss[1] \in Seq(S) /\ r[1] = ss[1] \o r[1 + 1]
    BY <2>1 DEF IsLeft
  <2>4. F[1] \in Seq(S) /\ F[1] \o r[1 + 1] = r[1]
    BY <2>2, <2>3
  <2>. QED BY <2>4 DEF Holds
<1>9. ASSUME NEW k \in Nat, 1 <= k, k \in J PROVE k + 1 \in J
  <2>. SUFFICES ASSUME k + 1 <= n PROVE Holds(k + 1)
    OBVIOUS
  <2>0. Holds(k)
    BY <1>9
  <2>1. F[k] \in Seq(S) /\ F[k] \o r[k + 1] = r[1]
    BY <2>0 DEF Holds
  <2>. DEFINE m == k + 1
  <2>2. m \in 1 .. n /\ m # 1 /\ m - 1 = k
    BY <1>9
  <2>. HIDE DEF m, J
  <2>3. F[m] = F[k] \o ss[m]
    BY <1>7, <2>2
  <2>. DEFINE a == F[k]
              b == ss[m]
              c == r[m + 1]
  <2>4. a \in Seq(S) /\ b \in Seq(S) /\ c \in Seq(S) /\ r[m] = b \o c
    BY <2>1, <2>2 DEF IsLeft
  <2>. HIDE DEF a, b, c
  <2>5. a \o b \in Seq(S) /\ (a \o b) \o c = a \o (b \o c)
    <3>1. Regroups(a, b, c) /\ a \o b \in Seq(S)
      BY <2>4, ConcatRegroups
    <3>. QED BY <3>1 DEF Regroups
  <2>6. F[m] = a \o b /\ a \o r[m] = r[1]
    BY <2>1, <2>3 DEF a, b, m
  <2>7. F[m] \in Seq(S) /\ F[m] \o r[m + 1] = r[1]
    BY <2>4, <2>5, <2>6 DEF c
  <2>. QED BY <2>7 DEF m, Holds
<1>10. \A k \in Nat : 1 <= k => k \in J
  <2>. HIDE DEF J
  <2>. QED BY <1>8, <1>9, Upward
<1>11. n \in J
  <2>. HIDE DEF J
  <2>. QED BY <1>10
<1>12. Holds(n)
  BY <1>11
<1>. HIDE DEF J
<1>. QED BY <1>1, <1>12 DEF Holds

(* The lines of a section, and the items of a pair. *)
RegroupsSix(S, h, o, c, d, b, a, r) ==
  /\ (((h \o o) \o c) \o d) \o (b \o a) \in Seq(S)
  /\ ((((h \o o) \o c) \o d) \o (b \o a)) \o r = h \o (o \o (c \o (d \o (b \o (a \o r)))))

LEMMA ConcatSix ==
  ASSUME NEW S, NEW h \in Seq(S), NEW o \in Seq(S), NEW c \in Seq(S), NEW d \in Seq(S),
         NEW b \in Seq(S), NEW a \in Seq(S), NEW r \in Seq(S)
  PROVE  RegroupsSix(S, h, o, c, d, b, a, r)
<1>. DEFINE ar == a \o r
            e == b \o ar
            f == b \o a
            p == h \o o
            q == p \o c
            u == q \o d
            v == d \o e
            w == c \o v
<1>1. ar \in Seq(S) /\ f \in Seq(S) /\ p \in Seq(S)
  BY ConcatProperties
<1>. HIDE DEF ar, f, p
<1>2. e \in Seq(S) /\ q \in Seq(S)
  BY <1>1, ConcatProperties
<1>. HIDE DEF e, q
<1>3. u \in Seq(S) /\ v \in Seq(S)
  BY <1>2, ConcatProperties
<1>. HIDE DEF u, v
<1>4. w \in Seq(S) /\ u \o f \in Seq(S)
  BY <1>1, <1>3, ConcatProperties
<1>. HIDE DEF w
<1>5. /\ Regroups(u, f, r) /\ Regroups(b, a, r) /\ Regroups(q, d, e) /\ Regroups(p, c, v)
      /\ Regroups(h, o, w)
  BY <1>1, <1>2, <1>3, <1>4, ConcatRegroups
<1>6. (u \o f) \o r = u \o (f \o r)
  BY <1>5 DEF Regroups
<1>7. f \o r = e
  BY <1>5 DEF Regroups, f, e, ar
<1>8. u \o e = q \o v
  BY <1>5 DEF Regroups, u, v
<1>9. q \o v = p \o w
  BY <1>5 DEF Regroups, q, w
<1>10. p \o w = h \o (o \o w)
  BY <1>5 DEF Regroups, p
<1>11. u \o f \in Seq(S) /\ (u \o f) \o r = h \o (o \o w)
  BY <1>4, <1>6, <1>7, <1>8, <1>9, <1>10
<1>. QED BY <1>11 DEF RegroupsSix, u, v, w, q, p, f, e, ar

LEMMA ConcatPair == \A x, y : << x >> \o << y >> = << x, y >>
<1>. SUFFICES ASSUME NEW x, NEW y PROVE << x >> \o << y >> = << x, y >>
  OBVIOUS
<1>. DEFINE S == {x, y}
            a == << x >>
<1>1. a \in Seq(S) /\ y \in S
  OBVIOUS
<1>2. Append(a, y) = << x, y >>
  BY Tuples
<1>. HIDE DEF S, a
<1>3. Append(a, y) = a \o << y >>
  BY <1>1, AppendIsConcat
<1>. QED BY <1>2, <1>3 DEF a

(* A set as a sequence: every member stands at one place. *)
LEMMA SetToSeqIs ==
  ASSUME NEW S, IsFiniteSet(S)
  PROVE  /\ SetToSeq(S) \in Seq(S) /\ DOMAIN SetToSeq(S) = 1 .. Len(SetToSeq(S))
         /\ Len(SetToSeq(S)) \in Nat
         /\ \A j \in 1 .. Len(SetToSeq(S)) : SetToSeq(S)[j] \in S
         /\ \A i, j \in 1 .. Len(SetToSeq(S)) : SetToSeq(S)[i] = SetToSeq(S)[j] => i = j
         /\ \A x \in S : \E j \in 1 .. Len(SetToSeq(S)) : SetToSeq(S)[j] = x
<1>. DEFINE n == Cardinality(S)
            f == SetToSeq(S)
<1>1. n \in Nat
  BY FS_CardinalityType
<1>2. \E g \in [1 .. n -> S] : IsInjective(g)
  <2>1. PICK g : g \in Bijection(1 .. n, S)
    BY FS_CardinalityType DEF ExistsBijection
  <2>2. g \in [1 .. n -> S] /\ IsInjective(g)
    BY <2>1 DEF Bijection, Injection
  <2>. QED BY <2>2
<1>3. f \in [1 .. n -> S] /\ IsInjective(f)
  BY <1>2 DEF SetToSeq
<1>. HIDE DEF f
<1>4. f \in Seq(S) /\ Len(f) = n /\ DOMAIN f = 1 .. n
  <2>. HIDE DEF n
  <2>1. f \in Seq(S)
    BY <1>1, <1>3
  <2>. QED BY <1>1, <1>3, <2>1, LenProperties
<1>5. \A i, j \in 1 .. n : f[i] = f[j] => i = j
  BY <1>3 DEF IsInjective
<1>6. f \in Surjection(1 .. n, S)
  <2>1. f \in Injection(1 .. n, S)
    BY <1>3 DEF Injection
  <2>2. IsFiniteSet(1 .. n) /\ Cardinality(1 .. n) = n
    BY <1>1, FS_Interval
  <2>. QED BY <2>1, <2>2, FS_Injection
<1>7. \A x \in S : \E j \in 1 .. n : f[j] = x
  BY <1>6 DEF Surjection
<1>. HIDE DEF n
<1>8. \A j \in 1 .. n : f[j] \in S
  BY <1>3
<1>. QED BY <1>1, <1>4, <1>5, <1>7, <1>8 DEF f
=============================================================================
