------------------------- MODULE DistinctSequences -------------------------
(***************************************************************************)
(* Facts about sequences without repetitions, such as the lists of idle    *)
(* connections and of Task objects: what each list operation does to the   *)
(* set of elements; and what taking an element out leaves of a sequence.   *)
(***************************************************************************)
EXTENDS Integers, Sequences, FiniteSets, Functions, FiniteSetTheorems,
        WellFoundedInduction, TLAPS

LEMMA EmptyDistinct ==
  ASSUME NEW D
  PROVE  IsInjective(<<>>) /\ Range(<<>>) = {} /\ <<>> \in Seq(D) /\ Len(<<>>) = 0
BY DEF IsInjective, Range

(* Taking the front.                                                       *)
LEMMA TailOfDistinct ==
  ASSUME NEW D, NEW s \in Seq(D), s # <<>>, IsInjective(s)
  PROVE  /\ Head(s) \in Range(s) /\ Head(s) \in D
         /\ Tail(s) \in Seq(D) /\ Len(Tail(s)) = Len(s) - 1
         /\ IsInjective(Tail(s)) /\ Range(Tail(s)) = Range(s) \ {Head(s)}
<1>1. /\ Tail(s) \in Seq(D) /\ Len(Tail(s)) = Len(s) - 1 /\ Len(s) \in Nat \ {0}
      /\ DOMAIN s = 1 .. Len(s) /\ DOMAIN Tail(s) = 1 .. Len(s) - 1
      /\ \A i \in 1 .. Len(s) - 1 : Tail(s)[i] = s[i + 1]
      /\ Head(s) = s[1]
  OBVIOUS
<1>2. IsInjective(Tail(s))
  <2> SUFFICES ASSUME NEW i \in 1 .. Len(s) - 1, NEW j \in 1 .. Len(s) - 1,
                      Tail(s)[i] = Tail(s)[j]
               PROVE  i = j
    BY <1>1 DEF IsInjective
  <2>1. i + 1 \in DOMAIN s /\ j + 1 \in DOMAIN s /\ s[i + 1] = s[j + 1]
    BY <1>1
  <2>2. i + 1 = j + 1
    BY <2>1 DEF IsInjective
  <2> QED
    BY <2>2
<1>3. Range(Tail(s)) \subseteq Range(s) \ {Head(s)}
  <2> SUFFICES ASSUME NEW i \in 1 .. Len(s) - 1
               PROVE  Tail(s)[i] \in Range(s) \ {Head(s)}
    BY <1>1 DEF Range
  <2>1. i + 1 \in DOMAIN s /\ 1 \in DOMAIN s /\ i + 1 # 1 /\ Tail(s)[i] = s[i + 1]
    BY <1>1
  <2>2. s[i + 1] # s[1]
    BY <2>1 DEF IsInjective
  <2> QED
    BY <1>1, <2>1, <2>2 DEF Range
<1>4. Range(s) \ {Head(s)} \subseteq Range(Tail(s))
  <2> SUFFICES ASSUME NEW i \in 1 .. Len(s), s[i] # s[1]
               PROVE  s[i] \in Range(Tail(s))
    BY <1>1 DEF Range
  <2>1. i - 1 \in DOMAIN Tail(s) /\ Tail(s)[i - 1] = s[i]
    BY <1>1
  <2> QED
    BY <2>1 DEF Range
<1>5. 1 \in DOMAIN s /\ s[1] \in D
  BY <1>1
<1> QED
  BY <1>1, <1>2, <1>3, <1>4, <1>5 DEF Range

(* Adding a new element at the back.                                       *)
LEMMA AppendToDistinct ==
  ASSUME NEW D, NEW s \in Seq(D), NEW c \in D, IsInjective(s), c \notin Range(s)
  PROVE  /\ Append(s, c) \in Seq(D) /\ Len(Append(s, c)) = Len(s) + 1
         /\ IsInjective(Append(s, c)) /\ Range(Append(s, c)) = Range(s) \cup {c}
<1> DEFINE t == Append(s, c)
<1>1. /\ t \in Seq(D) /\ Len(t) = Len(s) + 1 /\ Len(s) \in Nat
      /\ DOMAIN s = 1 .. Len(s) /\ DOMAIN t = 1 .. Len(s) + 1
      /\ \A i \in 1 .. Len(s) : t[i] = s[i]
      /\ t[Len(s) + 1] = c
  OBVIOUS
<1> HIDE DEF t
<1>2. \A i \in 1 .. Len(s) : t[i] # c
  BY <1>1 DEF Range
<1>3. IsInjective(t)
  <2> SUFFICES ASSUME NEW i \in DOMAIN t, NEW j \in DOMAIN t, t[i] = t[j]
               PROVE  i = j
    BY DEF IsInjective
  <2>1. CASE i \in DOMAIN s /\ j \in DOMAIN s
    BY <1>1, <2>1 DEF IsInjective
  <2>2. CASE ~(i \in DOMAIN s /\ j \in DOMAIN s)
    BY <1>1, <1>2, <2>2
  <2> QED
    BY <2>1, <2>2
<1>4. Range(t) = Range(s) \cup {c}
  <2>1. Range(t) \subseteq Range(s) \cup {c}
    BY <1>1 DEF Range
  <2>2. Range(s) \subseteq Range(t)
    BY <1>1 DEF Range
  <2>3. c \in Range(t)
    <3>1. Len(s) + 1 \in DOMAIN t
      BY <1>1
    <3> QED
      BY <1>1, <3>1 DEF Range
  <2> QED
    BY <2>1, <2>2, <2>3
<1> QED
  BY <1>1, <1>3, <1>4 DEF t

(* Adding a new element at the front.                                      *)
LEMMA ConsToDistinct ==
  ASSUME NEW D, NEW s \in Seq(D), NEW c \in D, IsInjective(s), c \notin Range(s)
  PROVE  /\ <<c>> \o s \in Seq(D)
         /\ IsInjective(<<c>> \o s) /\ Range(<<c>> \o s) = Range(s) \cup {c}
<1> DEFINE t == <<c>> \o s
<1>1. /\ t \in Seq(D) /\ Len(s) \in Nat
      /\ DOMAIN s = 1 .. Len(s) /\ DOMAIN t = 1 .. Len(s) + 1
      /\ t[1] = c
      /\ \A i \in 2 .. Len(s) + 1 : t[i] = s[i - 1]
  OBVIOUS
<1> HIDE DEF t
<1>2. \A i \in 2 .. Len(s) + 1 : i - 1 \in DOMAIN s /\ t[i] # c
  BY <1>1 DEF Range
<1>3. IsInjective(t)
  <2> SUFFICES ASSUME NEW i \in DOMAIN t, NEW j \in DOMAIN t, t[i] = t[j]
               PROVE  i = j
    BY DEF IsInjective
  <2>1. CASE i # 1 /\ j # 1
    <3>1. i - 1 \in DOMAIN s /\ j - 1 \in DOMAIN s /\ s[i - 1] = s[j - 1]
      BY <1>1, <2>1
    <3>2. i - 1 = j - 1
      BY <3>1 DEF IsInjective
    <3> QED
      BY <1>1, <3>2
  <2>2. CASE i = 1 \/ j = 1
    BY <1>1, <1>2, <2>2
  <2> QED
    BY <2>1, <2>2
<1>4. Range(t) = Range(s) \cup {c}
  <2>1. Range(t) \subseteq Range(s) \cup {c}
    BY <1>1, <1>2 DEF Range
  <2>2. Range(s) \subseteq Range(t)
    <3> SUFFICES ASSUME NEW i \in DOMAIN s
                 PROVE  s[i] \in Range(t)
      BY DEF Range
    <3>1. i + 1 \in DOMAIN t /\ t[i + 1] = s[i]
      BY <1>1
    <3> QED
      BY <3>1 DEF Range
  <2>3. c \in Range(t)
    BY <1>1 DEF Range
  <2> QED
    BY <2>1, <2>2, <2>3
<1> QED
  BY <1>1, <1>3, <1>4 DEF t

(* Keeping the first k.                                                    *)
LEMMA PrefixOfDistinct ==
  ASSUME NEW D, NEW s \in Seq(D), NEW k \in 0 .. Len(s), IsInjective(s)
  PROVE  /\ SubSeq(s, 1, k) \in Seq(D) /\ IsInjective(SubSeq(s, 1, k))
         /\ Range(SubSeq(s, 1, k)) = Range(s) \ {s[i] : i \in k + 1 .. Len(s)}
<1> DEFINE t == SubSeq(s, 1, k)
<1>1. /\ t \in Seq(D) /\ DOMAIN t = 1 .. k /\ \A i \in 1 .. k : t[i] = s[i]
      /\ DOMAIN s = 1 .. Len(s) /\ k \in Nat /\ Len(s) \in Nat /\ k <= Len(s)
  OBVIOUS
<1> HIDE DEF t
<1>2. IsInjective(t)
  BY <1>1 DEF IsInjective
<1>3. Range(t) \subseteq Range(s) \ {s[i] : i \in k + 1 .. Len(s)}
  <2> SUFFICES ASSUME NEW j \in 1 .. k
               PROVE  s[j] \in Range(s) /\ \A i \in k + 1 .. Len(s) : s[j] # s[i]
    BY <1>1 DEF Range
  <2> QED
    BY <1>1 DEF Range, IsInjective
<1>4. Range(s) \ {s[i] : i \in k + 1 .. Len(s)} \subseteq Range(t)
  BY <1>1 DEF Range
<1> QED
  BY <1>1, <1>2, <1>3, <1>4 DEF t

(* An element of such a sequence is in it once.                            *)
LEMMA OccursOnce ==
  ASSUME NEW D, NEW s \in Seq(D), IsInjective(s), NEW n
  PROVE  Cardinality({i \in DOMAIN s : s[i] = n}) = IF n \in Range(s) THEN 1 ELSE 0
<1>1. CASE n \in Range(s)
  <2>1. PICK i \in DOMAIN s : s[i] = n
    BY <1>1 DEF Range
  <2>2. {j \in DOMAIN s : s[j] = n} = {i}
    BY <2>1 DEF IsInjective
  <2> QED
    BY <1>1, <2>2, FS_Singleton
<1>2. CASE n \notin Range(s)
  <2>1. {j \in DOMAIN s : s[j] = n} = {}
    BY <1>2 DEF Range
  <2> QED
    BY <1>2, <2>1, FS_EmptySet
<1> QED
  BY <1>1, <1>2

-----------------------------------------------------------------------------
(* Induction on the members of a set of numbers.                           *)
LEMMA SetInduction ==
  ASSUME NEW P \in SUBSET Nat, 0 \in P, \A n \in P : n + 1 \in P
  PROVE  \A n \in Nat : n \in P
<1> DEFINE outside == Nat \ P
<1> SUFFICES ASSUME outside # {}
             PROVE  FALSE
  OBVIOUS
<1>1. PICK x \in outside : \A y \in outside : ~(<<y, x>> \in OpToRel(<, Nat))
  BY NatLessThanWellFounded, WFMin
<1>2. x \in Nat \ {0} /\ x - 1 \in Nat /\ x - 1 < x
  OBVIOUS
<1>3. x - 1 \in P
  BY <1>1, <1>2 DEF OpToRel
<1>4. (x - 1) + 1 \in P /\ (x - 1) + 1 = x
  BY <1>2, <1>3
<1> QED
  BY <1>4

(* Taking out every occurrence of an element, from the front on.           *)
KeptFrom(s, t, g, n) ==
  g = [i \in 0 .. n |-> IF i = 0 THEN <<>>
                        ELSE IF s[i] = t THEN g[i - 1] ELSE Append(g[i - 1], s[i])]

LEMMA KeptExists ==
  ASSUME NEW s, NEW t
  PROVE  \A n \in Nat : \E g : KeptFrom(s, t, g, n)
<1> DEFINE P == {n \in Nat : \E g : KeptFrom(s, t, g, n)}
<1>1. 0 \in P
  <2> DEFINE g == [i \in 0 .. 0 |-> <<>>]
  <2>1. KeptFrom(s, t, g, 0)
    BY DEF KeptFrom
  <2> QED
    BY <2>1
<1>2. ASSUME NEW n \in P
      PROVE  n + 1 \in P
  <2>1. PICK g : KeptFrom(s, t, g, n)
    OBVIOUS
  <2> DEFINE last == IF s[n + 1] = t THEN g[n] ELSE Append(g[n], s[n + 1])
             h == [i \in 0 .. n + 1 |-> IF i = n + 1 THEN last ELSE g[i]]
  <2>2. \A i \in 0 .. n : g[i] = IF i = 0 THEN <<>>
                                 ELSE IF s[i] = t THEN g[i - 1] ELSE Append(g[i - 1], s[i])
    BY <2>1 DEF KeptFrom
  <2>3. n \in Nat
    OBVIOUS
  <2>4. /\ h[n + 1] = last /\ \A i \in 0 .. n : h[i] = g[i]
        /\ h = [i \in 0 .. n + 1 |-> h[i]]
    BY <2>3
  <2>5. ASSUME NEW i \in 0 .. n + 1
        PROVE  h[i] = IF i = 0 THEN <<>>
                      ELSE IF s[i] = t THEN h[i - 1] ELSE Append(h[i - 1], s[i])
    <3> HIDE DEF h
    <3>1. CASE i = n + 1
      <4>1. i # 0 /\ i - 1 = n /\ h[n] = g[n]
        <5>1. i # 0 /\ i - 1 = n /\ n \in 0 .. n
          BY <2>3, <3>1
        <5> QED
          BY <2>4, <5>1, Zenon
      <4>2. h[i] = last
        BY <2>4, <3>1
      <4>3. s[i] = s[n + 1] /\ h[i - 1] = g[n]
        BY <3>1, <4>1
      <4> QED
        BY <4>1, <4>2, <4>3, Zenon
    <3>2. CASE i # n + 1
      <4>1. i \in 0 .. n /\ (i # 0 => i - 1 \in 0 .. n)
        BY <2>3, <3>2
      <4> QED
        BY <2>2, <2>4, <4>1
    <3> QED
      BY <3>1, <3>2
  <2> HIDE DEF h
  <2>6. KeptFrom(s, t, h, n + 1)
    BY <2>4, <2>5 DEF KeptFrom
  <2> QED
    BY <2>3, <2>6
<1> HIDE DEF P
<1>3. \A n \in Nat : n \in P
  BY <1>1, <1>2, SetInduction DEF P
<1> QED
  BY <1>3 DEF P

LEMMA AppendRange ==
  ASSUME NEW D, NEW s \in Seq(D), NEW c \in D
  PROVE  Append(s, c) \in Seq(D) /\ Range(Append(s, c)) = Range(s) \cup {c}
<1> DEFINE t == Append(s, c)
<1>1. /\ t \in Seq(D) /\ Len(t) = Len(s) + 1 /\ Len(s) \in Nat
      /\ DOMAIN s = 1 .. Len(s) /\ DOMAIN t = 1 .. Len(s) + 1
      /\ \A i \in 1 .. Len(s) : t[i] = s[i]
      /\ t[Len(s) + 1] = c
  OBVIOUS
<1> HIDE DEF t
<1>2. Len(s) + 1 \in DOMAIN t /\ DOMAIN s \subseteq DOMAIN t
  BY <1>1
<1>3. Range(t) \subseteq Range(s) \cup {c}
  BY <1>1 DEF Range
<1>4. Range(s) \cup {c} \subseteq Range(t)
  BY <1>1, <1>2 DEF Range
<1> QED
  BY <1>1, <1>3, <1>4 DEF t

LEMMA KeptElements ==
  ASSUME NEW D, NEW s \in Seq(D), NEW t, NEW g, KeptFrom(s, t, g, Len(s))
  PROVE  /\ g[Len(s)] \in Seq(D) /\ Range(g[Len(s)]) = Range(s) \ {t}
         /\ IsInjective(s) => IsInjective(g[Len(s)])
<1> DEFINE Elements(n) == {s[i] : i \in 1 .. n}
           P == {n \in Nat : n <= Len(s) =>
                   /\ g[n] \in Seq(D) /\ Range(g[n]) = Elements(n) \ {t}
                   /\ IsInjective(s) => IsInjective(g[n])}
<1>1. Len(s) \in Nat /\ DOMAIN s = 1 .. Len(s)
  OBVIOUS
<1>2. \A i \in 0 .. Len(s) :
        g[i] = IF i = 0 THEN <<>>
               ELSE IF s[i] = t THEN g[i - 1] ELSE Append(g[i - 1], s[i])
  BY DEF KeptFrom
<1>3. 0 \in P
  <2>1. g[0] = <<>> /\ Elements(0) = {}
    BY <1>1, <1>2
  <2> QED
    BY <2>1, EmptyDistinct
<1>4. ASSUME NEW n \in P
      PROVE  n + 1 \in P
  <2> SUFFICES ASSUME n + 1 <= Len(s)
               PROVE  /\ g[n + 1] \in Seq(D) /\ Range(g[n + 1]) = Elements(n + 1) \ {t}
                      /\ IsInjective(s) => IsInjective(g[n + 1])
    OBVIOUS
  <2>1. /\ g[n] \in Seq(D) /\ Range(g[n]) = Elements(n) \ {t}
        /\ IsInjective(s) => IsInjective(g[n])
    BY <1>1
  <2>2. /\ n + 1 \in 1 .. Len(s) /\ s[n + 1] \in D
        /\ g[n + 1] = IF s[n + 1] = t THEN g[n] ELSE Append(g[n], s[n + 1])
    BY <1>1, <1>2
  <2>3. Elements(n + 1) = Elements(n) \cup {s[n + 1]}
    BY <1>1, <2>2
  <2>4. IsInjective(s) => s[n + 1] \notin Elements(n)
    BY <1>1, <2>2 DEF IsInjective
  <2> HIDE DEF Elements
  <2>5. CASE s[n + 1] = t
    BY <2>1, <2>2, <2>3, <2>5
  <2>6. CASE s[n + 1] # t
    <3>1. g[n + 1] = Append(g[n], s[n + 1])
      BY <2>2, <2>6
    <3>2. Append(g[n], s[n + 1]) \in Seq(D)
            /\ Range(Append(g[n], s[n + 1])) = Range(g[n]) \cup {s[n + 1]}
      BY <2>1, <2>2, AppendRange
    <3>3. IsInjective(s) => IsInjective(Append(g[n], s[n + 1]))
      BY <2>1, <2>2, <2>4, AppendToDistinct
    <3> QED
      BY <2>1, <2>3, <2>6, <3>1, <3>2, <3>3
  <2> QED
    BY <2>5, <2>6
<1>5. Len(s) \in P
  <2> HIDE DEF P
  <2>1. P \in SUBSET Nat
    BY DEF P
  <2> QED
    BY <1>1, <1>3, <1>4, <2>1, SetInduction
<1>6. Range(s) = Elements(Len(s))
  BY <1>1 DEF Range
<1> QED
  BY <1>1, <1>5, <1>6

(* The values of a function along a sequence, when it grows at the end and *)
(* when its first element leaves.                                          *)
Mapped(f, s) == [i \in DOMAIN s |-> f[s[i]]]

LEMMA MappedAppend ==
  ASSUME NEW D, NEW s \in Seq(D), NEW c \in D, NEW f
  PROVE  Mapped(f, Append(s, c)) = Append(Mapped(f, s), f[c])
<1> DEFINE t == Append(s, c)
           v == Mapped(f, s)
           u == Mapped(f, t)
           E == {f[d] : d \in D}
<1>1. /\ DOMAIN t = 1 .. Len(s) + 1 /\ Len(s) \in Nat /\ DOMAIN s = 1 .. Len(s)
      /\ \A i \in 1 .. Len(s) : t[i] = s[i] /\ s[i] \in D
      /\ t[Len(s) + 1] = c
  OBVIOUS
<1>2. v \in Seq(E) /\ Len(v) = Len(s) /\ \A i \in 1 .. Len(s) : v[i] = f[s[i]]
  <2>1. v = [i \in 1 .. Len(s) |-> f[s[i]]]
    BY <1>1 DEF Mapped
  <2>2. \A i \in 1 .. Len(s) : f[s[i]] \in E
    BY <1>1
  <2> QED
    BY <1>1, <2>1, <2>2
<1>3. u = [i \in 1 .. Len(s) + 1 |-> f[t[i]]]
  BY <1>1 DEF Mapped
<1>4. f[c] \in E
  OBVIOUS
<1> HIDE DEF t, v, u, E
<1>5. /\ Append(v, f[c]) \in Seq(E) /\ DOMAIN Append(v, f[c]) = 1 .. Len(s) + 1
      /\ \A i \in 1 .. Len(s) : Append(v, f[c])[i] = f[s[i]]
      /\ Append(v, f[c])[Len(s) + 1] = f[c]
  BY <1>1, <1>2, <1>4
<1>6. \A i \in 1 .. Len(s) + 1 : u[i] = Append(v, f[c])[i]
  BY <1>1, <1>3, <1>5
<1>7. Append(v, f[c]) = [i \in 1 .. Len(s) + 1 |-> Append(v, f[c])[i]]
  BY <1>5
<1>8. u = Append(v, f[c])
  BY <1>3, <1>6, <1>7
<1> QED
  BY <1>8 DEF t, v, u

LEMMA MappedTail ==
  ASSUME NEW D, NEW s \in Seq(D), s # <<>>, NEW f
  PROVE  /\ Mapped(f, s) # <<>> /\ Head(Mapped(f, s)) = f[Head(s)]
         /\ Mapped(f, Tail(s)) = Tail(Mapped(f, s))
<1> DEFINE t == Tail(s)
           v == Mapped(f, s)
           u == Mapped(f, t)
           E == {f[d] : d \in D}
<1>1. /\ Len(s) \in Nat \ {0} /\ DOMAIN s = 1 .. Len(s) /\ DOMAIN t = 1 .. Len(s) - 1
      /\ \A i \in 1 .. Len(s) : s[i] \in D
      /\ \A i \in 1 .. Len(s) - 1 : t[i] = s[i + 1]
      /\ Head(s) = s[1]
  OBVIOUS
<1>2. v \in Seq(E) /\ Len(v) = Len(s) /\ \A i \in 1 .. Len(s) : v[i] = f[s[i]]
  <2>1. v = [i \in 1 .. Len(s) |-> f[s[i]]]
    BY <1>1 DEF Mapped
  <2>2. \A i \in 1 .. Len(s) : f[s[i]] \in E
    BY <1>1
  <2> QED
    BY <1>1, <2>1, <2>2
<1>3. u = [i \in 1 .. Len(s) - 1 |-> f[t[i]]]
  BY <1>1 DEF Mapped
<1> HIDE DEF t, v, u, E
<1>4. /\ v # <<>> /\ Head(v) = f[Head(s)] /\ Tail(v) \in Seq(E)
      /\ DOMAIN Tail(v) = 1 .. Len(s) - 1
      /\ \A i \in 1 .. Len(s) - 1 : Tail(v)[i] = v[i + 1]
  BY <1>1, <1>2
<1>5. \A i \in 1 .. Len(s) - 1 : i + 1 \in 1 .. Len(s)
  BY <1>1
<1>6. \A i \in 1 .. Len(s) - 1 : u[i] = Tail(v)[i]
  <2> SUFFICES ASSUME NEW i \in 1 .. Len(s) - 1 PROVE u[i] = Tail(v)[i]
    OBVIOUS
  <2>1. u[i] = f[t[i]] /\ t[i] = s[i + 1]
    BY <1>1, <1>3
  <2>2. Tail(v)[i] = v[i + 1] /\ v[i + 1] = f[s[i + 1]]
    BY <1>2, <1>4, <1>5
  <2> QED
    BY <2>1, <2>2
<1>7. Tail(v) = [i \in 1 .. Len(s) - 1 |-> Tail(v)[i]]
  <2>1. \A g \in Seq(E) : g = [i \in DOMAIN g |-> g[i]]
    OBVIOUS
  <2>2. Tail(v) = [i \in DOMAIN Tail(v) |-> Tail(v)[i]]
    BY <1>4, <2>1
  <2>3. DOMAIN Tail(v) = 1 .. Len(s) - 1
    BY <1>4
  <2> QED
    BY <2>2, <2>3
<1>8. u = Tail(v)
  BY <1>3, <1>6, <1>7
<1> QED
  BY <1>4, <1>8 DEF t, v, u
=============================================================================
