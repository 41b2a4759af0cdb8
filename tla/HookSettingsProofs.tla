-------------------------- MODULE HookSettingsProofs --------------------------
(***************************************************************************)
(* The properties of HookSettings, for any commands, events and spellings  *)
(* of the directory, and documents of any size.                            *)
(***************************************************************************)
EXTENDS HookSettings, SequenceTheorems, FiniteSetTheorems, WellFoundedInduction, TLAPS

-----------------------------------------------------------------------------
(* Sequences.                                                              *)

\* A set of numbers has a least one.
LEMMA LeastNumber ==
  ASSUME NEW T \in SUBSET Nat, T # {}
  PROVE  \E n \in T : \A m \in T : n <= m
<1> DEFINE R == OpToRel(<, Nat)
<1>1. IsWellFoundedOn(R, Nat)
  BY NatLessThanWellFounded
<1>2. \A x, y \in Nat : x < y => <<x, y>> \in R
  BY DEF OpToRel
<1> HIDE DEF R
<1>3. PICK n \in T : \A m \in T : ~ (<<m, n>> \in R)
  BY <1>1, WFMin
<1>4. ASSUME NEW m \in T PROVE n <= m
  <2>1. n \in Nat /\ m \in Nat
    OBVIOUS
  <2>2. ~ (m < n)
    BY <1>2, <1>3, <2>1, Zenon
  <2> QED BY <2>1, <2>2
<1> QED BY <1>4

\* Induction over sequences: a set that has the empty one and is closed under Append.
LEMMA SeqInduction ==
  ASSUME NEW X, NEW G, <<>> \in G,
         \A s \in Seq(X) : \A x \in X : s \in G => Append(s, x) \in G
  PROVE  Seq(X) \subseteq G
<1> DEFINE T == {n \in Nat : \E s \in Seq(X) : Len(s) = n /\ s \notin G}
<1> SUFFICES ASSUME NEW u \in Seq(X), u \notin G PROVE FALSE
  OBVIOUS
<1>1. Len(u) \in T
  BY LenProperties
<1>2. PICK n \in T : \A m \in T : n <= m
  BY <1>1, LeastNumber
<1>3. PICK s \in Seq(X) : Len(s) = n /\ s \notin G
  OBVIOUS
<1>4. s # <<>>
  BY <1>3
<1>5. PICK t \in Seq(X), x \in X : s = Append(t, x)
  BY <1>4, SequenceEmptyOrAppend
<1>6. Len(t) \in Nat /\ Len(s) = Len(t) + 1
  BY <1>5, AppendProperties, LenProperties
<1>7. Len(t) \notin T
  BY <1>2, <1>3, <1>6
<1>8. t \in G
  BY <1>6, <1>7
<1> QED BY <1>3, <1>5, <1>8

-----------------------------------------------------------------------------
(* Retain, one member at a time.                                           *)

\* The function in its definition.
IsKept(f, s, S) ==
  f = [n \in 0 .. Len(s) |->
         IF n = 0 THEN <<>>
         ELSE IF s[n] \in S THEN Append(f[n - 1], s[n]) ELSE f[n - 1]]

LEMMA KeptAt ==
  ASSUME NEW f, NEW s, NEW S, IsKept(f, s, S), NEW n \in 0 .. Len(s)
  PROVE  f[n] = IF n = 0 THEN <<>>
                ELSE IF s[n] \in S THEN Append(f[n - 1], s[n]) ELSE f[n - 1]
BY DEF IsKept

\* It exists,
LEMMA KeptExists ==
  ASSUME NEW X, NEW S
  PROVE  \A s \in Seq(X) : \E f : IsKept(f, s, S)
<1> DEFINE G == {s \in Seq(X) : \E f : IsKept(f, s, S)}
<1>1. <<>> \in G
  <2>1. IsKept([n \in 0 .. 0 |-> <<>>], <<>>, S)
    <3>1. 0 .. Len(<<>>) = 0 .. 0 /\ \A n \in 0 .. 0 : n = 0
      OBVIOUS
    <3> QED BY <3>1 DEF IsKept
  <2> QED BY <2>1
<1>2. ASSUME NEW s \in Seq(X), NEW x \in X, s \in G PROVE Append(s, x) \in G
  <2>1. PICK f : IsKept(f, s, S)
    BY <1>2
  <2>2. PICK t : t = Append(s, x)
    OBVIOUS
  <2>3. PICK m : m = Len(s) + 1
    OBVIOUS
  <2>4. /\ t \in Seq(X) /\ Len(t) = m /\ t[m] = x /\ Len(s) = m - 1 /\ m \in Nat \ {0}
        /\ \A i \in 1 .. m - 1 : t[i] = s[i]
    BY <2>2, <2>3, AppendProperties, LenProperties
  <2> DEFINE g == [n \in 0 .. m |->
                     IF n < m THEN f[n]
                     ELSE IF x \in S THEN Append(f[m - 1], x) ELSE f[m - 1]]
  <2>5. ASSUME NEW n \in 0 .. m
        PROVE  g[n] = IF n = 0 THEN <<>>
                      ELSE IF t[n] \in S THEN Append(g[n - 1], t[n]) ELSE g[n - 1]
    <3>1. CASE n = m
      <4>1. m - 1 \in 0 .. m /\ m - 1 < m /\ ~ (m < m) /\ m # 0
        BY <2>4
      <4>2. g[m - 1] = f[m - 1] /\ g[m] = IF x \in S THEN Append(f[m - 1], x) ELSE f[m - 1]
        BY <4>1, <2>4
      <4> HIDE DEF g
      <4> QED BY <3>1, <4>1, <4>2, <2>4
    <3>2. CASE n # m
      <4>1. n < m /\ n \in 0 .. Len(s) /\ (n # 0 => n - 1 \in 0 .. m /\ n - 1 < m /\ n \in 1 .. m - 1)
        BY <3>2, <2>4
      <4>2. g[n] = f[n] /\ (n # 0 => g[n - 1] = f[n - 1] /\ t[n] = s[n])
        BY <4>1, <2>4
      <4>3. f[n] = IF n = 0 THEN <<>>
                   ELSE IF s[n] \in S THEN Append(f[n - 1], s[n]) ELSE f[n - 1]
        BY <2>1, <4>1, KeptAt
      <4> HIDE DEF g
      <4> QED BY <4>2, <4>3
    <3> QED BY <3>1, <3>2
  <2>6. g = [n \in 0 .. m |-> g[n]]
    OBVIOUS
  <2> HIDE DEF g
  <2>7. IsKept(g, t, S)
    BY <2>4, <2>5, <2>6 DEF IsKept
  <2> QED BY <2>2, <2>4, <2>7
<1>3. Seq(X) \subseteq G
  <2> HIDE DEF G
  <2> QED BY <1>1, <1>2, SeqInduction
<1> QED BY <1>3

\* and is what Retain reads its result from.
LEMMA RetainIs ==
  ASSUME NEW X, NEW s \in Seq(X), NEW S
  PROVE  \E f : IsKept(f, s, S) /\ Retain(s, S) = f[Len(s)]
<1> DEFINE g == CHOOSE kept : kept = [n \in 0 .. Len(s) |->
                  IF n = 0 THEN <<>>
                  ELSE IF s[n] \in S THEN Append(kept[n - 1], s[n]) ELSE kept[n - 1]]
<1>1. \E f : IsKept(f, s, S)
  BY KeptExists
<1>2. IsKept(g, s, S)
  BY <1>1 DEF IsKept
<1>3. Retain(s, S) = g[Len(s)]
  BY DEF Retain
<1> QED BY <1>2, <1>3

LEMMA RetainEmpty ==
  ASSUME NEW S
  PROVE  Retain(<<>>, S) = <<>>
<1>1. PICK f : IsKept(f, <<>>, S) /\ Retain(<<>>, S) = f[Len(<<>>)]
  <2>1. <<>> \in Seq({})
    BY EmptySeq
  <2> QED BY <2>1, RetainIs
<1>2. Len(<<>>) = 0 /\ 0 \in 0 .. Len(<<>>)
  OBVIOUS
<1>3. f[0] = <<>>
  BY <1>1, <1>2, KeptAt
<1> QED BY <1>1, <1>2, <1>3

LEMMA RetainAppend ==
  ASSUME NEW X, NEW s \in Seq(X), NEW x \in X, NEW S
  PROVE  Retain(Append(s, x), S) =
           IF x \in S THEN Append(Retain(s, S), x) ELSE Retain(s, S)
<1>1. PICK t : t = Append(s, x)
  OBVIOUS
<1>2. PICK m : m = Len(s) + 1
  OBVIOUS
<1>3. /\ t \in Seq(X) /\ Len(t) = m /\ t[m] = x /\ Len(s) = m - 1 /\ m \in Nat \ {0}
      /\ \A i \in 1 .. m - 1 : t[i] = s[i]
  BY <1>1, <1>2, AppendProperties, LenProperties
<1>4. PICK f : IsKept(f, s, S) /\ Retain(s, S) = f[m - 1]
  BY <1>3, RetainIs
<1>5. PICK g : IsKept(g, t, S) /\ Retain(t, S) = g[m]
  BY <1>3, RetainIs
<1>6. \A n \in 0 .. m - 1 : f[n] = g[n]
  <2> DEFINE T == {n \in 0 .. m - 1 : f[n] # g[n]}
  <2> SUFFICES ASSUME T # {} PROVE FALSE
    OBVIOUS
  <2>1. T \in SUBSET Nat
    BY <1>3
  <2>2. PICK n \in T : \A k \in T : n <= k
    BY <2>1, LeastNumber
  <2>3. n \in 0 .. Len(s) /\ n \in 0 .. Len(t) /\ f[n] # g[n] /\ n \in Nat
    BY <1>3
  <2>4. /\ f[n] = IF n = 0 THEN <<>>
                  ELSE IF s[n] \in S THEN Append(f[n - 1], s[n]) ELSE f[n - 1]
        /\ g[n] = IF n = 0 THEN <<>>
                  ELSE IF t[n] \in S THEN Append(g[n - 1], t[n]) ELSE g[n - 1]
    BY <1>4, <1>5, <2>3, KeptAt
  <2>5. n # 0 => f[n - 1] = g[n - 1] /\ s[n] = t[n]
    <3>1. ASSUME n # 0 PROVE n - 1 \in 0 .. m - 1 /\ ~ (n <= n - 1) /\ n \in 1 .. m - 1
      BY <3>1, <2>3, <1>3
    <3> QED BY <3>1, <2>2, <1>3
  <2> QED BY <2>3, <2>4, <2>5
<1>7. g[m] = IF t[m] \in S THEN Append(g[m - 1], t[m]) ELSE g[m - 1]
  <2>1. m \in 0 .. Len(t) /\ m # 0
    BY <1>3
  <2> QED BY <1>5, <2>1, KeptAt
<1>8. m - 1 \in 0 .. m - 1
  BY <1>3
<1> QED BY <1>1, <1>3, <1>4, <1>5, <1>6, <1>7, <1>8

\* What is kept is in both.
LEMMA RetainType ==
  ASSUME NEW X, NEW S
  PROVE  \A s \in Seq(X) : Retain(s, S) \in Seq(X \cap S)
<1> DEFINE G == {s \in Seq(X) : Retain(s, S) \in Seq(X \cap S)}
<1>1. <<>> \in G
  BY RetainEmpty, EmptySeq
<1>2. ASSUME NEW s \in Seq(X), NEW x \in X, s \in G PROVE Append(s, x) \in G
  <2>1. Append(s, x) \in Seq(X)
    BY AppendProperties
  <2>2. Retain(Append(s, x), S) = IF x \in S THEN Append(Retain(s, S), x) ELSE Retain(s, S)
    BY RetainAppend
  <2>3. PICK r : r = Retain(s, S)
    OBVIOUS
  <2>4. x \in S => Append(r, x) \in Seq(X \cap S)
    BY <1>2, <2>3, AppendProperties
  <2> QED BY <1>2, <2>1, <2>2, <2>3, <2>4
<1>3. Seq(X) \subseteq G
  <2> HIDE DEF G
  <2> QED BY <1>1, <1>2, SeqInduction
<1> QED BY <1>3

\* Keeping some of what was kept is keeping them at once.
LEMMA RetainTwice ==
  ASSUME NEW X, NEW A, NEW B, B \subseteq A
  PROVE  \A s \in Seq(X) : Retain(Retain(s, A), B) = Retain(s, B)
<1> DEFINE G == {s \in Seq(X) : Retain(Retain(s, A), B) = Retain(s, B)}
<1>1. <<>> \in G
  BY RetainEmpty, EmptySeq
<1>2. ASSUME NEW s \in Seq(X), NEW x \in X, s \in G PROVE Append(s, x) \in G
  <2>1. Append(s, x) \in Seq(X)
    BY AppendProperties
  <2>2. /\ Retain(Append(s, x), A) = IF x \in A THEN Append(Retain(s, A), x) ELSE Retain(s, A)
        /\ Retain(Append(s, x), B) = IF x \in B THEN Append(Retain(s, B), x) ELSE Retain(s, B)
    BY RetainAppend
  <2>3. PICK r : r = Retain(s, A)
    OBVIOUS
  <2>4. r \in Seq(X)
    <3>1. r \in Seq(X \cap A)
      BY <2>3, RetainType
    <3> QED BY <3>1, SeqMonotonic
  <2>5. Retain(Append(r, x), B) = IF x \in B THEN Append(Retain(r, B), x) ELSE Retain(r, B)
    BY <2>4, RetainAppend
  <2> QED BY <1>2, <2>1, <2>2, <2>3, <2>5
<1>3. Seq(X) \subseteq G
  <2> HIDE DEF G
  <2> QED BY <1>1, <1>2, SeqInduction
<1> QED BY <1>3

-----------------------------------------------------------------------------
(* Keep, one matcher at a time.                                            *)

LEMMA KeepEmpty ==
  ASSUME NEW C
  PROVE  Keep(<<>>, C) = <<>>
<1>1. [i \in DOMAIN <<>> |-> Retain(<<>>[i], C)] = <<>>
  OBVIOUS
<1> QED BY <1>1, RetainEmpty DEF Keep

\* The matchers with what is kept of each.
LEMMA LeftType ==
  ASSUME NEW X, NEW ms \in Seq(Seq(X)), NEW C
  PROVE  /\ [i \in DOMAIN ms |-> Retain(ms[i], C)] \in Seq(Seq(X \cap C))
         /\ Len([i \in DOMAIN ms |-> Retain(ms[i], C)]) = Len(ms)
<1>1. PICK n : n = Len(ms)
  OBVIOUS
<1>2. n \in Nat /\ DOMAIN ms = 1 .. n
  BY <1>1, LenProperties
<1>3. \A i \in 1 .. n : Retain(ms[i], C) \in Seq(X \cap C)
  <2>1. \A i \in 1 .. n : ms[i] \in Seq(X)
    BY <1>1, ElementOfSeq
  <2> QED BY <2>1, RetainType
<1> QED BY <1>1, <1>2, <1>3

LEMMA KeepType ==
  ASSUME NEW X, NEW ms \in Seq(Seq(X)), NEW C
  PROVE  Keep(ms, C) \in Seq(Seq(X \cap C) \ {<<>>})
<1>1. PICK left : left = [i \in DOMAIN ms |-> Retain(ms[i], C)]
  OBVIOUS
<1>2. left \in Seq(Seq(X \cap C))
  BY <1>1, LeftType
<1>3. Retain(left, Seq(C) \ {<<>>}) \in Seq(Seq(X \cap C) \cap (Seq(C) \ {<<>>}))
  BY <1>2, RetainType
<1>4. Seq(X \cap C) \cap (Seq(C) \ {<<>>}) \subseteq Seq(X \cap C) \ {<<>>}
  OBVIOUS
<1>5. Retain(left, Seq(C) \ {<<>>}) \in Seq(Seq(X \cap C) \ {<<>>})
  BY <1>3, <1>4, SeqMonotonic
<1> QED BY <1>1, <1>5 DEF Keep

LEMMA KeepAppend ==
  ASSUME NEW X, NEW ms \in Seq(Seq(X)), NEW m \in Seq(X), NEW C
  PROVE  Keep(Append(ms, m), C) =
           IF Retain(m, C) = <<>> THEN Keep(ms, C) ELSE Append(Keep(ms, C), Retain(m, C))
<1>1. PICK more : more = Append(ms, m)
  OBVIOUS
<1>2. PICK r : r = Retain(m, C)
  OBVIOUS
<1>3. PICK left : left = [i \in DOMAIN ms |-> Retain(ms[i], C)]
  OBVIOUS
<1>4. PICK all : all = [i \in DOMAIN more |-> Retain(more[i], C)]
  OBVIOUS
<1>5. PICK n : n = Len(ms)
  OBVIOUS
<1>6. /\ more \in Seq(Seq(X)) /\ n \in Nat /\ DOMAIN ms = 1 .. n /\ DOMAIN more = 1 .. n + 1
      /\ more[n + 1] = m /\ \A i \in 1 .. n : more[i] = ms[i]
  BY <1>1, <1>5, AppendProperties, LenProperties
<1>7. left \in Seq(Seq(X \cap C)) /\ Len(left) = n /\ all \in Seq(Seq(X \cap C))
  BY <1>3, <1>4, <1>5, <1>6, LeftType
<1>8. r \in Seq(X \cap C) /\ r \in Seq(C)
  <2>1. r \in Seq(X \cap C)
    BY <1>2, RetainType
  <2> QED BY <2>1, SeqMonotonic
<1>9. all = Append(left, r)
  <2>1. PICK longer : longer = Append(left, r)
    OBVIOUS
  <2>2. /\ longer \in Seq(Seq(X \cap C)) /\ Len(longer) = n + 1 /\ longer[n + 1] = r
        /\ \A i \in 1 .. n : longer[i] = left[i]
    BY <2>1, <1>7, <1>8, AppendProperties
  <2>3. Len(all) = n + 1
    BY <1>4, <1>6, <1>7, LenProperties
  <2>4. ASSUME NEW i \in 1 .. n + 1 PROVE all[i] = longer[i]
    <3>1. CASE i = n + 1
      BY <3>1, <1>2, <1>4, <1>6, <2>2
    <3>2. CASE i # n + 1
      <4>1. i \in 1 .. n
        BY <3>2, <1>6
      <4> QED BY <4>1, <1>3, <1>4, <1>6, <2>2
    <3> QED BY <3>1, <3>2
  <2>5. all = longer
    BY <1>7, <2>2, <2>3, <2>4, SeqEqual
  <2> QED BY <2>1, <2>5
<1>10. Retain(all, Seq(C) \ {<<>>}) =
         IF r \in Seq(C) \ {<<>>} THEN Append(Retain(left, Seq(C) \ {<<>>}), r)
         ELSE Retain(left, Seq(C) \ {<<>>})
  <2>1. PICK Y : Y = Seq(X \cap C)
    OBVIOUS
  <2>2. PICK S : S = Seq(C) \ {<<>>}
    OBVIOUS
  <2>3. left \in Seq(Y) /\ r \in Y
    BY <1>7, <1>8, <2>1
  <2>4. Retain(Append(left, r), S) =
          IF r \in S THEN Append(Retain(left, S), r) ELSE Retain(left, S)
    BY <2>3, RetainAppend
  <2> QED BY <1>9, <2>2, <2>4
<1>11. /\ Keep(more, C) = Retain(all, Seq(C) \ {<<>>})
       /\ Keep(ms, C) = Retain(left, Seq(C) \ {<<>>})
  BY <1>3, <1>4 DEF Keep
<1> QED BY <1>1, <1>2, <1>8, <1>10, <1>11

\* What a user has is not disturbed by what else is taken out,
LEMMA KeepTwice ==
  ASSUME NEW X, NEW A, NEW B, B \subseteq A
  PROVE  \A ms \in Seq(Seq(X)) : Keep(Keep(ms, A), B) = Keep(ms, B)
<1> DEFINE G == {ms \in Seq(Seq(X)) : Keep(Keep(ms, A), B) = Keep(ms, B)}
<1>1. <<>> \in G
  BY KeepEmpty, EmptySeq
<1>2. ASSUME NEW ms \in Seq(Seq(X)), NEW m \in Seq(X), ms \in G PROVE Append(ms, m) \in G
  <2>1. Append(ms, m) \in Seq(Seq(X))
    BY AppendProperties
  <2>2. PICK k : k = Keep(ms, A)
    OBVIOUS
  <2>3. PICK r : r = Retain(m, A)
    OBVIOUS
  <2>4. k \in Seq(Seq(X)) /\ r \in Seq(X)
    <3>1. k \in Seq(Seq(X \cap A) \ {<<>>})
      BY <2>2, KeepType
    <3>2. r \in Seq(X \cap A)
      BY <2>3, RetainType
    <3>3. Seq(X \cap A) \ {<<>>} \subseteq Seq(X)
      OBVIOUS
    <3>4. k \in Seq(Seq(X))
      BY <3>1, <3>3, SeqMonotonic
    <3>5. r \in Seq(X)
      BY <3>2, SeqMonotonic
    <3> QED BY <3>4, <3>5
  <2>5. Retain(r, B) = Retain(m, B)
    BY <2>3, RetainTwice
  <2>6. Keep(Append(ms, m), A) = IF r = <<>> THEN k ELSE Append(k, r)
    BY <2>2, <2>3, KeepAppend
  <2>7. Keep(Append(ms, m), B) =
          IF Retain(r, B) = <<>> THEN Keep(ms, B) ELSE Append(Keep(ms, B), Retain(r, B))
    BY <2>5, KeepAppend
  <2>8. Keep(Append(k, r), B) =
          IF Retain(r, B) = <<>> THEN Keep(k, B) ELSE Append(Keep(k, B), Retain(r, B))
    BY <2>4, KeepAppend
  <2>9. Keep(k, B) = Keep(ms, B)
    BY <1>2, <2>2
  <2>10. r = <<>> => Retain(r, B) = <<>>
    BY RetainEmpty
  <2>11. Keep(Keep(Append(ms, m), A), B) = Keep(Append(ms, m), B)
    BY <2>6, <2>7, <2>8, <2>9, <2>10
  <2> QED BY <2>1, <2>11
<1>3. Seq(Seq(X)) \subseteq G
  <2> HIDE DEF G
  <2> QED BY <1>1, <1>2, SeqInduction
<1> QED BY <1>3

\* nor by a matcher in which there is nothing of the user's.
LEMMA KeepForeign ==
  ASSUME NEW X, NEW ms \in Seq(Seq(X)), NEW c \in X, NEW C, c \notin C
  PROVE  Keep(Append(ms, <<c>>), C) = Keep(ms, C)
<1>1. <<>> \in Seq(X) /\ Append(<<>>, c) = <<c>> /\ <<c>> \in Seq(X)
  OBVIOUS
<1>2. Retain(<<c>>, C) = <<>>
  <2>1. Retain(Append(<<>>, c), C) = Retain(<<>>, C)
    BY <1>1, RetainAppend
  <2> QED BY <1>1, <2>1, RetainEmpty
<1>3. PICK m \in Seq(X) : m = <<c>>
  BY <1>1
<1>4. Keep(Append(ms, m), C) =
        IF Retain(m, C) = <<>> THEN Keep(ms, C) ELSE Append(Keep(ms, C), Retain(m, C))
  BY KeepAppend
<1> QED BY <1>2, <1>3, <1>4

-----------------------------------------------------------------------------
(* Where commands occur.                                                   *)

LEMMA PlacesAre ==
  ASSUME NEW X, NEW ms \in Seq(Seq(X)), NEW c
  PROVE  Places(c, ms) = {p \in Nat \X Nat :
           p[1] \in 1 .. Len(ms) /\ p[2] \in 1 .. Len(ms[p[1]]) /\ ms[p[1]][p[2]] = c}
<1> DEFINE P == {p \in Nat \X Nat :
           p[1] \in 1 .. Len(ms) /\ p[2] \in 1 .. Len(ms[p[1]]) /\ ms[p[1]][p[2]] = c}
<1>1. DOMAIN ms = 1 .. Len(ms) /\ Len(ms) \in Nat
  BY LenProperties
<1>2. \A i \in 1 .. Len(ms) : DOMAIN ms[i] = 1 .. Len(ms[i]) /\ Len(ms[i]) \in Nat
  <2>1. \A i \in 1 .. Len(ms) : ms[i] \in Seq(X)
    BY ElementOfSeq
  <2> QED BY <2>1, LenProperties
<1>3. ASSUME NEW p \in Places(c, ms) PROVE p \in P
  <2>1. PICK i \in DOMAIN ms : p \in {<<i, j>> : j \in {k \in DOMAIN ms[i] : ms[i][k] = c}}
    BY <1>3 DEF Places
  <2>2. PICK j \in DOMAIN ms[i] : ms[i][j] = c /\ p = <<i, j>>
    BY <2>1
  <2>3. i \in 1 .. Len(ms) /\ j \in 1 .. Len(ms[i]) /\ i \in Nat /\ j \in Nat
    BY <1>1, <1>2, <2>1, <2>2
  <2> QED BY <2>2, <2>3
<1>4. ASSUME NEW p \in P PROVE p \in Places(c, ms)
  <2>1. PICK i \in Nat, j \in Nat : p = <<i, j>>
    OBVIOUS
  <2>2. i \in DOMAIN ms /\ j \in DOMAIN ms[i] /\ ms[i][j] = c
    BY <1>1, <1>2, <1>4, <2>1
  <2> QED BY <2>1, <2>2 DEF Places
<1> QED BY <1>3, <1>4

\* A command occurs nowhere where all commands are others.
LEMMA NowhereIff ==
  ASSUME NEW X, NEW ms \in Seq(Seq(X)), NEW c
  PROVE  Places(c, ms) = {} <=> ms \in Seq(Seq(X \ {c}))
<1>1. Places(c, ms) = {p \in Nat \X Nat :
         p[1] \in 1 .. Len(ms) /\ p[2] \in 1 .. Len(ms[p[1]]) /\ ms[p[1]][p[2]] = c}
  BY PlacesAre
<1>2. ASSUME Places(c, ms) = {} PROVE ms \in Seq(Seq(X \ {c}))
  <2>1. ASSUME NEW i \in 1 .. Len(ms) PROVE ms[i] \in Seq(X \ {c})
    <3>1. PICK m : m = ms[i]
      OBVIOUS
    <3>2. m \in Seq(X) /\ i \in Nat
      BY <3>1, ElementOfSeq, LenProperties
    <3>3. ASSUME NEW j \in 1 .. Len(m) PROVE m[j] \in X \ {c}
      <4>1. j \in Nat /\ m[j] \in X
        BY <3>2, ElementOfSeq, LenProperties
      <4>2. PICK p : p = <<i, j>>
        OBVIOUS
      <4>3. p \in Nat \X Nat /\ p[1] = i /\ p[2] = j
        BY <3>2, <4>1, <4>2
      <4> QED BY <1>1, <1>2, <3>1, <4>1, <4>3
    <3>4. m \in Seq(X \ {c})
      BY <3>2, <3>3, LenProperties
    <3> QED BY <3>1, <3>4
  <2> QED BY <2>1, LenProperties
<1>3. ASSUME ms \in Seq(Seq(X \ {c})) PROVE Places(c, ms) = {}
  <2>1. ASSUME NEW p \in Places(c, ms) PROVE FALSE
    <3>1. p[1] \in 1 .. Len(ms) /\ p[2] \in 1 .. Len(ms[p[1]]) /\ ms[p[1]][p[2]] = c
      BY <1>1, <2>1
    <3>2. PICK m : m = ms[p[1]]
      OBVIOUS
    <3>3. m \in Seq(X \ {c})
      BY <1>3, <3>1, <3>2, ElementOfSeq
    <3>4. m[p[2]] \in X \ {c}
      BY <3>1, <3>2, <3>3, ElementOfSeq
    <3> QED BY <3>1, <3>2, <3>4
  <2> QED BY <2>1
<1> QED BY <1>2, <1>3

LEMMA PlacesAppend ==
  ASSUME NEW X, NEW ms \in Seq(Seq(X)), NEW x \in X, NEW c
  PROVE  Places(c, Append(ms, <<x>>)) =
           IF x = c THEN Places(c, ms) \cup {<<Len(ms) + 1, 1>>} ELSE Places(c, ms)
<1>1. PICK n : n = Len(ms)
  OBVIOUS
<1>2. PICK m : m = <<x>>
  OBVIOUS
<1>3. PICK more : more = Append(ms, m)
  OBVIOUS
<1>4. m \in Seq(X) /\ Len(m) = 1 /\ m[1] = x
  BY <1>2
<1>5. /\ n \in Nat /\ more \in Seq(Seq(X)) /\ Len(more) = n + 1 /\ more[n + 1] = m
      /\ \A i \in 1 .. n : more[i] = ms[i]
  BY <1>1, <1>3, <1>4, AppendProperties, LenProperties
<1>6. Places(c, ms) = {p \in Nat \X Nat :
         p[1] \in 1 .. n /\ p[2] \in 1 .. Len(ms[p[1]]) /\ ms[p[1]][p[2]] = c}
  BY <1>1, PlacesAre
<1>7. Places(c, more) = {p \in Nat \X Nat :
         p[1] \in 1 .. n + 1 /\ p[2] \in 1 .. Len(more[p[1]]) /\ more[p[1]][p[2]] = c}
  <2>1. Places(c, more) = {p \in Nat \X Nat :
          p[1] \in 1 .. Len(more) /\ p[2] \in 1 .. Len(more[p[1]]) /\ more[p[1]][p[2]] = c}
    <3>1. more \in Seq(Seq(X))
      BY <1>5
    <3> QED BY <3>1, PlacesAre
  <2> QED BY <1>5, <2>1
<1>8. PICK q : q = <<n + 1, 1>>
  OBVIOUS
<1>9. q \in Nat \X Nat /\ q[1] = n + 1 /\ q[2] = 1
  BY <1>5, <1>8
<1>10. ASSUME NEW p \in Nat \X Nat, p[1] \in 1 .. n PROVE p \in Places(c, more) <=> p \in Places(c, ms)
  BY <1>5, <1>6, <1>7, <1>10
<1>11. ASSUME NEW p \in Nat \X Nat, p[1] = n + 1
       PROVE p \in Places(c, more) <=> p = q /\ x = c
  <2>1. more[p[1]] = m
    BY <1>5, <1>11
  <2>2. p[2] \in 1 .. 1 <=> p[2] = 1
    OBVIOUS
  <2>3. p = q <=> p[2] = 1
    BY <1>9, <1>11
  <2>4. p[1] \in 1 .. n + 1
    BY <1>5, <1>11
  <2>5. p \in Places(c, more) <=> p[2] \in 1 .. Len(m) /\ m[p[2]] = c
    BY <1>7, <2>1, <2>4
  <2>6. p \in Places(c, more) <=> p[2] = 1 /\ x = c
    BY <1>4, <2>2, <2>5
  <2> QED BY <2>3, <2>6
<1>12. \A p \in Nat \X Nat : p[1] \in 1 .. n + 1 => p[1] \in 1 .. n \/ p[1] = n + 1
  BY <1>5
<1>13. \A p \in Places(c, ms) \cup Places(c, more) : p \in Nat \X Nat /\ p[1] \in 1 .. n + 1
  BY <1>5, <1>6, <1>7
<1>14. ASSUME NEW p PROVE p \in Places(c, more) <=> p \in Places(c, ms) \/ (p = q /\ x = c)
  <2>1. CASE p \in Nat \X Nat /\ p[1] \in 1 .. n
    <3>1. p # q
      BY <1>5, <1>9, <2>1
    <3> QED BY <1>10, <2>1, <3>1
  <2>2. CASE p \in Nat \X Nat /\ p[1] = n + 1
    <3>1. p \notin Places(c, ms)
      BY <1>5, <1>6, <2>2
    <3> QED BY <1>11, <2>2, <3>1
  <2>3. CASE ~ (p \in Nat \X Nat /\ p[1] \in 1 .. n + 1)
    <3>1. p # q /\ p \notin Places(c, ms) /\ p \notin Places(c, more)
      BY <1>5, <1>9, <1>13, <2>3
    <3> QED BY <3>1
  <2> QED BY <1>12, <2>1, <2>2, <2>3
<1> QED BY <1>1, <1>2, <1>3, <1>8, <1>14

-----------------------------------------------------------------------------
(* The documents.                                                          *)

Hooks == [AllEvents -> Seq(Matcher)]
OwnHooks == [AllEvents -> Seq(Seq(UserCommands) \ {<<>>})]

LEMMA MatchersAre ==
  ASSUME NEW ms \in Seq(Matcher)
  PROVE  ms \in Seq(Seq(Command))
<1>1. Matcher \subseteq Seq(Command)
  BY DEF Matcher
<1> QED BY <1>1, SeqMonotonic

LEMMA Singleton ==
  ASSUME NEW c \in Command
  PROVE  <<c>> \in Matcher
BY DEF Matcher

LEMMA AppendMatcher ==
  ASSUME NEW ms \in Seq(Matcher), NEW c \in Command
  PROVE  Append(ms, <<c>>) \in Seq(Matcher)
<1>1. PICK m \in Matcher : m = <<c>>
  BY Singleton
<1>2. Append(ms, m) \in Seq(Matcher)
  BY AppendProperties
<1> QED BY <1>1, <1>2

LEMMA KeepMatchers ==
  ASSUME NEW ms \in Seq(Matcher), NEW C, C \subseteq Command
  PROVE  Keep(ms, C) \in Seq(Seq(C) \ {<<>>}) /\ Keep(ms, C) \in Seq(Matcher)
<1>1. ms \in Seq(Seq(Command))
  BY MatchersAre
<1>2. PICK k : k = Keep(ms, C)
  OBVIOUS
<1>3. k \in Seq(Seq(Command \cap C) \ {<<>>})
  BY <1>1, <1>2, KeepType
<1>4. Command \cap C = C
  OBVIOUS
<1>5. k \in Seq(Seq(C) \ {<<>>})
  BY <1>3, <1>4
<1>6. Seq(C) \ {<<>>} \subseteq Matcher
  BY DEF Matcher
<1>7. k \in Seq(Matcher)
  BY <1>5, <1>6, SeqMonotonic
<1> QED BY <1>2, <1>5, <1>7

LEMMA NoHooksType == NoHooks \in Hooks /\ NoneRegistered(NoHooks) /\ Once(NoHooks)
<1>1. \A e \in AllEvents : NoHooks[e] = <<>>
  BY DEF NoHooks
<1>2. NoHooks \in Hooks
  BY DEF NoHooks, Hooks
<1>3. \A c : Places(c, <<>>) = {}
  <2>1. DOMAIN <<>> = {}
    OBVIOUS
  <2> QED BY <2>1 DEF Places
<1>4. \A c \in DivanCommand : c.script \in AllEvents
  BY DEF DivanCommand, AllEvents
<1>5. NoneRegistered(NoHooks)
  BY <1>1, <1>3, <1>4 DEF NoneRegistered
<1>6. Once(NoHooks)
  BY <1>1, <1>3, <1>4 DEF Once
<1> QED BY <1>2, <1>5, <1>6

\* What the user has in a file.
LEMMA OwnType ==
  ASSUME NEW file, file.hooks \in Hooks, file.kind \in {"absent", "empty", "broken", "ill-formed", "document"}
  PROVE  Own(file) \in Files /\ Own(file).hooks \in OwnHooks
<1>1. \A e \in AllEvents : file.hooks[e] \in Seq(Matcher)
  BY DEF Hooks
<1>2. UserCommands \subseteq Command
  BY DEF Command
<1>3. PICK h : h = [e \in AllEvents |-> Keep(file.hooks[e], UserCommands)]
  OBVIOUS
<1>4. h \in Hooks /\ h \in OwnHooks
  <2>1. \A e \in AllEvents : /\ Keep(file.hooks[e], UserCommands) \in Seq(Seq(UserCommands) \ {<<>>})
                             /\ Keep(file.hooks[e], UserCommands) \in Seq(Matcher)
    BY <1>1, <1>2, KeepMatchers
  <2> QED BY <1>3, <2>1 DEF Hooks, OwnHooks
<1>5. Own(file) = [kind |-> IF file.kind = "ill-formed" THEN file.kind ELSE "document", hooks |-> h]
  BY <1>3 DEF Own, File
<1> QED BY <1>4, <1>5 DEF Files, Hooks

LEMMA OwnHooksType == OwnHooks \subseteq Hooks
<1>1. UserCommands \subseteq Command
  BY DEF Command
<1>2. Seq(UserCommands) \ {<<>>} \subseteq Matcher
  BY <1>1 DEF Matcher
<1>3. ASSUME NEW h \in OwnHooks PROVE h \in Hooks
  <2>1. \A e \in AllEvents : h[e] \in Seq(Matcher)
    <3>1. \A e \in AllEvents : h[e] \in Seq(Seq(UserCommands) \ {<<>>})
      BY DEF OwnHooks
    <3> QED BY <1>2, <3>1, SeqMonotonic
  <2> QED BY <2>1 DEF OwnHooks, Hooks
<1> QED BY <1>3

\* What the user has is none of Divan's.
LEMMA OwnRegistersNone ==
  ASSUME NEW h \in OwnHooks
  PROVE  NoneRegistered(h) /\ Once(h)
<1>1. ASSUME NEW c \in DivanCommand PROVE Places(c, h[c.script]) = {}
  <2>1. c.script \in AllEvents /\ UserCommands \ {c} = UserCommands
    BY HookAssumption DEF DivanCommand, AllEvents
  <2>2. PICK ms : ms = h[c.script]
    OBVIOUS
  <2>3. ms \in Seq(Seq(UserCommands) \ {<<>>})
    BY <2>1, <2>2 DEF OwnHooks
  <2>4. ms \in Seq(Seq(UserCommands))
    <3>1. Seq(UserCommands) \ {<<>>} \subseteq Seq(UserCommands)
      OBVIOUS
    <3> QED BY <2>3, <3>1, SeqMonotonic
  <2>5. Places(c, ms) = {} <=> ms \in Seq(Seq(UserCommands \ {c}))
    BY <2>4, NowhereIff
  <2> QED BY <2>1, <2>2, <2>4, <2>5
<1> QED BY <1>1 DEF NoneRegistered, Once

\* What an entry does to the places of the others, and of its own.
LEMMA EntryAdded ==
  ASSUME NEW ms \in Seq(Matcher), NEW c \in Command, NEW d
  PROVE  /\ AddCommandEntry(ms, c) \in Seq(Matcher)
         /\ d # c => Places(d, AddCommandEntry(ms, c)) = Places(d, ms)
         /\ Places(c, AddCommandEntry(ms, c)) # {}
         /\ \/ Places(c, AddCommandEntry(ms, c)) = Places(c, ms)
            \/ Places(c, AddCommandEntry(ms, c)) = {<<Len(ms) + 1, 1>>}
<1>1. ms \in Seq(Seq(Command))
  BY MatchersAre
<1>2. CASE Places(c, ms) # {}
  BY <1>2 DEF AddCommandEntry
<1>3. CASE Places(c, ms) = {}
  <2>1. AddCommandEntry(ms, c) = Append(ms, <<c>>)
    BY <1>3 DEF AddCommandEntry
  <2>2. Append(ms, <<c>>) \in Seq(Matcher)
    BY AppendMatcher
  <2>3. d # c => Places(d, Append(ms, <<c>>)) = Places(d, ms)
    <3>1. Places(d, Append(ms, <<c>>)) =
            IF c = d THEN Places(d, ms) \cup {<<Len(ms) + 1, 1>>} ELSE Places(d, ms)
      BY <1>1, PlacesAppend
    <3> QED BY <3>1
  <2>4. Places(c, Append(ms, <<c>>)) = Places(c, ms) \cup {<<Len(ms) + 1, 1>>}
    <3>1. PICK e : e = c
      OBVIOUS
    <3>2. Places(e, Append(ms, <<c>>)) =
            IF c = e THEN Places(e, ms) \cup {<<Len(ms) + 1, 1>>} ELSE Places(e, ms)
      BY <1>1, PlacesAppend
    <3> QED BY <3>1, <3>2
  <2> QED BY <1>3, <2>1, <2>2, <2>3, <2>4
<1> QED BY <1>2, <1>3

\* merge_install leaves the user's hooks as they are, and every script entered, each once
\* if it was so before.
LEMMA Installed ==
  ASSUME NEW hooks \in Hooks, NEW dir \in Dirs
  PROVE  /\ MergeInstall(hooks, dir) \in Hooks
         /\ Own(Document(MergeInstall(hooks, dir))) = Own(Document(hooks))
         /\ \A e \in HookEvents : Places([script |-> e, dir |-> dir], MergeInstall(hooks, dir)[e]) # {}
         /\ Once(hooks) => Once(MergeInstall(hooks, dir))
<1> DEFINE cmd(e) == [script |-> e, dir |-> dir]
<1>1. PICK new : new = MergeInstall(hooks, dir)
  OBVIOUS
<1>2. \A e \in AllEvents : hooks[e] \in Seq(Matcher)
  BY DEF Hooks
<1>3. ASSUME NEW e \in HookEvents
      PROVE  e \in AllEvents /\ cmd(e) \in DivanCommand /\ cmd(e) \in Command /\ cmd(e) \notin UserCommands
  BY HookAssumption DEF DivanCommand, Command, AllEvents
<1>4. new = [e \in AllEvents |-> IF e \in HookEvents THEN AddCommandEntry(hooks[e], cmd(e)) ELSE hooks[e]]
  BY <1>1 DEF MergeInstall
<1> HIDE DEF cmd
<1>5. new \in Hooks
  <2>1. \A e \in HookEvents : AddCommandEntry(hooks[e], cmd(e)) \in Seq(Matcher)
    BY <1>2, <1>3, EntryAdded
  <2> QED BY <1>2, <1>4, <2>1 DEF Hooks
<1>6. ASSUME NEW e \in AllEvents PROVE Keep(new[e], UserCommands) = Keep(hooks[e], UserCommands)
  <2>1. CASE e \notin HookEvents
    BY <1>4, <2>1
  <2>2. CASE e \in HookEvents
    <3>1. new[e] = AddCommandEntry(hooks[e], cmd(e))
      BY <1>4, <2>2
    <3>2. PICK ms : ms = hooks[e]
      OBVIOUS
    <3>3. PICK c : c = cmd(e)
      OBVIOUS
    <3>4. ms \in Seq(Seq(Command)) /\ c \in Command /\ c \notin UserCommands
      BY <1>2, <1>3, <2>2, <3>2, <3>3, MatchersAre
    <3>5. Keep(Append(ms, <<c>>), UserCommands) = Keep(ms, UserCommands)
      BY <3>4, KeepForeign
    <3> QED BY <3>1, <3>2, <3>3, <3>5 DEF AddCommandEntry
  <2> QED BY <2>1, <2>2
<1>7. Own(Document(new)) = Own(Document(hooks))
  BY <1>6 DEF Own, Document, File
<1>8. \A e \in HookEvents : Places(cmd(e), new[e]) # {}
  BY <1>2, <1>3, <1>4, EntryAdded
<1>9. ASSUME Once(hooks) PROVE Once(new)
  <2>1. ASSUME NEW d \in DivanCommand PROVE \A p, q \in Places(d, new[d.script]) : p = q
    <3>1. PICK e \in HookEvents : e = d.script
      BY DEF DivanCommand
    <3>2. \A p, q \in Places(d, hooks[e]) : p = q
      BY <1>9, <3>1 DEF Once
    <3>3. new[e] = AddCommandEntry(hooks[e], cmd(e)) /\ hooks[e] \in Seq(Matcher) /\ cmd(e) \in Command
      BY <1>2, <1>3, <1>4
    <3>4. d # cmd(e) => Places(d, new[e]) = Places(d, hooks[e])
      BY <3>3, EntryAdded
    <3>5. d = cmd(e) => \/ Places(d, new[e]) = Places(d, hooks[e])
                        \/ Places(d, new[e]) = {<<Len(hooks[e]) + 1, 1>>}
      BY <3>3, EntryAdded
    <3> QED BY <3>1, <3>2, <3>4, <3>5
  <2> QED BY <2>1 DEF Once
<1> QED BY <1>1, <1>5, <1>7, <1>8, <1>9 DEF cmd

\* merge_uninstall takes out every command of Divan's, under any spelling, and nothing else.
LEMMA Removed ==
  ASSUME NEW hooks \in Hooks
  PROVE  /\ MergeUninstall(hooks) \in Hooks
         /\ Own(Document(MergeUninstall(hooks))) = Own(Document(hooks))
         /\ NoneRegistered(MergeUninstall(hooks))
<1>1. PICK new : new = MergeUninstall(hooks)
  OBVIOUS
<1>2. PICK C : C = {c \in Command : ~ IsDivanCommand(c)}
  OBVIOUS
<1>3. C \subseteq Command /\ UserCommands \subseteq C /\ C \cap DivanCommand = {}
  BY <1>2, HookAssumption DEF Command, IsDivanCommand
<1>4. new = [e \in AllEvents |-> IF e \in HookEvents THEN Keep(hooks[e], C) ELSE hooks[e]]
  BY <1>1, <1>2 DEF MergeUninstall, StripDivanFromEvent
<1>5. \A e \in AllEvents : hooks[e] \in Seq(Matcher)
  BY DEF Hooks
<1>6. new \in Hooks
  <2>1. \A e \in AllEvents : Keep(hooks[e], C) \in Seq(Matcher)
    BY <1>3, <1>5, KeepMatchers
  <2> QED BY <1>4, <1>5, <2>1 DEF Hooks
<1>7. ASSUME NEW e \in AllEvents PROVE Keep(new[e], UserCommands) = Keep(hooks[e], UserCommands)
  <2>1. hooks[e] \in Seq(Seq(Command))
    BY <1>5, MatchersAre
  <2>2. Keep(Keep(hooks[e], C), UserCommands) = Keep(hooks[e], UserCommands)
    BY <1>3, <2>1, KeepTwice
  <2> QED BY <1>4, <2>2
<1>8. Own(Document(new)) = Own(Document(hooks))
  BY <1>7 DEF Own, Document, File
<1>9. ASSUME NEW c \in DivanCommand PROVE Places(c, new[c.script]) = {}
  <2>1. PICK e \in HookEvents : e = c.script
    BY DEF DivanCommand
  <2>2. e \in AllEvents
    BY DEF AllEvents
  <2>3. PICK ms : ms = Keep(hooks[e], C)
    OBVIOUS
  <2>4. ms \in Seq(Seq(C))
    <3>1. ms \in Seq(Seq(C) \ {<<>>})
      BY <1>3, <1>5, <2>2, <2>3, KeepMatchers
    <3>2. Seq(C) \ {<<>>} \subseteq Seq(C)
      OBVIOUS
    <3> QED BY <3>1, <3>2, SeqMonotonic
  <2>5. C \ {c} = C
    BY <1>3
  <2>6. Places(c, ms) = {} <=> ms \in Seq(Seq(C \ {c}))
    BY <2>4, NowhereIff
  <2>7. Places(c, ms) = {}
    BY <2>4, <2>5, <2>6
  <2> QED BY <1>4, <2>1, <2>2, <2>3, <2>7
<1> QED BY <1>1, <1>6, <1>8, <1>9 DEF NoneRegistered

-----------------------------------------------------------------------------
(* The user's edits.                                                       *)

\* They neither enter a command of Divan's nor enter one again.
Tame(new, old) ==
  /\ new \in Seq(Matcher)
  /\ \A d \in DivanCommand :
       /\ Places(d, old) = {} => Places(d, new) = {}
       /\ (\A p, q \in Places(d, old) : p = q) => \A p, q \in Places(d, new) : p = q

LEMMA TameAdd ==
  ASSUME NEW ms \in Seq(Matcher), NEW c \in UserCommands
  PROVE  Tame(Append(ms, <<c>>), ms)
<1>1. c \in Command /\ c \notin DivanCommand
  BY HookAssumption DEF Command
<1>2. Append(ms, <<c>>) \in Seq(Matcher)
  BY <1>1, AppendMatcher
<1>3. \A d \in DivanCommand : Places(d, Append(ms, <<c>>)) = Places(d, ms)
  <2>1. ms \in Seq(Seq(Command))
    BY MatchersAre
  <2>2. ASSUME NEW d \in DivanCommand PROVE Places(d, Append(ms, <<c>>)) = Places(d, ms)
    BY <1>1, <2>1, PlacesAppend
  <2> QED BY <2>2
<1> QED BY <1>2, <1>3 DEF Tame

LEMMA TameJoin ==
  ASSUME NEW ms \in Seq(Matcher), NEW i \in 1 .. Len(ms), NEW c \in UserCommands
  PROVE  Tame([ms EXCEPT ![i] = Append(@, c)], ms)
<1>1. c \in Command /\ c \notin DivanCommand
  BY HookAssumption DEF Command
<1>2. PICK m : m = ms[i]
  OBVIOUS
<1>3. m \in Seq(Command)
  BY <1>2, ElementOfSeq DEF Matcher
<1>4. PICK more : more = Append(m, c)
  OBVIOUS
<1>5. /\ more \in Seq(Command) /\ more # <<>> /\ Len(m) \in Nat /\ Len(more) = Len(m) + 1
      /\ more[Len(m) + 1] = c /\ \A j \in 1 .. Len(m) : more[j] = m[j]
  BY <1>1, <1>3, <1>4, AppendProperties, LenProperties
<1>6. more \in Matcher
  BY <1>5 DEF Matcher
<1>7. PICK new : new = [ms EXCEPT ![i] = more]
  OBVIOUS
<1>8. /\ new \in Seq(Matcher) /\ Len(new) = Len(ms)
      /\ \A j \in 1 .. Len(ms) : new[j] = IF j = i THEN more ELSE ms[j]
  BY <1>6, <1>7, ExceptSeq
<1>9. ASSUME NEW d \in DivanCommand PROVE Places(d, new) = Places(d, ms)
  <2>1. /\ Places(d, ms) = {p \in Nat \X Nat :
             p[1] \in 1 .. Len(ms) /\ p[2] \in 1 .. Len(ms[p[1]]) /\ ms[p[1]][p[2]] = d}
        /\ Places(d, new) = {p \in Nat \X Nat :
             p[1] \in 1 .. Len(new) /\ p[2] \in 1 .. Len(new[p[1]]) /\ new[p[1]][p[2]] = d}
    <3>1. ms \in Seq(Seq(Command)) /\ new \in Seq(Seq(Command))
      BY <1>8, MatchersAre
    <3>2. Places(d, ms) = {p \in Nat \X Nat :
            p[1] \in 1 .. Len(ms) /\ p[2] \in 1 .. Len(ms[p[1]]) /\ ms[p[1]][p[2]] = d}
      BY <3>1, PlacesAre
    <3>3. Places(d, new) = {p \in Nat \X Nat :
            p[1] \in 1 .. Len(new) /\ p[2] \in 1 .. Len(new[p[1]]) /\ new[p[1]][p[2]] = d}
      BY <3>1, PlacesAre
    <3> QED BY <3>2, <3>3
  <2>2. ASSUME NEW p \in Nat \X Nat, p[1] \in 1 .. Len(ms)
        PROVE  p \in Places(d, new) <=> p \in Places(d, ms)
    <3>1. CASE p[1] # i
      BY <1>8, <2>1, <2>2, <3>1
    <3>2. CASE p[1] = i
      <4>1. p \in Places(d, new) <=> p[2] \in 1 .. Len(more) /\ more[p[2]] = d
        BY <1>8, <2>1, <2>2, <3>2
      <4>2. p \in Places(d, ms) <=> p[2] \in 1 .. Len(m) /\ m[p[2]] = d
        BY <1>2, <2>1, <2>2, <3>2
      <4>3. c # d
        BY <1>1
      <4>4. p[2] \in 1 .. Len(m) + 1 <=> p[2] \in 1 .. Len(m) \/ p[2] = Len(m) + 1
        BY <1>5
      <4> QED BY <1>5, <4>1, <4>2, <4>3, <4>4
    <3> QED BY <3>1, <3>2
  <2>3. \A p \in Places(d, new) \cup Places(d, ms) : p \in Nat \X Nat /\ p[1] \in 1 .. Len(ms)
    BY <1>8, <2>1
  <2> QED BY <2>2, <2>3
<1>10. new = [ms EXCEPT ![i] = Append(@, c)]
  BY <1>2, <1>4, <1>7
<1> QED BY <1>8, <1>9, <1>10 DEF Tame

LEMMA TameDelete ==
  ASSUME NEW ms \in Seq(Matcher), NEW i \in 1 .. Len(ms)
  PROVE  Tame([j \in 1 .. Len(ms) - 1 |-> ms[IF j < i THEN j ELSE j + 1]], ms)
<1>1. PICK n : n = Len(ms) - 1
  OBVIOUS
<1>2. n \in Nat /\ Len(ms) = n + 1 /\ i \in 1 .. n + 1 /\ \A j \in 1 .. n + 1 : ms[j] \in Matcher
  BY <1>1, LenProperties, ElementOfSeq
<1> DEFINE at(j) == IF j < i THEN j ELSE j + 1
<1>3. \A j \in 1 .. n : at(j) \in 1 .. n + 1
  BY <1>2
<1>4. \A j, k \in 1 .. n : at(j) = at(k) => j = k
  BY <1>2
<1>5. PICK new : new = [j \in 1 .. n |-> ms[at(j)]]
  OBVIOUS
<1>6. new = [j \in 1 .. Len(ms) - 1 |-> ms[IF j < i THEN j ELSE j + 1]]
  BY <1>1, <1>5
<1> HIDE DEF at
<1>7. new \in Seq(Matcher) /\ Len(new) = n /\ \A j \in 1 .. n : new[j] = ms[at(j)]
  BY <1>2, <1>3, <1>5
<1>8. ASSUME NEW d \in DivanCommand, NEW p \in Places(d, new)
      PROVE  <<at(p[1]), p[2]>> \in Places(d, ms) /\ p = <<p[1], p[2]>> /\ p[1] \in 1 .. n
  <2>1. ms \in Seq(Seq(Command)) /\ new \in Seq(Seq(Command))
    BY <1>7, MatchersAre
  <2>2. Places(d, ms) = {q \in Nat \X Nat :
          q[1] \in 1 .. Len(ms) /\ q[2] \in 1 .. Len(ms[q[1]]) /\ ms[q[1]][q[2]] = d}
    BY <2>1, PlacesAre
  <2>3. Places(d, new) = {q \in Nat \X Nat :
          q[1] \in 1 .. Len(new) /\ q[2] \in 1 .. Len(new[q[1]]) /\ new[q[1]][q[2]] = d}
    BY <2>1, PlacesAre
  <2>4. /\ p \in Nat \X Nat /\ p[1] \in 1 .. n
        /\ p[2] \in 1 .. Len(ms[at(p[1])]) /\ ms[at(p[1])][p[2]] = d
    BY <1>7, <1>8, <2>3
  <2>5. PICK q : q = <<at(p[1]), p[2]>>
    OBVIOUS
  <2>6. q[1] = at(p[1]) /\ q[2] = p[2] /\ q[1] \in 1 .. n + 1 /\ q \in Nat \X Nat
    BY <1>2, <1>3, <2>4, <2>5
  <2>7. q \in Places(d, ms)
    BY <1>2, <2>2, <2>4, <2>6
  <2> QED BY <2>4, <2>5, <2>7
<1>9. ASSUME NEW d \in DivanCommand, \A p, q \in Places(d, ms) : p = q,
             NEW p \in Places(d, new), NEW q \in Places(d, new)
      PROVE  p = q
  <2>1. <<at(p[1]), p[2]>> = <<at(q[1]), q[2]>>
    BY <1>8, <1>9
  <2>2. p[1] = q[1] /\ p[2] = q[2]
    BY <1>4, <1>8, <2>1
  <2> QED BY <1>8, <2>2
<1> QED BY <1>6, <1>7, <1>8, <1>9 DEF Tame

LEMMA EditTame ==
  ASSUME NEW hooks \in Hooks, Once(hooks), NEW e \in AllEvents, NEW new, Tame(new, hooks[e])
  PROVE  /\ [hooks EXCEPT ![e] = new] \in Hooks
         /\ Once([hooks EXCEPT ![e] = new])
         /\ \A c \in DivanCommand : Places(c, hooks[c.script]) = {} =>
              Places(c, [hooks EXCEPT ![e] = new][c.script]) = {}
<1>1. PICK h : h = [hooks EXCEPT ![e] = new]
  OBVIOUS
<1>2. /\ h \in Hooks /\ h[e] = new
      /\ \A x \in AllEvents \ {e} : h[x] = hooks[x]
  BY <1>1 DEF Hooks, Tame
<1>3. \A c \in DivanCommand : c.script \in AllEvents
  BY DEF DivanCommand, AllEvents
<1>4. ASSUME NEW c \in DivanCommand
      PROVE  /\ Places(c, hooks[c.script]) = {} => Places(c, h[c.script]) = {}
             /\ \A p, q \in Places(c, h[c.script]) : p = q
  <2>1. \A p, q \in Places(c, hooks[c.script]) : p = q
    BY DEF Once
  <2>2. CASE c.script = e
    BY <1>2, <2>1, <2>2 DEF Tame
  <2>3. CASE c.script # e
    BY <1>2, <1>3, <2>1, <2>3
  <2> QED BY <2>2, <2>3
<1> QED BY <1>1, <1>2, <1>4 DEF Once

-----------------------------------------------------------------------------
(* The files and the steps.                                                *)

LEMMA FileFacts ==
  /\ \A k, h : File(k, h).kind = k /\ File(k, h).hooks = h
  /\ \A f \in Files : /\ f.hooks \in Hooks
                      /\ f.kind \in {"absent", "empty", "broken", "ill-formed", "document"}
  /\ \A f \in Torn : f \in Files /\ f.kind \in {"empty", "broken"} /\ f.hooks = NoHooks
  /\ \A h \in Hooks : Document(h) \in Files
  /\ {Absent, IllFormed, File("empty", NoHooks)} \subseteq Files
  /\ File("empty", NoHooks) \in Torn
<1>1. \A k, h : File(k, h).kind = k /\ File(k, h).hooks = h
  BY DEF File
<1>2. NoHooks \in Hooks
  BY NoHooksType
<1> QED BY <1>1, <1>2 DEF File, Files, Hooks, Torn, Document, Absent, IllFormed

\* What the user saves: nothing of Divan's is entered, and nothing entered again.
TameFile(file) ==
  /\ Save(file)
  /\ file \in Files /\ file.kind \in {"document", "ill-formed"}
  /\ file.kind # "document" => file.hooks = NoHooks
  /\ Once(file.hooks)
  /\ \A c \in DivanCommand :
       Places(c, settings.hooks[c.script]) = {} => Places(c, file.hooks[c.script]) = {}

LEMMA UserSaves ==
  ASSUME TypeOK, FilesInv, UserNext
  PROVE  \E file : TameFile(file)
<1>1. settings \in Files /\ settings.hooks \in Hooks /\ Once(settings.hooks)
  BY FileFacts DEF TypeOK, FilesInv
<1>2. ASSUME NEW e \in AllEvents, NEW new, Tame(new, settings.hooks[e]), SetMatchers(e, new)
      PROVE  \E file : TameFile(file)
  <2>1. PICK h : h = [settings.hooks EXCEPT ![e] = new]
    OBVIOUS
  <2>2. /\ h \in Hooks /\ Once(h)
        /\ \A c \in DivanCommand : Places(c, settings.hooks[c.script]) = {} => Places(c, h[c.script]) = {}
    BY <1>1, <1>2, <2>1, EditTame
  <2>3. Document(h) \in Files /\ Document(h).kind = "document" /\ Document(h).hooks = h
    BY <2>2, FileFacts DEF Document
  <2>4. Save(Document(h))
    BY <1>2, <2>1 DEF SetMatchers
  <2>5. TameFile(Document(h))
    BY <2>2, <2>3, <2>4 DEF TameFile
  <2> QED BY <2>5
<1>3. \A e \in AllEvents : settings.hooks[e] \in Seq(Matcher)
  BY <1>1 DEF Hooks
<1>4. OwnEvents \subseteq AllEvents
  BY DEF AllEvents
<1>5. CASE SaveIllFormed
  <2>1. IllFormed.kind = "ill-formed" /\ IllFormed.hooks = NoHooks /\ IllFormed \in Files
    BY FileFacts DEF IllFormed
  <2>2. Once(NoHooks) /\ NoneRegistered(NoHooks)
    BY NoHooksType
  <2>3. TameFile(IllFormed)
    BY <1>5, <2>1, <2>2 DEF SaveIllFormed, TameFile, NoneRegistered
  <2> QED BY <2>3
<1>6. CASE Retype
  <2>1. mine.hooks \in OwnHooks
    BY DEF FilesInv, OwnHooks
  <2>2. mine.hooks \in Hooks /\ NoneRegistered(mine.hooks) /\ Once(mine.hooks)
    BY <2>1, OwnHooksType, OwnRegistersNone
  <2>3. /\ Document(mine.hooks) \in Files /\ Document(mine.hooks).kind = "document"
        /\ Document(mine.hooks).hooks = mine.hooks
    BY <2>2, FileFacts DEF Document
  <2>4. TameFile(Document(mine.hooks))
    BY <1>6, <2>2, <2>3 DEF Retype, TameFile, NoneRegistered
  <2> QED BY <2>4
<1>7. ASSUME NEW e \in OwnEvents, NEW c \in UserCommands, AddMatcher(e, c)
      PROVE  \E file : TameFile(file)
  <2>1. Tame(Append(settings.hooks[e], <<c>>), settings.hooks[e])
    BY <1>3, <1>4, TameAdd
  <2>2. SetMatchers(e, Append(settings.hooks[e], <<c>>))
    BY <1>7 DEF AddMatcher
  <2> QED BY <1>2, <1>4, <2>1, <2>2
<1>8. ASSUME NEW e \in OwnEvents, NEW c \in UserCommands,
             NEW i \in 1 .. Len(settings.hooks[e]), JoinMatcher(e, i, c)
      PROVE  \E file : TameFile(file)
  <2>1. Tame([settings.hooks[e] EXCEPT ![i] = Append(@, c)], settings.hooks[e])
    BY <1>3, <1>4, TameJoin
  <2>2. SetMatchers(e, [settings.hooks[e] EXCEPT ![i] = Append(@, c)])
    BY <1>8 DEF JoinMatcher
  <2> QED BY <1>2, <1>4, <2>1, <2>2
<1>9. ASSUME NEW e \in OwnEvents, NEW i \in 1 .. Len(settings.hooks[e]), DeleteMatcher(e, i)
      PROVE  \E file : TameFile(file)
  <2>1. PICK new : new = [j \in 1 .. Len(settings.hooks[e]) - 1 |->
                            settings.hooks[e][IF j < i THEN j ELSE j + 1]]
    OBVIOUS
  <2>2. Tame(new, settings.hooks[e])
    BY <1>3, <1>4, <2>1, TameDelete
  <2>3. SetMatchers(e, new)
    BY <1>9, <2>1 DEF DeleteMatcher
  <2> QED BY <1>2, <1>4, <2>2, <2>3
<1> QED BY <1>5, <1>6, <1>7, <1>8, <1>9 DEF UserNext

\* The actions of the commands with what they do to the files, for the steps below.
LEMMA TypeStep ==
  ASSUME TypeOK, FilesInv, ScriptInv, [Next]_vars
  PROVE  TypeOK'
<1>1. /\ {settings, backup, mine} \subseteq Files /\ cli.merged \in Files
      /\ settings.hooks \in Hooks /\ cli.merged.hooks \in Hooks
  BY FileFacts DEF TypeOK
<1>2. CASE UNCHANGED vars
  BY <1>2 DEF TypeOK, vars, files, user
<1>3. CASE Invoke
  BY <1>3, FileFacts DEF TypeOK, Invoke, files
<1>4. CASE ReadSettings
  <2>1. Document(MergeUninstall(settings.hooks)) \in Files
    BY <1>1, Removed, FileFacts
  <2> QED BY <1>1, <1>4, <2>1 DEF TypeOK, ReadSettings, Goto, files, user
<1>5. CASE RefuseBroken \/ Uninstalled
  BY <1>5 DEF TypeOK, RefuseBroken, Uninstalled, Goto, files, user
<1>6. CASE BackUp
  <2>1. cli.dir \in Dirs
    BY <1>6 DEF BackUp, FilesInv, ScriptInv
  <2>2. Document(MergeInstall(cli.merged.hooks, cli.dir)) \in Files
    BY <1>1, <2>1, Installed, FileFacts
  <2> QED BY <1>1, <1>6, <2>2 DEF TypeOK, BackUp, Goto, user
<1>7. CASE Truncate
  BY <1>7, FileFacts DEF TypeOK, Truncate, Goto, user
<1>8. CASE WriteSettings
  BY <1>1, <1>8 DEF TypeOK, WriteSettings, Goto, user
<1>9. CASE Abort
  <2>1. Torn \subseteq Files
    BY FileFacts
  <2> QED BY <1>1, <1>9, <2>1 DEF TypeOK, Abort, Goto, user
<1>10. ASSUME NEW e \in HookEvents, WriteScript(e) \/ RemoveScript(e) PROVE TypeOK'
  BY <1>10 DEF TypeOK, WriteScript, RemoveScript, user
<1>11. CASE UserNext
  <2>1. PICK file : TameFile(file)
    BY <1>11, UserSaves
  <2>2. file \in Files /\ Own(file) \in Files
    <3>1. file \in Files
      BY <2>1 DEF TameFile
    <3> QED BY <3>1, FileFacts, OwnType
  <2> QED BY <2>1, <2>2 DEF TypeOK, TameFile, Save
<1> QED BY <1>2, <1>3, <1>4, <1>5, <1>6, <1>7, <1>8, <1>9, <1>10, <1>11 DEF Next, CliNext

LEMMA FilesStep ==
  ASSUME TypeOK, FilesInv, ScriptInv, [Next]_vars
  PROVE  FilesInv'
<1>1. /\ settings.hooks \in Hooks /\ cli.merged.hooks \in Hooks /\ settings \in Files
      /\ Once(NoHooks)
  BY FileFacts, NoHooksType DEF TypeOK
<1>2. CASE UNCHANGED vars
  BY <1>2 DEF FilesInv, Once, vars, files, user
<1>3. CASE Invoke
  <2>1. Absent.kind = "absent" /\ Absent.hooks = NoHooks
    BY FileFacts DEF Absent
  <2>2. /\ UNCHANGED <<settings, backup, mine>> /\ cli'.merged = Absent /\ cli'.at = "read"
        /\ cli'.name \in {"install", "uninstall"} /\ cli'.dir \in Dirs
    BY <1>3 DEF Invoke, files
  <2>3. /\ cli'.merged.hooks = NoHooks
        /\ \A c \in DivanCommand : \A p, q \in Places(c, cli'.merged.hooks[c.script]) : p = q
    BY <1>1, <2>1, <2>2 DEF Once
  <2> QED BY <2>2, <2>3 DEF FilesInv, Once
<1>4. CASE ReadSettings
  <2>1. PICK h : h = MergeUninstall(settings.hooks)
    OBVIOUS
  <2>2. Once(h)
    <3>1. NoneRegistered(h)
      BY <1>1, <2>1, Removed
    <3> QED BY <3>1 DEF NoneRegistered, Once
  <2>3. Document(h).kind = "document" /\ Document(h).hooks = h
    BY FileFacts DEF Document
  <2>4. /\ UNCHANGED <<settings, backup, mine>> /\ cli'.name = cli.name /\ cli'.dir = cli.dir
        /\ cli.name # "none"
        /\ \/ cli'.merged = settings /\ cli'.at = "backup"
           \/ cli'.merged = settings /\ settings.kind = "ill-formed"
           \/ cli'.merged = Document(h)
           \/ cli'.merged = cli.merged /\ cli'.at = "remove"
    BY <1>4, <2>1 DEF ReadSettings, Goto, files, user, TypeOK
  <2>5. /\ cli'.merged \in {settings, Document(h), cli.merged}
        /\ cli'.at \in {"write", "fill"} => cli'.merged.kind \in {"document", "ill-formed"}
    BY <2>3, <2>4
  <2>6. /\ cli'.merged.kind # "document" => cli'.merged.hooks = NoHooks
        /\ \A c \in DivanCommand : \A p, q \in Places(c, cli'.merged.hooks[c.script]) : p = q
    BY <2>2, <2>3, <2>5 DEF FilesInv, Once
  <2> QED BY <2>4, <2>5, <2>6 DEF FilesInv, Once
<1>5. CASE RefuseBroken \/ Uninstalled
  BY <1>5 DEF FilesInv, TypeOK, Once, RefuseBroken, Uninstalled, Goto, files, user
<1>6. CASE BackUp
  <2>1. cli.dir \in Dirs /\ cli.name = "install"
    BY <1>6 DEF BackUp, FilesInv, ScriptInv
  <2>2. PICK h : h = MergeInstall(cli.merged.hooks, cli.dir)
    OBVIOUS
  <2>3. Once(h)
    BY <1>1, <2>1, <2>2, Installed DEF FilesInv
  <2>4. Document(h).kind = "document" /\ Document(h).hooks = h
    BY FileFacts DEF Document
  <2>5. /\ UNCHANGED <<settings, mine>> /\ cli'.name = cli.name /\ cli'.dir = cli.dir
        /\ settings.kind = "absent" => backup' = backup
        /\ \/ cli'.merged = cli.merged /\ cli'.at = "aborted"
           \/ cli'.merged = Document(h)
    BY <1>6, <2>2 DEF BackUp, Goto, user, TypeOK
  <2> QED BY <2>1, <2>3, <2>4, <2>5 DEF FilesInv, Once
<1>7. CASE Truncate
  <2>1. PICK f : f = File("empty", NoHooks)
    OBVIOUS
  <2>2. f.kind = "empty" /\ f.hooks = NoHooks
    BY <2>1, FileFacts
  <2>3. /\ settings' = f /\ cli' = [cli EXCEPT !.at = "fill"] /\ cli.at = "write"
        /\ UNCHANGED mine
    BY <1>7, <2>1 DEF Truncate, Goto, user
  <2> QED BY <1>1, <2>2, <2>3 DEF FilesInv, TypeOK, Once
<1>8. CASE WriteSettings
  <2>1. /\ settings' = cli.merged /\ cli.at = "fill" /\ UNCHANGED mine
        /\ cli'.merged = cli.merged /\ cli'.name = cli.name /\ cli'.dir = cli.dir
        /\ cli'.at \in {"done", "remove"}
    BY <1>8 DEF WriteSettings, Goto, user, TypeOK
  <2> QED BY <2>1 DEF FilesInv, Once
<1>9. CASE Abort
  <2>1. /\ UNCHANGED mine /\ cli'.merged = cli.merged /\ cli'.name = cli.name /\ cli'.dir = cli.dir
        /\ cli'.at \in {"torn", "aborted"} /\ cli.at # "done"
        /\ \/ settings' \in Torn
           \/ settings' = settings /\ settings.kind # "absent"
           \/ settings' = settings /\ backup' = backup
    BY <1>9 DEF Abort, Idle, Goto, user, TypeOK
  <2>2. settings' \in Torn => settings'.hooks = NoHooks /\ settings'.kind # "absent"
    BY FileFacts
  <2>3. settings' \in Torn \/ settings' = settings
    BY <2>1
  <2>4. /\ settings'.kind # "document" => settings'.hooks = NoHooks
        /\ \A c \in DivanCommand : \A p, q \in Places(c, settings'.hooks[c.script]) : p = q
    BY <1>1, <2>2, <2>3 DEF FilesInv, Once
  <2>5. settings'.kind = "absent" => backup' = Absent
    BY <2>1, <2>2 DEF FilesInv
  <2> QED BY <2>1, <2>4, <2>5 DEF FilesInv, Once
<1>10. ASSUME NEW e \in HookEvents, WriteScript(e) \/ RemoveScript(e) PROVE FilesInv'
  BY <1>10 DEF FilesInv, Once, WriteScript, RemoveScript, user
<1>11. CASE UserNext
  <2>1. PICK file : TameFile(file)
    BY <1>11, UserSaves
  <2>2. /\ settings' = file /\ mine' = Own(file) /\ UNCHANGED cli
        /\ file.kind # "absent" /\ (file.kind # "document" => file.hooks = NoHooks) /\ Once(file.hooks)
    BY <2>1 DEF TameFile, Save
  <2>3. Own(file).hooks \in OwnHooks
    <3>1. file \in Files
      BY <2>1 DEF TameFile
    <3> QED BY <3>1, FileFacts, OwnType
  <2> QED BY <2>2, <2>3 DEF FilesInv, Once, OwnHooks
<1> QED BY <1>2, <1>3, <1>4, <1>5, <1>6, <1>7, <1>8, <1>9, <1>10, <1>11 DEF Next, CliNext

\* What registers nothing needs no script.
LEMMA NothingToRun ==
  ASSUME NEW hooks, NoneRegistered(hooks), NEW e \in HookEvents, NEW dir \in Dirs
  PROVE  Places([script |-> e, dir |-> dir], hooks[e]) = {}
<1>1. PICK c \in DivanCommand : c = [script |-> e, dir |-> dir]
  BY DEF DivanCommand
<1> QED BY <1>1 DEF NoneRegistered

LEMMA ScriptStep ==
  ASSUME TypeOK, FilesInv, ScriptInv, UserInv, [Next]_vars
  PROVE  ScriptInv'
<1>1. settings.hooks \in Hooks /\ cli.merged.hooks \in Hooks /\ NoneRegistered(NoHooks)
  BY FileFacts, NoHooksType DEF TypeOK
<1>2. CASE UNCHANGED vars
  BY <1>2 DEF ScriptInv, RegisteredHaveScripts, NoneRegistered, vars, files, user
<1>3. CASE Invoke
  BY <1>3 DEF ScriptInv, RegisteredHaveScripts, Invoke, files
<1>4. CASE ReadSettings
  <2>1. PICK h : h = MergeUninstall(settings.hooks)
    OBVIOUS
  <2>2. NoneRegistered(h)
    BY <1>1, <2>1, Removed
  <2>3. Document(h).hooks = h
    BY FileFacts DEF Document
  <2>4. settings.kind # "document" => NoneRegistered(settings.hooks)
    BY <1>1 DEF FilesInv
  <2>5. /\ UNCHANGED <<settings, scripts>> /\ cli'.name = cli.name /\ cli'.dir = cli.dir
        /\ cli.name = "install" => scripts = HookEvents
        /\ \/ cli.name = "install" /\ cli'.at = "backup"
           \/ /\ cli.name = "uninstall" /\ cli'.at = "write"
              /\ \/ cli'.merged = settings /\ settings.kind = "ill-formed"
                 \/ cli'.merged = Document(h)
           \/ cli.name = "uninstall" /\ settings.kind = "absent" /\ cli'.at = "remove"
    BY <1>4, <2>1 DEF ReadSettings, ScriptsWritten, Goto, files, user, TypeOK
  <2> QED BY <2>2, <2>3, <2>4, <2>5 DEF ScriptInv, RegisteredHaveScripts, NoneRegistered
<1>5. CASE RefuseBroken \/ Uninstalled
  BY <1>5 DEF ScriptInv, TypeOK, RegisteredHaveScripts, RefuseBroken, Uninstalled, Goto, files, user
<1>6. CASE BackUp
  <2>1. cli.dir \in Dirs /\ cli.name = "install" /\ scripts = HookEvents
    BY <1>6 DEF BackUp, FilesInv, ScriptInv
  <2>2. PICK h : h = MergeInstall(cli.merged.hooks, cli.dir)
    OBVIOUS
  <2>3. \A e \in HookEvents : Places([script |-> e, dir |-> cli.dir], h[e]) # {}
    BY <1>1, <2>1, <2>2, Installed
  <2>4. Document(h).hooks = h
    BY FileFacts DEF Document
  <2>5. /\ UNCHANGED <<settings, scripts>> /\ cli'.name = cli.name /\ cli'.dir = cli.dir
        /\ \/ cli'.at = "aborted"
           \/ cli'.at = "write" /\ cli'.merged = Document(h)
    BY <1>6, <2>2 DEF BackUp, Goto, user, TypeOK
  <2> QED BY <2>1, <2>3, <2>4, <2>5 DEF ScriptInv, RegisteredHaveScripts
<1>7. CASE Truncate
  <2>1. settings'.hooks = NoHooks
    BY <1>7, FileFacts DEF Truncate
  <2>2. RegisteredHaveScripts'
    BY <1>1, <2>1, NothingToRun DEF RegisteredHaveScripts
  <2>3. UNCHANGED scripts /\ cli.at = "write" /\ cli' = [cli EXCEPT !.at = "fill"]
    BY <1>7 DEF Truncate, Goto
  <2> QED BY <2>2, <2>3 DEF ScriptInv, TypeOK, NoneRegistered
<1>8. CASE WriteSettings
  <2>1. /\ settings' = cli.merged /\ cli.at = "fill" /\ UNCHANGED scripts
        /\ cli'.merged = cli.merged /\ cli'.name = cli.name /\ cli'.dir = cli.dir
        /\ cli'.at = IF cli.name = "install" THEN "done" ELSE "remove"
    BY <1>8 DEF WriteSettings, Goto, TypeOK
  <2>2. cli.name \in {"install", "uninstall"}
    BY <2>1 DEF TypeOK, FilesInv
  <2>3. CASE cli.name = "install"
    <3>1. scripts' = HookEvents
      BY <2>1, <2>3 DEF ScriptInv
    <3> QED BY <2>1, <2>3, <3>1 DEF ScriptInv, RegisteredHaveScripts
  <2>4. CASE cli.name = "uninstall"
    <3>1. NoneRegistered(settings'.hooks)
      BY <2>1, <2>4 DEF ScriptInv
    <3>2. RegisteredHaveScripts'
      BY <3>1, NothingToRun DEF RegisteredHaveScripts
    <3> QED BY <2>1, <2>4, <3>1, <3>2 DEF ScriptInv, NoneRegistered
  <2> QED BY <2>2, <2>3, <2>4
<1>9. CASE Abort
  <2>1. /\ UNCHANGED scripts /\ cli'.at \in {"torn", "aborted"}
        /\ settings' \in Torn \/ settings' = settings
    BY <1>9 DEF Abort, Goto, user, TypeOK
  <2>2. RegisteredHaveScripts'
    <3>1. CASE settings' \in Torn
      <4>1. settings'.hooks = NoHooks
        BY <3>1, FileFacts
      <4> QED BY <1>1, <4>1, NothingToRun DEF RegisteredHaveScripts
    <3>2. CASE settings' = settings
      BY <2>1, <3>2 DEF ScriptInv, RegisteredHaveScripts
    <3> QED BY <2>1, <3>1, <3>2
  <2> QED BY <2>1, <2>2 DEF ScriptInv
<1>10. ASSUME NEW e \in HookEvents, WriteScript(e) PROVE ScriptInv'
  BY <1>10 DEF ScriptInv, RegisteredHaveScripts, WriteScript, user
<1>11. ASSUME NEW e \in HookEvents, RemoveScript(e) PROVE ScriptInv'
  <2>1. /\ UNCHANGED <<settings, cli>> /\ cli.at = "remove"
        /\ NoneRegistered(settings.hooks) /\ cli.name = "uninstall"
    BY <1>11 DEF RemoveScript, ScriptInv
  <2>2. RegisteredHaveScripts'
    BY <2>1, NothingToRun DEF RegisteredHaveScripts
  <2> QED BY <2>1, <2>2 DEF ScriptInv, NoneRegistered
<1>12. CASE UserNext
  <2>1. PICK file : TameFile(file)
    BY <1>12, UserSaves
  <2>2. /\ settings' = file /\ UNCHANGED <<cli, scripts>>
        /\ \A c \in DivanCommand :
             Places(c, settings.hooks[c.script]) = {} => Places(c, file.hooks[c.script]) = {}
    BY <2>1 DEF TameFile, Save
  <2>3. RegisteredHaveScripts'
    <3>1. ASSUME NEW e \in HookEvents, NEW dir \in Dirs,
                 Places([script |-> e, dir |-> dir], settings'.hooks[e]) # {}
          PROVE  e \in scripts'
      <4>1. PICK c \in DivanCommand : c = [script |-> e, dir |-> dir] /\ c.script = e
        BY <3>1 DEF DivanCommand
      <4>2. Places(c, settings.hooks[e]) # {}
        BY <2>2, <3>1, <4>1
      <4> QED BY <2>2, <4>1, <4>2 DEF ScriptInv, RegisteredHaveScripts
    <3> QED BY <3>1 DEF RegisteredHaveScripts
  <2>4. NoneRegistered(settings.hooks) => NoneRegistered(settings'.hooks)
    BY <2>2 DEF NoneRegistered
  <2> QED BY <2>2, <2>3, <2>4 DEF ScriptInv, NoneRegistered
<1> QED BY <1>2, <1>3, <1>4, <1>5, <1>6, <1>7, <1>8, <1>9, <1>10, <1>11, <1>12
        DEF Next, CliNext

\* What is no document is one without hooks, to its user.
LEMMA OwnOfDocument ==
  ASSUME NEW file, file.kind # "ill-formed"
  PROVE  Own(file) = Own(Document(file.hooks))
<1>1. Document(file.hooks).kind = "document" /\ Document(file.hooks).hooks = file.hooks
  BY FileFacts DEF Document
<1> QED BY <1>1 DEF Own

LEMMA UserStep ==
  ASSUME TypeOK, FilesInv, ScriptInv, UserInv, [Next]_vars
  PROVE  UserInv'
<1>1. settings.hooks \in Hooks /\ cli.merged.hooks \in Hooks
  BY FileFacts DEF TypeOK
<1>2. CASE UNCHANGED vars
  BY <1>2 DEF UserInv, UserEntriesKept, BackupBeforeWrite, vars, files, user
<1>3. CASE Invoke
  <2>1. /\ UNCHANGED <<settings, backup, mine>> /\ cli'.at = "read"
        /\ lapsed' = (lapsed \/ (cli.at = "torn" /\ settings \in Torn))
        /\ cli.at \in {"done", "aborted", "torn"}
    BY <1>3 DEF Invoke, Idle, files
  <2>2. ~ lapsed' => ~ lapsed /\ settings \notin Torn
    BY <2>1 DEF UserInv
  <2> QED BY <2>1, <2>2 DEF UserInv, UserEntriesKept, BackupBeforeWrite
<1>4. CASE ReadSettings
  <2>1. PICK h : h = MergeUninstall(settings.hooks)
    OBVIOUS
  <2>2. Own(Document(h)) = Own(Document(settings.hooks))
    BY <1>1, <2>1, Removed
  <2>3. settings.kind # "ill-formed" => Own(Document(settings.hooks)) = Own(settings)
    BY OwnOfDocument
  <2>4. /\ UNCHANGED <<settings, backup, mine, lapsed>> /\ cli'.name = cli.name /\ cli.at = "read"
        /\ \/ cli.name = "install" /\ cli'.at = "backup" /\ cli'.merged = settings
           \/ /\ cli.name = "uninstall" /\ cli'.at = "write"
              /\ cli'.merged = IF settings.kind = "ill-formed" THEN settings ELSE Document(h)
           \/ cli.name = "uninstall" /\ cli'.at = "remove"
    BY <1>4, <2>1 DEF ReadSettings, Goto, files, user, TypeOK
  <2>5. ~ lapsed => settings \notin Torn /\ Own(settings) = mine
    BY <2>4 DEF UserInv, UserEntriesKept
  <2>6. ~ lapsed /\ cli'.at \in {"backup", "write"} => Own(cli'.merged) = mine
    BY <2>2, <2>3, <2>4, <2>5
  <2> QED BY <2>4, <2>5, <2>6 DEF UserInv, UserEntriesKept, BackupBeforeWrite
<1>5. CASE RefuseBroken \/ Uninstalled
  <2>1. /\ UNCHANGED <<settings, backup, mine, lapsed>> /\ cli.at \in {"read", "remove"}
        /\ cli'.at \in {"aborted", "done"} /\ cli'.name = cli.name
    BY <1>5 DEF RefuseBroken, Uninstalled, Goto, files, user, TypeOK
  <2> QED BY <2>1 DEF UserInv, UserEntriesKept, BackupBeforeWrite
<1>6. CASE BackUp
  <2>1. cli.dir \in Dirs /\ cli.at = "backup"
    BY <1>6 DEF BackUp, FilesInv, ScriptInv
  <2>2. PICK h : h = MergeInstall(cli.merged.hooks, cli.dir)
    OBVIOUS
  <2>3. Own(Document(h)) = Own(Document(cli.merged.hooks))
    BY <1>1, <2>1, <2>2, Installed
  <2>4. cli.merged.kind # "ill-formed" => Own(Document(cli.merged.hooks)) = Own(cli.merged)
    BY OwnOfDocument
  <2>5. /\ UNCHANGED <<settings, mine, lapsed>> /\ cli'.name = cli.name
        /\ backup' = IF settings.kind = "absent" THEN backup ELSE settings
        /\ \/ cli'.at = "aborted"
           \/ cli'.at = "write" /\ cli'.merged = Document(h) /\ cli.merged.kind # "ill-formed"
    BY <1>6, <2>2 DEF BackUp, Goto, user, TypeOK
  <2>6. ~ lapsed => settings \notin Torn /\ Own(settings) = mine /\ Own(cli.merged) = mine
    BY <2>1 DEF UserInv, UserEntriesKept
  <2>7. Own(backup') = Own(settings)
    <3>1. CASE settings.kind = "absent"
      <4>1. backup' = Absent /\ Absent.kind = "absent" /\ Absent.hooks = NoHooks
        BY <2>5, <3>1, FileFacts DEF FilesInv, Absent
      <4>2. settings.hooks = NoHooks
        BY <3>1 DEF FilesInv
      <4>3. Own(settings) = Own(Document(NoHooks))
        BY <3>1, <4>2, OwnOfDocument
      <4>4. Own(Absent) = Own(Document(NoHooks))
        BY <4>1, OwnOfDocument
      <4> QED BY <4>1, <4>3, <4>4
    <3>2. CASE settings.kind # "absent"
      BY <2>5, <3>2
    <3> QED BY <3>1, <3>2
  <2>8. ~ lapsed /\ cli'.at = "write" => Own(cli'.merged) = mine /\ Own(backup') = mine
    BY <2>3, <2>4, <2>5, <2>6, <2>7
  <2> QED BY <2>5, <2>6, <2>8 DEF UserInv, UserEntriesKept, BackupBeforeWrite
<1>7. CASE Truncate
  <2>1. /\ settings' \in Torn /\ UNCHANGED <<backup, mine, lapsed>> /\ cli.at = "write"
        /\ cli'.at = "fill" /\ cli'.name = cli.name /\ cli'.merged = cli.merged
    BY <1>7, FileFacts DEF Truncate, Goto, user, TypeOK
  <2> QED BY <2>1 DEF UserInv, UserEntriesKept, BackupBeforeWrite
<1>8. CASE WriteSettings
  <2>1. /\ settings' = cli.merged /\ UNCHANGED <<backup, mine, lapsed>> /\ cli.at = "fill"
        /\ cli'.at \in {"done", "remove"} /\ cli'.name = cli.name
    BY <1>8 DEF WriteSettings, Goto, user, TypeOK
  <2>2. cli.merged \notin Torn
    BY <2>1, FileFacts DEF FilesInv
  <2> QED BY <2>1, <2>2 DEF UserInv, UserEntriesKept, BackupBeforeWrite
<1>9. CASE Abort
  <2>1. CASE cli.at = "fill"
    <3>1. /\ settings' \in Torn /\ UNCHANGED <<backup, mine, lapsed>>
          /\ cli'.at = "torn" /\ cli'.name = cli.name
      BY <1>9, <2>1 DEF Abort, Goto, user, TypeOK
    <3> QED BY <2>1, <3>1 DEF UserInv, UserEntriesKept, BackupBeforeWrite
  <2>2. CASE cli.at # "fill"
    <3>1. /\ UNCHANGED <<settings, mine, lapsed>> /\ cli'.at = "aborted" /\ cli.at # "torn"
      BY <1>9, <2>2 DEF Abort, Idle, Goto, user, TypeOK
    <3> QED BY <2>2, <3>1 DEF UserInv, UserEntriesKept, BackupBeforeWrite
  <2> QED BY <2>1, <2>2
<1>10. ASSUME NEW e \in HookEvents, WriteScript(e) \/ RemoveScript(e) PROVE UserInv'
  BY <1>10 DEF UserInv, UserEntriesKept, BackupBeforeWrite, WriteScript, RemoveScript, user
<1>11. CASE UserNext
  <2>1. PICK file : TameFile(file)
    BY <1>11, UserSaves
  <2>2. /\ settings' = file /\ mine' = Own(file) /\ UNCHANGED <<backup, cli>>
        /\ lapsed' = (cli.at \in {"backup", "write"}) /\ cli.at # "fill"
    BY <2>1 DEF TameFile, Save
  <2>3. file \notin Torn
    BY <2>1, FileFacts DEF TameFile
  <2> QED BY <2>2, <2>3 DEF UserInv, UserEntriesKept, BackupBeforeWrite
<1> QED BY <1>2, <1>3, <1>4, <1>5, <1>6, <1>7, <1>8, <1>9, <1>10, <1>11 DEF Next, CliNext

-----------------------------------------------------------------------------
(* The theorems.                                                           *)

LEMMA InitInductive == Init => Inductive
<1> SUFFICES ASSUME Init PROVE Inductive
  OBVIOUS
<1>1. /\ Absent \in Files /\ Absent.kind = "absent" /\ Absent.hooks = NoHooks
      /\ NoHooks \in Hooks /\ NoneRegistered(NoHooks) /\ Once(NoHooks)
  BY FileFacts, NoHooksType DEF Absent
<1>2. Own(Absent) \in Files /\ Own(Absent).hooks \in OwnHooks
  BY <1>1, OwnType
<1>3. /\ settings = Absent /\ backup = Absent /\ scripts = {} /\ mine = Own(Absent) /\ lapsed = FALSE
      /\ cli = [name |-> "none", dir |-> "none", at |-> "done", merged |-> Absent]
  BY DEF Init
<1>4. TypeOK
  BY <1>1, <1>2, <1>3 DEF TypeOK
<1>5. FilesInv
  BY <1>1, <1>2, <1>3 DEF FilesInv, OwnHooks
<1>6. ScriptInv
  <2>1. RegisteredHaveScripts
    BY <1>1, <1>3, NothingToRun DEF RegisteredHaveScripts
  <2> QED BY <1>3, <2>1 DEF ScriptInv
<1>7. UserInv
  <2>1. Absent \notin Torn
    BY <1>1, FileFacts
  <2> QED BY <1>3, <2>1 DEF UserInv, UserEntriesKept, BackupBeforeWrite
<1> QED BY <1>4, <1>5, <1>6, <1>7 DEF Inductive

LEMMA StepInductive == Inductive /\ [Next]_vars => Inductive'
<1> SUFFICES ASSUME Inductive, [Next]_vars PROVE Inductive'
  OBVIOUS
<1>1. TypeOK /\ FilesInv /\ ScriptInv /\ UserInv
  BY DEF Inductive
<1>2. TypeOK'
  BY <1>1, TypeStep
<1>3. FilesInv'
  BY <1>1, FilesStep
<1>4. ScriptInv'
  BY <1>1, ScriptStep
<1>5. UserInv'
  BY <1>1, UserStep
<1> QED BY <1>2, <1>3, <1>4, <1>5 DEF Inductive

\* The inductive invariant holds of every behaviour: of commands killed at any file operation
\* and run again, and a user who edits the file between any two of them.
THEOREM HooksInductive == Spec => []Inductive
<1> QED BY InitInductive, StepInductive, PTL DEF Spec

\* The files are documents whose matchers all have a command.
THEOREM HookTypes == Spec => []TypeOK
<1>1. Inductive => TypeOK
  BY DEF Inductive
<1> QED BY HooksInductive, <1>1, PTL

\* install_claude writes the scripts before it registers them and uninstall_claude removes
\* them after it has taken their entries out: no script is registered that is not there.
THEOREM ScriptsBehindHooks == Spec => []RegisteredHaveScripts
<1>1. Inductive => RegisteredHaveScripts
  BY DEF Inductive, ScriptInv
<1> QED BY HooksInductive, <1>1, PTL

\* merge_install and merge_uninstall leave the user's hooks as they are, in documents of any
\* size, and so does every command up to where it was killed.
THEOREM UserHooksKept == Spec => []UserEntriesKept
<1>1. Inductive => UserEntriesKept
  BY DEF Inductive, UserInv
<1> QED BY HooksInductive, <1>1, PTL

\* install_claude copies the file before it truncates it: while it is torn, the copy has
\* the user's hooks.
THEOREM BackupIsMade == Spec => []BackupBeforeWrite
<1>1. Inductive => BackupBeforeWrite
  BY DEF Inductive, UserInv
<1> QED BY HooksInductive, <1>1, PTL

\* An install that ends leaves each script registered exactly once under its own spelling of
\* the path and at most once under any other; an uninstall that ends leaves none registered
\* under any.  A second spelling is a second registration.
THEOREM CommandsFinish == Spec => FinishedMeansDone
<1>1. Inductive /\ [Next]_vars =>
        [cli.at # "done" /\ cli'.at = "done" =>
           IF cli.name = "install"
           THEN /\ scripts' = HookEvents
                /\ \A e \in HookEvents, dir \in Dirs :
                     LET n == Cardinality(Places([script |-> e, dir |-> dir], settings'.hooks[e]))
                     IN  n <= 1 /\ (dir = cli.dir => n = 1)
           ELSE /\ scripts' = {}
                /\ \A c \in DivanCommand : Places(c, settings'.hooks[c.script]) = {}]_vars
  <2> SUFFICES ASSUME Inductive, [Next]_vars, cli.at # "done", cli'.at = "done"
               PROVE  IF cli.name = "install"
                      THEN /\ scripts' = HookEvents
                           /\ \A e \in HookEvents, dir \in Dirs :
                                LET n == Cardinality(Places([script |-> e, dir |-> dir],
                                                            settings'.hooks[e]))
                                IN  n <= 1 /\ (dir = cli.dir => n = 1)
                      ELSE /\ scripts' = {}
                           /\ \A c \in DivanCommand : Places(c, settings'.hooks[c.script]) = {}
    OBVIOUS
  <2>1. TypeOK /\ FilesInv /\ ScriptInv
    BY DEF Inductive
  <2>2. WriteSettings \/ Uninstalled
    <3>1. ASSUME UserNext PROVE FALSE
      <4>1. PICK file : TameFile(file)
        BY <2>1, <3>1, UserSaves
      <4> QED BY <4>1 DEF TameFile, Save
    <3>2. ~ UNCHANGED vars
      BY DEF vars
    <3>3. \A at \in {"fill", "remove", "aborted", "torn", "backup", "write"} : ~ Goto(at)
      BY <2>1 DEF Goto, TypeOK
    <3>4. ~ Invoke /\ ~ RefuseBroken /\ ~ Truncate
      BY <3>3 DEF Invoke, RefuseBroken, Truncate
    <3>5. ~ ReadSettings
      BY <2>1, <3>3 DEF ReadSettings, TypeOK
    <3>6. ~ BackUp
      BY <2>1, <3>3 DEF BackUp, TypeOK
    <3>7. ~ Abort
      BY <3>3 DEF Abort
    <3>8. \A e \in HookEvents : ~ WriteScript(e) /\ ~ RemoveScript(e)
      BY DEF WriteScript, RemoveScript
    <3> QED BY <3>1, <3>2, <3>4, <3>5, <3>6, <3>7, <3>8 DEF Next, CliNext
  <2>3. CASE WriteSettings
    <3>1. /\ settings' = cli.merged /\ cli.at = "fill" /\ UNCHANGED scripts
          /\ cli.name = "install"
      BY <2>1, <2>3 DEF WriteSettings, Goto, TypeOK
    <3>2. scripts' = HookEvents
      BY <2>1, <3>1 DEF ScriptInv
    <3>3. ASSUME NEW e \in HookEvents, NEW dir \in Dirs
          PROVE  LET n == Cardinality(Places([script |-> e, dir |-> dir], settings'.hooks[e]))
                 IN  n <= 1 /\ (dir = cli.dir => n = 1)
      <4>1. PICK c \in DivanCommand : c = [script |-> e, dir |-> dir] /\ c.script = e
        <5>1. PICK c : c = [script |-> e, dir |-> dir]
          OBVIOUS
        <5>2. c \in DivanCommand /\ c.script = e
          BY <3>3, <5>1 DEF DivanCommand
        <5> QED BY <5>1, <5>2
      <4>2. PICK P : P = Places(c, cli.merged.hooks[e])
        OBVIOUS
      <4>3. \A p, q \in P : p = q
        BY <2>1, <4>1, <4>2 DEF FilesInv, Once
      <4>4. P = {} => dir # cli.dir
        BY <2>1, <3>1, <4>1, <4>2 DEF ScriptInv
      <4>5. CASE P = {}
        <5>1. Cardinality(P) = 0
          BY <4>5, FS_EmptySet
        <5> QED BY <3>1, <4>1, <4>2, <4>4, <4>5, <5>1
      <4>6. ASSUME NEW p \in P PROVE Cardinality(P) = 1
        <5>1. P = {p}
          BY <4>3
        <5> QED BY <5>1, FS_Singleton
      <4> QED BY <3>1, <4>1, <4>2, <4>5, <4>6
    <3> QED BY <3>1, <3>2, <3>3
  <2>4. CASE Uninstalled
    <3>1. cli.at = "remove" /\ scripts' = {} /\ settings' = settings
      BY <2>4 DEF Uninstalled, files
    <3>2. cli.name = "uninstall" /\ NoneRegistered(settings.hooks)
      BY <2>1, <3>1 DEF ScriptInv
    <3> QED BY <3>1, <3>2 DEF NoneRegistered
  <2> QED BY <2>2, <2>3, <2>4
<1> QED BY HooksInductive, <1>1, PTL DEF Spec, FinishedMeansDone
=============================================================================
