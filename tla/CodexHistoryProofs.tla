-------------------------- MODULE CodexHistoryProofs --------------------------
(***************************************************************************)
(* What TLAPS proves of CodexHistory, for any number of requests and call  *)
(* ids, every completion of an upstream and every input and manner of a    *)
(* client.                                                                 *)
(***************************************************************************)
EXTENDS CodexHistory, TLAPS, SequenceTheorems, WellFoundedInduction

-----------------------------------------------------------------------------
(* What a loop keeps of a sequence.                                        *)

LEMMA AllNumbers ==
  ASSUME NEW P, 0 \in P, \A n \in Nat : n \in P => n + 1 \in P
  PROVE  Nat \subseteq P
<1> DEFINE S == Nat \ P
           R == {ss \in Nat \X Nat : ss[1] < ss[2]}
<1>1. SUFFICES ASSUME S # {} PROVE FALSE
  OBVIOUS
<1>2. IsWellFoundedOn(R, Nat)
  BY NatLessThanWellFounded DEF OpToRel
<1>3. PICK x \in S : \A y \in S : ~(<<y, x>> \in R)
  <2>1. S \in SUBSET Nat
    OBVIOUS
  <2> HIDE DEF R, S
  <2> QED BY <1>1, <1>2, <2>1, WFMin
<1>4. x \in Nat /\ x # 0 /\ x - 1 \in Nat /\ x - 1 < x
  OBVIOUS
<1>5. x - 1 \in P
  <2>1. x - 1 \in S => <<x - 1, x>> \in R
    BY <1>4
  <2> QED BY <1>3, <1>4, <2>1
<1> QED
  BY <1>4, <1>5

\* f[n] is what is kept of the first n elements of s.
Keeps(f, s, I) ==
  /\ f = [n \in 0..Len(s) |-> f[n]] /\ DOMAIN f = 0..Len(s) /\ f[0] = <<>>
  /\ \A n \in 1..Len(s) : f[n] = IF n \in I THEN Append(f[n - 1], s[n]) ELSE f[n - 1]

LEMMA PickedKeeps ==
  ASSUME NEW S, NEW s \in Seq(S), NEW I
  PROVE  \E f : Keeps(f, s, I) /\ Picked(s, I) = f[Len(s)]
<1> DEFINE picked == CHOOSE f : f = [n \in 0..Len(s) |->
             IF n = 0 THEN <<>> ELSE IF n \in I THEN Append(f[n - 1], s[n]) ELSE f[n - 1]]
<1>1. Picked(s, I) = picked[Len(s)]
  BY DEF Picked
<1>2. Len(s) \in Nat
  OBVIOUS
<1> DEFINE step(m, n) == IF n \in I THEN Append(m, s[n]) ELSE m
           goes(f, k) == /\ f = [n \in 0..k |-> f[n]] /\ DOMAIN f = 0..k /\ f[0] = <<>>
                         /\ \A n \in 1..k : f[n] = step(f[n - 1], n)
           some == {k \in Nat : \E f : goes(f, k)}
<1>3. \E f : goes(f, Len(s))
  <2>1. 0 \in some
    <3> DEFINE f == [n \in 0..0 |-> <<>>]
    <3>1. goes(f, 0)
      OBVIOUS
    <3> HIDE DEF goes
    <3> QED BY <3>1
  <2>2. ASSUME NEW k \in Nat, k \in some PROVE k + 1 \in some
    <3>1. PICK f : goes(f, k)
      BY <2>2
    <3> HIDE DEF step
    <3> DEFINE g == [n \in 0..(k + 1) |-> IF n = k + 1 THEN step(f[k], n) ELSE f[n]]
    <3>2. DOMAIN g = 0..(k + 1) /\ g[0] = <<>>
      BY <3>1
    <3>3. ASSUME NEW n \in 1..(k + 1) PROVE g[n] = step(g[n - 1], n)
      <4>1. n - 1 \in 0..k /\ g[n - 1] = f[n - 1]
        OBVIOUS
      <4>2. CASE n = k + 1
        <5>1. n - 1 = k /\ g[n] = step(f[k], n)
          BY <4>2
        <5> QED BY <4>1, <5>1
      <4>3. CASE n # k + 1
        <5>1. n \in 1..k /\ g[n] = f[n]
          BY <4>3
        <5> QED BY <3>1, <4>1, <5>1
      <4> QED BY <4>2, <4>3
    <3>4. goes(g, k + 1)
      BY <3>2, <3>3
    <3> HIDE DEF goes
    <3> QED BY <3>4
  <2> HIDE DEF some
  <2>3. Nat \subseteq some
    BY <2>1, <2>2, AllNumbers
  <2> QED BY <1>2, <2>3 DEF some
<1>4. goes(picked, Len(s))
  <2> DEFINE loop(f) == [n \in 0..Len(s) |->
               IF n = 0 THEN <<>> ELSE IF n \in I THEN Append(f[n - 1], s[n]) ELSE f[n - 1]]
  <2>1. PICK f : goes(f, Len(s))
    BY <1>3
  <2>2. f = loop(f)
    <3>1. ASSUME NEW n \in 0..Len(s) PROVE f[n] = loop(f)[n]
      <4>1. n = 0 \/ n \in 1..Len(s)
        BY <1>2
      <4> QED BY <1>2, <2>1, <4>1
    <3>2. f = [n \in 0..Len(s) |-> f[n]] /\ loop(f) = [n \in 0..Len(s) |-> loop(f)[n]]
      BY <2>1
    <3> HIDE DEF loop, goes
    <3> QED BY <3>1, <3>2
  <2>3. picked = loop(picked)
    BY <2>2
  <2> HIDE DEF picked
  <2>4. DOMAIN picked = 0..Len(s) /\ picked = [n \in 0..Len(s) |-> picked[n]]
    BY <2>3
  <2>5. picked[0] = <<>>
    BY <1>2, <2>3
  <2>6. ASSUME NEW n \in 1..Len(s) PROVE picked[n] = step(picked[n - 1], n)
    <3>1. n \in 0..Len(s) /\ n # 0
      BY <1>2
    <3> QED BY <2>3, <3>1
  <2> QED BY <2>4, <2>5, <2>6
<1> QED
  <2> HIDE DEF picked
  <2>1. Keeps(picked, s, I)
    BY <1>4 DEF Keeps
  <2> QED BY <1>1, <2>1

LEMMA PickedIs ==
  ASSUME NEW S, NEW s \in Seq(S), NEW I, NEW f, f[0] = <<>>,
         \A n \in 1..Len(s) : f[n] = IF n \in I THEN Append(f[n - 1], s[n]) ELSE f[n - 1]
  PROVE  Picked(s, I) = f[Len(s)]
<1>1. PICK g : Keeps(g, s, I) /\ Picked(s, I) = g[Len(s)]
  BY PickedKeeps
<1>2. Len(s) \in Nat
  OBVIOUS
<1> DEFINE same == {k \in Nat : k <= Len(s) => f[k] = g[k]}
<1>3. 0 \in same
  BY <1>1 DEF Keeps
<1>4. ASSUME NEW k \in Nat, k \in same PROVE k + 1 \in same
  <2>1. SUFFICES ASSUME k + 1 <= Len(s) PROVE f[k + 1] = g[k + 1]
    OBVIOUS
  <2>2. k + 1 \in 1..Len(s) /\ (k + 1) - 1 = k /\ f[k] = g[k]
    BY <1>2, <1>4, <2>1
  <2> QED BY <1>1, <2>2 DEF Keeps
<1> HIDE DEF same
<1>5. Nat \subseteq same
  BY <1>3, <1>4, AllNumbers
<1> QED BY <1>1, <1>2, <1>5 DEF same

LEMMA PickedEmpty ==
  ASSUME NEW S, NEW s \in Seq(S), NEW I, Len(s) = 0
  PROVE  Picked(s, I) = <<>>
<1> DEFINE f == [n \in {0} |-> <<>>]
<1>1. f[0] = <<>> /\ \A n \in 1..Len(s) : f[n] = IF n \in I THEN Append(f[n - 1], s[n]) ELSE f[n - 1]
  OBVIOUS
<1> HIDE DEF f
<1>2. Picked(s, I) = f[Len(s)]
  BY <1>1, PickedIs
<1> QED BY <1>1, <1>2

\* All positions pick the sequence itself.
LEMMA PickedAll ==
  ASSUME NEW S, NEW s \in Seq(S), NEW I, DOMAIN s \subseteq I
  PROVE  Picked(s, I) = s
<1> DEFINE f == [n \in 0..Len(s) |-> SubSeq(s, 1, n)]
<1>1. Len(s) \in Nat /\ DOMAIN s = 1..Len(s)
  OBVIOUS
<1>2. f[0] = <<>>
  BY <1>1
<1>3. ASSUME NEW n \in 1..Len(s) PROVE f[n] = Append(f[n - 1], s[n]) /\ n \in I
  <2>1. n \in 0..Len(s) /\ n - 1 \in 0..Len(s) /\ n \in Nat /\ 1 <= n /\ n <= Len(s)
    BY <1>1
  <2>2. SubSeq(s, 1, n) = Append(SubSeq(s, 1, n - 1), s[n])
    BY <2>1
  <2> QED BY <1>1, <2>1, <2>2
<1>4. f[Len(s)] = s
  BY <1>1
<1> HIDE DEF f
<1>5. \A n \in 1..Len(s) : f[n] = IF n \in I THEN Append(f[n - 1], s[n]) ELSE f[n - 1]
  BY <1>3
<1>6. Picked(s, I) = f[Len(s)]
  BY <1>2, <1>5, PickedIs
<1> QED BY <1>4, <1>6

\* The elements of t come from positions of s that go up, and these are all in I.
Enumerates(at, s, I, t) ==
  /\ at \in [1..Len(t) -> 1..Len(s)]
  /\ \A n \in 1..Len(t) : at[n] \in I /\ t[n] = s[at[n]]
  /\ \A m, n \in 1..Len(t) : m < n => at[m] < at[n]
  /\ \A p \in 1..Len(s) : p \in I => \E n \in 1..Len(t) : at[n] = p

LEMMA PickedPositions ==
  ASSUME NEW S, NEW s \in Seq(S), NEW I
  PROVE  Picked(s, I) \in Seq(S) /\ \E at : Enumerates(at, s, I, Picked(s, I))
<1>1. PICK f : Keeps(f, s, I) /\ Picked(s, I) = f[Len(s)]
  BY PickedKeeps
<1>2. Len(s) \in Nat
  OBVIOUS
<1> DEFINE places(t, k, at) ==
             /\ at \in [1..Len(t) -> 1..k]
             /\ \A n \in 1..Len(t) : at[n] \in I /\ t[n] = s[at[n]]
             /\ \A m, n \in 1..Len(t) : m < n => at[m] < at[n]
             /\ \A p \in 1..k : p \in I => \E n \in 1..Len(t) : at[n] = p
           good(k) == k <= Len(s) => f[k] \in Seq(S) /\ \E at : places(f[k], k, at)
           so == {k \in Nat : good(k)}
<1>3. 0 \in so
  <2>1. f[0] = <<>> /\ Len(f[0]) = 0 /\ f[0] \in Seq(S)
    BY <1>1 DEF Keeps
  <2>2. places(f[0], 0, [n \in 1..0 |-> 1])
    BY <2>1
  <2> HIDE DEF places
  <2>3. good(0)
    BY <2>1, <2>2
  <2> HIDE DEF good
  <2> QED BY <2>3
<1>4. ASSUME NEW k \in Nat, good(k) PROVE good(k + 1)
  <2>1. SUFFICES ASSUME k + 1 <= Len(s)
                 PROVE  f[k + 1] \in Seq(S) /\ \E at : places(f[k + 1], k + 1, at)
    OBVIOUS
  <2>2. k + 1 \in 1..Len(s) /\ (k + 1) - 1 = k /\ f[k] \in Seq(S) /\ Len(f[k]) \in Nat /\ s[k + 1] \in S
    <3>1. k + 1 \in 1..Len(s) /\ (k + 1) - 1 = k /\ f[k] \in Seq(S)
      BY <1>2, <1>4, <2>1
    <3> QED BY <3>1
  <2>3. PICK at : places(f[k], k, at)
    BY <1>2, <1>4, <2>1
  <2>4. CASE k + 1 \in I
    <3> DEFINE t == f[k + 1]
               l == Len(f[k])
               new == [n \in 1..(l + 1) |-> IF n = l + 1 THEN k + 1 ELSE at[n]]
    <3>1. t = Append(f[k], s[k + 1])
      BY <1>1, <2>2, <2>4 DEF Keeps
    <3> HIDE DEF t
    <3>2. /\ t \in Seq(S) /\ Len(t) = l + 1 /\ t[l + 1] = s[k + 1]
          /\ \A n \in 1..l : t[n] = f[k][n]
      BY <2>2, <3>1
    <3>3. new[l + 1] = k + 1 /\ \A n \in 1..l : new[n] = at[n] /\ at[n] \in 1..k
      <4>1. l \in Nat /\ l + 1 \in 1..(l + 1) /\ \A n \in 1..l : n \in 1..(l + 1) /\ n # l + 1
        BY <2>2
      <4>2. \A n \in 1..l : at[n] \in 1..k
        BY <2>3
      <4> HIDE DEF l
      <4> QED BY <4>1, <4>2
    <3>4. new \in [1..Len(t) -> 1..(k + 1)]
      <4>1. ASSUME NEW n \in 1..(l + 1) PROVE new[n] \in 1..(k + 1)
        <5>1. n = l + 1 \/ n \in 1..l
          BY <2>2
        <5>2. k + 1 \in 1..(k + 1) /\ 1..k \subseteq 1..(k + 1)
          OBVIOUS
        <5> HIDE DEF new, l
        <5> QED BY <3>3, <5>1, <5>2
      <4> QED BY <3>2, <4>1
    <3> HIDE DEF new
    <3>5. ASSUME NEW n \in 1..Len(t) PROVE new[n] \in I /\ t[n] = s[new[n]]
      <4>1. CASE n = l + 1
        BY <2>4, <3>2, <3>3, <4>1
      <4>2. CASE n \in 1..l
        BY <2>3, <3>2, <3>3, <4>2
      <4> QED BY <2>2, <3>2, <4>1, <4>2
    <3>6. ASSUME NEW m \in 1..Len(t), NEW n \in 1..Len(t), m < n PROVE new[m] < new[n]
      <4>1. m \in 1..l
        BY <2>2, <3>2, <3>6
      <4>2. CASE n = l + 1
        BY <3>3, <4>1, <4>2
      <4>3. CASE n \in 1..l
        BY <2>3, <3>3, <3>6, <4>1, <4>3
      <4> QED BY <2>2, <3>2, <4>2, <4>3
    <3>7. ASSUME NEW p \in 1..(k + 1), p \in I PROVE \E n \in 1..Len(t) : new[n] = p
      <4>1. CASE p = k + 1
        BY <2>2, <3>2, <3>3, <4>1
      <4>2. CASE p \in 1..k
        <5>1. PICK n \in 1..l : at[n] = p
          BY <2>3, <3>7, <4>2
        <5>2. n \in 1..Len(t) /\ new[n] = p
          BY <2>2, <3>2, <3>3, <5>1
        <5> QED BY <5>2
      <4> QED BY <4>1, <4>2
    <3>8. places(t, k + 1, new)
      BY <3>4, <3>5, <3>6, <3>7
    <3> HIDE DEF places
    <3> QED BY <3>2, <3>8 DEF t
  <2>5. CASE k + 1 \notin I
    <3>1. f[k + 1] = f[k]
      BY <1>1, <2>2, <2>5 DEF Keeps
    <3>2. at \in [1..Len(f[k]) -> 1..(k + 1)]
      BY <2>3
    <3>3. \A p \in 1..(k + 1) : p \in I => p \in 1..k
      BY <2>5
    <3>4. places(f[k], k + 1, at)
      BY <2>3, <3>2, <3>3
    <3> HIDE DEF places
    <3> QED BY <2>2, <3>1, <3>4
  <2> QED BY <2>4, <2>5
<1>5. Nat \subseteq so
  <2> HIDE DEF good
  <2>1. \A k \in Nat : k \in so => k + 1 \in so
    BY <1>4
  <2> HIDE DEF so
  <2> QED BY <1>3, <2>1, AllNumbers
<1>6. f[Len(s)] \in Seq(S) /\ \E at : places(f[Len(s)], Len(s), at)
  <2>1. good(Len(s))
    <3> HIDE DEF good
    <3> QED BY <1>2, <1>5
  <2> HIDE DEF places
  <2> QED BY <1>2, <2>1
<1>7. PICK at : places(f[Len(s)], Len(s), at)
  BY <1>6
<1>8. Enumerates(at, s, I, f[Len(s)])
  BY <1>7 DEF Enumerates
<1> HIDE DEF places
<1> QED BY <1>1, <1>6, <1>8

LEMMA PickedConcat ==
  ASSUME NEW S, NEW s \in Seq(S), NEW t \in Seq(S), NEW I, NEW J,
         \A n \in 1..Len(t) : n \in J <=> Len(s) + n \in I
  PROVE  Picked(s \o t, I) = Picked(s, I) \o Picked(t, J)
<1>1. PICK f : Keeps(f, s, I) /\ Picked(s, I) = f[Len(s)]
  BY PickedKeeps
<1>2. PICK g : Keeps(g, t, J) /\ Picked(t, J) = g[Len(t)]
  BY PickedKeeps
<1> DEFINE a == Len(s)
           b == Len(t)
           ps == Picked(s, I)
<1>3. /\ a \in Nat /\ b \in Nat /\ s \o t \in Seq(S) /\ Len(s \o t) = a + b
      /\ \A n \in 1..a : (s \o t)[n] = s[n]
      /\ \A n \in 1..b : (s \o t)[a + n] = t[n] /\ t[n] \in S
  OBVIOUS
<1>4. ps \in Seq(S)
  BY PickedPositions
<1>5. \A k \in 0..b : g[k] \in Seq(S)
  <2> DEFINE so == {k \in Nat : k <= b => g[k] \in Seq(S)}
  <2>1. 0 \in so
    BY <1>2 DEF Keeps
  <2>2. ASSUME NEW k \in Nat, k \in so PROVE k + 1 \in so
    <3>1. SUFFICES ASSUME k + 1 <= b PROVE g[k + 1] \in Seq(S)
      OBVIOUS
    <3>2. k + 1 \in 1..b /\ (k + 1) - 1 = k /\ g[k] \in Seq(S) /\ t[k + 1] \in S
      BY <1>3, <2>2, <3>1
    <3>3. g[k + 1] = IF k + 1 \in J THEN Append(g[k], t[k + 1]) ELSE g[k]
      BY <1>2, <3>2 DEF Keeps
    <3> QED BY <3>2, <3>3
  <2> HIDE DEF so
  <2>3. Nat \subseteq so
    BY <2>1, <2>2, AllNumbers
  <2> QED BY <1>3, <2>3 DEF so
<1> DEFINE h == [n \in 0..(a + b) |-> IF n <= a THEN f[n] ELSE ps \o g[n - a]]
<1>6. h[0] = <<>>
  BY <1>1, <1>3 DEF Keeps
<1> HIDE DEF ps
<1>7. ps \o g[0] = ps /\ f[a] = ps
  <2>1. g[0] = <<>> /\ f[a] = ps
    BY <1>1, <1>2 DEF Keeps, ps
  <2>2. ps \o <<>> = ps
    BY <1>4
  <2> QED BY <2>1, <2>2
<1>8. ASSUME NEW n \in 1..Len(s \o t)
      PROVE  h[n] = IF n \in I THEN Append(h[n - 1], (s \o t)[n]) ELSE h[n - 1]
  <2>0. n \in 0..(a + b) /\ n - 1 \in 0..(a + b)
    BY <1>3
  <2>1. CASE n <= a
    <3>1. n \in 1..a /\ h[n] = f[n] /\ h[n - 1] = f[n - 1]
      BY <1>3, <2>0, <2>1
    <3> HIDE DEF h
    <3> QED BY <1>1, <1>3, <3>1 DEF Keeps
  <2>2. CASE n > a
    <3> DEFINE m == n - a
    <3>1. m \in 1..b /\ m - 1 \in 0..b /\ n = a + m
      BY <1>3, <2>2
    <3>2. h[n] = ps \o g[m]
      BY <1>3, <2>0, <2>2
    <3>3. h[n - 1] = ps \o g[m - 1]
      <4>1. CASE m = 1
        BY <1>3, <1>7, <2>0, <3>1, <4>1
      <4>2. CASE m # 1
        <5>1. ~(n - 1 <= a) /\ (n - 1) - a = m - 1
          BY <1>3, <3>1, <4>2
        <5> QED BY <2>0, <5>1
      <4> QED BY <4>1, <4>2
    <3>4. g[m] = IF m \in J THEN Append(g[m - 1], t[m]) ELSE g[m - 1]
      BY <1>2, <3>1 DEF Keeps
    <3>5. (n \in I <=> m \in J) /\ (s \o t)[n] = t[m] /\ g[m - 1] \in Seq(S) /\ t[m] \in S
      BY <1>3, <1>5, <3>1
    <3> HIDE DEF h, m
    <3>6. ps \o Append(g[m - 1], t[m]) = Append(ps \o g[m - 1], t[m])
      BY <1>4, <3>5
    <3> QED BY <3>2, <3>3, <3>4, <3>5, <3>6
  <2> QED BY <1>3, <2>1, <2>2
<1>9. h[a + b] = ps \o g[b]
  <2>1. CASE b = 0
    BY <1>3, <1>7, <2>1
  <2>2. CASE b # 0
    BY <1>3, <2>2
  <2> QED BY <2>1, <2>2
<1> HIDE DEF h
<1>10. Picked(s \o t, I) = h[Len(s \o t)]
  BY <1>3, <1>6, <1>8, PickedIs
<1> QED BY <1>2, <1>3, <1>9, <1>10 DEF ps

LEMMA PickedNone ==
  ASSUME NEW S, NEW s \in Seq(S), NEW I, \A n \in DOMAIN s : n \notin I
  PROVE  Picked(s, I) = <<>>
<1>1. PICK at : Enumerates(at, s, I, Picked(s, I))
  BY PickedPositions
<1>2. Picked(s, I) \in Seq(S)
  BY PickedPositions
<1>3. \A n \in 1..Len(Picked(s, I)) : FALSE
  BY <1>1 DEF Enumerates
<1> HIDE DEF Picked
<1>4. Len(Picked(s, I)) \in Nat
  BY <1>2
<1>5. Len(Picked(s, I)) = 0
  BY <1>3, <1>4
<1> QED BY <1>2, <1>5

-----------------------------------------------------------------------------
(* Items.                                                                  *)

\* The output of a response to request r: its calls have ids of their own, and are told by them.
IsAnswer(r, out) ==
  /\ out \in Seq(InputItem)
  /\ \A i \in DOMAIN out : out[i].by = r
  /\ \A i \in DOMAIN out : out[i].type = "function_call" =>
       /\ out[i].id \in CallIds
       /\ out[i] = CallItem(out[i].id, r, out[i].thought)
       /\ \A j \in DOMAIN out : out[j].type = "function_call" /\ out[j].id = out[i].id => i = j

LEMMA CallTyped ==
  ASSUME NEW id \in CallIds, NEW r \in Requests, NEW th \in Thoughts
  PROVE  /\ CallItem(id, r, th) \in InputItem
         /\ CallItem(id, r, th).type = "function_call" /\ CallItem(id, r, th).id = id
         /\ CallItem(id, r, th).by = r /\ CallItem(id, r, th).thought = th
BY DEF CallItem, Item, InputItem

LEMMA ThoughtTyped ==
  ASSUME NEW r \in Requests, NEW part \in {"own", "inline"}, NEW there
  PROVE  Thought(r, part, there) \in Thoughts
<1>1. Piece(r, part) \in [by : Requests, part : {"own", "inline"}]
  BY DEF Piece
<1> DEFINE S == [by : Requests, part : {"own", "inline"}]
<1> HIDE DEF S
<1>2. <<Piece(r, part)>> \in Seq(S) /\ <<>> \in Seq(S)
  BY <1>1 DEF S
<1> QED BY <1>2 DEF Thought, Thoughts, S

LEMMA OutputIsAnswer ==
  ASSUME NEW r \in Requests, NEW k \in Completions, NEW th \in Thoughts
  PROVE  IsAnswer(r, OutputItems(r, k, th))
<1> DEFINE A == IF th = <<>> THEN <<>> ELSE <<ReasoningItem(r, th)>>
           B == IF k.text THEN <<MessageItem("assistant", r, TRUE)>> ELSE <<>>
           C == [i \in DOMAIN k.calls |-> CallItem(k.calls[i], r, th)]
           Other == {it \in InputItem : it.by = r /\ it.type # "function_call"}
<1>1. k.calls \in Seq(CallIds) /\ IsInjective(k.calls)
  BY CompletionsAssumption
<1>2. <<>> \in Thoughts
  BY DEF Thoughts
<1>3. A \in Seq(Other) /\ B \in Seq(Other)
  <2>1. ReasoningItem(r, th) \in Other
    BY DEF ReasoningItem, Item, InputItem
  <2>2. MessageItem("assistant", r, TRUE) \in Other
    BY <1>2 DEF MessageItem, Item, InputItem, Roles
  <2> HIDE DEF Other
  <2> DEFINE a == ReasoningItem(r, th)
             b == MessageItem("assistant", r, TRUE)
  <2>3. a \in Other /\ b \in Other
    BY <2>1, <2>2
  <2> HIDE DEF a, b
  <2>4. <<a>> \in Seq(Other) /\ <<b>> \in Seq(Other) /\ <<>> \in Seq(Other)
    BY <2>3
  <2> QED BY <2>4 DEF a, b
<1> DEFINE D == A \o B
<1>4. D \in Seq(Other) /\ Len(D) \in Nat /\ Len(k.calls) \in Nat /\ DOMAIN k.calls = 1..Len(k.calls)
  <2> HIDE DEF A, B, Other
  <2> QED BY <1>1, <1>3
<1>5. \A i \in 1..Len(k.calls) : k.calls[i] \in CallIds
  BY <1>1
<1>6. C \in Seq(InputItem) /\ Len(C) = Len(k.calls)
  BY <1>4, <1>5, CallTyped
<1>7. \A i \in 1..Len(k.calls) : C[i] = CallItem(k.calls[i], r, th)
  BY <1>4
<1>8. OutputItems(r, k, th) = D \o C
  BY DEF OutputItems
<1> DEFINE out == D \o C
<1> HIDE DEF C, D
<1>9. D \in Seq(InputItem) /\ \A i \in 1..Len(D) : D[i].by = r /\ D[i].type # "function_call"
  BY <1>4
<1> HIDE DEF Other
<1>10. /\ out \in Seq(InputItem) /\ Len(out) = Len(D) + Len(k.calls) /\ DOMAIN out = 1..Len(out)
       /\ \A i \in 1..Len(D) : out[i] = D[i]
       /\ \A i \in 1..Len(k.calls) : out[Len(D) + i] = C[i]
  <2>1. D \in Seq(InputItem) /\ C \in Seq(InputItem)
    BY <1>6, <1>9
  <2>2. /\ out \in Seq(InputItem) /\ Len(out) = Len(D) + Len(C) /\ DOMAIN out = 1..Len(out)
        /\ \A i \in 1..Len(D) : out[i] = D[i]
        /\ \A i \in 1..Len(C) : out[Len(D) + i] = C[i]
    BY <2>1
  <2> QED BY <1>6, <2>2
<1> HIDE DEF out
<1>11. ASSUME NEW i \in DOMAIN out
       PROVE  \/ out[i].by = r /\ out[i].type # "function_call"
              \/ i - Len(D) \in 1..Len(k.calls) /\ out[i] = CallItem(k.calls[i - Len(D)], r, th)
  <2>1. i \in Nat /\ 1 <= i /\ i <= Len(D) + Len(k.calls)
    BY <1>4, <1>10
  <2>2. CASE i <= Len(D)
    <3>1. i \in 1..Len(D)
      BY <1>4, <2>1, <2>2
    <3> QED BY <1>9, <1>10, <3>1
  <2>3. CASE i > Len(D)
    <3>1. i - Len(D) \in 1..Len(k.calls) /\ Len(D) + (i - Len(D)) = i
      BY <1>4, <2>1, <2>3
    <3> QED BY <1>7, <1>10, <3>1
  <2> QED BY <1>4, <2>1, <2>2, <2>3
<1>12. ASSUME NEW i \in DOMAIN out, out[i].type = "function_call"
       PROVE  /\ i - Len(D) \in 1..Len(k.calls) /\ out[i].id = k.calls[i - Len(D)]
              /\ out[i].by = r /\ out[i].thought = th
              /\ out[i].id \in CallIds
              /\ out[i] = CallItem(out[i].id, r, out[i].thought)
  <2>1. i - Len(D) \in 1..Len(k.calls) /\ out[i] = CallItem(k.calls[i - Len(D)], r, th)
    BY <1>11, <1>12
  <2>2. k.calls[i - Len(D)] \in CallIds
    BY <1>5, <2>1
  <2>3. out[i].id = k.calls[i - Len(D)] /\ out[i].by = r /\ out[i].thought = th
    BY <2>1, <2>2, CallTyped
  <2> QED BY <2>1, <2>2, <2>3
<1>13. ASSUME NEW i \in DOMAIN out PROVE out[i].by = r
  <2>1. CASE out[i].type = "function_call"
    BY <1>12, <2>1
  <2>2. CASE out[i].type # "function_call"
    <3>1. \A j \in 1..Len(k.calls) : CallItem(k.calls[j], r, th).by = r
      BY <1>5, CallTyped
    <3> QED BY <1>11, <3>1
  <2> QED BY <2>1, <2>2
<1>14. ASSUME NEW i \in DOMAIN out, NEW j \in DOMAIN out,
              out[i].type = "function_call", out[j].type = "function_call", out[j].id = out[i].id
       PROVE  i = j
  <2>1. i - Len(D) \in DOMAIN k.calls /\ j - Len(D) \in DOMAIN k.calls
        /\ k.calls[i - Len(D)] = k.calls[j - Len(D)]
    BY <1>4, <1>12, <1>14
  <2>2. i - Len(D) = j - Len(D)
    BY <1>1, <2>1 DEF IsInjective
  <2>3. i \in Nat /\ j \in Nat
    BY <1>10
  <2> QED BY <1>4, <2>2, <2>3
<1>15. IsAnswer(r, out)
  BY <1>10, <1>12, <1>13, <1>14 DEF IsAnswer
<1> QED BY <1>8, <1>15 DEF out

LEMMA AnswersAre ==
  ASSUME NEW r \in Requests, NEW k \in Completions
  PROVE  IsAnswer(r, BodyOutput(r, k)) /\ IsAnswer(r, StreamOutput(r, k))
<1>1. Thought(r, "own", k.own) \in Thoughts /\ Thought(r, "inline", k.inline) \in Thoughts
  BY ThoughtTyped
<1>2. IsAnswer(r, StreamOutput(r, k))
  <2>1. Thought(r, "own", k.own) \o Thought(r, "inline", k.inline) \in Thoughts
    BY <1>1 DEF Thoughts
  <2> QED BY <2>1, OutputIsAnswer DEF StreamOutput
<1>3. IsAnswer(r, BodyOutput(r, k))
  <2> DEFINE items == OutputItems(r, k, IF k.own THEN Thought(r, "own", k.own) ELSE Thought(r, "inline", k.inline))
  <2>1. IsAnswer(r, items)
    BY <1>1, OutputIsAnswer
  <2>2. IsAnswer(r, <<MessageItem("assistant", r, FALSE)>>)
    <3> DEFINE it == MessageItem("assistant", r, FALSE)
    <3>1. it \in InputItem /\ it.by = r /\ it.type = "message"
      <4>1. <<>> \in Thoughts
        BY DEF Thoughts
      <4> QED BY <4>1 DEF MessageItem, Item, InputItem, Roles
    <3> HIDE DEF it
    <3>2. /\ <<it>> \in Seq(InputItem)
          /\ \A i \in DOMAIN <<it>> : <<it>>[i].by = r /\ <<it>>[i].type # "function_call"
      BY <3>1
    <3>3. IsAnswer(r, <<it>>)
      BY <3>2 DEF IsAnswer
    <3> QED BY <3>3 DEF it
  <2>3. BodyOutput(r, k) = items \/ BodyOutput(r, k) = <<MessageItem("assistant", r, FALSE)>>
    BY DEF BodyOutput
  <2> HIDE DEF items
  <2> QED BY <2>1, <2>2, <2>3
<1> QED BY <1>2, <1>3

LEMMA CallItemsOf ==
  ASSUME NEW r \in Requests, NEW out, IsAnswer(r, out)
  PROVE  LET its == CallItems(out) IN
         /\ its \in Seq(InputItem)
         /\ \E at : Enumerates(at, out, {i \in DOMAIN out : out[i].type = "function_call"}, its)
         /\ \A n \in 1..Len(its) : /\ its[n] = CallItem(its[n].id, r, its[n].thought)
                                   /\ its[n].type = "function_call"
                                   /\ its[n].id \in CallIds /\ its[n].thought \in Thoughts /\ its[n].by = r
<1> DEFINE I == {i \in DOMAIN out : out[i].type = "function_call"}
           its == CallItems(out)
<1>1. out \in Seq(InputItem) /\ DOMAIN out = 1..Len(out)
  BY DEF IsAnswer
<1>2. its = Picked(out, I)
  BY DEF CallItems
<1> HIDE DEF its, I
<1>3. its \in Seq(InputItem) /\ \E at : Enumerates(at, out, I, its)
  <2>1. out \in Seq(InputItem)
    BY <1>1
  <2>2. Picked(out, I) \in Seq(InputItem) /\ \E at : Enumerates(at, out, I, Picked(out, I))
    BY <2>1, PickedPositions
  <2> QED BY <1>2, <2>2
<1>4. PICK at \in [1..Len(its) -> 1..Len(out)] :
              /\ \A n \in 1..Len(its) : at[n] \in I /\ its[n] = out[at[n]]
              /\ \A m, n \in 1..Len(its) : m < n => at[m] < at[n]
              /\ \A p \in 1..Len(out) : p \in I => \E n \in 1..Len(its) : at[n] = p
  BY <1>3 DEF Enumerates
<1>5. ASSUME NEW n \in 1..Len(its)
      PROVE  /\ its[n] = out[at[n]]
             /\ its[n] = CallItem(its[n].id, r, its[n].thought)
             /\ its[n].type = "function_call"
             /\ its[n].id \in CallIds /\ its[n].thought \in Thoughts /\ its[n].by = r
  <2>1. at[n] \in DOMAIN out /\ out[at[n]].type = "function_call" /\ its[n] = out[at[n]]
    BY <1>4 DEF I
  <2>2. out[at[n]] \in InputItem
    BY <1>1, <2>1
  <2>3. out[at[n]].thought \in Thoughts
    BY <2>2 DEF InputItem
  <2> QED BY <2>1, <2>3 DEF IsAnswer
<1> QED BY <1>3, <1>5 DEF its, I

\* The calls that are kept of a response, each of them an item of its output.
LEMMA CachedOf ==
  ASSUME NEW r \in Requests, NEW a, IsAnswer(r, a.output)
  PROVE  LET calls == CachedCalls(a) IN
         /\ calls \in Seq(CachedCall)
         /\ \E at \in [1..Len(calls) -> 1..Len(a.output)] :
              /\ \A n \in 1..Len(calls) :
                   a.output[at[n]] = CallItem(calls[n].id, calls[n].by, calls[n].thought)
              /\ \A m, n \in 1..Len(calls) : m < n => at[m] < at[n]
         /\ \A n \in 1..Len(calls) : calls[n].by = r
         /\ \A m, n \in 1..Len(calls) : calls[m].id = calls[n].id => m = n
         /\ \A id : id \in IdsOf(a.output, "function_call") => \E n \in 1..Len(calls) : calls[n].id = id
<1> DEFINE out == a.output
           its == CallItems(out)
           calls == CachedCalls(a)
<1>0. /\ \E at : Enumerates(at, out, {i \in DOMAIN out : out[i].type = "function_call"}, its)
      /\ \A n \in 1..Len(its) : /\ its[n] = CallItem(its[n].id, r, its[n].thought)
                                /\ its[n].type = "function_call"
                                /\ its[n].id \in CallIds /\ its[n].thought \in Thoughts /\ its[n].by = r
  BY CallItemsOf
<1>1. PICK at \in [1..Len(its) -> 1..Len(out)] :
              /\ \A n \in 1..Len(its) : /\ its[n] = out[at[n]]
                                        /\ its[n] = CallItem(its[n].id, r, its[n].thought)
                                        /\ its[n].type = "function_call"
                                        /\ its[n].id \in CallIds /\ its[n].thought \in Thoughts /\ its[n].by = r
              /\ \A m, n \in 1..Len(its) : m < n => at[m] < at[n]
              /\ \A p \in DOMAIN out : out[p].type = "function_call" => \E n \in 1..Len(its) : at[n] = p
  <2>1. DOMAIN out = 1..Len(out)
    <3>1. out \in Seq(InputItem)
      BY DEF IsAnswer
    <3> HIDE DEF out
    <3> QED BY <3>1
  <2> HIDE DEF its, out
  <2>2. PICK at : Enumerates(at, out, {i \in DOMAIN out : out[i].type = "function_call"}, its)
    BY <1>0
  <2>3. /\ at \in [1..Len(its) -> 1..Len(out)]
        /\ \A n \in 1..Len(its) : its[n] = out[at[n]]
        /\ \A m, n \in 1..Len(its) : m < n => at[m] < at[n]
        /\ \A p \in DOMAIN out : out[p].type = "function_call" => \E n \in 1..Len(its) : at[n] = p
    BY <2>1, <2>2 DEF Enumerates
  <2> QED BY <1>0, <2>3
<1>2. its \in Seq(InputItem) /\ DOMAIN its = 1..Len(its) /\ Len(its) \in Nat
  <2>1. its \in Seq(InputItem)
    BY CallItemsOf
  <2> HIDE DEF its
  <2> QED BY <2>1
<1>3. calls = [i \in 1..Len(its) |-> [id |-> its[i].id, by |-> its[i].by, thought |-> its[i].thought]]
  BY <1>2 DEF CachedCalls
<1>4. out \in Seq(InputItem) /\ DOMAIN out = 1..Len(out)
  BY DEF IsAnswer
<1> HIDE DEF its, calls, out
<1>5. \A i \in 1..Len(its) : [id |-> its[i].id, by |-> its[i].by, thought |-> its[i].thought] \in CachedCall
  BY <1>1 DEF CachedCall
<1>6. calls \in Seq(CachedCall) /\ Len(calls) = Len(its)
  BY <1>2, <1>3, <1>5
<1>7. \A n \in 1..Len(calls) :
        calls[n].id = its[n].id /\ calls[n].by = its[n].by /\ calls[n].thought = its[n].thought
  BY <1>3, <1>6
<1>8. /\ at \in [1..Len(calls) -> 1..Len(out)]
      /\ \A n \in 1..Len(calls) : out[at[n]] = CallItem(calls[n].id, calls[n].by, calls[n].thought)
      /\ \A m, n \in 1..Len(calls) : m < n => at[m] < at[n]
      /\ \A n \in 1..Len(calls) : calls[n].by = r
  BY <1>1, <1>6, <1>7
<1>9. ASSUME NEW m \in 1..Len(calls), NEW n \in 1..Len(calls), calls[m].id = calls[n].id PROVE m = n
  <2>1. /\ at[m] \in DOMAIN out /\ at[n] \in DOMAIN out
        /\ out[at[m]].type = "function_call" /\ out[at[n]].type = "function_call"
        /\ out[at[m]].id = out[at[n]].id
    <3>1. ASSUME NEW i \in 1..Len(calls)
          PROVE  at[i] \in DOMAIN out /\ out[at[i]].type = "function_call" /\ out[at[i]].id = calls[i].id
      <4>1. i \in 1..Len(its) /\ at[i] \in 1..Len(out)
        BY <1>6, <1>8
      <4>2. its[i] = out[at[i]] /\ its[i].type = "function_call" /\ calls[i].id = its[i].id
        BY <1>1, <1>7, <4>1
      <4> QED BY <1>4, <4>1, <4>2
    <3> QED BY <1>9, <3>1
  <2>2. at[m] = at[n]
    BY <2>1 DEF IsAnswer, out
  <2>3. at[m] \in Nat /\ at[n] \in Nat /\ ~(at[m] < at[n]) /\ ~(at[n] < at[m])
    BY <1>4, <2>1, <2>2
  <2>4. m \in Nat /\ n \in Nat /\ ~(m < n) /\ ~(n < m)
    BY <1>8, <2>3
  <2> QED BY <2>4
<1>10. ASSUME NEW id, id \in IdsOf(out, "function_call") PROVE \E n \in 1..Len(calls) : calls[n].id = id
  <2>1. PICK p \in DOMAIN out : out[p].type = "function_call" /\ out[p].id = id
    BY <1>10 DEF IdsOf
  <2>2. PICK n \in 1..Len(its) : at[n] = p
    BY <1>1, <1>4, <2>1
  <2> QED BY <1>1, <1>6, <1>7, <2>1, <2>2
<1>11. \E f \in [1..Len(calls) -> 1..Len(out)] :
         /\ \A n \in 1..Len(calls) : out[f[n]] = CallItem(calls[n].id, calls[n].by, calls[n].thought)
         /\ \A m, n \in 1..Len(calls) : m < n => f[m] < f[n]
  BY <1>8
<1> QED BY <1>6, <1>8, <1>9, <1>10, <1>11 DEF calls, out

-----------------------------------------------------------------------------
(* Requests with their calls put back.                                     *)

LEMMA GroupOf ==
  ASSUME NEW items \in Seq(InputItem), NEW calls \in Seq(CachedCall)
  PROVE  LET group == RestoreGroup(items, calls)
             asked == IdsOf(items, "function_call_output") \ IdsOf(items, "function_call") IN
         /\ group \in Seq(CachedCall)
         /\ \E at \in [1..Len(group) -> 1..Len(calls)] :
              /\ \A n \in 1..Len(group) : group[n] = calls[at[n]] /\ group[n].id \in asked
              /\ \A m, n \in 1..Len(group) : m < n => at[m] < at[n]
              /\ \A p \in 1..Len(calls) : calls[p].id \in asked => \E n \in 1..Len(group) : at[n] = p
<1> DEFINE asked == IdsOf(items, "function_call_output") \ IdsOf(items, "function_call")
           I == {i \in DOMAIN calls : calls[i].id \in asked}
           group == RestoreGroup(items, calls)
<1>1. group = Picked(calls, I) /\ DOMAIN calls = 1..Len(calls)
  BY DEF RestoreGroup
<1>2. \A i \in 1..Len(calls) : i \in I <=> calls[i].id \in asked
  BY <1>1
<1> HIDE DEF group, I, asked
<1>3. group \in Seq(CachedCall) /\ \E at : Enumerates(at, calls, I, group)
  <2>1. calls \in Seq(CachedCall)
    BY <1>1
  <2>2. Picked(calls, I) \in Seq(CachedCall) /\ \E at : Enumerates(at, calls, I, Picked(calls, I))
    BY <2>1, PickedPositions
  <2> QED BY <1>1, <2>2
<1>4. PICK at \in [1..Len(group) -> 1..Len(calls)] :
              /\ \A n \in 1..Len(group) : at[n] \in I /\ group[n] = calls[at[n]]
              /\ \A m, n \in 1..Len(group) : m < n => at[m] < at[n]
              /\ \A p \in 1..Len(calls) : p \in I => \E n \in 1..Len(group) : at[n] = p
  BY <1>3 DEF Enumerates
<1>5. \A n \in 1..Len(group) : group[n] = calls[at[n]] /\ group[n].id \in asked
  BY <1>2, <1>4
<1>6. \A p \in 1..Len(calls) : calls[p].id \in asked => \E n \in 1..Len(group) : at[n] = p
  BY <1>2, <1>4
<1>7. \E f \in [1..Len(group) -> 1..Len(calls)] :
              /\ \A n \in 1..Len(group) : group[n] = calls[f[n]] /\ group[n].id \in asked
              /\ \A m, n \in 1..Len(group) : m < n => f[m] < f[n]
              /\ \A p \in 1..Len(calls) : calls[p].id \in asked => \E n \in 1..Len(group) : f[n] = p
  BY <1>4, <1>5, <1>6
<1> QED BY <1>3, <1>7 DEF group, asked

LEMMA Least ==
  ASSUME NEW S \in SUBSET Nat, S # {}
  PROVE  \E m \in S : \A j \in S : m <= j
<1> DEFINE R == {ss \in Nat \X Nat : ss[1] < ss[2]}
<1>1. IsWellFoundedOn(R, Nat)
  BY NatLessThanWellFounded DEF OpToRel
<1>2. PICK x \in S : \A y \in S : ~(<<y, x>> \in R)
  <2> HIDE DEF R
  <2> QED BY <1>1, WFMin
<1>3. ASSUME NEW j \in S PROVE x <= j
  <2>1. j \in Nat /\ x \in Nat /\ ~(<<j, x>> \in R)
    BY <1>2
  <2>2. ~(j < x)
    BY <2>1
  <2> QED BY <2>1, <2>2
<1> QED BY <1>3

LEMMA ConcatAt ==
  ASSUME NEW S, NEW s \in Seq(S), NEW t \in Seq(S)
  PROVE  /\ s \o t \in Seq(S) /\ Len(s \o t) = Len(s) + Len(t)
         /\ Len(s) \in Nat /\ Len(t) \in Nat
         /\ \A i \in 1..Len(s) : (s \o t)[i] = s[i]
         /\ \A i \in 1..Len(t) : (s \o t)[Len(s) + i] = t[i]
OBVIOUS

LEMMA SameSequence ==
  ASSUME NEW S, NEW s \in Seq(S), NEW t \in Seq(S), Len(s) = Len(t), \A i \in 1..Len(t) : s[i] = t[i]
  PROVE  s = t
OBVIOUS

LEMMA CutAt ==
  ASSUME NEW S, NEW s \in Seq(S), NEW a \in 0..Len(s)
  PROVE  /\ SubSeq(s, 1, a) \in Seq(S) /\ Len(SubSeq(s, 1, a)) = a
         /\ \A i \in 1..a : SubSeq(s, 1, a)[i] = s[i]
         /\ SubSeq(s, a + 1, Len(s)) \in Seq(S) /\ Len(SubSeq(s, a + 1, Len(s))) = Len(s) - a
         /\ \A i \in 1..(Len(s) - a) : SubSeq(s, a + 1, Len(s))[i] = s[a + i]
<1>1. Len(s) \in Nat /\ a \in Nat /\ a <= Len(s) /\ a \in Int /\ a + 1 \in Int /\ Len(s) \in Int
  OBVIOUS
<1>2. \A i \in 1..Len(s) : s[i] \in S
  OBVIOUS
<1>3. \A i \in 1..a : i \in 1..Len(s)
  BY <1>1
<1>4. \A i \in (a + 1)..Len(s) : i \in 1..Len(s)
  BY <1>1
<1>5. /\ SubSeq(s, 1, a) \in Seq(S) /\ Len(SubSeq(s, 1, a)) = a
      /\ \A i \in 1..a : SubSeq(s, 1, a)[i] = s[i]
  <2> DEFINE A == SubSeq(s, 1, a)
  <2>1. /\ A \in Seq(S) /\ Len(A) = IF 1 <= a THEN a - 1 + 1 ELSE 0
        /\ \A i \in 1..(a - 1 + 1) : A[i] = s[1 + i - 1]
    BY <1>1, <1>2, <1>3, SubSeqProperties
  <2> HIDE DEF A
  <2>2. a - 1 + 1 = a /\ \A i \in 1..a : 1 + i - 1 = i
    BY <1>1
  <2>3. Len(A) = a
    BY <1>1, <2>1
  <2>4. \A i \in 1..a : A[i] = s[i]
    BY <2>1, <2>2
  <2> QED BY <2>1, <2>3, <2>4 DEF A
<1>6. /\ SubSeq(s, a + 1, Len(s)) \in Seq(S) /\ Len(SubSeq(s, a + 1, Len(s))) = Len(s) - a
      /\ \A i \in 1..(Len(s) - a) : SubSeq(s, a + 1, Len(s))[i] = s[a + i]
  <2> DEFINE B == SubSeq(s, a + 1, Len(s))
  <2>1. /\ B \in Seq(S) /\ Len(B) = IF a + 1 <= Len(s) THEN Len(s) - (a + 1) + 1 ELSE 0
        /\ \A i \in 1..(Len(s) - (a + 1) + 1) : B[i] = s[a + 1 + i - 1]
    BY <1>1, <1>2, <1>4, SubSeqProperties
  <2> HIDE DEF B
  <2>2. Len(s) - (a + 1) + 1 = Len(s) - a /\ \A i \in 1..(Len(s) - a) : a + 1 + i - 1 = a + i
    BY <1>1
  <2>3. Len(B) = Len(s) - a
    BY <1>1, <2>1
  <2>4. \A i \in 1..(Len(s) - a) : B[i] = s[a + i]
    BY <2>1, <2>2
  <2> QED BY <2>1, <2>3, <2>4 DEF B
<1> QED BY <1>5, <1>6

RestoredItems(group) == [i \in DOMAIN group |-> CallItem(group[i].id, group[i].by, group[i].thought)]

\* e is the items with R among them, before the first result, which is at a + 1.
Inserted(a, items, R, e) ==
  /\ a \in Nat /\ a + 1 \in 1..Len(items) /\ items[a + 1].type = "function_call_output"
  /\ \A j \in 1..a : items[j].type # "function_call_output"
  /\ e = SubSeq(items, 1, a) \o R \o SubSeq(items, a + 1, Len(items))
  /\ \A i \in 1..a : e[i] = items[i]
  /\ \A n \in 1..Len(R) : e[a + n] = R[n]
  /\ \A i \in (a + 1)..Len(items) : e[Len(R) + i] = items[i]

LEMMA EnrichedParts ==
  ASSUME NEW items \in Seq(InputItem), NEW calls \in Seq(CachedCall), RestoreGroup(items, calls) # <<>>
  PROVE  LET group == RestoreGroup(items, calls)
             restored == RestoredItems(group)
             e == enrichRequest(items, calls) IN
         /\ group \in Seq(CachedCall) /\ restored \in Seq(InputItem) /\ Len(restored) = Len(group)
         /\ e \in Seq(InputItem) /\ Len(e) = Len(items) + Len(group)
         /\ \E a : Inserted(a, items, restored, e)
<1> DEFINE group == RestoreGroup(items, calls)
           restored == RestoredItems(group)
           e == enrichRequest(items, calls)
           outputs == {i \in DOMAIN items : items[i].type = "function_call_output"}
           at == CHOOSE i \in outputs : \A j \in outputs : i <= j
<1>1. group \in Seq(CachedCall) /\ DOMAIN group = 1..Len(group) /\ Len(group) \in Nat /\ Len(group) # 0
  <2>1. group \in Seq(CachedCall)
    BY GroupOf
  <2>2. group # <<>>
    OBVIOUS
  <2> HIDE DEF group
  <2> QED BY <2>1, <2>2
<1>2. DOMAIN items = 1..Len(items) /\ Len(items) \in Nat
  OBVIOUS
<1>3. outputs # {}
  <2>1. 1 \in 1..Len(group)
    BY <1>1
  <2>2. group[1].id \in IdsOf(items, "function_call_output")
    BY <2>1, GroupOf
  <2> QED BY <2>2 DEF IdsOf
<1>4. at \in outputs /\ \A j \in outputs : at <= j
  <2>1. outputs \in SUBSET Nat
    BY <1>2
  <2> HIDE DEF outputs
  <2> QED BY <1>3, <2>1, Least
<1>5. e = SubSeq(items, 1, at - 1) \o restored \o SubSeq(items, at, Len(items))
  BY DEF enrichRequest, RestoredItems
<1> HIDE DEF at
<1> DEFINE a == at - 1
<1>6. /\ a \in Nat /\ a + 1 = at /\ at - 1 = a /\ a \in 0..Len(items) /\ a + 1 \in 1..Len(items) /\ items[a + 1].type = "function_call_output"
      /\ \A j \in 1..a : items[j].type # "function_call_output"
  BY <1>2, <1>4
<1> HIDE DEF a, outputs, group
<1>7. restored \in Seq(InputItem) /\ Len(restored) = Len(group)
  <2>1. ASSUME NEW i \in 1..Len(group)
        PROVE  CallItem(group[i].id, group[i].by, group[i].thought) \in InputItem
    <3>1. group[i] \in CachedCall
      BY <1>1
    <3>2. group[i].id \in CallIds /\ group[i].by \in Requests /\ group[i].thought \in Thoughts
      BY <3>1 DEF CachedCall
    <3> QED BY <3>2, CallTyped
  <2> QED BY <1>1, <2>1 DEF RestoredItems
<1> HIDE DEF restored, e
<1> DEFINE A == SubSeq(items, 1, a)
           B == SubSeq(items, a + 1, Len(items))
<1>8. /\ A \in Seq(InputItem) /\ Len(A) = a /\ \A i \in 1..a : A[i] = items[i]
      /\ B \in Seq(InputItem) /\ Len(B) = Len(items) - a
      /\ \A i \in 1..(Len(items) - a) : B[i] = items[a + i]
  BY <1>6, CutAt
<1>9. e = A \o restored \o B
  BY <1>5, <1>6
<1> HIDE DEF A, B
<1>10. /\ e \in Seq(InputItem) /\ Len(e) = Len(items) + Len(group)
       /\ \A i \in 1..a : e[i] = A[i]
       /\ \A n \in 1..Len(group) : e[a + n] = restored[n]
       /\ \A i \in 1..(Len(items) - a) : e[Len(group) + a + i] = B[i]
  <2> DEFINE AR == A \o restored
  <2>1. /\ AR \in Seq(InputItem) /\ Len(AR) = a + Len(group)
        /\ \A i \in 1..a : AR[i] = A[i]
        /\ \A n \in 1..Len(group) : AR[a + n] = restored[n]
    <3>1. /\ AR \in Seq(InputItem) /\ Len(AR) = Len(A) + Len(restored)
          /\ \A i \in 1..Len(A) : AR[i] = A[i]
          /\ \A n \in 1..Len(restored) : AR[Len(A) + n] = restored[n]
      <4>1. A \in Seq(InputItem) /\ restored \in Seq(InputItem)
        BY <1>7, <1>8
      <4> QED BY <4>1, ConcatAt
    <3> HIDE DEF AR
    <3> QED BY <1>7, <1>8, <3>1
  <2>2. e = AR \o B
    BY <1>9
  <2> HIDE DEF AR
  <2>3. /\ e \in Seq(InputItem) /\ Len(e) = a + Len(group) + (Len(items) - a)
        /\ \A i \in 1..(a + Len(group)) : e[i] = AR[i]
        /\ \A i \in 1..(Len(items) - a) : e[a + Len(group) + i] = B[i]
    <3>1. /\ e \in Seq(InputItem) /\ Len(e) = Len(AR) + Len(B)
          /\ \A i \in 1..Len(AR) : e[i] = AR[i]
          /\ \A i \in 1..Len(B) : e[Len(AR) + i] = B[i]
      <4>1. AR \in Seq(InputItem) /\ B \in Seq(InputItem)
        BY <1>8, <2>1
      <4> QED BY <2>2, <4>1, ConcatAt
    <3> QED BY <1>8, <2>1, <3>1
  <2>4. \A i \in 1..a : i \in 1..(a + Len(group))
    BY <1>1, <1>6
  <2>5. \A n \in 1..Len(group) : a + n \in 1..(a + Len(group))
    BY <1>1, <1>6
  <2>6. Len(e) = Len(items) + Len(group) /\ a + Len(group) = Len(group) + a
    BY <1>1, <1>2, <1>6, <2>3
  <2> QED BY <2>1, <2>3, <2>4, <2>5, <2>6
<1>11. ASSUME NEW i \in (a + 1)..Len(items) PROVE e[Len(group) + i] = items[i]
  <2>1. i - a \in 1..(Len(items) - a) /\ a + (i - a) = i /\ Len(group) + a + (i - a) = Len(group) + i
    <3>1. i \in Int /\ a + 1 <= i /\ i <= Len(items) /\ a \in Nat /\ Len(items) \in Nat /\ Len(group) \in Nat
      BY <1>1, <1>2, <1>6
    <3>2. i - a \in 1..(Len(items) - a)
      BY <3>1
    <3>3. a + (i - a) = i /\ Len(group) + a + (i - a) = Len(group) + i
      BY <3>1
    <3> QED BY <3>2, <3>3
  <2>2. e[Len(group) + a + (i - a)] = B[i - a] /\ B[i - a] = items[a + (i - a)]
    BY <1>8, <1>10, <2>1
  <2> QED BY <2>1, <2>2
<1>12. Inserted(a, items, restored, e)
  <2>1. e = SubSeq(items, 1, a) \o restored \o SubSeq(items, a + 1, Len(items))
    BY <1>9 DEF A, B
  <2>2. \A i \in 1..a : e[i] = items[i]
    BY <1>8, <1>10
  <2> QED BY <1>6, <1>7, <1>10, <1>11, <2>1, <2>2 DEF Inserted
<1> QED BY <1>1, <1>7, <1>10, <1>12 DEF e, restored, group

LEMMA EnrichedTyped ==
  ASSUME NEW items \in Seq(InputItem), NEW calls \in Seq(CachedCall)
  PROVE  enrichRequest(items, calls) \in Seq(InputItem)
<1>1. CASE RestoreGroup(items, calls) = <<>>
  BY <1>1 DEF enrichRequest
<1>2. CASE RestoreGroup(items, calls) # <<>>
  BY <1>2, EnrichedParts
<1> QED BY <1>1, <1>2

-----------------------------------------------------------------------------
(* Types.                                                                  *)

AnswersShaped == \A r \in Requests : IsAnswer(r, answer[r].output)

TypeInv == TypeOK /\ AnswersShaped

LEMMA RecordTyped ==
  ASSUME TypeInv, NEW r \in Requests
  PROVE  LET after == recordResponsePayload(answer[r]) IN
         /\ DOMAIN after \subseteq StoreIds
         /\ \A i \in DOMAIN after : after[i] \in Seq(CachedCall) \ {<<>>}
<1>1. CachedCalls(answer[r]) \in Seq(CachedCall)
  BY CachedOf DEF TypeInv, AnswersShaped
<1>2. answer[r].id \in StoreIds \cup {NoId}
  BY DEF TypeInv, TypeOK
<1>3. CASE answer[r].id = NoId \/ CachedCalls(answer[r]) = <<>>
  BY <1>3 DEF TypeInv, TypeOK, recordResponsePayload
<1>4. CASE ~(answer[r].id = NoId \/ CachedCalls(answer[r]) = <<>>)
  <2> DEFINE id == answer[r].id
             calls == CachedCalls(answer[r])
  <2>1. recordResponsePayload(answer[r]) = [i \in DOMAIN store \cup {id} |-> IF i = id THEN calls ELSE store[i]]
    BY <1>4 DEF recordResponsePayload
  <2>2. id \in StoreIds /\ calls \in Seq(CachedCall) \ {<<>>}
    BY <1>1, <1>2, <1>4
  <2> HIDE DEF id, calls
  <2> QED BY <2>1, <2>2 DEF TypeInv, TypeOK
<1> QED BY <1>3, <1>4

LEMMA TranscriptTyped ==
  ASSUME TypeInv, NEW p \in Requests \cup {None}
  PROVE  Transcript(p) \in Seq(InputItem)
<1>1. CASE p = None
  BY <1>1 DEF Transcript
<1>2. CASE p # None
  <2>1. p \in Requests
    BY <1>2
  <2>2. input[p] \in Seq(InputItem) /\ answer[p].output \in Seq(InputItem)
    BY <2>1 DEF TypeInv, TypeOK
  <2> DEFINE out == answer[p].output
             kepts == [i \in DOMAIN out |-> Kept(out[i])]
  <2>3. ASSUME NEW it \in InputItem PROVE Kept(it) \in InputItem
    <3>1. [it EXCEPT !.thought = <<>>] \in InputItem
      <4>1. <<>> \in Thoughts
        BY DEF Thoughts
      <4> QED BY <4>1 DEF InputItem
    <3> QED BY <3>1 DEF Kept
  <2>4. kepts \in Seq(InputItem)
    <3> HIDE DEF out
    <3>1. out \in Seq(InputItem)
      BY <2>2 DEF out
    <3>2. DOMAIN out = 1..Len(out) /\ Len(out) \in Nat /\ \A i \in 1..Len(out) : out[i] \in InputItem
      BY <3>1
    <3>3. \A i \in 1..Len(out) : Kept(out[i]) \in InputItem
      BY <2>3, <3>2
    <3> QED BY <3>2, <3>3
  <2>5. Transcript(p) = input[p] \o kepts
    BY <1>2 DEF Transcript
  <2> HIDE DEF kepts
  <2> QED BY <2>2, <2>4, <2>5
<1> QED BY <1>1, <1>2

LEMMA TypeInit == Init => TypeInv
<1> SUFFICES ASSUME Init PROVE TypeInv
  OBVIOUS
<1>1. \A r \in Requests : IsAnswer(r, <<>>)
  BY DEF IsAnswer
<1>2. AnswersShaped
  BY <1>1 DEF Init, AnswersShaped, NoAnswer
<1>3. answer \in [Requests -> [id : StoreIds \cup {NoId}, output : Seq(InputItem)]]
  <2>1. NoAnswer \in [id : StoreIds \cup {NoId}, output : Seq(InputItem)]
    BY DEF NoAnswer
  <2> HIDE DEF NoAnswer
  <2> QED BY <2>1 DEF Init
<1>4. DOMAIN store = {}
  BY DEF Init
<1>5. /\ input \in [Requests -> Seq(InputItem)] /\ posted \in [Requests -> Seq(InputItem)]
      /\ pc \in [Requests -> Labels] /\ prev \in [Requests -> Requests \cup {None}]
      /\ stream \in [Requests -> BOOLEAN] /\ told \in [Requests -> BOOLEAN] /\ kept \in [Requests -> BOOLEAN]
  BY DEF Init, Labels
<1>6. named \in Manners /\ client \in Clients
  BY DEF Init
<1> QED
  BY <1>2, <1>3, <1>4, <1>5, <1>6 DEF TypeInv, TypeOK

LEMMA TypeSame ==
  ASSUME TypeInv, UNCHANGED vars
  PROVE  TypeInv'
BY DEF TypeInv, TypeOK, AnswersShaped, vars

LEMMA TypeSend ==
  ASSUME TypeInv, NEW r \in Requests, SendRequest(r)
  PROVE  TypeInv'
<1>1. PICK p \in {q \in Requests : told[q]} \cup {None}, items \in Inputs :
        /\ prev' = [prev EXCEPT ![r] = p]
        /\ input' = [input EXCEPT ![r] = IF client.replays THEN Transcript(p) \o items ELSE items]
  BY DEF SendRequest
<1>2. items \in Seq(InputItem) /\ Transcript(p) \in Seq(InputItem)
  BY InputsAssumption, TranscriptTyped
<1>3. Transcript(p) \o items \in Seq(InputItem)
  BY <1>2
<1>4. input' \in [Requests -> Seq(InputItem)]
  BY <1>1, <1>2, <1>3 DEF TypeInv, TypeOK
<1>5. prev' \in [Requests -> Requests \cup {None}]
  BY <1>1 DEF TypeInv, TypeOK
<1>6. pc' \in [Requests -> Labels]
  BY DEF SendRequest, Goto, TypeInv, TypeOK, Labels
<1> QED
  BY <1>4, <1>5, <1>6 DEF SendRequest, TypeInv, TypeOK, AnswersShaped

LEMMA CallsFor ==
  ASSUME TypeInv, NEW id
  PROVE  callsForResponse(id) \in Seq(CachedCall)
BY DEF TypeInv, TypeOK, callsForResponse

LEMMA TypePost ==
  ASSUME TypeInv, NEW r \in Requests, PostRequest(r)
  PROVE  TypeInv'
<1> DEFINE calls == IF Referred(r) = None THEN <<>> ELSE callsForResponse(answer[prev[r]].id)
<1>1. posted' = [posted EXCEPT ![r] = enrichRequest(input[r], calls)] /\ calls \in Seq(CachedCall)
  BY CallsFor DEF PostRequest
<1> HIDE DEF calls
<1>2. enrichRequest(input[r], calls) \in Seq(InputItem)
  <2>1. input[r] \in Seq(InputItem)
    BY DEF TypeInv, TypeOK
  <2> QED BY <1>1, <2>1, EnrichedTyped
<1>3. posted' \in [Requests -> Seq(InputItem)]
  BY <1>1, <1>2 DEF TypeInv, TypeOK
<1>4. pc' \in [Requests -> Labels]
  BY DEF PostRequest, Goto, TypeInv, TypeOK, Labels
<1> QED
  BY <1>3, <1>4 DEF PostRequest, TypeInv, TypeOK, AnswersShaped

LEMMA TypeAnswer ==
  ASSUME TypeInv, NEW r \in Requests, UpstreamAnswers(r)
  PROVE  TypeInv'
<1>1. PICK k \in Completions, s \in BOOLEAN :
        /\ answer' = [answer EXCEPT ![r] =
             [id |-> IF named THEN r ELSE IF s THEN DefaultId ELSE NoId,
              output |-> IF s THEN StreamOutput(r, k) ELSE BodyOutput(r, k)]]
        /\ stream' = [stream EXCEPT ![r] = s]
        /\ pc' = [pc EXCEPT ![r] = IF s THEN "streaming" ELSE "answered"]
  BY DEF UpstreamAnswers, Goto
<1> DEFINE id == IF named THEN r ELSE IF s THEN DefaultId ELSE NoId
           out == IF s THEN StreamOutput(r, k) ELSE BodyOutput(r, k)
<1>2. IsAnswer(r, out) /\ id \in StoreIds \cup {NoId}
  BY AnswersAre DEF StoreIds
<1>3. out \in Seq(InputItem)
  BY <1>2 DEF IsAnswer
<1>4. answer' = [answer EXCEPT ![r] = [id |-> id, output |-> out]]
  BY <1>1
<1> HIDE DEF id, out
<1>5. answer' \in [Requests -> [id : StoreIds \cup {NoId}, output : Seq(InputItem)]]
  BY <1>2, <1>3, <1>4 DEF TypeInv, TypeOK
<1>6. \A q \in Requests : answer'[q].output = IF q = r THEN out ELSE answer[q].output
  BY <1>4 DEF TypeInv, TypeOK
<1>7. AnswersShaped'
  BY <1>2, <1>6 DEF TypeInv, AnswersShaped
<1>8. stream' \in [Requests -> BOOLEAN] /\ pc' \in [Requests -> Labels]
  BY <1>1 DEF TypeInv, TypeOK, Labels
<1> QED
  BY <1>5, <1>7, <1>8 DEF UpstreamAnswers, TypeInv, TypeOK

LEMMA TypeRest ==
  ASSUME TypeInv, NEW r \in Requests,
         AttemptFails(r) \/ FlushCompleted(r) \/ StreamFails(r) \/ WriteBody(r) \/ WriteBodyFails(r)
  PROVE  TypeInv'
<1>1. CASE AttemptFails(r) \/ StreamFails(r)
  BY <1>1 DEF AttemptFails, StreamFails, Goto, TypeInv, TypeOK, AnswersShaped, Labels
<1>2. CASE FlushCompleted(r) \/ WriteBody(r)
  BY <1>2 DEF FlushCompleted, WriteBody, Goto, TypeInv, TypeOK, AnswersShaped, Labels
<1>3. CASE WriteBodyFails(r)
  <2>1. DOMAIN store' \subseteq StoreIds /\ \A i \in DOMAIN store' : store'[i] \in Seq(CachedCall) \ {<<>>}
    BY <1>3 DEF WriteBodyFails, TypeInv, TypeOK
  <2>2. kept' \in [Requests -> BOOLEAN] /\ pc' \in [Requests -> Labels]
    BY <1>3 DEF WriteBodyFails, Goto, TypeInv, TypeOK, Labels
  <2> QED BY <1>3, <2>1, <2>2 DEF WriteBodyFails, TypeInv, TypeOK, AnswersShaped
<1> QED BY <1>1, <1>2, <1>3

LEMMA TypeRecord ==
  ASSUME TypeInv, NEW r \in Requests, StreamEnds(r) \/ RecordBody(r)
  PROVE  TypeInv'
<1>1. store' = recordResponsePayload(answer[r])
  BY DEF StreamEnds, RecordBody
<1>2. DOMAIN store' \subseteq StoreIds /\ \A i \in DOMAIN store' : store'[i] \in Seq(CachedCall) \ {<<>>}
  BY <1>1, RecordTyped
<1>3. /\ kept' \in [Requests -> BOOLEAN] /\ told' \in [Requests -> BOOLEAN] /\ pc' \in [Requests -> Labels]
  BY DEF StreamEnds, RecordBody, Goto, TypeInv, TypeOK, Labels
<1> QED BY <1>2, <1>3 DEF StreamEnds, RecordBody, TypeInv, TypeOK, AnswersShaped

LEMMA TypeStep == TypeInv /\ [Next]_vars => TypeInv'
<1> SUFFICES ASSUME TypeInv, [Next]_vars PROVE TypeInv'
  OBVIOUS
<1>1. CASE UNCHANGED vars
  BY <1>1, TypeSame
<1>2. CASE Next
  BY <1>2, TypeSend, TypePost, TypeAnswer, TypeRest, TypeRecord DEF Next
<1> QED BY <1>1, <1>2

LEMMA TypeInvariant == Spec => []TypeInv
BY TypeInit, TypeStep, PTL DEF Spec

\* Everything the store, the requests and the answers hold is what the code keeps there.
THEOREM TypeCorrect == Spec => []TypeOK
<1>1. TypeInv => TypeOK
  BY DEF TypeInv
<1> QED BY <1>1, TypeInvariant, PTL

-----------------------------------------------------------------------------
(* What goes upstream.                                                     *)

\* The items of a client are picked out as they came, the calls put back as they were kept.
LEMMA EnrichedPicked ==
  ASSUME NEW items \in Seq(InputItem), \A i \in DOMAIN items : items[i].by = Client,
         NEW calls \in Seq(CachedCall)
  PROVE  LET e == enrichRequest(items, calls)
             own == {i \in DOMAIN e : e[i].by = Client} IN
         /\ Picked(e, own) = items
         /\ Picked(e, DOMAIN e \ own) = RestoredItems(RestoreGroup(items, calls))
<1> DEFINE group == RestoreGroup(items, calls)
           R == RestoredItems(group)
           e == enrichRequest(items, calls)
           own == {i \in DOMAIN e : e[i].by = Client}
           others == DOMAIN e \ own
<1>1. CASE group = <<>>
  <2>1. e = items
    BY <1>1 DEF enrichRequest
  <2>2. R = <<>>
    BY <1>1 DEF RestoredItems
  <2>3. own = DOMAIN items /\ others = {}
    BY <2>1
  <2> HIDE DEF own, others, e, R
  <2>4. Picked(items, own) = items
    BY <2>3, PickedAll
  <2>5. Picked(items, others) = <<>>
    BY <2>3, PickedNone
  <2> QED BY <2>1, <2>2, <2>4, <2>5 DEF R, own, others, e
<1>2. CASE group # <<>>
  <2>1. /\ group \in Seq(CachedCall) /\ R \in Seq(InputItem) /\ Len(R) = Len(group)
        /\ e \in Seq(InputItem) /\ Len(e) = Len(items) + Len(group)
        /\ \E a : Inserted(a, items, R, e)
    BY <1>2, EnrichedParts
  <2>2. PICK a \in Nat :
          /\ a + 1 \in 1..Len(items)
          /\ e = SubSeq(items, 1, a) \o R \o SubSeq(items, a + 1, Len(items))
    <3> HIDE DEF e, R, group
    <3> QED BY <2>1 DEF Inserted
  <2>3. \A n \in 1..Len(R) : R[n].by # Client
    <3>1. ASSUME NEW n \in 1..Len(R) PROVE R[n].by # Client
      <4>1. n \in DOMAIN group /\ R[n] = CallItem(group[n].id, group[n].by, group[n].thought) /\ group[n] \in CachedCall
        BY <2>1 DEF RestoredItems
      <4>2. R[n].by = group[n].by /\ group[n].by \in Requests
        BY <4>1, CallTyped DEF CachedCall
      <4> QED BY <4>2, RequestsAssumption
    <3> QED BY <3>1
  <2> DEFINE A == SubSeq(items, 1, a)
             B == SubSeq(items, a + 1, Len(items))
             AR == A \o R
  <2>4. Len(items) \in Nat /\ a \in 0..Len(items)
    BY <2>2
  <2>5. /\ A \in Seq(InputItem) /\ Len(A) = a /\ \A i \in 1..a : A[i] = items[i]
        /\ B \in Seq(InputItem) /\ Len(B) = Len(items) - a
        /\ \A i \in 1..(Len(items) - a) : B[i] = items[a + i]
    BY <2>4, CutAt
  <2>7. e = AR \o B
    BY <2>2
  <2>8. \A i \in DOMAIN A : A[i].by = Client
    BY <2>4, <2>5
  <2>9. \A i \in DOMAIN B : B[i].by = Client
    <3>1. ASSUME NEW i \in 1..Len(B) PROVE B[i].by = Client
      <4>1. B[i] = items[a + i] /\ a + i \in 1..Len(items)
        BY <2>4, <2>5
      <4> QED BY <4>1
    <3>2. DOMAIN B = 1..Len(B)
      BY <2>5
    <3> QED BY <3>1, <3>2
  <2> HIDE DEF A, B, R, e
  <2>20. A \in Seq(InputItem) /\ B \in Seq(InputItem) /\ R \in Seq(InputItem)
    BY <2>1, <2>5
  <2>6. A \o B = items
    <3>1. \A i \in 1..Len(items) : items[i] \in InputItem
      OBVIOUS
    <3>2. A \o B \in Seq(InputItem) /\ Len(A \o B) = Len(items)
      <4>1. /\ A \o B \in Seq(InputItem) /\ Len(A \o B) = Len(A) + Len(B)
        BY <2>20, ConcatAt
      <4> QED BY <2>4, <2>5, <4>1
    <3>3. \A i \in 1..Len(items) : (A \o B)[i] = items[i]
      <4>1. /\ \A i \in 1..Len(A) : (A \o B)[i] = A[i]
            /\ \A i \in 1..Len(B) : (A \o B)[Len(A) + i] = B[i]
        BY <2>20, ConcatAt
      <4>2. TAKE i \in 1..Len(items)
      <4>3. CASE i <= a
        <5>1. i \in 1..a
          BY <2>4, <4>3
        <5> QED BY <2>5, <4>1, <5>1
      <4>4. CASE ~(i <= a)
        <5>1. i - a \in 1..(Len(items) - a) /\ a + (i - a) = i
          BY <2>4, <4>4
        <5>2. (A \o B)[a + (i - a)] = B[i - a] /\ B[i - a] = items[a + (i - a)]
          BY <2>5, <4>1, <5>1
        <5> QED BY <5>1, <5>2
      <4> QED BY <4>3, <4>4
    <3> DEFINE AB == A \o B
    <3>4. AB \in Seq(InputItem) /\ Len(AB) = Len(items) /\ \A i \in 1..Len(items) : AB[i] = items[i]
      BY <3>2, <3>3
    <3> HIDE DEF AB
    <3>5. AB = items
      BY <3>4, SameSequence
    <3> QED BY <3>5 DEF AB
  <2>10. /\ AR \in Seq(InputItem) /\ Len(AR) = Len(A) + Len(R)
         /\ \A i \in 1..Len(A) : AR[i] = A[i]
         /\ \A i \in 1..Len(R) : AR[Len(A) + i] = R[i]
    BY <2>20, ConcatAt
  <2> HIDE DEF AR
  <2>11. /\ \A i \in 1..Len(AR) : e[i] = AR[i]
         /\ \A i \in 1..Len(B) : e[Len(AR) + i] = B[i]
         /\ Len(e) = Len(AR) + Len(B) /\ DOMAIN e = 1..Len(e)
    <3>1. AR \in Seq(InputItem) /\ B \in Seq(InputItem)
      BY <2>20, <2>10
    <3>2. /\ \A i \in 1..Len(AR) : e[i] = AR[i]
          /\ \A i \in 1..Len(B) : e[Len(AR) + i] = B[i]
          /\ Len(e) = Len(AR) + Len(B)
      BY <2>7, <3>1, ConcatAt
    <3>3. DOMAIN e = 1..Len(e)
      <4>1. e \in Seq(InputItem)
        BY <2>1
      <4> QED BY <4>1
    <3> QED BY <3>2, <3>3
  <2>12. Len(A) \in Nat /\ Len(B) \in Nat /\ Len(R) \in Nat /\ Len(AR) \in Nat
    BY <2>1, <2>5, <2>10
  <2>13. /\ DOMAIN A = 1..Len(A) /\ DOMAIN B = 1..Len(B) /\ DOMAIN R = 1..Len(R)
         /\ DOMAIN AR = 1..Len(AR)
    BY <2>1, <2>5, <2>10
  <2>14. ASSUME NEW n \in 1..Len(A) PROVE n \in DOMAIN e /\ e[n] = A[n] /\ n \in own /\ n \notin others
    <3>1. n \in DOMAIN e /\ e[n] = A[n]
      BY <2>10, <2>11, <2>12
    <3> QED BY <2>8, <2>13, <3>1
  <2>15. ASSUME NEW n \in 1..Len(R)
         PROVE  Len(A) + n \in DOMAIN e /\ Len(A) + n \notin own /\ Len(A) + n \in others
    <3>1. Len(A) + n \in DOMAIN e /\ Len(A) + n \in 1..Len(AR)
      BY <2>10, <2>11, <2>12
    <3>2. e[Len(A) + n] = R[n]
      BY <2>10, <2>11, <3>1
    <3> QED BY <2>3, <3>1, <3>2
  <2>16. ASSUME NEW n \in 1..Len(B)
         PROVE  Len(AR) + n \in DOMAIN e /\ Len(AR) + n \in own /\ Len(AR) + n \notin others
    <3>1. Len(AR) + n \in DOMAIN e /\ e[Len(AR) + n] = B[n]
      BY <2>11, <2>12
    <3> QED BY <2>9, <2>13, <3>1
  <2> HIDE DEF own, others
  <2>21. AR \in Seq(InputItem) /\ B \in Seq(InputItem)
    BY <2>20, <2>10
  <2>17. Picked(e, own) = items
    <3> DEFINE none == {}
    <3>0. \A n : n \notin none
      OBVIOUS
    <3> HIDE DEF none
    <3>1. \A n \in 1..Len(B) : n \in 1..Len(B) <=> Len(AR) + n \in own
      BY <2>16
    <3>2. \A n \in 1..Len(R) : n \in none <=> Len(A) + n \in own
      BY <2>15, <3>0
    <3>3. Picked(AR \o B, own) = Picked(AR, own) \o Picked(B, 1..Len(B))
      BY <2>21, <3>1, PickedConcat
    <3>4. Picked(AR, own) = Picked(A, own) \o Picked(R, none)
      <4>1. A \in Seq(InputItem) /\ R \in Seq(InputItem)
        BY <2>20
      <4>2. Picked(A \o R, own) = Picked(A, own) \o Picked(R, none)
        BY <3>2, <4>1, PickedConcat
      <4> QED BY <4>2 DEF AR
    <3>5. Picked(A, own) = A /\ Picked(B, 1..Len(B)) = B
      <4>1. DOMAIN A \subseteq own /\ DOMAIN B \subseteq 1..Len(B)
        BY <2>13, <2>14
      <4> QED BY <2>5, <4>1, PickedAll
    <3>6. Picked(R, none) = <<>>
      BY <2>20, <3>0, PickedNone
    <3>7. A \o <<>> = A
      BY <2>5
    <3> QED BY <2>6, <2>7, <3>3, <3>4, <3>5, <3>6, <3>7
  <2>18. Picked(e, others) = R
    <3> DEFINE none == {}
               all == 1..Len(R)
    <3>0. (\A n : n \notin none) /\ \A n \in 1..Len(R) : n \in all
      OBVIOUS
    <3> HIDE DEF none, all
    <3>1. \A n \in 1..Len(B) : n \in none <=> Len(AR) + n \in others
      BY <2>16, <3>0
    <3>2. \A n \in 1..Len(R) : n \in all <=> Len(A) + n \in others
      BY <2>15, <3>0
    <3>3. Picked(AR \o B, others) = Picked(AR, others) \o Picked(B, none)
      BY <2>21, <3>1, PickedConcat
    <3>4. Picked(AR, others) = Picked(A, others) \o Picked(R, all)
      <4>1. A \in Seq(InputItem) /\ R \in Seq(InputItem)
        BY <2>20
      <4>2. Picked(A \o R, others) = Picked(A, others) \o Picked(R, all)
        BY <3>2, <4>1, PickedConcat
      <4> QED BY <4>2 DEF AR
    <3>5. Picked(A, others) = <<>> /\ Picked(B, none) = <<>>
      <4>1. (\A n \in DOMAIN A : n \notin others) /\ \A n \in DOMAIN B : n \notin none
        BY <2>13, <2>14, <3>0
      <4> QED BY <2>20, <4>1, PickedNone
    <3>6. Picked(R, all) = R
      <4>1. DOMAIN R \subseteq all
        BY <2>13 DEF all
      <4> QED BY <2>20, <4>1, PickedAll
    <3>7. (<<>> \o R) \o <<>> = R
      BY <2>1
    <3> QED BY <2>7, <3>3, <3>4, <3>5, <3>6, <3>7
  <2> QED BY <2>17, <2>18 DEF own, others, e, R
<1> QED BY <1>1, <1>2

LEMMA InputCalls ==
  ASSUME NEW items \in Inputs \cup {<<>>}
  PROVE  /\ items \in Seq(InputItem) /\ \A i \in DOMAIN items : items[i].by = Client
         /\ \A i, j \in DOMAIN items :
              items[i].type = "function_call" /\ items[j].id = items[i].id =>
                i = j \/ (items[j].type = "function_call_output" /\ i < j)
<1>1. CASE items \in Inputs
  BY <1>1, InputsAssumption
<1>2. CASE items = <<>>
  BY <1>2
<1> QED BY <1>1, <1>2

\* Of the calls kept those are put back that the input lacks, each once.
LEMMA GroupIds ==
  ASSUME NEW items \in Seq(InputItem), NEW calls \in Seq(CachedCall),
         \A m, n \in 1..Len(calls) : calls[m].id = calls[n].id => m = n
  PROVE  LET group == RestoreGroup(items, calls)
             asked == IdsOf(items, "function_call_output") \ IdsOf(items, "function_call") IN
         /\ group \in Seq(CachedCall) /\ Len(group) \in Nat /\ DOMAIN group = 1..Len(group)
         /\ \A n \in 1..Len(group) : group[n].id \in asked
         /\ \A p \in 1..Len(calls) : calls[p].id \in asked => \E n \in 1..Len(group) : group[n].id = calls[p].id
         /\ \A m, n \in 1..Len(group) : group[m].id = group[n].id => m = n
<1> DEFINE group == RestoreGroup(items, calls)
           asked == IdsOf(items, "function_call_output") \ IdsOf(items, "function_call")
           g == Len(group)
<1>1. /\ group \in Seq(CachedCall)
      /\ \E at \in [1..g -> 1..Len(calls)] :
           /\ \A n \in 1..g : group[n] = calls[at[n]] /\ group[n].id \in asked
           /\ \A m, n \in 1..g : m < n => at[m] < at[n]
           /\ \A p \in 1..Len(calls) : calls[p].id \in asked => \E n \in 1..g : at[n] = p
  BY GroupOf
<1> HIDE DEF group, asked
<1>2. PICK at \in [1..g -> 1..Len(calls)] :
           /\ \A n \in 1..g : group[n] = calls[at[n]] /\ group[n].id \in asked
           /\ \A m, n \in 1..g : m < n => at[m] < at[n]
           /\ \A p \in 1..Len(calls) : calls[p].id \in asked => \E n \in 1..g : at[n] = p
  BY <1>1
<1>3. g \in Nat /\ DOMAIN group = 1..g
  BY <1>1
<1>4. ASSUME NEW p \in 1..Len(calls), calls[p].id \in asked PROVE \E n \in 1..g : group[n].id = calls[p].id
  <2>1. PICK n \in 1..g : at[n] = p
    BY <1>2, <1>4
  <2> QED BY <1>2, <2>1
<1>5. ASSUME NEW m \in 1..g, NEW n \in 1..g, group[m].id = group[n].id PROVE m = n
  <2>1. at[m] \in 1..Len(calls) /\ at[n] \in 1..Len(calls) /\ calls[at[m]].id = calls[at[n]].id
    BY <1>2, <1>5
  <2>2. at[m] = at[n]
    BY <2>1
  <2>3. m \in Int /\ n \in Int /\ ~(at[m] < at[n]) /\ ~(at[n] < at[m])
    BY <2>1, <2>2
  <2>4. ~(m < n) /\ ~(n < m)
    BY <1>2, <2>3
  <2> QED BY <2>3, <2>4
<1> QED BY <1>1, <1>2, <1>3, <1>4, <1>5 DEF group, asked

\* When the calls kept have all ids that the input lacks, each result gets its call.
LEMMA EnrichedComplete ==
  ASSUME NEW items \in Inputs \cup {<<>>}, NEW calls \in Seq(CachedCall),
         \A m, n \in 1..Len(calls) : calls[m].id = calls[n].id => m = n,
         \A id \in IdsOf(items, "function_call_output") \ IdsOf(items, "function_call") :
           \E n \in 1..Len(calls) : calls[n].id = id
  PROVE  Complete(enrichRequest(items, calls))
<1> DEFINE group == RestoreGroup(items, calls)
           R == RestoredItems(group)
           e == enrichRequest(items, calls)
           g == Len(group)
           L == Len(items)
           owned == IdsOf(items, "function_call")
           results == IdsOf(items, "function_call_output")
<1>1. items \in Seq(InputItem) /\ L \in Nat /\ DOMAIN items = 1..L
  <2>1. items \in Seq(InputItem)
    BY InputCalls
  <2> QED BY <2>1
<1>2. /\ group \in Seq(CachedCall) /\ g \in Nat /\ DOMAIN group = 1..g
      /\ \A n \in 1..g : group[n].id \in results \ owned
      /\ \A p \in 1..Len(calls) : calls[p].id \in results \ owned => \E n \in 1..g : group[n].id = calls[p].id
      /\ \A m, n \in 1..g : group[m].id = group[n].id => m = n
  BY <1>1, GroupIds
<1>3. group \in Seq(CachedCall) /\ g \in Nat /\ DOMAIN group = 1..g
  BY <1>2
<1>4. ASSUME NEW id \in results \ owned PROVE \E n \in 1..g : group[n].id = id
  <2>1. PICK p \in 1..Len(calls) : calls[p].id = id
    OBVIOUS
  <2> QED BY <1>2, <2>1
<1>5. ASSUME NEW m \in 1..g, NEW n \in 1..g, group[m].id = group[n].id PROVE m = n
  BY <1>2, <1>5
\* An input item that is a result has its call before it there, or among those put back.
<1>6. ASSUME NEW m \in 1..L, items[m].type = "function_call_output", items[m].id \in owned
      PROVE  \E j \in 1..L : j < m /\ items[j].type = "function_call" /\ items[j].id = items[m].id
  <2>1. PICK j \in DOMAIN items : items[j].type = "function_call" /\ items[j].id = items[m].id
    BY <1>6 DEF IdsOf
  <2>2. j = m \/ j < m
    BY <1>1, <2>1, InputCalls
  <2> QED BY <1>1, <1>6, <2>1, <2>2
<1>7. ASSUME NEW j \in 1..L, NEW k \in 1..L, items[j].type = "function_call", items[k].type = "function_call",
             items[j].id = items[k].id
      PROVE  j = k
  BY <1>1, <1>7, InputCalls
<1>8. \A m \in 1..L : /\ items[m].type = "function_call_output" => items[m].id \in results
                      /\ items[m].type = "function_call" => items[m].id \in owned
  BY <1>1 DEF IdsOf
<1>9. CASE group = <<>>
  <2>1. e = items /\ g = 0
    BY <1>9 DEF enrichRequest
  <2>2. \A id : id \notin results \ owned
    BY <1>4, <2>1
  <2>3. Answered(items)
    <3>1. ASSUME NEW i \in DOMAIN items, items[i].type = "function_call_output"
          PROVE  \E j \in 1..(i - 1) : items[j].type = "function_call" /\ items[j].id = items[i].id
      <4>1. items[i].id \in owned
        BY <1>1, <1>8, <2>2, <3>1
      <4>2. PICK j \in 1..L : j < i /\ items[j].type = "function_call" /\ items[j].id = items[i].id
        BY <1>1, <1>6, <3>1, <4>1
      <4>3. j \in 1..(i - 1)
        BY <1>1, <4>2
      <4> QED BY <4>2, <4>3
    <3> QED BY <3>1 DEF Answered
  <2>4. Complete(items)
    BY <1>1, <1>7, <2>3 DEF Complete
  <2> QED BY <2>1, <2>4
<1>10. CASE group # <<>>
  <2>0. Len(R) = g /\ \E a : Inserted(a, items, R, e)
    BY <1>1, <1>10, EnrichedParts
  <2>1. PICK a \in Nat :
              /\ a + 1 \in 1..L
              /\ \A j \in 1..a : items[j].type # "function_call_output"
              /\ \A i \in 1..a : e[i] = items[i]
              /\ \A n \in 1..g : e[a + n] = R[n]
              /\ \A i \in (a + 1)..L : e[g + i] = items[i]
    <3> HIDE DEF e, R, g, group
    <3> QED BY <2>0 DEF Inserted
  <2>2. e \in Seq(InputItem) /\ Len(e) = L + g /\ DOMAIN e = 1..(L + g)
    <3>1. e \in Seq(InputItem) /\ Len(e) = L + g
      BY <1>1, <1>10, EnrichedParts
    <3> HIDE DEF e
    <3> QED BY <3>1
  <2>3. \A n \in 1..g : R[n].type = "function_call" /\ R[n].id = group[n].id
    <3>1. ASSUME NEW n \in 1..g PROVE R[n].type = "function_call" /\ R[n].id = group[n].id
      <4>1. group[n] \in CachedCall /\ n \in DOMAIN group
        BY <1>3
      <4>2. R[n] = CallItem(group[n].id, group[n].by, group[n].thought)
        BY <4>1 DEF RestoredItems
      <4>3. group[n].id \in CallIds /\ group[n].by \in Requests /\ group[n].thought \in Thoughts
        BY <4>1 DEF CachedCall
      <4> QED BY <4>2, <4>3, CallTyped
    <3> QED BY <3>1
  <2> HIDE DEF e, R, group, g, L, owned, results
  <2>4. L \in Nat /\ g \in Nat /\ a \in Nat /\ a + 1 <= L
    BY <1>1, <1>3, <2>1
  <2>5. ASSUME NEW i \in DOMAIN e
        PROVE  \/ i \in 1..a /\ i \in 1..L /\ e[i] = items[i]
               \/ i - a \in 1..g /\ e[i] = R[i - a]
               \/ i - g \in (a + 1)..L /\ i - g \in 1..L /\ e[i] = items[i - g]
    <3>1. i \in Nat /\ 1 <= i /\ i <= L + g
      BY <2>2, <2>4
    <3>2. CASE i <= a
      <4>1. i \in 1..a /\ i \in 1..L
        BY <2>4, <3>1, <3>2
      <4> QED BY <2>1, <4>1
    <3>3. CASE a < i /\ i <= a + g
      <4>1. i - a \in 1..g /\ a + (i - a) = i
        BY <2>4, <3>1, <3>3
      <4>2. e[a + (i - a)] = R[i - a]
        BY <2>1, <4>1
      <4> QED BY <4>1, <4>2
    <3>4. CASE a + g < i
      <4>1. i - g \in (a + 1)..L /\ i - g \in 1..L /\ g + (i - g) = i
        BY <2>4, <3>1, <3>4
      <4>2. e[g + (i - g)] = items[i - g]
        BY <2>1, <4>1
      <4> QED BY <4>1, <4>2
    <3> QED BY <2>4, <3>1, <3>2, <3>3, <3>4
  <2>6. ASSUME NEW i \in DOMAIN e, e[i].type = "function_call_output"
        PROVE  \E j \in 1..(i - 1) : e[j].type = "function_call" /\ e[j].id = e[i].id
    <3> DEFINE m == i - g
    <3>1. m \in (a + 1)..L /\ m \in 1..L /\ e[i] = items[m]
      BY <2>1, <2>3, <2>5, <2>6
    <3>2. i = m + g /\ m \in Nat /\ a < m
      <4>1. i \in Nat
        BY <2>2, <2>4
      <4> QED BY <2>4, <3>1, <4>1
    <3> HIDE DEF m
    <3>3. CASE items[m].id \in owned
      <4>1. PICK j \in 1..L : j < m /\ items[j].type = "function_call" /\ items[j].id = items[m].id
        BY <1>6, <2>6, <3>1, <3>3
      <4>2. CASE j <= a
        <5>1. j \in 1..a /\ j \in 1..(i - 1)
          BY <2>4, <3>2, <4>1, <4>2
        <5> QED BY <2>1, <3>1, <4>1, <5>1
      <4>3. CASE ~(j <= a)
        <5>1. j \in (a + 1)..L /\ g + j \in 1..(i - 1)
          BY <2>4, <3>2, <4>1, <4>3
        <5>2. e[g + j] = items[j]
          BY <2>1, <5>1
        <5> QED BY <3>1, <4>1, <5>1, <5>2
      <4> QED BY <4>2, <4>3
    <3>4. CASE items[m].id \notin owned
      <4>1. items[m].id \in results \ owned
        BY <1>8, <2>6, <3>1, <3>4
      <4>2. PICK n \in 1..g : group[n].id = items[m].id
        BY <1>4, <4>1
      <4>3. a + n \in 1..(i - 1)
        BY <2>4, <3>2
      <4>4. e[a + n].type = "function_call" /\ e[a + n].id = e[i].id
        BY <2>1, <2>3, <3>1, <4>2
      <4> QED BY <4>3, <4>4
    <3> QED BY <3>3, <3>4
  \* A call of e is one of the input or one put back, and its id tells which.
  <2>7. ASSUME NEW j \in DOMAIN e, e[j].type = "function_call"
        PROVE  \/ j \in 1..a /\ e[j] = items[j] /\ j \in 1..L /\ e[j].id \in owned
               \/ j - g \in (a + 1)..L /\ e[j] = items[j - g] /\ j - g \in 1..L /\ e[j].id \in owned
               \/ j - a \in 1..g /\ e[j].id = group[j - a].id /\ e[j].id \notin owned
    <3>1. CASE j \in 1..a /\ j \in 1..L /\ e[j] = items[j]
      BY <1>8, <2>7, <3>1
    <3>2. CASE j - a \in 1..g /\ e[j] = R[j - a]
      BY <1>2, <2>3, <3>2
    <3>3. CASE j - g \in (a + 1)..L /\ j - g \in 1..L /\ e[j] = items[j - g]
      BY <1>8, <2>7, <3>3
    <3> QED BY <2>5, <3>1, <3>2, <3>3
  <2>8. ASSUME NEW j \in DOMAIN e, NEW k \in DOMAIN e, e[j].type = "function_call", e[k].type = "function_call",
               e[j].id = e[k].id
        PROVE  j = k
    <3>0. j \in Nat /\ k \in Nat
      BY <2>2, <2>4
    <3>1. CASE e[j].id \notin owned
      <4>1. j - a \in 1..g /\ k - a \in 1..g /\ group[j - a].id = group[k - a].id
        BY <2>7, <2>8, <3>1
      <4>2. j - a = k - a
        BY <1>5, <4>1
      <4> QED BY <2>4, <3>0, <4>2
    <3>2. CASE e[j].id \in owned
      <4>1. \/ j \in 1..a /\ e[j] = items[j] /\ j \in 1..L
            \/ j - g \in (a + 1)..L /\ e[j] = items[j - g] /\ j - g \in 1..L
        BY <2>7, <2>8, <3>2
      <4>2. \/ k \in 1..a /\ e[k] = items[k] /\ k \in 1..L
            \/ k - g \in (a + 1)..L /\ e[k] = items[k - g] /\ k - g \in 1..L
        BY <2>7, <2>8, <3>2
      <4>3. CASE j \in 1..a /\ e[j] = items[j] /\ j \in 1..L
        <5>1. CASE k \in 1..a /\ e[k] = items[k] /\ k \in 1..L
          BY <1>7, <2>8, <4>3, <5>1
        <5>2. CASE k - g \in (a + 1)..L /\ e[k] = items[k - g] /\ k - g \in 1..L
          <6>1. j = k - g
            BY <1>7, <2>8, <4>3, <5>2
          <6> QED BY <2>4, <4>3, <5>2, <6>1
        <5> QED BY <4>2, <5>1, <5>2
      <4>4. CASE j - g \in (a + 1)..L /\ e[j] = items[j - g] /\ j - g \in 1..L
        <5>1. CASE k \in 1..a /\ e[k] = items[k] /\ k \in 1..L
          <6>1. k = j - g
            BY <1>7, <2>8, <4>4, <5>1
          <6> QED BY <2>4, <4>4, <5>1, <6>1
        <5>2. CASE k - g \in (a + 1)..L /\ e[k] = items[k - g] /\ k - g \in 1..L
          <6>1. j - g = k - g
            BY <1>7, <2>8, <4>4, <5>2
          <6> QED BY <2>4, <3>0, <6>1
        <5> QED BY <4>2, <5>1, <5>2
      <4> QED BY <4>1, <4>3, <4>4
    <3> QED BY <3>1, <3>2
  <2>9. Complete(e)
    <3>1. Answered(e)
      BY <2>6 DEF Answered
    <3>2. ASSUME NEW i \in DOMAIN e, NEW j \in DOMAIN e, NEW k \in DOMAIN e,
                 e[j].type = "function_call", e[k].type = "function_call",
                 e[j].id = e[i].id, e[k].id = e[i].id
          PROVE  j = k
      BY <2>8, <3>2
    <3> QED BY <3>1, <3>2 DEF Complete
  <2> QED BY <2>9 DEF e
<1> QED BY <1>9, <1>10

-----------------------------------------------------------------------------
(* Whose calls a request may get back.                                     *)

\* The last answer of r is the one that goes to the client, or is about to.
Standing(r) == told[r] \/ pc[r] \in {"streaming", "answered", "recorded"}

\* Where the handler of r is when its answer is recorded, told, or complete.
InOrder(r) ==
  /\ told[r] => pc[r] \in {"streaming", "over"}
  /\ kept[r] => pc[r] \in {"recorded", "over"}
  /\ pc[r] = "recorded" => kept[r]
  /\ pc[r] = "streaming" => stream[r]
  /\ told[r] /\ ~stream[r] => kept[r]
  /\ named /\ Standing(r) => answer[r].id = r
  /\ prev[r] # None => told[prev[r]]
  /\ pc[r] = "idle" => posted[r] = <<>>

\* What is stored of a response are the calls of the answer, for as long as it stands.
Stored(p) ==
  /\ p \in DOMAIN store => store[p] = CachedCalls(answer[p]) /\ pc[p] \in {"recorded", "over"}
  /\ kept[p] => p \in DOMAIN store \/ CachedCalls(answer[p]) = <<>>

\* What r may get back: the calls of the response it goes on from, all of them or none.
MayGet(r) == {<<>>} \cup IF prev[r] = None THEN {} ELSE {CachedCalls(answer[prev[r]])}

Asked(r) == IF prev[r] = None THEN {} ELSE IdsOf(answer[prev[r]].output, "function_call")

\* The input of r is as it was sent, with results for its own calls and the calls asked for; the
\* one posted has calls of that response put back.
Served(r) ==
  /\ input[r] \in Inputs \cup {<<>>}
  /\ IdsOf(input[r], "function_call_output") \subseteq IdsOf(input[r], "function_call") \cup Asked(r)
  /\ named => posted[r] = <<>> \/ \E calls \in MayGet(r) : posted[r] = enrichRequest(input[r], calls)

OrderInv == \A r \in Requests : InOrder(r)
StoreInv == named => DOMAIN store \subseteq Requests /\ \A p \in Requests : Stored(p)
RequestInv == ~client.replays => \A r \in Requests : Served(r)

HistoryInv == TypeInv /\ OrderInv /\ StoreInv /\ RequestInv

LEMMA HistoryInit == Init => HistoryInv
<1> SUFFICES ASSUME Init PROVE HistoryInv
  OBVIOUS
<1>1. TypeInv
  BY TypeInit
<1>2. OrderInv
  BY DEF Init, OrderInv, InOrder, Standing
<1>3. StoreInv
  BY DEF Init, StoreInv, Stored
<1>4. RequestInv
  <2>1. \A r \in Requests : input[r] = <<>> /\ posted[r] = <<>>
    BY DEF Init
  <2>2. IdsOf(<<>>, "function_call_output") = {}
    BY DEF IdsOf
  <2> QED BY <2>1, <2>2 DEF RequestInv, Served
<1> QED BY <1>1, <1>2, <1>3, <1>4 DEF HistoryInv

LEMMA HistorySame ==
  ASSUME HistoryInv, UNCHANGED vars
  PROVE  OrderInv' /\ StoreInv' /\ RequestInv'
BY DEF HistoryInv, vars, OrderInv, InOrder, Standing, StoreInv, Stored, RequestInv, Served, MayGet, Asked

\* A request that is not touched is served as before: the answer it goes on from has been told.
LEMMA ServedSame ==
  ASSUME NEW q \in Requests, Served(q), UNCHANGED <<named, input[q], prev[q], posted[q]>>,
         prev[q] # None => answer'[prev[q]] = answer[prev[q]]
  PROVE  Served(q)'
BY DEF Served, MayGet, Asked

LEMMA HistorySend ==
  ASSUME HistoryInv, NEW r \in Requests, SendRequest(r)
  PROVE  OrderInv' /\ StoreInv' /\ RequestInv'
<1>1. PICK p \in {q \in Requests : told[q]} \cup {None}, items \in Inputs :
        /\ Answers(p, items)
        /\ prev' = [prev EXCEPT ![r] = p]
        /\ input' = [input EXCEPT ![r] = IF client.replays THEN Transcript(p) \o items ELSE items]
  BY DEF SendRequest
<1>2. pc[r] = "idle" /\ pc' = [pc EXCEPT ![r] = "received"]
      /\ UNCHANGED <<named, client, store, posted, stream, answer, told, kept>>
  BY DEF SendRequest, Goto
<1>3. TypeOK
  BY DEF HistoryInv, TypeInv
<1>4. /\ pc'[r] = "received" /\ prev'[r] = p
      /\ input'[r] = IF client.replays THEN Transcript(p) \o items ELSE items
      /\ \A q \in Requests : q # r => pc'[q] = pc[q] /\ prev'[q] = prev[q] /\ input'[q] = input[q]
  BY <1>1, <1>2, <1>3 DEF TypeOK
<1>5. ~told[r] /\ ~kept[r] /\ posted[r] = <<>>
  BY <1>2 DEF HistoryInv, OrderInv, InOrder
<1>6. OrderInv'
  <2>1. ASSUME NEW q \in Requests PROVE InOrder(q)'
    <3>1. CASE q = r
      <4>1. p # None => told[p]
        BY <1>1
      <4> QED BY <1>2, <1>4, <1>5, <3>1, <4>1 DEF InOrder, Standing
    <3>2. CASE q # r
      BY <1>2, <1>4, <3>2 DEF HistoryInv, OrderInv, InOrder, Standing
    <3> QED BY <3>1, <3>2
  <2> QED BY <2>1 DEF OrderInv
<1>7. StoreInv'
  <2>1. ASSUME named, NEW q \in Requests PROVE Stored(q)'
    <3>1. Stored(q)
      BY <2>1 DEF HistoryInv, StoreInv
    <3>2. CASE q = r
      BY <1>2, <1>5, <3>1, <3>2 DEF Stored
    <3>3. CASE q # r
      BY <1>2, <1>4, <3>1, <3>3 DEF Stored
    <3> QED BY <3>2, <3>3
  <2> QED BY <1>2, <2>1 DEF HistoryInv, StoreInv
<1>8. RequestInv'
  <2>1. ASSUME ~client.replays, NEW q \in Requests PROVE Served(q)'
    <3>1. CASE q = r
      <4>1. input'[r] = items /\ posted'[r] = <<>>
        BY <1>2, <1>4, <1>5, <2>1
      <4>2. IdsOf(items, "function_call_output") \subseteq IdsOf(items, "function_call") \cup Asked(r)'
        BY <1>1, <1>2, <1>4 DEF Answers, Asked
      <4> QED BY <3>1, <4>1, <4>2 DEF Served
    <3>2. CASE q # r
      <4>1. Served(q)
        BY <2>1 DEF HistoryInv, RequestInv
      <4> QED BY <1>2, <1>4, <3>2, <4>1, ServedSame
    <3> QED BY <3>1, <3>2
  <2> QED BY <1>2, <2>1 DEF RequestInv
<1> QED BY <1>6, <1>7, <1>8

\* What the store has for the response referred to.
LEMMA Found ==
  ASSUME HistoryInv, named, NEW r \in Requests, ~client.replays
  PROVE  LET calls == IF Referred(r) = None THEN <<>> ELSE callsForResponse(answer[prev[r]].id) IN
         /\ calls \in MayGet(r)
         /\ prev[r] # None /\ (~stream[prev[r]] \/ kept[prev[r]]) => calls = CachedCalls(answer[prev[r]])
<1>1. Referred(r) = prev[r]
  BY DEF Referred
<1>2. CASE prev[r] = None
  BY <1>1, <1>2 DEF MayGet
<1>3. CASE prev[r] # None
  <2> DEFINE p == prev[r]
  <2>1. p \in Requests /\ told[p]
    BY <1>3 DEF HistoryInv, TypeInv, TypeOK, OrderInv, InOrder
  <2>2. answer[p].id = p
    BY <2>1 DEF HistoryInv, OrderInv, InOrder, Standing
  <2>3. ~stream[p] => kept[p]
    BY <2>1 DEF HistoryInv, OrderInv, InOrder
  <2>4. Stored(p)
    BY <2>1 DEF HistoryInv, StoreInv
  <2>5. /\ p \in DOMAIN store => callsForResponse(p) = CachedCalls(answer[p])
        /\ p \notin DOMAIN store => callsForResponse(p) = <<>>
        /\ kept[p] => p \in DOMAIN store \/ CachedCalls(answer[p]) = <<>>
    BY <2>4 DEF Stored, callsForResponse
  <2>6. callsForResponse(p) \in {<<>>, CachedCalls(answer[p])}
    BY <2>5
  <2>7. kept[p] => callsForResponse(p) = CachedCalls(answer[p])
    BY <2>5
  <2> QED BY <1>1, <1>3, <2>2, <2>3, <2>6, <2>7 DEF MayGet
<1> QED BY <1>2, <1>3

LEMMA HistoryPost ==
  ASSUME HistoryInv, NEW r \in Requests, PostRequest(r)
  PROVE  OrderInv' /\ StoreInv' /\ RequestInv'
<1> DEFINE calls == IF Referred(r) = None THEN <<>> ELSE callsForResponse(answer[prev[r]].id)
<1>1. /\ pc[r] = "received" /\ pc' = [pc EXCEPT ![r] = "posted"]
      /\ posted' = [posted EXCEPT ![r] = enrichRequest(input[r], calls)]
      /\ UNCHANGED <<named, client, store, prev, input, stream, answer, told, kept>>
  BY DEF PostRequest, Goto
<1>2. named /\ ~client.replays => calls \in MayGet(r)
  BY Found
<1> HIDE DEF calls
<1>3. TypeOK
  BY DEF HistoryInv, TypeInv
<1>4. /\ pc'[r] = "posted" /\ posted'[r] = enrichRequest(input[r], calls)
      /\ \A q \in Requests : q # r => pc'[q] = pc[q] /\ posted'[q] = posted[q]
  BY <1>1, <1>3 DEF TypeOK
<1>5. ~told[r] /\ ~kept[r]
  BY <1>1 DEF HistoryInv, OrderInv, InOrder
<1>6. OrderInv'
  <2>1. ASSUME NEW q \in Requests PROVE InOrder(q)'
    <3>1. CASE q = r
      BY <1>1, <1>4, <1>5, <3>1 DEF HistoryInv, OrderInv, InOrder, Standing
    <3>2. CASE q # r
      BY <1>1, <1>4, <3>2 DEF HistoryInv, OrderInv, InOrder, Standing
    <3> QED BY <3>1, <3>2
  <2> QED BY <2>1 DEF OrderInv
<1>7. StoreInv'
  <2>1. ASSUME named, NEW q \in Requests PROVE Stored(q)'
    <3>1. Stored(q)
      BY <2>1 DEF HistoryInv, StoreInv
    <3>2. CASE q = r
      BY <1>1, <1>5, <3>1, <3>2 DEF Stored
    <3>3. CASE q # r
      BY <1>1, <1>4, <3>1, <3>3 DEF Stored
    <3> QED BY <3>2, <3>3
  <2> QED BY <1>1, <2>1 DEF HistoryInv, StoreInv
<1>8. RequestInv'
  <2>1. ASSUME ~client.replays, NEW q \in Requests PROVE Served(q)'
    <3>0. Served(q)
      BY <2>1 DEF HistoryInv, RequestInv
    <3>1. CASE q = r
      <4>1. MayGet(r)' = MayGet(r) /\ Asked(r)' = Asked(r)
        BY <1>1 DEF MayGet, Asked
      <4>2. named => \E c \in MayGet(r) : posted'[r] = enrichRequest(input[r], c)
        BY <1>2, <1>4, <2>1
      <4> QED BY <1>1, <3>0, <3>1, <4>1, <4>2 DEF Served
    <3>2. CASE q # r
      BY <1>1, <1>4, <3>0, <3>2, ServedSame
    <3> QED BY <3>1, <3>2
  <2> QED BY <1>1, <2>1 DEF RequestInv
<1> QED BY <1>6, <1>7, <1>8

LEMMA RequestSame ==
  ASSUME HistoryInv, UNCHANGED <<named, client, input, prev, posted, answer>>
  PROVE  RequestInv'
BY DEF HistoryInv, RequestInv, Served, MayGet, Asked

LEMMA HistoryAnswer ==
  ASSUME HistoryInv, NEW r \in Requests, UpstreamAnswers(r)
  PROVE  OrderInv' /\ StoreInv' /\ RequestInv'
<1>1. PICK k \in Completions, s \in BOOLEAN :
        /\ answer' = [answer EXCEPT ![r] =
             [id |-> IF named THEN r ELSE IF s THEN DefaultId ELSE NoId,
              output |-> IF s THEN StreamOutput(r, k) ELSE BodyOutput(r, k)]]
        /\ stream' = [stream EXCEPT ![r] = s]
        /\ pc' = [pc EXCEPT ![r] = IF s THEN "streaming" ELSE "answered"]
  BY DEF UpstreamAnswers, Goto
<1>2. pc[r] = "posted" /\ UNCHANGED <<named, client, store, prev, input, posted, told, kept>>
  BY DEF UpstreamAnswers
<1>3. TypeOK
  BY DEF HistoryInv, TypeInv
<1>4. /\ pc'[r] = (IF s THEN "streaming" ELSE "answered") /\ stream'[r] = s
      /\ named => answer'[r].id = r
  BY <1>1, <1>3 DEF TypeOK
<1>5. \A q \in Requests : q # r => pc'[q] = pc[q] /\ stream'[q] = stream[q] /\ answer'[q] = answer[q]
  BY <1>1, <1>3 DEF TypeOK
<1>6. ~told[r] /\ ~kept[r] /\ (named => r \notin DOMAIN store)
  BY <1>2 DEF HistoryInv, OrderInv, InOrder, StoreInv, Stored
<1>7. \A q \in Requests : prev[q] # None => prev[q] \in Requests /\ prev[q] # r
  BY <1>3, <1>6 DEF HistoryInv, OrderInv, InOrder, TypeOK
<1>8. OrderInv'
  <2>1. ASSUME NEW q \in Requests PROVE InOrder(q)'
    <3>1. CASE q = r
      <4>1. pc'[r] \notin {"recorded", "idle"} /\ (pc'[r] = "streaming" => stream'[r])
        BY <1>4
      <4>2. prev[r] # None => told[prev[r]]
        BY DEF HistoryInv, OrderInv, InOrder
      <4> QED BY <1>2, <1>4, <1>6, <3>1, <4>1, <4>2 DEF InOrder, Standing
    <3>2. CASE q # r
      BY <1>2, <1>5, <3>2 DEF HistoryInv, OrderInv, InOrder, Standing
    <3> QED BY <3>1, <3>2
  <2> QED BY <2>1 DEF OrderInv
<1>9. StoreInv'
  <2>1. ASSUME named, NEW q \in Requests PROVE Stored(q)'
    <3>1. Stored(q)
      BY <2>1 DEF HistoryInv, StoreInv
    <3>2. CASE q = r
      BY <1>2, <1>6, <2>1, <3>2 DEF Stored
    <3>3. CASE q # r
      <4>1. CachedCalls(answer[q])' = CachedCalls(answer[q])
        BY <1>5, <3>3
      <4> QED BY <1>2, <1>5, <3>1, <3>3, <4>1 DEF Stored
    <3> QED BY <3>2, <3>3
  <2> QED BY <1>2, <2>1 DEF HistoryInv, StoreInv
<1>10. RequestInv'
  <2>1. ASSUME ~client.replays, NEW q \in Requests PROVE Served(q)'
    <3>1. Served(q)
      BY <2>1 DEF HistoryInv, RequestInv
    <3>2. prev[q] # None => answer'[prev[q]] = answer[prev[q]]
      BY <1>5, <1>7
    <3> QED BY <1>2, <3>1, <3>2, ServedSame
  <2> QED BY <1>2, <2>1 DEF RequestInv
<1> QED BY <1>8, <1>9, <1>10

LEMMA HistoryRest ==
  ASSUME HistoryInv, NEW r \in Requests,
         AttemptFails(r) \/ FlushCompleted(r) \/ StreamFails(r) \/ WriteBody(r)
  PROVE  OrderInv' /\ StoreInv' /\ RequestInv'
<1>1. TypeOK
  BY DEF HistoryInv, TypeInv
<1>2. UNCHANGED <<named, client, store, prev, input, posted, stream, answer, kept>>
  BY DEF AttemptFails, FlushCompleted, StreamFails, WriteBody
<1>3. \A q \in Requests : q # r => pc'[q] = pc[q] /\ told'[q] = told[q]
  BY <1>1 DEF AttemptFails, FlushCompleted, StreamFails, WriteBody, Goto, TypeOK
<1>4. \/ pc[r] = "posted" /\ pc'[r] \in {"received", "over"} /\ told'[r] = told[r]
      \/ pc[r] = "streaming" /\ pc'[r] = "streaming" /\ told'[r]
      \/ pc[r] = "streaming" /\ pc'[r] = "over" /\ told'[r] = told[r]
      \/ pc[r] = "recorded" /\ pc'[r] = "over" /\ told'[r]
  BY <1>1 DEF AttemptFails, FlushCompleted, StreamFails, WriteBody, Goto, TypeOK
<1>5. \A q \in Requests : told[q] => told'[q]
  BY <1>3, <1>4
<1>6. InOrder(r) /\ (prev[r] # None => prev[r] \in Requests)
  BY <1>1 DEF HistoryInv, OrderInv, TypeOK
<1>7. OrderInv'
  <2>1. ASSUME NEW q \in Requests PROVE InOrder(q)'
    <3>0. prev'[q] # None => told'[prev'[q]]
      BY <1>1, <1>2, <1>5 DEF HistoryInv, OrderInv, InOrder, TypeOK
    <3>1. CASE q = r
      <4>1. CASE pc[r] = "posted" /\ pc'[r] \in {"received", "over"} /\ told'[r] = told[r]
        BY <1>2, <1>6, <3>0, <3>1, <4>1 DEF InOrder, Standing
      <4>2. CASE pc[r] = "streaming" /\ pc'[r] = "streaming" /\ told'[r]
        BY <1>2, <1>6, <3>0, <3>1, <4>2 DEF InOrder, Standing
      <4>3. CASE pc[r] = "streaming" /\ pc'[r] = "over" /\ told'[r] = told[r]
        BY <1>2, <1>6, <3>0, <3>1, <4>3 DEF InOrder, Standing
      <4>4. CASE pc[r] = "recorded" /\ pc'[r] = "over" /\ told'[r]
        BY <1>2, <1>6, <3>0, <3>1, <4>4 DEF InOrder, Standing
      <4> QED BY <1>4, <4>1, <4>2, <4>3, <4>4
    <3>2. CASE q # r
      BY <1>2, <1>3, <3>0, <3>2 DEF HistoryInv, OrderInv, InOrder, Standing
    <3> QED BY <3>1, <3>2
  <2> QED BY <2>1 DEF OrderInv
<1>8. StoreInv'
  <2>1. ASSUME named, NEW q \in Requests PROVE Stored(q)'
    <3>1. Stored(q)
      BY <2>1 DEF HistoryInv, StoreInv
    <3>2. pc[q] \in {"recorded", "over"} => pc'[q] \in {"recorded", "over"}
      BY <1>3, <1>4
    <3> QED BY <1>2, <3>1, <3>2 DEF Stored
  <2> QED BY <1>2, <2>1 DEF HistoryInv, StoreInv
<1>9. RequestInv'
  BY <1>2, RequestSame
<1> QED BY <1>7, <1>8, <1>9

LEMMA HistoryRecord ==
  ASSUME HistoryInv, NEW r \in Requests, StreamEnds(r) \/ RecordBody(r)
  PROVE  OrderInv' /\ StoreInv' /\ RequestInv'
<1>1. TypeOK
  BY DEF HistoryInv, TypeInv
<1>2. UNCHANGED <<named, client, prev, input, posted, stream, answer>>
  BY DEF StreamEnds, RecordBody
<1>3. \A q \in Requests : q # r => pc'[q] = pc[q] /\ told'[q] = told[q] /\ kept'[q] = kept[q]
  BY <1>1 DEF StreamEnds, RecordBody, Goto, TypeOK
<1>4. /\ kept'[r] /\ store' = recordResponsePayload(answer[r])
      /\ \/ pc[r] = "streaming" /\ pc'[r] = "over" /\ told'[r]
         \/ pc[r] = "answered" /\ pc'[r] = "recorded" /\ told'[r] = told[r]
  BY <1>1 DEF StreamEnds, RecordBody, Goto, TypeOK
<1>5. \A q \in Requests : told[q] => told'[q]
  BY <1>3, <1>4
<1>6. InOrder(r)
  BY DEF HistoryInv, OrderInv
<1>7. OrderInv'
  <2>1. ASSUME NEW q \in Requests PROVE InOrder(q)'
    <3>0. prev'[q] # None => told'[prev'[q]]
      BY <1>1, <1>2, <1>5 DEF HistoryInv, OrderInv, InOrder, TypeOK
    <3>1. CASE q = r
      <4>1. CASE pc[r] = "streaming" /\ pc'[r] = "over" /\ told'[r]
        BY <1>2, <1>4, <1>6, <3>0, <3>1, <4>1 DEF InOrder, Standing
      <4>2. CASE pc[r] = "answered" /\ pc'[r] = "recorded" /\ told'[r] = told[r]
        BY <1>2, <1>4, <1>6, <3>0, <3>1, <4>2 DEF InOrder, Standing
      <4> QED BY <1>4, <4>1, <4>2
    <3>2. CASE q # r
      BY <1>2, <1>3, <3>0, <3>2 DEF HistoryInv, OrderInv, InOrder, Standing
    <3> QED BY <3>1, <3>2
  <2> QED BY <2>1 DEF OrderInv
<1>8. StoreInv'
  <2>0. SUFFICES ASSUME named PROVE DOMAIN store' \subseteq Requests /\ \A p \in Requests : Stored(p)'
    BY <1>2 DEF StoreInv
  <2>1. DOMAIN store \subseteq Requests /\ \A q \in Requests : Stored(q)
    BY <2>0 DEF HistoryInv, StoreInv
  <2>2. answer[r].id = r /\ r # NoId
    BY <1>4, <1>6, <2>0, RequestsAssumption DEF InOrder, Standing
  <2> DEFINE calls == CachedCalls(answer[r])
  <2>3. CASE calls = <<>>
    <3>1. store' = store
      BY <1>4, <2>3 DEF recordResponsePayload
    <3>2. r \notin DOMAIN store
      BY <1>4, <2>1 DEF Stored
    <3>3. ASSUME NEW q \in Requests PROVE Stored(q)'
      <4>1. CASE q = r
        BY <1>2, <2>3, <3>1, <3>2, <4>1 DEF Stored
      <4>2. CASE q # r
        BY <1>2, <1>3, <2>1, <3>1, <4>2 DEF Stored
      <4> QED BY <4>1, <4>2
    <3> QED BY <2>1, <3>1, <3>3
  <2>4. CASE calls # <<>>
    <3>1. store' = [i \in DOMAIN store \cup {r} |-> IF i = r THEN calls ELSE store[i]]
      BY <1>4, <2>2, <2>4 DEF recordResponsePayload
    <3> HIDE DEF calls
    <3>2. /\ DOMAIN store' = DOMAIN store \cup {r} /\ store'[r] = calls
          /\ \A i \in DOMAIN store : i # r => store'[i] = store[i]
      BY <3>1
    <3>3. ASSUME NEW q \in Requests PROVE Stored(q)'
      <4>1. CASE q = r
        BY <1>2, <1>4, <3>2, <4>1 DEF Stored, calls
      <4>2. CASE q # r
        BY <1>2, <1>3, <2>1, <3>2, <4>2 DEF Stored
      <4> QED BY <4>1, <4>2
    <3> QED BY <2>1, <3>2, <3>3
  <2> QED BY <2>3, <2>4
<1>9. RequestInv'
  BY <1>2, RequestSame
<1> QED BY <1>7, <1>8, <1>9

LEMMA HistoryWriteFails ==
  ASSUME HistoryInv, NEW r \in Requests, WriteBodyFails(r)
  PROVE  OrderInv' /\ StoreInv' /\ RequestInv'
<1>1. TypeOK
  BY DEF HistoryInv, TypeInv
<1>2. UNCHANGED <<named, client, prev, input, posted, stream, answer, told>>
  BY DEF WriteBodyFails
<1>3. \A q \in Requests : q # r => pc'[q] = pc[q] /\ kept'[q] = kept[q]
  BY <1>1 DEF WriteBodyFails, Goto, TypeOK
<1>4. /\ ~kept'[r] /\ store' = [i \in DOMAIN store \ {r} |-> store[i]]
      /\ pc[r] = "recorded" /\ pc'[r] \in {"received", "over"}
  BY <1>1 DEF WriteBodyFails, Goto, TypeOK
<1>5. ~told[r]
  BY <1>4 DEF HistoryInv, OrderInv, InOrder
<1>6. OrderInv'
  <2>1. ASSUME NEW q \in Requests PROVE InOrder(q)'
    <3>0. prev'[q] # None => told'[prev'[q]]
      BY <1>2 DEF HistoryInv, OrderInv, InOrder
    <3>1. CASE q = r
      BY <1>2, <1>4, <1>5, <3>0, <3>1 DEF InOrder, Standing
    <3>2. CASE q # r
      BY <1>2, <1>3, <3>0, <3>2 DEF HistoryInv, OrderInv, InOrder, Standing
    <3> QED BY <3>1, <3>2
  <2> QED BY <2>1 DEF OrderInv
<1>7. StoreInv'
  <2>1. /\ DOMAIN store' = DOMAIN store \ {r}
        /\ \A i \in DOMAIN store : i # r => store'[i] = store[i]
    BY <1>4
  <2>2. ASSUME named, NEW q \in Requests PROVE Stored(q)'
    <3>1. Stored(q)
      BY <2>2 DEF HistoryInv, StoreInv
    <3>2. CASE q = r
      BY <1>4, <2>1, <3>2 DEF Stored
    <3>3. CASE q # r
      BY <1>2, <1>3, <2>1, <3>1, <3>3 DEF Stored
    <3> QED BY <3>2, <3>3
  <2> QED BY <1>2, <2>1, <2>2 DEF HistoryInv, StoreInv
<1>8. RequestInv'
  BY <1>2, RequestSame
<1> QED BY <1>6, <1>7, <1>8

LEMMA HistoryStep == HistoryInv /\ [Next]_vars => HistoryInv'
<1> SUFFICES ASSUME HistoryInv, [Next]_vars PROVE HistoryInv'
  OBVIOUS
<1>1. TypeInv'
  BY TypeStep DEF HistoryInv
<1>2. CASE UNCHANGED vars
  BY <1>1, <1>2, HistorySame DEF HistoryInv
<1>3. CASE Next
  <2>1. OrderInv' /\ StoreInv' /\ RequestInv'
    BY <1>3, HistorySend, HistoryPost, HistoryAnswer, HistoryRest, HistoryRecord, HistoryWriteFails DEF Next
  <2> QED BY <1>1, <2>1 DEF HistoryInv
<1> QED BY <1>2, <1>3

LEMMA HistoryInvariant == Spec => []HistoryInv
BY HistoryInit, HistoryStep, PTL DEF Spec

-----------------------------------------------------------------------------
(* The calls put back are the right ones, and all that are needed.         *)

\* The calls put back in r are among the answer it goes on from, in their order.
LEMMA RestoredBelong ==
  ASSUME HistoryInv, NEW r \in Requests, NEW items \in Seq(InputItem), NEW calls \in MayGet(r),
         RestoredItems(RestoreGroup(items, calls)) # <<>>
  PROVE  LET restored == RestoredItems(RestoreGroup(items, calls))
             out == answer[prev[r]].output IN
         /\ prev[r] # None
         /\ \A i, j \in DOMAIN restored : i < j =>
              \E k, l \in DOMAIN out : k < l /\ out[k] = restored[i] /\ out[l] = restored[j]
         /\ \A i \in DOMAIN restored : restored[i].by = prev[r]
<1> DEFINE group == RestoreGroup(items, calls)
           R == RestoredItems(group)
           g == Len(group)
           p == prev[r]
           out == answer[p].output
<1>1. calls \in Seq(CachedCall)
  <2>1. CASE calls = <<>>
    BY <2>1
  <2>2. CASE prev[r] # None /\ calls = CachedCalls(answer[prev[r]])
    <3>1. prev[r] \in Requests
      BY <2>2 DEF HistoryInv, TypeInv, TypeOK
    <3>2. IsAnswer(prev[r], answer[prev[r]].output)
      BY <3>1 DEF HistoryInv, TypeInv, AnswersShaped
    <3> QED BY <2>2, <3>1, <3>2, CachedOf
  <2> QED BY <2>1, <2>2 DEF MayGet
<1>2. /\ group \in Seq(CachedCall)
      /\ \E at \in [1..g -> 1..Len(calls)] :
           /\ \A n \in 1..g : group[n] = calls[at[n]]
           /\ \A m, n \in 1..g : m < n => at[m] < at[n]
  <2>1. items \in Seq(InputItem) /\ calls \in Seq(CachedCall)
    BY <1>1
  <2> QED BY <2>1, GroupOf
<1>3. DOMAIN R = DOMAIN group /\ \A n \in DOMAIN group : R[n] = CallItem(group[n].id, group[n].by, group[n].thought)
  BY DEF RestoredItems
<1>4. R # <<>>
  OBVIOUS
<1> HIDE DEF group, R
<1>5. g \in Nat /\ DOMAIN group = 1..g /\ DOMAIN R = 1..g
  BY <1>2, <1>3
<1>6. g # 0
  BY <1>3, <1>4, <1>5 DEF R, RestoredItems
<1>7. PICK at \in [1..g -> 1..Len(calls)] :
           /\ \A n \in 1..g : group[n] = calls[at[n]]
           /\ \A m, n \in 1..g : m < n => at[m] < at[n]
  BY <1>2
<1>8. calls # <<>>
  BY <1>5, <1>6, <1>7
<1>9. p # None /\ p \in Requests /\ calls = CachedCalls(answer[p]) /\ IsAnswer(p, out)
  <2>1. p # None /\ calls = CachedCalls(answer[p])
    BY <1>8 DEF MayGet
  <2>2. p \in Requests
    BY <2>1 DEF HistoryInv, TypeInv, TypeOK
  <2> QED BY <2>1, <2>2 DEF HistoryInv, TypeInv, AnswersShaped
<1>10. /\ \E to \in [1..Len(calls) -> 1..Len(out)] :
            /\ \A n \in 1..Len(calls) : out[to[n]] = CallItem(calls[n].id, calls[n].by, calls[n].thought)
            /\ \A m, n \in 1..Len(calls) : m < n => to[m] < to[n]
       /\ \A n \in 1..Len(calls) : calls[n].by = p
  <2> DEFINE a == answer[p]
             cached == CachedCalls(a)
  <2>1. p \in Requests /\ IsAnswer(p, a.output)
    BY <1>9
  <2>2. /\ \E to \in [1..Len(cached) -> 1..Len(a.output)] :
             /\ \A n \in 1..Len(cached) : a.output[to[n]] = CallItem(cached[n].id, cached[n].by, cached[n].thought)
             /\ \A m, n \in 1..Len(cached) : m < n => to[m] < to[n]
        /\ \A n \in 1..Len(cached) : cached[n].by = p
    <3> HIDE DEF a, p
    <3> QED BY <2>1, CachedOf DEF cached
  <2>3. cached = calls /\ a.output = out
    BY <1>9
  <2> HIDE DEF cached, a, out
  <2> QED BY <2>2, <2>3
<1>11. PICK to \in [1..Len(calls) -> 1..Len(out)] :
            /\ \A n \in 1..Len(calls) : out[to[n]] = CallItem(calls[n].id, calls[n].by, calls[n].thought)
            /\ \A m, n \in 1..Len(calls) : m < n => to[m] < to[n]
  BY <1>10
<1>12. DOMAIN out = 1..Len(out)
  BY <1>9 DEF IsAnswer
<1>13. ASSUME NEW n \in 1..g
       PROVE  at[n] \in 1..Len(calls) /\ to[at[n]] \in DOMAIN out /\ out[to[at[n]]] = R[n] /\ R[n].by = p
  <2>1. at[n] \in 1..Len(calls) /\ to[at[n]] \in DOMAIN out
    BY <1>7, <1>11, <1>12
  <2>2. R[n] = CallItem(group[n].id, group[n].by, group[n].thought) /\ group[n] = calls[at[n]] /\ group[n] \in CachedCall
    <3>1. group[n] \in CachedCall
      BY <1>2, <1>5
    <3> QED BY <1>3, <1>5, <1>7, <3>1
  <2>3. out[to[at[n]]] = R[n]
    BY <1>11, <2>1, <2>2
  <2>4. R[n].by = group[n].by /\ group[n].by = p
    <3>1. group[n].id \in CallIds /\ group[n].by \in Requests /\ group[n].thought \in Thoughts
      BY <2>2 DEF CachedCall
    <3>2. R[n].by = group[n].by
      BY <2>2, <3>1, CallTyped
    <3> QED BY <1>10, <2>1, <2>2, <3>2
  <2> QED BY <2>1, <2>3, <2>4
<1>14. ASSUME NEW i \in DOMAIN R, NEW j \in DOMAIN R, i < j
       PROVE  \E k, l \in DOMAIN out : k < l /\ out[k] = R[i] /\ out[l] = R[j]
  <2>1. i \in 1..g /\ j \in 1..g
    BY <1>5
  <2>2. to[at[i]] < to[at[j]]
    <3>1. at[i] < at[j] /\ at[i] \in 1..Len(calls) /\ at[j] \in 1..Len(calls)
      BY <1>7, <1>13, <1>14, <2>1
    <3> QED BY <1>11, <3>1
  <2>3. to[at[i]] \in DOMAIN out /\ to[at[j]] \in DOMAIN out /\ out[to[at[i]]] = R[i] /\ out[to[at[j]]] = R[j]
    BY <1>13, <2>1
  <2> QED BY <2>2, <2>3
<1>15. \A i \in DOMAIN R : R[i].by = p
  BY <1>5, <1>13
<1> QED BY <1>9, <1>14, <1>15 DEF R, group

LEMMA BelongInv == HistoryInv => CallsBelong
<1> SUFFICES ASSUME HistoryInv, named, ~client.replays, NEW r \in Requests
             PROVE  LET own == {i \in DOMAIN posted[r] : posted[r][i].by = Client}
                        restored == Picked(posted[r], DOMAIN posted[r] \ own) IN
                    /\ Picked(posted[r], own) \in {input[r], <<>>}
                    /\ restored # <<>> =>
                         /\ prev[r] # None
                         /\ \A i, j \in DOMAIN restored : i < j =>
                              \E k, l \in DOMAIN answer[prev[r]].output :
                                k < l /\ answer[prev[r]].output[k] = restored[i] /\ answer[prev[r]].output[l] = restored[j]
                         /\ \A i \in DOMAIN restored : restored[i].by = prev[r]
  BY DEF CallsBelong
<1> DEFINE own == {i \in DOMAIN posted[r] : posted[r][i].by = Client}
           others == DOMAIN posted[r] \ own
<1>1. Served(r)
  BY DEF HistoryInv, RequestInv
<1>2. CASE posted[r] = <<>>
  <2>1. <<>> \in Seq(InputItem) /\ Len(<<>>) = 0
    OBVIOUS
  <2> HIDE DEF own, others
  <2>2. Picked(<<>>, own) = <<>> /\ Picked(<<>>, others) = <<>>
    BY <2>1, PickedEmpty
  <2> QED BY <1>2, <2>2 DEF own, others
<1>3. CASE posted[r] # <<>>
  <2>1. PICK calls \in MayGet(r) : posted[r] = enrichRequest(input[r], calls)
    BY <1>1, <1>3 DEF Served
  <2>2. input[r] \in Seq(InputItem) /\ \A i \in DOMAIN input[r] : input[r][i].by = Client
    BY <1>1, InputCalls DEF Served
  <2>3. calls \in Seq(CachedCall)
    <3>1. CASE calls = <<>>
      BY <3>1
    <3>2. CASE prev[r] # None /\ calls = CachedCalls(answer[prev[r]])
      <4>1. prev[r] \in Requests
        BY <3>2 DEF HistoryInv, TypeInv, TypeOK
      <4>2. IsAnswer(prev[r], answer[prev[r]].output)
        BY <4>1 DEF HistoryInv, TypeInv, AnswersShaped
      <4> QED BY <3>2, <4>1, <4>2, CachedOf
    <3> QED BY <3>1, <3>2 DEF MayGet
  <2> DEFINE restored == RestoredItems(RestoreGroup(input[r], calls))
  <2>4. Picked(posted[r], own) = input[r] /\ Picked(posted[r], others) = restored
    <3> DEFINE e == enrichRequest(input[r], calls)
               ofClient == {i \in DOMAIN e : e[i].by = Client}
    <3>1. Picked(e, ofClient) = input[r] /\ Picked(e, DOMAIN e \ ofClient) = restored
      BY <2>2, <2>3, EnrichedPicked
    <3>2. e = posted[r] /\ ofClient = own /\ DOMAIN e \ ofClient = others
      BY <2>1
    <3> HIDE DEF e, ofClient, own, others, restored
    <3> QED BY <3>1, <3>2
  <2>5. restored # <<>> =>
          /\ prev[r] # None
          /\ \A i, j \in DOMAIN restored : i < j =>
               \E k, l \in DOMAIN answer[prev[r]].output :
                 k < l /\ answer[prev[r]].output[k] = restored[i] /\ answer[prev[r]].output[l] = restored[j]
          /\ \A i \in DOMAIN restored : restored[i].by = prev[r]
    BY <2>2, RestoredBelong
  <2> HIDE DEF restored, own, others
  <2> QED BY <2>4, <2>5 DEF own, others
<1> QED BY <1>2, <1>3

\* A request that refers to a response goes upstream with the client's items as they came, and what is
\* put back among them are calls of that response, in their order: no other response's calls, however
\* their ids collide, whichever requests run at the same time, and however often attempts fail.
THEOREM RestoredAreIts == Spec => []CallsBelong
BY HistoryInvariant, BelongInv, PTL

\* What a request asks of a response, the calls of the response answer.
LEMMA PostedComplete ==
  ASSUME HistoryInv, NEW r \in Requests, named, ~client.replays, PostRequest(r),
         prev[r] # None => ~stream[prev[r]] \/ kept[prev[r]]
  PROVE  Complete(posted'[r])
<1> DEFINE calls == IF Referred(r) = None THEN <<>> ELSE callsForResponse(answer[prev[r]].id)
           items == input[r]
           asked == IdsOf(items, "function_call_output") \ IdsOf(items, "function_call")
<1>1. posted'[r] = enrichRequest(items, calls)
  BY DEF PostRequest, HistoryInv, TypeInv, TypeOK
<1>2. calls \in MayGet(r) /\ (prev[r] # None => calls = CachedCalls(answer[prev[r]]))
  BY Found
<1>3. Referred(r) = prev[r]
  BY DEF Referred
<1>4. items \in Inputs \cup {<<>>} /\ asked \subseteq Asked(r)
  BY DEF HistoryInv, RequestInv, Served
<1>5. /\ calls \in Seq(CachedCall)
      /\ \A m, n \in 1..Len(calls) : calls[m].id = calls[n].id => m = n
      /\ \A id \in Asked(r) : \E n \in 1..Len(calls) : calls[n].id = id
  <2>1. CASE prev[r] = None
    BY <1>3, <2>1 DEF Asked
  <2>2. CASE prev[r] # None
    <3> DEFINE p == prev[r]
    <3>1. p \in Requests
      BY <2>2 DEF HistoryInv, TypeInv, TypeOK
    <3>2. IsAnswer(p, answer[p].output)
      BY <3>1 DEF HistoryInv, TypeInv, AnswersShaped
    <3>3. calls = CachedCalls(answer[p]) /\ Asked(r) = IdsOf(answer[p].output, "function_call")
      BY <1>2, <2>2 DEF Asked
    <3> HIDE DEF calls
    <3> QED BY <3>1, <3>2, <3>3, CachedOf
  <2> QED BY <2>1, <2>2
<1> HIDE DEF calls, items
<1>6. Complete(enrichRequest(items, calls))
  BY <1>4, <1>5, EnrichedComplete
<1> QED BY <1>1, <1>6

\* Only the handler of r posts its request.
LEMMA Poster ==
  ASSUME HistoryInv, Next, NEW r \in Requests, Posts(r)
  PROVE  PostRequest(r)
<1>1. pc[r] = "received" /\ pc'[r] = "posted" /\ TypeOK
  BY DEF Posts, HistoryInv, TypeInv
<1>2. PICK q \in Requests :
        \/ SendRequest(q) \/ PostRequest(q) \/ AttemptFails(q) \/ UpstreamAnswers(q)
        \/ FlushCompleted(q) \/ StreamEnds(q) \/ StreamFails(q)
        \/ RecordBody(q) \/ WriteBody(q) \/ WriteBodyFails(q)
  BY DEF Next
<1>3. q = r
  <2>1. \E l : pc' = [pc EXCEPT ![q] = l] \/ pc' = pc
    BY <1>2 DEF SendRequest, PostRequest, AttemptFails, UpstreamAnswers, FlushCompleted,
                StreamEnds, StreamFails, RecordBody, WriteBody, WriteBodyFails, Goto
  <2> QED BY <1>1, <2>1 DEF TypeOK
<1> QED BY <1>1, <1>2, <1>3 DEF SendRequest, AttemptFails, UpstreamAnswers, FlushCompleted,
                StreamEnds, StreamFails, RecordBody, WriteBody, WriteBodyFails, Goto

LEMMA RestoredStep ==
  HistoryInv /\ [Next]_vars =>
    [\A r \in Requests :
       /\ named /\ ~client.replays
       /\ Posts(r)
       /\ prev[r] # None => ~stream[prev[r]] \/ kept[prev[r]]
       => Complete(posted'[r])]_vars
BY Poster, PostedComplete

\* A request that refers to a response told as one body, or recorded, goes upstream with one call
\* before each result: the response is still stored when the request arrives, with every call the
\* input has results for, and those calls are put before the first of them.
THEOREM RestoredAreAll == Spec => CallsRestored
BY HistoryInvariant, RestoredStep, PTL DEF CallsRestored, Spec
=============================================================================
