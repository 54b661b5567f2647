----------------------- MODULE ResponsesStreamProofs -----------------------
(***************************************************************************)
(* What TLAPS proves of ResponsesStream, for every set of tool indexes and *)
(* every set of chunks, any number of them and every manner of upstream.   *)
(***************************************************************************)
EXTENDS ResponsesStream, TLAPS, SequenceTheorems, WellFoundedInduction

-----------------------------------------------------------------------------
(* What a loop keeps of a sequence.                                        *)

LEMMA AllNumbers ==
  ASSUME NEW P, 0 \in P, \A n \in Nat : n \in P => n + 1 \in P
  PROVE  Nat \subseteq P
<1> DEFINE S == Nat \ P
           R == {ss \in Nat \X Nat : ss[1] < ss[2]}
<1>1. SUFFICES ASSUME S # {} PROVE FALSE
  OBVIOUS
<1>2. IsWellFoundedOn(R, Nat)
  BY NatLessThanWellFounded DEF OpToRel
<1>3. PICK x \in S : \A y \in S : ~(<<y, x>> \in R)
  <2>1. S \in SUBSET Nat
    OBVIOUS
  <2> HIDE DEF R, S
  <2> QED BY <1>1, <1>2, <2>1, WFMin
<1>4. x \in Nat /\ x # 0 /\ x - 1 \in Nat /\ x - 1 < x
  OBVIOUS
<1>5. x - 1 \in P
  <2>1. x - 1 \in S => <<x - 1, x>> \in R
    BY <1>4
  <2> QED BY <1>3, <1>4, <2>1
<1> QED
  BY <1>4, <1>5

\* f[n] is what is kept of the first n elements of s.
Keeps(f, s, I) ==
  /\ f = [n \in 0..Len(s) |-> f[n]] /\ DOMAIN f = 0..Len(s) /\ f[0] = <<>>
  /\ \A n \in 1..Len(s) : f[n] = IF n \in I THEN Append(f[n - 1], s[n]) ELSE f[n - 1]

LEMMA PickedKeeps ==
  ASSUME NEW S, NEW s \in Seq(S), NEW I
  PROVE  \E f : Keeps(f, s, I) /\ Picked(s, I) = f[Len(s)]
<1> DEFINE picked == CHOOSE f : f = [n \in 0..Len(s) |->
             IF n = 0 THEN <<>> ELSE IF n \in I THEN Append(f[n - 1], s[n]) ELSE f[n - 1]]
<1>1. Picked(s, I) = picked[Len(s)]
  BY DEF Picked
<1>2. Len(s) \in Nat
  OBVIOUS
<1> DEFINE step(m, n) == IF n \in I THEN Append(m, s[n]) ELSE m
           goes(f, k) == /\ f = [n \in 0..k |-> f[n]] /\ DOMAIN f = 0..k /\ f[0] = <<>>
                         /\ \A n \in 1..k : f[n] = step(f[n - 1], n)
           some == {k \in Nat : \E f : goes(f, k)}
<1>3. \E f : goes(f, Len(s))
  <2>1. 0 \in some
    <3> DEFINE f == [n \in 0..0 |-> <<>>]
    <3>1. goes(f, 0)
      OBVIOUS
    <3> HIDE DEF goes
    <3> QED BY <3>1
  <2>2. ASSUME NEW k \in Nat, k \in some PROVE k + 1 \in some
    <3>1. PICK f : goes(f, k)
      BY <2>2
    <3> HIDE DEF step
    <3> DEFINE g == [n \in 0..(k + 1) |-> IF n = k + 1 THEN step(f[k], n) ELSE f[n]]
    <3>2. DOMAIN g = 0..(k + 1) /\ g[0] = <<>>
      BY <3>1
    <3>3. ASSUME NEW n \in 1..(k + 1) PROVE g[n] = step(g[n - 1], n)
      <4>1. n - 1 \in 0..k /\ g[n - 1] = f[n - 1]
        OBVIOUS
      <4>2. CASE n = k + 1
        <5>1. n - 1 = k /\ g[n] = step(f[k], n)
          BY <4>2
        <5> QED BY <4>1, <5>1
      <4>3. CASE n # k + 1
        <5>1. n \in 1..k /\ g[n] = f[n]
          BY <4>3
        <5> QED BY <3>1, <4>1, <5>1
      <4> QED BY <4>2, <4>3
    <3>4. goes(g, k + 1)
      BY <3>2, <3>3
    <3> HIDE DEF goes
    <3> QED BY <3>4
  <2> HIDE DEF some
  <2>3. Nat \subseteq some
    BY <2>1, <2>2, AllNumbers
  <2> QED BY <1>2, <2>3 DEF some
<1>4. goes(picked, Len(s))
  <2> DEFINE loop(f) == [n \in 0..Len(s) |->
               IF n = 0 THEN <<>> ELSE IF n \in I THEN Append(f[n - 1], s[n]) ELSE f[n - 1]]
  <2>1. PICK f : goes(f, Len(s))
    BY <1>3
  <2>2. f = loop(f)
    <3>1. ASSUME NEW n \in 0..Len(s) PROVE f[n] = loop(f)[n]
      <4>1. n = 0 \/ n \in 1..Len(s)
        BY <1>2
      <4> QED BY <1>2, <2>1, <4>1
    <3>2. f = [n \in 0..Len(s) |-> f[n]] /\ loop(f) = [n \in 0..Len(s) |-> loop(f)[n]]
      BY <2>1
    <3> HIDE DEF loop, goes
    <3> QED BY <3>1, <3>2
  <2>3. picked = loop(picked)
    BY <2>2
  <2> HIDE DEF picked
  <2>4. DOMAIN picked = 0..Len(s) /\ picked = [n \in 0..Len(s) |-> picked[n]]
    BY <2>3
  <2>5. picked[0] = <<>>
    BY <1>2, <2>3
  <2>6. ASSUME NEW n \in 1..Len(s) PROVE picked[n] = step(picked[n - 1], n)
    <3>1. n \in 0..Len(s) /\ n # 0
      BY <1>2
    <3> QED BY <2>3, <3>1
  <2> QED BY <2>4, <2>5, <2>6
<1> QED
  <2> HIDE DEF picked
  <2>1. Keeps(picked, s, I)
    BY <1>4 DEF Keeps
  <2> QED BY <1>1, <2>1

LEMMA PickedIs ==
  ASSUME NEW S, NEW s \in Seq(S), NEW I, NEW f, f[0] = <<>>,
         \A n \in 1..Len(s) : f[n] = IF n \in I THEN Append(f[n - 1], s[n]) ELSE f[n - 1]
  PROVE  Picked(s, I) = f[Len(s)]
<1>1. PICK g : Keeps(g, s, I) /\ Picked(s, I) = g[Len(s)]
  BY PickedKeeps
<1>2. Len(s) \in Nat
  OBVIOUS
<1> DEFINE same == {k \in Nat : k <= Len(s) => f[k] = g[k]}
<1>3. 0 \in same
  BY <1>1 DEF Keeps
<1>4. ASSUME NEW k \in Nat, k \in same PROVE k + 1 \in same
  <2>1. SUFFICES ASSUME k + 1 <= Len(s) PROVE f[k + 1] = g[k + 1]
    OBVIOUS
  <2>2. k + 1 \in 1..Len(s) /\ (k + 1) - 1 = k /\ f[k] = g[k]
    BY <1>2, <1>4, <2>1
  <2> QED BY <1>1, <2>2 DEF Keeps
<1> HIDE DEF same
<1>5. Nat \subseteq same
  BY <1>3, <1>4, AllNumbers
<1> QED BY <1>1, <1>2, <1>5 DEF same

\* Only the positions in the sequence matter.
LEMMA PickedSame ==
  ASSUME NEW S, NEW s \in Seq(S), NEW I, NEW J, \A n \in 1..Len(s) : n \in I <=> n \in J
  PROVE  Picked(s, I) = Picked(s, J)
<1>1. PICK f : Keeps(f, s, I) /\ Picked(s, I) = f[Len(s)]
  BY PickedKeeps
<1>2. f[0] = <<>> /\ \A n \in 1..Len(s) : f[n] = IF n \in J THEN Append(f[n - 1], s[n]) ELSE f[n - 1]
  BY <1>1 DEF Keeps
<1>3. Picked(s, J) = f[Len(s)]
  BY <1>2, PickedIs
<1> QED BY <1>1, <1>3

\* All positions pick the sequence itself.
LEMMA PickedAll ==
  ASSUME NEW S, NEW s \in Seq(S), NEW I, DOMAIN s \subseteq I
  PROVE  Picked(s, I) = s
<1> DEFINE f == [n \in 0..Len(s) |-> SubSeq(s, 1, n)]
<1>1. Len(s) \in Nat /\ DOMAIN s = 1..Len(s)
  OBVIOUS
<1>2. f[0] = <<>>
  BY <1>1
<1>3. ASSUME NEW n \in 1..Len(s) PROVE f[n] = Append(f[n - 1], s[n]) /\ n \in I
  <2>1. n \in 0..Len(s) /\ n - 1 \in 0..Len(s) /\ n \in Nat /\ 1 <= n /\ n <= Len(s)
    BY <1>1
  <2>2. SubSeq(s, 1, n) = Append(SubSeq(s, 1, n - 1), s[n])
    BY <2>1
  <2> QED BY <1>1, <2>1, <2>2
<1>4. f[Len(s)] = s
  BY <1>1
<1> HIDE DEF f
<1>5. \A n \in 1..Len(s) : f[n] = IF n \in I THEN Append(f[n - 1], s[n]) ELSE f[n - 1]
  BY <1>3
<1>6. Picked(s, I) = f[Len(s)]
  BY <1>2, <1>5, PickedIs
<1> QED BY <1>4, <1>6

\* The positions that are picked do not depend on what is at them.
LEMMA PickedByPosition ==
  ASSUME NEW S, NEW s \in Seq(S), NEW T, NEW t \in Seq(T), Len(t) = Len(s), NEW I
  PROVE  /\ Picked(s, I) \in Seq(S) /\ Picked(t, I) \in Seq(T)
         /\ Len(Picked(s, I)) = Len(Picked(t, I))
         /\ \A n \in 1..Len(Picked(s, I)) :
              \E p \in 1..Len(s) : p \in I /\ Picked(s, I)[n] = s[p] /\ Picked(t, I)[n] = t[p]
<1>1. PICK f : Keeps(f, s, I) /\ Picked(s, I) = f[Len(s)]
  BY PickedKeeps
<1>2. PICK g : Keeps(g, t, I) /\ Picked(t, I) = g[Len(s)]
  BY PickedKeeps
<1>3. Len(s) \in Nat
  OBVIOUS
<1> DEFINE same(k) == /\ f[k] \in Seq(S) /\ g[k] \in Seq(T) /\ Len(f[k]) = Len(g[k])
                      /\ \A n \in 1..Len(f[k]) :
                           \E p \in 1..Len(s) : p \in I /\ f[k][n] = s[p] /\ g[k][n] = t[p]
           so == {k \in Nat : k <= Len(s) => same(k)}
<1>4. 0 \in so
  <2>1. f[0] = <<>> /\ g[0] = <<>>
    BY <1>1, <1>2 DEF Keeps
  <2>2. <<>> \in Seq(S) /\ <<>> \in Seq(T) /\ Len(<<>>) = 0
    OBVIOUS
  <2>3. \A n \in 1..Len(f[0]) : FALSE
    BY <2>1, <2>2
  <2>4. f[0] \in Seq(S) /\ g[0] \in Seq(T) /\ Len(f[0]) = Len(g[0])
    BY <2>1, <2>2
  <2> QED BY <2>3, <2>4
<1>5. ASSUME NEW k \in Nat, k \in so PROVE k + 1 \in so
  <2>1. SUFFICES ASSUME k + 1 <= Len(s) PROVE same(k + 1)
    OBVIOUS
  <2>2. k + 1 \in 1..Len(s) /\ (k + 1) - 1 = k /\ same(k) /\ s[k + 1] \in S /\ t[k + 1] \in T
    <3>1. k + 1 \in 1..Len(s)
      BY <1>3, <2>1
    <3>2. (k + 1) - 1 = k /\ same(k)
      BY <1>3, <1>5, <2>1
    <3> QED BY <3>1, <3>2
  <2>3. CASE k + 1 \in I
    <3>1. f[k + 1] = Append(f[k], s[k + 1]) /\ g[k + 1] = Append(g[k], t[k + 1])
      BY <1>1, <1>2, <2>2, <2>3 DEF Keeps
    <3>2. /\ f[k + 1] \in Seq(S) /\ g[k + 1] \in Seq(T)
          /\ Len(f[k + 1]) = Len(f[k]) + 1 /\ Len(g[k + 1]) = Len(f[k]) + 1
      BY <2>2, <3>1
    <3>3. ASSUME NEW n \in 1..Len(f[k + 1])
          PROVE \E p \in 1..Len(s) : p \in I /\ f[k + 1][n] = s[p] /\ g[k + 1][n] = t[p]
      <4>1. CASE n = Len(f[k]) + 1
        BY <2>2, <2>3, <3>1, <4>1
      <4>2. CASE n # Len(f[k]) + 1
        <5>1. n \in 1..Len(f[k]) /\ f[k + 1][n] = f[k][n] /\ g[k + 1][n] = g[k][n]
          BY <2>2, <3>1, <3>2, <4>2
        <5> QED BY <2>2, <5>1
      <4> QED BY <4>1, <4>2
    <3> QED BY <3>2, <3>3
  <2>4. CASE k + 1 \notin I
    <3>1. f[k + 1] = f[k] /\ g[k + 1] = g[k]
      BY <1>1, <1>2, <2>2, <2>4 DEF Keeps
    <3> QED BY <2>2, <3>1
  <2> QED BY <2>3, <2>4
<1> HIDE DEF so
<1>6. Nat \subseteq so
  BY <1>4, <1>5, AllNumbers
<1>7. same(Len(s))
  BY <1>3, <1>6 DEF so
<1> QED BY <1>1, <1>2, <1>7

-----------------------------------------------------------------------------
(* Texts.                                                                  *)

LEMMA LeastOf ==
  ASSUME NEW I, I \subseteq Nat, I # {}
  PROVE  \E i \in I : \A j \in I : i <= j
<1> DEFINE R == {ss \in Nat \X Nat : ss[1] < ss[2]}
<1>1. IsWellFoundedOn(R, Nat)
  BY NatLessThanWellFounded DEF OpToRel
<1>2. PICK i \in I : \A j \in I : ~(<<j, i>> \in R)
  <2> HIDE DEF R
  <2> QED BY <1>1, WFMin
<1>3. ASSUME NEW j \in I PROVE i <= j
  <2>1. ~(j < i)
    BY <1>2
  <2> QED BY <2>1
<1> QED BY <1>3

LEMMA GreatestOf ==
  ASSUME NEW n \in Nat, NEW I, I \subseteq 1..n, I # {}
  PROVE  \E i \in I : \A j \in I : j <= i
<1> DEFINE J == {n - i : i \in I}
<1>1. J \subseteq Nat /\ J # {}
  <2>1. \A i \in I : n - i \in Nat
    OBVIOUS
  <2> QED BY <2>1
<1>2. PICK m \in J : \A j \in J : m <= j
  <2> HIDE DEF J
  <2> QED BY <1>1, LeastOf
<1>3. PICK i \in I : m = n - i
  OBVIOUS
<1>4. ASSUME NEW j \in I PROVE j <= i
  <2>1. n - i <= n - j
    BY <1>2, <1>3
  <2> QED BY <2>1
<1> QED BY <1>4

LEMMA TrimLeftText ==
  ASSUME NEW t \in Text
  PROVE  TrimLeft(t) \in Text
<1>1. t \in Seq(Piece) /\ Solid(t) \subseteq 1..Len(t) /\ Len(t) \in Nat
  <2>1. t \in Seq(Piece) /\ Len(t) \in Nat /\ DOMAIN t = 1..Len(t)
    BY DEF Text
  <2>2. Solid(t) \subseteq DOMAIN t
    BY DEF Solid
  <2> QED BY <2>1, <2>2
<1>2. CASE Solid(t) # {}
  <2>1. \E i \in Solid(t) : \A j \in Solid(t) : i <= j
    BY <1>1, <1>2, LeastOf
  <2> DEFINE i == CHOOSE i \in Solid(t) : \A j \in Solid(t) : i <= j
  <2>2. i \in 1..Len(t) /\ TrimLeft(t) = SubSeq(t, i, Len(t))
    BY <1>1, <1>2, <2>1 DEF TrimLeft
  <2> HIDE DEF i
  <2> QED BY <1>1, <2>2 DEF Text
<1>3. CASE Solid(t) = {}
  BY <1>3 DEF TrimLeft, Text
<1> QED BY <1>2, <1>3

LEMMA TrimSpaceText ==
  ASSUME NEW t \in Text
  PROVE  TrimSpace(t) \in Text
<1>1. t \in Seq(Piece) /\ Solid(t) \subseteq 1..Len(t) /\ Len(t) \in Nat
  <2>1. t \in Seq(Piece) /\ Len(t) \in Nat /\ DOMAIN t = 1..Len(t)
    BY DEF Text
  <2>2. Solid(t) \subseteq DOMAIN t
    BY DEF Solid
  <2> QED BY <2>1, <2>2
<1>2. CASE Solid(t) # {}
  <2>1. \E i \in Solid(t) : \A j \in Solid(t) : j <= i
    BY <1>1, <1>2, GreatestOf
  <2> DEFINE i == CHOOSE i \in Solid(t) : \A j \in Solid(t) : j <= i
  <2>2. i \in 1..Len(t) /\ TrimSpace(t) = TrimLeft(SubSeq(t, 1, i))
    BY <1>1, <1>2, <2>1 DEF TrimSpace
  <2> HIDE DEF i
  <2>3. SubSeq(t, 1, i) \in Text
    BY <1>1, <2>2 DEF Text
  <2> QED BY <2>2, <2>3, TrimLeftText
<1>3. CASE Solid(t) = {}
  BY <1>3 DEF TrimSpace, Text
<1> QED BY <1>2, <1>3

LEMMA WithoutText ==
  ASSUME NEW t \in Text, NEW n \in Nat
  PROVE  Without(t, n) \in Text
<1>1. t \in Seq(Piece) /\ Len(t) \in Nat
  BY DEF Text
<1>2. \A i \in (n + 1)..Len(t) : t[i] \in Piece
  BY <1>1
<1> QED BY <1>1, <1>2 DEF Without, Text

LEMMA SplitTexts ==
  ASSUME NEW t \in Text
  PROVE  /\ splitLeadingThinkBlock(t).ok \in BOOLEAN
         /\ splitLeadingThinkBlock(t).reasoning \in Text
         /\ splitLeadingThinkBlock(t).answer \in Text
         /\ stripLeadingThinkOpenTag(t) \in Text
<1> DEFINE body == Without(TrimLeft(t), 2)
<1>1. body \in Text
  BY TrimLeftText, WithoutText
<1>2. stripLeadingThinkOpenTag(t) \in Text
  BY <1>1, TrimSpaceText DEF stripLeadingThinkOpenTag
<1>3. CASE OpensThink(t) /\ Closings(body) # {}
  <2> DEFINE at == CHOOSE i \in Closings(body) : \A j \in Closings(body) : i <= j
  <2>1. /\ splitLeadingThinkBlock(t).ok = TRUE
        /\ splitLeadingThinkBlock(t).reasoning = TrimSpace(SubSeq(body, 1, at - 1))
        /\ splitLeadingThinkBlock(t).answer = TrimLeft(Without(body, at + 1))
    BY <1>3 DEF splitLeadingThinkBlock
  <2> HIDE DEF body
  <2>2. body \in Seq(Piece) /\ Len(body) \in Nat /\ Closings(body) \subseteq 1..(Len(body) - 1)
    BY <1>1 DEF Text, Closings
  <2>3. Closings(body) \subseteq Nat
    BY <2>2
  <2>4. \E i \in Closings(body) : \A j \in Closings(body) : i <= j
    BY <1>3, <2>3, LeastOf
  <2>5. at \in 1..(Len(body) - 1)
    BY <2>2, <2>4
  <2> HIDE DEF at
  <2>6. SubSeq(body, 1, at - 1) \in Text /\ Without(body, at + 1) \in Text
    <3>1. at + 1 \in Nat
      BY <2>2, <2>5
    <3>2. SubSeq(body, 1, at - 1) \in Seq(Piece)
      BY <2>2, <2>5
    <3> QED BY <1>1, <3>1, <3>2, WithoutText DEF Text
  <2> QED BY <1>2, <2>1, <2>6, TrimSpaceText, TrimLeftText
<1>4. CASE ~(OpensThink(t) /\ Closings(body) # {})
  <2>1. splitLeadingThinkBlock(t) = [ok |-> FALSE, reasoning |-> <<>>, answer |-> t]
    BY <1>4 DEF splitLeadingThinkBlock
  <2>2. <<>> \in Text
    BY DEF Text
  <2> QED BY <1>2, <2>1, <2>2
<1> QED BY <1>3, <1>4

-----------------------------------------------------------------------------
(* What each operator does to the state.                                   *)

Out == [kind : Kinds, text : Text]

Indexes == Nat \cup {-1}

Events == [type : {"created", "added", "delta", "done", "completed", "failed"}, kind : Slots,
           index : Indexes, text : Text, output : Seq(Out)]

State == [started : BOOLEAN, completed : BOOLEAN, next : Nat,
          added : [Slots -> BOOLEAN], done : [Slots -> BOOLEAN],
          index : [Slots -> Indexes], text : [Slots -> Text],
          carried : [Slots -> Text], seen : SUBSET Tools, items : Seq(Item),
          mode : {"detecting", "reasoning", "text"}, buffer : Text, events : Seq(Events)]

\* What output items do not change.
SameRest(s, t) ==
  t.completed = s.completed /\ t.mode = s.mode /\ t.buffer = s.buffer
    /\ t.seen = s.seen /\ t.carried = s.carried

SameItems(s, t) ==
  t.next = s.next /\ t.added = s.added /\ t.index = s.index /\ t.done = s.done
    /\ t.text = s.text /\ t.items = s.items

LEMMA SlotKinds ==
  /\ Reasoning \in Slots /\ Message \in Slots /\ Tools \subseteq Slots
  /\ Reasoning \notin Tools /\ Message \notin Tools /\ Reasoning # Message
  /\ \A x \in Slots : x = Reasoning \/ x = Message \/ x \in Tools
  /\ \A x \in Slots : KindOf(x) \in Kinds
  /\ KindOf(Reasoning) = "reasoning" /\ KindOf(Message) = "message"
  /\ \A x \in Tools : KindOf(x) = "function_call"
<1>1. Tools \subseteq Nat
  BY ToolsAssumption
<1>2. Reasoning = -2 /\ Message = -1
  BY DEF Reasoning, Message
<1>3. Reasoning \notin Tools /\ Message \notin Tools
  BY <1>1, <1>2
<1> QED BY <1>2, <1>3 DEF Slots, KindOf, Kinds

LEMMA Emitted ==
  ASSUME NEW s \in State, NEW e \in Events
  PROVE  /\ Emit(s, e) \in State /\ Emit(s, e).events = Append(s.events, e)
         /\ Emit(s, e).started = s.started
         /\ SameRest(s, Emit(s, e)) /\ SameItems(s, Emit(s, e))
<1>1. Append(s.events, e) \in Seq(Events)
  BY DEF State
<1>2. Emit(s, e) = [s EXCEPT !.events = Append(s.events, e)]
  BY DEF Emit
<1> QED BY <1>1, <1>2 DEF State, SameRest, SameItems

LEMMA NoticeEvents ==
  ASSUME NEW o \in Seq(Out), NEW type \in {"created", "completed", "failed"}
  PROVE  Notice(type, o) \in Events /\ Notice(type, o).type = type /\ Notice(type, o).output = o
<1>1. Message \in Slots /\ <<>> \in Text /\ -1 \in Indexes
  BY SlotKinds DEF Text, Indexes
<1> QED BY <1>1 DEF Notice, Event, Events, Indexes

LEMMA SlotEvents ==
  ASSUME NEW type \in {"added", "delta", "done"}, NEW x \in Slots, NEW i \in Indexes, NEW d \in Text
  PROVE  Event(type, x, i, d, <<>>) \in Events
<1>1. <<>> \in Seq(Out)
  OBVIOUS
<1> QED BY <1>1 DEF Event, Events, Indexes

LEMMA StartedEffect ==
  ASSUME NEW s \in State
  PROVE  /\ ensureStarted(s) \in State /\ ensureStarted(s).started
         /\ SameRest(s, ensureStarted(s)) /\ SameItems(s, ensureStarted(s))
<1>1. CASE s.started
  BY <1>1 DEF ensureStarted, SameRest, SameItems
<1>2. CASE ~s.started
  <2> DEFINE r == [s EXCEPT !.started = TRUE]
             e == Notice("created", <<>>)
  <2>1. ensureStarted(s) = Emit(r, e)
    BY <1>2 DEF ensureStarted
  <2>2. r \in State /\ r.started /\ SameRest(s, r) /\ SameItems(s, r)
    BY DEF State, SameRest, SameItems
  <2>3. e \in Events
    <3>1. <<>> \in Seq(Out)
      OBVIOUS
    <3> QED BY <3>1, NoticeEvents
  <2> HIDE DEF r, e
  <2> QED BY <2>1, <2>2, <2>3, Emitted DEF SameRest, SameItems
<1> QED BY <1>1, <1>2

\* The state after x was announced, but for the events.
Announced(s, t, x) ==
  /\ t.started /\ SameRest(s, t) /\ t.added[x]
  /\ t.added = [s.added EXCEPT ![x] = TRUE]
  /\ t.index = IF s.added[x] THEN s.index ELSE [s.index EXCEPT ![x] = s.next]
  /\ t.next = IF s.added[x] THEN s.next ELSE s.next + 1
  /\ t.done = s.done /\ t.text = s.text /\ t.items = s.items

LEMMA AnnounceEffect ==
  ASSUME NEW s \in State, NEW x \in Slots
  PROVE  Announce(s, x) \in State /\ Announced(s, Announce(s, x), x)
<1> DEFINE o == ensureStarted(s)
<1>1. o \in State /\ o.started /\ SameRest(s, o) /\ SameItems(s, o)
  BY StartedEffect
<1>2. CASE o.added[x]
  <2>1. Announce(s, x) = o
    BY <1>2 DEF Announce
  <2> HIDE DEF o
  <2>2. s.added[x] /\ [s.added EXCEPT ![x] = TRUE] = s.added
    BY <1>1, <1>2 DEF SameItems, State
  <2> QED BY <1>1, <2>1, <2>2 DEF SameItems, SameRest, Announced
<1>3. CASE ~o.added[x]
  <2> DEFINE r == [o EXCEPT !.added[x] = TRUE, !.index[x] = o.next, !.next = @ + 1]
             e == Event("added", x, o.next, <<>>, <<>>)
  <2>1. Announce(s, x) = Emit(r, e)
    BY <1>3 DEF Announce
  <2> HIDE DEF o
  <2>2. /\ r \in State /\ r.started /\ SameRest(s, r)
        /\ r.added = [s.added EXCEPT ![x] = TRUE] /\ r.index = [s.index EXCEPT ![x] = s.next]
        /\ r.next = s.next + 1 /\ r.done = s.done /\ r.text = s.text /\ r.items = s.items
    <3> DEFINE a == [o.added EXCEPT ![x] = TRUE]
               i == [o.index EXCEPT ![x] = o.next]
    <3>1. r = [o EXCEPT !.added = a, !.index = i, !.next = o.next + 1]
      BY <1>1 DEF State
    <3>2. a \in [Slots -> BOOLEAN] /\ i \in [Slots -> Indexes] /\ o.next + 1 \in Nat
      BY <1>1 DEF State, Indexes
    <3>3. a = [s.added EXCEPT ![x] = TRUE] /\ i = [s.index EXCEPT ![x] = s.next] /\ o.next = s.next
      BY <1>1 DEF SameItems
    <3> HIDE DEF a, i, r
    <3>4. /\ r \in State /\ r.started = o.started /\ SameRest(o, r) /\ r.added = a /\ r.index = i
          /\ r.next = o.next + 1 /\ r.done = o.done /\ r.text = o.text /\ r.items = o.items
      BY <1>1, <3>1, <3>2 DEF State, SameRest
    <3> QED BY <1>1, <3>3, <3>4 DEF SameRest, SameItems
  <2>3. e \in Events
    <3>1. o.next \in Indexes /\ <<>> \in Text
      BY <1>1 DEF State, Text, Indexes
    <3> QED BY <3>1, SlotEvents
  <2>4. ~s.added[x] /\ r.added[x]
    BY <1>1, <1>3, <2>2 DEF SameItems, State
  <2> HIDE DEF r, e
  <2> QED BY <2>1, <2>2, <2>3, <2>4, Emitted DEF SameRest, SameItems, Announced
<1> QED BY <1>2, <1>3

\* The state after a delta of x, but for the events.
Pushed(s, t, x, d) ==
  /\ t.started /\ SameRest(s, t) /\ t.added[x]
  /\ t.added = [s.added EXCEPT ![x] = TRUE]
  /\ t.index = IF s.added[x] THEN s.index ELSE [s.index EXCEPT ![x] = s.next]
  /\ t.next = IF s.added[x] THEN s.next ELSE s.next + 1
  /\ t.done = s.done /\ t.text = [s.text EXCEPT ![x] = @ \o d] /\ t.items = s.items

LEMMA ConcatText ==
  ASSUME NEW t \in Text, NEW d \in Text
  PROVE  t \o d \in Text
BY DEF Text

LEMMA PushEffect ==
  ASSUME NEW s \in State, NEW x \in Slots, NEW d \in Text
  PROVE  PushDelta(s, x, d) \in State /\ Pushed(s, PushDelta(s, x, d), x, d)
<1> DEFINE o == Announce(s, x)
           r == [o EXCEPT !.text[x] = @ \o d]
           e == Event("delta", x, o.index[x], d, <<>>)
<1>1. o \in State /\ Announced(s, o, x)
  BY AnnounceEffect
<1>2. PushDelta(s, x, d) = Emit(r, e)
  BY DEF PushDelta
<1> HIDE DEF o
<1>3. o.text[x] \o d \in Text
  BY <1>1, ConcatText DEF State
<1>4. r \in State /\ r.started = o.started /\ SameRest(o, r) /\ r.text = [o.text EXCEPT ![x] = @ \o d]
      /\ r.next = o.next /\ r.added = o.added /\ r.index = o.index /\ r.done = o.done /\ r.items = o.items
  BY <1>1, <1>3 DEF State, SameRest
<1>5. e \in Events
  BY <1>1, SlotEvents DEF State
<1> HIDE DEF r, e
<1>6. r.text = [s.text EXCEPT ![x] = @ \o d]
  BY <1>1, <1>4 DEF Announced
<1>7. Pushed(s, r, x, d)
  BY <1>1, <1>4, <1>6 DEF SameRest, Announced, Pushed
<1>8. /\ Emit(r, e) \in State /\ Emit(r, e).started = r.started
      /\ SameRest(r, Emit(r, e)) /\ SameItems(r, Emit(r, e))
  BY <1>4, <1>5, Emitted
<1> QED BY <1>2, <1>7, <1>8 DEF SameRest, SameItems, Pushed

\* The state after x was closed, but for the events.
Finalized(s, t, x) ==
  /\ t.started = s.started /\ SameRest(s, t)
  /\ t.next = s.next /\ t.added = s.added /\ t.index = s.index /\ t.text = s.text
  /\ t.done = IF s.added[x] THEN [s.done EXCEPT ![x] = TRUE] ELSE s.done
  /\ t.items = IF s.added[x] /\ ~s.done[x] THEN Append(s.items, Closed(s, x)) ELSE s.items

LEMMA FinalTexts ==
  ASSUME NEW s \in State, NEW x \in Slots
  PROVE  FinalText(s, x) \in Text
<1>1. s.text[x] \in Text
  BY DEF State
<1> QED BY <1>1, ReencodedAssumption DEF FinalText, FinalOf, canonicalJSONText

LEMMA FinalizeEffect ==
  ASSUME NEW s \in State, NEW x \in Slots, s.added[x] => s.index[x] \in Nat
  PROVE  Finalize(s, x) \in State /\ Finalized(s, Finalize(s, x), x)
<1>1. CASE ~s.added[x] \/ s.done[x]
  <2>1. Finalize(s, x) = s
    BY <1>1 DEF Finalize
  <2>2. s.added[x] => [s.done EXCEPT ![x] = TRUE] = s.done
    BY <1>1 DEF State
  <2> QED BY <1>1, <2>1, <2>2 DEF Finalized, SameRest
<1>2. CASE s.added[x] /\ ~s.done[x]
  <2> DEFINE r == [s EXCEPT !.done[x] = TRUE, !.items = Append(@, Closed(s, x))]
             e == Event("done", x, s.index[x], FinalText(s, x), <<>>)
  <2>1. Finalize(s, x) = Emit(r, e)
    BY <1>2 DEF Finalize
  <2>2. Closed(s, x) \in Item
    BY <1>2, FinalTexts, SlotKinds DEF Closed, Item
  <2>3. Append(s.items, Closed(s, x)) \in Seq(Item)
    BY <2>2 DEF State
  <2>4. /\ r \in State /\ r.started = s.started /\ SameRest(s, r)
        /\ r.next = s.next /\ r.added = s.added /\ r.index = s.index /\ r.text = s.text
        /\ r.done = [s.done EXCEPT ![x] = TRUE] /\ r.items = Append(s.items, Closed(s, x))
    BY <2>3 DEF State, SameRest
  <2>5. e \in Events
    BY <1>2, SlotEvents, FinalTexts DEF State
  <2> HIDE DEF r, e
  <2> QED BY <1>2, <2>1, <2>4, <2>5, Emitted DEF SameRest, SameItems, Finalized
<1> QED BY <1>1, <1>2

-----------------------------------------------------------------------------
(* The steps a client may see, and what the events yet to be written tell. *)

Loose(u) ==
  (IF u.late THEN {"reasoning"} ELSE {}) \cup (IF u.unnamed THEN {"function_call"} ELSE {})

Fresh(n, kind) == [index |-> n, kind |-> kind, text |-> <<>>, closed |-> FALSE, final |-> <<>>]

ClosedAmong(its) == Picked(its, {i \in DOMAIN its : its[i].closed})

EndedAs(c, type, its) == [c EXCEPT !.phase = type, !.output = Protocol!Finals(its)]

\* A step of ResponsesProtocol, or none, from what a client has made of a stream.
Legal(L, c, d) ==
  \/ d = c
  \/ c.phase = "silent" /\ d = [c EXCEPT !.phase = "open"]
  \/ c.phase = "open" /\ \E kind \in Kinds : d = [c EXCEPT !.items = Append(c.items, Fresh(Len(c.items), kind))]
  \/ \E i \in DOMAIN c.items, tx \in Text :
       /\ c.phase = "open"
       /\ c.items[i].closed => c.items[i].kind \in L
       /\ IsPrefix(c.items[i].text, tx)
       /\ d = [c EXCEPT !.items = [c.items EXCEPT ![i].text = tx]]
  \/ \E i \in DOMAIN c.items, tx \in Text :
       /\ c.phase = "open"
       /\ ~c.items[i].closed
       /\ c.items[i].kind \notin L => tx = FinalOf(c.items[i].kind, c.items[i].text)
       /\ d = [c EXCEPT !.items = [c.items EXCEPT ![i].closed = TRUE, ![i].final = tx]]
  \/ /\ c.phase = "open"
     /\ \A i \in DOMAIN c.items : c.items[i].closed
     /\ d = EndedAs(c, "completed", c.items)
  \/ /\ c.phase \in {"silent", "open"}
     /\ d = EndedAs(c, "failed", ClosedAmong(c.items))

LEMMA SameHelpers ==
  /\ \A s, I : Protocol!Picked(s, I) = Picked(s, I)
  /\ \A s, t : Protocol!IsPrefix(s, t) <=> IsPrefix(s, t)
BY DEF Picked, Protocol!Picked, IsPrefix, Protocol!IsPrefix

LEMMA LegalSteps ==
  ASSUME upstream' = upstream, client \in Client, client' \in Client,
         Legal(Loose(upstream), client, client')
  PROVE  [Protocol!Next]_Protocol!vars
<1> DEFINE L == Loose(upstream)
           c == client
<1>0. /\ L = (IF upstream.late THEN {"reasoning"} ELSE {})
             \cup (IF upstream.unnamed THEN {"function_call"} ELSE {})
      /\ Loose(upstream') = L
  BY DEF Loose
<1>1. CASE client' = client
  BY <1>1 DEF Protocol!vars
<1>2. CASE c.phase = "silent" /\ client' = [c EXCEPT !.phase = "open"]
  <2>1. client'.phase = "open" /\ client'.items = c.items /\ client'.output = c.output
    BY <1>2 DEF Client
  <2>2. Protocol!Start
    BY <1>2, <2>1 DEF Protocol!Start
  <2> QED BY <2>2 DEF Protocol!Next
<1>3. CASE c.phase = "open" /\ \E kind \in Kinds :
              client' = [c EXCEPT !.items = Append(c.items, Fresh(Len(c.items), kind))]
  <2>1. PICK kind \in Kinds : client' = [c EXCEPT !.items = Append(c.items, Fresh(Len(c.items), kind))]
    BY <1>3
  <2>2. /\ client'.phase = c.phase /\ client'.items = Append(c.items, Fresh(Len(c.items), kind))
        /\ client'.output = c.output
    BY <2>1 DEF Client
  <2>3. Protocol!Announce(kind)
    BY <1>3, <2>2 DEF Protocol!Announce, Fresh
  <2> QED BY <2>3 DEF Protocol!Next
<1>4. CASE \E i \in DOMAIN c.items, tx \in Text :
              /\ c.phase = "open"
              /\ c.items[i].closed => c.items[i].kind \in L
              /\ IsPrefix(c.items[i].text, tx)
              /\ client' = [c EXCEPT !.items = [c.items EXCEPT ![i].text = tx]]
  <2>1. PICK i \in DOMAIN c.items, tx \in Text :
              /\ c.phase = "open"
              /\ c.items[i].closed => c.items[i].kind \in L
              /\ IsPrefix(c.items[i].text, tx)
              /\ client' = [c EXCEPT !.items = [c.items EXCEPT ![i].text = tx]]
    BY <1>4
  <2>2. /\ client'.phase = c.phase /\ client'.items = [c.items EXCEPT ![i].text = tx]
        /\ client'.output = c.output
    BY <2>1 DEF Client
  <2>3. c.items[i] \in ClientItem
    BY DEF Client
  <2>4. client'.items[i].text = tx /\ DOMAIN client'.items = DOMAIN c.items
    BY <2>2, <2>3 DEF ClientItem
  <2>5. Protocol!Delta(i)
    <3>1. Protocol!IsPrefix(c.items[i].text, client'.items[i].text)
      BY <2>1, <2>4, SameHelpers
    <3>2. client'.items = [c.items EXCEPT ![i].text = client'.items[i].text]
      BY <2>2, <2>4
    <3> QED BY <1>0, <2>1, <2>2, <2>4, <3>1, <3>2 DEF Protocol!Delta
  <2> QED BY <2>5 DEF Protocol!Next
<1>5. CASE \E i \in DOMAIN c.items, tx \in Text :
              /\ c.phase = "open"
              /\ ~c.items[i].closed
              /\ c.items[i].kind \notin L => tx = FinalOf(c.items[i].kind, c.items[i].text)
              /\ client' = [c EXCEPT !.items = [c.items EXCEPT ![i].closed = TRUE, ![i].final = tx]]
  <2>1. PICK i \in DOMAIN c.items, tx \in Text :
              /\ c.phase = "open"
              /\ ~c.items[i].closed
              /\ c.items[i].kind \notin L => tx = FinalOf(c.items[i].kind, c.items[i].text)
              /\ client' = [c EXCEPT !.items = [c.items EXCEPT ![i].closed = TRUE, ![i].final = tx]]
    BY <1>5
  <2>2. /\ client'.phase = c.phase /\ client'.items = [c.items EXCEPT ![i].closed = TRUE, ![i].final = tx]
        /\ client'.output = c.output
    BY <2>1 DEF Client
  <2>3. c.items[i] \in ClientItem
    BY DEF Client
  <2>4. client'.items[i].final = tx /\ DOMAIN client'.items = DOMAIN c.items
    BY <2>2, <2>3 DEF ClientItem
  <2>5. Protocol!Close(i)
    BY <2>1, <2>2, <2>4 DEF Protocol!Close, Loose
  <2> QED BY <2>5 DEF Protocol!Next
<1>6. CASE /\ c.phase = "open"
           /\ \A i \in DOMAIN c.items : c.items[i].closed
           /\ client' = EndedAs(c, "completed", c.items)
  <2>1. client'.phase = "completed" /\ client'.items = c.items /\ client'.output = Protocol!Finals(c.items)
    BY <1>6 DEF Client, EndedAs
  <2>2. Protocol!Complete
    BY <1>6, <2>1 DEF Protocol!Complete
  <2> QED BY <2>2 DEF Protocol!Next
<1>7. CASE /\ c.phase \in {"silent", "open"}
           /\ client' = EndedAs(c, "failed", ClosedAmong(c.items))
  <2>1. /\ client'.phase = "failed" /\ client'.items = c.items
        /\ client'.output = Protocol!Finals(Picked(c.items, {i \in DOMAIN c.items : c.items[i].closed}))
    BY <1>7 DEF Client, EndedAs, ClosedAmong
  <2>2. Protocol!Fail
    BY <1>0, <1>7, <2>1, SameHelpers DEF Protocol!Fail
  <2> QED BY <2>2 DEF Protocol!Next
<1> QED BY <1>1, <1>2, <1>3, <1>4, <1>5, <1>6, <1>7 DEF Legal

\* A client c that hears all of es is left as k, and each event is a step it may see.
Tells(L, c, es, k) ==
  \E run : /\ DOMAIN run = 0..Len(es) /\ run[0] = c /\ run[Len(es)] = k
           /\ \A n \in 0..Len(es) : run[n] \in Client
           /\ \A n \in 1..Len(es) : run[n] = Hears(run[n - 1], es[n]) /\ Legal(L, run[n - 1], run[n])

LEMMA TellsNothing ==
  ASSUME NEW L, NEW c \in Client, NEW k
  PROVE  Tells(L, c, <<>>, k) <=> k = c
<1> DEFINE run == [n \in {0} |-> c]
<1>1. Len(<<>>) = 0
  OBVIOUS
<1>2. ASSUME k = c PROVE Tells(L, c, <<>>, k)
  <2>1. DOMAIN run = 0..0 /\ run[0] = c
    OBVIOUS
  <2> HIDE DEF run
  <2> QED BY <1>1, <1>2, <2>1 DEF Tells
<1> QED BY <1>1, <1>2 DEF Tells

LEMMA TellsMore ==
  ASSUME NEW L, NEW c, NEW es \in Seq(Events), NEW k, Tells(L, c, es, k),
         NEW e \in Events, Hears(k, e) \in Client, Legal(L, k, Hears(k, e))
  PROVE  Tells(L, c, Append(es, e), Hears(k, e))
<1>1. PICK run : /\ DOMAIN run = 0..Len(es) /\ run[0] = c /\ run[Len(es)] = k
                 /\ \A n \in 0..Len(es) : run[n] \in Client
                 /\ \A n \in 1..Len(es) : run[n] = Hears(run[n - 1], es[n]) /\ Legal(L, run[n - 1], run[n])
  BY DEF Tells
<1> DEFINE m == Len(es) + 1
           more == [n \in 0..m |-> IF n = m THEN Hears(k, e) ELSE run[n]]
           all == Append(es, e)
<1>2. Len(es) \in Nat /\ Len(all) = m /\ all[m] = e /\ \A n \in 1..Len(es) : all[n] = es[n]
  OBVIOUS
<1>3. DOMAIN more = 0..m /\ more[0] = c /\ more[m] = Hears(k, e)
  BY <1>1, <1>2
<1>4. \A n \in 0..m : more[n] \in Client
  BY <1>1, <1>2
<1>5. ASSUME NEW n \in 1..m
      PROVE  more[n] = Hears(more[n - 1], all[n]) /\ Legal(L, more[n - 1], more[n])
  <2>1. CASE n = m
    <3>1. more[n - 1] = k /\ more[n] = Hears(k, e) /\ all[n] = e
      BY <1>1, <1>2, <2>1
    <3> HIDE DEF more, all
    <3> QED BY <3>1
  <2>2. CASE n # m
    <3>1. n \in 1..Len(es) /\ more[n - 1] = run[n - 1] /\ more[n] = run[n] /\ all[n] = es[n]
      BY <1>2, <2>2
    <3> HIDE DEF more, all
    <3> QED BY <1>1, <3>1
  <2> QED BY <2>1, <2>2
<1> HIDE DEF more, all, m
<1>6. Tells(L, c, all, more[m])
  BY <1>2, <1>3, <1>4, <1>5 DEF Tells
<1> QED BY <1>3, <1>6 DEF all

LEMMA TellsFirst ==
  ASSUME NEW L, NEW c, NEW es \in Seq(Events), NEW k, Tells(L, c, es, k), es # <<>>
  PROVE  /\ Hears(c, Head(es)) \in Client /\ Legal(L, c, Hears(c, Head(es)))
         /\ Tail(es) \in Seq(Events) /\ Tells(L, Hears(c, Head(es)), Tail(es), k)
<1>1. PICK run : /\ DOMAIN run = 0..Len(es) /\ run[0] = c /\ run[Len(es)] = k
                 /\ \A n \in 0..Len(es) : run[n] \in Client
                 /\ \A n \in 1..Len(es) : run[n] = Hears(run[n - 1], es[n]) /\ Legal(L, run[n - 1], run[n])
  BY DEF Tells
<1>2. /\ Len(es) \in Nat /\ Len(es) >= 1 /\ Head(es) = es[1] /\ Tail(es) \in Seq(Events)
      /\ Len(Tail(es)) = Len(es) - 1 /\ \A n \in 1..(Len(es) - 1) : Tail(es)[n] = es[n + 1]
  OBVIOUS
<1>3. run[1] = Hears(c, Head(es)) /\ run[1] \in Client /\ Legal(L, c, run[1])
  <2>1. 1 \in 1..Len(es) /\ 1 \in 0..Len(es) /\ 1 - 1 = 0
    BY <1>2
  <2> QED BY <1>1, <1>2, <2>1
<1> DEFINE rest == [n \in 0..(Len(es) - 1) |-> run[n + 1]]
<1>4. /\ DOMAIN rest = 0..(Len(es) - 1) /\ rest[0] = run[1] /\ rest[Len(es) - 1] = k
      /\ \A n \in 0..(Len(es) - 1) : rest[n] \in Client
  BY <1>1, <1>2
<1>5. ASSUME NEW n \in 1..(Len(es) - 1)
      PROVE  rest[n] = Hears(rest[n - 1], Tail(es)[n]) /\ Legal(L, rest[n - 1], rest[n])
  <2>1. n + 1 \in 1..Len(es) /\ (n + 1) - 1 = n /\ Tail(es)[n] = es[n + 1]
    BY <1>2
  <2>2. rest[n] = run[n + 1] /\ rest[n - 1] = run[n]
    BY <1>2
  <2> HIDE DEF rest
  <2> QED BY <1>1, <2>1, <2>2
<1> HIDE DEF rest
<1>6. Tells(L, run[1], Tail(es), k)
  BY <1>2, <1>4, <1>5 DEF Tells
<1> QED BY <1>2, <1>3, <1>6

-----------------------------------------------------------------------------
(* What a client makes of each event.                                      *)

\* Items have their places.
Numbered(its) == \A i \in DOMAIN its : its[i].index = i - 1

LEMMA HearsAdded ==
  ASSUME NEW k \in Client, NEW x \in Slots, NEW n \in Nat
  PROVE  Hears(k, Event("added", x, n, <<>>, <<>>))
           = [k EXCEPT !.items = Append(k.items, Fresh(n, KindOf(x)))]
BY DEF Hears, Event, ItemsAfter, NewItem, Fresh

WithItems(k, its) == [k EXCEPT !.items = its]

Retold(its, i, tx) == [its EXCEPT ![i].text = tx]

Ended(its, i, tx) == [its EXCEPT ![i].closed = TRUE, ![i].final = tx]

LEMMA HearsDelta ==
  ASSUME NEW k \in Client, NEW x \in Slots, NEW n \in Nat, n + 1 \in DOMAIN k.items, NEW d \in Text,
         Numbered(k.items)
  PROVE  Hears(k, Event("delta", x, n, d, <<>>))
           = WithItems(k, Retold(k.items, n + 1, k.items[n + 1].text \o d))
<1> DEFINE i == n + 1
           e == Event("delta", x, n, d, <<>>)
           tx == k.items[i].text \o d
<1>1. e.type = "delta" /\ e.kind = x /\ e.index = n /\ e.text = d
  BY DEF Event
<1>2. Hears(k, e) = [k EXCEPT !.items = ItemsAfter(k.items, e)]
  BY <1>1 DEF Hears
<1>3. k.items \in Seq(ClientItem) /\ DOMAIN k.items = 1..Len(k.items) /\ Len(k.items) \in Nat
  BY DEF Client
<1>4. ItemsAfter(k.items, e) = [j \in DOMAIN k.items |-> ItemAfter(k.items[j], e)]
  <2>1. k.items[i].index = e.index
    BY <1>1 DEF Numbered
  <2> QED BY <1>1, <2>1 DEF ItemsAfter
<1>5. ASSUME NEW j \in DOMAIN k.items
      PROVE  ItemAfter(k.items[j], e) = [k.items EXCEPT ![i].text = tx][j]
  <2>1. k.items[j] \in ClientItem /\ k.items[j].index = j - 1 /\ j \in Nat
    BY <1>3 DEF Numbered
  <2>2. CASE j = i
    <3>1. k.items[j].index = e.index
      BY <1>1, <2>1, <2>2
    <3>2. ItemAfter(k.items[j], e) = [k.items[j] EXCEPT !.text = k.items[j].text \o d]
      BY <1>1, <3>1 DEF ItemAfter
    <3> QED BY <2>1, <2>2, <3>2
  <2>3. CASE j # i
    <3>1. k.items[j].index # e.index
      BY <1>1, <2>1, <2>3
    <3>2. ItemAfter(k.items[j], e) = k.items[j]
      BY <3>1 DEF ItemAfter
    <3> QED BY <2>3, <3>2
  <2> QED BY <2>2, <2>3
<1> HIDE DEF e, tx
<1>6. [j \in DOMAIN k.items |-> ItemAfter(k.items[j], e)] = [k.items EXCEPT ![i].text = tx]
  BY <1>5
<1> QED BY <1>2, <1>4, <1>6 DEF e, tx, WithItems, Retold

LEMMA HearsDone ==
  ASSUME NEW k \in Client, NEW x \in Slots, NEW n \in Nat, n + 1 \in DOMAIN k.items, NEW d \in Text,
         Numbered(k.items), k.items[n + 1].final = <<>>
  PROVE  Hears(k, Event("done", x, n, d, <<>>))
           = WithItems(k, Ended(k.items, n + 1, d))
<1> DEFINE i == n + 1
           e == Event("done", x, n, d, <<>>)
           tx == d
           its == [k.items EXCEPT ![i].closed = TRUE, ![i].final = tx]
<1>1. e.type = "done" /\ e.kind = x /\ e.index = n /\ e.text = d
  BY DEF Event
<1>2. Hears(k, e) = [k EXCEPT !.items = ItemsAfter(k.items, e)]
  BY <1>1 DEF Hears
<1>3. k.items \in Seq(ClientItem) /\ DOMAIN k.items = 1..Len(k.items) /\ Len(k.items) \in Nat
  BY DEF Client
<1>4. ItemsAfter(k.items, e) = [j \in DOMAIN k.items |-> ItemAfter(k.items[j], e)]
  <2>1. k.items[i].index = e.index
    BY <1>1 DEF Numbered
  <2> QED BY <1>1, <2>1 DEF ItemsAfter
<1>5. tx \in Seq(Piece) /\ k.items[i].final \o tx = tx
  <2>1. tx \in Seq(Piece)
    BY DEF Text
  <2> HIDE DEF tx
  <2> QED BY <2>1
<1>6. ASSUME NEW j \in DOMAIN k.items
      PROVE  ItemAfter(k.items[j], e) = its[j]
  <2>1. k.items[j] \in ClientItem /\ k.items[j].index = j - 1 /\ j \in Nat
    BY <1>3 DEF Numbered
  <2>2. CASE j = i
    <3>0. k.items[j].index = e.index
      BY <1>1, <2>1, <2>2
    <3>1. ItemAfter(k.items[j], e)
            = [k.items[j] EXCEPT !.closed = TRUE, !.final = k.items[j].final \o tx]
      BY <1>1, <3>0 DEF ItemAfter
    <3>2. ItemAfter(k.items[j], e) = [k.items[i] EXCEPT !.closed = TRUE, !.final = tx]
      BY <1>5, <2>2, <3>1
    <3>3. its[i] = [k.items[i] EXCEPT !.closed = TRUE, !.final = tx]
      BY <2>1, <2>2 DEF ClientItem
    <3> QED BY <2>2, <3>2, <3>3
  <2>3. CASE j # i
    <3>1. k.items[j].index # e.index
      BY <1>1, <2>1, <2>3
    <3>2. ItemAfter(k.items[j], e) = k.items[j]
      BY <3>1 DEF ItemAfter
    <3> QED BY <2>3, <3>2
  <2> QED BY <2>2, <2>3
<1>7. DOMAIN its = DOMAIN k.items /\ its = [j \in DOMAIN k.items |-> its[j]]
  OBVIOUS
<1> HIDE DEF e, tx, its
<1>8. [j \in DOMAIN k.items |-> ItemAfter(k.items[j], e)] = its
  BY <1>6, <1>7
<1> QED BY <1>2, <1>4, <1>8 DEF e, tx, its, WithItems, Ended

-----------------------------------------------------------------------------
(* A client that has heard all events knows the state of the stream.       *)

\* The items of a client k, and where the state has them.
Placed(s, k) ==
  /\ Len(k.items) = s.next
  /\ Numbered(k.items)
  /\ \A x \in Slots : s.added[x] => s.index[x] \in Nat /\ s.index[x] < s.next
  /\ \A x, y \in Slots : s.added[x] /\ s.added[y] /\ s.index[x] = s.index[y] => x = y
  /\ \A i \in 1..s.next : \E x \in Slots : s.added[x] /\ s.index[x] = i - 1

\* What it knows of them.  A loose one may have told less.
Shown(L, s, texts, k) ==
  \A x \in Slots :
    IF s.added[x]
    THEN LET it == k.items[s.index[x] + 1] IN
         /\ it.kind = KindOf(x)
         /\ it.closed = s.done[x]
         /\ it.closed \/ it.final = <<>>
         /\ KindOf(x) \notin L => it.text = texts[x]
    ELSE ~s.done[x] /\ (KindOf(x) \notin L => texts[x] = <<>>)

\* Those it knows to be closed are the ones that are kept for the last event.
Kept(s, k) ==
  /\ \A n \in DOMAIN s.items :
       /\ s.items[n].index < s.next
       /\ LET it == k.items[s.items[n].index + 1] IN
          /\ it.closed /\ it.kind = s.items[n].kind
          /\ it.final = s.items[n].text
  /\ \A i \in DOMAIN k.items : k.items[i].closed => \E n \in DOMAIN s.items : s.items[n].index = i - 1

Fits(L, s, texts, k) ==
  /\ k \in Client
  /\ IF s.completed THEN Over(k.phase) ELSE k.phase = IF s.started THEN "open" ELSE "silent"
  /\ Placed(s, k) /\ Shown(L, s, texts, k) /\ Kept(s, k)

\* What a client c will make of the events yet to be written, it may, and fits.
SoundBut(L, c, s, texts) == \E k : Tells(L, c, s.events, k) /\ Fits(L, s, texts, k)

Sound(L, c, s) == SoundBut(L, c, s, s.text)

LEMMA StartedSound ==
  ASSUME NEW L, NEW c, NEW s \in State, NEW texts, SoundBut(L, c, s, texts), ~s.completed
  PROVE  SoundBut(L, c, ensureStarted(s), texts)
<1>1. CASE s.started
  BY <1>1 DEF ensureStarted
<1>2. CASE ~s.started
  <2> DEFINE r == [s EXCEPT !.started = TRUE]
             e == Notice("created", <<>>)
  <2>1. ensureStarted(s) = Emit(r, e)
    BY <1>2 DEF ensureStarted
  <2>2. r \in State /\ r.started /\ SameRest(s, r) /\ SameItems(s, r) /\ r.events = s.events
    BY DEF State, SameRest, SameItems
  <2>3. e \in Events /\ e.type = "created"
    <3>1. <<>> \in Seq(Out)
      OBVIOUS
    <3> QED BY <3>1, NoticeEvents
  <2> HIDE DEF r, e
  <2>4. PICK k : Tells(L, c, s.events, k) /\ Fits(L, s, texts, k)
    BY DEF SoundBut
  <2>5. k \in Client /\ k.phase = "silent"
    BY <1>2, <2>4 DEF Fits
  <2> DEFINE m == [k EXCEPT !.phase = "open"]
  <2>6. Hears(k, e) = m
    BY <2>3, <2>5 DEF Hears, Client
  <2>7. m \in Client /\ m.phase = "open" /\ m.items = k.items
    BY <2>5 DEF Client
  <2>8. Legal(L, k, m)
    BY <2>5 DEF Legal
  <2> HIDE DEF m
  <2>9. Tells(L, c, Append(s.events, e), m)
    <3>1. s.events \in Seq(Events)
      BY DEF State
    <3> QED BY <2>3, <2>4, <2>6, <2>7, <2>8, <3>1, TellsMore
  <2>10. /\ Emit(r, e).events = Append(s.events, e) /\ Emit(r, e).started
         /\ Emit(r, e).completed = s.completed /\ SameItems(s, Emit(r, e))
    BY <2>2, <2>3, Emitted DEF SameRest, SameItems
  <2>11. Placed(Emit(r, e), m) /\ Shown(L, Emit(r, e), texts, m) /\ Kept(Emit(r, e), m)
    BY <2>4, <2>7, <2>10 DEF Fits, Placed, Shown, Kept, SameItems
  <2>12. Fits(L, Emit(r, e), texts, m)
    BY <2>7, <2>10, <2>11 DEF Fits
  <2> QED BY <2>1, <2>9, <2>10, <2>12 DEF SoundBut
<1> QED BY <1>1, <1>2

Texts == [Slots -> Text]

LEMMA AnnounceSound ==
  ASSUME NEW L, NEW c, NEW s \in State, NEW texts \in Texts, SoundBut(L, c, s, texts), ~s.completed,
         NEW x \in Slots
  PROVE  SoundBut(L, c, Announce(s, x), texts)
<1> DEFINE o == ensureStarted(s)
<1>1. o \in State /\ o.started /\ ~o.completed /\ SoundBut(L, c, o, texts)
  BY StartedEffect, StartedSound DEF SameRest
<1>2. CASE o.added[x]
  BY <1>1, <1>2 DEF Announce
<1>3. CASE ~o.added[x]
  <2> DEFINE r == [o EXCEPT !.added[x] = TRUE, !.index[x] = o.next, !.next = @ + 1]
             e == Event("added", x, o.next, <<>>, <<>>)
             t == Emit(r, e)
  <2>1. Announce(s, x) = t
    BY <1>3 DEF Announce
  <2> HIDE DEF o
  <2>2. /\ r \in State /\ r.started /\ ~r.completed /\ r.events = o.events
        /\ r.added = [o.added EXCEPT ![x] = TRUE] /\ r.index = [o.index EXCEPT ![x] = o.next]
        /\ r.next = o.next + 1 /\ r.done = o.done /\ r.items = o.items
    <3> DEFINE a == [o.added EXCEPT ![x] = TRUE]
               i == [o.index EXCEPT ![x] = o.next]
    <3>1. r = [o EXCEPT !.added = a, !.index = i, !.next = o.next + 1]
      BY <1>1 DEF State
    <3>2. a \in [Slots -> BOOLEAN] /\ i \in [Slots -> Indexes] /\ o.next + 1 \in Nat
      BY <1>1 DEF State, Indexes
    <3> HIDE DEF a, i, r
    <3>3. /\ r \in State /\ r.started = o.started /\ r.completed = o.completed /\ r.events = o.events
          /\ r.added = a /\ r.index = i /\ r.next = o.next + 1 /\ r.done = o.done /\ r.items = o.items
      BY <1>1, <3>1, <3>2 DEF State
    <3> QED BY <1>1, <3>3 DEF a, i
  <2>3. e \in Events
    <3>1. o.next \in Indexes /\ <<>> \in Text
      BY <1>1 DEF State, Text, Indexes
    <3> QED BY <3>1, SlotEvents
  <2> HIDE DEF r
  <2>4. PICK k : Tells(L, c, o.events, k) /\ Fits(L, o, texts, k)
    BY <1>1 DEF SoundBut
  <2>5. /\ k \in Client /\ k.phase = "open" /\ o.next \in Nat /\ Len(k.items) = o.next
        /\ k.items \in Seq(ClientItem) /\ Placed(o, k) /\ Shown(L, o, texts, k) /\ Kept(o, k)
    BY <1>1, <2>4 DEF Fits, Placed, State, Client
  <2> DEFINE f == Fresh(o.next, KindOf(x))
             its == Append(k.items, f)
             m == [k EXCEPT !.items = its]
  <2>6. f \in ClientItem
    BY <2>5, SlotKinds DEF Fresh, ClientItem, Text
  <2>7. /\ its \in Seq(ClientItem) /\ Len(its) = o.next + 1 /\ its[o.next + 1] = f
        /\ \A i \in 1..o.next : its[i] = k.items[i]
        /\ DOMAIN its = 1..(o.next + 1) /\ DOMAIN k.items = 1..o.next
    <3> HIDE DEF f
    <3> QED BY <2>5, <2>6
  <2>8. Hears(k, e) = m
    BY <2>5, HearsAdded
  <2>9. f.index = o.next /\ f.kind = KindOf(x) /\ f.closed = FALSE /\ f.text = <<>> /\ f.final = <<>>
    BY DEF Fresh
  <2>10. Legal(L, k, m)
    <3>1. KindOf(x) \in Kinds /\ m = [k EXCEPT !.items = Append(k.items, Fresh(Len(k.items), KindOf(x)))]
      BY <2>5, SlotKinds
    <3> HIDE DEF m
    <3> QED BY <2>5, <3>1 DEF Legal
  <2> HIDE DEF its, f
  <2>11. m \in Client /\ m.phase = "open" /\ m.items = its
    BY <2>5, <2>7 DEF Client
  <2> HIDE DEF m, e
  <2>12. /\ t.events = Append(o.events, e) /\ t.started /\ ~t.completed
         /\ t.added = [o.added EXCEPT ![x] = TRUE] /\ t.index = [o.index EXCEPT ![x] = o.next]
         /\ t.next = o.next + 1 /\ t.done = o.done /\ t.items = o.items
    BY <2>2, <2>3, Emitted DEF SameRest, SameItems
  <2>13. Tells(L, c, t.events, m)
    <3>1. o.events \in Seq(Events)
      BY <1>1 DEF State
    <3> HIDE DEF t
    <3> QED BY <2>3, <2>4, <2>8, <2>10, <2>11, <2>12, <3>1, TellsMore
  <2> HIDE DEF t
  <2>14. /\ t.added[x] /\ t.index[x] = o.next
         /\ \A y \in Slots : y # x => t.added[y] = o.added[y] /\ t.index[y] = o.index[y]
    BY <1>1, <2>12 DEF State
  <2>15. Placed(t, m)
    <3>1. Numbered(its)
      <4>1. ASSUME NEW i \in DOMAIN its PROVE its[i].index = i - 1
        <5>1. CASE i = o.next + 1
          BY <2>5, <2>7, <2>9, <5>1
        <5>2. CASE i # o.next + 1
          <6>1. i \in 1..o.next /\ its[i] = k.items[i]
            BY <2>5, <2>7, <5>2
          <6> QED BY <2>5, <2>7, <6>1 DEF Placed, Numbered
        <5> QED BY <5>1, <5>2
      <4> QED BY <4>1 DEF Numbered
    <3>2. \A y \in Slots : t.added[y] => t.index[y] \in Nat /\ t.index[y] < t.next
      BY <2>5, <2>12, <2>14 DEF Placed
    <3>3. \A y, z \in Slots : t.added[y] /\ t.added[z] /\ t.index[y] = t.index[z] => y = z
      BY <2>5, <2>14 DEF Placed
    <3>4. ASSUME NEW i \in 1..t.next PROVE \E y \in Slots : t.added[y] /\ t.index[y] = i - 1
      <4>1. CASE i = o.next + 1
        BY <2>5, <2>14, <4>1
      <4>2. CASE i # o.next + 1
        <5>1. i \in 1..o.next
          BY <2>5, <2>12, <4>2
        <5>2. PICK y \in Slots : o.added[y] /\ o.index[y] = i - 1
          BY <2>5, <5>1 DEF Placed
        <5> QED BY <1>3, <2>14, <5>2
      <4> QED BY <4>1, <4>2
    <3> QED BY <2>7, <2>11, <2>12, <3>1, <3>2, <3>3, <3>4 DEF Placed
  <2>16. Shown(L, t, texts, m)
    <3>1. ASSUME NEW y \in Slots, t.added[y]
          PROVE  LET it == m.items[t.index[y] + 1] IN
                 /\ it.kind = KindOf(y)
                 /\ it.closed = t.done[y]
                 /\ it.closed \/ it.final = <<>>
                 /\ KindOf(y) \notin L => it.text = texts[y]
      <4>1. CASE y = x
        <5>1. m.items[t.index[y] + 1] = f
          BY <2>7, <2>11, <2>14, <4>1
        <5>2. ~o.done[x] /\ (KindOf(x) \notin L => texts[x] = <<>>)
          BY <1>3, <2>5 DEF Shown
        <5>3. o.done[x] \in BOOLEAN
          BY <1>1 DEF State
        <5> QED BY <2>9, <2>12, <4>1, <5>1, <5>2, <5>3
      <4>2. CASE y # x
        <5>1. o.added[y] /\ t.index[y] = o.index[y] /\ o.index[y] + 1 \in 1..o.next
          BY <2>5, <2>14, <3>1, <4>2 DEF Placed
        <5>2. m.items[t.index[y] + 1] = k.items[o.index[y] + 1]
          BY <2>7, <2>11, <5>1
        <5> QED BY <2>5, <2>12, <5>1, <5>2 DEF Shown
      <4> QED BY <4>1, <4>2
    <3>2. ASSUME NEW y \in Slots, ~t.added[y]
          PROVE  ~t.done[y] /\ (KindOf(y) \notin L => texts[y] = <<>>)
      BY <2>5, <2>12, <2>14, <3>2 DEF Shown
    <3> QED BY <3>1, <3>2 DEF Shown
  <2>17. Kept(t, m)
    <3>0. o.items \in Seq(Item)
      BY <1>1 DEF State
    <3>1. ASSUME NEW n \in DOMAIN t.items
          PROVE  /\ t.items[n].index < t.next
                 /\ LET it == m.items[t.items[n].index + 1] IN
                    /\ it.closed /\ it.kind = t.items[n].kind
                    /\ it.final = t.items[n].text
      <4>1. n \in DOMAIN o.items /\ t.items[n] = o.items[n] /\ o.items[n] \in Item
        BY <2>12, <3>0
      <4>2. o.items[n].index \in Nat /\ o.items[n].index < o.next
        BY <2>5, <4>1 DEF Kept, Item
      <4>3. m.items[t.items[n].index + 1] = k.items[o.items[n].index + 1]
        BY <2>5, <2>7, <2>11, <4>1, <4>2
      <4> QED BY <2>5, <2>12, <4>1, <4>2, <4>3 DEF Kept
    <3>2. ASSUME NEW i \in DOMAIN m.items, m.items[i].closed
          PROVE  \E n \in DOMAIN t.items : t.items[n].index = i - 1
      <4>1. i \in 1..o.next /\ m.items[i] = k.items[i]
        BY <2>5, <2>7, <2>9, <2>11, <3>2
      <4> QED BY <2>5, <2>7, <2>12, <3>2, <4>1 DEF Kept
    <3> QED BY <3>1, <3>2 DEF Kept
  <2>18. Fits(L, t, texts, m)
    BY <2>11, <2>12, <2>15, <2>16, <2>17 DEF Fits
  <2> QED BY <2>1, <2>13, <2>18 DEF SoundBut
<1> QED BY <1>2, <1>3

\* A delta of x, by a state r that is s but for what is no part of its layout.
SameLayout(s, r) ==
  r.events = s.events /\ r.started = s.started /\ r.completed = s.completed /\ r.next = s.next
    /\ r.added = s.added /\ r.index = s.index /\ r.done = s.done /\ r.items = s.items

More(texts, x, d) == [texts EXCEPT ![x] = @ \o d]

LEMMA DeltaSound ==
  ASSUME NEW L, NEW c, NEW s \in State, NEW texts \in Texts, SoundBut(L, c, s, texts), ~s.completed,
         s.started, NEW x \in Slots, s.added[x], s.done[x] => KindOf(x) \in L, NEW d \in Text,
         NEW r \in State, SameLayout(s, r)
  PROVE  SoundBut(L, c, Emit(r, Event("delta", x, s.index[x], d, <<>>)), More(texts, x, d))
<1> DEFINE e == Event("delta", x, s.index[x], d, <<>>)
           t == Emit(r, e)
           new == More(texts, x, d)
<1>1. PICK k : Tells(L, c, s.events, k) /\ Fits(L, s, texts, k)
  BY DEF SoundBut
<1>2. /\ k \in Client /\ k.phase = "open" /\ s.next \in Nat /\ Len(k.items) = s.next
      /\ k.items \in Seq(ClientItem) /\ Placed(s, k) /\ Shown(L, s, texts, k) /\ Kept(s, k)
      /\ DOMAIN k.items = 1..s.next
  BY <1>1 DEF Fits, Placed, State, Client
<1> DEFINE i == s.index[x] + 1
           tx == k.items[i].text \o d
           its == Retold(k.items, i, tx)
           m == WithItems(k, its)
<1>3. i \in DOMAIN k.items /\ s.index[x] = i - 1 /\ s.index[x] \in Indexes /\ Numbered(k.items)
  BY <1>2 DEF Placed, State, Indexes
<1>4. k.items[i].kind = KindOf(x) /\ k.items[i].closed = s.done[x] /\ k.items[i] \in ClientItem
  BY <1>2, <1>3 DEF Shown
<1>5. d \in Text /\ k.items[i].text \in Text /\ tx \in Text
  BY <1>4, ConcatText DEF ClientItem
<1>6. Hears(k, e) = m
  <2>1. s.index[x] \in Nat
    BY <1>2 DEF Placed
  <2> QED BY <1>2, <1>3, <2>1, HearsDelta
<1>7. IsPrefix(k.items[i].text, tx)
  <2> DEFINE a == k.items[i].text
             b == d
  <2>1. a \in Seq(Piece) /\ b \in Seq(Piece)
    BY <1>5 DEF Text
  <2> HIDE DEF a, b
  <2>2. Len(a) <= Len(a \o b) /\ SubSeq(a, 1, Len(a)) = SubSeq(a \o b, 1, Len(a))
    BY <2>1
  <2> QED BY <2>2 DEF IsPrefix, a, b
<1> HIDE DEF tx, i
<1>8. /\ its \in Seq(ClientItem) /\ Len(its) = s.next /\ DOMAIN its = DOMAIN k.items
      /\ its[i] = [k.items[i] EXCEPT !.text = tx]
      /\ \A j \in DOMAIN k.items : j # i => its[j] = k.items[j]
  <2>1. [k.items[i] EXCEPT !.text = tx] \in ClientItem
    BY <1>4, <1>5 DEF ClientItem
  <2> QED BY <1>2, <1>3, <2>1 DEF Retold
<1>9. Legal(L, k, m)
  <2>1. k.items[i].closed => k.items[i].kind \in L
    BY <1>4
  <2> HIDE DEF m
  <2>2. m = [k EXCEPT !.items = [k.items EXCEPT ![i].text = tx]]
    BY DEF m, WithItems, Retold
  <2> QED BY <1>2, <1>3, <1>5, <1>7, <2>1, <2>2 DEF Legal
<1> HIDE DEF its
<1>10. m \in Client /\ m.phase = "open" /\ m.items = its
  BY <1>2, <1>8 DEF Client, WithItems
<1>11. e \in Events
  BY <1>3, SlotEvents
<1> HIDE DEF m, e
<1>12. /\ t.events = Append(s.events, e) /\ t.started /\ ~t.completed
       /\ t.added = s.added /\ t.index = s.index
       /\ t.next = s.next /\ t.done = s.done /\ t.items = s.items
  <2>1. /\ t.events = Append(r.events, e) /\ t.started = r.started
        /\ SameRest(r, t) /\ SameItems(r, t)
    BY <1>11, Emitted
  <2> HIDE DEF t
  <2> QED BY <2>1 DEF SameRest, SameItems, SameLayout
<1> HIDE DEF t
<1>13. Tells(L, c, t.events, m)
  <2>1. s.events \in Seq(Events)
    BY DEF State
  <2> QED BY <1>1, <1>6, <1>9, <1>10, <1>11, <1>12, <2>1, TellsMore
<1>14. its[i].text = tx /\ \A j \in DOMAIN k.items :
          its[j].index = k.items[j].index /\ its[j].kind = k.items[j].kind
          /\ its[j].closed = k.items[j].closed /\ its[j].final = k.items[j].final
          /\ (j # i => its[j].text = k.items[j].text)
  BY <1>3, <1>4, <1>8 DEF ClientItem
<1>15. Placed(t, m)
  <2>1. Numbered(its)
    BY <1>3, <1>8, <1>14 DEF Numbered
  <2> QED BY <1>2, <1>8, <1>10, <1>12, <2>1 DEF Placed
<1>16. Shown(L, t, new, m)
  <2>0. new[x] = texts[x] \o d /\ \A y \in Slots : y # x => new[y] = texts[y]
    BY DEF Texts, More
  <2> HIDE DEF new
  <2>1. ASSUME NEW y \in Slots, t.added[y]
        PROVE  LET it == m.items[t.index[y] + 1] IN
               /\ it.kind = KindOf(y)
               /\ it.closed = t.done[y]
               /\ it.closed \/ it.final = <<>>
               /\ KindOf(y) \notin L => it.text = new[y]
    <3> DEFINE j == s.index[y] + 1
    <3>1. j \in DOMAIN k.items /\ m.items[t.index[y] + 1] = its[j]
      BY <1>2, <1>10, <1>12, <2>1 DEF Placed
    <3>2. /\ k.items[j].kind = KindOf(y)
          /\ k.items[j].closed = s.done[y]
          /\ k.items[j].closed \/ k.items[j].final = <<>>
          /\ KindOf(y) \notin L => k.items[j].text = texts[y]
      BY <1>2, <1>12, <2>1 DEF Shown
    <3>3. KindOf(y) \notin L => its[j].text = new[y]
      <4>1. CASE y = x
        <5>1. its[j].text = tx /\ new[y] = texts[x] \o d /\ texts[x] \in Text
          BY <1>14, <2>0, <4>1 DEF i, Texts
        <5>2. tx = k.items[j].text \o d
          BY <4>1 DEF tx, i
        <5> HIDE DEF j
        <5> QED BY <3>2, <4>1, <5>1, <5>2
      <4>2. CASE y # x
        <5>1. j # i
          BY <1>2, <1>12, <2>1, <4>2 DEF Placed, i
        <5> HIDE DEF j
        <5> QED BY <1>14, <2>0, <3>1, <3>2, <4>2, <5>1
      <4> QED BY <4>1, <4>2
    <3> HIDE DEF j
    <3> QED BY <1>12, <1>14, <3>1, <3>2, <3>3
  <2>2. ASSUME NEW y \in Slots, ~t.added[y]
        PROVE  ~t.done[y] /\ (KindOf(y) \notin L => new[y] = <<>>)
    BY <1>2, <1>12, <2>0, <2>2 DEF Shown
  <2> QED BY <2>1, <2>2 DEF Shown
<1>17. Kept(t, m)
  <2>0. s.items \in Seq(Item)
    BY DEF State
  <2>1. ASSUME NEW n \in DOMAIN t.items
        PROVE  /\ t.items[n].index < t.next
               /\ LET it == m.items[t.items[n].index + 1] IN
                  /\ it.closed /\ it.kind = t.items[n].kind
                  /\ it.final = t.items[n].text
    <3>1. n \in DOMAIN s.items /\ t.items[n] = s.items[n] /\ s.items[n] \in Item
      BY <1>12, <2>0
    <3>2. s.items[n].index \in Nat /\ s.items[n].index < s.next
      BY <1>2, <3>1 DEF Kept, Item
    <3>3. s.items[n].index + 1 \in DOMAIN k.items
      BY <1>2, <3>2
    <3> QED BY <1>2, <1>10, <1>12, <1>14, <3>1, <3>2, <3>3 DEF Kept
  <2> QED BY <1>2, <1>8, <1>10, <1>12, <1>14, <2>1 DEF Kept
<1>18. Fits(L, t, new, m)
  BY <1>10, <1>12, <1>15, <1>16, <1>17 DEF Fits
<1> QED BY <1>13, <1>18 DEF SoundBut, t, e

LEMMA PushSound ==
  ASSUME NEW L, NEW c, NEW s \in State, Sound(L, c, s), ~s.completed,
         NEW x \in Slots, s.done[x] => KindOf(x) \in L, NEW d \in Text
  PROVE  Sound(L, c, PushDelta(s, x, d))
<1> DEFINE o == Announce(s, x)
           r == [o EXCEPT !.text[x] = @ \o d]
           new == More(s.text, x, d)
           t == Emit(r, Event("delta", x, o.index[x], d, <<>>))
<1>1. o \in State /\ Announced(s, o, x) /\ s.text \in Texts
  BY AnnounceEffect DEF State, Texts
<1>2. SoundBut(L, c, o, s.text)
  BY <1>1, AnnounceSound DEF Sound
<1>3. PushDelta(s, x, d) = t
  BY DEF PushDelta
<1> HIDE DEF o
<1>4. o.text[x] \o d \in Text
  BY <1>1, ConcatText DEF State
<1>5. r \in State /\ SameLayout(o, r) /\ r.text = [o.text EXCEPT ![x] = @ \o d]
  BY <1>1, <1>4 DEF State, SameLayout
<1> HIDE DEF r
<1>6. o.started /\ ~o.completed /\ o.added[x] /\ (o.done[x] => KindOf(x) \in L)
  BY <1>1 DEF Announced, SameRest
<1>7. SoundBut(L, c, t, new)
  BY <1>1, <1>2, <1>5, <1>6, DeltaSound
<1>8. PushDelta(s, x, d).text = new
  <2>1. Pushed(s, PushDelta(s, x, d), x, d)
    BY PushEffect
  <2> QED BY <2>1 DEF Pushed, More
<1> QED BY <1>3, <1>7, <1>8 DEF Sound

LEMMA FinalizeSound ==
  ASSUME NEW L, NEW c, NEW s \in State, Sound(L, c, s), ~s.completed,
         NEW x \in Slots, s.added[x] => s.started
  PROVE  Sound(L, c, Finalize(s, x))
<1>1. CASE ~s.added[x] \/ s.done[x]
  BY <1>1 DEF Finalize
<1>2. CASE s.added[x] /\ ~s.done[x]
  <2> DEFINE r == [s EXCEPT !.done[x] = TRUE, !.items = Append(@, Closed(s, x))]
             e == Event("done", x, s.index[x], FinalText(s, x), <<>>)
             t == Emit(r, e)
  <2>1. Finalize(s, x) = t
    BY <1>2 DEF Finalize
  <2>2. PICK k : Tells(L, c, s.events, k) /\ Fits(L, s, s.text, k)
    BY DEF Sound, SoundBut
  <2>3. /\ k \in Client /\ k.phase = "open" /\ s.next \in Nat /\ Len(k.items) = s.next
        /\ k.items \in Seq(ClientItem) /\ Placed(s, k) /\ Shown(L, s, s.text, k) /\ Kept(s, k)
        /\ DOMAIN k.items = 1..s.next
    BY <1>2, <2>2 DEF Fits, Placed, State, Client
  <2> DEFINE i == s.index[x] + 1
             tx == FinalText(s, x)
             its == Ended(k.items, i, tx)
             m == WithItems(k, its)
  <2>4. i \in DOMAIN k.items /\ s.index[x] \in Nat /\ Numbered(k.items)
    BY <1>2, <2>3 DEF Placed
  <2>5. /\ k.items[i].kind = KindOf(x) /\ ~k.items[i].closed /\ k.items[i].final = <<>>
        /\ KindOf(x) \notin L => k.items[i].text = s.text[x]
        /\ k.items[i] \in ClientItem
    BY <1>2, <2>3, <2>4 DEF Shown
  <2>6. FinalText(s, x) \in Text /\ tx \in Text /\ tx = FinalOf(KindOf(x), s.text[x])
    BY FinalTexts DEF FinalText
  <2>7. Hears(k, e) = m
    BY <2>3, <2>4, <2>5, <2>6, HearsDone
  <2>8. Closed(s, x) = [index |-> s.index[x], kind |-> KindOf(x), text |-> FinalText(s, x)]
    BY DEF Closed
  <2>9. Append(s.items, Closed(s, x)) \in Seq(Item)
    <3>1. Closed(s, x) \in Item
      BY <2>4, <2>6, <2>8, SlotKinds DEF Item
    <3> QED BY <3>1 DEF State
  <2>10. /\ r \in State /\ r.started = s.started /\ SameRest(s, r) /\ r.events = s.events
         /\ r.next = s.next /\ r.added = s.added /\ r.index = s.index /\ r.text = s.text
         /\ r.done = [s.done EXCEPT ![x] = TRUE] /\ r.items = Append(s.items, Closed(s, x))
    BY <2>9 DEF State, SameRest
  <2>11. e \in Events
    BY <2>4, <2>6, SlotEvents DEF Indexes
  <2> HIDE DEF i, tx
  <2>12. /\ its \in Seq(ClientItem) /\ Len(its) = s.next /\ DOMAIN its = DOMAIN k.items
         /\ its[i] = [k.items[i] EXCEPT !.closed = TRUE, !.final = tx]
         /\ \A j \in DOMAIN k.items : j # i => its[j] = k.items[j]
    <3>1. [k.items[i] EXCEPT !.closed = TRUE, !.final = tx] \in ClientItem
      BY <2>5, <2>6 DEF ClientItem
    <3>2. its = [k.items EXCEPT ![i] = [k.items[i] EXCEPT !.closed = TRUE, !.final = tx]]
      BY <2>4, <2>5 DEF Ended, ClientItem
    <3> QED BY <2>3, <2>4, <3>1, <3>2
  <2>13. Legal(L, k, m)
    <3>1. m = [k EXCEPT !.items = [k.items EXCEPT ![i].closed = TRUE, ![i].final = tx]]
      BY DEF WithItems, Ended
    <3>2. k.items[i].kind \notin L => tx = FinalOf(k.items[i].kind, k.items[i].text)
      BY <2>5, <2>6
    <3> HIDE DEF m
    <3> QED BY <2>3, <2>4, <2>5, <2>6, <3>1, <3>2 DEF Legal
  <2> HIDE DEF its
  <2>14. m \in Client /\ m.phase = "open" /\ m.items = its
    BY <2>3, <2>12 DEF Client, WithItems
  <2> HIDE DEF m, e, r
  <2>15. /\ t \in State /\ t.events = Append(s.events, e) /\ t.started = s.started /\ SameRest(s, t)
         /\ t.added = s.added /\ t.index = s.index /\ t.text = s.text /\ t.next = s.next
         /\ t.done = [s.done EXCEPT ![x] = TRUE] /\ t.items = Append(s.items, Closed(s, x))
    <3>1. /\ t \in State /\ t.events = Append(r.events, e) /\ t.started = r.started
          /\ SameRest(r, t) /\ SameItems(r, t)
      BY <2>10, <2>11, Emitted
    <3> HIDE DEF t
    <3> QED BY <2>10, <3>1 DEF SameRest, SameItems
  <2> HIDE DEF t
  <2>16. Tells(L, c, t.events, m)
    <3>1. s.events \in Seq(Events)
      BY DEF State
    <3> QED BY <2>2, <2>7, <2>11, <2>13, <2>14, <2>15, <3>1, TellsMore
  <2>17. /\ its[i].closed = TRUE /\ its[i].final = tx
         /\ \A j \in DOMAIN k.items :
              /\ its[j].index = k.items[j].index /\ its[j].kind = k.items[j].kind
              /\ its[j].text = k.items[j].text
              /\ j # i => its[j].closed = k.items[j].closed /\ its[j].final = k.items[j].final
    <3>1. /\ its[i].closed = TRUE /\ its[i].final = tx
          /\ its[i].index = k.items[i].index /\ its[i].kind = k.items[i].kind
          /\ its[i].text = k.items[i].text
      BY <2>4, <2>5, <2>12 DEF ClientItem
    <3> QED BY <2>12, <3>1
  <2>18. Placed(t, m)
    <3>1. Numbered(its)
      BY <2>4, <2>12, <2>17 DEF Numbered
    <3> QED BY <2>3, <2>12, <2>14, <2>15, <3>1 DEF Placed
  <2>19. Shown(L, t, t.text, m)
    <3>0. t.done[x] = TRUE /\ \A y \in Slots : y # x => t.done[y] = s.done[y]
      BY <2>15 DEF State
    <3>1. ASSUME NEW y \in Slots, t.added[y]
          PROVE  LET it == m.items[t.index[y] + 1] IN
                 /\ it.kind = KindOf(y)
                 /\ it.closed = t.done[y]
                 /\ it.closed \/ it.final = <<>>
                 /\ KindOf(y) \notin L => it.text = t.text[y]
      <4> DEFINE j == s.index[y] + 1
      <4>1. j \in DOMAIN k.items /\ m.items[t.index[y] + 1] = its[j]
        BY <2>3, <2>14, <2>15, <3>1 DEF Placed
      <4>2. /\ k.items[j].kind = KindOf(y)
            /\ k.items[j].closed = s.done[y]
            /\ k.items[j].closed \/ k.items[j].final = <<>>
            /\ KindOf(y) \notin L => k.items[j].text = s.text[y]
        BY <2>3, <2>15, <3>1 DEF Shown
      <4>3. its[j].closed = t.done[y] /\ (its[j].closed \/ its[j].final = <<>>)
        <5>1. CASE y = x
          <6>1. j = i
            BY <5>1 DEF i
          <6> HIDE DEF j
          <6> QED BY <2>17, <3>0, <5>1, <6>1
        <5>2. CASE y # x
          <6>1. j # i
            BY <1>2, <2>3, <2>15, <3>1, <5>2 DEF Placed, i
          <6> HIDE DEF j
          <6> QED BY <2>17, <3>0, <4>1, <4>2, <5>2, <6>1
        <5> QED BY <5>1, <5>2
      <4> HIDE DEF j
      <4> QED BY <2>15, <2>17, <4>1, <4>2, <4>3
    <3>2. ASSUME NEW y \in Slots, ~t.added[y]
          PROVE  ~t.done[y] /\ (KindOf(y) \notin L => t.text[y] = <<>>)
      BY <1>2, <2>3, <2>15, <3>0, <3>2 DEF Shown
    <3> QED BY <3>1, <3>2 DEF Shown
  <2>20. Kept(t, m)
    <3>0. s.items \in Seq(Item) /\ Len(s.items) \in Nat
      BY DEF State
    <3> DEFINE z == Len(s.items) + 1
    <3>1. /\ DOMAIN t.items = 1..z /\ t.items[z] = Closed(s, x)
          /\ \A n \in DOMAIN s.items : n \in 1..z /\ t.items[n] = s.items[n]
          /\ DOMAIN s.items = 1..Len(s.items)
      BY <2>15, <3>0
    <3>2. ASSUME NEW n \in DOMAIN t.items
          PROVE  /\ t.items[n].index < t.next
                 /\ LET it == m.items[t.items[n].index + 1] IN
                    /\ it.closed /\ it.kind = t.items[n].kind
                    /\ it.final = t.items[n].text
      <4>1. CASE n = z
        <5>1. t.items[n] = Closed(s, x)
          BY <3>1, <4>1
        <5>2. t.items[n].index = s.index[x] /\ t.items[n].kind = KindOf(x) /\ t.items[n].text = FinalText(s, x)
          BY <2>8, <5>1
        <5>3. m.items[t.items[n].index + 1] = its[i] /\ s.index[x] < s.next
          BY <1>2, <2>3, <2>14, <5>2 DEF i, Placed
        <5> QED BY <2>4, <2>5, <2>15, <2>17, <5>2, <5>3 DEF tx
      <4>2. CASE n # z
        <5>1. n \in DOMAIN s.items /\ t.items[n] = s.items[n] /\ s.items[n] \in Item
          BY <3>0, <3>1, <4>2
        <5> DEFINE j == s.items[n].index + 1
        <5>2. s.items[n].index \in Nat /\ s.items[n].index < s.next /\ k.items[j].closed
          BY <2>3, <5>1 DEF Kept, Item
        <5>3. j \in DOMAIN k.items /\ j # i
          BY <2>3, <2>5, <5>2
        <5> HIDE DEF j
        <5>4. its[j] = k.items[j] /\ m.items[j] = its[j]
          BY <2>12, <2>14, <5>3
        <5>5. k.items[j].kind = s.items[n].kind /\ k.items[j].final = s.items[n].text
          BY <2>3, <5>1 DEF Kept, j
        <5> QED BY <2>15, <5>1, <5>2, <5>4, <5>5 DEF j
      <4> QED BY <4>1, <4>2
    <3>3. ASSUME NEW j \in DOMAIN m.items, m.items[j].closed
          PROVE  \E n \in DOMAIN t.items : t.items[n].index = j - 1
      <4>1. CASE j = i
        <5>1. z \in DOMAIN t.items /\ t.items[z].index = s.index[x]
          BY <2>8, <3>0, <3>1
        <5>2. s.index[x] = j - 1
          BY <2>4, <4>1 DEF i
        <5> HIDE DEF z
        <5> QED BY <5>1, <5>2
      <4>2. CASE j # i
        <5>1. j \in DOMAIN k.items /\ k.items[j].closed
          BY <2>12, <2>14, <3>3, <4>2
        <5>2. PICK n \in DOMAIN s.items : s.items[n].index = j - 1
          BY <2>3, <5>1 DEF Kept
        <5> QED BY <3>1, <5>2
      <4> QED BY <4>1, <4>2
    <3> QED BY <3>2, <3>3 DEF Kept
  <2>21. Fits(L, t, t.text, m)
    BY <1>2, <2>3, <2>14, <2>15, <2>18, <2>19, <2>20 DEF Fits, SameRest
  <2> QED BY <2>1, <2>16, <2>21 DEF Sound, SoundBut
<1> QED BY <1>1, <1>2

-----------------------------------------------------------------------------
(* A stream that is not over.                                              *)

\* What is kept with the calls.
Carries(s) ==
  \A x \in s.seen :
    /\ s.added[x]
    /\ s.added[Reasoning] /\ s.index[Reasoning] < s.index[x] =>
         s.done[Reasoning] /\ s.carried[x] = TrimSpace(s.text[Reasoning])

\* Only calls that were seen are announced or carry anything.
Unseen(s) == \A x \in Tools : x \notin s.seen => ~s.added[x] /\ s.carried[x] = <<>>

Good(L, c, s) ==
  /\ s \in State /\ Sound(L, c, s) /\ ~s.completed
  /\ \A x \in Slots : s.added[x] => s.started
  /\ Unseen(s)
  /\ L = {} => Carries(s)

\* Between two chunks only the reasoning may be closed, and not while content is held back.
Reading(L, c, s) ==
  /\ Good(L, c, s)
  /\ ~s.done[Message] /\ \A x \in Tools : ~s.done[x]
  /\ s.done[Reasoning] => s.mode = "text"

\* t has r more reasoning, and m more of the message, than s, and what was announced.
Says(s, t, r, m) ==
  /\ t.text[Reasoning] = s.text[Reasoning] \o r /\ t.text[Message] = s.text[Message] \o m
  /\ \A x \in Slots : s.added[x] => t.added[x]
  /\ s.done[Reasoning] => t.done[Reasoning]

\* No more reasoning follows that of a think block.
Thinks(s, t, r, m) == Says(s, t, r, m) /\ (r # <<>> => t.done[Reasoning])

LEMMA GoodPlaces ==
  ASSUME NEW L, NEW c, NEW s, Good(L, c, s)
  PROVE  /\ s.next \in Nat
         /\ \A x \in Slots : s.added[x] => s.index[x] \in Nat /\ s.index[x] < s.next
         /\ \A x, y \in Slots : s.added[x] /\ s.added[y] /\ s.index[x] = s.index[y] => x = y
         /\ \A x \in Slots : s.done[x] => s.added[x]
<1>1. PICK k : Tells(L, c, s.events, k) /\ Fits(L, s, s.text, k)
  BY DEF Good, Sound, SoundBut
<1>2. Placed(s, k) /\ Shown(L, s, s.text, k) /\ s \in State
  BY <1>1 DEF Fits, Good
<1>3. s.next \in Nat
  BY <1>2 DEF State
<1> QED BY <1>2, <1>3 DEF Placed, Shown

LEMMA GoodRest ==
  ASSUME NEW L, NEW c, NEW s, Good(L, c, s), NEW r \in State, SameLayout(s, r),
         r.text = s.text, r.seen = s.seen, r.carried = s.carried
  PROVE  Good(L, c, r)
<1>1. PICK k : Tells(L, c, s.events, k) /\ Fits(L, s, s.text, k)
  BY DEF Good, Sound, SoundBut
<1>2. Fits(L, r, r.text, k)
  BY <1>1 DEF Fits, Placed, Shown, Kept, SameLayout
<1>3. Sound(L, c, r)
  BY <1>1, <1>2 DEF Sound, SoundBut, SameLayout
<1> QED BY <1>3 DEF Good, Unseen, Carries, SameLayout

LEMMA StartedGood ==
  ASSUME NEW L, NEW c, NEW s, Good(L, c, s)
  PROVE  Good(L, c, ensureStarted(s)) /\ ensureStarted(s).started
<1> DEFINE t == ensureStarted(s)
<1>1. s \in State /\ ~s.completed /\ SoundBut(L, c, s, s.text)
  BY DEF Good, Sound
<1>2. t \in State /\ t.started /\ SameRest(s, t) /\ SameItems(s, t)
  BY <1>1, StartedEffect
<1>3. SoundBut(L, c, t, s.text)
  BY <1>1, StartedSound
<1> HIDE DEF t
<1>4. Sound(L, c, t) /\ ~t.completed
  BY <1>1, <1>2, <1>3 DEF Sound, SameItems, SameRest
<1>5. Unseen(t) /\ (L = {} => Carries(t))
  <2>1. /\ t.seen = s.seen /\ t.added = s.added /\ t.index = s.index /\ t.done = s.done
        /\ t.carried = s.carried /\ t.text = s.text
    BY <1>2 DEF SameItems, SameRest
  <2> QED BY <2>1 DEF Good, Unseen, Carries
<1> QED BY <1>2, <1>4, <1>5 DEF Good, t

\* Reasoning or message that goes on.
LEMMA PushGood ==
  ASSUME NEW L, NEW c, NEW s, Good(L, c, s), NEW x \in {Reasoning, Message},
         s.done[x] => KindOf(x) \in L, NEW d \in Text
  PROVE  Good(L, c, PushDelta(s, x, d)) /\ Pushed(s, PushDelta(s, x, d), x, d)
<1> DEFINE t == PushDelta(s, x, d)
<1>1. s \in State /\ ~s.completed /\ Sound(L, c, s) /\ x \in Slots /\ x \notin Tools
  BY SlotKinds DEF Good
<1>2. t \in State /\ Pushed(s, t, x, d)
  BY <1>1, PushEffect
<1>3. Sound(L, c, t)
  BY <1>1, PushSound
<1> HIDE DEF t
<1>4. /\ t.added[x] /\ \A y \in Slots : y # x => t.added[y] = s.added[y] /\ t.index[y] = s.index[y]
      /\ t.index[x] = IF s.added[x] THEN s.index[x] ELSE s.next
      /\ \A y \in Slots : y # x => t.text[y] = s.text[y]
      /\ t.seen = s.seen /\ t.carried = s.carried /\ t.done = s.done
  BY <1>1, <1>2 DEF Pushed, SameRest, State
<1>5. Unseen(t)
  BY <1>1, <1>4, SlotKinds DEF Good, Unseen
<1>6. ASSUME L = {} PROVE Carries(t)
  <2>1. ASSUME NEW y \in s.seen PROVE t.added[y] /\ y # x /\ y \in Slots /\ t.index[y] = s.index[y]
    <3>1. y \in Tools /\ s.added[y]
      BY <1>1, <1>6 DEF Good, Carries, State
    <3> QED BY <1>1, <1>4, <3>1, SlotKinds
  <2>2. ASSUME NEW y \in s.seen, t.added[Reasoning] /\ t.index[Reasoning] < t.index[y]
        PROVE  t.done[Reasoning] /\ t.carried[y] = TrimSpace(t.text[Reasoning])
    <3>1. /\ s.added[y] /\ y \in Slots /\ t.index[y] = s.index[y] /\ s.index[y] \in Nat
          /\ s.index[y] < s.next /\ s.next \in Nat
      BY <1>6, <2>1, GoodPlaces DEF Good, Carries
    <3>2. CASE x = Reasoning
      <4>1. s.added[Reasoning] /\ s.index[Reasoning] < s.index[y]
        BY <1>4, <2>2, <3>1, <3>2
      <4>2. s.done[Reasoning]
        BY <1>6, <4>1 DEF Good, Carries
      <4> QED BY <1>6, <3>2, <4>2
    <3>3. CASE x # Reasoning
      <4>1. s.added[Reasoning] /\ s.index[Reasoning] < s.index[y] /\ t.text[Reasoning] = s.text[Reasoning]
        BY <1>4, <2>2, <3>1, <3>3, SlotKinds
      <4> QED BY <1>4, <1>6, <4>1 DEF Good, Carries
    <3> QED BY <3>2, <3>3
  <2> QED BY <1>4, <2>1, <2>2 DEF Carries
<1>7. t.started /\ ~t.completed
  BY <1>1, <1>2 DEF Pushed, SameRest
<1>8. Good(L, c, t)
  BY <1>2, <1>3, <1>5, <1>6, <1>7 DEF Good
<1> QED BY <1>2, <1>8 DEF t

LEMMA FinalizeGood ==
  ASSUME NEW L, NEW c, NEW s, Good(L, c, s), NEW x \in Slots
  PROVE  Good(L, c, Finalize(s, x)) /\ Finalized(s, Finalize(s, x), x)
<1> DEFINE t == Finalize(s, x)
<1>1. s \in State /\ ~s.completed /\ Sound(L, c, s) /\ (s.added[x] => s.started) /\ (s.added[x] => s.index[x] \in Nat)
  BY GoodPlaces DEF Good
<1>2. t \in State /\ Finalized(s, t, x)
  BY <1>1, FinalizeEffect
<1>3. Sound(L, c, t)
  BY <1>1, FinalizeSound
<1> HIDE DEF t
<1>4. /\ t.started = s.started /\ t.added = s.added /\ t.index = s.index /\ t.text = s.text
      /\ t.seen = s.seen /\ t.carried = s.carried /\ t.completed = s.completed
      /\ s.done[Reasoning] => t.done[Reasoning]
  <2>1. t.done = s.done \/ t.done = [s.done EXCEPT ![x] = TRUE]
    BY <1>2 DEF Finalized
  <2>2. s.done[Reasoning] => t.done[Reasoning]
    BY <1>1, <2>1, SlotKinds DEF State
  <2> QED BY <1>2, <2>2 DEF Finalized, SameRest
<1>5. Unseen(t)
  BY <1>4 DEF Good, Unseen
<1>6. L = {} => Carries(t)
  BY <1>4 DEF Good, Carries
<1>7. Good(L, c, t)
  BY <1>1, <1>2, <1>3, <1>4, <1>5, <1>6 DEF Good
<1> QED BY <1>2, <1>7 DEF t

LEMMA SaysNothing ==
  ASSUME NEW s \in State, NEW t, t.text = s.text, t.added = s.added, s.done[Reasoning] => t.done[Reasoning]
  PROVE  Says(s, t, <<>>, <<>>)
<1>1. s.text[Reasoning] \in Seq(Piece) /\ s.text[Message] \in Seq(Piece)
  BY SlotKinds DEF State, Text
<1> QED BY <1>1 DEF Says

Associates(a, b, d) == (a \o b) \o d = a \o (b \o d)

LEMMA ConcatTexts ==
  ASSUME NEW a \in Text, NEW b \in Text, NEW d \in Text
  PROVE  Associates(a, b, d)
<1>1. a \in Seq(Piece) /\ b \in Seq(Piece) /\ d \in Seq(Piece)
  BY DEF Text
<1>2. a \o b \in Seq(Piece) /\ b \o d \in Seq(Piece) /\ (a \o b) \o d \in Seq(Piece) /\ a \o (b \o d) \in Seq(Piece)
  BY <1>1
<1>3. /\ Len(a) \in Nat /\ Len(b) \in Nat /\ Len(d) \in Nat
      /\ Len((a \o b) \o d) = Len(a) + Len(b) + Len(d) /\ Len(a \o (b \o d)) = Len(a) + Len(b) + Len(d)
  BY <1>1, <1>2
<1>4. ASSUME NEW i \in 1..(Len(a) + Len(b) + Len(d))
      PROVE  ((a \o b) \o d)[i] = (a \o (b \o d))[i]
  BY <1>1, <1>2, <1>3
<1>5. \A x, y \in Seq(Piece) : Len(x) = Len(y) /\ (\A i \in 1..Len(x) : x[i] = y[i]) => x = y
  BY SeqEqual
<1> DEFINE x == (a \o b) \o d
           y == a \o (b \o d)
<1>6. x \in Seq(Piece) /\ y \in Seq(Piece) /\ Len(x) = Len(y) /\ \A i \in 1..Len(x) : x[i] = y[i]
  BY <1>2, <1>3, <1>4
<1> HIDE DEF x, y
<1>7. x = y
  BY <1>6, <1>5
<1> QED BY <1>7 DEF x, y, Associates

LEMMA SaysBoth ==
  ASSUME NEW s \in State, NEW t, NEW u, NEW r1 \in Text, NEW m1 \in Text, NEW r2 \in Text, NEW m2 \in Text,
         Says(s, t, r1, m1), Says(t, u, r2, m2)
  PROVE  Says(s, u, r1 \o r2, m1 \o m2)
<1>1. s.text[Reasoning] \in Text /\ s.text[Message] \in Text
  BY SlotKinds DEF State
<1>2. Associates(s.text[Reasoning], r1, r2) /\ Associates(s.text[Message], m1, m2)
  BY <1>1, ConcatTexts
<1>4. /\ u.text[Reasoning] = (s.text[Reasoning] \o r1) \o r2
      /\ u.text[Message] = (s.text[Message] \o m1) \o m2
  BY DEF Says
<1>5. /\ \A x \in Slots : s.added[x] => u.added[x]
      /\ s.done[Reasoning] => u.done[Reasoning]
  BY DEF Says
<1> QED BY <1>2, <1>4, <1>5 DEF Says, Associates

LEMMA NoText == <<>> \in Text /\ \A t \in Text : t \o <<>> = t /\ <<>> \o t = t
BY DEF Text

LEMMA PushSays ==
  ASSUME NEW s \in State, NEW t, NEW d \in Text
  PROVE  /\ Pushed(s, t, Reasoning, d) => Says(s, t, d, <<>>)
         /\ Pushed(s, t, Message, d) => Says(s, t, <<>>, d)
<1>1. s.text[Reasoning] \in Text /\ s.text[Message] \in Text /\ Reasoning # Message
  BY SlotKinds DEF State
<1> QED BY <1>1, NoText, SlotKinds DEF Says, Pushed, State

\* The reasoning is over when the message begins.
LEMMA PushTextReading ==
  ASSUME NEW L, NEW c, NEW s, Reading(L, c, s), s.mode = "text", NEW d \in Text
  PROVE  LET t == PushText(s, d) IN
         /\ Reading(L, c, t) /\ t.mode = "text" /\ t.buffer = s.buffer /\ t.started
         /\ Says(s, t, <<>>, d)
<1> DEFINE f == Finalize(s, Reasoning)
           t == PushDelta(f, Message, d)
<1>1. Good(L, c, f) /\ Finalized(s, f, Reasoning) /\ s \in State /\ f \in State
  BY FinalizeGood, SlotKinds DEF Reading, Good
<1>2. PushText(s, d) = t
  BY DEF PushText
<1> HIDE DEF f
<1>3. ~f.done[Message] /\ (\A x \in Tools : ~f.done[x]) /\ f.mode = "text" /\ f.buffer = s.buffer
      /\ f.text = s.text /\ f.added = s.added /\ (s.done[Reasoning] => f.done[Reasoning])
  BY <1>1, SlotKinds DEF Finalized, SameRest, State, Reading
<1>4. Good(L, c, t) /\ Pushed(f, t, Message, d)
  BY <1>1, <1>3, PushGood
<1> HIDE DEF t
<1>5. Reading(L, c, t) /\ t.mode = "text" /\ t.buffer = s.buffer /\ t.started
  BY <1>3, <1>4 DEF Reading, Pushed, SameRest
<1>6. Says(s, t, <<>>, d)
  <2>1. Says(f, t, <<>>, d)
    BY <1>1, <1>4, PushSays
  <2> QED BY <1>3, <2>1 DEF Says
<1> QED BY <1>2, <1>5, <1>6

\* A block that was held back.
LEMMA PushSplitReading ==
  ASSUME NEW L, NEW c, NEW s, Reading(L, c, s), s.mode = "text", ~s.done[Reasoning],
         NEW split, split.reasoning \in Text, split.answer \in Text
  PROVE  LET t == PushSplit(s, split) IN
         /\ Reading(L, c, t) /\ t.mode = "text" /\ t.buffer = s.buffer /\ (s.started => t.started)
         /\ Thinks(s, t, split.reasoning, split.answer)
<1> DEFINE r == IF split.reasoning = <<>> THEN s
                ELSE Finalize(PushDelta(s, Reasoning, split.reasoning), Reasoning)
           t == IF split.answer = <<>> THEN r ELSE PushDelta(r, Message, split.answer)
<1>1. PushSplit(s, split) = t
  BY DEF PushSplit
<1>2. s \in State /\ Good(L, c, s)
  BY DEF Reading, Good
<1>3. /\ Reading(L, c, r) /\ r.mode = "text" /\ r.buffer = s.buffer /\ (s.started => r.started)
      /\ Thinks(s, r, split.reasoning, <<>>)
  <2>1. CASE split.reasoning = <<>>
    BY <1>2, <2>1, SaysNothing DEF Thinks
  <2>2. CASE split.reasoning # <<>>
    <3> DEFINE p == PushDelta(s, Reasoning, split.reasoning)
               f == Finalize(p, Reasoning)
    <3>1. Good(L, c, p) /\ Pushed(s, p, Reasoning, split.reasoning)
      BY <1>2, PushGood
    <3> HIDE DEF p
    <3>2. Good(L, c, f) /\ Finalized(p, f, Reasoning) /\ p \in State
      BY <3>1, FinalizeGood, SlotKinds DEF Good
    <3>3. r = f
      BY <2>2 DEF p
    <3> HIDE DEF f, r
    <3>4. /\ f.mode = "text" /\ f.buffer = s.buffer /\ f.text = p.text /\ f.added = p.added /\ f.started
          /\ f.done[Reasoning] /\ \A x \in Slots : x # Reasoning => f.done[x] = s.done[x]
      BY <3>1, <3>2, SlotKinds DEF Pushed, Finalized, SameRest, State
    <3>5. Reading(L, c, f)
      BY <3>2, <3>4, SlotKinds DEF Reading
    <3>6. Thinks(s, f, split.reasoning, <<>>)
      <4>1. Says(s, p, split.reasoning, <<>>)
        BY <1>2, <3>1, PushSays
      <4> QED BY <3>4, <4>1 DEF Says, Thinks
    <3> QED BY <3>3, <3>4, <3>5, <3>6
  <2> QED BY <2>1, <2>2
<1> HIDE DEF r
<1>4. CASE split.answer = <<>>
  BY <1>1, <1>3, <1>4
<1>5. CASE split.answer # <<>>
  <2> DEFINE p == PushDelta(r, Message, split.answer)
  <2>1. Good(L, c, p) /\ Pushed(r, p, Message, split.answer) /\ r \in State
    BY <1>3, PushGood DEF Reading, Good
  <2>2. t = p
    BY <1>5
  <2> HIDE DEF p, t
  <2>3. Reading(L, c, p) /\ p.mode = "text" /\ p.buffer = s.buffer /\ p.started
    BY <1>3, <2>1 DEF Reading, Pushed, SameRest
  <2>4. Says(r, p, <<>>, split.answer)
    BY <2>1, PushSays
  <2>5. Thinks(s, p, split.reasoning, split.answer)
    <3>1. Says(s, p, split.reasoning \o <<>>, <<>> \o split.answer)
      BY <1>2, <1>3, <2>4, SaysBoth, NoText DEF Thinks
    <3>2. split.reasoning \o <<>> = split.reasoning /\ <<>> \o split.answer = split.answer
      BY NoText
    <3>3. r.done[Reasoning] => p.done[Reasoning]
      BY <2>4 DEF Says
    <3> QED BY <1>3, <3>1, <3>2, <3>3 DEF Thinks
  <2> QED BY <1>1, <2>2, <2>3, <2>5
<1> QED BY <1>4, <1>5

WithMode(s, m, b) == [s EXCEPT !.mode = m, !.buffer = b]

\* Holding back, and no longer.
LEMMA ModeReading ==
  ASSUME NEW L, NEW c, NEW s, Reading(L, c, s), NEW m \in {"detecting", "reasoning", "text"}, NEW b \in Text,
         s.done[Reasoning] => m = "text"
  PROVE  LET t == WithMode(s, m, b) IN
         /\ Reading(L, c, t) /\ t.mode = m /\ t.buffer = b /\ t.text = s.text /\ t.done = s.done
            /\ t.added = s.added /\ t.started = s.started
<1> DEFINE t == WithMode(s, m, b)
<1>1. s \in State /\ Good(L, c, s)
  BY DEF Reading, Good
<1>2. /\ t \in State /\ SameLayout(s, t) /\ t.text = s.text /\ t.seen = s.seen /\ t.carried = s.carried
      /\ t.mode = m /\ t.buffer = b
  BY <1>1 DEF State, SameLayout, WithMode
<1> HIDE DEF t
<1>3. Good(L, c, t)
  BY <1>1, <1>2, GoodRest
<1>4. Reading(L, c, t) /\ t.done = s.done /\ t.added = s.added /\ t.started = s.started
  BY <1>2, <1>3 DEF Reading, SameLayout
<1> QED BY <1>2, <1>4 DEF t

LEMMA LeaveReading ==
  ASSUME NEW L, NEW c, NEW s, Reading(L, c, s)
  PROVE  /\ Reading(L, c, ToText(s)) /\ ToText(s).mode = "text" /\ ToText(s).buffer = <<>>
         /\ ToText(s).text = s.text /\ ToText(s).done = s.done /\ ToText(s).added = s.added
         /\ ToText(s).started = s.started
<1>1. /\ Reading(L, c, WithMode(s, "text", <<>>))
      /\ WithMode(s, "text", <<>>).mode = "text" /\ WithMode(s, "text", <<>>).buffer = <<>>
      /\ WithMode(s, "text", <<>>).text = s.text /\ WithMode(s, "text", <<>>).done = s.done
      /\ WithMode(s, "text", <<>>).added = s.added /\ WithMode(s, "text", <<>>).started = s.started
  BY ModeReading, NoText
<1> QED BY <1>1 DEF ToText, WithMode

\* What content d does to a state that holds content back.
Drained(s, t) ==
  LET split == splitLeadingThinkBlock(s.buffer) IN
  IF split.ok
  THEN t.mode = "text" /\ t.buffer = <<>> /\ Thinks(s, t, split.reasoning, split.answer)
  ELSE t = s

LEMMA DrainReading ==
  ASSUME NEW L, NEW c, NEW s, Reading(L, c, s), s.mode = "reasoning"
  PROVE  Reading(L, c, drainCompleteInlineThink(s)) /\ Drained(s, drainCompleteInlineThink(s))
<1> DEFINE split == splitLeadingThinkBlock(s.buffer)
           t == ToText(s)
<1>1. s \in State /\ s.buffer \in Text /\ ~s.done[Reasoning]
  BY DEF Reading, Good, State
<1>2. split.reasoning \in Text /\ split.answer \in Text
  BY <1>1, SplitTexts
<1>3. CASE split.ok
  <2>1. drainCompleteInlineThink(s) = PushSplit(t, split)
    BY <1>3 DEF drainCompleteInlineThink
  <2>2. /\ Reading(L, c, t) /\ t.mode = "text" /\ t.buffer = <<>> /\ t.text = s.text /\ t.done = s.done
        /\ t.added = s.added
    BY LeaveReading
  <2> HIDE DEF t, split
  <2> DEFINE u == PushSplit(t, split)
  <2>3. Reading(L, c, u) /\ u.mode = "text" /\ u.buffer = <<>> /\ Thinks(t, u, split.reasoning, split.answer)
    BY <1>1, <1>2, <2>2, PushSplitReading
  <2> HIDE DEF u
  <2>4. Thinks(s, u, split.reasoning, split.answer)
    BY <2>2, <2>3 DEF Says, Thinks
  <2> QED BY <1>3, <2>1, <2>3, <2>4 DEF Drained, u, split
<1>4. CASE ~split.ok
  BY <1>4 DEF drainCompleteInlineThink, Drained
<1> QED BY <1>3, <1>4

\* What content d does.
Content(s, t, d) ==
  LET b == s.buffer \o d
      split == splitLeadingThinkBlock(b)
      decision == leadingThinkPrefixDecision(b)
  IN IF s.mode = "text" THEN t.mode = "text" /\ Says(s, t, <<>>, d)
     ELSE \/ s.mode = "detecting" /\ decision = "need_more" /\ t.mode = "detecting" /\ t.buffer = b
             /\ t.text = s.text /\ t.added = s.added /\ t.done = s.done
          \/ s.mode = "detecting" /\ decision = "text" /\ t.mode = "text" /\ Says(s, t, <<>>, b)
          \/ /\ s.mode = "reasoning" \/ decision = "reasoning"
             /\ ~split.ok /\ t.mode = "reasoning" /\ t.buffer = b /\ t.text = s.text
             /\ t.added = s.added /\ t.done = s.done
          \/ /\ s.mode = "reasoning" \/ decision = "reasoning"
             /\ split.ok /\ t.mode = "text" /\ Thinks(s, t, split.reasoning, split.answer)

LEMMA ContentReading ==
  ASSUME NEW L, NEW c, NEW s, Reading(L, c, s), NEW d \in Text
  PROVE  Reading(L, c, pushContentDelta(s, d)) /\ Content(s, pushContentDelta(s, d), d)
<1> DEFINE t == pushContentDelta(s, d)
           b == s.buffer \o d
           sb == [s EXCEPT !.buffer = @ \o d]
           decision == leadingThinkPrefixDecision(b)
<1>1. s \in State /\ b \in Text /\ s.mode \in {"detecting", "reasoning", "text"}
  BY ConcatText DEF Reading, Good, State
<1>2. sb = WithMode(s, s.mode, b) /\ sb.buffer = b /\ sb.mode = s.mode
  BY <1>1 DEF State, WithMode
<1>3. CASE s.mode = "text"
  <2>1. t = PushText(s, d)
    BY <1>3 DEF pushContentDelta
  <2>2. Reading(L, c, PushText(s, d)) /\ PushText(s, d).mode = "text" /\ Says(s, PushText(s, d), <<>>, d)
    BY <1>3, PushTextReading
  <2> QED BY <1>3, <2>1, <2>2 DEF Content
<1>4. ASSUME s.mode = "reasoning" \/ (s.mode = "detecting" /\ decision = "reasoning"),
             t = drainCompleteInlineThink(WithMode(s, "reasoning", b))
      PROVE  Reading(L, c, t) /\ Content(s, t, d)
  <2> DEFINE h == WithMode(s, "reasoning", b)
             u == drainCompleteInlineThink(h)
             split == splitLeadingThinkBlock(b)
  <2>0. ~s.done[Reasoning]
    BY <1>4 DEF Reading
  <2>1. /\ Reading(L, c, h) /\ h.mode = "reasoning" /\ h.buffer = b /\ h.text = s.text /\ h.added = s.added
        /\ h.done = s.done
    <3>1. b \in Text /\ (s.done[Reasoning] => "reasoning" = "text")
      BY <1>1, <2>0
    <3> HIDE DEF b
    <3> QED BY <3>1, ModeReading
  <2> HIDE DEF h, b
  <2>2. Reading(L, c, u) /\ Drained(h, u)
    BY <2>1, DrainReading
  <2>3. t = u
    BY <1>4 DEF h
  <2> HIDE DEF u, t
  <2>4. IF split.ok
        THEN u.mode = "text" /\ u.buffer = <<>> /\ Thinks(h, u, split.reasoning, split.answer)
        ELSE u = h
    BY <2>1, <2>2 DEF Drained
  <2>5. Thinks(h, u, split.reasoning, split.answer) <=> Thinks(s, u, split.reasoning, split.answer)
    BY <2>1 DEF Says, Thinks
  <2> HIDE DEF split
  <2>6. CASE split.ok
    BY <1>4, <2>2, <2>3, <2>4, <2>5, <2>6 DEF Content, split, b
  <2>7. CASE ~split.ok
    BY <1>4, <2>1, <2>2, <2>3, <2>4, <2>7 DEF Content, split, b
  <2> QED BY <2>6, <2>7
<1>5. CASE s.mode = "reasoning"
  <2>1. t = drainCompleteInlineThink(sb)
    BY <1>5 DEF pushContentDelta
  <2>2. sb = WithMode(s, "reasoning", b)
    BY <1>2, <1>5
  <2> QED BY <1>4, <1>5, <2>1, <2>2
<1>6. CASE s.mode = "detecting"
  <2>1. decision \in {"need_more", "reasoning", "text"}
    BY DEF leadingThinkPrefixDecision
  <2>2. t = CASE decision = "need_more" -> sb
              [] decision = "reasoning" -> drainCompleteInlineThink([sb EXCEPT !.mode = "reasoning"])
              [] decision = "text"      -> PushText(ToText(s), b)
    BY <1>2, <1>6 DEF pushContentDelta
  <2>3. CASE decision = "need_more"
    <3>1. t = sb
      BY <2>2, <2>3
    <3>2. /\ Reading(L, c, WithMode(s, "detecting", b))
          /\ WithMode(s, "detecting", b).text = s.text /\ WithMode(s, "detecting", b).added = s.added
          /\ WithMode(s, "detecting", b).done = s.done
      BY <1>1, <1>6, ModeReading DEF Reading
    <3>3. /\ Reading(L, c, sb) /\ sb.text = s.text /\ sb.added = s.added /\ sb.done = s.done
          /\ sb.buffer = b /\ sb.mode = "detecting"
      BY <1>2, <1>6, <3>2
    <3> HIDE DEF sb, t
    <3>4. Content(s, sb, d)
      BY <1>6, <2>3, <3>3 DEF Content
    <3> QED BY <3>1, <3>3, <3>4 DEF t
  <2>4. CASE decision = "reasoning"
    <3>1. t = drainCompleteInlineThink([sb EXCEPT !.mode = "reasoning"])
      BY <2>2, <2>4
    <3>2. [sb EXCEPT !.mode = "reasoning"] = WithMode(s, "reasoning", b)
      BY <1>1 DEF State, WithMode
    <3> QED BY <1>4, <1>6, <2>4, <3>1, <3>2
  <2>5. CASE decision = "text"
    <3> DEFINE u == PushText(ToText(s), b)
    <3>1. t = u
      BY <2>2, <2>5
    <3>2. /\ Reading(L, c, ToText(s)) /\ ToText(s).mode = "text" /\ ToText(s).text = s.text
          /\ ToText(s).added = s.added /\ ToText(s).done = s.done
      BY LeaveReading
    <3>3. Reading(L, c, u) /\ u.mode = "text" /\ Says(ToText(s), u, <<>>, b)
      BY <1>1, <3>2, PushTextReading
    <3> HIDE DEF u, t
    <3>4. Says(s, u, <<>>, b)
      BY <3>2, <3>3 DEF Says
    <3>5. Content(s, u, d)
      BY <1>6, <2>5, <3>3, <3>4 DEF Content
    <3> QED BY <3>1, <3>3, <3>5 DEF t
  <2> QED BY <2>1, <2>3, <2>4, <2>5
<1> QED BY <1>1, <1>3, <1>5, <1>6

\* What goes out when content is held back no longer.
Flushed(s, t) ==
  LET split == splitLeadingThinkBlock(s.buffer) IN
  CASE s.mode = "text" -> Says(s, t, <<>>, <<>>)
    [] s.mode = "reasoning" ->
         IF split.ok THEN Thinks(s, t, split.reasoning, split.answer)
         ELSE Thinks(s, t, stripLeadingThinkOpenTag(s.buffer), <<>>)
    [] s.mode = "detecting" -> Says(s, t, <<>>, s.buffer)

LEMMA FlushReading ==
  ASSUME NEW L, NEW c, NEW s, Reading(L, c, s)
  PROVE  LET t == flushInlineThink(s) IN
         Reading(L, c, t) /\ t.mode = "text" /\ (s.started => t.started) /\ Flushed(s, t)
<1> DEFINE t == flushInlineThink(s)
           h == ToText(s)
           split == splitLeadingThinkBlock(s.buffer)
           open == stripLeadingThinkOpenTag(s.buffer)
<1>1. s \in State /\ s.buffer \in Text /\ s.mode \in {"detecting", "reasoning", "text"}
  BY DEF Reading, Good, State
<1>2. split.reasoning \in Text /\ split.answer \in Text /\ open \in Text
  BY <1>1, SplitTexts
<1>3. /\ Reading(L, c, h) /\ h.mode = "text" /\ h.text = s.text /\ h.done = s.done /\ h.added = s.added
      /\ h.started = s.started
  BY LeaveReading
<1>4. \A u, r, m : (Says(h, u, r, m) <=> Says(s, u, r, m)) /\ (Thinks(h, u, r, m) <=> Thinks(s, u, r, m))
  BY <1>3 DEF Says, Thinks
<1>5. CASE s.mode = "text"
  <2>1. t = s
    BY <1>5 DEF flushInlineThink
  <2>2. Says(s, s, <<>>, <<>>)
    BY <1>1, SaysNothing
  <2> QED BY <1>5, <2>1, <2>2 DEF Flushed
<1>6. CASE s.mode = "reasoning"
  <2>0. ~h.done[Reasoning]
    BY <1>3, <1>6 DEF Reading
  <2>1. CASE split.ok
    <3> DEFINE u == PushSplit(h, split)
    <3>1. t = u
      BY <1>6, <2>1 DEF flushInlineThink
    <3> HIDE DEF h
    <3>2. Reading(L, c, u) /\ u.mode = "text" /\ (h.started => u.started) /\ Thinks(h, u, split.reasoning, split.answer)
      BY <1>2, <1>3, <2>0, PushSplitReading
    <3> HIDE DEF u, t
    <3>3. Thinks(s, u, split.reasoning, split.answer)
      BY <1>4, <3>2
    <3> QED BY <1>3, <1>6, <2>1, <3>1, <3>2, <3>3 DEF Flushed, t
  <2>2. CASE ~split.ok /\ open = <<>>
    <3>1. t = h
      BY <1>6, <2>2 DEF flushInlineThink
    <3>2. Thinks(s, h, open, <<>>)
      BY <1>1, <1>3, <2>2, SaysNothing DEF Thinks
    <3> HIDE DEF h, t
    <3> QED BY <1>3, <1>6, <2>2, <3>1, <3>2 DEF Flushed, t
  <2>3. CASE ~split.ok /\ open # <<>>
    <3> DEFINE p == PushDelta(h, Reasoning, open)
               f == Finalize(p, Reasoning)
    <3>1. t = f
      BY <1>6, <2>3 DEF flushInlineThink
    <3> HIDE DEF h, open
    <3>2. Good(L, c, p) /\ Pushed(h, p, Reasoning, open) /\ h \in State
      BY <1>2, <1>3, <2>0, PushGood DEF Reading, Good
    <3> HIDE DEF p
    <3>3. Good(L, c, f) /\ Finalized(p, f, Reasoning) /\ p \in State
      BY <3>2, FinalizeGood, SlotKinds DEF Good
    <3> HIDE DEF f, t
    <3>4. /\ f.mode = "text" /\ f.text = p.text /\ f.added = p.added /\ f.started
          /\ f.done[Reasoning] /\ \A x \in Slots : x # Reasoning => f.done[x] = h.done[x]
      BY <1>3, <3>2, <3>3, SlotKinds DEF Pushed, Finalized, SameRest, State
    <3>5. Reading(L, c, f)
      BY <1>3, <3>3, <3>4, SlotKinds DEF Reading
    <3>6. Says(h, p, open, <<>>)
      BY <1>2, <3>2, PushSays
    <3>7. Thinks(s, f, open, <<>>)
      <4>1. Says(s, p, open, <<>>)
        BY <1>4, <3>6
      <4> QED BY <3>4, <4>1 DEF Says, Thinks
    <3> QED BY <1>6, <2>3, <3>1, <3>4, <3>5, <3>7 DEF Flushed, t, open
  <2> QED BY <2>1, <2>2, <2>3
<1>7. CASE s.mode = "detecting"
  <2>1. CASE s.buffer = <<>>
    <3>1. t = h
      BY <1>7, <2>1 DEF flushInlineThink
    <3>2. Says(s, h, <<>>, s.buffer)
      BY <1>1, <1>3, <2>1, SaysNothing
    <3> HIDE DEF h, t
    <3> QED BY <1>3, <1>7, <3>1, <3>2 DEF Flushed, t
  <2>2. CASE s.buffer # <<>>
    <3> DEFINE u == PushText(h, s.buffer)
    <3>1. t = u
      BY <1>7, <2>2 DEF flushInlineThink
    <3> HIDE DEF h
    <3>2. Reading(L, c, u) /\ u.mode = "text" /\ u.started /\ Says(h, u, <<>>, s.buffer)
      BY <1>1, <1>3, PushTextReading
    <3> HIDE DEF u, t
    <3>3. Says(s, u, <<>>, s.buffer)
      BY <1>4, <3>2
    <3> QED BY <1>7, <3>1, <3>2, <3>3 DEF Flushed, t
  <2> QED BY <2>1, <2>2
<1> QED BY <1>1, <1>5, <1>6, <1>7

\* What holds whatever the state has besides its layout, and whatever a loose item said.
LEMMA LayoutSound ==
  ASSUME NEW L, NEW c, NEW s, NEW texts, SoundBut(L, c, s, texts), NEW r, SameLayout(s, r)
  PROVE  SoundBut(L, c, r, texts)
<1>1. PICK k : Tells(L, c, s.events, k) /\ Fits(L, s, texts, k)
  BY DEF SoundBut
<1>2. Fits(L, r, texts, k)
  BY <1>1 DEF Fits, Placed, Shown, Kept, SameLayout
<1> QED BY <1>1, <1>2 DEF SoundBut, SameLayout

LEMMA LooseSound ==
  ASSUME NEW L, NEW c, NEW s, NEW texts, SoundBut(L, c, s, texts), NEW new,
         \A y \in Slots : KindOf(y) \notin L => new[y] = texts[y]
  PROVE  SoundBut(L, c, s, new)
<1>1. PICK k : Tells(L, c, s.events, k) /\ Fits(L, s, texts, k)
  BY DEF SoundBut
<1>2. Shown(L, s, new, k)
  BY <1>1 DEF Fits, Shown
<1> QED BY <1>1, <1>2 DEF SoundBut, Fits

\* A call keeps the reasoning, which is over.
LEMMA ToolReading ==
  ASSUME NEW L, NEW c, NEW s, Reading(L, c, s), s.mode = "text", s.added[Reasoning] => s.done[Reasoning],
         NEW ch \in Chunk, "function_call" \notin L => ch.known \/ s.added[ch.index]
  PROVE  LET t == pushToolCallDelta(s, ch, TrimSpace(s.text[Reasoning])) IN
         Reading(L, c, t) /\ t.mode = "text" /\ Says(s, t, <<>>, <<>>)
<1> DEFINE x == ch.index
           rr == TrimSpace(s.text[Reasoning])
           kept == IF TrimSpace(s.carried[x]) = <<>> THEN rr ELSE s.carried[x]
           new == More(s.text, x, ch.args)
           r == [s EXCEPT !.seen = @ \cup {x}, !.text[x] = @ \o ch.args,
                          !.carried[x] = IF TrimSpace(@) = <<>> THEN rr ELSE @]
           o == ensureStarted(r)
           a == IF ch.known THEN Announce(o, x) ELSE o
           e == Event("delta", x, a.index[x], ch.args, <<>>)
           t == IF a.added[x] /\ ch.args # <<>> THEN Emit(a, e) ELSE a
<1>1. /\ x \in Tools /\ x \in Slots /\ x # Reasoning /\ x # Message /\ KindOf(x) = "function_call"
      /\ ch.args \in Text /\ ch.known \in BOOLEAN /\ s \in State /\ Good(L, c, s)
  BY SlotKinds DEF Chunk, Reading, Good
<1>2. /\ r \in State /\ SameLayout(s, r) /\ r.seen = s.seen \cup {x} /\ r.text = new
      /\ r.mode = s.mode /\ r.carried = [s.carried EXCEPT ![x] = kept]
  <2>1. rr \in Text /\ s.carried[x] \in Text /\ kept \in Text
    BY <1>1, TrimSpaceText, SlotKinds DEF State
  <2>2. s.text[x] \o ch.args \in Text
    BY <1>1, ConcatText DEF State
  <2>3. r = [s EXCEPT !.seen = s.seen \cup {x}, !.text = new, !.carried = [s.carried EXCEPT ![x] = kept]]
    BY <1>1 DEF State, More
  <2>4. new \in [Slots -> Text] /\ [s.carried EXCEPT ![x] = kept] \in [Slots -> Text] /\ s.seen \cup {x} \in SUBSET Tools
    BY <1>1, <2>1, <2>2 DEF State, More
  <2> HIDE DEF r, new, kept, x
  <2> QED BY <1>1, <2>3, <2>4 DEF State, SameLayout
<1>3. SoundBut(L, c, r, s.text) /\ ~r.completed /\ s.text \in Texts
  BY <1>1, <1>2, LayoutSound DEF Good, Sound, SameLayout, State, Texts
<1> HIDE DEF r
<1>4. o \in State /\ o.started /\ SameRest(r, o) /\ SameItems(r, o) /\ SoundBut(L, c, o, s.text)
  BY <1>2, <1>3, StartedEffect, StartedSound
<1> HIDE DEF o
<1>5. /\ a \in State /\ a.started /\ ~a.completed /\ SoundBut(L, c, a, s.text)
      /\ a.done = s.done /\ a.text = new /\ a.seen = s.seen \cup {x} /\ a.mode = s.mode
      /\ a.carried = [s.carried EXCEPT ![x] = kept]
      /\ \A y \in Slots : y # x => a.added[y] = s.added[y] /\ a.index[y] = s.index[y]
      /\ a.index[x] = s.index[x] \/ ~s.added[x]
      /\ ch.known \/ s.added[x] => a.added[x]
  <2> HIDE DEF x, new, kept
  <2>1. CASE ch.known
    <3> DEFINE z == Announce(o, x)
    <3>1. z \in State /\ Announced(o, z, x) /\ SoundBut(L, c, z, s.text)
      BY <1>1, <1>2, <1>3, <1>4, AnnounceEffect, AnnounceSound DEF SameRest
    <3>2. a = z
      BY <2>1
    <3> HIDE DEF z, a
    <3>3. /\ z.started /\ ~z.completed /\ z.done = s.done /\ z.text = new /\ z.seen = s.seen \cup {x}
          /\ z.mode = s.mode /\ z.carried = [s.carried EXCEPT ![x] = kept] /\ z.added[x]
      BY <1>2, <1>3, <1>4, <3>1 DEF Announced, SameRest, SameItems, SameLayout
    <3>4. o.added = s.added /\ o.index = s.index
      BY <1>2, <1>4 DEF SameItems, SameLayout
    <3>5. /\ \A y \in Slots : y # x => z.added[y] = s.added[y] /\ z.index[y] = s.index[y]
          /\ z.index[x] = s.index[x] \/ ~s.added[x]
      BY <1>1, <3>1, <3>4 DEF Announced, State
    <3> QED BY <3>1, <3>2, <3>3, <3>5
  <2>2. CASE ~ch.known
    <3>1. a = o
      BY <2>2
    <3> HIDE DEF a
    <3> QED BY <1>2, <1>3, <1>4, <2>2, <3>1 DEF SameRest, SameItems, SameLayout
  <2> QED BY <2>1, <2>2
<1> HIDE DEF a
<1>6. ~a.done[x]
  BY <1>1, <1>5 DEF Reading
<1>7. /\ t \in State /\ SoundBut(L, c, t, new)
      /\ t.started /\ ~t.completed /\ t.done = s.done /\ t.text = new /\ t.seen = s.seen \cup {x}
      /\ t.mode = s.mode /\ t.carried = a.carried /\ t.added = a.added /\ t.index = a.index
  <2>1. CASE a.added[x] /\ ch.args # <<>>
    <3>1. t = Emit(a, e)
      BY <2>1
    <3>2. e \in Events
      <4>1. a.index[x] \in Indexes
        BY <1>1, <1>5 DEF State
      <4> QED BY <1>1, <4>1, SlotEvents
    <3>3. SoundBut(L, c, Emit(a, e), new)
      <4>1. SameLayout(a, a)
        BY DEF SameLayout
      <4> HIDE DEF x
      <4> QED BY <1>1, <1>3, <1>5, <1>6, <2>1, <4>1, DeltaSound
    <3> HIDE DEF t, e, new, x
    <3>4. Emit(a, e) \in State /\ Emit(a, e).started = a.started /\ SameRest(a, Emit(a, e)) /\ SameItems(a, Emit(a, e))
      BY <1>5, <3>2, Emitted
    <3> QED BY <1>5, <3>1, <3>3, <3>4 DEF SameRest, SameItems
  <2>2. CASE ~(a.added[x] /\ ch.args # <<>>)
    <3>1. t = a
      BY <2>2
    <3>2. SoundBut(L, c, a, new)
      <4>1. ASSUME NEW y \in Slots, KindOf(y) \notin L PROVE new[y] = s.text[y]
        <5>1. CASE y = x
          <6>1. ch.args = <<>>
            BY <1>1, <1>5, <2>2, <4>1, <5>1
          <6>2. s.text[x] \o <<>> = s.text[x]
            BY <1>1, NoText DEF State
          <6> QED BY <1>1, <5>1, <6>1, <6>2 DEF More, State
        <5>2. CASE y # x
          BY <1>1, <5>2 DEF More, State
        <5> QED BY <5>1, <5>2
      <4> HIDE DEF new
      <4> QED BY <1>5, <4>1, LooseSound
    <3> HIDE DEF t, new
    <3> QED BY <1>5, <3>1, <3>2
  <2> QED BY <2>1, <2>2
<1>8. pushToolCallDelta(s, ch, rr) = t
  BY DEF pushToolCallDelta, t, e, a, o, r
<1> HIDE DEF t, e
<1>9. /\ new[Reasoning] = s.text[Reasoning] /\ new[Message] = s.text[Message]
      /\ a.carried[x] = kept /\ \A y \in Slots : y # x => a.carried[y] = s.carried[y]
  BY <1>1, <1>5, SlotKinds DEF More, State
<1> HIDE DEF new
<1>10. Unseen(t)
  <2>1. ASSUME NEW y \in Tools, y \notin t.seen PROVE ~t.added[y] /\ t.carried[y] = <<>>
    <3>1. y # x /\ y \notin s.seen /\ y \in Slots
      BY <1>7, <2>1, SlotKinds
    <3>2. ~s.added[y] /\ s.carried[y] = <<>>
      BY <1>1, <3>1 DEF Good, Unseen
    <3> QED BY <1>5, <1>7, <1>9, <3>1, <3>2
  <2> QED BY <2>1 DEF Unseen
<1>11. ASSUME L = {} PROVE Carries(t)
  <2>1. Carries(s) /\ t.added[x]
    BY <1>1, <1>5, <1>7, <1>11 DEF Good
  <2>2. ASSUME NEW y \in t.seen PROVE t.added[y]
    <3>1. CASE y = x
      BY <2>1, <3>1
    <3>2. CASE y # x
      <4>1. y \in s.seen /\ y \in Slots
        BY <1>1, <1>7, <3>2, SlotKinds DEF State
      <4> QED BY <1>5, <1>7, <2>1, <3>2, <4>1 DEF Carries
    <3> QED BY <3>1, <3>2
  <2>3. ASSUME NEW y \in t.seen, t.added[Reasoning] /\ t.index[Reasoning] < t.index[y]
        PROVE  t.done[Reasoning] /\ t.carried[y] = TrimSpace(t.text[Reasoning])
    <3>1. t.done[Reasoning] /\ s.added[Reasoning] /\ t.index[Reasoning] = s.index[Reasoning]
      BY <1>1, <1>5, <1>7, <2>3, SlotKinds
    <3>2. t.text[Reasoning] = s.text[Reasoning]
      BY <1>7, <1>9
    <3>3. CASE y = x
      <4>1. CASE TrimSpace(s.carried[x]) = <<>>
        BY <1>7, <1>9, <3>1, <3>2, <3>3, <4>1
      <4>2. CASE TrimSpace(s.carried[x]) # <<>>
        <5>1. x \in s.seen
          <6>1. TrimSpace(<<>>) = <<>>
            BY DEF TrimSpace, Solid
          <6> QED BY <1>1, <4>2, <6>1 DEF Good, Unseen
        <5>2. s.index[Reasoning] < s.index[x]
          BY <1>5, <1>7, <2>1, <2>3, <3>1, <3>3, <5>1 DEF Carries
        <5>3. s.carried[x] = TrimSpace(s.text[Reasoning])
          BY <2>1, <3>1, <5>1, <5>2 DEF Carries
        <5> QED BY <1>7, <1>9, <3>1, <3>2, <3>3, <4>2, <5>3
      <4> QED BY <4>1, <4>2
    <3>4. CASE y # x
      <4>1. y \in s.seen /\ y \in Slots
        BY <1>1, <1>7, <3>4, SlotKinds DEF State
      <4>2. s.index[Reasoning] < s.index[y]
        BY <1>5, <1>7, <2>3, <3>1, <3>4, <4>1
      <4> QED BY <1>7, <1>9, <2>1, <3>1, <3>2, <3>4, <4>1, <4>2 DEF Carries
    <3> QED BY <3>3, <3>4
  <2> QED BY <2>2, <2>3 DEF Carries
<1>12. Good(L, c, t)
  BY <1>7, <1>10, <1>11 DEF Good, Sound
<1>13. Reading(L, c, t) /\ t.mode = "text"
  BY <1>7, <1>12 DEF Reading
<1>14. Says(s, t, <<>>, <<>>)
  <2>1. s.text[Reasoning] \in Text /\ s.text[Message] \in Text
    BY <1>1, SlotKinds DEF State
  <2>2. \A y \in Slots : s.added[y] => t.added[y]
    BY <1>5, <1>7
  <2> QED BY <1>7, <1>9, <2>1, <2>2, NoText DEF Says
<1> QED BY <1>8, <1>13, <1>14

\* What a chunk does.
Chunked(s, t, ch) ==
  \E p, d \in State :
    /\ p.mode = s.mode /\ p.buffer = s.buffer /\ Says(s, p, ch.reasoning, <<>>)
    /\ IF ch.content = <<>> THEN d = p ELSE Content(p, d, ch.content)
    /\ IF ch.boundary THEN t.mode = "text" /\ Flushed(d, t) ELSE t = d

LEMMA SaysMore ==
  ASSUME NEW s \in State, NEW t, NEW u, NEW r \in Text, NEW m \in Text,
         Says(s, t, r, m), Says(t, u, <<>>, <<>>)
  PROVE  Says(s, u, r, m)
<1>1. Says(s, u, r \o <<>>, m \o <<>>)
  BY SaysBoth, NoText
<1>2. r \o <<>> = r /\ m \o <<>> = m
  BY NoText
<1> QED BY <1>1, <1>2

LEMMA FlushedMore ==
  ASSUME NEW s \in State, NEW t, NEW u, Flushed(s, t), Says(t, u, <<>>, <<>>)
  PROVE  Flushed(s, u)
<1>1. s.buffer \in Text /\ s.mode \in {"detecting", "reasoning", "text"} /\ <<>> \in Text
  BY NoText DEF State
<1>2. /\ splitLeadingThinkBlock(s.buffer).reasoning \in Text /\ splitLeadingThinkBlock(s.buffer).answer \in Text
      /\ stripLeadingThinkOpenTag(s.buffer) \in Text
  BY <1>1, SplitTexts
<1>3. \A r, m \in Text : Says(s, t, r, m) => Says(s, u, r, m)
  BY SaysMore
<1>4. t.done[Reasoning] => u.done[Reasoning]
  BY DEF Says
<1>5. \A r, m \in Text : Thinks(s, t, r, m) => Thinks(s, u, r, m)
  BY <1>3, <1>4 DEF Thinks
<1> QED BY <1>1, <1>2, <1>3, <1>5 DEF Flushed

LEMMA ChunkReading ==
  ASSUME NEW L, NEW c, NEW s, Reading(L, c, s), NEW ch \in Chunk,
         ch.reasoning # <<>> /\ s.done[Reasoning] => "reasoning" \in L,
         ch.call /\ "function_call" \notin L => ch.known \/ s.added[ch.index],
         ch.call => ch.boundary
  PROVE  Reading(L, c, handleChatChunk(s, ch)) /\ Chunked(s, handleChatChunk(s, ch), ch)
<1> DEFINE a == ensureStarted(s)
           p == IF ch.reasoning = <<>> THEN a ELSE PushDelta(a, Reasoning, ch.reasoning)
           d == IF ch.content = <<>> THEN p ELSE pushContentDelta(p, ch.content)
           f == flushInlineThink(d)
           r == Finalize(f, Reasoning)
           t == IF ch.call THEN pushToolCallDelta(r, ch, TrimSpace(f.text[Reasoning])) ELSE r
<1>1. handleChatChunk(s, ch) = IF ch.boundary THEN t ELSE d
  BY DEF handleChatChunk, atToolCalls
<1>2. ch.reasoning \in Text /\ ch.content \in Text /\ ch.index \in Slots /\ s \in State /\ Good(L, c, s)
  BY SlotKinds DEF Chunk, Reading, Good
<1>3. /\ Reading(L, c, a) /\ a.mode = s.mode /\ a.buffer = s.buffer /\ a.text = s.text
      /\ a.done = s.done /\ a.added = s.added
  <2>1. Good(L, c, a) /\ SameRest(s, a) /\ SameItems(s, a)
    BY <1>2, StartedGood, StartedEffect
  <2> HIDE DEF a
  <2> QED BY <2>1 DEF Reading, SameRest, SameItems
<1> HIDE DEF a
<1>4. Reading(L, c, p) /\ p.mode = s.mode /\ p.buffer = s.buffer /\ Says(s, p, ch.reasoning, <<>>)
  <2>1. CASE ch.reasoning = <<>>
    BY <1>2, <1>3, <2>1, SaysNothing
  <2>2. CASE ch.reasoning # <<>>
    <3> DEFINE q == PushDelta(a, Reasoning, ch.reasoning)
    <3>1. Good(L, c, q) /\ Pushed(a, q, Reasoning, ch.reasoning)
      BY <1>2, <1>3, <2>2, PushGood, SlotKinds DEF Reading
    <3>2. p = q /\ a \in State
      BY <1>3, <2>2 DEF Reading, Good
    <3> HIDE DEF q, p
    <3>3. Reading(L, c, q) /\ q.mode = s.mode /\ q.buffer = s.buffer
      BY <1>3, <3>1 DEF Reading, Pushed, SameRest
    <3>4. Says(a, q, ch.reasoning, <<>>)
      BY <1>2, <3>1, <3>2, PushSays
    <3>5. Says(s, q, ch.reasoning, <<>>)
      BY <1>3, <3>4 DEF Says
    <3> QED BY <3>2, <3>3, <3>5
  <2> QED BY <2>1, <2>2
<1> HIDE DEF p
<1>5. Reading(L, c, d) /\ IF ch.content = <<>> THEN d = p ELSE Content(p, d, ch.content)
  BY <1>2, <1>4, ContentReading
<1>6. \A x \in Slots : s.added[x] => d.added[x]
  <2>1. \A x \in Slots : s.added[x] => p.added[x]
    BY <1>4 DEF Says
  <2>2. \A x \in Slots : p.added[x] => d.added[x]
    <3> HIDE DEF d
    <3>1. CASE ch.content = <<>>
      BY <1>5, <3>1
    <3>2. CASE ch.content # <<>>
      <4>1. p.mode \in {"detecting", "reasoning", "text"}
        BY <1>4 DEF Reading, Good, State
      <4> QED BY <1>5, <3>2, <4>1 DEF Content, Says, Thinks
    <3> QED BY <3>1, <3>2
  <2> HIDE DEF d
  <2> QED BY <2>1, <2>2
<1> HIDE DEF d
<1>0. p \in State /\ d \in State
  BY <1>4, <1>5 DEF Reading, Good
<1>7. CASE ~ch.boundary
  BY <1>0, <1>1, <1>4, <1>5, <1>7 DEF Chunked
<1>8. CASE ch.boundary
  <2>1. Reading(L, c, f) /\ f.mode = "text" /\ Flushed(d, f) /\ f \in State /\ d \in State
    <3>1. Reading(L, c, f) /\ f.mode = "text" /\ Flushed(d, f)
      BY <1>5, FlushReading
    <3> HIDE DEF f
    <3> QED BY <1>5, <3>1 DEF Reading, Good
  <2>2. \A x \in Slots : d.added[x] => f.added[x]
    <3>1. d.mode \in {"detecting", "reasoning", "text"}
      BY <2>1 DEF State
    <3> HIDE DEF f
    <3> QED BY <2>1, <3>1 DEF Flushed, Says, Thinks
  <2> HIDE DEF f
  <2>3. Good(L, c, r) /\ Finalized(f, r, Reasoning)
    BY <2>1, FinalizeGood, SlotKinds DEF Reading
  <2> HIDE DEF r
  <2>4. /\ r.mode = "text" /\ r.text = f.text /\ r.added = f.added /\ (r.added[Reasoning] => r.done[Reasoning])
        /\ (f.done[Reasoning] => r.done[Reasoning]) /\ \A x \in Slots : x # Reasoning => r.done[x] = f.done[x]
    BY <2>1, <2>3, SlotKinds DEF Finalized, SameRest, State
  <2>5. Reading(L, c, r)
    BY <2>1, <2>3, <2>4, SlotKinds DEF Reading
  <2>6. Says(f, r, <<>>, <<>>)
    BY <2>1, <2>4, SaysNothing
  <2>7. Reading(L, c, t) /\ t.mode = "text" /\ Flushed(d, t)
    <3>1. Flushed(d, r)
      BY <2>1, <2>6, FlushedMore
    <3>2. CASE ~ch.call
      BY <2>4, <2>5, <3>1, <3>2
    <3>3. CASE ch.call
      <4> DEFINE u == pushToolCallDelta(r, ch, TrimSpace(r.text[Reasoning]))
      <4>1. "function_call" \notin L => ch.known \/ r.added[ch.index]
        BY <1>2, <1>6, <2>2, <2>4, <3>3
      <4>2. Reading(L, c, u) /\ u.mode = "text" /\ Says(r, u, <<>>, <<>>)
        BY <2>4, <2>5, <4>1, ToolReading
      <4>3. t = u
        BY <2>4, <3>3
      <4> HIDE DEF u, t
      <4>4. Flushed(d, u)
        BY <2>1, <3>1, <4>2, FlushedMore
      <4> QED BY <4>2, <4>3, <4>4
    <3> QED BY <3>2, <3>3
  <2> HIDE DEF t
  <2> QED BY <1>0, <1>1, <1>4, <1>5, <1>8, <2>7 DEF Chunked
<1> QED BY <1>7, <1>8

-----------------------------------------------------------------------------
(* The last event.                                                         *)

\* The texts an event lists.
OutputTexts(o) == [i \in DOMAIN o |-> o[i].text]

\* Its output is what a client has heard to be closed.
LEMMA OutputSound ==
  ASSUME NEW L, NEW s \in State, NEW texts, NEW k, Fits(L, s, texts, k)
  PROVE  /\ CompletedOutput(s) \in Seq(Out)
         /\ OutputTexts(CompletedOutput(s)) = Protocol!Finals(ClosedAmong(k.items))
         /\ Protocol!Finals(ClosedAmong(k.items)) \in Seq(Text)
<1> DEFINE ids == [p \in 1..s.next |-> p - 1]
           I == {s.items[i].index + 1 : i \in DOMAIN s.items}
           J == {i \in DOMAIN k.items : k.items[i].closed}
           order == Picked(ids, I)
           its == Picked(k.items, J)
           at(index) == s.items[CHOOSE i \in DOMAIN s.items : s.items[i].index = index]
           o == [n \in DOMAIN order |-> [kind |-> at(order[n]).kind, text |-> at(order[n]).text]]
<1>1. /\ k.items \in Seq(ClientItem) /\ Len(k.items) = s.next /\ s.next \in Nat /\ DOMAIN k.items = 1..s.next
      /\ Kept(s, k) /\ s.items \in Seq(Item)
  BY DEF Fits, Placed, Client, State
<1>2. ids \in Seq(Nat) /\ Len(ids) = s.next /\ \A p \in 1..s.next : ids[p] = p - 1
  BY <1>1
<1>3. CompletedOutput(s) = o
  BY DEF CompletedOutput
<1> HIDE DEF ids
<1>4. ASSUME NEW n \in 1..Len(ids) PROVE n \in I <=> n \in J
  <2>1. ASSUME n \in I PROVE n \in J
    <3>1. PICK i \in DOMAIN s.items : n = s.items[i].index + 1
      BY <2>1
    <3>2. k.items[s.items[i].index + 1].closed
      BY <1>1 DEF Kept
    <3> QED BY <1>1, <1>2, <3>1, <3>2
  <2>2. ASSUME n \in J PROVE n \in I
    <3>1. PICK i \in DOMAIN s.items : s.items[i].index = n - 1
      BY <1>1, <2>2 DEF Kept
    <3>2. n = s.items[i].index + 1
      BY <1>1, <1>2, <3>1
    <3> QED BY <3>2
  <2> QED BY <2>1, <2>2
<1> HIDE DEF I
<1>5. order = Picked(ids, J)
  BY <1>2, <1>4, PickedSame
<1> HIDE DEF order, at
<1>6. /\ order \in Seq(Nat) /\ its \in Seq(ClientItem) /\ Len(order) = Len(its)
      /\ \A n \in 1..Len(order) : \E p \in 1..Len(ids) : p \in J /\ order[n] = ids[p] /\ its[n] = k.items[p]
  <2> HIDE DEF J
  <2>1. ids \in Seq(Nat) /\ k.items \in Seq(ClientItem) /\ Len(k.items) = Len(ids)
    BY <1>1, <1>2
  <2>2. /\ Picked(ids, J) \in Seq(Nat) /\ Picked(k.items, J) \in Seq(ClientItem)
        /\ Len(Picked(ids, J)) = Len(Picked(k.items, J))
        /\ \A n \in 1..Len(Picked(ids, J)) :
             \E p \in 1..Len(ids) : p \in J /\ Picked(ids, J)[n] = ids[p] /\ Picked(k.items, J)[n] = k.items[p]
    <3> DEFINE ks == k.items
    <3> HIDE DEF ids, ks
    <3>1. ids \in Seq(Nat) /\ ks \in Seq(ClientItem) /\ Len(ks) = Len(ids)
      BY <2>1 DEF ks
    <3>2. /\ Picked(ids, J) \in Seq(Nat) /\ Picked(ks, J) \in Seq(ClientItem)
          /\ Len(Picked(ids, J)) = Len(Picked(ks, J))
          /\ \A n \in 1..Len(Picked(ids, J)) :
               \E p \in 1..Len(ids) : p \in J /\ Picked(ids, J)[n] = ids[p] /\ Picked(ks, J)[n] = ks[p]
      BY <3>1, PickedByPosition
    <3> QED BY <3>2 DEF ks
  <2>3. its = Picked(k.items, J)
    OBVIOUS
  <2> HIDE DEF its
  <2> QED BY <1>5, <2>2, <2>3
<1> HIDE DEF its
<1>7. ASSUME NEW n \in 1..Len(order)
      PROVE  at(order[n]) \in Item /\ at(order[n]).text = its[n].final
  <2>1. PICK p \in 1..Len(ids) : p \in J /\ order[n] = ids[p] /\ its[n] = k.items[p]
    BY <1>6
  <2>2. order[n] = p - 1 /\ p \in DOMAIN k.items /\ k.items[p].closed /\ p \in Nat
    BY <1>1, <1>2, <2>1
  <2>3. \E i \in DOMAIN s.items : s.items[i].index = order[n]
    BY <1>1, <2>2 DEF Kept
  <2> DEFINE i == CHOOSE i \in DOMAIN s.items : s.items[i].index = order[n]
  <2>4. i \in DOMAIN s.items /\ s.items[i].index = order[n] /\ at(order[n]) = s.items[i]
    BY <2>3 DEF at
  <2> HIDE DEF i
  <2>5. s.items[i] \in Item /\ k.items[s.items[i].index + 1].final = s.items[i].text
    BY <1>1, <2>4 DEF Kept
  <2>6. s.items[i].index + 1 = p
    BY <2>2, <2>4
  <2> QED BY <2>1, <2>4, <2>5, <2>6
<1>8. DOMAIN order = 1..Len(order) /\ DOMAIN its = 1..Len(order) /\ Len(order) \in Nat
  BY <1>6
<1>9. /\ DOMAIN o = 1..Len(order)
      /\ \A n \in 1..Len(order) : o[n] \in Out /\ o[n].text = its[n].final
  BY <1>7, <1>8 DEF Item, Out
<1>10. o \in Seq(Out)
  <2>1. o = [n \in 1..Len(order) |-> o[n]]
    BY <1>8
  <2> HIDE DEF o
  <2> QED BY <1>8, <1>9, <2>1
<1> HIDE DEF o
<1>11. [n \in DOMAIN o |-> o[n].text] = [n \in DOMAIN its |-> its[n].final]
  BY <1>8, <1>9
<1>12. Protocol!Finals(its) = [n \in DOMAIN its |-> its[n].final]
  BY DEF Protocol!Finals
<1>13. [n \in DOMAIN its |-> its[n].final] \in Seq(Text)
  <2>1. ASSUME NEW n \in 1..Len(order) PROVE its[n].final \in Text
    <3>1. its[n] \in ClientItem
      BY <1>6, <1>8
    <3> QED BY <3>1 DEF ClientItem
  <2> QED BY <1>8, <2>1
<1>14. ClosedAmong(k.items) = its
  BY DEF ClosedAmong, its
<1> QED BY <1>3, <1>10, <1>11, <1>12, <1>13, <1>14 DEF OutputTexts

\* A stream that is over.
Finished(L, c, s) ==
  /\ s \in State /\ Sound(L, c, s) /\ s.completed
  /\ L = {} => Carries(s)

\* A client that hears all events is told of this end.
WillEnd(L, c, s, type) == \E k : Tells(L, c, s.events, k) /\ k.phase = type

LEMMA EndSound ==
  ASSUME NEW L, NEW c, NEW s, Good(L, c, s), NEW type \in {"completed", "failed"},
         type = "completed" => s.started /\ \A x \in Slots : s.added[x] => s.done[x]
  PROVE  LET t == Emit([s EXCEPT !.completed = TRUE], Notice(type, CompletedOutput(s))) IN
         Finished(L, c, t) /\ t.text = s.text /\ WillEnd(L, c, t, type)
<1> DEFINE r == [s EXCEPT !.completed = TRUE]
           e == Notice(type, CompletedOutput(s))
           t == Emit(r, e)
<1>1. s \in State /\ ~s.completed
  BY DEF Good
<1>2. PICK k : Tells(L, c, s.events, k) /\ Fits(L, s, s.text, k)
  BY DEF Good, Sound, SoundBut
<1> DEFINE finals == Protocol!Finals(ClosedAmong(k.items))
           m == [k EXCEPT !.phase = type, !.output = finals]
<1>3. CompletedOutput(s) \in Seq(Out) /\ finals \in Seq(Text) /\ OutputTexts(CompletedOutput(s)) = finals
  BY <1>1, <1>2, OutputSound
<1>4. /\ r \in State /\ r.events = s.events /\ r.started = s.started /\ r.completed = TRUE /\ SameItems(s, r)
      /\ r.seen = s.seen /\ r.carried = s.carried
  BY <1>1 DEF State, SameItems
<1>5. e \in Events /\ e.type = type /\ e.output = CompletedOutput(s)
  BY <1>3, NoticeEvents
<1>6. k \in Client /\ k.phase \in {"silent", "open"} /\ (s.started => k.phase = "open")
  BY <1>1, <1>2 DEF Fits
<1> HIDE DEF r, e
<1>7. Hears(k, e) = m
  <2>1. ~Over(k.phase)
    BY <1>6 DEF Over
  <2>2. Hears(k, e) = [k EXCEPT !.phase = IF Over(@) THEN "ended twice" ELSE e.type,
                   !.output = [i \in DOMAIN e.output |-> e.output[i].text]]
    BY <1>5 DEF Hears
  <2> HIDE DEF finals
  <2> QED BY <1>3, <1>5, <2>1, <2>2 DEF OutputTexts
<1>8. Legal(L, k, m)
  <2>1. CASE type = "failed"
    <3>1. m = EndedAs(k, "failed", ClosedAmong(k.items))
      BY <2>1 DEF EndedAs
    <3> HIDE DEF m
    <3> QED BY <1>6, <3>1 DEF Legal
  <2>2. CASE type = "completed"
    <3>1. ASSUME NEW i \in DOMAIN k.items PROVE k.items[i].closed
      <4>1. i \in 1..s.next
        BY <1>2 DEF Fits, Placed, Client
      <4>2. PICK x \in Slots : s.added[x] /\ s.index[x] = i - 1
        BY <1>2, <4>1 DEF Fits, Placed
      <4>3. s.index[x] + 1 = i
        BY <1>1, <4>1, <4>2 DEF State
      <4> QED BY <1>2, <2>2, <4>2, <4>3 DEF Fits, Shown
    <3>2. k.items \in Seq(ClientItem) /\ DOMAIN k.items \subseteq {i \in DOMAIN k.items : k.items[i].closed}
      BY <1>6, <3>1 DEF Client
    <3>3. ClosedAmong(k.items) = k.items
      BY <3>2, PickedAll DEF ClosedAmong
    <3>4. m = EndedAs(k, "completed", k.items)
      BY <2>2, <3>3 DEF EndedAs
    <3> HIDE DEF m
    <3> QED BY <1>6, <2>2, <3>1, <3>4 DEF Legal
  <2> QED BY <2>1, <2>2
<1> HIDE DEF finals
<1>9. m \in Client /\ m.phase = type /\ m.items = k.items
  BY <1>3, <1>6 DEF Client
<1> HIDE DEF m
<1>10. /\ t \in State /\ t.events = Append(s.events, e) /\ t.started = s.started /\ t.completed = TRUE
       /\ SameItems(s, t) /\ t.seen = s.seen /\ t.carried = s.carried
  BY <1>4, <1>5, Emitted DEF SameItems, SameRest
<1> HIDE DEF t
<1>11. Tells(L, c, t.events, m)
  <2>1. s.events \in Seq(Events)
    BY <1>1 DEF State
  <2> QED BY <1>2, <1>5, <1>7, <1>8, <1>9, <1>10, <2>1, TellsMore
<1>12. Fits(L, t, t.text, m)
  <2>1. Placed(t, m) /\ Shown(L, t, t.text, m) /\ Kept(t, m)
    BY <1>2, <1>9, <1>10 DEF Fits, Placed, Shown, Kept, SameItems
  <2> QED BY <1>9, <1>10, <2>1 DEF Fits, Over
<1>13. L = {} => Carries(t)
  BY <1>10 DEF Good, Carries, SameItems
<1>14. Finished(L, c, t) /\ t.text = s.text /\ WillEnd(L, c, t, type)
  BY <1>9, <1>10, <1>11, <1>12, <1>13 DEF Finished, Sound, SoundBut, SameItems, WillEnd
<1> QED BY <1>14 DEF t, r, e

LEMMA FailedGood ==
  ASSUME NEW L, NEW c, NEW s, Good(L, c, s) \/ Finished(L, c, s)
  PROVE  /\ Finished(L, c, failedEvents(s))
         /\ IF s.completed THEN failedEvents(s) = s ELSE WillEnd(L, c, failedEvents(s), "failed")
<1>1. CASE Finished(L, c, s)
  BY <1>1 DEF failedEvents, Finished
<1>2. CASE Good(L, c, s)
  <2> DEFINE t == Emit([s EXCEPT !.completed = TRUE], Notice("failed", CompletedOutput(s)))
  <2>1. failedEvents(s) = t
    BY <1>2 DEF failedEvents, Good
  <2>2. Finished(L, c, t) /\ WillEnd(L, c, t, "failed")
    BY <1>2, EndSound
  <2> HIDE DEF t
  <2> QED BY <1>2, <2>1, <2>2 DEF Good
<1> QED BY <1>1, <1>2

\* [DONE] was read.
Closing(L, c, s) ==
  /\ Good(L, c, s) /\ s.started
  /\ s.added[Reasoning] => s.done[Reasoning]
  /\ s.added[Message] => s.done[Message]

LEMMA FinalizeItemsClosing ==
  ASSUME NEW L, NEW c, NEW s, Reading(L, c, s)
  PROVE  Closing(L, c, FinalizeItems(s)) /\ Flushed(s, FinalizeItems(s))
<1> DEFINE a == ensureStarted(s)
           f == flushInlineThink(a)
           r == Finalize(f, Reasoning)
           t == Finalize(r, Message)
<1>1. FinalizeItems(s) = t
  BY DEF FinalizeItems
<1>2. s \in State /\ Good(L, c, s)
  BY DEF Reading, Good
<1>3. /\ Reading(L, c, a) /\ a.mode = s.mode /\ a.buffer = s.buffer /\ a.text = s.text /\ a.added = s.added
      /\ a.done = s.done /\ a.started
  <2>1. Good(L, c, a) /\ SameRest(s, a) /\ SameItems(s, a) /\ a.started
    BY <1>2, StartedGood, StartedEffect
  <2> HIDE DEF a
  <2> QED BY <1>2, <2>1 DEF Reading, SameRest, SameItems
<1> HIDE DEF a
<1>4. Reading(L, c, f) /\ Flushed(a, f) /\ f.started
  BY <1>3, FlushReading
<1>5. Flushed(s, f)
  <2>1. \A u, v, w : (Says(a, u, v, w) <=> Says(s, u, v, w)) /\ (Thinks(a, u, v, w) <=> Thinks(s, u, v, w))
    BY <1>3 DEF Says, Thinks
  <2> HIDE DEF f
  <2>2. s.mode \in {"detecting", "reasoning", "text"}
    BY <1>2 DEF State
  <2> QED BY <1>3, <1>4, <2>1, <2>2 DEF Flushed
<1> HIDE DEF f
<1>6. Good(L, c, r) /\ Finalized(f, r, Reasoning) /\ f \in State /\ r \in State
  <2>1. Good(L, c, f) /\ f \in State
    BY <1>4 DEF Reading, Good
  <2> QED BY <2>1, FinalizeGood, SlotKinds DEF Good
<1> HIDE DEF r
<1>7. Good(L, c, t) /\ Finalized(r, t, Message) /\ t \in State
  BY <1>6, FinalizeGood, SlotKinds DEF Good
<1> HIDE DEF t
<1>8. t.text = f.text /\ t.added = f.added /\ t.started /\ (f.done[Reasoning] => t.done[Reasoning])
  BY <1>4, <1>6, <1>7, SlotKinds DEF Finalized, State
<1>9. (t.added[Reasoning] => t.done[Reasoning]) /\ (t.added[Message] => t.done[Message])
  <2>1. f.added[Reasoning] => r.done[Reasoning]
    BY <1>6, SlotKinds DEF Finalized, State
  <2>2. (r.done[Reasoning] => t.done[Reasoning]) /\ (r.added[Message] => t.done[Message])
    BY <1>6, <1>7, SlotKinds DEF Finalized, State
  <2> QED BY <1>6, <1>7, <2>1, <2>2 DEF Finalized
<1>10. Flushed(s, t)
  <2>1. Says(f, t, <<>>, <<>>)
    BY <1>6, <1>8, SaysNothing
  <2> QED BY <1>2, <1>5, <2>1, FlushedMore
<1> QED BY <1>1, <1>7, <1>8, <1>9, <1>10 DEF Closing

\* A call that was seen is announced at the end, if it was not before, and closed.
LEMMA AnnounceGood ==
  ASSUME NEW L, NEW c, NEW s, Good(L, c, s), NEW x \in s.seen
  PROVE  Good(L, c, Announce(s, x)) /\ Announced(s, Announce(s, x), x)
<1> DEFINE t == Announce(s, x)
<1>1. s \in State /\ x \in Tools /\ x \in Slots /\ s.text \in Texts
  BY SlotKinds DEF Good, State, Texts
<1>2. t \in State /\ Announced(s, t, x)
  BY <1>1, AnnounceEffect
<1>3. SoundBut(L, c, t, s.text)
  BY <1>1, AnnounceSound DEF Good, Sound
<1> HIDE DEF t
<1>4. /\ t.started /\ ~t.completed /\ t.text = s.text /\ t.seen = s.seen /\ t.carried = s.carried /\ t.done = s.done
      /\ \A y \in Slots : y # x => t.added[y] = s.added[y]
  BY <1>1, <1>2 DEF Announced, SameRest, Good, State
<1>5. Unseen(t)
  BY <1>1, <1>4, SlotKinds DEF Unseen, Good
<1>6. ASSUME L = {} PROVE Carries(t)
  <2>1. Carries(s) /\ s.added[x]
    BY <1>6 DEF Good, Carries
  <2>2. t.added = s.added /\ t.index = s.index
    BY <1>1, <1>2, <2>1 DEF Announced, State
  <2> QED BY <1>4, <2>1, <2>2 DEF Carries
<1>7. Good(L, c, t)
  BY <1>2, <1>3, <1>4, <1>5, <1>6 DEF Good, Sound
<1> QED BY <1>2, <1>7 DEF t

LEMMA FinalizeToolClosing ==
  ASSUME NEW L, NEW c, NEW s, Closing(L, c, s), NEW x \in OpenCalls(s)
  PROVE  Closing(L, c, FinalizeTool(s, x)) /\ Says(s, FinalizeTool(s, x), <<>>, <<>>)
<1> DEFINE a == Announce(s, x)
           t == Finalize(a, x)
<1>1. FinalizeTool(s, x) = t
  BY DEF FinalizeTool
<1>2. /\ Good(L, c, s) /\ s \in State /\ x \in s.seen /\ x \in Tools /\ x \in Slots
      /\ x # Reasoning /\ x # Message
  BY SlotKinds DEF Closing, Good, State, OpenCalls
<1>3. Good(L, c, a) /\ Announced(s, a, x) /\ a \in State
  BY <1>2, AnnounceGood DEF Good
<1> HIDE DEF a
<1>4. Good(L, c, t) /\ Finalized(a, t, x) /\ t \in State
  BY <1>2, <1>3, FinalizeGood DEF Good
<1> HIDE DEF t
<1>5. /\ t.started /\ t.text = s.text /\ (s.done[Reasoning] => t.done[Reasoning])
      /\ \A y \in Slots : s.added[y] => t.added[y]
  BY <1>2, <1>3, <1>4, SlotKinds DEF Announced, Finalized, State
<1>6. ASSUME NEW y \in {Reasoning, Message} PROVE t.added[y] => t.done[y]
  <2>1. y \in Slots /\ y # x
    BY <1>2, SlotKinds
  <2>2. t.added[y] = s.added[y] /\ t.done[y] = s.done[y]
    BY <1>2, <1>3, <1>4, <2>1 DEF Announced, Finalized, State
  <2> QED BY <2>2 DEF Closing
<1>7. Says(s, t, <<>>, <<>>)
  <2>1. s.text[Reasoning] \in Text /\ s.text[Message] \in Text
    BY <1>2, SlotKinds DEF State
  <2> QED BY <1>5, <2>1, NoText DEF Says
<1> QED BY <1>1, <1>4, <1>5, <1>6, <1>7 DEF Closing

\* All is closed when no call is open.
LEMMA CompleteFinished ==
  ASSUME NEW L, NEW c, NEW s, Closing(L, c, s), OpenCalls(s) = {}
  PROVE  Finished(L, c, CompleteResponse(s)) /\ CompleteResponse(s).text = s.text
<1> DEFINE t == Emit([s EXCEPT !.completed = TRUE], Notice("completed", CompletedOutput(s)))
<1>1. CompleteResponse(s) = t
  BY DEF CompleteResponse
<1>2. Good(L, c, s) /\ s.started
  BY DEF Closing
<1>3. ASSUME NEW x \in Slots, s.added[x] PROVE s.done[x]
  <2>1. CASE x \in {Reasoning, Message}
    BY <1>3, <2>1 DEF Closing
  <2>2. CASE x \in Tools
    <3>1. x \in s.seen
      BY <1>2, <1>3, <2>2 DEF Good, Unseen
    <3> QED BY <3>1 DEF OpenCalls
  <2> QED BY <2>1, <2>2, SlotKinds
<1>4. Finished(L, c, t) /\ t.text = s.text
  BY <1>2, <1>3, EndSound
<1> QED BY <1>1, <1>4

-----------------------------------------------------------------------------
(* The inductive invariant.                                                *)

\* Between two blocks: a stream that goes on, or is over.
Stage(L, c, s) == IF s.completed THEN Finished(L, c, s) ELSE Reading(L, c, s)

Left(L, s) == s \in State /\ (L = {} => Carries(s))

StreamInv ==
  /\ upstream \in Upstreams /\ client \in Client /\ got \in Seq(Chunks[upstream.about])
  /\ pc \in {"read", "tools", "write", "returned"} /\ then \in {"read", "return", "fail"} /\ lost \in BOOLEAN
  /\ pc = "read" => st.events = <<>> /\ then = "read" /\ Stage(Loose(upstream), client, st)
  /\ pc = "write" => Stage(Loose(upstream), client, st) /\ (then # "read" => st.completed)
  /\ pc = "tools" => Closing(Loose(upstream), client, st)
  /\ pc = "returned" => Left(Loose(upstream), st) /\ (Heard /\ ~lost => Over(client.phase))

LEMMA StageLeft ==
  ASSUME NEW L, NEW c, NEW s
  PROVE  /\ Stage(L, c, s) => Left(L, s) /\ Sound(L, c, s)
         /\ Closing(L, c, s) => Left(L, s) /\ Sound(L, c, s)
BY DEF Stage, Finished, Reading, Closing, Good, Left

\* When all events went out, the client is told of the end.
LEMMA StageHeard ==
  ASSUME NEW L, NEW c \in Client, NEW s, Stage(L, c, s), s.events = <<>>
  PROVE  Fits(L, s, s.text, c) /\ (s.completed => Over(c.phase))
<1>1. PICK k : Tells(L, c, s.events, k) /\ Fits(L, s, s.text, k)
  BY StageLeft DEF Sound, SoundBut
<1>2. k = c
  BY <1>1, TellsNothing
<1> QED BY <1>1, <1>2 DEF Fits

WithEvents(s, es) == [s EXCEPT !.events = es]

\* An event goes out.
LEMMA StageWrites ==
  ASSUME NEW L, NEW c, NEW s, Stage(L, c, s), s.events # <<>>
  PROVE  LET d == Hears(c, Head(s.events))
             t == WithEvents(s, Tail(s.events))
         IN d \in Client /\ Legal(L, c, d) /\ Stage(L, d, t) /\ t.completed = s.completed
<1> DEFINE d == Hears(c, Head(s.events))
           t == WithEvents(s, Tail(s.events))
<1>1. s \in State /\ s.events \in Seq(Events) /\ Sound(L, c, s)
  BY StageLeft DEF Left, State
<1>2. PICK k : Tells(L, c, s.events, k) /\ Fits(L, s, s.text, k)
  BY <1>1 DEF Sound, SoundBut
<1>3. d \in Client /\ Legal(L, c, d) /\ Tail(s.events) \in Seq(Events) /\ Tells(L, d, Tail(s.events), k)
  BY <1>1, <1>2, TellsFirst
<1> HIDE DEF d
<1>4. /\ t \in State /\ t.events = Tail(s.events) /\ SameItems(s, t) /\ SameRest(s, t) /\ t.started = s.started
  BY <1>1, <1>3 DEF State, SameItems, SameRest, WithEvents
<1> HIDE DEF t
<1>5. Fits(L, t, t.text, k)
  BY <1>2, <1>4 DEF Fits, Placed, Shown, Kept, SameItems, SameRest
<1>6. Sound(L, d, t)
  BY <1>3, <1>4, <1>5 DEF Sound, SoundBut
<1>7. Stage(L, d, t)
  <2>1. /\ Carries(s) => Carries(t)
        /\ Unseen(s) => Unseen(t)
    BY <1>4 DEF Carries, Unseen, SameItems, SameRest
  <2>2. CASE s.completed
    BY <1>4, <1>6, <2>1, <2>2 DEF Stage, Finished, SameRest
  <2>3. CASE ~s.completed
    <3>1. Reading(L, c, s)
      BY <2>3 DEF Stage
    <3>2. Good(L, d, t)
      BY <1>4, <1>6, <2>1, <3>1 DEF Reading, Good, SameRest, SameItems
    <3>3. Reading(L, d, t)
      BY <1>4, <3>1, <3>2 DEF Reading, SameRest, SameItems
    <3> QED BY <1>4, <2>3, <3>3 DEF Stage, SameRest
  <2> QED BY <2>2, <2>3
<1> QED BY <1>3, <1>4, <1>7 DEF d, t, SameRest

\* Before anything was said.
LEMMA InitStream == Init => StreamInv /\ Reading(Loose(upstream), NewClient, st)
<1> SUFFICES ASSUME Init PROVE StreamInv /\ Reading(Loose(upstream), NewClient, st)
  OBVIOUS
<1> DEFINE L == Loose(upstream)
<1>1. /\ upstream \in Upstreams /\ client = NewClient /\ pc = "read" /\ then = "read" /\ lost = FALSE /\ got = <<>>
      /\ st.started = FALSE /\ st.completed = FALSE /\ st.next = 0
      /\ st.added = [x \in Slots |-> FALSE] /\ st.done = [x \in Slots |-> FALSE]
      /\ st.text = [x \in Slots |-> <<>>] /\ st.carried = [x \in Slots |-> <<>>]
      /\ st.seen = {} /\ st.items = <<>> /\ st.events = <<>>
  BY DEF Init
<1>2. st \in State
  <2>1. <<>> \in Text /\ -1 \in Indexes /\ <<>> \in Seq(Item) /\ <<>> \in Seq(Events)
    BY DEF Text, Indexes
  <2> QED BY <2>1 DEF Init, State
<1>3. /\ NewClient \in Client /\ NewClient.phase = "silent" /\ NewClient.items = <<>>
  <2>1. <<>> \in Seq(ClientItem) /\ <<>> \in Seq(Text)
    OBVIOUS
  <2> QED BY <2>1 DEF NewClient, Client
<1>4. Sound(L, NewClient, st)
  <2>1. Tells(L, NewClient, st.events, NewClient)
    BY <1>1, <1>3, TellsNothing
  <2>2. Len(<<>>) = 0 /\ DOMAIN <<>> = {} /\ 1..0 = {}
    OBVIOUS
  <2>3. Placed(st, NewClient) /\ Shown(L, st, st.text, NewClient) /\ Kept(st, NewClient)
    BY <1>1, <1>3, <2>2 DEF Placed, Shown, Kept, Numbered
  <2>4. Fits(L, st, st.text, NewClient)
    BY <1>1, <1>3, <2>3 DEF Fits
  <2> QED BY <2>1, <2>4 DEF Sound, SoundBut
<1>5. Good(L, NewClient, st)
  <2>1. Unseen(st) /\ Carries(st)
    BY <1>1, SlotKinds DEF Unseen, Carries
  <2> QED BY <1>1, <1>2, <1>4, <2>1 DEF Good
<1>6. Reading(L, NewClient, st)
  BY <1>1, <1>5, SlotKinds DEF Reading
<1>7. StreamInv
  <2>1. got \in Seq(Chunks[upstream.about])
    BY <1>1
  <2>2. Stage(L, client, st)
    BY <1>1, <1>6 DEF Stage
  <2> QED BY <1>1, <1>3, <2>1, <2>2 DEF StreamInv
<1> QED BY <1>6, <1>7

\* A chunk keeps the manners of the upstream.
LEMMA ReadChunkStage ==
  ASSUME StreamInv, ReadChunk, NEW ch \in Chunks[upstream.about], MaySend(ch), ~st.completed
  PROVE  /\ Reading(Loose(upstream), client, handleChatChunk(st, ch))
         /\ Chunked(st, handleChatChunk(st, ch), ch)
<1> DEFINE L == Loose(upstream)
<1>1. Reading(L, client, st) /\ ch \in Chunk /\ (ch.call => ch.boundary)
  <2>1. pc = "read" /\ upstream \in Upstreams
    BY DEF ReadChunk, StreamInv
  <2> QED BY <2>1, ChunksAssumption DEF StreamInv, Stage
<1>2. /\ ch.reasoning # <<>> /\ st.done[Reasoning] => "reasoning" \in L
      /\ ch.call /\ "function_call" \notin L => ch.known \/ st.added[ch.index]
  BY DEF MaySend, Loose
<1> HIDE DEF L
<1>3. Reading(L, client, handleChatChunk(st, ch)) /\ Chunked(st, handleChatChunk(st, ch), ch)
  BY <1>1, <1>2, ChunkReading
<1> QED BY <1>3 DEF L

LEMMA NextStream ==
  ASSUME StreamInv, [Next]_vars
  PROVE  StreamInv' /\ upstream' = upstream /\ Legal(Loose(upstream), client, client')
<1> DEFINE L == Loose(upstream)
<1>1. ASSUME UNCHANGED client PROVE Legal(L, client, client')
  BY <1>1 DEF Legal
<1>2. CASE ReadChunk
  <2>1. PICK ch \in Chunks[upstream.about] :
          /\ MaySend(ch)
          /\ IF st.completed THEN UNCHANGED <<upstream, st, pc, got>>
             ELSE /\ st' = handleChatChunk(st, ch)
                  /\ pc' = "write"
                  /\ got' = Append(got, ch)
    BY <1>2 DEF ReadChunk
  <2>2. UNCHANGED <<upstream, client, then, lost>> /\ pc = "read"
    BY <1>2 DEF ReadChunk
  <2>3. CASE st.completed
    BY <1>1, <2>1, <2>2, <2>3 DEF StreamInv, Heard
  <2>4. CASE ~st.completed
    <3>1. Reading(L, client, st')
      BY <1>2, <2>1, <2>4, ReadChunkStage
    <3>2. Stage(L, client, st') /\ then = "read"
      <4>1. ~st'.completed
        BY <3>1 DEF Reading, Good
      <4> QED BY <2>2, <3>1, <4>1 DEF Stage, StreamInv
    <3>3. got' \in Seq(Chunks[upstream.about])
      BY <2>1, <2>4 DEF StreamInv
    <3> QED BY <1>1, <2>1, <2>2, <2>4, <3>2, <3>3 DEF StreamInv
  <2> QED BY <2>3, <2>4
<1>3. CASE ReadError
  <2>1. st' = failedEvents(st) /\ pc' = "write" /\ UNCHANGED <<upstream, client, then, lost, got>> /\ pc = "read"
    BY <1>3 DEF ReadError
  <2>2. Finished(L, client, st')
    BY <2>1, FailedGood DEF StreamInv, Stage, Reading
  <2>3. Stage(L, client, st') /\ st'.completed
    BY <2>2 DEF Stage, Finished
  <2> QED BY <1>1, <2>1, <2>3 DEF StreamInv
<1>4. CASE ReadDone
  <2>1. /\ st' = FinalizeItems(st) /\ pc' = "tools" /\ UNCHANGED <<upstream, client, then, lost, got>>
        /\ pc = "read" /\ ~st.completed
    BY <1>4 DEF ReadDone
  <2>2. Closing(L, client, st')
    BY <2>1, FinalizeItemsClosing DEF StreamInv, Stage
  <2> QED BY <1>1, <2>1, <2>2 DEF StreamInv
<1>5. CASE ReadEOF
  <2>1. UNCHANGED <<upstream, client, lost, got>> /\ pc = "read"
    BY <1>5 DEF ReadEOF
  <2>2. CASE ~st.completed /\ Heard
    <3>1. st' = FinalizeItems(st) /\ pc' = "tools" /\ then' = "return"
      BY <1>5, <2>2 DEF ReadEOF
    <3>2. Closing(L, client, st')
      BY <2>1, <2>2, <3>1, FinalizeItemsClosing DEF StreamInv, Stage
    <3> QED BY <1>1, <2>1, <3>1, <3>2 DEF StreamInv
  <2>3. CASE ~(~st.completed /\ Heard)
    <3>1. st' = st /\ pc' = "returned" /\ then' \in {"return", "fail"}
      BY <1>5, <2>3 DEF ReadEOF
    <3>2. Left(L, st) /\ (st.completed => Over(client.phase))
      BY <2>1, StageLeft, StageHeard DEF StreamInv
    <3> QED BY <1>1, <2>1, <2>3, <3>1, <3>2 DEF StreamInv, Heard
  <2> QED BY <2>2, <2>3
<1>6. CASE ReadFails
  <2>1. UNCHANGED <<upstream, client, lost, got>> /\ pc = "read" /\ then' = "fail"
    BY <1>6 DEF ReadFails
  <2>2. CASE ~Heard
    <3>1. st' = st /\ pc' = "returned"
      BY <1>6, <2>2 DEF ReadFails
    <3>2. Left(L, st)
      BY <2>1, StageLeft DEF StreamInv
    <3> QED BY <1>1, <2>1, <2>2, <3>1, <3>2 DEF StreamInv, Heard
  <2>3. CASE Heard
    <3>1. st' = failedEvents(st) /\ pc' = "write"
      BY <1>6, <2>3 DEF ReadFails
    <3>2. Finished(L, client, st')
      BY <2>1, <3>1, FailedGood DEF StreamInv, Stage, Reading
    <3>3. Stage(L, client, st') /\ st'.completed
      BY <3>2 DEF Stage, Finished
    <3> QED BY <1>1, <2>1, <3>1, <3>3 DEF StreamInv
  <2> QED BY <2>2, <2>3
<1>7. CASE CloseTool
  <2>1. UNCHANGED <<upstream, client, pc, then, lost, got>> /\ pc = "tools"
    BY <1>7 DEF CloseTool
  <2>2. PICK x \in OpenCalls(st) : st' = FinalizeTool(st, x)
    BY <1>7 DEF CloseTool
  <2>3. Closing(L, client, st')
    BY <2>1, <2>2, FinalizeToolClosing DEF StreamInv
  <2> QED BY <1>1, <2>1, <2>3 DEF StreamInv
<1>8. CASE FinishResponse
  <2>1. /\ UNCHANGED <<upstream, client, then, lost, got>> /\ pc = "tools" /\ pc' = "write"
        /\ OpenCalls(st) = {} /\ st' = CompleteResponse(st)
    BY <1>8 DEF FinishResponse
  <2>2. Finished(L, client, st')
    BY <2>1, CompleteFinished DEF StreamInv
  <2>3. Stage(L, client, st') /\ st'.completed
    BY <2>2 DEF Stage, Finished
  <2> QED BY <1>1, <2>1, <2>3 DEF StreamInv
<1>9. CASE WriteEvent
  <2>1. /\ pc = "write" /\ st.events # <<>> /\ client' = Hears(client, Head(st.events))
        /\ UNCHANGED <<upstream, got>> /\ st' = WithEvents(st, Tail(st.events))
    BY <1>9 DEF WriteEvent, WithEvents
  <2>2. \/ UNCHANGED <<pc, then, lost>>
        \/ pc' = "returned" /\ then' = "fail" /\ lost' = TRUE
    BY <1>9 DEF WriteEvent
  <2>3. /\ client' \in Client /\ Legal(L, client, client') /\ Stage(L, client', st')
        /\ st'.completed = st.completed
    BY <2>1, StageWrites DEF StreamInv
  <2>4. Left(L, st')
    BY <2>3, StageLeft
  <2> QED BY <2>1, <2>2, <2>3, <2>4 DEF StreamInv
<1>10. CASE Written
  <2>1. /\ pc = "write" /\ st.events = <<>> /\ UNCHANGED <<upstream, st, client, then, lost, got>>
        /\ pc' = IF then = "read" THEN "read" ELSE "returned"
    BY <1>10 DEF Written
  <2>2. Stage(L, client, st) /\ Left(L, st) /\ (st.completed => Over(client.phase))
    BY <2>1, StageLeft, StageHeard DEF StreamInv
  <2> QED BY <1>1, <2>1, <2>2 DEF StreamInv, Heard
<1>11. CASE UNCHANGED vars
  BY <1>1, <1>11 DEF vars, StreamInv, Heard
<1> QED
  BY <1>2, <1>3, <1>4, <1>5, <1>6, <1>7, <1>8, <1>9, <1>10, <1>11 DEF Next

\* Every behaviour keeps the invariant, and shows the client only what it may see.
LEMMA StreamInvariant == Spec => []StreamInv
<1>1. Init => StreamInv
  BY InitStream
<1>2. StreamInv /\ [Next]_vars => StreamInv'
  BY NextStream
<1> QED BY <1>1, <1>2, PTL DEF Spec

-----------------------------------------------------------------------------
(* Content that grows.                                                     *)

First(i, t) == i \in Solid(t) /\ \A j \in Solid(t) : i <= j

LEMMA TextFacts ==
  ASSUME NEW t \in Text
  PROVE  t \in Seq(Piece) /\ Len(t) \in Nat /\ DOMAIN t = 1..Len(t)
BY DEF Text

LEMMA SolidFacts ==
  ASSUME NEW t \in Text
  PROVE  /\ Len(t) \in Nat /\ Solid(t) \subseteq 1..Len(t) /\ Solid(t) \subseteq Nat
         /\ \A i \in 1..Len(t) : i \in Solid(t) <=> t[i] # "white"
<1>1. Len(t) \in Nat /\ DOMAIN t = 1..Len(t)
  BY TextFacts
<1> QED BY <1>1 DEF Solid

\* The text from i on.
Rest(t, i) == SubSeq(t, i, Len(t))

IsRest(u, t, i) ==
  u \in Text /\ Len(u) = Len(t) - i + 1 /\ \A n \in 1..Len(u) : u[n] = t[i + n - 1]

LEMMA RestFacts ==
  ASSUME NEW t \in Text, NEW i \in 1..Len(t)
  PROVE  IsRest(Rest(t, i), t, i)
<1>1. t \in Seq(Piece) /\ Len(t) \in Nat
  BY TextFacts
<1> QED BY <1>1 DEF Rest, Text, IsRest

\* Equal pieces, equal texts.
LEMMA SameTexts ==
  ASSUME NEW a \in Text, NEW b \in Text, Len(a) = Len(b), \A i \in 1..Len(a) : a[i] = b[i]
  PROVE  a = b
BY SeqEqual DEF Text

LEMMA FirstTrim ==
  ASSUME NEW t \in Text
  PROVE  /\ Solid(t) # {} => \E i \in 1..Len(t) : First(i, t)
         /\ \A i : First(i, t) => TrimLeft(t) = Rest(t, i) /\ Solid(t) # {}
<1>1. Solid(t) \subseteq 1..Len(t) /\ Len(t) \in Nat /\ Solid(t) \subseteq Nat
  BY SolidFacts
<1>2. ASSUME Solid(t) # {} PROVE \E i \in 1..Len(t) : First(i, t)
  <2>1. \E i \in Solid(t) : \A j \in Solid(t) : i <= j
    BY <1>1, <1>2, LeastOf
  <2> QED BY <1>1, <2>1 DEF First
<1>3. ASSUME NEW i, First(i, t) PROVE TrimLeft(t) = Rest(t, i) /\ Solid(t) # {}
  <2> DEFINE at == CHOOSE n \in Solid(t) : \A j \in Solid(t) : n <= j
  <2>1. i \in Solid(t) /\ \A j \in Solid(t) : i <= j
    BY <1>3 DEF First
  <2>2. at \in Solid(t) /\ \A j \in Solid(t) : at <= j
    BY <2>1
  <2>3. TrimLeft(t) = Rest(t, at)
    BY <2>1 DEF TrimLeft, Rest
  <2> HIDE DEF at
  <2>4. at = i
    BY <1>1, <2>1, <2>2
  <2> QED BY <2>1, <2>3, <2>4
<1> QED BY <1>2, <1>3

LEMMA TrimLeftFirst ==
  ASSUME NEW t \in Text, Solid(t) # {}
  PROVE  /\ TrimLeft(t) # <<>> /\ Len(TrimLeft(t)) \in Nat /\ Len(TrimLeft(t)) >= 1
         /\ TrimLeft(t)[1] # "white" /\ First(1, TrimLeft(t))
<1> DEFINE u == TrimLeft(t)
<1>1. PICK i \in 1..Len(t) : First(i, t)
  BY FirstTrim
<1>2. u = Rest(t, i) /\ i \in Solid(t)
  BY <1>1, FirstTrim DEF First
<1> HIDE DEF u
<1>3. /\ u \in Text /\ Len(u) = Len(t) - i + 1 /\ Len(t) \in Nat
      /\ \A n \in 1..Len(u) : u[n] = t[i + n - 1]
  <2>1. IsRest(u, t, i) /\ Len(t) \in Nat
    BY <1>2, RestFacts, TextFacts
  <2> QED BY <2>1 DEF IsRest
<1>4. 1 \in 1..Len(u) /\ Len(u) \in Nat /\ Len(u) >= 1 /\ i + 1 - 1 = i
  BY <1>3
<1>5. u[1] = t[i] /\ t[i] # "white"
  BY <1>2, <1>3, <1>4, SolidFacts
<1>6. First(1, u)
  <2>1. Solid(u) \subseteq 1..Len(u) /\ 1 \in Solid(u)
    BY <1>3, <1>4, <1>5, SolidFacts
  <2>2. \A j \in 1..Len(u) : 1 <= j
    OBVIOUS
  <2> QED BY <2>1, <2>2 DEF First
<1>7. u # <<>>
  BY <1>4
<1> QED BY <1>4, <1>5, <1>6, <1>7 DEF u

LEMMA TrimLeftNothing ==
  ASSUME NEW t \in Text
  PROVE  Solid(t) = {} <=> TrimLeft(t) = <<>>
<1>1. Solid(t) # {} => TrimLeft(t) # <<>>
  BY TrimLeftFirst
<1>2. Solid(t) = {} => TrimLeft(t) = <<>>
  BY DEF TrimLeft
<1> QED BY <1>1, <1>2

LEMMA ConcatFacts ==
  ASSUME NEW t \in Text, NEW d \in Text
  PROVE  /\ t \o d \in Text /\ Len(t \o d) = Len(t) + Len(d)
         /\ \A i \in 1..Len(t) : (t \o d)[i] = t[i]
         /\ \A i \in 1..Len(d) : (t \o d)[Len(t) + i] = d[i]
         /\ \A i \in 1..(Len(t) + Len(d)) : i \notin 1..Len(t) => i - Len(t) \in 1..Len(d) /\ (t \o d)[i] = d[i - Len(t)]
BY DEF Text

LEMMA TrimLeftMore ==
  ASSUME NEW t \in Text, NEW d \in Text
  PROVE  /\ Solid(t) # {} => TrimLeft(t \o d) = TrimLeft(t) \o d
         /\ Solid(t) = {} => TrimLeft(t \o d) = TrimLeft(d)
<1> DEFINE w == t \o d
<1>1. /\ w \in Text /\ Len(w) = Len(t) + Len(d)
      /\ \A i \in 1..Len(t) : w[i] = t[i]
      /\ \A i \in 1..Len(d) : w[Len(t) + i] = d[i]
      /\ \A i \in 1..(Len(t) + Len(d)) : i \notin 1..Len(t) => i - Len(t) \in 1..Len(d) /\ w[i] = d[i - Len(t)]
  BY ConcatFacts
<1>2. Len(t) \in Nat /\ Len(d) \in Nat /\ Solid(t) \subseteq 1..Len(t) /\ Solid(d) \subseteq 1..Len(d)
  BY SolidFacts
<1> HIDE DEF w
<1>3. /\ \A i \in 1..Len(t) : i \in Solid(w) <=> i \in Solid(t)
      /\ \A i \in 1..Len(d) : Len(t) + i \in Solid(w) <=> i \in Solid(d)
      /\ Solid(w) \subseteq 1..(Len(t) + Len(d))
  <2>1. Solid(w) \subseteq 1..(Len(t) + Len(d)) /\ \A i \in 1..(Len(t) + Len(d)) : i \in Solid(w) <=> w[i] # "white"
    BY <1>1, SolidFacts
  <2>2. \A i \in 1..Len(t) : i \in Solid(t) <=> t[i] # "white"
    BY SolidFacts
  <2>3. \A i \in 1..Len(d) : i \in Solid(d) <=> d[i] # "white"
    BY SolidFacts
  <2>4. (\A i \in 1..Len(t) : i \in 1..(Len(t) + Len(d))) /\ (\A i \in 1..Len(d) : Len(t) + i \in 1..(Len(t) + Len(d)))
    BY <1>2
  <2> QED BY <1>1, <2>1, <2>2, <2>3, <2>4
<1>4. ASSUME Solid(t) # {} PROVE TrimLeft(w) = TrimLeft(t) \o d
  <2>1. PICK i \in 1..Len(t) : First(i, t)
    BY <1>4, FirstTrim
  <2>2. First(i, w)
    <3>1. i \in Solid(w)
      BY <1>3, <2>1 DEF First
    <3>2. ASSUME NEW j \in Solid(w) PROVE i <= j
      <4>1. CASE j \in 1..Len(t)
        BY <1>3, <2>1, <4>1 DEF First
      <4>2. CASE j \notin 1..Len(t)
        <5>1. j \in 1..(Len(t) + Len(d))
          BY <1>3
        <5> QED BY <1>2, <2>1, <4>2, <5>1
      <4> QED BY <4>1, <4>2
    <3> QED BY <3>1, <3>2 DEF First
  <2>3. TrimLeft(w) = Rest(w, i) /\ TrimLeft(t) = Rest(t, i)
    BY <1>1, <2>1, <2>2, FirstTrim
  <2> DEFINE a == TrimLeft(w)
             u == TrimLeft(t)
             b == u \o d
  <2>4. u \in Text /\ Len(u) = Len(t) - i + 1 /\ \A n \in 1..Len(u) : u[n] = t[i + n - 1]
    <3>1. IsRest(u, t, i)
      BY <2>3, RestFacts
    <3> HIDE DEF u
    <3> QED BY <3>1 DEF IsRest
  <2>5. a \in Text /\ Len(a) = Len(w) - i + 1 /\ \A n \in 1..Len(a) : a[n] = w[i + n - 1]
    <3>1. i \in 1..Len(w)
      BY <1>1, <1>2
    <3>2. IsRest(a, w, i)
      BY <1>1, <2>3, <3>1, RestFacts
    <3> HIDE DEF a
    <3> QED BY <3>2 DEF IsRest
  <2> HIDE DEF a, u
  <2>6. /\ b \in Text /\ Len(b) = Len(u) + Len(d)
        /\ \A n \in 1..Len(u) : b[n] = u[n]
        /\ \A n \in 1..(Len(u) + Len(d)) : n \notin 1..Len(u) => n - Len(u) \in 1..Len(d) /\ b[n] = d[n - Len(u)]
    BY <2>4, ConcatFacts
  <2> HIDE DEF b
  <2>7. Len(a) = Len(b) /\ Len(a) \in Nat
    BY <1>1, <1>2, <2>1, <2>4, <2>5, <2>6
  <2>8. ASSUME NEW n \in 1..Len(a) PROVE a[n] = b[n]
    <3>1. a[n] = w[i + n - 1]
      BY <2>5
    <3>2. CASE n \in 1..Len(u)
      <4>1. i + n - 1 \in 1..Len(t)
        BY <1>2, <2>1, <2>4, <3>2
      <4> QED BY <1>1, <2>4, <2>6, <3>1, <3>2, <4>1
    <3>3. CASE n \notin 1..Len(u)
      <4>1. /\ n \in 1..(Len(u) + Len(d)) /\ i + n - 1 \in 1..(Len(t) + Len(d)) /\ i + n - 1 \notin 1..Len(t)
            /\ (i + n - 1) - Len(t) = n - Len(u)
        BY <1>2, <2>1, <2>4, <2>6, <2>7, <3>3
      <4> QED BY <1>1, <2>6, <3>1, <3>3, <4>1
    <3> QED BY <3>2, <3>3
  <2>9. a = b
    BY <2>5, <2>6, <2>7, <2>8, SameTexts
  <2> QED BY <2>9 DEF a, b, u
<1>5. ASSUME Solid(t) = {} PROVE TrimLeft(w) = TrimLeft(d)
  <2>1. CASE Solid(d) = {}
    <3>1. Solid(w) = {}
      <4>1. ASSUME NEW j \in Solid(w) PROVE FALSE
        <5>1. j \in 1..(Len(t) + Len(d))
          BY <1>3
        <5>2. j \notin 1..Len(t)
          BY <1>3, <1>5
        <5>3. j - Len(t) \in 1..Len(d) /\ Len(t) + (j - Len(t)) = j
          BY <1>1, <1>2, <5>1, <5>2
        <5> QED BY <1>3, <2>1, <5>3
      <4> QED BY <4>1
    <3> QED BY <2>1, <3>1 DEF TrimLeft
  <2>2. CASE Solid(d) # {}
    <3>1. PICK i \in 1..Len(d) : First(i, d)
      BY <2>2, FirstTrim
    <3>2. First(Len(t) + i, w)
      <4>1. Len(t) + i \in Solid(w)
        BY <1>3, <3>1 DEF First
      <4>2. ASSUME NEW j \in Solid(w) PROVE Len(t) + i <= j
        <5>1. j \in 1..(Len(t) + Len(d)) /\ j \notin 1..Len(t)
          BY <1>3, <1>5
        <5>2. j - Len(t) \in 1..Len(d) /\ Len(t) + (j - Len(t)) = j
          BY <1>1, <1>2, <5>1
        <5>3. j - Len(t) \in Solid(d)
          BY <1>3, <5>2
        <5>4. i <= j - Len(t)
          BY <3>1, <5>3 DEF First
        <5> QED BY <1>2, <5>1, <5>4
      <4> QED BY <4>1, <4>2 DEF First
    <3>3. TrimLeft(w) = Rest(w, Len(t) + i) /\ TrimLeft(d) = Rest(d, i)
      BY <1>1, <3>1, <3>2, FirstTrim
    <3> DEFINE a == TrimLeft(w)
               b == TrimLeft(d)
    <3>4. b \in Text /\ Len(b) = Len(d) - i + 1 /\ \A n \in 1..Len(b) : b[n] = d[i + n - 1]
      <4>1. IsRest(b, d, i)
        BY <3>1, <3>3, RestFacts
      <4> HIDE DEF b
      <4> QED BY <4>1 DEF IsRest
    <3>5. a \in Text /\ Len(a) = Len(d) - i + 1 /\ \A n \in 1..Len(a) : a[n] = w[(Len(t) + i) + n - 1]
      <4>1. Len(t) + i \in 1..Len(w) /\ Len(w) - (Len(t) + i) + 1 = Len(d) - i + 1
        BY <1>1, <1>2, <3>1
      <4>2. a \in Text /\ Len(a) = Len(w) - (Len(t) + i) + 1 /\ \A n \in 1..Len(a) : a[n] = w[(Len(t) + i) + n - 1]
        <5>1. IsRest(a, w, Len(t) + i)
          BY <1>1, <3>3, <4>1, RestFacts
        <5> HIDE DEF a
        <5> QED BY <5>1 DEF IsRest
      <4> QED BY <4>1, <4>2
    <3> HIDE DEF a, b
    <3>7. ASSUME NEW n \in 1..Len(a) PROVE a[n] = b[n]
      <4>1. i + n - 1 \in 1..Len(d) /\ Len(t) + (i + n - 1) = (Len(t) + i) + n - 1 /\ n \in 1..Len(b)
        BY <1>2, <3>1, <3>4, <3>5
      <4> QED BY <1>1, <3>4, <3>5, <4>1
    <3>8. a = b
      BY <3>4, <3>5, <3>7, SameTexts
    <3> QED BY <3>8 DEF a, b
  <2> QED BY <2>1, <2>2
<1> QED BY <1>4, <1>5 DEF w

LEMMA TrimTwice ==
  ASSUME NEW t \in Text
  PROVE  TrimLeft(TrimLeft(t)) = TrimLeft(t)
<1> DEFINE u == TrimLeft(t)
<1>1. u \in Text
  BY TrimLeftText
<1>2. CASE Solid(t) = {}
  <2>1. u = <<>>
    BY <1>2, TrimLeftNothing
  <2>2. TrimLeft(<<>>) = <<>>
    BY DEF TrimLeft, Solid
  <2> QED BY <2>1, <2>2
<1>3. CASE Solid(t) # {}
  <2>1. First(1, u)
    BY <1>3, TrimLeftFirst
  <2> HIDE DEF u
  <2>2. TrimLeft(u) = Rest(u, 1)
    BY <1>1, <2>1, FirstTrim
  <2>3. Rest(u, 1) = u
    <3>1. u \in Seq(Piece)
      BY <1>1, TextFacts
    <3> QED BY <3>1 DEF Rest
  <2> QED BY <2>2, <2>3 DEF u
<1> QED BY <1>2, <1>3

\* Texts that are equal up to leading white space stay so.
LEMMA TrimSame ==
  ASSUME NEW a \in Text, NEW b \in Text, NEW d \in Text, TrimLeft(a) = TrimLeft(b)
  PROVE  TrimLeft(a \o d) = TrimLeft(b \o d)
<1>1. Solid(a) = {} <=> Solid(b) = {}
  BY TrimLeftNothing
<1>2. /\ Solid(a) # {} => TrimLeft(a \o d) = TrimLeft(a) \o d
      /\ Solid(a) = {} => TrimLeft(a \o d) = TrimLeft(d)
  BY TrimLeftMore
<1>3. /\ Solid(b) # {} => TrimLeft(b \o d) = TrimLeft(b) \o d
      /\ Solid(b) = {} => TrimLeft(b \o d) = TrimLeft(d)
  BY TrimLeftMore
<1> QED BY <1>1, <1>2, <1>3

-----------------------------------------------------------------------------
(* The content of chunks, joined.                                          *)

\* f[n] is the first n texts of q, joined.
Joins(f, q) ==
  \A n \in 1..Len(q) : f[n] = IF n = 1 THEN q[1] ELSE f[n - 1] \o q[n]

LEMMA FlattenJoins ==
  ASSUME NEW q \in Seq(Text), Len(q) # 0
  PROVE  \E f : Joins(f, q) /\ FlattenSeq(q) = f[Len(q)]
<1> DEFINE flatten == CHOOSE f : f = [i \in 1..Len(q) |-> IF i = 1 THEN q[i] ELSE f[i - 1] \o q[i]]
           goes(f, k) == \A n \in 1..k : f[n] = IF n = 1 THEN q[1] ELSE f[n - 1] \o q[n]
           some == {k \in Nat : \E f : goes(f, k)}
<1>1. FlattenSeq(q) = flatten[Len(q)] /\ Len(q) \in Nat
  BY DEF FlattenSeq
<1>2. \E f : goes(f, Len(q))
  <2>1. 0 \in some
    OBVIOUS
  <2>2. ASSUME NEW k \in Nat, k \in some PROVE k + 1 \in some
    <3>1. PICK f : goes(f, k)
      BY <2>2
    <3> DEFINE new == IF k + 1 = 1 THEN q[1] ELSE f[k] \o q[k + 1]
               g == [n \in 1..(k + 1) |-> IF n = k + 1 THEN new ELSE f[n]]
    <3>2. ASSUME NEW n \in 1..(k + 1) PROVE g[n] = IF n = 1 THEN q[1] ELSE g[n - 1] \o q[n]
      <4>1. CASE n = k + 1
        <5>1. g[n] = new /\ (n # 1 => n - 1 = k /\ n - 1 \in 1..(k + 1) /\ g[n - 1] = f[k])
          BY <4>1
        <5> QED BY <4>1, <5>1
      <4>2. CASE n # k + 1
        <5>1. n \in 1..k /\ g[n] = f[n] /\ (n # 1 => n - 1 \in 1..k /\ n - 1 # k + 1 /\ g[n - 1] = f[n - 1])
          BY <4>2
        <5> QED BY <3>1, <5>1
      <4> QED BY <4>1, <4>2
    <3> HIDE DEF g
    <3> QED BY <3>2
  <2> HIDE DEF some
  <2>3. Nat \subseteq some
    BY <2>1, <2>2, AllNumbers
  <2> QED BY <1>1, <2>3 DEF some
<1>3. goes(flatten, Len(q))
  <2> DEFINE loop(f) == [i \in 1..Len(q) |-> IF i = 1 THEN q[i] ELSE f[i - 1] \o q[i]]
  <2>1. PICK f : goes(f, Len(q))
    BY <1>2
  <2> DEFINE g == [n \in 1..Len(q) |-> f[n]]
  <2>2. g = loop(g)
    <3>1. ASSUME NEW n \in 1..Len(q) PROVE g[n] = loop(g)[n]
      <4>1. g[n] = f[n] /\ (n # 1 => n - 1 \in 1..Len(q) /\ g[n - 1] = f[n - 1])
        BY <1>1
      <4> QED BY <2>1, <4>1
    <3> QED BY <3>1
  <2>3. flatten = loop(flatten)
    <3> HIDE DEF g
    <3>1. \E h : h = loop(h)
      BY <2>2
    <3> QED BY <3>1, Zenon
  <2> HIDE DEF flatten
  <2>4. ASSUME NEW n \in 1..Len(q) PROVE flatten[n] = IF n = 1 THEN q[1] ELSE flatten[n - 1] \o q[n]
    BY <2>3
  <2> QED BY <2>4
<1> HIDE DEF flatten
<1>4. Joins(flatten, q)
  BY <1>3 DEF Joins
<1> QED BY <1>1, <1>4

\* One more text is joined at the end.
LEMMA FlattenMore ==
  ASSUME NEW q \in Seq(Text), NEW d \in Text
  PROVE  FlattenSeq(q) \in Text /\ FlattenSeq(Append(q, d)) = FlattenSeq(q) \o d
<1> DEFINE w == Append(q, d)
<1>1. /\ w \in Seq(Text) /\ Len(q) \in Nat /\ Len(w) = Len(q) + 1 /\ w[Len(q) + 1] = d
      /\ \A i \in 1..Len(q) : w[i] = q[i] /\ q[i] \in Text
  OBVIOUS
<1> HIDE DEF w
<1>2. PICK g : Joins(g, w) /\ FlattenSeq(w) = g[Len(w)]
  BY <1>1, FlattenJoins
<1>3. CASE Len(q) = 0
  <2>1. q = <<>> /\ FlattenSeq(q) = q
    BY <1>3 DEF FlattenSeq
  <2>2. g[1] = w[1] /\ w[1] = d /\ Len(w) = 1
    BY <1>1, <1>2, <1>3 DEF Joins
  <2> QED BY <1>2, <2>1, <2>2, NoText DEF w
<1>4. CASE Len(q) # 0
  <2>1. PICK f : Joins(f, q) /\ FlattenSeq(q) = f[Len(q)]
    BY <1>4, FlattenJoins
  <2> DEFINE same == {k \in Nat : k \in 1..Len(q) => f[k] \in Text /\ g[k] = f[k]}
  <2>2. 0 \in same
    OBVIOUS
  <2>3. ASSUME NEW k \in Nat, k \in same PROVE k + 1 \in same
    <3>1. SUFFICES ASSUME k + 1 \in 1..Len(q) PROVE f[k + 1] \in Text /\ g[k + 1] = f[k + 1]
      OBVIOUS
    <3>2. /\ f[k + 1] = IF k + 1 = 1 THEN q[1] ELSE f[(k + 1) - 1] \o q[k + 1]
          /\ g[k + 1] = IF k + 1 = 1 THEN w[1] ELSE g[(k + 1) - 1] \o w[k + 1]
          /\ w[k + 1] = q[k + 1] /\ q[k + 1] \in Text
      BY <1>1, <1>2, <2>1, <3>1 DEF Joins
    <3>3. CASE k = 0
      BY <1>1, <3>1, <3>2, <3>3
    <3>4. CASE k # 0
      <4>1. (k + 1) - 1 = k /\ k + 1 # 1 /\ f[k] \in Text /\ g[k] = f[k]
        BY <2>3, <3>1, <3>4
      <4> QED BY <3>2, <4>1, ConcatText
    <3> QED BY <3>3, <3>4
  <2> HIDE DEF same
  <2>4. Nat \subseteq same
    BY <2>2, <2>3, AllNumbers
  <2>5. f[Len(q)] \in Text /\ g[Len(q)] = f[Len(q)]
    BY <1>1, <1>4, <2>4 DEF same
  <2>6. g[Len(w)] = g[Len(q)] \o d
    <3>1. Len(q) + 1 \in 1..Len(w) /\ Len(q) + 1 # 1 /\ (Len(q) + 1) - 1 = Len(q)
      BY <1>1, <1>4
    <3> QED BY <1>1, <1>2, <3>1 DEF Joins
  <2> QED BY <1>2, <2>1, <2>5, <2>6 DEF w
<1> QED BY <1>3, <1>4

\* The content and the reasoning of the chunks g.
HeadOf(g) == ContentOf(g, Early(g))
TailOf(g) == ContentOf(g, DOMAIN g \ Early(g))
OwnOf(g)  == FlattenSeq([i \in DOMAIN g |-> g[i].reasoning])

LEMMA AppendedChunk ==
  ASSUME NEW g \in Seq(Chunk), NEW ch \in Chunk
  PROVE  /\ Append(g, ch) \in Seq(Chunk) /\ Len(g) \in Nat
         /\ DOMAIN g = 1..Len(g) /\ DOMAIN Append(g, ch) = 1..(Len(g) + 1)
         /\ Append(g, ch)[Len(g) + 1] = ch
         /\ \A i \in 1..Len(g) : Append(g, ch)[i] = g[i] /\ g[i] \in Chunk
         /\ \A i \in 1..(Len(g) + 1) : i # Len(g) + 1 => i \in 1..Len(g)
OBVIOUS

LEMMA ContentMore ==
  ASSUME NEW g \in Seq(Chunk), NEW ch \in Chunk, NEW I, NEW J, \A i \in 1..Len(g) : i \in J <=> i \in I
  PROVE  LET d == IF Len(g) + 1 \in J THEN ch.content ELSE <<>> IN
         ContentOf(g, I) \in Text /\ ContentOf(Append(g, ch), J) = ContentOf(g, I) \o d
<1> DEFINE h == Append(g, ch)
           d == IF Len(g) + 1 \in J THEN ch.content ELSE <<>>
           q == [i \in DOMAIN g |-> IF i \in I THEN g[i].content ELSE <<>>]
           w == [i \in DOMAIN h |-> IF i \in J THEN h[i].content ELSE <<>>]
<1>1. /\ h \in Seq(Chunk) /\ Len(g) \in Nat /\ DOMAIN g = 1..Len(g) /\ DOMAIN h = 1..(Len(g) + 1)
      /\ h[Len(g) + 1] = ch /\ \A i \in 1..Len(g) : h[i] = g[i] /\ g[i] \in Chunk
      /\ \A i \in 1..(Len(g) + 1) : i # Len(g) + 1 => i \in 1..Len(g)
  BY AppendedChunk
<1> HIDE DEF h
<1>2. d \in Text /\ \A i \in 1..Len(g) : g[i].content \in Text
  BY <1>1, NoText DEF Chunk
<1>3. q \in Seq(Text) /\ Len(q) = Len(g) /\ \A i \in 1..Len(g) : q[i] = IF i \in I THEN g[i].content ELSE <<>>
  BY <1>1, <1>2, NoText
<1>4. w \in Seq(Text) /\ Len(w) = Len(g) + 1 /\ \A i \in 1..Len(w) : w[i] = IF i \in J THEN h[i].content ELSE <<>>
  <2>1. \A i \in 1..(Len(g) + 1) : h[i].content \in Text
    BY <1>1 DEF Chunk
  <2> QED BY <1>1, <2>1, NoText
<1>5. ContentOf(g, I) = FlattenSeq(q) /\ ContentOf(h, J) = FlattenSeq(w)
  BY DEF ContentOf
<1> HIDE DEF q, w, d
<1>6. w = Append(q, d)
  <2>1. /\ Append(q, d) \in Seq(Text) /\ Len(Append(q, d)) = Len(g) + 1 /\ Append(q, d)[Len(g) + 1] = d
        /\ \A i \in 1..Len(g) : Append(q, d)[i] = q[i]
    BY <1>1, <1>2, <1>3
  <2>2. ASSUME NEW i \in 1..Len(w) PROVE w[i] = Append(q, d)[i]
    <3>1. CASE i = Len(g) + 1
      BY <1>1, <1>4, <2>1, <3>1 DEF d
    <3>2. CASE i # Len(g) + 1
      <4>1. i \in 1..Len(g)
        BY <1>1, <1>4, <3>2
      <4> QED BY <1>1, <1>3, <1>4, <2>1, <4>1
    <3> QED BY <3>1, <3>2
  <2> QED BY <1>4, <2>1, <2>2, SeqEqual
<1>7. FlattenSeq(q) \in Text /\ FlattenSeq(w) = FlattenSeq(q) \o d
  BY <1>2, <1>3, <1>6, FlattenMore
<1> QED BY <1>5, <1>7 DEF h, d

LEMMA OwnMore ==
  ASSUME NEW g \in Seq(Chunk), NEW ch \in Chunk
  PROVE  OwnOf(g) \in Text /\ OwnOf(Append(g, ch)) = OwnOf(g) \o ch.reasoning
<1> DEFINE h == Append(g, ch)
           q == [i \in DOMAIN g |-> g[i].reasoning]
           w == [i \in DOMAIN h |-> h[i].reasoning]
<1>1. /\ h \in Seq(Chunk) /\ Len(g) \in Nat /\ DOMAIN g = 1..Len(g) /\ DOMAIN h = 1..(Len(g) + 1)
      /\ h[Len(g) + 1] = ch /\ \A i \in 1..Len(g) : h[i] = g[i] /\ g[i] \in Chunk
      /\ \A i \in 1..(Len(g) + 1) : i # Len(g) + 1 => i \in 1..Len(g)
  BY AppendedChunk
<1> HIDE DEF h
<1>2. ch.reasoning \in Text /\ \A i \in 1..Len(g) : g[i].reasoning \in Text
  BY <1>1 DEF Chunk
<1>3. q \in Seq(Text) /\ Len(q) = Len(g) /\ \A i \in 1..Len(g) : q[i] = g[i].reasoning
  BY <1>1, <1>2
<1>4. w \in Seq(Text) /\ Len(w) = Len(g) + 1 /\ \A i \in 1..Len(w) : w[i] = h[i].reasoning
  <2>1. \A i \in 1..(Len(g) + 1) : h[i].reasoning \in Text
    BY <1>1 DEF Chunk
  <2> QED BY <1>1, <2>1
<1>5. OwnOf(g) = FlattenSeq(q) /\ OwnOf(h) = FlattenSeq(w)
  BY DEF OwnOf
<1> HIDE DEF q, w
<1>6. w = Append(q, ch.reasoning)
  <2> DEFINE d == ch.reasoning
  <2>1. /\ Append(q, d) \in Seq(Text) /\ Len(Append(q, d)) = Len(g) + 1 /\ Append(q, d)[Len(g) + 1] = d
        /\ \A i \in 1..Len(g) : Append(q, d)[i] = q[i]
    BY <1>1, <1>2, <1>3
  <2>2. ASSUME NEW i \in 1..Len(w) PROVE w[i] = Append(q, d)[i]
    <3>1. CASE i = Len(g) + 1
      BY <1>1, <1>4, <2>1, <3>1
    <3>2. CASE i # Len(g) + 1
      <4>1. i \in 1..Len(g)
        BY <1>1, <1>4, <3>2
      <4> QED BY <1>1, <1>3, <1>4, <2>1, <4>1
    <3> QED BY <3>1, <3>2
  <2> HIDE DEF d
  <2>3. w = Append(q, d)
    BY <1>4, <2>1, <2>2, SeqEqual
  <2> QED BY <2>3 DEF d
<1>7. FlattenSeq(q) \in Text /\ FlattenSeq(w) = FlattenSeq(q) \o ch.reasoning
  BY <1>2, <1>3, <1>6, FlattenMore
<1> QED BY <1>5, <1>7 DEF h

\* The head grows until a chunk closes it, and then the tail does.
LEMMA GotMore ==
  ASSUME NEW g \in Seq(Chunk), NEW ch \in Chunk
  PROVE  LET h == Append(g, ch) IN
         /\ HeadOf(g) \in Text /\ TailOf(g) \in Text /\ OwnOf(g) \in Text
         /\ OwnOf(h) = OwnOf(g) \o ch.reasoning
         /\ Boundaries(h) = {} <=> Boundaries(g) = {} /\ ~ch.boundary
         /\ Boundaries(g) = {} => HeadOf(h) = HeadOf(g) \o ch.content /\ TailOf(h) = TailOf(g)
         /\ Boundaries(g) # {} => HeadOf(h) = HeadOf(g) /\ TailOf(h) = TailOf(g) \o ch.content
<1> DEFINE h == Append(g, ch)
           n == Len(g) + 1
<1>1. /\ h \in Seq(Chunk) /\ Len(g) \in Nat /\ DOMAIN g = 1..Len(g) /\ DOMAIN h = 1..n
      /\ h[n] = ch /\ \A i \in 1..Len(g) : h[i] = g[i] /\ g[i] \in Chunk
      /\ \A i \in 1..n : i # n => i \in 1..Len(g)
  BY AppendedChunk
<1> HIDE DEF h
<1>2. n \in 1..n /\ n \notin 1..Len(g) /\ \A i \in 1..Len(g) : i <= n /\ ~(n <= i) /\ i \in 1..n
  BY <1>1
<1> HIDE DEF n
<1>3. /\ \A i \in 1..Len(g) : i \in Boundaries(h) <=> i \in Boundaries(g)
      /\ n \in Boundaries(h) <=> ch.boundary
      /\ Boundaries(g) \subseteq 1..Len(g) /\ Boundaries(h) \subseteq 1..n
  BY <1>1, <1>2 DEF Boundaries
<1>4. \A i \in 1..Len(g) : i \in Early(h) <=> i \in Early(g)
  BY <1>1, <1>2, <1>3 DEF Early
<1>5. n \in Early(h) <=> Boundaries(g) = {}
  <2>1. n <= n
    BY <1>1 DEF n
  <2> QED BY <1>1, <1>2, <1>3, <2>1 DEF Early
<1>6. \A i \in 1..Len(g) : i \in DOMAIN h \ Early(h) <=> i \in DOMAIN g \ Early(g)
  BY <1>1, <1>2, <1>4
<1>7. n \in DOMAIN h \ Early(h) <=> Boundaries(g) # {}
  BY <1>1, <1>2, <1>5
<1>8. /\ HeadOf(g) \in Text
      /\ HeadOf(h) = HeadOf(g) \o (IF n \in Early(h) THEN ch.content ELSE <<>>)
  BY <1>4, ContentMore DEF HeadOf, h, n
<1>9. /\ TailOf(g) \in Text
      /\ TailOf(h) = TailOf(g) \o (IF n \in DOMAIN h \ Early(h) THEN ch.content ELSE <<>>)
  <2> DEFINE I == DOMAIN g \ Early(g)
             J == DOMAIN h \ Early(h)
  <2>1. \A i \in 1..Len(g) : i \in J <=> i \in I
    BY <1>6
  <2>2. TailOf(g) = ContentOf(g, I) /\ TailOf(h) = ContentOf(h, J)
    BY DEF TailOf
  <2> HIDE DEF I, J
  <2>3. /\ ContentOf(g, I) \in Text
        /\ ContentOf(h, J) = ContentOf(g, I) \o (IF n \in J THEN ch.content ELSE <<>>)
    BY <2>1, ContentMore DEF h, n
  <2> QED BY <2>2, <2>3 DEF J
<1>10. OwnOf(g) \in Text /\ OwnOf(h) = OwnOf(g) \o ch.reasoning
  BY OwnMore DEF h
<1>11. Boundaries(h) = {} <=> Boundaries(g) = {} /\ ~ch.boundary
  BY <1>1, <1>2, <1>3
<1> QED BY <1>5, <1>7, <1>8, <1>9, <1>10, <1>11, NoText DEF h

-----------------------------------------------------------------------------
(* Splitting content that grows.                                           *)

LEMMA Tagged ==
  ASSUME NEW u \in Text
  PROVE  /\ IsPrefix(thinkOpenTag, u) <=> Len(u) >= 2 /\ u[1] = "open" /\ u[2] = "ink"
         /\ IsStrictPrefix(u, thinkOpenTag) <=> u = <<>> \/ (Len(u) = 1 /\ u[1] = "open")
         /\ u = thinkOpenTag <=> Len(u) = 2 /\ u[1] = "open" /\ u[2] = "ink"
<1> DEFINE tag == <<"open", "ink">>
<1>1. u \in Seq(Piece) /\ Len(u) \in Nat
  BY TextFacts
<1>2. tag \in Seq(Piece) /\ Len(tag) = 2 /\ tag[1] = "open" /\ tag[2] = "ink"
  BY DEF Piece
<1>3. thinkOpenTag = tag
  BY DEF thinkOpenTag
<1> HIDE DEF tag
<1>4. u = tag <=> Len(u) = 2 /\ u[1] = "open" /\ u[2] = "ink"
  <2>1. ASSUME Len(u) = 2, u[1] = "open", u[2] = "ink" PROVE u = tag
    <3>1. \A i \in 1..Len(u) : i = 1 \/ i = 2
      BY <2>1
    <3>2. \A i \in 1..Len(u) : u[i] = tag[i]
      BY <1>2, <2>1, <3>1
    <3> QED BY <1>1, <1>2, <2>1, <3>2, SeqEqual
  <2> QED BY <1>2, <2>1
<1>5. IsPrefix(tag, u) <=> Len(u) >= 2 /\ u[1] = "open" /\ u[2] = "ink"
  <2> DEFINE a == SubSeq(tag, 1, 2)
             b == SubSeq(u, 1, 2)
  <2>1. IsPrefix(tag, u) <=> 2 <= Len(u) /\ a = b
    BY <1>2 DEF IsPrefix
  <2>2. a = tag
    BY <1>2
  <2>3. ASSUME Len(u) >= 2 PROVE b \in Text /\ Len(b) = 2 /\ b[1] = u[1] /\ b[2] = u[2]
    BY <1>1, <2>3 DEF Text
  <2> HIDE DEF a, b
  <2>4. ASSUME Len(u) >= 2 PROVE b = tag <=> u[1] = "open" /\ u[2] = "ink"
    <3>1. b = tag <=> b[1] = "open" /\ b[2] = "ink"
      <4>1. ASSUME b[1] = "open", b[2] = "ink" PROVE b = tag
        <5>0. Len(b) = 2
          BY <2>3, <2>4
        <5>1. \A i \in 1..Len(b) : i = 1 \/ i = 2
          BY <5>0
        <5>2. \A i \in 1..Len(b) : b[i] = tag[i]
          BY <1>2, <4>1, <5>1
        <5> QED BY <1>2, <2>3, <2>4, <5>2, SeqEqual DEF Text
      <4> QED BY <1>2, <4>1
    <3> QED BY <2>3, <2>4, <3>1
  <2> QED BY <1>1, <2>1, <2>2, <2>4
<1>6. IsStrictPrefix(u, tag) <=> u = <<>> \/ (Len(u) = 1 /\ u[1] = "open")
  <2> DEFINE a == SubSeq(u, 1, Len(u))
             b == SubSeq(tag, 1, Len(u))
  <2>1. IsStrictPrefix(u, tag) <=> Len(u) <= 2 /\ a = b /\ u # tag
    BY <1>2 DEF IsStrictPrefix, IsPrefix
  <2>2. a = u
    BY <1>1
  <2>3. ASSUME Len(u) <= 2 PROVE b \in Seq(Piece) /\ Len(b) = Len(u) /\ \A i \in 1..Len(u) : b[i] = tag[i]
    BY <1>1, <1>2, <2>3
  <2> HIDE DEF a, b
  <2>4. CASE Len(u) = 0
    <3>1. u = <<>> /\ b = u
      BY <1>1, <2>3, <2>4
    <3> QED BY <1>2, <2>1, <2>2, <2>4, <3>1
  <2>5. CASE Len(u) = 1
    <3>1. b = u <=> u[1] = "open"
      <4>1. 1 \in 1..Len(u) /\ \A i \in 1..Len(u) : i = 1
        BY <2>5
      <4>2. b[1] = "open" /\ b \in Seq(Piece) /\ Len(b) = Len(u)
        BY <1>2, <2>3, <2>5, <4>1
      <4>3. ASSUME u[1] = "open" PROVE b = u
        <5>1. \A i \in 1..Len(b) : b[i] = u[i]
          BY <4>1, <4>2, <4>3
        <5> QED BY <1>1, <4>2, <5>1, SeqEqual
      <4> QED BY <4>2, <4>3
    <3>2. u # <<>> /\ u # tag
      BY <1>2, <2>5
    <3> QED BY <2>1, <2>2, <2>5, <3>1, <3>2
  <2>6. CASE Len(u) = 2
    <3>1. a = b => u = tag
      <4>1. ASSUME u = b PROVE u = tag
        <5>1. \A i \in 1..Len(u) : u[i] = tag[i]
          BY <2>3, <2>6, <4>1
        <5> QED BY <1>1, <1>2, <2>6, <5>1, SeqEqual
      <4> QED BY <2>2, <4>1
    <3> QED BY <2>1, <2>6, <3>1
  <2>7. CASE 3 <= Len(u)
    <3>1. Len(u) # 0 /\ Len(u) # 1 /\ ~(Len(u) <= 2)
      <4>1. \A n \in Nat : 3 <= n => n # 0 /\ n # 1 /\ ~(n <= 2)
        OBVIOUS
      <4> QED BY <1>1, <2>7, <4>1
    <3>2. u # <<>>
      BY <3>1
    <3> QED BY <2>1, <3>1, <3>2
  <2>8. Len(u) = 0 \/ Len(u) = 1 \/ Len(u) = 2 \/ 3 <= Len(u)
    <3>1. \A n \in Nat : n = 0 \/ n = 1 \/ n = 2 \/ 3 <= n
      OBVIOUS
    <3> QED BY <1>1, <3>1
  <2> QED BY <2>4, <2>5, <2>6, <2>7, <2>8
<1> QED BY <1>3, <1>4, <1>5, <1>6

\* A text that begins with something other than the tag.
Plain(t) ==
  LET u == TrimLeft(t) IN
  u # <<>> /\ (u[1] # "open" \/ (Len(u) >= 2 /\ u[2] # "ink"))

LEMMA Decisions ==
  ASSUME NEW t \in Text
  PROVE  LET decision == leadingThinkPrefixDecision(t) IN
         /\ decision = "text" => Plain(t)
         /\ decision = "reasoning" => OpensThink(t) /\ TrimLeft(t) # thinkOpenTag
         /\ decision = "need_more" => ~splitLeadingThinkBlock(t).ok /\ ~Unclosed(t)
<1> DEFINE u == TrimLeft(t)
           decision == leadingThinkPrefixDecision(t)
<1>1. u \in Text /\ Len(u) \in Nat
  BY TrimLeftText, TextFacts
<1>2. /\ OpensThink(t) <=> IsPrefix(thinkOpenTag, u)
      /\ decision = IF IsStrictPrefix(u, thinkOpenTag) \/ u = thinkOpenTag THEN "need_more"
                    ELSE IF OpensThink(t) THEN "reasoning" ELSE "text"
  BY DEF leadingThinkPrefixDecision, OpensThink
<1>3. Plain(t) <=> u # <<>> /\ (u[1] # "open" \/ (Len(u) >= 2 /\ u[2] # "ink"))
  BY DEF Plain
<1>4. splitLeadingThinkBlock(t).ok <=> OpensThink(t) /\ Closings(Without(u, 2)) # {}
  BY DEF splitLeadingThinkBlock
<1>5. Unclosed(t) => OpensThink(t) /\ u # thinkOpenTag
  BY DEF Unclosed
<1>6. u = thinkOpenTag => Closings(Without(u, 2)) = {}
  <2>1. u = thinkOpenTag => Len(u) = 2
    BY <1>1, Tagged
  <2>2. ASSUME Len(u) = 2 PROVE Closings(Without(u, 2)) = {}
    <3>1. Len(Without(u, 2)) = 0
      BY <1>1, <2>2 DEF Without, Text
    <3> QED BY <3>1 DEF Closings
  <2> QED BY <2>1, <2>2
<1> HIDE DEF u, decision
<1>7. CASE IsStrictPrefix(u, thinkOpenTag)
  <2>1. decision = "need_more" /\ ~(Len(u) >= 2)
    <3>1. Len(u) = 0 \/ Len(u) = 1
      <4>1. u = <<>> \/ Len(u) = 1
        BY <1>1, <1>7, Tagged
      <4>2. u = <<>> => Len(u) = 0
        OBVIOUS
      <4> QED BY <4>1, <4>2
    <3>2. ~(Len(u) >= 2)
      <4>1. ~(0 >= 2) /\ ~(1 >= 2)
        OBVIOUS
      <4> QED BY <3>1, <4>1
    <3>3. decision = "need_more"
      BY <1>2, <1>7
    <3> QED BY <3>2, <3>3
  <2>2. ~OpensThink(t)
    BY <1>1, <1>2, <2>1, Tagged
  <2> QED BY <1>4, <1>5, <2>1, <2>2 DEF decision
<1>8. CASE u = thinkOpenTag
  BY <1>2, <1>4, <1>5, <1>6, <1>8 DEF decision
<1>9. CASE ~IsStrictPrefix(u, thinkOpenTag) /\ u # thinkOpenTag
  <2>1. CASE OpensThink(t)
    BY <1>2, <1>9, <2>1 DEF decision, u
  <2>2. CASE ~OpensThink(t)
    <3>1. decision = "text"
      BY <1>2, <1>9, <2>2
    <3>2. u # <<>> /\ ~(Len(u) = 1 /\ u[1] = "open") /\ ~(Len(u) >= 2 /\ u[1] = "open" /\ u[2] = "ink")
      BY <1>1, <1>2, <1>9, <2>2, Tagged
    <3>3. Len(u) = 1 \/ Len(u) >= 2
      <4>1. \A n \in Nat : n = 0 \/ n = 1 \/ n >= 2
        OBVIOUS
      <4>2. Len(u) # 0
        BY <1>1, <3>2 DEF Text
      <4> QED BY <1>1, <4>1, <4>2
    <3>4. Plain(t)
      BY <1>3, <3>2, <3>3
    <3> QED BY <3>1, <3>4 DEF decision
  <2> QED BY <2>1, <2>2
<1> QED BY <1>7, <1>8, <1>9

\* What is known of a text that begins with something else stays known.
LEMMA PlainMore ==
  ASSUME NEW t \in Text, Plain(t)
  PROVE  /\ ThoughtOf(t) = <<>> /\ AnswerOf(t) = t
         /\ \A d \in Text : Plain(t \o d)
<1> DEFINE u == TrimLeft(t)
<1>1. /\ u \in Text /\ Len(u) \in Nat /\ u # <<>>
      /\ u[1] # "open" \/ (Len(u) >= 2 /\ u[2] # "ink")
  BY TrimLeftText, TextFacts DEF Plain
<1>2. ~OpensThink(t)
  BY <1>1, Tagged DEF OpensThink
<1>3. splitLeadingThinkBlock(t) = [ok |-> FALSE, reasoning |-> <<>>, answer |-> t] /\ ~Unclosed(t)
  BY <1>2 DEF splitLeadingThinkBlock, Unclosed
<1>4. ASSUME NEW d \in Text PROVE Plain(t \o d)
  <2> DEFINE w == TrimLeft(t \o d)
  <2>1. w = u \o d
    BY <1>1, TrimLeftMore, TrimLeftNothing
  <2> HIDE DEF u, w
  <2>2. /\ w \in Text /\ Len(w) = Len(u) + Len(d) /\ Len(d) \in Nat
        /\ \A i \in 1..Len(u) : w[i] = u[i]
    BY <1>1, <2>1, ConcatFacts, TextFacts
  <2>3. Len(u) # 0
    BY <1>1 DEF Text
  <2>4. Len(u) >= 1 /\ 1 \in 1..Len(u) /\ w[1] = u[1] /\ w # <<>>
    BY <1>1, <2>2, <2>3
  <2>5. Len(u) >= 2 => Len(w) >= 2 /\ w[2] = u[2]
    BY <1>1, <2>2
  <2> QED BY <1>1, <2>4, <2>5 DEF Plain, w
<1> QED BY <1>3, <1>4 DEF ThoughtOf, AnswerOf

\* A block that has begun has begun.
LEMMA OpensMore ==
  ASSUME NEW t \in Text, OpensThink(t), NEW d \in Text
  PROVE  /\ OpensThink(t \o d) /\ TrimLeft(t \o d) = TrimLeft(t) \o d
         /\ Len(TrimLeft(t)) >= 2
         /\ TrimLeft(t) # thinkOpenTag => TrimLeft(t \o d) # thinkOpenTag
<1> DEFINE u == TrimLeft(t)
           w == TrimLeft(t \o d)
<1>1. u \in Text /\ Len(u) \in Nat /\ Len(u) >= 2 /\ u[1] = "open" /\ u[2] = "ink"
  BY TrimLeftText, TextFacts, Tagged DEF OpensThink
<1>2. w = u \o d
  <2>1. u # <<>>
    BY <1>1
  <2> QED BY <2>1, TrimLeftMore, TrimLeftNothing
<1> HIDE DEF u, w
<1>3. /\ w \in Text /\ Len(w) = Len(u) + Len(d) /\ Len(d) \in Nat
      /\ \A i \in 1..Len(u) : w[i] = u[i]
  BY <1>1, <1>2, ConcatFacts, TextFacts
<1>4. 1 \in 1..Len(u) /\ 2 \in 1..Len(u) /\ Len(w) >= 2
  BY <1>1, <1>3
<1>5. IsPrefix(thinkOpenTag, w)
  BY <1>1, <1>3, <1>4, Tagged
<1>6. u # thinkOpenTag => w # thinkOpenTag
  <2>1. u # thinkOpenTag => Len(u) # 2
    BY <1>1, Tagged
  <2>2. w = thinkOpenTag => Len(w) = 2
    BY <1>3, Tagged
  <2>3. \A m, n, k \in Nat : m >= 2 /\ m # 2 /\ n = m + k => n # 2
    OBVIOUS
  <2> QED BY <1>1, <1>3, <2>1, <2>2, <2>3
<1> QED BY <1>1, <1>2, <1>5, <1>6 DEF u, w, OpensThink

LEMMA WithoutMore ==
  ASSUME NEW t \in Text, NEW n \in Nat, n <= Len(t), NEW d \in Text
  PROVE  Without(t \o d, n) = Without(t, n) \o d
<1> DEFINE w == t \o d
           a == Without(w, n)
           r == Without(t, n)
           b == r \o d
<1>1. Len(t) \in Nat /\ Len(d) \in Nat /\ t \in Seq(Piece) /\ d \in Seq(Piece)
  BY TextFacts
<1>2. /\ w \in Text /\ w \in Seq(Piece) /\ Len(w) = Len(t) + Len(d) /\ \A i \in 1..Len(t) : w[i] = t[i]
      /\ \A i \in 1..(Len(t) + Len(d)) : i \notin 1..Len(t) => i - Len(t) \in 1..Len(d) /\ w[i] = d[i - Len(t)]
  BY ConcatFacts DEF Text
<1> HIDE DEF w
<1>3. a \in Text /\ Len(a) = Len(w) - n /\ \A i \in 1..Len(a) : a[i] = w[i + n]
  <2>1. a \in Text
    BY <1>2, WithoutText
  <2>2. Len(a) = Len(w) - n
    BY <1>1, <1>2 DEF Without
  <2>3. \A i \in 1..Len(a) : a[i] = w[i + n]
    BY <1>1, <1>2, <2>2 DEF Without
  <2> QED BY <2>1, <2>2, <2>3
<1>4. r \in Text /\ Len(r) = Len(t) - n /\ \A i \in 1..Len(r) : r[i] = t[i + n]
  <2>1. r \in Text
    BY WithoutText
  <2>2. Len(r) = Len(t) - n
    BY <1>1 DEF Without
  <2>3. \A i \in 1..Len(r) : r[i] = t[i + n]
    BY <1>1, <2>2 DEF Without
  <2> QED BY <2>1, <2>2, <2>3
<1> HIDE DEF a, r
<1>5. /\ b \in Text /\ Len(b) = Len(r) + Len(d) /\ \A i \in 1..Len(r) : b[i] = r[i]
      /\ \A i \in 1..(Len(r) + Len(d)) : i \notin 1..Len(r) => i - Len(r) \in 1..Len(d) /\ b[i] = d[i - Len(r)]
  BY <1>4, ConcatFacts
<1> HIDE DEF b
<1>6. Len(a) = Len(b)
  BY <1>1, <1>2, <1>3, <1>4, <1>5
<1>7. ASSUME NEW i \in 1..Len(a) PROVE a[i] = b[i]
  <2>1. CASE i \in 1..Len(r)
    <3>1. i + n \in 1..Len(t)
      BY <1>1, <1>4, <2>1
    <3> QED BY <1>2, <1>3, <1>4, <1>5, <2>1, <3>1
  <2>2. CASE i \notin 1..Len(r)
    <3>1. /\ i \in 1..(Len(r) + Len(d)) /\ i + n \in 1..(Len(t) + Len(d)) /\ i + n \notin 1..Len(t)
          /\ (i + n) - Len(t) = i - Len(r)
      BY <1>1, <1>2, <1>3, <1>4, <2>2
    <3> QED BY <1>2, <1>3, <1>5, <2>2, <3>1
  <2> QED BY <2>1, <2>2
<1>8. a = b
  BY <1>3, <1>5, <1>6, <1>7, SameTexts
<1> QED BY <1>8 DEF a, b, r, w

\* The first end tag is at at.
Ends(at, t) == at \in Closings(t) /\ \A j \in Closings(t) : at <= j

LEMMA ClosingFacts ==
  ASSUME NEW t \in Text
  PROVE  /\ Closings(t) \subseteq 1..(Len(t) - 1)
         /\ \A i \in 1..(Len(t) - 1) : i \in Closings(t) <=> t[i] = "close" /\ t[i + 1] = "ink"
<1> DEFINE tag == <<"close", "ink">>
<1>1. t \in Seq(Piece) /\ Len(t) \in Nat
  BY TextFacts
<1>2. tag \in Text /\ Len(tag) = 2 /\ tag[1] = "close" /\ tag[2] = "ink" /\ thinkCloseTag = tag
  BY DEF Piece, Text, thinkCloseTag
<1> HIDE DEF tag
<1>3. ASSUME NEW i \in 1..(Len(t) - 1)
      PROVE  SubSeq(t, i, i + 1) = tag <=> t[i] = "close" /\ t[i + 1] = "ink"
  <2> DEFINE b == SubSeq(t, i, i + 1)
  <2>1. b \in Text /\ Len(b) = 2 /\ b[1] = t[i] /\ b[2] = t[i + 1]
    <3>1. i \in Nat /\ i + 1 \in 1..Len(t) /\ i \in 1..Len(t) /\ i + 1 - i + 1 = 2 /\ i + 1 - 1 = i /\ i + 2 - 1 = i + 1
      BY <1>1
    <3>2. b \in Seq(Piece)
      BY <1>1, <3>1
    <3>3. Len(b) = 2
      BY <1>1, <3>1
    <3>4. \A n \in 1..2 : b[n] = t[i + n - 1]
      BY <1>1, <3>1, <3>3
    <3>5. b[1] = t[i + 1 - 1] /\ b[2] = t[i + 2 - 1]
      BY <3>4
    <3> HIDE DEF b
    <3> QED BY <3>1, <3>2, <3>3, <3>5 DEF Text
  <2> HIDE DEF b
  <2>2. ASSUME b[1] = "close", b[2] = "ink" PROVE b = tag
    <3>1. \A n \in 1..Len(b) : n = 1 \/ n = 2
      BY <2>1
    <3>2. \A n \in 1..Len(b) : b[n] = tag[n]
      BY <1>2, <2>2, <3>1
    <3> QED BY <1>2, <2>1, <3>2, SameTexts
  <2>3. b = tag <=> t[i] = "close" /\ t[i + 1] = "ink"
    BY <1>2, <2>1, <2>2
  <2> QED BY <2>3 DEF b
<1> QED BY <1>2, <1>3 DEF Closings

LEMMA SplitAt ==
  ASSUME NEW t \in Text, NEW at, Ends(at, Without(TrimLeft(t), 2)), OpensThink(t)
  PROVE  LET body == Without(TrimLeft(t), 2)
             split == splitLeadingThinkBlock(t)
         IN /\ split.ok /\ split.reasoning = TrimSpace(SubSeq(body, 1, at - 1))
            /\ split.answer = TrimLeft(Without(body, at + 1))
<1> DEFINE body == Without(TrimLeft(t), 2)
           min == CHOOSE i \in Closings(body) : \A j \in Closings(body) : i <= j
<1>1. at \in Closings(body) /\ \A j \in Closings(body) : at <= j
  BY DEF Ends
<1>2. min \in Closings(body) /\ \A j \in Closings(body) : min <= j
  BY <1>1
<1>3. body \in Text
  BY TrimLeftText, WithoutText
<1>4. splitLeadingThinkBlock(t) = [ok |-> TRUE, reasoning |-> TrimSpace(SubSeq(body, 1, min - 1)),
                                   answer |-> TrimLeft(Without(body, min + 1))]
  BY <1>1 DEF splitLeadingThinkBlock
<1> HIDE DEF body, min
<1>5. Closings(body) \subseteq Int
  <2>1. Closings(body) \subseteq 1..(Len(body) - 1) /\ Len(body) \in Nat
    BY <1>3, ClosingFacts, TextFacts
  <2> QED BY <2>1
<1>6. min = at
  BY <1>1, <1>2, <1>5
<1> QED BY <1>4, <1>6 DEF body

\* A block that was closed stays as it is, and what follows is answer.
LEMMA SplitMore ==
  ASSUME NEW t \in Text, splitLeadingThinkBlock(t).ok, NEW d \in Text
  PROVE  LET split == splitLeadingThinkBlock(t)
             more == splitLeadingThinkBlock(t \o d)
         IN more.ok /\ more.reasoning = split.reasoning /\ TrimLeft(more.answer) = TrimLeft(split.answer \o d)
<1> DEFINE body == Without(TrimLeft(t), 2)
           wide == Without(TrimLeft(t \o d), 2)
<1>1. OpensThink(t) /\ Closings(body) # {}
  BY DEF splitLeadingThinkBlock
<1>2. /\ t \o d \in Text /\ OpensThink(t \o d) /\ TrimLeft(t \o d) = TrimLeft(t) \o d
      /\ TrimLeft(t) \in Text /\ Len(TrimLeft(t)) >= 2
  BY <1>1, OpensMore, ConcatFacts, TrimLeftText
<1>3. wide = body \o d /\ body \in Text
  <2> DEFINE u == TrimLeft(t)
  <2>1. u \in Text /\ 2 <= Len(u) /\ 2 \in Nat
    BY <1>2, TextFacts
  <2> HIDE DEF u
  <2>2. Without(u \o d, 2) = Without(u, 2) \o d /\ Without(u, 2) \in Text
    BY <2>1, WithoutMore, WithoutText
  <2> QED BY <1>2, <2>2 DEF u
<1>4. PICK at : Ends(at, body)
  <2> HIDE DEF body
  <2>1. Closings(body) \subseteq 1..(Len(body) - 1) /\ Len(body) \in Nat
    BY <1>3, ClosingFacts, TextFacts
  <2>2. Closings(body) \subseteq Nat
    BY <2>1
  <2>3. \E i \in Closings(body) : \A j \in Closings(body) : i <= j
    BY <1>1, <2>2, LeastOf
  <2> QED BY <2>3 DEF Ends
<1>5. /\ splitLeadingThinkBlock(t).reasoning = TrimSpace(SubSeq(body, 1, at - 1))
      /\ splitLeadingThinkBlock(t).answer = TrimLeft(Without(body, at + 1))
  BY <1>1, <1>4, SplitAt
<1> HIDE DEF body, wide
<1>6. /\ wide \in Text /\ Len(wide) = Len(body) + Len(d) /\ Len(body) \in Nat /\ Len(d) \in Nat
      /\ \A i \in 1..Len(body) : wide[i] = body[i]
  BY <1>3, ConcatFacts, TextFacts
<1>7. at \in 1..(Len(body) - 1)
  BY <1>3, <1>4, ClosingFacts DEF Ends
<1>8. Ends(at, wide)
  <2>1. \A i \in 1..(Len(body) - 1) : i \in Closings(wide) <=> i \in Closings(body)
    <3>0. /\ \A i \in 1..(Len(body) - 1) : i \in Closings(body) <=> body[i] = "close" /\ body[i + 1] = "ink"
          /\ \A i \in 1..(Len(wide) - 1) : i \in Closings(wide) <=> wide[i] = "close" /\ wide[i + 1] = "ink"
      BY <1>3, <1>6, ClosingFacts
    <3>1. ASSUME NEW i \in 1..(Len(body) - 1) PROVE i \in Closings(wide) <=> i \in Closings(body)
      <4>1. i \in 1..(Len(wide) - 1) /\ wide[i] = body[i] /\ wide[i + 1] = body[i + 1]
        BY <1>6
      <4> QED BY <3>0, <4>1
    <3> QED BY <3>1
  <2>2. ASSUME NEW j \in Closings(wide) PROVE at <= j
    <3>1. j \in 1..(Len(wide) - 1)
      BY <1>6, ClosingFacts
    <3>2. CASE j \in 1..(Len(body) - 1)
      BY <1>4, <2>1, <3>2 DEF Ends
    <3>3. CASE j \notin 1..(Len(body) - 1)
      BY <1>6, <1>7, <3>1, <3>3
    <3> QED BY <3>2, <3>3
  <2> QED BY <1>4, <1>7, <2>1, <2>2 DEF Ends
<1>9. /\ splitLeadingThinkBlock(t \o d).ok
      /\ splitLeadingThinkBlock(t \o d).reasoning = TrimSpace(SubSeq(wide, 1, at - 1))
      /\ splitLeadingThinkBlock(t \o d).answer = TrimLeft(Without(wide, at + 1))
  BY <1>2, <1>8, SplitAt DEF wide
<1>10. SubSeq(wide, 1, at - 1) = SubSeq(body, 1, at - 1)
  <2> DEFINE a == SubSeq(wide, 1, at - 1)
             b == SubSeq(body, 1, at - 1)
  <2>0. body \in Seq(Piece) /\ wide \in Seq(Piece) /\ at - 1 \in Nat
    BY <1>3, <1>6, <1>7 DEF Text
  <2>1. a \in Text /\ Len(a) = at - 1 /\ \A i \in 1..Len(a) : a[i] = wide[i]
    BY <1>6, <1>7, <2>0 DEF Text
  <2>2. b \in Text /\ Len(b) = at - 1 /\ \A i \in 1..Len(b) : b[i] = body[i]
    BY <1>6, <1>7, <2>0 DEF Text
  <2> HIDE DEF a, b
  <2>3. \A i \in 1..Len(a) : a[i] = b[i]
    <3>1. \A i \in 1..(at - 1) : i \in 1..Len(body)
      BY <1>6, <1>7
    <3> QED BY <1>6, <2>1, <2>2, <3>1
  <2>4. a = b
    BY <2>1, <2>2, <2>3, SameTexts
  <2> QED BY <2>4 DEF a, b
<1>11. TrimLeft(splitLeadingThinkBlock(t \o d).answer) = TrimLeft(splitLeadingThinkBlock(t).answer \o d)
  <2> DEFINE r == Without(body, at + 1)
  <2>1. at + 1 \in Nat /\ at + 1 <= Len(body)
    BY <1>6, <1>7
  <2>2. Without(wide, at + 1) = r \o d /\ r \in Text
    BY <1>3, <2>1, WithoutMore, WithoutText
  <2> HIDE DEF r
  <2>3. TrimLeft(TrimLeft(r \o d)) = TrimLeft(r \o d) /\ TrimLeft(r) \in Text
    BY <2>2, ConcatFacts, TrimTwice, TrimLeftText
  <2>4. TrimLeft(TrimLeft(r) \o d) = TrimLeft(r \o d)
    BY <2>2, <2>3, TrimTwice, TrimSame
  <2> QED BY <1>5, <1>9, <2>2, <2>3, <2>4 DEF r
<1> QED BY <1>5, <1>9, <1>10, <1>11

LEMMA OutcomeTexts ==
  ASSUME NEW t \in Text
  PROVE  /\ ThoughtOf(t) \in Text /\ AnswerOf(t) \in Text
         /\ splitLeadingThinkBlock(t).ok => /\ ThoughtOf(t) = splitLeadingThinkBlock(t).reasoning
                                            /\ AnswerOf(t) = splitLeadingThinkBlock(t).answer
BY SplitTexts, NoText DEF ThoughtOf, AnswerOf, Unclosed

\* Content whose block, if it begins with one, is closed.
Settled(t) == Plain(t) \/ splitLeadingThinkBlock(t).ok

LEMMA SettledMore ==
  ASSUME NEW t \in Text, Settled(t), NEW d \in Text
  PROVE  /\ Settled(t \o d) /\ ThoughtOf(t \o d) = ThoughtOf(t)
         /\ TrimLeft(AnswerOf(t \o d)) = TrimLeft(AnswerOf(t) \o d)
<1>1. t \o d \in Text
  BY ConcatFacts
<1>2. CASE Plain(t)
  <2>1. ThoughtOf(t) = <<>> /\ AnswerOf(t) = t /\ Plain(t \o d)
    BY <1>2, PlainMore
  <2>2. ThoughtOf(t \o d) = <<>> /\ AnswerOf(t \o d) = t \o d
    BY <1>1, <2>1, PlainMore
  <2> QED BY <2>1, <2>2 DEF Settled
<1>3. CASE splitLeadingThinkBlock(t).ok
  <2>1. /\ splitLeadingThinkBlock(t \o d).ok
        /\ splitLeadingThinkBlock(t \o d).reasoning = splitLeadingThinkBlock(t).reasoning
        /\ TrimLeft(splitLeadingThinkBlock(t \o d).answer) = TrimLeft(splitLeadingThinkBlock(t).answer \o d)
    BY <1>3, SplitMore
  <2>2. /\ ThoughtOf(t) = splitLeadingThinkBlock(t).reasoning /\ AnswerOf(t) = splitLeadingThinkBlock(t).answer
        /\ ThoughtOf(t \o d) = splitLeadingThinkBlock(t \o d).reasoning
        /\ AnswerOf(t \o d) = splitLeadingThinkBlock(t \o d).answer
    BY <1>1, <1>3, <2>1, OutcomeTexts
  <2> QED BY <2>1, <2>2 DEF Settled
<1> QED BY <1>2, <1>3 DEF Settled

-----------------------------------------------------------------------------
(* What went out, and what is held back, is what came in.                  *)

\* s has all of the head h, the tail r and the own reasoning o, in its items.
Outcome(s, h, r, o) ==
  /\ TrimLeft(s.text[Message]) = TrimLeft(AnswerOf(h) \o r)
  /\ s.text[Reasoning] = o \o ThoughtOf(h)

\* The head is held back, the text of its block not being complete.
Held(s, h) ==
  IF s.mode = "reasoning"
  THEN OpensThink(h) /\ TrimLeft(h) # thinkOpenTag /\ ~splitLeadingThinkBlock(h).ok
  ELSE leadingThinkPrefixDecision(h) = "need_more"

\* cut: the head is over.
Told(s, h, r, o, cut) ==
  IF s.mode = "text"
  THEN /\ Outcome(s, h, r, o)
       /\ ThoughtOf(h) # <<>> => s.done[Reasoning]
       /\ ~cut => r = <<>> /\ Settled(h)
  ELSE /\ ~cut /\ r = <<>> /\ s.buffer = h /\ Held(s, h)
       /\ s.text[Message] = <<>> /\ s.text[Reasoning] = o

LEMMA ToldReasoning ==
  ASSUME NEW h \in Text, NEW r \in Text, NEW o \in Text, NEW cut, NEW s, Told(s, h, r, o, cut), NEW d \in Text,
         NEW t, t.mode = s.mode, t.buffer = s.buffer, Says(s, t, d, <<>>), d # <<>> => ~s.done[Reasoning],
         s.text[Message] \in Text
  PROVE  Told(t, h, r, o \o d, cut)
<1>1. /\ t.text[Reasoning] = s.text[Reasoning] \o d /\ t.text[Message] = s.text[Message]
      /\ s.done[Reasoning] => t.done[Reasoning]
  BY NoText DEF Says
<1>2. CASE s.mode = "text"
  <2>1. Outcome(s, h, r, o) /\ (ThoughtOf(h) # <<>> => s.done[Reasoning]) /\ (~cut => r = <<>> /\ Settled(h))
    BY <1>2 DEF Told
  <2>2. t.text[Reasoning] = (o \o d) \o ThoughtOf(h)
    <3>1. t.text[Reasoning] = (o \o ThoughtOf(h)) \o d
      BY <1>1, <2>1 DEF Outcome
    <3>2. o \o d \in Text /\ ThoughtOf(h) \in Text
      BY ConcatFacts, OutcomeTexts
    <3>3. CASE d = <<>>
      <4>1. o \o ThoughtOf(h) \in Text
        BY <3>2, ConcatFacts
      <4> QED BY <3>1, <3>3, <4>1, NoText
    <3>4. CASE d # <<>>
      <4>1. ThoughtOf(h) = <<>>
        BY <2>1, <3>4
      <4> QED BY <3>1, <3>2, <4>1, NoText
    <3> QED BY <3>3, <3>4
  <2> QED BY <1>1, <1>2, <2>1, <2>2 DEF Told, Outcome
<1>3. CASE s.mode # "text"
  BY <1>1, <1>3 DEF Told, Held
<1> QED BY <1>2, <1>3

LEMMA ToldContent ==
  ASSUME NEW h \in Text, NEW r \in Text, NEW o \in Text, NEW cut \in BOOLEAN, NEW s, Told(s, h, r, o, cut),
         NEW d \in Text, NEW t, Content(s, t, d), s.text[Message] \in Text
  PROVE  IF cut THEN Told(t, h, r \o d, o, cut) ELSE Told(t, h \o d, r, o, cut)
<1> DEFINE w == h \o d
<1>1. w \in Text /\ AnswerOf(h) \in Text /\ ThoughtOf(h) \in Text /\ AnswerOf(w) \in Text /\ ThoughtOf(w) \in Text
  BY ConcatFacts, OutcomeTexts
<1>2. CASE s.mode = "text"
  <2>1. Outcome(s, h, r, o) /\ (ThoughtOf(h) # <<>> => s.done[Reasoning]) /\ (~cut => r = <<>> /\ Settled(h))
    BY <1>2 DEF Told
  <2>2. t.mode = "text" /\ Says(s, t, <<>>, d)
    BY <1>2 DEF Content
  <2>3. o \o ThoughtOf(h) \in Text
    BY <1>1, ConcatFacts
  <2>4. /\ t.text[Message] = s.text[Message] \o d /\ t.text[Reasoning] = o \o ThoughtOf(h)
        /\ s.done[Reasoning] => t.done[Reasoning]
    BY <2>1, <2>2, <2>3, NoText DEF Says, Outcome
  <2>5. TrimLeft(t.text[Message]) = TrimLeft((AnswerOf(h) \o r) \o d)
    <3>1. AnswerOf(h) \o r \in Text /\ TrimLeft(s.text[Message]) = TrimLeft(AnswerOf(h) \o r)
      BY <1>1, <2>1, ConcatFacts DEF Outcome
    <3> QED BY <2>4, <3>1, TrimSame
  <2>6. CASE cut
    <3>1. Associates(AnswerOf(h), r, d)
      BY <1>1, ConcatTexts
    <3>2. Outcome(t, h, r \o d, o)
      BY <2>4, <2>5, <3>1 DEF Outcome, Associates
    <3> QED BY <2>1, <2>2, <2>4, <2>6, <3>2 DEF Told
  <2>7. CASE ~cut
    <3>1. r = <<>> /\ Settled(h)
      BY <2>1, <2>7
    <3>2. Settled(w) /\ ThoughtOf(w) = ThoughtOf(h) /\ TrimLeft(AnswerOf(w)) = TrimLeft(AnswerOf(h) \o d)
      BY <3>1, SettledMore
    <3> HIDE DEF w
    <3>3. AnswerOf(w) \o r = AnswerOf(w) /\ AnswerOf(h) \o r = AnswerOf(h)
      BY <1>1, <3>1, NoText
    <3>4. Outcome(t, w, r, o)
      BY <2>4, <2>5, <3>2, <3>3 DEF Outcome
    <3>5. Told(t, w, r, o, cut)
      BY <2>1, <2>2, <2>4, <3>1, <3>2, <3>4 DEF Told
    <3> QED BY <2>7, <3>5 DEF w
  <2> QED BY <2>6, <2>7
<1>3. CASE s.mode # "text"
  <2>1. /\ ~cut /\ r = <<>> /\ s.buffer = h /\ Held(s, h)
        /\ s.text[Message] = <<>> /\ s.text[Reasoning] = o
    BY <1>3 DEF Told
  <2> DEFINE split == splitLeadingThinkBlock(w)
             decision == leadingThinkPrefixDecision(w)
  <2>2. \/ s.mode = "detecting" /\ decision = "need_more" /\ t.mode = "detecting" /\ t.buffer = w
           /\ t.text = s.text /\ t.added = s.added /\ t.done = s.done
        \/ s.mode = "detecting" /\ decision = "text" /\ t.mode = "text" /\ Says(s, t, <<>>, w)
        \/ /\ s.mode = "reasoning" \/ decision = "reasoning"
           /\ ~split.ok /\ t.mode = "reasoning" /\ t.buffer = w /\ t.text = s.text
           /\ t.added = s.added /\ t.done = s.done
        \/ /\ s.mode = "reasoning" \/ decision = "reasoning"
           /\ split.ok /\ t.mode = "text" /\ Thinks(s, t, split.reasoning, split.answer)
    BY <1>3, <2>1 DEF Content
  <2>3. s.mode = "reasoning" \/ decision = "reasoning" => OpensThink(w) /\ TrimLeft(w) # thinkOpenTag
    <3>1. CASE s.mode = "reasoning"
      BY <2>1, <3>1, OpensMore DEF Held
    <3>2. CASE decision = "reasoning"
      <4> HIDE DEF w
      <4> QED BY <1>1, <3>2, Decisions
    <3> QED BY <3>1, <3>2
  <2>4. decision = "text" => Plain(w)
    <3> HIDE DEF w
    <3> QED BY <1>1, Decisions
  <2> HIDE DEF w, split, decision
  <2>5. ASSUME NEW a \in Text, NEW b \in Text, AnswerOf(w) = a, ThoughtOf(w) = b, t.mode = "text", Settled(w),
               Thinks(s, t, b, a)
        PROVE  Told(t, w, r, o, cut)
    <3>1. t.text[Message] = a /\ t.text[Reasoning] = o \o b /\ (b # <<>> => t.done[Reasoning]) /\ a \o r = a
      BY <2>1, <2>5, NoText DEF Thinks, Says
    <3> QED BY <2>1, <2>5, <3>1 DEF Told, Outcome
  <2>6. Told(t, w, r, o, cut)
    <3>1. CASE s.mode = "detecting" /\ decision = "need_more" /\ t.mode = "detecting" /\ t.buffer = w /\ t.text = s.text
      BY <2>1, <3>1 DEF Told, Held, decision
    <3>2. CASE decision = "text" /\ t.mode = "text" /\ Says(s, t, <<>>, w)
      <4>1. Plain(w) /\ AnswerOf(w) = w /\ ThoughtOf(w) = <<>> /\ Settled(w)
        BY <1>1, <2>4, <3>2, PlainMore DEF Settled
      <4>2. Thinks(s, t, <<>>, w)
        BY <3>2 DEF Thinks
      <4> QED BY <1>1, <2>5, <3>2, <4>1, <4>2
    <3>3. CASE /\ s.mode = "reasoning" \/ decision = "reasoning"
               /\ ~split.ok /\ t.mode = "reasoning" /\ t.buffer = w /\ t.text = s.text
      BY <2>1, <2>3, <3>3 DEF Told, Held, split
    <3>4. CASE split.ok /\ t.mode = "text" /\ Thinks(s, t, split.reasoning, split.answer)
      <4>1. AnswerOf(w) = split.answer /\ ThoughtOf(w) = split.reasoning /\ Settled(w)
        BY <1>1, <3>4, OutcomeTexts DEF Settled, split
      <4> QED BY <1>1, <2>5, <3>4, <4>1
    <3> QED BY <2>2, <3>1, <3>2, <3>3, <3>4
  <2> QED BY <2>1, <2>6 DEF w
<1> QED BY <1>2, <1>3

LEMMA ToldFlushed ==
  ASSUME NEW h \in Text, NEW r \in Text, NEW o \in Text, NEW cut, NEW s \in State, Told(s, h, r, o, cut),
         NEW t, Flushed(s, t)
  PROVE  Outcome(t, h, r, o) /\ (ThoughtOf(h) # <<>> => t.done[Reasoning])
<1>1. AnswerOf(h) \in Text /\ ThoughtOf(h) \in Text /\ s.mode \in {"detecting", "reasoning", "text"}
      /\ s.text[Message] \in Text /\ s.text[Reasoning] \in Text
  BY OutcomeTexts, SlotKinds DEF State
<1>2. CASE s.mode = "text"
  <2>1. Says(s, t, <<>>, <<>>)
    BY <1>2 DEF Flushed
  <2>2. t.text[Message] = s.text[Message] /\ t.text[Reasoning] = s.text[Reasoning] /\ (s.done[Reasoning] => t.done[Reasoning])
    BY <1>1, <2>1, NoText DEF Says
  <2> QED BY <1>2, <2>2 DEF Told, Outcome
<1>3. CASE s.mode # "text"
  <2> DEFINE split == splitLeadingThinkBlock(h)
  <2>1. /\ r = <<>> /\ s.buffer = h /\ Held(s, h) /\ s.text[Message] = <<>> /\ s.text[Reasoning] = o
    BY <1>3 DEF Told
  <2>2. ASSUME NEW a \in Text, NEW b \in Text, AnswerOf(h) = a, ThoughtOf(h) = b, Thinks(s, t, b, a)
        PROVE  Outcome(t, h, r, o) /\ (ThoughtOf(h) # <<>> => t.done[Reasoning])
    <3>1. t.text[Message] = a /\ t.text[Reasoning] = o \o b /\ (b # <<>> => t.done[Reasoning]) /\ a \o r = a
      BY <2>1, <2>2, NoText DEF Thinks, Says
    <3> QED BY <2>2, <3>1 DEF Outcome
  <2>3. CASE s.mode = "reasoning"
    <3>1. OpensThink(h) /\ TrimLeft(h) # thinkOpenTag /\ ~split.ok
      BY <2>1, <2>3 DEF Held
    <3>2. Thinks(s, t, stripLeadingThinkOpenTag(h), <<>>)
      BY <2>1, <2>3, <3>1 DEF Flushed
    <3>3. AnswerOf(h) = <<>> /\ ThoughtOf(h) = stripLeadingThinkOpenTag(h)
      BY <3>1 DEF AnswerOf, ThoughtOf, Unclosed
    <3> QED BY <1>1, <2>2, <3>2, <3>3
  <2>4. CASE s.mode = "detecting"
    <3>1. ~split.ok /\ ~Unclosed(h)
      BY <2>1, <2>4, Decisions DEF Held
    <3>2. Says(s, t, <<>>, h)
      BY <2>1, <2>4 DEF Flushed
    <3>3. AnswerOf(h) = h /\ ThoughtOf(h) = <<>>
      <4>1. split = [ok |-> FALSE, reasoning |-> <<>>, answer |-> h]
        BY <3>1 DEF splitLeadingThinkBlock
      <4> QED BY <3>1, <4>1 DEF AnswerOf, ThoughtOf
    <3>4. Thinks(s, t, <<>>, h)
      BY <3>2 DEF Thinks
    <3> QED BY <1>1, <2>2, <3>3, <3>4
  <2> QED BY <1>1, <1>3, <2>3, <2>4
<1> QED BY <1>2, <1>3

\* g: the chunks received.
OutcomeOf(s, g) == Outcome(s, HeadOf(g), TailOf(g), OwnOf(g))
ToldOf(s, g) == Told(s, HeadOf(g), TailOf(g), OwnOf(g), Boundaries(g) # {})

LEMMA ToldChunk ==
  ASSUME NEW g \in Seq(Chunk), NEW ch \in Chunk, NEW s \in State, ToldOf(s, g), NEW t, Chunked(s, t, ch),
         ch.reasoning # <<>> => ~s.done[Reasoning]
  PROVE  ToldOf(t, Append(g, ch))
<1> DEFINE f == Append(g, ch)
           h == HeadOf(g)
           r == TailOf(g)
           o == OwnOf(g)
           cut == Boundaries(g) # {}
           w == IF cut THEN h ELSE h \o ch.content
           q == IF cut THEN r \o ch.content ELSE r
           e == o \o ch.reasoning
<1>1. /\ h \in Text /\ r \in Text /\ o \in Text /\ cut \in BOOLEAN
      /\ OwnOf(f) = e /\ HeadOf(f) = w /\ TailOf(f) = q
      /\ Boundaries(f) # {} <=> cut \/ ch.boundary
  BY GotMore
<1>2. ch.reasoning \in Text /\ ch.content \in Text /\ ch.boundary \in BOOLEAN /\ Told(s, h, r, o, cut)
  BY DEF Chunk, ToldOf
<1>3. PICK p \in State, d \in State :
        /\ p.mode = s.mode /\ p.buffer = s.buffer /\ Says(s, p, ch.reasoning, <<>>)
        /\ IF ch.content = <<>> THEN d = p ELSE Content(p, d, ch.content)
        /\ IF ch.boundary THEN t.mode = "text" /\ Flushed(d, t) ELSE t = d
  BY DEF Chunked
<1>4. s.text[Message] \in Text /\ p.text[Message] \in Text
  BY SlotKinds DEF State
<1> HIDE DEF f, h, r, o, cut
<1>5. e \in Text /\ w \in Text /\ q \in Text
  BY <1>1, <1>2, ConcatFacts
<1>6. Told(p, h, r, e, cut)
  BY <1>1, <1>2, <1>3, <1>4, ToldReasoning
<1> HIDE DEF e
<1>7. Told(d, w, q, e, cut)
  <2>1. CASE ch.content = <<>>
    <3>1. w = h /\ q = r /\ d = p
      BY <1>1, <1>3, <2>1, NoText
    <3> QED BY <1>6, <3>1
  <2>2. CASE ch.content # <<>>
    <3>1. IF cut THEN Told(d, h, r \o ch.content, e, cut) ELSE Told(d, h \o ch.content, r, e, cut)
      BY <1>1, <1>2, <1>3, <1>4, <1>5, <1>6, <2>2, ToldContent
    <3> QED BY <1>1, <3>1
  <2> QED BY <2>1, <2>2
<1> HIDE DEF w, q
<1>8. CASE ~ch.boundary
  BY <1>1, <1>3, <1>7, <1>8 DEF ToldOf, f
<1>9. CASE ch.boundary
  <2>1. Outcome(t, w, q, e) /\ (ThoughtOf(w) # <<>> => t.done[Reasoning]) /\ t.mode = "text"
    BY <1>3, <1>5, <1>7, <1>9, ToldFlushed
  <2>2. Told(t, w, q, e, TRUE)
    BY <2>1 DEF Told
  <2>3. (Boundaries(f) # {}) = TRUE
    BY <1>1, <1>9
  <2> QED BY <1>1, <2>2, <2>3 DEF ToldOf, f
<1> QED BY <1>2, <1>8, <1>9

LEMMA InitTold == Init => ToldOf(st, <<>>)
<1> SUFFICES ASSUME Init PROVE ToldOf(st, <<>>)
  OBVIOUS
<1>1. st.mode = "detecting" /\ st.buffer = <<>> /\ st.text[Message] = <<>> /\ st.text[Reasoning] = <<>>
  BY SlotKinds DEF Init
<1>2. Len(<<>>) = 0 /\ DOMAIN <<>> = {} /\ <<>> \in Text
  BY DEF Text
<1>3. Boundaries(<<>>) = {}
  BY <1>2 DEF Boundaries
<1>4. ASSUME NEW q \in Seq(Text), Len(q) = 0 PROVE FlattenSeq(q) = <<>>
  BY <1>4 DEF FlattenSeq
<1>5. \A I : ContentOf(<<>>, I) = <<>>
  <2>1. ASSUME NEW I PROVE ContentOf(<<>>, I) = <<>>
    <3> DEFINE q == [i \in DOMAIN <<>> |-> IF i \in I THEN <<>>[i].content ELSE <<>>]
    <3>1. q \in Seq(Text) /\ Len(q) = 0
      <4>1. DOMAIN q = {} /\ 1..0 = {}
        BY <1>2
      <4>2. q = <<>>
        BY <1>2
      <4> HIDE DEF q
      <4> QED BY <1>2, <4>2
    <3>2. ContentOf(<<>>, I) = FlattenSeq(q)
      BY DEF ContentOf
    <3> HIDE DEF q
    <3> QED BY <1>4, <3>1, <3>2
  <2> QED BY <2>1
<1>6. OwnOf(<<>>) = <<>>
  <2> DEFINE q == [i \in DOMAIN <<>> |-> <<>>[i].reasoning]
  <2>1. q = <<>>
    BY <1>2
  <2>2. OwnOf(<<>>) = FlattenSeq(q)
    BY DEF OwnOf
  <2> HIDE DEF q
  <2>3. q \in Seq(Text) /\ Len(q) = 0
    BY <1>2, <2>1
  <2> QED BY <1>4, <2>2, <2>3
<1>7. HeadOf(<<>>) = <<>> /\ TailOf(<<>>) = <<>>
  BY <1>5 DEF HeadOf, TailOf
<1>8. leadingThinkPrefixDecision(<<>>) = "need_more"
  <2>1. TrimLeft(<<>>) = <<>>
    BY <1>2 DEF TrimLeft, Solid
  <2>2. IsStrictPrefix(<<>>, thinkOpenTag)
    BY <1>2, Tagged
  <2> QED BY <2>1, <2>2 DEF leadingThinkPrefixDecision
<1>9. Told(st, <<>>, <<>>, <<>>, FALSE)
  BY <1>1, <1>8 DEF Told, Held
<1>10. (Boundaries(<<>>) # {}) = FALSE
  BY <1>3
<1> QED BY <1>6, <1>7, <1>9, <1>10 DEF ToldOf

\* A client that was told of an end hears nothing more.
LEMMA TellsOver ==
  ASSUME NEW L, NEW c, Over(c.phase), NEW es \in Seq(Events), NEW k, Tells(L, c, es, k)
  PROVE  k = c
<1>1. PICK run : /\ DOMAIN run = 0..Len(es) /\ run[0] = c /\ run[Len(es)] = k
                 /\ \A n \in 0..Len(es) : run[n] \in Client
                 /\ \A n \in 1..Len(es) : run[n] = Hears(run[n - 1], es[n]) /\ Legal(L, run[n - 1], run[n])
  BY DEF Tells
<1>2. c.phase # "silent" /\ c.phase # "open" /\ Len(es) \in Nat
  BY DEF Over
<1>3. \A d : Legal(L, c, d) => d = c
  BY <1>2 DEF Legal
<1> DEFINE same == {n \in Nat : n <= Len(es) => run[n] = c}
<1>4. 0 \in same
  BY <1>1
<1>5. ASSUME NEW n \in Nat, n \in same PROVE n + 1 \in same
  <2>1. SUFFICES ASSUME n + 1 <= Len(es) PROVE run[n + 1] = c
    OBVIOUS
  <2>2. n + 1 \in 1..Len(es) /\ (n + 1) - 1 = n /\ run[n] = c
    BY <1>2, <1>5, <2>1
  <2>3. Legal(L, run[(n + 1) - 1], run[n + 1])
    BY <1>1, <2>2
  <2> QED BY <1>3, <2>2, <2>3
<1> HIDE DEF same
<1>6. Nat \subseteq same
  BY <1>4, <1>5, AllNumbers
<1> QED BY <1>1, <1>2, <1>6 DEF same

\* Between two blocks: all is told, or held back, or the client is told of a failure.
Truthful(L, c, s, g) ==
  IF s.completed THEN WillEnd(L, c, s, "failed") \/ OutcomeOf(s, g) ELSE ToldOf(s, g)

LEMMA TruthfulEnd ==
  ASSUME NEW L, NEW c \in Client, NEW s, Stage(L, c, s), NEW g, Truthful(L, c, s, g), c.phase = "completed"
  PROVE  OutcomeOf(s, g)
<1>1. s.events \in Seq(Events) /\ Sound(L, c, s) /\ Over(c.phase)
  BY StageLeft DEF Left, State, Over
<1>2. PICK k : Tells(L, c, s.events, k) /\ Fits(L, s, s.text, k)
  BY <1>1 DEF Sound, SoundBut
<1>3. k = c
  BY <1>1, <1>2, TellsOver
<1>4. s.completed
  BY <1>2, <1>3 DEF Fits
<1>5. ~WillEnd(L, c, s, "failed")
  <2>1. SUFFICES ASSUME NEW m, Tells(L, c, s.events, m), m.phase = "failed" PROVE FALSE
    BY DEF WillEnd
  <2>2. m = c
    BY <1>1, <2>1, TellsOver
  <2> QED BY <2>1, <2>2
<1> QED BY <1>4, <1>5 DEF Truthful

LEMMA TruthfulWrites ==
  ASSUME NEW L, NEW c, NEW s, Stage(L, c, s), s.events # <<>>, NEW g, Truthful(L, c, s, g)
  PROVE  Truthful(L, Hears(c, Head(s.events)), WithEvents(s, Tail(s.events)), g)
<1> DEFINE d == Hears(c, Head(s.events))
           t == WithEvents(s, Tail(s.events))
<1>1. s \in State /\ s.events \in Seq(Events)
  BY StageLeft DEF Left, State
<1>2. /\ t.completed = s.completed /\ t.text = s.text /\ t.mode = s.mode /\ t.buffer = s.buffer /\ t.done = s.done
      /\ t.events = Tail(s.events)
  BY <1>1 DEF State, WithEvents
<1>3. \A k : Tells(L, c, s.events, k) => Tells(L, d, Tail(s.events), k)
  BY <1>1, TellsFirst
<1> HIDE DEF d, t
<1>4. WillEnd(L, c, s, "failed") => WillEnd(L, d, t, "failed")
  BY <1>2, <1>3 DEF WillEnd
<1>5. OutcomeOf(s, g) => OutcomeOf(t, g)
  BY <1>2 DEF OutcomeOf, Outcome
<1>6. ToldOf(s, g) => ToldOf(t, g)
  BY <1>2 DEF ToldOf, Told, Outcome, Held
<1>7. Truthful(L, d, t, g)
  BY <1>2, <1>4, <1>5, <1>6 DEF Truthful
<1> QED BY <1>7 DEF d, t

ContentInv ==
  ~upstream.late =>
    /\ pc \in {"read", "write"} => Truthful(Loose(upstream), client, st, got)
    /\ pc = "tools" => OutcomeOf(st, got)
    /\ pc = "returned" /\ client.phase = "completed" => OutcomeOf(st, got)

LEMMA GotTexts ==
  ASSUME NEW g \in Seq(Chunk)
  PROVE  HeadOf(g) \in Text /\ TailOf(g) \in Text /\ OwnOf(g) \in Text
<1>1. \A i \in DOMAIN g : g[i].content \in Text /\ g[i].reasoning \in Text
  <2>1. \A i \in DOMAIN g : g[i] \in Chunk
    OBVIOUS
  <2>2. \A ch \in Chunk : ch.content \in Text /\ ch.reasoning \in Text
    BY DEF Chunk
  <2> QED BY <2>1, <2>2
<1>2. Len(g) \in Nat /\ DOMAIN g = 1..Len(g)
  OBVIOUS
<1>3. ASSUME NEW q \in Seq(Text) PROVE FlattenSeq(q) \in Text
  BY NoText, FlattenMore
<1>4. ASSUME NEW I PROVE ContentOf(g, I) \in Text
  <2> DEFINE q == [i \in DOMAIN g |-> IF i \in I THEN g[i].content ELSE <<>>]
  <2>1. q \in Seq(Text)
    BY <1>1, <1>2, NoText
  <2>2. ContentOf(g, I) = FlattenSeq(q)
    BY DEF ContentOf
  <2> HIDE DEF q
  <2> QED BY <1>3, <2>1, <2>2
<1>5. OwnOf(g) \in Text
  <2> DEFINE q == [i \in DOMAIN g |-> g[i].reasoning]
  <2>1. q \in Seq(Text)
    BY <1>1, <1>2
  <2>2. OwnOf(g) = FlattenSeq(q)
    BY DEF OwnOf
  <2> HIDE DEF q
  <2> QED BY <1>3, <2>1, <2>2
<1> QED BY <1>4, <1>5 DEF HeadOf, TailOf

\* What is held back goes out at the end.
LEMMA FlushedOutcome ==
  ASSUME NEW s \in State, NEW g \in Seq(Chunk), ToldOf(s, g), NEW t, Flushed(s, t)
  PROVE  OutcomeOf(t, g)
<1>1. HeadOf(g) \in Text /\ TailOf(g) \in Text /\ OwnOf(g) \in Text
  BY GotTexts
<1> QED BY <1>1, ToldFlushed DEF ToldOf, OutcomeOf

LEMMA NextContent ==
  ASSUME StreamInv, StreamInv', ContentInv, [Next]_vars
  PROVE  ContentInv'
<1> DEFINE L == Loose(upstream)
<1>1. upstream' = upstream
  BY NextStream
<1> SUFFICES ASSUME ~upstream.late
             PROVE  /\ pc' \in {"read", "write"} => Truthful(L, client', st', got')
                    /\ pc' = "tools" => OutcomeOf(st', got')
                    /\ pc' = "returned" /\ client'.phase = "completed" => OutcomeOf(st', got')
  BY <1>1 DEF ContentInv
<1>2. got \in Seq(Chunk) /\ upstream \in Upstreams
  <2>1. \A ch \in Chunks[upstream.about] : ch \in Chunk
    BY ChunksAssumption DEF StreamInv
  <2> QED BY <2>1 DEF StreamInv
<1>3. ASSUME pc = "read", ~st.completed, st' = FinalizeItems(st) PROVE OutcomeOf(st', got)
  <2>1. Reading(L, client, st) /\ ToldOf(st, got)
    BY <1>3 DEF StreamInv, Stage, ContentInv, Truthful
  <2>2. Flushed(st, st') /\ st \in State
    BY <1>3, <2>1, FinalizeItemsClosing DEF Reading, Good
  <2> QED BY <1>2, <2>1, <2>2, FlushedOutcome
<1>4. ASSUME pc = "read", st' = failedEvents(st) PROVE Truthful(L, client, st', got)
  <2>1. Stage(L, client, st) /\ Truthful(L, client, st, got)
    BY <1>4 DEF StreamInv, ContentInv
  <2>2. CASE st.completed
    <3>1. st' = st
      BY <1>4, <2>1, <2>2, FailedGood DEF Stage
    <3> QED BY <2>1, <3>1
  <2>3. CASE ~st.completed
    <3>1. Finished(L, client, st') /\ WillEnd(L, client, st', "failed")
      BY <1>4, <2>1, <2>3, FailedGood DEF Stage, Reading
    <3> QED BY <3>1 DEF Truthful, Finished
  <2> QED BY <2>2, <2>3
<1>5. ASSUME pc \in {"read", "write"}, client.phase = "completed" PROVE OutcomeOf(st, got)
  <2>1. Stage(L, client, st) /\ Truthful(L, client, st, got) /\ client \in Client
    BY <1>5 DEF StreamInv, ContentInv
  <2> QED BY <1>5, <2>1, TruthfulEnd
<1>6. CASE ReadChunk
  <2>1. PICK ch \in Chunks[upstream.about] :
          /\ MaySend(ch)
          /\ IF st.completed THEN UNCHANGED <<upstream, st, pc, got>>
             ELSE /\ st' = handleChatChunk(st, ch)
                  /\ pc' = "write"
                  /\ got' = Append(got, ch)
    BY <1>6 DEF ReadChunk
  <2>2. UNCHANGED <<upstream, client, then, lost>> /\ pc = "read"
    BY <1>6 DEF ReadChunk
  <2>3. CASE st.completed
    BY <2>1, <2>2, <2>3 DEF ContentInv
  <2>4. CASE ~st.completed
    <3>1. Reading(L, client, st') /\ Chunked(st, st', ch)
      BY <1>6, <2>1, <2>4, ReadChunkStage
    <3>2. ch \in Chunk /\ ToldOf(st, got) /\ st \in State /\ (ch.reasoning # <<>> => ~st.done[Reasoning])
      BY <1>2, <2>1, <2>2, <2>4, ChunksAssumption DEF ContentInv, Truthful, StreamInv, Stage, Reading, Good, MaySend
    <3>3. ToldOf(st', got')
      BY <1>2, <2>1, <2>4, <3>1, <3>2, ToldChunk
    <3>4. Truthful(L, client', st', got')
      BY <3>1, <3>3 DEF Truthful, Reading, Good
    <3> QED BY <2>1, <2>4, <3>4
  <2> QED BY <2>3, <2>4
<1>7. CASE ReadError
  <2>1. st' = failedEvents(st) /\ pc' = "write" /\ UNCHANGED <<upstream, client, then, lost, got>> /\ pc = "read"
    BY <1>7 DEF ReadError
  <2> QED BY <1>4, <2>1
<1>8. CASE ReadDone
  <2>1. /\ st' = FinalizeItems(st) /\ pc' = "tools" /\ UNCHANGED <<upstream, client, then, lost, got>>
        /\ pc = "read" /\ ~st.completed
    BY <1>8 DEF ReadDone
  <2> QED BY <1>3, <2>1
<1>9. CASE ReadEOF
  <2>1. UNCHANGED <<upstream, client, lost, got>> /\ pc = "read"
    BY <1>9 DEF ReadEOF
  <2>2. CASE ~st.completed /\ Heard
    <3>1. st' = FinalizeItems(st) /\ pc' = "tools"
      BY <1>9, <2>2 DEF ReadEOF
    <3> QED BY <1>3, <2>1, <2>2, <3>1
  <2>3. CASE ~(~st.completed /\ Heard)
    <3>1. st' = st /\ pc' = "returned"
      BY <1>9, <2>3 DEF ReadEOF
    <3> QED BY <1>5, <2>1, <3>1
  <2> QED BY <2>2, <2>3
<1>10. CASE ReadFails
  <2>1. UNCHANGED <<upstream, client, lost, got>> /\ pc = "read"
    BY <1>10 DEF ReadFails
  <2>2. (pc' = "returned" /\ st' = st) \/ (pc' = "write" /\ st' = failedEvents(st))
    BY <1>10 DEF ReadFails
  <2> QED BY <1>4, <1>5, <2>1, <2>2
<1>11. CASE CloseTool
  <2>1. UNCHANGED <<upstream, client, pc, then, lost, got>> /\ pc = "tools"
    BY <1>11 DEF CloseTool
  <2>2. PICK x \in OpenCalls(st) : st' = FinalizeTool(st, x)
    BY <1>11 DEF CloseTool
  <2>3. Closing(L, client, st) /\ OutcomeOf(st, got) /\ st \in State
    BY <2>1 DEF StreamInv, ContentInv, Closing, Good
  <2>4. Says(st, st', <<>>, <<>>)
    BY <2>2, <2>3, FinalizeToolClosing
  <2>5. st'.text[Message] = st.text[Message] /\ st'.text[Reasoning] = st.text[Reasoning]
    <3>1. st.text[Message] \in Text /\ st.text[Reasoning] \in Text
      BY <2>3, SlotKinds DEF State
    <3> QED BY <2>4, <3>1, NoText DEF Says
  <2>6. OutcomeOf(st', got)
    BY <2>3, <2>5 DEF OutcomeOf, Outcome
  <2> QED BY <2>1, <2>6
<1>12. CASE FinishResponse
  <2>1. /\ UNCHANGED <<upstream, client, then, lost, got>> /\ pc = "tools" /\ pc' = "write"
        /\ OpenCalls(st) = {} /\ st' = CompleteResponse(st)
    BY <1>12 DEF FinishResponse
  <2>2. Finished(L, client, st') /\ st'.text = st.text
    BY <2>1, CompleteFinished DEF StreamInv
  <2>3. OutcomeOf(st', got)
    BY <2>1, <2>2 DEF ContentInv, OutcomeOf, Outcome
  <2>4. Truthful(L, client, st', got)
    BY <2>2, <2>3 DEF Truthful, Finished
  <2> QED BY <2>1, <2>4
<1>13. CASE WriteEvent
  <2>1. /\ pc = "write" /\ st.events # <<>> /\ client' = Hears(client, Head(st.events))
        /\ UNCHANGED <<upstream, got>> /\ st' = WithEvents(st, Tail(st.events))
    BY <1>13 DEF WriteEvent, WithEvents
  <2>2. pc' = pc \/ pc' = "returned"
    BY <1>13 DEF WriteEvent
  <2>3. Stage(L, client, st) /\ Truthful(L, client, st, got)
    BY <2>1 DEF StreamInv, ContentInv
  <2>4. Truthful(L, client', st', got)
    BY <2>1, <2>3, TruthfulWrites
  <2>5. Stage(L, client', st') /\ client' \in Client
    BY <2>1, <2>3, StageWrites
  <2>6. client'.phase = "completed" => OutcomeOf(st', got)
    BY <2>4, <2>5, TruthfulEnd
  <2> QED BY <2>1, <2>2, <2>4, <2>6
<1>14. CASE Written
  <2>1. /\ pc = "write" /\ UNCHANGED <<upstream, st, client, then, lost, got>>
        /\ pc' = IF then = "read" THEN "read" ELSE "returned"
    BY <1>14 DEF Written
  <2>2. Truthful(L, client, st, got)
    BY <2>1 DEF ContentInv
  <2> QED BY <1>5, <2>1, <2>2
<1>15. CASE UNCHANGED vars
  BY <1>15 DEF vars, ContentInv
<1> QED
  BY <1>6, <1>7, <1>8, <1>9, <1>10, <1>11, <1>12, <1>13, <1>14, <1>15 DEF Next

-----------------------------------------------------------------------------
(* What a client may rely on.                                              *)

\* The adapter's state and what a client has made of the events are of their
\* types: no output index is missing, no event hits a stray item, no phase is
\* announced or ended twice.
THEOREM StreamTypes == Spec => []TypeOK
<1>1. StreamInv => TypeOK
  <2> SUFFICES ASSUME StreamInv PROVE TypeOK
    OBVIOUS
  <2>1. st \in State
    BY StageLeft DEF StreamInv, Left
  <2> QED BY <2>1 DEF StreamInv, TypeOK, State, Indexes
<1> QED BY <1>1, StreamInvariant, PTL

\* streamDeepSeekChatSSEToResponses does not leave a client that has heard of
\* the response without its last event.
THEOREM EndIsTold == Spec => []EndsTold
<1>1. StreamInv => EndsTold
  BY DEF StreamInv, EndsTold
<1> QED BY <1>1, StreamInvariant, PTL

\* What pushToolCallDelta keeps with a call is all of the reasoning that was
\* announced before it, whatever is held back when the call comes.
THEOREM CallsCarry == Spec => []CallsCarryReasoning
<1>1. StreamInv => CallsCarryReasoning
  <2> SUFFICES ASSUME StreamInv, ~upstream.late, ~upstream.unnamed PROVE CallsCarryReasoning
    BY DEF CallsCarryReasoning
  <2>1. Loose(upstream) = {}
    BY DEF Loose
  <2>2. Carries(st)
    BY <2>1, StageLeft DEF StreamInv, Left
  <2> QED BY <2>2 DEF CallsCarryReasoning, Carries
<1> QED BY <1>1, StreamInvariant, PTL

\* The adapter implements ResponsesProtocol: the items of a response have
\* consecutive indexes, get their deltas while they are open, are closed once, and are
\* listed by one last event; reasoning and messages are closed with the text of their
\* deltas, calls with what canonicalJSONText makes of it.
THEOREM ImplementsProtocol == Spec => FollowsProtocol
<1>1. Init => Protocol!Init
  <2> SUFFICES ASSUME Init PROVE Protocol!Init
    OBVIOUS
  <2>1. client = NewClient
    BY DEF Init
  <2> QED BY <2>1 DEF Protocol!Init, NewClient, Kinds
<1>2. StreamInv /\ StreamInv' /\ [Next]_vars => [Protocol!Next]_Protocol!vars
  <2> SUFFICES ASSUME StreamInv, StreamInv', [Next]_vars PROVE [Protocol!Next]_Protocol!vars
    OBVIOUS
  <2>1. upstream' = upstream /\ Legal(Loose(upstream), client, client')
    BY NextStream
  <2>2. client \in Client /\ client' \in Client
    BY DEF StreamInv
  <2> QED BY <2>1, <2>2, LegalSteps
<1> QED BY <1>1, <1>2, StreamInvariant, PTL DEF Spec, FollowsProtocol, Protocol!Spec

\* However the upstream cuts its content into chunks, think tags included, a
\* completed response has the reasoning and the answer of the whole content.
THEOREM ContentIsTold == Spec => []ChunkingIrrelevant
<1>1. Init => ContentInv
  <2> SUFFICES ASSUME Init PROVE ContentInv
    OBVIOUS
  <2>1. ToldOf(st, <<>>) /\ got = <<>> /\ ~st.completed /\ pc = "read"
    BY InitTold DEF Init
  <2> QED BY <2>1 DEF ContentInv, Truthful
<1>2. StreamInv /\ StreamInv' /\ ContentInv /\ [Next]_vars => ContentInv'
  BY NextContent
<1>3. StreamInv /\ ContentInv => ChunkingIrrelevant
  <2> SUFFICES ASSUME StreamInv, ContentInv, ~upstream.late, client.phase = "completed"
               PROVE  OutcomeOf(st, got)
    BY DEF ChunkingIrrelevant, OutcomeOf, Outcome, HeadOf, TailOf, OwnOf, HeadContent, TailContent, OwnReasoning
  <2>1. CASE pc \in {"read", "write"}
    <3>1. Stage(Loose(upstream), client, st) /\ Truthful(Loose(upstream), client, st, got) /\ client \in Client
      BY <2>1 DEF StreamInv, ContentInv
    <3> QED BY <3>1, TruthfulEnd
  <2>2. CASE pc \in {"tools", "returned"}
    BY <2>2 DEF ContentInv
  <2> QED BY <2>1, <2>2 DEF StreamInv
<1> QED BY <1>1, <1>2, <1>3, StreamInvariant, PTL DEF Spec

=============================================================================
