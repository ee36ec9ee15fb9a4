------------------------------ MODULE QueueProofs ------------------------------
(* What the proofs about the pages need of their queues: the messages of a   *)
(* queue and those behind it, and the numbered candidates among them.        *)
EXTENDS Integers, Sequences, SequenceTheorems, TLAPS

(* A queue q, the messages b behind it, and what is moved or taken of them.  *)
LEMMA Splitting ==
    ASSUME NEW S, NEW b \in Seq(S), b # <<>>
    PROVE  Head(b) \in S /\ Tail(b) \in Seq(S) /\ b = <<Head(b)>> \o Tail(b)
<1>1. Head(b) \in S /\ Tail(b) \in Seq(S)
  OBVIOUS
<1>2. /\ <<Head(b)>> \in Seq(S) /\ Len(<<Head(b)>>) = 1 /\ <<Head(b)>>[1] = Head(b)
      /\ Len(b) \in Nat \ {0} /\ Head(b) = b[1] /\ Len(Tail(b)) = Len(b) - 1
      /\ \A i \in 1..Len(Tail(b)) : Tail(b)[i] = b[i + 1]
  BY <1>1
<1> DEFINE h == <<Head(b)>>
           v == Tail(b)
<1> HIDE DEF h, v
<1>3. /\ h \o v \in Seq(S) /\ Len(h \o v) = Len(h) + Len(v)
      /\ \A i \in 1..(Len(h) + Len(v)) :
            (h \o v)[i] = IF i <= Len(h) THEN h[i] ELSE v[i - Len(h)]
  BY <1>1, <1>2, ConcatProperties DEF h, v
<1>4. Len(h) = 1 /\ h[1] = b[1] /\ Len(v) = Len(b) - 1 /\ \A i \in 1..Len(v) : v[i] = b[i + 1]
  BY <1>2 DEF h, v
<1>5. Len(h \o v) = Len(b)
  BY <1>2, <1>3, <1>4
<1>6. ASSUME NEW i \in 1..Len(b) PROVE b[i] = (h \o v)[i]
  <2>1. (h \o v)[i] = IF i <= 1 THEN h[i] ELSE v[i - 1]
    BY <1>2, <1>3, <1>4
  <2>2. CASE i = 1
    BY <1>4, <2>1, <2>2
  <2>3. CASE i # 1
    <3>1. i - 1 \in 1..Len(v) /\ (i - 1) + 1 = i /\ ~(i <= 1)
      BY <1>2, <1>4, <2>3
    <3>2. v[i - 1] = b[i]
      BY <1>4, <3>1
    <3> QED  BY <2>1, <3>1, <3>2
  <2> QED  BY <2>2, <2>3
<1>7. b = h \o v
  BY <1>3, <1>5, <1>6, SeqEqual
<1> QED  BY <1>1, <1>7 DEF h, v

LEMMA Passing ==
    ASSUME NEW S, NEW q \in Seq(S), NEW b \in Seq(S), b # <<>>
    PROVE  Append(q, Head(b)) \o Tail(b) = q \o b
<1>1. Head(b) \in S /\ Tail(b) \in Seq(S) /\ b = <<Head(b)>> \o Tail(b)
  BY Splitting
<1>2. <<Head(b)>> \in Seq(S)
  BY <1>1
<1>3. Append(q, Head(b)) = q \o <<Head(b)>>
  BY <1>1, AppendIsConcat
<1>4. (q \o <<Head(b)>>) \o Tail(b) = q \o (<<Head(b)>> \o Tail(b))
  BY <1>1, <1>2, ConcatAssociative
<1> QED  BY <1>1, <1>3, <1>4

LEMMA Adding ==
    ASSUME NEW S, NEW q \in Seq(S), NEW b \in Seq(S), NEW m \in S
    PROVE  q \o Append(b, m) = Append(q \o b, m)
<1>1. <<m>> \in Seq(S) /\ q \o b \in Seq(S)
  OBVIOUS
<1>2. Append(b, m) = b \o <<m>> /\ Append(q \o b, m) = (q \o b) \o <<m>>
  BY <1>1, AppendIsConcat
<1>3. (q \o b) \o <<m>> = q \o (b \o <<m>>)
  BY <1>1, ConcatAssociative
<1> QED  BY <1>2, <1>3

LEMMA Taking ==
    ASSUME NEW S, NEW q \in Seq(S), NEW b \in Seq(S), q # <<>>
    PROVE  /\ q \o b \in Seq(S) /\ q \o b # <<>>
           /\ Head(q \o b) = Head(q) /\ Tail(q \o b) = Tail(q) \o b
<1> DEFINE h == <<Head(q)>>
           w == Tail(q) \o b
<1>1. Head(q) \in S /\ Tail(q) \in Seq(S) /\ q = h \o Tail(q)
  BY Splitting
<1>2. h \in Seq(S) /\ w \in Seq(S)
  BY <1>1
<1>3. q \o b = h \o w
  <2>1. (h \o Tail(q)) \o b = h \o (Tail(q) \o b)
    BY <1>1, <1>2, ConcatAssociative
  <2> QED  BY <1>1, <2>1
<1>4. Len(h) = 1 /\ h[1] = Head(q)
  OBVIOUS
<1> HIDE DEF h, w
<1>5. /\ h \o w \in Seq(S) /\ Len(h \o w) = Len(h) + Len(w)
      /\ \A i \in 1..(Len(h) + Len(w)) :
            (h \o w)[i] = IF i <= Len(h) THEN h[i] ELSE w[i - Len(h)]
  BY <1>2, ConcatProperties
<1> DEFINE s == h \o w
<1>6. s \in Seq(S) /\ Len(s) = 1 + Len(w) /\ Len(w) \in Nat
      /\ s[1] = h[1] /\ \A i \in 1..Len(w) : s[i + 1] = w[i]
  <2>1. Len(w) \in Nat
    BY <1>2
  <2>2. ASSUME NEW i \in 1..Len(w) PROVE (h \o w)[i + 1] = w[i]
    <3>1. i + 1 \in 1..(Len(h) + Len(w)) /\ ~(i + 1 <= Len(h)) /\ (i + 1) - Len(h) = i
      BY <1>4, <2>1
    <3> QED  BY <1>5, <3>1
  <2>3. (h \o w)[1] = h[1]
    BY <1>4, <1>5, <2>1
  <2> QED  BY <1>4, <1>5, <2>1, <2>2, <2>3
<1> HIDE DEF s
<1>7. /\ s # <<>> /\ Head(s) = s[1] /\ Tail(s) \in Seq(S) /\ Len(Tail(s)) = Len(w)
      /\ \A i \in 1..Len(Tail(s)) : Tail(s)[i] = s[i + 1]
  BY <1>6
<1>8. Tail(s) = w
  BY <1>2, <1>6, <1>7, SeqEqual
<1> QED  BY <1>3, <1>4, <1>6, <1>7, <1>8 DEF s, w

(* The inbox without its first message, behind the queue.                    *)
LEMMA Dropping ==
    ASSUME NEW S, NEW q \in Seq(S), NEW b \in Seq(S), b # <<>>
    PROVE  LET s == q \o b
               t == q \o Tail(b)
               k == Len(q) + 1 IN
           /\ s \in Seq(S) /\ t \in Seq(S) /\ k \in 1..Len(s) /\ s[k] = Head(b)
           /\ Len(t) = Len(s) - 1
           /\ \A i \in 1..Len(t) : t[i] = IF i < k THEN s[i] ELSE s[i + 1]
<1> DEFINE s == q \o b
           v == Tail(b)
           t == q \o v
           k == Len(q) + 1
<1>1. /\ Len(b) \in Nat \ {0} /\ Len(q) \in Nat /\ Head(b) = b[1]
      /\ v \in Seq(S) /\ Len(v) = Len(b) - 1 /\ \A i \in 1..Len(v) : v[i] = b[i + 1]
  OBVIOUS
<1> HIDE DEF v
<1>2. /\ q \o b \in Seq(S) /\ Len(q \o b) = Len(q) + Len(b)
      /\ \A i \in 1..(Len(q) + Len(b)) :
            (q \o b)[i] = IF i <= Len(q) THEN q[i] ELSE b[i - Len(q)]
  BY ConcatProperties
<1>3. /\ q \o v \in Seq(S) /\ Len(q \o v) = Len(q) + Len(v)
      /\ \A i \in 1..(Len(q) + Len(v)) :
            (q \o v)[i] = IF i <= Len(q) THEN q[i] ELSE v[i - Len(q)]
  BY <1>1, ConcatProperties
<1>4. /\ s \in Seq(S) /\ Len(s) = Len(q) + Len(b)
      /\ \A i \in 1..(Len(q) + Len(b)) : s[i] = IF i <= Len(q) THEN q[i] ELSE b[i - Len(q)]
      /\ t \in Seq(S) /\ Len(t) = Len(q) + Len(v)
      /\ \A i \in 1..(Len(q) + Len(v)) : t[i] = IF i <= Len(q) THEN q[i] ELSE v[i - Len(q)]
  BY <1>2, <1>3
<1> HIDE DEF s, t
<1>5. k \in 1..Len(s) /\ s[k] = Head(b) /\ Len(t) = Len(s) - 1
  <2>1. k \in 1..(Len(q) + Len(b)) /\ ~(k <= Len(q)) /\ k - Len(q) = 1
    BY <1>1
  <2>2. s[k] = b[1]
    BY <1>4, <2>1
  <2> QED  BY <1>1, <1>4, <2>1, <2>2
<1>6. ASSUME NEW i \in 1..Len(t) PROVE t[i] = IF i < k THEN s[i] ELSE s[i + 1]
  <2>0. i \in 1..(Len(q) + Len(v)) /\ i \in 1..(Len(q) + Len(b))
        /\ i + 1 \in 1..(Len(q) + Len(b))
    BY <1>1, <1>4
  <2>1. CASE i <= Len(q)
    <3>1. t[i] = q[i] /\ s[i] = q[i]
      BY <1>4, <2>0, <2>1
    <3> QED  BY <1>1, <2>0, <2>1, <3>1
  <2>2. CASE i > Len(q)
    <3>1. /\ i - Len(q) \in 1..Len(v) /\ (i - Len(q)) + 1 = (i + 1) - Len(q)
          /\ ~(i + 1 <= Len(q)) /\ ~(i <= Len(q)) /\ ~(i < k)
      BY <1>1, <2>0, <2>2
    <3>2. t[i] = v[i - Len(q)]
      BY <1>4, <2>0, <3>1
    <3>3. v[i - Len(q)] = b[(i + 1) - Len(q)]
      BY <1>1, <3>1
    <3>4. s[i + 1] = b[(i + 1) - Len(q)]
      BY <1>4, <2>0, <3>1
    <3> QED  BY <3>1, <3>2, <3>3, <3>4
  <2> QED  BY <1>1, <2>0, <2>1, <2>2
<1> QED  BY <1>4, <1>5, <1>6 DEF s, t, v

-----------------------------------------------------------------------------
LEMMA FirstAndRest ==
    ASSUME NEW S, NEW q \in Seq(S), q # <<>>
    PROVE  /\ Len(q) \in Nat \ {0} /\ Head(q) = q[1] /\ Head(q) \in S
           /\ Tail(q) \in Seq(S) /\ Len(Tail(q)) = Len(q) - 1
           /\ \A i \in 1..Len(Tail(q)) : Tail(q)[i] = q[i + 1]
           /\ Len(q) = 1 => Tail(q) = <<>>
<1>1. Len(q) \in Nat \ {0} /\ Head(q) = q[1]
  OBVIOUS
<1>2. /\ Tail(q) \in Seq(S) /\ Len(Tail(q)) = Len(q) - 1
      /\ \A i \in 1..Len(Tail(q)) : Tail(q)[i] = q[i + 1]
  OBVIOUS
<1>3. Head(q) \in S
  OBVIOUS
<1>4. Len(q) = 1 => Tail(q) = <<>>
  <2>1. \A t \in Seq(S) : Len(t) = 0 => t = <<>>
    OBVIOUS
  <2>2. Len(q) = 1 => Len(Tail(q)) = 0
    BY <1>1, <1>2
  <2> QED  BY <1>2, <2>1, <2>2
<1> QED  BY <1>1, <1>2, <1>3, <1>4

-----------------------------------------------------------------------------
(* Numbers that continue a count of low. *)
Counted(a, low) == \A i \in 1..Len(a) : a[i] = low + i

LEMMA CountedInLine ==
    ASSUME NEW S, NEW a \in Seq(S), NEW b \in Seq(S), NEW c \in Seq(S),
           Counted(a, 0), Counted(b, Len(a)), Counted(c, Len(a) + Len(b))
    PROVE  LET line == a \o b \o c IN
           line = [i \in 1 .. Len(line) |-> i] /\ Len(line) = Len(a) + Len(b) + Len(c)
<1> DEFINE u == a \o b
           t == u \o c
<1>1. a \in Seq(S) /\ b \in Seq(S) /\ c \in Seq(S)
  OBVIOUS
<1>2. Counted(a, 0) /\ Counted(b, Len(a)) /\ Counted(c, Len(a) + Len(b))
  OBVIOUS
<1>4. Len(a) \in Nat /\ Len(b) \in Nat /\ Len(c) \in Nat
  BY <1>1
<1>5. /\ u \in Seq(S) /\ Len(u) = Len(a) + Len(b)
      /\ \A i \in 1..(Len(a) + Len(b)) : u[i] = IF i <= Len(a) THEN a[i] ELSE b[i - Len(a)]
  BY <1>1, ConcatProperties
<1>6. \A i \in 1..Len(u) : u[i] = i
  <2> SUFFICES ASSUME NEW i \in 1..Len(u) PROVE u[i] = i
    OBVIOUS
  <2>1. CASE i <= Len(a)
    <3>1. u[i] = a[i] /\ i \in 1..Len(a)
      BY <1>4, <1>5, <2>1
    <3> QED  BY <1>2, <3>1 DEF Counted
  <2>2. CASE ~(i <= Len(a))
    <3>1. u[i] = b[i - Len(a)] /\ i - Len(a) \in 1..Len(b)
      BY <1>4, <1>5, <2>2
    <3>2. u[i] = Len(a) + (i - Len(a))
      BY <1>2, <3>1 DEF Counted
    <3> QED  BY <1>4, <1>5, <3>2
  <2> QED  BY <2>1, <2>2
<1> HIDE DEF u
<1>7. /\ t \in Seq(S) /\ Len(t) = Len(u) + Len(c) /\ Len(u) \in Nat
      /\ \A i \in 1..(Len(u) + Len(c)) : t[i] = IF i <= Len(u) THEN u[i] ELSE c[i - Len(u)]
  <2>1. u \in Seq(S) /\ c \in Seq(S)
    BY <1>1, <1>5
  <2>2. Len(u) \in Nat
    BY <2>1
  <2> QED  BY ONLY <2>1, <2>2, ConcatProperties
<1>8. \A i \in 1..Len(t) : t[i] = i
  <2> SUFFICES ASSUME NEW i \in 1..Len(t) PROVE t[i] = i
    OBVIOUS
  <2>1. CASE i <= Len(u)
    <3>1. t[i] = u[i] /\ i \in 1..Len(u)
      BY <1>4, <1>7, <2>1
    <3> QED  BY <1>6, <3>1
  <2>2. CASE ~(i <= Len(u))
    <3>1. t[i] = c[i - Len(u)] /\ i - Len(u) \in 1..Len(c)
      BY <1>4, <1>7, <2>2
    <3>2. t[i] = Len(u) + (i - Len(u))
      BY <1>2, <1>5, <3>1 DEF Counted
    <3> QED  BY <1>4, <1>7, <3>2
  <2> QED  BY <2>1, <2>2
<1> HIDE DEF t
<1>9. t = [i \in 1 .. Len(t) |-> i]
  BY <1>7, <1>8
<1>10. Len(t) = Len(a) + Len(b) + Len(c)
  BY <1>4, <1>5, <1>7
<1> QED  BY <1>9, <1>10 DEF t, u
-----------------------------------------------------------------------------
(* The messages of s at the places I carry the numbers after low, up to top, *)
(* in order.                                                                 *)
Turn(s, I, low, top) ==
    /\ low <= top /\ {s[i].n : i \in I} = (low + 1) .. top
    /\ \A i, j \in I : i < j => s[i].n < s[j].n

LEMMA TurnIs ==
    ASSUME NEW s, NEW I, NEW low, NEW top
    PROVE  Turn(s, I, low, top) <=>
              /\ low <= top
              /\ \A i \in I : s[i].n \in (low + 1) .. top
              /\ \A n \in (low + 1) .. top : \E i \in I : s[i].n = n
              /\ \A i, j \in I : i < j => s[i].n < s[j].n
<1>1. {s[i].n : i \in I} = (low + 1) .. top <=>
          /\ \A i \in I : s[i].n \in (low + 1) .. top
          /\ \A n \in (low + 1) .. top : \E i \in I : s[i].n = n
  OBVIOUS
<1> QED  BY <1>1 DEF Turn

(* One message less, the k-th, which is not numbered. *)
LEMMA TurnSkips ==
    ASSUME NEW S, NEW s \in Seq(S), NEW t \in Seq(S), NEW k \in 1..Len(s),
           Len(t) = Len(s) - 1,
           \A i \in 1..Len(t) : t[i] = IF i < k THEN s[i] ELSE s[i + 1],
           NEW I \in SUBSET (1..Len(s)), k \notin I,
           NEW J \in SUBSET (1..Len(t)),
           \A i \in 1..Len(t) : i \in J <=> (IF i < k THEN i ELSE i + 1) \in I,
           NEW low \in Nat, NEW top \in Nat, Turn(s, I, low, top)
    PROVE  Turn(t, J, low, top)
<1> DEFINE F(i) == IF i < k THEN i ELSE i + 1
           G(i) == IF i < k THEN i ELSE i - 1
<1>1. \A i \in 1..Len(t) : F(i) \in 1..Len(s) /\ t[i] = s[F(i)]
  OBVIOUS
<1>2. \A i \in 1..Len(s) : i # k => G(i) \in 1..Len(t) /\ F(G(i)) = i /\ t[G(i)] = s[i]
  OBVIOUS
<1>3. \A i, j \in 1..Len(t) : i < j => F(i) < F(j)
  OBVIOUS
<1>4. \A i \in 1..Len(t) : i \in J <=> F(i) \in I
  OBVIOUS
<1> HIDE DEF F, G
<1>5. \A i \in J : F(i) \in I /\ t[i] = s[F(i)]
  BY <1>1, <1>4
<1>6. \A i \in I : G(i) \in J /\ t[G(i)] = s[i]
  BY <1>2, <1>4
<1>7. /\ low <= top
      /\ \A i \in I : s[i].n \in (low + 1) .. top
      /\ \A n \in (low + 1) .. top : \E i \in I : s[i].n = n
      /\ \A i, j \in I : i < j => s[i].n < s[j].n
  BY TurnIs
<1>8. \A i \in J : t[i].n \in (low + 1) .. top
  BY <1>5, <1>7
<1>9. ASSUME NEW n \in (low + 1) .. top PROVE \E i \in J : t[i].n = n
  <2>1. PICK i \in I : s[i].n = n
    BY <1>7
  <2> QED  BY <1>6, <2>1
<1>10. \A i, j \in J : i < j => t[i].n < t[j].n
  <2> SUFFICES ASSUME NEW i \in J, NEW j \in J, i < j PROVE t[i].n < t[j].n
    OBVIOUS
  <2>1. F(i) < F(j)
    BY <1>3
  <2> QED  BY <1>5, <1>7, <2>1
<1> QED  BY <1>7, <1>8, <1>9, <1>10, TurnIs

(* The first message is taken: it carries the number that is due.            *)
LEMMA TurnTakes ==
    ASSUME NEW S, NEW s \in Seq(S), s # <<>>,
           NEW I \in SUBSET (1..Len(s)), 1 \in I, NEW J \in SUBSET (1..Len(Tail(s))),
           \A i \in 1..Len(Tail(s)) : i \in J <=> i + 1 \in I,
           NEW low \in Nat, NEW top \in Nat, Turn(s, I, low, top)
    PROVE  Head(s).n = low + 1 /\ Turn(Tail(s), J, low + 1, top)
<1> DEFINE t == Tail(s)
<1>1. /\ Len(s) \in Nat \ {0} /\ Head(s) = s[1] /\ Len(t) = Len(s) - 1
      /\ \A i \in 1..Len(t) : t[i] = s[i + 1]
  OBVIOUS
<1>2. /\ low <= top
      /\ \A i \in I : s[i].n \in (low + 1) .. top
      /\ \A n \in (low + 1) .. top : \E i \in I : s[i].n = n
      /\ \A i, j \in I : i < j => s[i].n < s[j].n
  BY TurnIs
<1>3. s[1].n \in (low + 1) .. top
  BY <1>2
<1>4. s[1].n = low + 1
  <2>1. low + 1 \in (low + 1) .. top
    BY <1>3
  <2>2. PICK i \in I : s[i].n = low + 1
    BY <1>2, <2>1
  <2>3. i = 1 \/ 1 < i
    BY <1>1
  <2>4. CASE 1 < i
    BY <1>2, <1>3, <2>2, <2>4
  <2> QED  BY <2>2, <2>3, <2>4
<1>5. J \subseteq 1..Len(t) /\ \A i \in 1..Len(t) : i \in J <=> i + 1 \in I
  OBVIOUS
<1> HIDE DEF t
<1>6. \A i \in J : i + 1 \in I /\ t[i] = s[i + 1] /\ i \in 1..Len(t)
  BY <1>1, <1>5
<1>7. \A i \in I : i # 1 => i - 1 \in J /\ t[i - 1] = s[i]
  <2> SUFFICES ASSUME NEW i \in I, i # 1 PROVE i - 1 \in J /\ t[i - 1] = s[i]
    OBVIOUS
  <2>1. i - 1 \in 1..Len(t) /\ (i - 1) + 1 = i
    BY <1>1
  <2> QED  BY <1>1, <1>5, <2>1
<1>8. low + 1 <= top
  BY <1>3
<1>9. \A i \in J : t[i].n \in ((low + 1) + 1) .. top
  <2> SUFFICES ASSUME NEW i \in J PROVE t[i].n \in ((low + 1) + 1) .. top
    OBVIOUS
  <2>1. i + 1 \in I /\ t[i] = s[i + 1] /\ i \in 1..Len(t)
    BY <1>6
  <2>2. s[1].n < s[i + 1].n
    BY <1>1, <1>2, <2>1
  <2>3. s[i + 1].n \in (low + 1) .. top
    BY <1>2, <2>1
  <2> QED  BY <1>4, <2>1, <2>2, <2>3
<1>10. \A n \in ((low + 1) + 1) .. top : \E i \in J : t[i].n = n
  <2> SUFFICES ASSUME NEW n \in ((low + 1) + 1) .. top PROVE \E i \in J : t[i].n = n
    OBVIOUS
  <2>1. n \in (low + 1) .. top /\ n # low + 1
    OBVIOUS
  <2>2. PICK i \in I : s[i].n = n
    BY <1>2, <2>1
  <2>3. i # 1
    BY <1>4, <2>1, <2>2
  <2> QED  BY <1>7, <2>2, <2>3
<1>11. \A i, j \in J : i < j => t[i].n < t[j].n
  <2> SUFFICES ASSUME NEW i \in J, NEW j \in J, i < j PROVE t[i].n < t[j].n
    OBVIOUS
  <2>1. /\ i + 1 \in I /\ t[i] = s[i + 1] /\ j + 1 \in I /\ t[j] = s[j + 1]
        /\ i \in 1..Len(t) /\ j \in 1..Len(t)
    BY <1>6
  <2>2. i + 1 < j + 1
    BY <1>1, <2>1
  <2> QED  BY <1>2, <2>1, <2>2
<1>12. Turn(t, J, low + 1, top)
  BY <1>8, <1>9, <1>10, <1>11, TurnIs
<1> QED  BY <1>1, <1>4, <1>12 DEF t

(* One message more, with the next number or not numbered.                   *)
LEMMA TurnGrows ==
    ASSUME NEW S, NEW s \in Seq(S), NEW m \in S, NEW I \in SUBSET (1..Len(s)), NEW J,
           NEW low \in Nat, NEW top \in Nat, NEW next \in Nat, Turn(s, I, low, top),
           \/ J = I /\ next = top
           \/ J = I \cup {Len(s) + 1} /\ next = top + 1 /\ m.n = top + 1
    PROVE  Turn(Append(s, m), J, low, next)
<1> DEFINE t == Append(s, m)
           e == Len(s) + 1
<1>1. /\ Len(s) \in Nat /\ t[e] = m /\ e \in Nat
      /\ \A i \in 1..Len(s) : t[i] = s[i] /\ i < e /\ ~(e < i)
  OBVIOUS
<1>2. /\ low <= top
      /\ \A i \in I : s[i].n \in (low + 1) .. top
      /\ \A n \in (low + 1) .. top : \E i \in I : s[i].n = n
      /\ \A i, j \in I : i < j => s[i].n < s[j].n
  BY TurnIs
<1>3. \/ J = I /\ next = top
      \/ J = I \cup {e} /\ next = top + 1 /\ m.n = top + 1
  OBVIOUS
<1> HIDE DEF t, e
<1>4. \A i \in I : i \in J /\ t[i] = s[i] /\ i < e /\ ~(e < i)
  BY <1>1, <1>3
<1>5. \A i \in J : i \in I \/ (i = e /\ t[i].n = top + 1 /\ next = top + 1)
  BY <1>1, <1>3
<1>6. low <= next
  BY <1>2, <1>3
<1>7. \A i \in J : t[i].n \in (low + 1) .. next
  <2> SUFFICES ASSUME NEW i \in J PROVE t[i].n \in (low + 1) .. next
    OBVIOUS
  <2>1. CASE i \in I
    <3>1. t[i] = s[i] /\ s[i].n \in (low + 1) .. top
      BY <1>2, <1>4, <2>1
    <3> QED  BY <1>3, <3>1
  <2>2. CASE i = e /\ t[i].n = top + 1 /\ next = top + 1
    BY <1>2, <2>2
  <2> QED  BY <1>5, <2>1, <2>2
<1>8. \A n \in (low + 1) .. next : \E i \in J : t[i].n = n
  <2> SUFFICES ASSUME NEW n \in (low + 1) .. next PROVE \E i \in J : t[i].n = n
    OBVIOUS
  <2>1. CASE n \in (low + 1) .. top
    <3>1. PICK i \in I : s[i].n = n
      BY <1>2, <2>1
    <3> QED  BY <1>4, <3>1
  <2>2. CASE n \notin (low + 1) .. top
    <3>1. n = top + 1 /\ e \in J /\ m.n = n
      BY <1>3, <2>2
    <3> QED  BY <1>1, <3>1
  <2> QED  BY <2>1, <2>2
<1>9. \A i, j \in J : i < j => t[i].n < t[j].n
  <2> SUFFICES ASSUME NEW i \in J, NEW j \in J, i < j PROVE t[i].n < t[j].n
    OBVIOUS
  <2>1. CASE i \in I /\ j \in I
    <3>1. t[i] = s[i] /\ t[j] = s[j] /\ s[i].n < s[j].n
      BY <1>2, <1>4, <2>1
    <3> QED  BY <3>1
  <2>2. CASE i \in I /\ j = e /\ t[j].n = top + 1
    <3>1. t[i] = s[i] /\ s[i].n \in (low + 1) .. top
      BY <1>2, <1>4, <2>2
    <3> QED  BY <2>2, <3>1
  <2>3. CASE i = e
    <3>1. ~(e < j)
      <4>1. CASE j \in I
        BY <1>4, <4>1
      <4>2. CASE j = e
        BY <1>1, <4>2
      <4> QED  BY <1>5, <4>1, <4>2
    <3> QED  BY <2>3, <3>1
  <2> QED  BY <1>5, <2>1, <2>2, <2>3
<1>10. Turn(t, J, low, next)
  BY <1>6, <1>7, <1>8, <1>9, TurnIs
<1> QED  BY <1>10 DEF t
================================================================================
