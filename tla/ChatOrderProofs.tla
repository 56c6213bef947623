---------------------------- MODULE ChatOrderProofs ----------------------------
(***************************************************************************)
(* The order of chats: what is on its way to a client, and what is on its  *)
(* way from it, for any number of runs and messages and all capacities.    *)
(* Both ways are concatenations of what stands in the channels, so the     *)
(* proofs reason about concatenations: moving a frame from one channel to  *)
(* the next changes nothing, losing some keeps what is left in order, and  *)
(* what is new comes last.                                                 *)
(***************************************************************************)
EXTENDS ChatProofs

----------------------------------------------------------------------------
(* Sequences whose elements stand in an order given as a set of pairs.      *)

Sorted(s, R) == \A i, j \in DOMAIN s : i < j => <<s[i], s[j]>> \in R

LEMMA InRange ==
  ASSUME NEW s, NEW x
  PROVE  x \in Range(s) <=> \E i \in DOMAIN s : s[i] = x
BY DEF Range

LEMMA SingleSeq ==
  ASSUME NEW S, NEW x \in S, NEW R
  PROVE  /\ <<x>> \in Seq(S) /\ Len(<<x>>) = 1
         /\ Range(<<x>>) = {x} /\ Sorted(<<x>>, R)
<1>1. <<x>> \in Seq(S) /\ DOMAIN <<x>> = {1} /\ <<x>>[1] = x /\ Len(<<x>>) = 1
  OBVIOUS
<1> QED BY <1>1, InRange DEF Sorted

LEMMA NothingSorted ==
  ASSUME NEW R
  PROVE  Sorted(<<>>, R) /\ Range(<<>>) = {}
<1>1. DOMAIN <<>> = {}
  OBVIOUS
<1> QED BY <1>1, InRange DEF Sorted

LEMMA SortedConcat ==
  ASSUME NEW S, NEW R, NEW a \in Seq(S), NEW b \in Seq(S)
  PROVE  Sorted(a \o b, R)
           <=> /\ Sorted(a, R) /\ Sorted(b, R)
               /\ \A x \in Range(a), y \in Range(b) : <<x, y>> \in R
<1> DEFINE s == a \o b
           m == Len(a)
           n == Len(b)
<1>1. /\ m \in Nat /\ n \in Nat /\ DOMAIN a = 1 .. m /\ DOMAIN b = 1 .. n
      /\ DOMAIN s = 1 .. m + n
  BY LenProperties, ConcatProperties
<1>2. /\ \A i \in 1 .. m : s[i] = a[i]
      /\ \A j \in 1 .. n : s[m + j] = b[j]
  <2>1. \A i \in 1 .. m + n : s[i] = IF i <= m THEN a[i] ELSE b[i - m]
    BY ConcatProperties
  <2> HIDE DEF s, m, n
  <2>2. \A j \in 1 .. n : m + j \in 1 .. m + n /\ ~ (m + j <= m) /\ (m + j) - m = j
    BY <1>1
  <2>3. \A i \in 1 .. m : i \in 1 .. m + n /\ i <= m
    BY <1>1
  <2> QED BY <2>1, <2>2, <2>3
<1> HIDE DEF s, m, n
<1>3. ASSUME Sorted(s, R)
      PROVE  /\ Sorted(a, R) /\ Sorted(b, R)
             /\ \A x \in Range(a), y \in Range(b) : <<x, y>> \in R
  <2>1. \A i \in 1 .. m : i \in DOMAIN s
    BY <1>1
  <2>2. \A j \in 1 .. n : m + j \in DOMAIN s
    BY <1>1
  <2>3. \A i, j \in 1 .. n : i < j => m + i < m + j
    BY <1>1
  <2>4. \A i \in 1 .. m, j \in 1 .. n : i < m + j
    BY <1>1
  <2>5. Sorted(a, R)
    BY <1>1, <1>2, <1>3, <2>1 DEF Sorted
  <2>6. Sorted(b, R)
    BY <1>1, <1>2, <1>3, <2>2, <2>3 DEF Sorted
  <2>7. ASSUME NEW i \in 1 .. m, NEW j \in 1 .. n
        PROVE  <<a[i], b[j]>> \in R
    BY <1>2, <1>3, <2>1, <2>2, <2>4 DEF Sorted
  <2> QED BY <1>1, <2>5, <2>6, <2>7, InRange
<1>4. ASSUME Sorted(a, R), Sorted(b, R),
             \A x \in Range(a), y \in Range(b) : <<x, y>> \in R
      PROVE  Sorted(s, R)
  <2> SUFFICES ASSUME NEW i \in 1 .. m + n, NEW j \in 1 .. m + n, i < j
               PROVE  <<s[i], s[j]>> \in R
    BY <1>1 DEF Sorted
  <2>1. CASE j <= m
    <3>1. i \in 1 .. m /\ j \in 1 .. m
      BY <1>1, <2>1
    <3> QED BY <1>1, <1>2, <1>4, <3>1 DEF Sorted
  <2>2. CASE m < i
    <3>1. i - m \in 1 .. n /\ j - m \in 1 .. n /\ i - m < j - m
          /\ m + (i - m) = i /\ m + (j - m) = j
      BY <1>1, <2>2
    <3>2. s[i] = b[i - m] /\ s[j] = b[j - m]
      BY <1>2, <3>1
    <3> QED BY <1>1, <1>4, <3>1, <3>2 DEF Sorted
  <2>3. CASE i <= m /\ m < j
    <3>1. i \in 1 .. m /\ j - m \in 1 .. n /\ m + (j - m) = j
      BY <1>1, <2>3
    <3>2. s[i] = a[i] /\ s[j] = b[j - m]
      BY <1>2, <3>1
    <3> QED BY <1>1, <1>4, <3>1, <3>2, InRange
  <2> QED BY <1>1, <2>1, <2>2, <2>3
<1> QED BY <1>3, <1>4 DEF s

LEMMA SortedGrows ==
  ASSUME NEW s, NEW R, NEW T, Sorted(s, R),
         \A x, y \in Range(s) : <<x, y>> \in R => <<x, y>> \in T
  PROVE  Sorted(s, T)
BY InRange DEF Sorted

\* What is left when some is lost is still sorted.
LEMMA SortedWithout ==
  ASSUME NEW S, NEW R, NEW a \in Seq(S), NEW b \in Seq(S), NEW d \in Seq(S),
         Sorted(a \o b \o d, R)
  PROVE  Sorted(a \o d, R)
<1>1. a \o b \in Seq(S)
  BY ConcatProperties
<1>2. /\ Sorted(a, R) /\ Sorted(d, R)
      /\ \A x \in Range(a \o b), y \in Range(d) : <<x, y>> \in R
  BY <1>1, SortedConcat
<1>3. Range(a \o b) = Range(a) \cup Range(b)
  BY RangeConcatenation
<1>4. Sorted(a \o d, R)
        <=> /\ Sorted(a, R) /\ Sorted(d, R)
            /\ \A x \in Range(a), y \in Range(d) : <<x, y>> \in R
  BY SortedConcat
<1> QED BY <1>2, <1>3, <1>4

\* An element that fits with every other one fits anywhere.
LEMMA SortedWith ==
  ASSUME NEW S, NEW R, NEW a \in Seq(S), NEW d \in Seq(S), NEW x \in S,
         Sorted(a \o d, R),
         \A y \in Range(a) : <<y, x>> \in R, \A y \in Range(d) : <<x, y>> \in R
  PROVE  Sorted(a \o <<x>> \o d, R)
<1>1. <<x>> \in Seq(S) /\ Range(<<x>>) = {x} /\ Sorted(<<x>>, R)
  BY SingleSeq
<1>2. /\ Sorted(a, R) /\ Sorted(d, R)
      /\ \A z \in Range(a), y \in Range(d) : <<z, y>> \in R
  BY SortedConcat
<1>3. a \o <<x>> \in Seq(S) /\ Range(a \o <<x>>) = Range(a) \cup {x}
  <2>1. a \o <<x>> \in Seq(S)
    BY <1>1, ConcatProperties
  <2>2. Range(a \o <<x>>) = Range(a) \cup Range(<<x>>)
    BY <1>1, RangeConcatenation
  <2> QED BY <1>1, <2>1, <2>2
<1>4. Sorted(a \o <<x>>, R)
        <=> /\ Sorted(a, R) /\ Sorted(<<x>>, R)
            /\ \A z \in Range(a), y \in Range(<<x>>) : <<z, y>> \in R
  BY <1>1, SortedConcat
<1>5. Sorted(a \o <<x>> \o d, R)
        <=> /\ Sorted(a \o <<x>>, R) /\ Sorted(d, R)
            /\ \A z \in Range(a \o <<x>>), y \in Range(d) : <<z, y>> \in R
  BY <1>3, SortedConcat
<1> QED BY <1>1, <1>2, <1>3, <1>4, <1>5

LEMMA HeadThenTail ==
  ASSUME NEW S, NEW s \in Seq(S), s # <<>>
  PROVE  /\ s = <<Head(s)>> \o Tail(s)
         /\ Head(s) = s[1] /\ Head(s) \in S /\ Tail(s) \in Seq(S) /\ <<Head(s)>> \in Seq(S)
<1> DEFINE t == <<Head(s)>> \o Tail(s)
<1>1. /\ Head(s) \in S /\ Tail(s) \in Seq(S) /\ Len(Tail(s)) = Len(s) - 1
      /\ \A i \in 1 .. Len(Tail(s)) : Tail(s)[i] = s[i + 1]
  BY HeadTailProperties
<1>2. <<Head(s)>> \in Seq(S) /\ Len(<<Head(s)>>) = 1 /\ <<Head(s)>>[1] = Head(s)
  BY <1>1, SingleSeq
<1>3. Head(s) = s[1] /\ Len(s) \in Nat \ {0}
  BY EmptySeq
<1>4. /\ t \in Seq(S) /\ Len(t) = 1 + Len(Tail(s))
      /\ \A i \in 1 .. 1 + Len(Tail(s)) :
           t[i] = IF i <= 1 THEN <<Head(s)>>[i] ELSE Tail(s)[i - 1]
  BY <1>1, <1>2, ConcatProperties
<1> HIDE DEF t
<1>5. Len(t) = Len(s)
  BY <1>1, <1>3, <1>4
<1>6. ASSUME NEW i \in 1 .. Len(s) PROVE s[i] = t[i]
  <2>1. CASE i = 1
    BY <1>1, <1>2, <1>3, <1>4, <2>1
  <2>2. CASE i # 1
    <3>1. i - 1 \in 1 .. Len(Tail(s)) /\ (i - 1) + 1 = i /\ ~ (i <= 1)
          /\ i \in 1 .. 1 + Len(Tail(s))
      BY <1>1, <1>3, <2>2
    <3> QED BY <1>1, <1>4, <3>1
  <2> QED BY <2>1, <2>2
<1>7. s = t
  BY <1>4, <1>5, <1>6, SeqEqual
<1> QED BY <1>1, <1>2, <1>3, <1>7 DEF t

LEMMA HeadOfConcat ==
  ASSUME NEW S, NEW f \in S, NEW s \in Seq(S)
  PROVE  /\ <<f>> \o s # <<>>
         /\ Head(<<f>> \o s) = f /\ Tail(<<f>> \o s) = s
<1> DEFINE t == <<f>> \o s
<1>1. <<f>> \in Seq(S) /\ Len(<<f>>) = 1 /\ <<f>>[1] = f /\ Len(s) \in Nat
  BY SingleSeq, LenProperties
<1>2. /\ t \in Seq(S) /\ Len(t) = 1 + Len(s)
      /\ \A i \in 1 .. 1 + Len(s) : t[i] = IF i <= 1 THEN <<f>>[i] ELSE s[i - 1]
  BY <1>1, ConcatProperties
<1> HIDE DEF t
<1>3. t # <<>>
  BY <1>1, <1>2, EmptySeq
<1>4. Head(t) = t[1] /\ t[1] = f
  BY <1>1, <1>2, <1>3
<1>5. /\ Tail(t) \in Seq(S) /\ Len(Tail(t)) = Len(t) - 1
      /\ \A i \in 1 .. Len(Tail(t)) : Tail(t)[i] = t[i + 1]
  BY <1>2, <1>3, HeadTailProperties
<1>6. ASSUME NEW i \in 1 .. Len(s) PROVE Tail(t)[i] = s[i]
  <2>1. i + 1 \in 1 .. 1 + Len(s) /\ ~ (i + 1 <= 1) /\ (i + 1) - 1 = i
        /\ i \in 1 .. Len(Tail(t))
    BY <1>1, <1>2, <1>5
  <2> QED BY <1>2, <1>5, <2>1
<1>7. Len(Tail(t)) = Len(s)
  BY <1>1, <1>2, <1>5
<1>8. Tail(t) = s
  BY <1>5, <1>6, <1>7, SeqEqual
<1> QED BY <1>3, <1>4, <1>8 DEF t

\* The first frame of a channel goes to the end of the next channel.
LEMMA Moved ==
  ASSUME NEW S, NEW a \in Seq(S), NEW s \in Seq(S), s # <<>>
  PROVE  /\ Append(a, Head(s)) \o Tail(s) = a \o s
         /\ Append(a, Head(s)) \in Seq(S) /\ Tail(s) \in Seq(S)
<1>1. s = <<Head(s)>> \o Tail(s) /\ Head(s) \in S /\ Tail(s) \in Seq(S)
      /\ <<Head(s)>> \in Seq(S)
  BY HeadThenTail
<1>2. Append(a, Head(s)) = a \o <<Head(s)>> /\ Append(a, Head(s)) \in Seq(S)
  BY <1>1, AppendIsConcat, AppendProperties
<1>3. (a \o <<Head(s)>>) \o Tail(s) = a \o (<<Head(s)>> \o Tail(s))
  BY <1>1, ConcatAssociative
<1> QED BY <1>1, <1>2, <1>3

\* What sorting has to do with the last element, and with the first.
LEMMA SortedAppend ==
  ASSUME NEW S, NEW R, NEW s \in Seq(S), NEW x \in S
  PROVE  /\ Append(s, x) \in Seq(S)
         /\ Range(Append(s, x)) = Range(s) \cup {x}
         /\ Sorted(Append(s, x), R)
              <=> Sorted(s, R) /\ \A y \in Range(s) : <<y, x>> \in R
<1>1. <<x>> \in Seq(S) /\ Range(<<x>>) = {x} /\ Sorted(<<x>>, R)
  BY SingleSeq
<1>2. Append(s, x) = s \o <<x>> /\ Append(s, x) \in Seq(S)
  BY AppendIsConcat, AppendProperties
<1>3. Range(s \o <<x>>) = Range(s) \cup Range(<<x>>)
  BY <1>1, RangeConcatenation
<1>4. Sorted(s \o <<x>>, R)
        <=> /\ Sorted(s, R) /\ Sorted(<<x>>, R)
            /\ \A z \in Range(s), y \in Range(<<x>>) : <<z, y>> \in R
  BY <1>1, SortedConcat
<1> QED BY <1>1, <1>2, <1>3, <1>4

LEMMA SortedTail ==
  ASSUME NEW S, NEW R, NEW s \in Seq(S), s # <<>>
  PROVE  /\ Head(s) \in S /\ Tail(s) \in Seq(S)
         /\ Range(s) = {Head(s)} \cup Range(Tail(s))
         /\ Sorted(s, R)
              <=> Sorted(Tail(s), R) /\ \A y \in Range(Tail(s)) : <<Head(s), y>> \in R
<1> DEFINE h == <<Head(s)>>
           t == Tail(s)
<1>1. s = h \o t /\ Head(s) \in S /\ h \in Seq(S) /\ t \in Seq(S)
  BY HeadThenTail
<1>2. Range(h) = {Head(s)} /\ Sorted(h, R)
  BY <1>1, SingleSeq
<1> HIDE DEF h, t
<1>3. Range(h \o t) = Range(h) \cup Range(t)
  BY <1>1, RangeConcatenation
<1>4. Sorted(h \o t, R)
        <=> /\ Sorted(h, R) /\ Sorted(t, R)
            /\ \A z \in Range(h), y \in Range(t) : <<z, y>> \in R
  BY <1>1, SortedConcat
<1> QED BY <1>1, <1>2, <1>3, <1>4 DEF t

LEMMA AppendRange ==
  ASSUME NEW S, NEW s \in Seq(S), NEW x \in S
  PROVE  Append(s, x) \in Seq(S) /\ Range(Append(s, x)) = Range(s) \cup {x}
BY SortedAppend

LEMMA HeadRange ==
  ASSUME NEW S, NEW s \in Seq(S), s # <<>>
  PROVE  /\ Head(s) \in S /\ Tail(s) \in Seq(S)
         /\ Range(s) = {Head(s)} \cup Range(Tail(s))
BY SortedTail

----------------------------------------------------------------------------
(* What a program sends to a run, and what a channel carries.               *)

Slots == Frame \cup {NoFrame}

MaybeMids == Mids \cup {NoMid}

\* ToBeSent, of any program.
Sent(p, c) ==
  [i \in DOMAIN p |-> IF p[i].do = "send" /\ p[i].to = c THEN p[i].frame ELSE NoFrame]

LEMMA SentTypes ==
  ASSUME NEW p \in Seq(Statement), NEW c
  PROVE  /\ Sent(p, c) \in Seq(Slots) /\ Len(Sent(p, c)) = Len(p)
         /\ DOMAIN Sent(p, c) = 1 .. Len(p)
<1>1. Len(p) \in Nat /\ DOMAIN p = 1 .. Len(p) /\ p \in [1 .. Len(p) -> Statement]
  BY LenProperties
<1>2. \A s \in Statement : s.do = "send" => s.frame \in Slots
  BY DEF Statement, Slots
<1>3. Sent(p, c) \in [1 .. Len(p) -> Slots]
  BY <1>1, <1>2 DEF Sent, Slots
<1>4. Sent(p, c) \in Seq(Slots)
  BY <1>1, <1>3, SeqDef
<1> QED BY <1>1, <1>3, <1>4, LenProperties

LEMMA SentConcat ==
  ASSUME NEW p \in Seq(Statement), NEW r \in Seq(Statement), NEW c
  PROVE  Sent(p \o r, c) = Sent(p, c) \o Sent(r, c)
<1> DEFINE m == Len(p)
           n == Len(r)
           s == Sent(p \o r, c)
           a == Sent(p, c)
           b == Sent(r, c)
           t == a \o b
<1>1. /\ m \in Nat /\ n \in Nat
      /\ p \o r \in Seq(Statement) /\ Len(p \o r) = m + n
      /\ \A i \in 1 .. m + n : (p \o r)[i] = IF i <= m THEN p[i] ELSE r[i - m]
  BY LenProperties, ConcatProperties
<1>2. /\ a \in Seq(Slots) /\ Len(a) = m
      /\ b \in Seq(Slots) /\ Len(b) = n
      /\ s \in Seq(Slots) /\ Len(s) = m + n
  BY <1>1, SentTypes
<1> HIDE DEF a, b
<1>3. /\ t \in Seq(Slots) /\ Len(t) = m + n
      /\ \A i \in 1 .. m + n : t[i] = IF i <= m THEN a[i] ELSE b[i - m]
  BY <1>2, ConcatProperties
<1>4. ASSUME NEW i \in 1 .. m + n PROVE s[i] = t[i]
  <2>1. DOMAIN (p \o r) = 1 .. m + n /\ DOMAIN p = 1 .. m /\ DOMAIN r = 1 .. n
    BY <1>1, LenProperties
  <2>2. s[i] = IF (p \o r)[i].do = "send" /\ (p \o r)[i].to = c
               THEN (p \o r)[i].frame ELSE NoFrame
    BY <2>1 DEF Sent
  <2>3. CASE i <= m
    <3>1. i \in 1 .. m /\ (p \o r)[i] = p[i] /\ t[i] = a[i]
      BY <1>1, <1>3, <2>3
    <3>2. a[i] = IF p[i].do = "send" /\ p[i].to = c THEN p[i].frame ELSE NoFrame
      BY <2>1, <3>1 DEF a, b, Sent
    <3> QED BY <2>2, <3>1, <3>2
  <2>4. CASE ~ (i <= m)
    <3>1. i - m \in 1 .. n /\ (p \o r)[i] = r[i - m] /\ t[i] = b[i - m]
      BY <1>1, <1>3, <2>4
    <3>2. b[i - m] = IF r[i - m].do = "send" /\ r[i - m].to = c
                              THEN r[i - m].frame ELSE NoFrame
      BY <2>1, <3>1 DEF a, b, Sent
    <3> QED BY <2>2, <3>1, <3>2
  <2> QED BY <2>3, <2>4
<1> HIDE DEF s, t
<1>5. s = t
  BY <1>2, <1>3, <1>4, SeqEqual
<1> QED BY <1>5 DEF s, t, a, b

LEMMA SentOne ==
  ASSUME NEW s, NEW c
  PROVE  Sent(<<s>>, c) = <<IF s.do = "send" /\ s.to = c THEN s.frame ELSE NoFrame>>
BY DEF Sent

LEMMA SentNothing == \A c : Sent(<<>>, c) = <<>>
BY DEF Sent

\* What may stand in a channel.
Loads(S) == \A f \in S : f.mid \in MaybeMids

LEMMA CarriedTypes ==
  ASSUME NEW S, Loads(S), NEW s \in Seq(S), NEW type
  PROVE  /\ Carried(s, type) \in Seq(MaybeMids) /\ Len(Carried(s, type)) = Len(s)
         /\ DOMAIN Carried(s, type) = 1 .. Len(s)
<1>1. Len(s) \in Nat /\ DOMAIN s = 1 .. Len(s) /\ s \in [1 .. Len(s) -> S]
  BY LenProperties
<1>2. Carried(s, type) \in [1 .. Len(s) -> MaybeMids]
  BY <1>1 DEF Carried, MaybeMids, Loads
<1>3. Carried(s, type) \in Seq(MaybeMids)
  BY <1>1, <1>2, SeqDef
<1> QED BY <1>1, <1>2, <1>3, LenProperties

LEMMA CarriedConcat ==
  ASSUME NEW S, Loads(S),
         NEW p \in Seq(S), NEW r \in Seq(S), NEW type
  PROVE  Carried(p \o r, type) = Carried(p, type) \o Carried(r, type)
<1> DEFINE m == Len(p)
           n == Len(r)
           s == Carried(p \o r, type)
           a == Carried(p, type)
           b == Carried(r, type)
           t == a \o b
<1>1. /\ m \in Nat /\ n \in Nat
      /\ p \o r \in Seq(S) /\ Len(p \o r) = m + n
      /\ \A i \in 1 .. m + n : (p \o r)[i] = IF i <= m THEN p[i] ELSE r[i - m]
  BY LenProperties, ConcatProperties
<1>2. /\ a \in Seq(MaybeMids) /\ Len(a) = m
      /\ b \in Seq(MaybeMids) /\ Len(b) = n
      /\ s \in Seq(MaybeMids) /\ Len(s) = m + n
  BY <1>1, CarriedTypes
<1> HIDE DEF a, b
<1>3. /\ t \in Seq(MaybeMids) /\ Len(t) = m + n
      /\ \A i \in 1 .. m + n : t[i] = IF i <= m THEN a[i] ELSE b[i - m]
  BY <1>2, ConcatProperties
<1>4. ASSUME NEW i \in 1 .. m + n PROVE s[i] = t[i]
  <2>1. DOMAIN (p \o r) = 1 .. m + n /\ DOMAIN p = 1 .. m /\ DOMAIN r = 1 .. n
    BY <1>1, LenProperties
  <2>2. s[i] = IF (p \o r)[i].type = type THEN (p \o r)[i].mid ELSE NoMid
    BY <2>1 DEF Carried
  <2>3. CASE i <= m
    <3>1. i \in 1 .. m /\ (p \o r)[i] = p[i] /\ t[i] = a[i]
      BY <1>1, <1>3, <2>3
    <3>2. a[i] = IF p[i].type = type THEN p[i].mid ELSE NoMid
      BY <2>1, <3>1 DEF a, b, Carried
    <3> QED BY <2>2, <3>1, <3>2
  <2>4. CASE ~ (i <= m)
    <3>1. i - m \in 1 .. n /\ (p \o r)[i] = r[i - m] /\ t[i] = b[i - m]
      BY <1>1, <1>3, <2>4
    <3>2. b[i - m] = IF r[i - m].type = type THEN r[i - m].mid ELSE NoMid
      BY <2>1, <3>1 DEF a, b, Carried
    <3> QED BY <2>2, <3>1, <3>2
  <2> QED BY <2>3, <2>4
<1> HIDE DEF s, t
<1>5. s = t
  BY <1>2, <1>3, <1>4, SeqEqual
<1> QED BY <1>5 DEF s, t, a, b

LEMMA CarriedOne ==
  ASSUME NEW f, NEW type
  PROVE  Carried(<<f>>, type) = <<IF f.type = type THEN f.mid ELSE NoMid>>
BY DEF Carried

LEMMA CarriedNothing == \A type : Carried(<<>>, type) = <<>>
BY DEF Carried

\* What one frame or command carries.
Load(f, type) == IF f.type = type THEN f.mid ELSE NoMid

LEMMA CarriedAppend ==
  ASSUME NEW S, Loads(S), NEW s \in Seq(S), NEW f \in S, NEW type
  PROVE  Carried(Append(s, f), type) = Append(Carried(s, type), Load(f, type))
<1>1. <<f>> \in Seq(S) /\ Append(s, f) = s \o <<f>>
  BY SingleSeq, AppendIsConcat
<1>2. Carried(s \o <<f>>, type) = Carried(s, type) \o Carried(<<f>>, type)
  <2> DEFINE u == <<f>>
  <2>1. u \in Seq(S)
    BY <1>1
  <2> HIDE DEF u
  <2>2. Carried(s \o u, type) = Carried(s, type) \o Carried(u, type)
    BY <2>1, CarriedConcat
  <2> QED BY <2>2 DEF u
<1>3. Carried(<<f>>, type) = <<Load(f, type)>>
  BY CarriedOne DEF Load
<1> DEFINE c == Carried(s, type)
           x == Load(f, type)
<1>4. c \in Seq(MaybeMids)
  BY CarriedTypes
<1>5. x \in MaybeMids
  <2>1. f.mid \in MaybeMids /\ NoMid \in MaybeMids
    BY DEF MaybeMids, Loads
  <2> QED BY <2>1 DEF Load
<1> HIDE DEF c, x
<1>6. Append(c, x) = c \o <<x>>
  BY <1>4, <1>5, AppendIsConcat
<1> QED BY <1>1, <1>2, <1>3, <1>6 DEF c, x

LEMMA CarriedTail ==
  ASSUME NEW S, Loads(S), NEW s \in Seq(S), s # <<>>, NEW type
  PROVE  /\ Carried(s, type) # <<>>
         /\ Head(Carried(s, type)) = Load(Head(s), type)
         /\ Tail(Carried(s, type)) = Carried(Tail(s), type)
<1> DEFINE h == Head(s)
           t == Tail(s)
           x == Load(h, type)
           c == Carried(t, type)
<1>1. s = <<h>> \o t /\ h \in S /\ <<h>> \in Seq(S) /\ t \in Seq(S)
  BY HeadThenTail
<1> HIDE DEF h, t
<1>2. Carried(<<h>> \o t, type) = Carried(<<h>>, type) \o c
  <2> DEFINE u == <<h>>
  <2>1. u \in Seq(S)
    BY <1>1
  <2> HIDE DEF u
  <2>2. Carried(u \o t, type) = Carried(u, type) \o Carried(t, type)
    BY <1>1, <2>1, CarriedConcat
  <2> QED BY <2>2 DEF u
<1>3. Carried(<<h>>, type) = <<x>>
  BY CarriedOne DEF Load
<1>4. c \in Seq(MaybeMids)
  BY <1>1, CarriedTypes
<1>5. x \in MaybeMids
  <2>1. h.mid \in MaybeMids /\ NoMid \in MaybeMids
    BY <1>1 DEF MaybeMids, Loads
  <2> QED BY <2>1 DEF Load
<1> HIDE DEF c, x
<1>6. <<x>> \o c # <<>> /\ Head(<<x>> \o c) = x /\ Tail(<<x>> \o c) = c
  BY <1>4, <1>5, HeadOfConcat
<1> QED BY <1>1, <1>2, <1>3, <1>6 DEF h, t, x, c

\* Who carries what.
LEMMA CarriedRange ==
  ASSUME NEW s, NEW type, NEW m
  PROVE  m \in Range(Carried(s, type))
           <=> \E i \in DOMAIN s : m = IF s[i].type = type THEN s[i].mid ELSE NoMid
<1>1. DOMAIN Carried(s, type) = DOMAIN s
  BY DEF Carried
<1>2. \A i \in DOMAIN s :
        Carried(s, type)[i] = IF s[i].type = type THEN s[i].mid ELSE NoMid
  BY DEF Carried
<1> QED BY <1>1, <1>2, InRange

----------------------------------------------------------------------------
(* The way to a client.                                                     *)

LEMMA WayTypes ==
  ASSUME ChatTypeOK, NEW x \in Conns
  PROVE  /\ ToBeSent(x) = Sent(hub, x)
         /\ down[x] \in Seq(Slots) /\ send[x] \in Seq(Slots) /\ ToBeSent(x) \in Seq(Slots)
         /\ down[x] \o send[x] \in Seq(Slots) /\ OnTheWay(x) \in Seq(Slots)
<1>1. ToBeSent(x) = Sent(hub, x)
  BY DEF ToBeSent, Sent
<1>2. hub \in Seq(Statement) /\ down[x] \in Seq(Frame) /\ send[x] \in Seq(Frame)
  BY DEF ChatTypeOK, TypeOK
<1>3. down[x] \in Seq(Slots) /\ send[x] \in Seq(Slots) /\ ToBeSent(x) \in Seq(Slots)
  <2>1. Frame \subseteq Slots
    BY DEF Slots
  <2> QED BY <1>1, <1>2, <2>1, SeqMonotonic, SentTypes
<1>4. down[x] \o send[x] \in Seq(Slots)
  BY <1>3, ConcatProperties
<1> QED BY <1>1, <1>3, <1>4, ConcatProperties DEF OnTheWay

\* The hub is about to drop a frame that is for c.
Drops(c) ==
  /\ hub # <<>> /\ Head(hub).do = "send" /\ Head(hub).to = c
  /\ SendCap <= Len(send[c])

\* The hub runs one statement.
LEMMA WayOfStatement ==
  ASSUME ChatInv, ChatTypeOK', NEW x \in Conns,
         SendFrame \/ TouchSubscribed, down' = down
  PROVE  \/ OnTheWay(x)' = OnTheWay(x)
         \/ \E f \in Slots :
              /\ OnTheWay(x) = down[x] \o send[x] \o <<f>> \o ToBeSent(x)'
              /\ OnTheWay(x)' = down[x] \o send[x] \o ToBeSent(x)'
              /\ f = NoFrame \/ Drops(x)
<1> DEFINE h == Head(hub)
           f == IF h.do = "send" /\ h.to = x THEN h.frame ELSE NoFrame
           T == Sent(Tail(hub), x)
<1>1. /\ hub # <<>> /\ hub' = Tail(hub) /\ h \in Statement /\ Tail(hub) \in Seq(Statement)
      /\ hub = <<h>> \o Tail(hub) /\ <<h>> \in Seq(Statement)
  BY HeadThenTail DEF SendFrame, TouchSubscribed, Current, ChatInv, ChatTypeOK, TypeOK
<1>2. /\ ToBeSent(x) = Sent(hub, x) /\ ToBeSent(x)' = T /\ T \in Seq(Slots)
      /\ down[x] \in Seq(Slots) /\ send[x] \in Seq(Slots)
      /\ down[x] \o send[x] \in Seq(Slots)
  <2>1. ToBeSent(x)' = T
    BY <1>1 DEF ToBeSent, Sent
  <2> QED BY <1>1, <2>1, WayTypes, SentTypes DEF ChatInv
<1>3. ToBeSent(x) = <<f>> \o T
  <2>1. Sent(<<h>> \o Tail(hub), x) = Sent(<<h>>, x) \o T
    BY <1>1, SentConcat
  <2>2. Sent(<<h>>, x) = <<f>>
    BY SentOne
  <2> QED BY <1>1, <1>2, <2>1, <2>2
<1>4. f \in Slots /\ <<f>> \in Seq(Slots)
  <2>1. f \in Slots
    BY <1>1 DEF Slots, Statement
  <2> HIDE DEF f
  <2> QED BY <2>1
<1> DEFINE d == down[x] \o send[x]
<1>5. OnTheWay(x) = d \o <<f>> \o T
  <2>1. d \in Seq(Slots) /\ T \in Seq(Slots) /\ OnTheWay(x) = d \o (<<f>> \o T)
    BY <1>2, <1>3 DEF OnTheWay
  <2> HIDE DEF d, f, T
  <2>2. (d \o <<f>>) \o T = d \o (<<f>> \o T)
    BY <1>4, <2>1, ConcatAssociative
  <2> QED BY <2>1, <2>2
<1>6. CASE h.do = "send" /\ h.to = x /\ Len(send[x]) < SendCap
  <2> DEFINE e == down[x]
             r == send[x]
             n == send'[x]
  <2>1. n = Append(r, f)
    BY <1>1, <1>6 DEF SendFrame, TouchSubscribed, Current, SendEnvelope, ChatInv, ChatTypeOK,
                      TypeOK
  <2>2. OnTheWay(x)' = e \o n \o T
    BY <1>2 DEF OnTheWay
  <2>3. e \in Seq(Slots) /\ r \in Seq(Slots)
    BY <1>2
  <2> HIDE DEF f, T, h, e, r, n
  <2>4. n = r \o <<f>>
    BY <1>4, <2>1, <2>3, AppendIsConcat
  <2>5. e \o (r \o <<f>>) = e \o r \o <<f>>
    BY <1>4, <2>3, ConcatAssociative
  <2>6. OnTheWay(x) = e \o r \o <<f>> \o T
    BY <1>5 DEF e, r
  <2>7. OnTheWay(x)' = OnTheWay(x)
    BY <2>2, <2>4, <2>5, <2>6
  <2> QED BY <2>7
<1>7. CASE ~ (h.do = "send" /\ h.to = x /\ Len(send[x]) < SendCap)
  <2>1. send'[x] = send[x]
    <3>1. send \in [Conns -> Seq(Frame)]
      BY DEF ChatInv, ChatTypeOK, TypeOK
    <3>2. CASE TouchSubscribed
      BY <3>2 DEF TouchSubscribed, pumps
    <3>3. CASE SendFrame
      BY <1>7, <3>1, <3>3 DEF SendFrame, Current, SendEnvelope
    <3> QED BY <3>2, <3>3
  <2>2. f = NoFrame \/ Drops(x)
    <3>1. Len(send[x]) \in Nat /\ SendCap \in Nat
      BY <1>2, LenProperties, CapacityType
    <3> QED BY <1>1, <1>7, <3>1 DEF Drops
  <2>3. OnTheWay(x)' = down[x] \o send[x] \o T
    BY <1>2, <2>1 DEF OnTheWay
  <2> QED BY <1>2, <1>4, <1>5, <2>2, <2>3
<1> QED BY <1>6, <1>7

\* The hub takes a command: what its handler sends comes last.
LEMMA WayOfHandler ==
  ASSUME ChatInv, NEW x \in Conns, NEW c \in Conns, RelayHandles(c)
  PROVE  OnTheWay(x)' = OnTheWay(x) \o ToBeSent(x)'
<1>1. hub = <<>> /\ send' = send
  BY HandledCommands
  DEF RelayHandles, RefuseSub, HandleSub, RefuseSend, RefuseSave, HandleSend, HandleAck,
      Receive, Idle
<1>2. down' = down
  BY DEF RelayHandles, network
<1>3. ToBeSent(x) = <<>>
  BY <1>1, SentNothing DEF ToBeSent, Sent
<1>4. down[x] \o send[x] \in Seq(Slots)
  BY WayTypes DEF ChatInv
<1>5. OnTheWay(x) = down[x] \o send[x]
  BY <1>3, <1>4, ConcatEmptySeq DEF OnTheWay
<1> QED BY <1>1, <1>2, <1>5 DEF OnTheWay

LEMMA WaySteps ==
  ASSUME ChatInv, [ChatNext]_chatVars, NEW x \in Conns
  PROVE  \/ /\ OnTheWay(x)' = OnTheWay(x)
            /\ screen'[x] = screen[x]
         \/ /\ Read(x) \/ Answered(x)
            /\ OnTheWay(x) # <<>> /\ Head(OnTheWay(x)) = Head(down[x])
            /\ OnTheWay(x)' = Tail(OnTheWay(x))
         \/ /\ End(x) \/ Notice(x)
            /\ OnTheWay(x) = down[x] \o OnTheWay(x)'
            /\ screen'[x] = screen[x]
         \/ /\ Reset
            /\ OnTheWay(x) = down[x] \o (send[x] \o ToBeSent(x)) /\ OnTheWay(x)' = down[x]
            /\ screen'[x] = screen[x]
         \/ /\ \E f \in Slots :
                 /\ OnTheWay(x) = down[x] \o send[x] \o <<f>> \o ToBeSent(x)'
                 /\ OnTheWay(x)' = down[x] \o send[x] \o ToBeSent(x)'
                 /\ f = NoFrame \/ Drops(x)
            /\ screen'[x] = screen[x]
         \/ /\ \E y \in Conns : RelayHandles(y)
            /\ OnTheWay(x)' = OnTheWay(x) \o ToBeSent(x)'
            /\ screen'[x] = screen[x]
<1>1. ChatInv' /\ ChatTypeOK /\ ChatTypeOK'
  BY ChatInvNext DEF ChatInv
<1>2. /\ down[x] \in Seq(Slots) /\ send[x] \in Seq(Slots) /\ ToBeSent(x) \in Seq(Slots)
      /\ OnTheWay(x) = down[x] \o (send[x] \o ToBeSent(x))
      /\ send[x] \o ToBeSent(x) \in Seq(Slots)
      /\ OnTheWay(x) \in Seq(Slots)
  <2>1. down[x] \in Seq(Slots) /\ send[x] \in Seq(Slots) /\ ToBeSent(x) \in Seq(Slots)
    BY <1>1, WayTypes
  <2> DEFINE d == down[x]
             r == send[x]
             t == ToBeSent(x)
  <2>2. OnTheWay(x) = d \o r \o t /\ d \in Seq(Slots) /\ r \in Seq(Slots) /\ t \in Seq(Slots)
    BY <2>1 DEF OnTheWay
  <2> HIDE DEF d, r, t
  <2>3. d \o r \o t = d \o (r \o t)
    BY <2>2, ConcatAssociative
  <2>4. r \o t \in Seq(Slots)
    BY <2>2, ConcatProperties
  <2> QED BY <1>1, <2>1, <2>2, <2>3, <2>4, WayTypes DEF d, r, t
<1>3. ASSUME hub' = hub, send'[x] = send[x], down'[x] = down[x], screen'[x] = screen[x]
      PROVE  OnTheWay(x)' = OnTheWay(x) /\ screen'[x] = screen[x]
  BY <1>3 DEF OnTheWay, ToBeSent
<1>4. CASE RelayRestarts \/ RelaySteps
  <2>1. down' = down /\ screen' = screen
    BY <1>4 DEF RelayRestarts, RelaySteps, Disconnected, network, session
  <2>2. ASSUME Reset
        PROVE  OnTheWay(x)' = down[x]
    <3>1. hub' = <<>> /\ send'[x] = <<>>
      BY <2>2 DEF Reset
    <3>2. ToBeSent(x)' = <<>>
      BY <3>1, SentNothing DEF ToBeSent, Sent
    <3>3. OnTheWay(x)' = down[x] \o <<>> \o <<>>
      BY <2>1, <3>1, <3>2 DEF OnTheWay
    <3> QED BY <1>2, <3>3, ConcatEmptySeq
  <2>3. Reset \/ SendFrame \/ TouchSubscribed
    BY <1>4
    DEF RelayRestarts, Restart, RelaySteps, HubStep, SendOnClosed, SliceShortId, Panic
  <2>4. CASE SendFrame \/ TouchSubscribed
    BY <1>1, <2>1, <2>4, WayOfStatement
  <2> QED BY <1>2, <2>1, <2>2, <2>3, <2>4
<1>5. ASSUME NEW c \in Conns, Emit(c)
      PROVE  OnTheWay(x)' = OnTheWay(x) /\ screen'[x] = screen[x]
  <2>1. /\ send[c] # <<>> /\ send' = [send EXCEPT ![c] = Tail(@)]
        /\ down' = [down EXCEPT ![c] = Append(@, Head(send[c]))]
        /\ hub' = hub /\ screen' = screen
    BY <1>5 DEF Emit, WriteFrame, session
  <2>2. send \in [Conns -> Seq(Frame)] /\ down \in [Conns -> Seq(Frame)]
    BY <1>1 DEF ChatTypeOK, TypeOK
  <2>3. CASE x = c
    <3>1. send'[x] = Tail(send[x]) /\ down'[x] = Append(down[x], Head(send[x]))
      BY <2>1, <2>2, <2>3
    <3>2. Append(down[x], Head(send[x])) \o Tail(send[x]) = down[x] \o send[x]
      <4>1. down[x] \in Seq(Slots) /\ send[x] \in Seq(Slots) /\ send[x] # <<>>
        BY <1>2, <2>1, <2>3
      <4> QED BY <4>1, Moved
    <3> QED BY <2>1, <3>1, <3>2 DEF OnTheWay, ToBeSent
  <2>4. CASE x # c
    BY <1>3, <2>1, <2>2, <2>4
  <2> QED BY <2>3, <2>4
<1>6. ASSUME NEW c \in Conns, RelayHandles(c)
      PROVE  OnTheWay(x)' = OnTheWay(x) \o ToBeSent(x)' /\ screen'[x] = screen[x]
  BY <1>6, WayOfHandler DEF RelayHandles, session
<1>7. ASSUME NEW c \in Conns, Read(c) \/ Answered(c)
      PROVE  \/ OnTheWay(x)' = OnTheWay(x) /\ screen'[x] = screen[x]
             \/ /\ c = x
                /\ OnTheWay(x) # <<>> /\ Head(OnTheWay(x)) = Head(down[x])
                /\ OnTheWay(x)' = Tail(OnTheWay(x))
  <2>1. /\ down[c] # <<>> /\ down' = [down EXCEPT ![c] = Tail(@)]
        /\ hub' = hub /\ send' = send
    BY <1>7 DEF Read, Answered, Awaits, vars, pumps
  <2>2. down \in [Conns -> Seq(Frame)] /\ screen \in [Conns -> Seq(Mids)]
    BY <1>1 DEF ChatTypeOK
  <2>3. CASE x # c
    <3>1. screen'[x] = screen[x]
      BY <1>7, <2>2, <2>3 DEF Read, Answered
    <3> QED BY <1>3, <2>1, <2>2, <2>3, <3>1
  <2>4. CASE x = c
    <3> DEFINE d == down[x]
               r == send[x] \o ToBeSent(x)
    <3>1. /\ d \in Seq(Slots) /\ d # <<>> /\ r \in Seq(Slots) /\ OnTheWay(x) = d \o r
      BY <1>2, <2>1, <2>4
    <3>2. OnTheWay(x)' = Tail(d) \o send[x] \o ToBeSent(x)
      BY <2>1, <2>2, <2>4 DEF OnTheWay, ToBeSent
    <3> HIDE DEF d
    <3>3. /\ d = <<Head(d)>> \o Tail(d) /\ Head(d) \in Slots /\ Tail(d) \in Seq(Slots)
          /\ <<Head(d)>> \in Seq(Slots)
      BY <3>1, HeadThenTail
    <3>4. OnTheWay(x)' = Tail(d) \o r
      <4>1. send[x] \in Seq(Slots) /\ ToBeSent(x) \in Seq(Slots)
        BY <1>2
      <4> DEFINE v == Tail(d)
                 n == send[x]
                 t == ToBeSent(x)
      <4>2. v \in Seq(Slots) /\ n \in Seq(Slots) /\ t \in Seq(Slots)
        BY <3>3, <4>1
      <4> HIDE DEF v, n, t
      <4>3. v \o n \o t = v \o (n \o t)
        BY <4>2, ConcatAssociative
      <4> QED BY <3>2, <4>3 DEF v, n, t
    <3> HIDE DEF r
    <3>5. (<<Head(d)>> \o Tail(d)) \o r = <<Head(d)>> \o (Tail(d) \o r)
      BY <3>1, <3>3, ConcatAssociative
    <3>6. Tail(d) \o r \in Seq(Slots)
      BY <3>1, <3>3, ConcatProperties
    <3>7. OnTheWay(x) = <<Head(d)>> \o (Tail(d) \o r)
      BY <3>1, <3>3, <3>5
    <3>8. OnTheWay(x) # <<>> /\ Head(OnTheWay(x)) = Head(d) /\ Tail(OnTheWay(x)) = Tail(d) \o r
      BY <3>3, <3>6, <3>7, HeadOfConcat
    <3> QED BY <1>7, <2>4, <3>4, <3>8 DEF d
  <2> QED BY <2>3, <2>4
<1>8. ASSUME NEW c \in Conns, End(c) \/ Notice(c)
      PROVE  \/ OnTheWay(x)' = OnTheWay(x) /\ screen'[x] = screen[x]
             \/ /\ c = x /\ OnTheWay(x) = down[x] \o OnTheWay(x)'
                /\ screen'[x] = screen[x]
  <2>1. /\ down' = [down EXCEPT ![c] = <<>>]
        /\ hub' = hub /\ send' = send /\ screen' = screen
    BY <1>8 DEF End, Notice, vars, pumps
  <2>2. down \in [Conns -> Seq(Frame)]
    BY <1>1 DEF ChatTypeOK
  <2>3. CASE x # c
    BY <1>3, <2>1, <2>2, <2>3
  <2>4. CASE x = c
    <3>1. OnTheWay(x)' = <<>> \o send[x] \o ToBeSent(x)
      BY <2>1, <2>2, <2>4 DEF OnTheWay, ToBeSent
    <3>2. <<>> \o send[x] = send[x]
      BY <1>2, ConcatEmptySeq
    <3> QED BY <1>2, <2>1, <2>4, <3>1, <3>2
  <2> QED BY <2>3, <2>4
<1>9. ASSUME NEW c \in Conns,
             Arrive(c) \/ StopListening(c) \/ Close(c) \/ RelayDeparts(c) \/ Cut(c)
               \/ Dial(c) \/ Ask(c) \/ Transmit(c) \/ FailToTransmit(c) \/ Acknowledge(c)
               \/ \E m \in Mids : Type(c, m)
      PROVE  hub' = hub /\ send' = send /\ down' = down /\ screen' = screen
  BY <1>9
  DEF Arrive, ReadCommand, StopListening, StopReading, Close, SeeClosedChannel, FailToWrite,
      StopWriting, RelayDeparts, Depart, Unregister, UnregisterLate, Leave, Cut, Dial,
      Connect, Ask, Transmit, FailToTransmit, Acknowledge, Type, vars, pumps, network, session
<1>10. CASE UNCHANGED chatVars
  BY <1>3, <1>10 DEF chatVars, vars, pumps, network, session
<1>11. CASE RelayRestarts \/ RelaySteps \/ UNCHANGED chatVars
  BY <1>3, <1>4, <1>10, <1>11
<1>12. ASSUME NEW c \in Conns,
              Cut(c) \/ RelayEnd(c) \/ StartUp(c) \/ Chatting(c)
       PROVE  \/ Emit(c) \/ RelayHandles(c) \/ Read(c) \/ Answered(c) \/ End(c) \/ Notice(c)
              \/ hub' = hub /\ send' = send /\ down' = down /\ screen' = screen
  BY <1>9, <1>12 DEF RelayEnd, StartUp, Refused, GiveUp, Chatting, Quit
<1> QED BY <1>3, <1>5, <1>6, <1>7, <1>8, <1>11, <1>12 DEF ChatNext

----------------------------------------------------------------------------
(* Whom a handler sends to.                                                 *)

\* What the statements of a replay have in common, if all rows agree on it.
LEMMA ReplayStatements ==
  ASSUME ChatTypeOK, IsFiniteSet(db.messages), NEW q, NEW c, NEW S,
         \A row \in RowsOf(db, q) : Send(c, Deliver(q, row.mid)) \in S
  PROVE  Replays(q, c) \subseteq Seq(S)
<1> DEFINE R == RowsOf(db, q)
<1>1. Cardinality(R) \in Nat
  BY FS_Subset, FS_CardinalityType DEF RowsOf
<1>2. ASSUME NEW rows \in Undelivered(db, q)
      PROVE  [i \in DOMAIN rows |-> Send(c, Deliver(q, rows[i].mid))] \in Seq(S)
  <2>1. rows \in [1 .. Cardinality(R) -> R]
    BY DEF Undelivered
  <2>2. [i \in DOMAIN rows |-> Send(c, Deliver(q, rows[i].mid))] \in [1 .. Cardinality(R) -> S]
    BY <2>1
  <2> QED BY <1>1, <2>2, SeqDef
<1>3. <<>> \in Seq(S)
  BY EmptySeq
<1> QED BY <1>2, <1>3 DEF Replays

\* A statement that delivers, or sends to y.
Replies(y) ==
  {s \in Statement : s.do = "send" => s.frame.type = "DELIVER" \/ s.to = y}

LEMMA HandlerReplies ==
  ASSUME ChatInv, NEW y \in Conns, Handle(y)
  PROVE  hub' \in Seq(Replies(y))
<1> DEFINE S == Replies(y)
<1>1. \A s \in Quiet : (s.do = "send" => s.to = y) => s \in S
  BY DEF Quiet, Replies
<1>2. \A id : Abbreviate(id) \in Seq(S)
  <2>1. [do |-> "slice"] \in S
    BY DEF Replies, Statement
  <2> HIDE DEF S
  <2>2. <<[do |-> "slice"]>> \in Seq(S) /\ <<>> \in Seq(S)
    BY <2>1, EmptySeq
  <2> QED BY <2>2 DEF Abbreviate
<1>3. Send(y, Error) \in S
  BY <1>1, QuietStatements DEF Send
<1> HIDE DEF S
<1>4. CASE RefuseSub(y) \/ RefuseSend(y) \/ RefuseSave(y)
  <2>1. hub' = <<Send(y, Error)>>
    BY <1>4 DEF RefuseSub, RefuseSend, RefuseSave, Refuse
  <2> QED BY <1>3, <2>1 DEF S
<1>5. CASE HandleAck(y)
  <2>1. hub' = Abbreviate(cmd[y].qid) \o Abbreviate(cmd[y].mid)
    BY <1>5 DEF HandleAck
  <2> QED BY <1>2, <2>1, ConcatProperties DEF S
<1>6. CASE HandleSub(y)
  <2>1. cmd[y].qid = Inbox(y) /\ Inbox(y) \in Queues
    BY <1>6, ReceivedIsOwn, ChatConstants DEF HandleSub
  <2>2. PICK replay \in Replays(Inbox(y), y) : hub' = SubProgram(Inbox(y), y, replay)
    BY <1>6, <2>1 DEF HandleSub
  <2>3. Send(y, SubOk(Inbox(y))) \in S /\ Touch(Inbox(y)) \in S
    BY <1>1, <2>1, QuietStatements DEF Send, Touch, S
  <2>4. replay \in Seq(S)
    <3>1. ASSUME NEW row \in RowsOf(db, Inbox(y))
          PROVE  Send(y, Deliver(Inbox(y), row.mid)) \in S
      <4>1. row.mid \in Mids
        BY DEF RowsOf, ChatInv, ChatTypeOK, TypeOK, Database, Row
      <4>2. Send(y, Deliver(Inbox(y), row.mid)) \in Statement
        BY <2>1, <4>1, FrameTypes DEF Send, Statement
      <4> QED BY <4>2 DEF S, Replies, Send
    <3>2. IsFiniteSet(db.messages) /\ ChatTypeOK
      BY DEF ChatInv, Typed
    <3> QED BY <3>1, <3>2, ReplayStatements
  <2>5. <<Send(y, SubOk(Inbox(y)))>> \in Seq(S) /\ <<Touch(Inbox(y))>> \in Seq(S)
    BY <2>3
  <2> QED BY <2>2, <2>4, <2>5, ConcatProperties DEF SubProgram, S
<1>7. CASE HandleSend(y)
  <2> DEFINE q == Outbox[User[y]]
             D(m) == [i \in DOMAIN Recipients(q) |->
                        Send(Recipients(q)[i], Deliver(q, m))]
  <2>1. PICK m \in Lines(y) :
          /\ q \in Queues /\ hub' = D(m) \o Abbreviate(m) \o <<Send(y, Ack(q, m))>>
    BY <1>7, SendEffects
  <2>2. D(m) \in Seq(S)
    <3>1. CASE sub[q] = Nobody
      <4>1. D(m) = <<>>
        BY <3>1 DEF Recipients
      <4> QED BY <4>1, EmptySeq
    <3>2. CASE sub[q] # Nobody
      <4>1. sub[q] \in Conns /\ m \in Mids
        BY <2>1, <3>2 DEF ChatInv, ChatTypeOK, TypeOK, Lines
      <4>2. Send(sub[q], Deliver(q, m)) \in Statement
        BY <2>1, <4>1, FrameTypes DEF Send, Statement
      <4>3. Send(sub[q], Deliver(q, m)) \in S
        BY <4>2 DEF S, Replies, Send, Deliver
      <4>4. D(m) = <<Send(sub[q], Deliver(q, m))>>
        BY <3>2 DEF Recipients
      <4> HIDE DEF D
      <4> QED BY <4>3, <4>4
    <3> QED BY <3>1, <3>2
  <2>3. <<Send(y, Ack(q, m))>> \in Seq(S)
    <3>1. m \in Mids
      BY DEF Lines
    <3>2. Send(y, Ack(q, m)) \in S
      BY <1>1, <2>1, <3>1, QuietStatements DEF Send, S
    <3> QED BY <3>2
  <2> HIDE DEF D, q
  <2>4. D(m) \o Abbreviate(m) \in Seq(S)
    BY <1>2, <2>2, ConcatProperties
  <2> QED BY <2>1, <2>3, <2>4, ConcatProperties DEF S
<1> QED BY <1>4, <1>5, <1>6, <1>7, HandledCommands

\* A handler sends messages to subscribers, and all else to the one it serves.
LEMMA HandlerSends ==
  ASSUME ChatInv, NEW y \in Conns, Handle(y)
  PROVE  \A i \in DOMAIN hub' : hub'[i].do = "send" =>
           IF hub'[i].frame.type = "DELIVER"
           THEN hub'[i].frame.qid \in Queues /\ sub'[hub'[i].frame.qid] = hub'[i].to
           ELSE hub'[i].to = y
<1>1. hub' \in Seq(Replies(y))
  BY HandlerReplies
<1>2. hub' \in Seq(AddressedStatement')
  <2>1. Typed /\ hub = <<>>
    BY DEF ChatInv, Handle, RefuseNew, HandleNew, RefuseSub, HandleSub, RefuseSend, RefuseSave,
           HandleSend, HandleAck, HandleOther, Receive, Idle
  <2>2. Addressed
    BY <2>1, EmptySeq DEF Addressed
  <2>3. Addressed'
    BY <2>1, <2>2, AddressedNext DEF Next
  <2> QED BY <2>3 DEF Addressed
<1>3. \A i \in DOMAIN hub' : hub'[i] \in Replies(y) /\ hub'[i] \in AddressedStatement'
  BY <1>1, <1>2, ElementOfSeq, LenProperties
<1>4. \A f \in Frame : f.type = "DELIVER" => f.qid \in Queues
  BY HubAssumption DEF Frame
<1> QED BY <1>3, <1>4 DEF Replies, AddressedStatement, Statement

----------------------------------------------------------------------------
(* The beginning of a run: until the relay has taken its SUB, nothing has   *)
(* been sent to it, and it says nothing else before the SUB.                *)

\* What a client says after the SUB.
Talk == {k \in Command : k.type # "SUB"}

\* Nothing was ever sent to the run, and nobody has a reason to.
Fresh(c) ==
  /\ screen[c] = <<>> /\ down[c] = <<>> /\ send[c] = <<>>
  /\ \A i \in DOMAIN hub : hub[i].do = "send" => hub[i].to # c
  /\ \A q \in Queues : sub[q] # c

Silent(c) == up[c] = <<>> /\ cmd[c] = NoCommand

\* The SUB is on its way.
Asking(c) ==
  \/ up[c] = <<SubCommand(c)>> /\ cmd[c] = NoCommand
  \/ up[c] = <<>> /\ cmd[c] = SubCommand(c)

Asked(c) == up[c] \in Seq(Talk) /\ cmd[c].type # "SUB"

Begins(c) ==
  /\ phase[c] # "chatting" =>
       listener[c] = "off" /\ speaker[c] = "off" /\ out[c] = <<>>
  /\ phase[c] \in {"absent", "choosing", "subscribing"} =>
       typed[c] = <<>> /\ screen[c] = <<>>
  /\ phase[c] \in {"absent", "choosing"} => Silent(c) /\ Fresh(c)
  /\ (Asking(c) /\ Fresh(c) /\ phase[c] # "chatting") \/ Asked(c)
  /\ out[c] \in Seq(Talk)

Starts == \A c \in Conns : Begins(c)

\* Who becomes a subscriber, and how.
LEMMA SubSteps ==
  ASSUME ChatInv, [ChatNext]_chatVars, NEW q \in Queues
  PROVE  \/ sub'[q] = sub[q]
         \/ sub'[q] = Nobody
         \/ \E y \in Conns : RelayHandles(y) /\ HandleSub(y) /\ sub'[q] = y /\ q = Inbox(y)
<1>1. sub \in [Queues -> Conns \cup {Nobody}]
  BY DEF ChatInv, Typed, TypeOK
<1>2. ASSUME NEW y \in Conns, RelayHandles(y), HandleSub(y)
      PROVE  sub'[q] = sub[q] \/ (sub'[q] = y /\ q = Inbox(y))
  <2>1. cmd[y].qid = Inbox(y) /\ sub' = [sub EXCEPT ![cmd[y].qid] = y]
    BY <1>2, ReceivedIsOwn DEF HandleSub
  <2> QED BY <1>1, <2>1
<1>3. ASSUME NEW y \in Conns, RelayHandles(y), ~ HandleSub(y)
      PROVE  sub' = sub
  BY <1>3, HandledCommands
  DEF RelayHandles, RefuseSub, RefuseSend, RefuseSave, HandleSend, HandleAck, memory
<1>4. CASE RelayRestarts \/ RelaySteps
  BY <1>4
  DEF RelayRestarts, RelaySteps, HubStep, SendFrame, TouchSubscribed, Restart, SendOnClosed,
      SliceShortId, Panic, Reset, memory
<1>5. ASSUME NEW c \in Conns, RelayDeparts(c)
      PROVE  sub'[q] = sub[q] \/ sub'[q] = Nobody
  BY <1>1, <1>5 DEF RelayDeparts, Depart, Unregister, UnregisterLate, ReleaseQueue, memory
<1>6. ASSUME NEW c \in Conns,
             Arrive(c) \/ StopListening(c) \/ Emit(c) \/ Close(c) \/ Cut(c)
               \/ StartUp(c) \/ Chatting(c)
      PROVE  sub' = sub
  BY <1>6
  DEF Arrive, ReadCommand, StopListening, StopReading, Emit, WriteFrame, Close,
      SeeClosedChannel, FailToWrite, StopWriting, Cut, StartUp, Dial, Connect, Ask, Answered,
      Refused, GiveUp, End, Chatting, Type, Quit, Transmit, FailToTransmit, Read, Acknowledge,
      Notice, vars, memory
<1>7. CASE UNCHANGED chatVars
  BY <1>7 DEF chatVars, vars, memory
<1> QED BY <1>2, <1>3, <1>4, <1>5, <1>6, <1>7 DEF ChatNext, RelayEnd

\* A run changes by its own actions.
LEMMA SessionSteps ==
  ASSUME ChatInv, [ChatNext]_chatVars, NEW x \in Conns
  PROVE  \/ /\ phase'[x] = phase[x] /\ listener'[x] = listener[x] /\ speaker'[x] = speaker[x]
            /\ out'[x] = out[x] /\ screen'[x] = screen[x] /\ typed'[x] = typed[x]
         \/ StartUp(x) \/ Chatting(x)
<1>1. /\ phase \in [Conns -> {"absent", "choosing", "subscribing", "chatting", "ended"}]
      /\ listener \in [Conns -> {"off", "reading", "acking", "done"}]
      /\ speaker \in [Conns -> {"off", "running", "done"}]
      /\ out \in [Conns -> Seq(Command)]
      /\ screen \in [Conns -> Seq(Mids)] /\ typed \in [Conns -> Seq(Mids)]
  BY DEF ChatInv, ChatTypeOK
<1>2. CASE RelayRestarts \/ RelaySteps \/ UNCHANGED chatVars
  BY <1>2 DEF RelayRestarts, RelaySteps, Disconnected, session, chatVars
<1>3. ASSUME NEW c \in Conns, RelayEnd(c) \/ Cut(c)
      PROVE  UNCHANGED session
  BY <1>3
  DEF RelayEnd, Arrive, StopListening, Emit, Close, RelayHandles, RelayDeparts, Cut
<1>4. ASSUME NEW c \in Conns, c # x, StartUp(c)
      PROVE  /\ phase'[x] = phase[x] /\ listener'[x] = listener[x] /\ speaker'[x] = speaker[x]
             /\ out'[x] = out[x] /\ screen'[x] = screen[x] /\ typed'[x] = typed[x]
  BY <1>1, <1>4 DEF StartUp, Dial, Ask, Answered, Refused, GiveUp, End
<1>5. ASSUME NEW c \in Conns, c # x, Chatting(c)
      PROVE  /\ phase'[x] = phase[x] /\ listener'[x] = listener[x] /\ speaker'[x] = speaker[x]
             /\ out'[x] = out[x] /\ screen'[x] = screen[x] /\ typed'[x] = typed[x]
  BY <1>1, <1>5
  DEF Chatting, Type, Quit, End, Transmit, FailToTransmit, Read, Acknowledge, Notice
<1> QED BY <1>2, <1>3, <1>4, <1>5 DEF ChatNext, session

LEMMA TailElements ==
  ASSUME NEW S, NEW s \in Seq(S), s # <<>>
  PROVE  \A i \in DOMAIN Tail(s) : \E j \in DOMAIN s : Tail(s)[i] = s[j]
<1>1. /\ Tail(s) \in Seq(S) /\ Len(Tail(s)) = Len(s) - 1
      /\ \A i \in 1 .. Len(Tail(s)) : Tail(s)[i] = s[i + 1]
  BY HeadTailProperties
<1>2. /\ DOMAIN s = 1 .. Len(s) /\ Len(s) \in Nat
      /\ DOMAIN Tail(s) = 1 .. Len(Tail(s))
  BY <1>1, LenProperties
<1>3. \A i \in 1 .. Len(Tail(s)) : i + 1 \in 1 .. Len(s)
  BY <1>1, <1>2
<1> QED BY <1>1, <1>2, <1>3

\* What the hub is left to run comes from the step before or from a handler.
LEMMA ProgramElements ==
  ASSUME ChatInv, [ChatNext]_chatVars
  PROVE  \/ \A i \in DOMAIN hub' : \E j \in DOMAIN hub : hub'[i] = hub[j]
         \/ \E y \in Conns : RelayHandles(y)
<1>1. hub \in Seq(Statement)
  BY DEF ChatInv, Typed, TypeOK
<1>2. CASE hub' = <<>>
  BY <1>2
<1>3. CASE hub # <<>> /\ hub' = Tail(hub)
  BY <1>1, <1>3, TailElements
<1> QED BY <1>2, <1>3, HubSteps

LEMMA FreshStays ==
  ASSUME ChatInv, [ChatNext]_chatVars, NEW x \in Conns, Fresh(x), ~ RelayHandles(x)
  PROVE  Fresh(x)'
<1>1. /\ screen[x] = <<>> /\ down[x] = <<>> /\ send[x] = <<>>
      /\ \A i \in DOMAIN hub : hub[i].do = "send" => hub[i].to # x
      /\ \A q \in Queues : sub[q] # x
  BY DEF Fresh
<1>2. screen'[x] = <<>>
  <2>1. ~ Read(x)
    BY <1>1 DEF Read
  <2>2. CASE StartUp(x) \/ Chatting(x)
    BY <1>1, <2>1, <2>2
    DEF StartUp, Dial, Ask, Answered, Refused, GiveUp, End, Chatting, Type, Quit, Transmit,
        FailToTransmit, Acknowledge, Notice, session
  <2> QED BY <1>1, <2>2, SessionSteps
<1>3. down'[x] = <<>>
  BY <1>1, DownSteps
<1>4. send'[x] = <<>>
  <2>1. hub # <<>> => Head(hub) = hub[1] /\ 1 \in DOMAIN hub
    <3>1. hub \in Seq(Statement)
      BY DEF ChatInv, Typed, TypeOK
    <3> QED BY <3>1, EmptySeq, LenProperties
  <2> QED BY <1>1, <2>1, SendSteps
<1>5. \A q \in Queues : sub'[q] # x
  <2>1. x # Nobody
    BY HubAssumption
  <2> QED BY <1>1, <2>1, SubSteps
<1>6. \A i \in DOMAIN hub' : hub'[i].do = "send" => hub'[i].to # x
  <2>1. ASSUME NEW y \in Conns, RelayHandles(y)
        PROVE  \A i \in DOMAIN hub' : hub'[i].do = "send" => hub'[i].to # x
    <3>1. Handle(y) /\ y # x
      BY <2>1 DEF RelayHandles
    <3> QED BY <1>5, <3>1, HandlerSends
  <2> QED BY <1>1, <2>1, ProgramElements
<1> QED BY <1>2, <1>3, <1>4, <1>5, <1>6 DEF Fresh

LEMMA SubIsNotTalk ==
  ASSUME NEW c \in Conns
  PROVE  /\ SubCommand(c) \notin Talk /\ SubCommand(c) # NoCommand
         /\ NoCommand.type # "SUB"
         /\ \A m : SendCommand(c, m).type = "SEND" /\ AckCommand(c, m).type = "ACK"
BY DEF SubCommand, Talk, NoCommand, SendCommand, AckCommand

LEMMA PhaseSteps ==
  ASSUME ChatInv, Starts, [ChatNext]_chatVars, NEW x \in Conns
  PROVE  /\ phase'[x] # "chatting" =>
              listener'[x] = "off" /\ speaker'[x] = "off" /\ out'[x] = <<>>
         /\ phase'[x] \in {"absent", "choosing", "subscribing"} =>
              /\ typed'[x] = <<>> /\ screen'[x] = <<>>
              /\ phase[x] \in {"absent", "choosing", "subscribing"}
         /\ phase'[x] \in {"absent", "choosing"} =>
              phase[x] \in {"absent", "choosing"} /\ ~ Ask(x)
         /\ phase'[x] = "chatting" =>
              phase[x] = "chatting"
                \/ (Answered(x) /\ down[x] # <<>> /\ Head(down[x]).type = "SUB_OK")
<1>1. /\ phase \in [Conns -> {"absent", "choosing", "subscribing", "chatting", "ended"}]
      /\ listener \in [Conns -> {"off", "reading", "acking", "done"}]
      /\ speaker \in [Conns -> {"off", "running", "done"}]
      /\ out \in [Conns -> Seq(Command)] /\ Begins(x)
  BY DEF ChatInv, ChatTypeOK, Starts
<1>2. CASE /\ phase'[x] = phase[x] /\ listener'[x] = listener[x] /\ speaker'[x] = speaker[x]
           /\ out'[x] = out[x] /\ screen'[x] = screen[x] /\ typed'[x] = typed[x]
           /\ ~ Ask(x)
  BY <1>1, <1>2 DEF Begins
<1>3. CASE Dial(x) \/ Ask(x)
  BY <1>1, <1>3 DEF Begins, Dial, Ask
<1>4. CASE Answered(x)
  <2>1. /\ out'[x] = out[x] /\ screen'[x] = screen[x] /\ typed'[x] = typed[x]
        /\ down[x] # <<>> /\ phase[x] = "subscribing"
    BY <1>4 DEF Answered, Awaits
  <2>2. CASE Head(down[x]).type = "SUB_OK"
    <3>1. phase'[x] = "chatting"
      BY <1>1, <1>4, <2>2 DEF Answered
    <3> QED BY <1>4, <2>1, <2>2, <3>1
  <2>3. CASE Head(down[x]).type # "SUB_OK"
    <3>1. phase'[x] = phase[x] /\ listener'[x] = listener[x] /\ speaker'[x] = speaker[x]
      BY <1>4, <2>3 DEF Answered
    <3> QED BY <1>1, <2>1, <3>1 DEF Begins
  <2> QED BY <2>2, <2>3
<1>5. CASE End(x)
  BY <1>1, <1>5 DEF End
<1>6. CASE Chatting(x) /\ ~ End(x)
  <2>1. phase[x] = "chatting"
    BY <1>1, <1>6
    DEF Begins, Chatting, Type, Quit, Transmit, FailToTransmit, Read, Acknowledge, Notice
  <2>2. phase'[x] = "chatting"
    BY <1>1, <1>6, <2>1
    DEF Chatting, Type, Quit, Transmit, FailToTransmit, Read, Acknowledge, Notice
  <2> QED BY <2>1, <2>2
<1>7. ASSUME phase'[x] = phase[x] PROVE ~ Ask(x)
  BY <1>1, <1>7 DEF Ask
<1> QED BY <1>2, <1>3, <1>4, <1>5, <1>6, <1>7, SessionSteps DEF StartUp, Refused, GiveUp

LEMMA AskingNext ==
  ASSUME ChatInv, Starts, [ChatNext]_chatVars, NEW x \in Conns,
         Asking(x), Fresh(x), phase[x] # "chatting"
  PROVE  (Asking(x)' /\ Fresh(x)' /\ phase'[x] # "chatting") \/ Asked(x)'
<1>1. /\ out[x] = <<>> /\ down[x] = <<>> /\ <<>> \in Seq(Talk)
      /\ SubCommand(x) # NoCommand /\ NoCommand.type # "SUB"
      /\ SubCommand(x) = SubCommand(x)'
  BY SubIsNotTalk, EmptySeq DEF Starts, Begins, Fresh, SubCommand, Inbox
<1>2. ~ Ask(x) /\ ~ Transmit(x) /\ phase'[x] # "chatting"
  <2>1. ~ Ask(x)
    BY <1>1 DEF Ask, Starts, Begins, Silent, Asking
  <2> QED BY <1>1, <2>1, PhaseSteps DEF Transmit
<1>3. CASE RelayHandles(x)
  <2>1. up'[x] = up[x] /\ cmd'[x] = NoCommand /\ cmd[x] # NoCommand
    <3>1. up' = up /\ Handle(x)
      BY <1>3 DEF RelayHandles, network
    <3>2. reader[x] = "routing" /\ cmd[x] # NoCommand
          /\ cmd' = [cmd EXCEPT ![x] = NoCommand]
      <4>1. \E type \in {"NEW", "SUB", "SEND", "ACK", "OTHER"} : Receive(x, type)
        BY <3>1
        DEF Handle, RefuseNew, HandleNew, RefuseSub, HandleSub, RefuseSend, RefuseSave,
            HandleSend, HandleAck, HandleOther
      <4>2. NoCommand.type = "NONE"
        BY DEF NoCommand
      <4> QED BY <4>1, <4>2 DEF Receive
    <3>3. cmd'[x] = NoCommand
      BY <3>2 DEF ChatInv, Typed, TypeOK
    <3> QED BY <3>1, <3>2, <3>3
  <2> QED BY <1>1, <2>1 DEF Asking, Asked
<1>4. CASE Arrive(x)
  <2>1. up[x] # <<>> /\ up'[x] = Tail(up[x]) /\ cmd'[x] = Head(up[x])
    <3>1. up \in [Conns -> Seq(Command)] /\ cmd \in [Conns -> Command \cup {NoCommand}]
      BY DEF ChatInv, ChatTypeOK, TypeOK
    <3> QED BY <1>4, <3>1 DEF Arrive, ReadCommand
  <2>2. up[x] = <<SubCommand(x)>>
    BY <2>1 DEF Asking
  <2>3. up'[x] = <<>> /\ cmd'[x] = SubCommand(x)
    BY <2>1, <2>2
  <2>4. ~ RelayHandles(x)
    BY <1>4
    DEF Arrive, ReadCommand, RelayHandles, Handle, RefuseNew, HandleNew, RefuseSub, HandleSub,
        RefuseSend, RefuseSave, HandleSend, HandleAck, HandleOther, Receive
  <2> QED BY <1>1, <1>2, <2>3, <2>4, FreshStays DEF Asking
<1>5. CASE ~ RelayHandles(x) /\ ~ Arrive(x)
  <2>1. up'[x] \in {up[x], <<>>}
    BY <1>1, <1>2, <1>5, UpSteps
  <2>2. cmd'[x] \in {cmd[x], NoCommand}
    BY <1>5, CmdSteps
  <2>3. Fresh(x)'
    BY <1>5, FreshStays
  <2> QED BY <1>1, <1>2, <2>1, <2>2, <2>3 DEF Asking, Asked
<1> QED BY <1>3, <1>4, <1>5

LEMMA StartsNext ==
  ASSUME ChatInv, Starts, [ChatNext]_chatVars
  PROVE  Starts'
<1> SUFFICES ASSUME NEW x \in Conns PROVE Begins(x)'
  BY DEF Starts
<1>1. Begins(x) /\ up[x] \in Seq(Command) /\ out[x] \in Seq(Talk)
  BY DEF Starts, Begins, ChatInv, ChatTypeOK
<1>2. /\ <<>> \in Seq(Talk) /\ SubCommand(x) = SubCommand(x)' /\ NoCommand.type # "SUB"
  BY EmptySeq, SubIsNotTalk DEF SubCommand, Inbox
<1>3. ASSUME phase'[x] \in {"absent", "choosing"}
      PROVE  Silent(x)' /\ Fresh(x)'
  <2>1. Silent(x) /\ Fresh(x) /\ out[x] = <<>> /\ ~ Ask(x)
    BY <1>1, <1>3, PhaseSteps DEF Begins
  <2>2. ~ RelayHandles(x)
    BY <2>1
    DEF Silent, NoCommand, RelayHandles, Handle, RefuseNew, HandleNew, RefuseSub, HandleSub,
        RefuseSend, RefuseSave, HandleSend, HandleAck, HandleOther, Receive
  <2>3. up'[x] = <<>> /\ cmd'[x] = NoCommand
    BY <2>1, UpSteps, CmdSteps DEF Silent
  <2> QED BY <2>1, <2>2, <2>3, FreshStays DEF Silent
<1>4. out'[x] \in Seq(Talk)
  <2>1. \A k \in Talk : Append(out[x], k) \in Seq(Talk)
    BY <1>1, AppendProperties
  <2>2. \A m \in Mids : SendCommand(x, m) \in Talk /\ AckCommand(x, m) \in Talk
    BY SubIsNotTalk, ChatAssumption, HubAssumption DEF Talk
  <2>3. Acknowledge(x) => Receipt(x) \in Talk
    <3>1. ASSUME Acknowledge(x) PROVE screen[x][Len(screen[x])] \in Mids
      <4>1. screen[x] # <<>> /\ screen[x] \in Seq(Mids)
        BY <3>1 DEF Acknowledge, ChatInv, Kept, Screens, ChatTypeOK
      <4>2. Len(screen[x]) \in 1 .. Len(screen[x])
        BY <4>1, EmptySeq
      <4> QED BY <4>1, <4>2, ElementOfSeq
    <3> QED BY <2>2, <3>1 DEF Receipt
  <2>4. out[x] # <<>> => Tail(out[x]) \in Seq(Talk)
    BY <1>1, HeadTailProperties
  <2> QED BY <1>1, <1>2, <2>1, <2>2, <2>3, <2>4, OutSteps DEF Lines
<1>5. (Asking(x)' /\ Fresh(x)' /\ phase'[x] # "chatting") \/ Asked(x)'
  <2>1. CASE Asking(x) /\ Fresh(x) /\ phase[x] # "chatting"
    BY <2>1, AskingNext
  <2>2. CASE Asked(x) /\ ~ Ask(x)
    <3>1. up[x] \in Seq(Talk) /\ cmd[x].type # "SUB"
      BY <2>2 DEF Asked
    <3>2. /\ up[x] # <<>> => Head(up[x]) \in Talk /\ Tail(up[x]) \in Seq(Talk)
          /\ out[x] # <<>> => Head(out[x]) \in Talk
      BY <1>1, <3>1, HeadTailProperties
    <3>3. \A k \in Talk : Append(up[x], k) \in Seq(Talk)
      BY <3>1, AppendProperties
    <3>4. up'[x] \in Seq(Talk)
      BY <1>2, <2>2, <3>1, <3>2, <3>3, UpSteps
    <3>5. cmd'[x].type # "SUB"
      BY <1>2, <3>1, <3>2, CmdSteps DEF Talk
    <3> QED BY <3>4, <3>5 DEF Asked
  <2>3. CASE Ask(x)
    <3>1. Silent(x) /\ Fresh(x) /\ phase[x] = "choosing" /\ cmd' = cmd
      BY <1>1, <2>3 DEF Ask, Begins, vars, pumps
    <3>2. ~ RelayHandles(x)
      BY <3>1
      DEF Silent, NoCommand, RelayHandles, Handle, RefuseNew, HandleNew, RefuseSub, HandleSub,
          RefuseSend, RefuseSave, HandleSend, HandleAck, HandleOther, Receive
    <3>3. phase'[x] # "chatting"
      BY <2>3 DEF Ask, ChatInv, ChatTypeOK
    <3>4. up'[x] = Append(<<>>, SubCommand(x))
      BY <2>3, <3>1 DEF Ask, Silent, ChatInv, ChatTypeOK
    <3>5. Append(<<>>, SubCommand(x)) = <<SubCommand(x)>>
      OBVIOUS
    <3> QED BY <1>2, <3>1, <3>2, <3>3, <3>4, <3>5, FreshStays DEF Asking, Silent
  <2> QED BY <1>1, <2>1, <2>2, <2>3 DEF Begins
<1> QED BY <1>3, <1>4, <1>5, PhaseSteps DEF Begins

LEMMA StartsInit == ChatInit => Starts
<1> SUFFICES ASSUME ChatInit, NEW x \in Conns PROVE Begins(x)
  BY DEF Starts
<1>1. <<>> \in Seq(Talk) /\ NoCommand.type # "SUB" /\ x # Nobody
  BY EmptySeq, SubIsNotTalk, HubAssumption
<1> QED BY <1>1 DEF ChatInit, Init, Begins, Silent, Fresh, Asked

LEMMA StartsAlways == ChatSpec => []Starts
BY StartsInit, StartsNext, ChatInvAlways, PTL DEF ChatSpec

----------------------------------------------------------------------------
(* The start-up: SUB_OK is the first frame of all.                          *)

LEMMA FirstOfConcat ==
  ASSUME NEW S, NEW a \in Seq(S), NEW b \in Seq(S), a # <<>>
  PROVE  a \o b # <<>> /\ (a \o b)[1] = a[1]
<1>1. Len(a) \in Nat \ {0} /\ Len(b) \in Nat
  BY EmptySeq, LenProperties
<1>2. /\ a \o b \in Seq(S) /\ Len(a \o b) = Len(a) + Len(b)
      /\ \A i \in 1 .. Len(a) + Len(b) : (a \o b)[i] = IF i <= Len(a) THEN a[i] ELSE b[i - Len(a)]
  BY ConcatProperties
<1>3. 1 \in 1 .. Len(a) + Len(b) /\ 1 <= Len(a) /\ Len(a) + Len(b) # 0
  BY <1>1
<1> QED BY <1>2, <1>3, EmptySeq

NothingDue(c) ==
  /\ \A q \in Queues : sub[q] # c
  /\ \A f \in Range(OnTheWay(c)) : f.type # "DELIVER"

GrantFirst(c) == OnTheWay(c) # <<>> /\ OnTheWay(c)[1].type = "SUB_OK"

Early == {"absent", "choosing", "subscribing"}

GrantsFirst == \A c \in Conns : phase[c] \in Early => NothingDue(c) \/ GrantFirst(c)

\* The SUB is granted: nothing was on the way before.
LEMMA NothingBeforeGrant ==
  ASSUME ChatInv, Starts, NEW x \in Conns, HandleSub(x)
  PROVE  Fresh(x) /\ hub = <<>> /\ cmd[x].qid = Inbox(x) /\ OnTheWay(x) = <<>>
<1>1. Fresh(x) /\ hub = <<>> /\ cmd[x].qid = Inbox(x)
  <2>1. cmd[x].type = "SUB"
    BY DEF HandleSub, Receive
  <2> QED BY <2>1, ReceivedIsOwn DEF Starts, Begins, Asked, HandleSub, Receive, Idle
<1>2. OnTheWay(x) = <<>>
  <2>1. ToBeSent(x) = <<>>
    BY <1>1, SentNothing DEF ToBeSent, Sent
  <2>2. <<>> \o <<>> = <<>>
    BY EmptySeq, ConcatEmptySeq
  <2> QED BY <1>1, <2>1, <2>2 DEF OnTheWay, Fresh
<1> QED BY <1>1, <1>2

LEMMA GrantComes ==
  ASSUME ChatInv, ChatInv', Starts, NEW x \in Conns, RelayHandles(x), HandleSub(x)
  PROVE  GrantFirst(x)'
<1>1. Fresh(x) /\ hub = <<>> /\ cmd[x].qid = Inbox(x) /\ OnTheWay(x) = <<>>
  BY NothingBeforeGrant
<1>3. OnTheWay(x)' = ToBeSent(x)'
  <2>1. ToBeSent(x)' \in Seq(Slots)
    <3>1. hub' \in Seq(Statement)
      BY DEF ChatInv, ChatTypeOK, TypeOK
    <3> QED BY <3>1, SentTypes DEF ToBeSent, Sent
  <2> QED BY <1>1, <2>1, WayOfHandler, ConcatEmptySeq
<1> DEFINE s == Send(x, SubOk(Inbox(x)))
<1>4. hub' # <<>> /\ 1 \in DOMAIN hub' /\ hub'[1] = s
  <2>1. PICK replay \in Replays(Inbox(x), x) : hub' = <<s>> \o replay \o <<Touch(Inbox(x))>>
    BY <1>1 DEF HandleSub, SubProgram
  <2>2. s \in Statement /\ <<Touch(Inbox(x))>> \in Seq(Statement)
    <3>1. Inbox(x) \in Queues
      BY ChatConstants
    <3>2. s \in Quiet /\ Touch(Inbox(x)) \in Statement
      BY <3>1, QuietStatements DEF Quiet
    <3> QED BY <3>2 DEF Quiet
  <2>3. replay \in Seq(Statement)
    <3>1. LegalStatement \subseteq Statement
      BY DEF LegalStatement
    <3> QED BY <2>1, <3>1, LegalReplay, SeqMonotonic
  <2> DEFINE t == <<Touch(Inbox(x))>>
  <2> HIDE DEF s, t
  <2>4. <<s>> \in Seq(Statement) /\ <<s>> # <<>> /\ <<s>>[1] = s
    BY <2>2
  <2>5. <<s>> \o replay \in Seq(Statement) /\ <<s>> \o replay # <<>> /\ (<<s>> \o replay)[1] = s
    BY <2>3, <2>4, FirstOfConcat, ConcatProperties
  <2>6. (<<s>> \o replay) \o t # <<>> /\ ((<<s>> \o replay) \o t)[1] = s
    BY <2>2, <2>5, FirstOfConcat DEF t
  <2>7. hub' \in Seq(Statement)
    BY DEF ChatInv, ChatTypeOK, TypeOK
  <2>8. hub' # <<>> /\ hub'[1] = s
    BY <2>1, <2>6 DEF t
  <2>9. Len(hub') \in Nat \ {0} /\ DOMAIN hub' = 1 .. Len(hub')
    BY <2>7, <2>8, EmptySeq, LenProperties
  <2> QED BY <2>8, <2>9
<1>5. ToBeSent(x)'[1] = SubOk(Inbox(x)) /\ ToBeSent(x)' # <<>>
  <2>1. DOMAIN ToBeSent(x)' = DOMAIN hub' /\ ToBeSent(x)'[1] = SubOk(Inbox(x))
    BY <1>4 DEF ToBeSent, Send
  <2>2. DOMAIN <<>> = {}
    OBVIOUS
  <2> QED BY <1>4, <2>1, <2>2
<1> QED BY <1>3, <1>5 DEF GrantFirst, SubOk

LEMMA TailRange ==
  ASSUME NEW S, NEW s \in Seq(S), s # <<>>
  PROVE  Range(Tail(s)) \subseteq Range(s)
<1>1. ASSUME NEW f \in Range(Tail(s)) PROVE f \in Range(s)
  <2>1. PICK i \in DOMAIN Tail(s) : Tail(s)[i] = f
    BY <1>1, InRange
  <2>2. PICK j \in DOMAIN s : Tail(s)[i] = s[j]
    BY TailElements
  <2> QED BY <2>1, <2>2, InRange
<1> QED BY <1>1

\* Somebody else's step adds no message to the way of a run that is not a
\* subscriber, and does not make it one.
LEMMA NothingDueNext ==
  ASSUME ChatInv, [ChatNext]_chatVars, NEW x \in Conns, NothingDue(x),
         ~ (RelayHandles(x) /\ HandleSub(x))
  PROVE  NothingDue(x)'
<1> DEFINE w == OnTheWay(x)
           d == down[x]
           r == send[x]
           t == ToBeSent(x)
<1>1. /\ d \in Seq(Slots) /\ r \in Seq(Slots) /\ t \in Seq(Slots) /\ w \in Seq(Slots)
      /\ r \o t \in Seq(Slots) /\ d \o r \in Seq(Slots)
  <2>1. d \in Seq(Slots) /\ r \in Seq(Slots) /\ t \in Seq(Slots) /\ w \in Seq(Slots)
    BY WayTypes DEF ChatInv
  <2> HIDE DEF d, r, t, w
  <2> QED BY <2>1, ConcatProperties
<1>2. /\ d' \in Seq(Slots) /\ r' \in Seq(Slots) /\ t' \in Seq(Slots) /\ w' \in Seq(Slots)
  <2>1. ChatInv'
    BY ChatInvNext
  <2>2. /\ hub' \in Seq(Statement) /\ down'[x] \in Seq(Frame) /\ send'[x] \in Seq(Frame)
    BY <2>1 DEF ChatInv, ChatTypeOK, TypeOK
  <2>3. d' \in Seq(Slots) /\ r' \in Seq(Slots) /\ t' \in Seq(Slots)
    <3>1. Frame \subseteq Slots
      BY DEF Slots
    <3> QED BY <2>2, <3>1, SeqMonotonic, SentTypes DEF ToBeSent, Sent
  <2>4. w' = d' \o r' \o t'
    BY DEF OnTheWay
  <2> HIDE DEF d, r, t, w
  <2> QED BY <2>3, <2>4, ConcatProperties
<1>3. \A q \in Queues : sub'[q] # x
  <2>1. x # Nobody
    BY HubAssumption
  <2> QED BY <2>1, SubSteps DEF NothingDue
<1>4. \A f \in Range(w) : f.type # "DELIVER"
  BY DEF NothingDue
<1>5. ASSUME Range(w') \subseteq Range(w) PROVE NothingDue(x)'
  BY <1>3, <1>4, <1>5 DEF NothingDue
<1>6. CASE w' = w \/ (w # <<>> /\ w' = Tail(w))
  <2> HIDE DEF w
  <2>1. w # <<>> => Range(Tail(w)) \subseteq Range(w)
    BY <1>1, TailRange
  <2> QED BY <1>5, <1>6, <2>1
<1>7. CASE w = d \o w'
  <2> HIDE DEF d, w
  <2>1. Range(d \o w') = Range(d) \cup Range(w')
    BY <1>1, <1>2, RangeConcatenation
  <2> QED BY <1>5, <1>7, <2>1
<1>8. CASE w = d \o (r \o t) /\ w' = d
  <2> HIDE DEF d, w, r, t
  <2> DEFINE b == r \o t
  <2>1. d \in Seq(Slots) /\ b \in Seq(Slots)
    BY <1>1
  <2> HIDE DEF b
  <2>2. Range(d \o b) = Range(d) \cup Range(b)
    BY <2>1, RangeConcatenation
  <2> QED BY <1>5, <1>8, <2>2 DEF b
<1>9. CASE \E f \in Slots : w = d \o r \o <<f>> \o t' /\ w' = d \o r \o t'
  <2> HIDE DEF d, w, r, t
  <2>1. PICK f \in Slots : w = d \o r \o <<f>> \o t' /\ w' = d \o r \o t'
    BY <1>9
  <2> DEFINE a == d \o r
  <2>2. a \in Seq(Slots) /\ <<f>> \in Seq(Slots)
    BY <1>1
  <2> HIDE DEF a
  <2>3. a \o <<f>> \in Seq(Slots) /\ Range(a \o <<f>>) = Range(a) \cup Range(<<f>>)
    <3>1. a \o <<f>> \in Seq(Slots)
      BY <2>2, ConcatProperties
    <3> QED BY <2>2, <3>1, RangeConcatenation
  <2>4. Range((a \o <<f>>) \o t') = Range(a \o <<f>>) \cup Range(t')
    <3> DEFINE b == a \o <<f>>
    <3>1. b \in Seq(Slots) /\ t' \in Seq(Slots)
      BY <1>2, <2>3
    <3> HIDE DEF b
    <3>2. Range(b \o t') = Range(b) \cup Range(t')
      BY <3>1, RangeConcatenation
    <3> QED BY <3>2 DEF b
  <2>5. Range(a \o t') = Range(a) \cup Range(t')
    BY <1>2, <2>2, RangeConcatenation
  <2> QED BY <1>5, <2>1, <2>3, <2>4, <2>5 DEF a
<1>10. CASE /\ \E y \in Conns : RelayHandles(y)
            /\ w' = w \o t'
  <2>1. PICK y \in Conns : RelayHandles(y) /\ Handle(y)
    BY <1>10 DEF RelayHandles
  <2>2. ASSUME NEW f \in Range(t') PROVE f.type # "DELIVER"
    <3>1. PICK i \in DOMAIN t' : t'[i] = f
      BY <2>2, InRange
    <3>2. i \in DOMAIN hub' /\ f = (IF hub'[i].do = "send" /\ hub'[i].to = x
                                    THEN hub'[i].frame ELSE NoFrame)
      BY <3>1 DEF ToBeSent
    <3>3. NoFrame.type = "NONE"
      BY DEF NoFrame
    <3>4. CASE hub'[i].do = "send" /\ hub'[i].to = x
      BY <1>3, <2>1, <3>2, <3>4, HandlerSends
    <3> QED BY <3>2, <3>3, <3>4
  <2>3. Range(w') = Range(w) \cup Range(t')
    <3> HIDE DEF w, t
    <3>1. Range(w \o t') = Range(w) \cup Range(t')
      BY <1>1, <1>2, RangeConcatenation
    <3> QED BY <1>10, <3>1
  <2>4. \A f \in Range(w') : f.type # "DELIVER"
    BY <1>4, <2>2, <2>3
  <2> QED BY <1>3, <2>4 DEF NothingDue
<1> QED BY <1>6, <1>7, <1>8, <1>9, <1>10, WaySteps

LEMMA GrantFirstNext ==
  ASSUME ChatInv, Starts, [ChatNext]_chatVars, NEW x \in Conns, GrantFirst(x),
         phase'[x] \in Early
  PROVE  NothingDue(x)' \/ GrantFirst(x)'
<1> DEFINE w == OnTheWay(x)
           d == down[x]
           r == send[x]
           t == ToBeSent(x)
<1>1. /\ d \in Seq(Slots) /\ r \in Seq(Slots) /\ t \in Seq(Slots) /\ w \in Seq(Slots)
      /\ r \o t \in Seq(Slots) /\ d \o r \in Seq(Slots)
  <2>1. d \in Seq(Slots) /\ r \in Seq(Slots) /\ t \in Seq(Slots) /\ w \in Seq(Slots)
    BY WayTypes DEF ChatInv
  <2> HIDE DEF d, r, t, w
  <2> QED BY <2>1, ConcatProperties
<1>2. t' \in Seq(Slots)
  <2>1. ChatInv'
    BY ChatInvNext
  <2>2. hub' \in Seq(Statement)
    BY <2>1 DEF ChatInv, ChatTypeOK, TypeOK
  <2> QED BY <2>2, SentTypes DEF ToBeSent, Sent
<1>3. w # <<>> /\ w[1].type = "SUB_OK"
  BY DEF GrantFirst
<1>4. ASSUME w' # <<>>, w'[1] = w[1] PROVE GrantFirst(x)'
  BY <1>3, <1>4 DEF GrantFirst
<1>5. ~ Read(x) /\ ~ Notice(x) /\ ~ End(x)
  <2>1. phase[x] \in Early /\ phase'[x] \in Early
    BY PhaseSteps DEF Early
  <2>2. listener[x] = "off"
    BY <2>1 DEF Starts, Begins, Early
  <2>3. ~ End(x)
    BY <2>1 DEF End, Early, ChatInv, ChatTypeOK
  <2> QED BY <2>2, <2>3 DEF Read, Notice
<1>6. ASSUME Answered(x), Head(w) = Head(d) PROVE FALSE
  <2>1. Head(d).type = "SUB_OK"
    BY <1>1, <1>3, <1>6
  <2>2. phase'[x] = "chatting"
    BY <1>6, <2>1 DEF Answered, ChatInv, ChatTypeOK
  <2> QED BY <2>2 DEF Early
<1>7. CASE Reset /\ w = d \o (r \o t) /\ w' = d
  <2>1. CASE d = <<>>
    <3>1. \A q \in Queues : sub'[q] # x
      BY <1>7, HubAssumption DEF Reset
    <3>2. Range(w') = {}
      BY <1>7, <2>1, NothingSorted
    <3> QED BY <3>1, <3>2 DEF NothingDue
  <2>2. CASE d # <<>>
    <3> HIDE DEF d, r, t, w
    <3>1. d[1] = w[1]
      BY <1>1, <1>7, <2>2, FirstOfConcat
    <3> QED BY <1>4, <1>7, <2>2, <3>1
  <2> QED BY <2>1, <2>2
<1>8. CASE \E f \in Slots :
             /\ w = d \o r \o <<f>> \o t' /\ w' = d \o r \o t'
             /\ f = NoFrame \/ Drops(x)
  <2>1. PICK f \in Slots :
          /\ w = d \o r \o <<f>> \o t' /\ w' = d \o r \o t'
          /\ f = NoFrame \/ Drops(x)
    BY <1>8
  <2> DEFINE a == d \o r
  <2> HIDE DEF d, r, t, w
  <2>2. a \in Seq(Slots) /\ <<f>> \in Seq(Slots) /\ <<f>> # <<>> /\ <<f>>[1] = f
    BY <1>1
  <2>3. CASE a = <<>>
    <3>1. r = <<>>
      BY <1>1, <2>3, ConcatEmptySeq, EmptySeq, ConcatProperties, LenProperties
    <3>2. f = NoFrame
      BY <2>1, <3>1, HubAssumption, EmptySeq DEF Drops, r
    <3>3. a \o <<f>> = <<f>>
      BY <2>2, <2>3, ConcatEmptySeq
    <3> HIDE DEF a
    <3>4. (<<f>> \o t')[1] = f
      BY <1>2, <2>2, FirstOfConcat
    <3>5. w[1] = NoFrame
      BY <2>1, <3>2, <3>3, <3>4 DEF a
    <3> QED BY <1>3, <3>5 DEF NoFrame
  <2>4. CASE a # <<>>
    <3> HIDE DEF a
    <3>1. /\ a \o <<f>> \in Seq(Slots) /\ a \o <<f>> # <<>> /\ (a \o <<f>>)[1] = a[1]
          /\ a \o t' # <<>> /\ (a \o t')[1] = a[1]
      BY <1>2, <2>2, <2>4, FirstOfConcat, ConcatProperties
    <3>2. ((a \o <<f>>) \o t')[1] = a[1]
      BY <1>2, <3>1, FirstOfConcat
    <3> QED BY <1>4, <2>1, <3>1, <3>2 DEF a
  <2> QED BY <2>3, <2>4
<1>9. CASE w' = w \o t'
  <2> HIDE DEF w, t
  <2>1. w \o t' # <<>> /\ (w \o t')[1] = w[1]
    BY <1>1, <1>2, <1>3, FirstOfConcat
  <2> QED BY <1>4, <1>9, <2>1
<1>10. CASE w' = w
  BY <1>3, <1>4, <1>10
<1> QED BY <1>5, <1>6, <1>7, <1>8, <1>9, <1>10, WaySteps

LEMMA GrantsFirstNext ==
  ASSUME ChatInv, Starts, GrantsFirst, [ChatNext]_chatVars
  PROVE  GrantsFirst'
<1> SUFFICES ASSUME NEW x \in Conns, phase'[x] \in Early
             PROVE  NothingDue(x)' \/ GrantFirst(x)'
  BY DEF GrantsFirst
<1>1. phase[x] \in Early
  BY PhaseSteps DEF Early
<1>2. CASE RelayHandles(x) /\ HandleSub(x)
  BY <1>2, ChatInvNext, GrantComes
<1>3. CASE NothingDue(x) /\ ~ (RelayHandles(x) /\ HandleSub(x))
  BY <1>3, NothingDueNext
<1>4. CASE GrantFirst(x)
  BY <1>4, GrantFirstNext
<1> QED BY <1>1, <1>2, <1>3, <1>4 DEF GrantsFirst

LEMMA GrantsFirstInit == ChatInit => GrantsFirst
<1> SUFFICES ASSUME ChatInit, NEW x \in Conns PROVE NothingDue(x)
  BY DEF GrantsFirst
<1>1. OnTheWay(x) = <<>>
  <2>1. ToBeSent(x) = <<>>
    BY SentNothing DEF ChatInit, Init, ToBeSent, Sent
  <2>2. <<>> \o <<>> = <<>>
    BY EmptySeq, ConcatEmptySeq
  <2> QED BY <2>1, <2>2 DEF OnTheWay, ChatInit, Init
<1> QED BY <1>1, NothingSorted, HubAssumption DEF NothingDue, ChatInit, Init

LEMMA GrantsFirstAlways == ChatSpec => []GrantsFirst
BY GrantsFirstInit, GrantsFirstNext, StartsAlways, ChatInvAlways, PTL DEF ChatSpec

\* While the client waits for SUB_OK (session.go: subscribe) it throws away
\* every other frame; the hub subscribes a connection, answers SUB_OK and
\* replays the backlog within one command, so no message is ever thrown away.
THEOREM NoMessageBeforeSubOk == ChatSpec => []StartupSkipsNothing
<1>1. ASSUME ChatInv, GrantsFirst PROVE StartupSkipsNothing
  <2> SUFFICES ASSUME NEW c \in Conns, phase[c] \in {"choosing", "subscribing"},
                      NEW j \in DOMAIN OnTheWay(c), OnTheWay(c)[j].type = "DELIVER"
               PROVE  \E i \in 1 .. (j - 1) : OnTheWay(c)[i].type = "SUB_OK"
    BY DEF StartupSkipsNothing
  <2>1. OnTheWay(c)[j] \in Range(OnTheWay(c))
    BY InRange
  <2>2. OnTheWay(c)[1].type = "SUB_OK"
    BY <1>1, <2>1 DEF GrantsFirst, Early, NothingDue, GrantFirst
  <2>3. j \in Nat /\ 1 <= j
    <3>1. OnTheWay(c) \in Seq(Slots)
      BY <1>1, WayTypes DEF ChatInv
    <3> QED BY <3>1, LenProperties
  <2>4. j # 1
    BY <2>2
  <2>5. 1 \in 1 .. (j - 1)
    BY <2>3, <2>4
  <2> QED BY <2>2, <2>5
<1> QED BY <1>1, ChatInvAlways, GrantsFirstAlways, PTL

=============================================================================
