-------------------------- MODULE MimeParser_proofs --------------------------
(***************************************************************************)
(* Proofs about MimeParser: the parser's search goes forward and ends, and *)
(* it takes every multipart message apart as its sender put it together.   *)
(*                                                                         *)
(* What a recursive function computes is proved by induction, in the form  *)
(* of Induction below: the numbers with a property are a set there.        *)
(***************************************************************************)
EXTENDS MimeParser, SequenceTheorems, WellFoundedInduction, TLAPS

-----------------------------------------------------------------------------
(* Induction                                                               *)

(* A set of numbers has a least one.                                       *)
LEMMA Least ==
  ASSUME NEW S \in SUBSET Nat, S # {}
  PROVE  \E n \in S : \A m \in S : n <= m
<1>1. PICK n \in S : \A m \in S : ~ (<<m, n>> \in OpToRel(<, Nat))
  BY NatLessThanWellFounded, WFMin
<1>2. \A m \in S : ~ (m < n)
  BY <1>1 DEF OpToRel
<1> QED
  BY <1>2

(* A set that has 0, and the successor of each of its numbers below N, has *)
(* all numbers up to N.                                                    *)
LEMMA Induction ==
  ASSUME NEW N \in Nat, NEW S, 0 \in S,
         \A n \in 0..N - 1 : n \in S => n + 1 \in S
  PROVE  0..N \subseteq S
<1> SUFFICES ASSUME NEW k \in 0..N, k \notin S
             PROVE  FALSE
  OBVIOUS
<1> DEFINE T == (0..N) \ S
<1>1. T \in SUBSET Nat /\ T # {}
  OBVIOUS
<1> HIDE DEF T
<1>2. PICK n \in T : \A m \in T : n <= m
  BY <1>1, Least
<1>3. n \in 0..N /\ n \notin S /\ \A m \in (0..N) \ S : n <= m
  BY <1>2 DEF T
<1>4. n - 1 \in 0..N - 1 /\ n - 1 \in S
  BY <1>3
<1>5. (n - 1) + 1 \in S
  BY <1>4
<1> QED
  BY <1>3, <1>5

-----------------------------------------------------------------------------
(* find                                                                    *)

(* The first of some places, or npos.                                      *)
LEMMA FirstIs ==
  ASSUME NEW str, Len(str) \in Nat, NEW places \in SUBSET (1..Len(str))
  PROVE  /\ First(str, places) \in places \cup {Npos(str)}
         /\ \A i \in places : First(str, places) <= i
         /\ First(str, places) \in 1..Npos(str)
<1> DEFINE S == {Npos(str)} \cup places
<1>1. S \in SUBSET Nat /\ S # {} /\ S \subseteq 1..Npos(str)
  <2> DEFINE L == Len(str)
  <2>1. L \in Nat /\ Npos(str) = L + 1 /\ places \in SUBSET (1..L)
    BY DEF Npos
  <2> HIDE DEF L
  <2> QED
    BY <2>1
<1>2. \E n \in S : \A m \in S : n <= m
  BY <1>1, Least
<1>3. First(str, places) \in S /\ \A m \in S : First(str, places) <= m
  BY <1>2 DEF First, Min
<1> QED
  BY <1>1, <1>3

(* The place before which there is none is the first.                      *)
LEMMA FirstIsAt ==
  ASSUME NEW str, Len(str) \in Nat, NEW places \in SUBSET (1..Len(str)),
         NEW n \in places, \A i \in places : n <= i
  PROVE  First(str, places) = n
<1>1. /\ First(str, places) \in places \cup {Npos(str)}
      /\ First(str, places) <= n
  BY FirstIs
<1>2. n < Npos(str) /\ n \in Nat /\ Npos(str) \in Nat
  BY DEF Npos
<1>3. First(str, places) \in places
  BY <1>1, <1>2
<1>4. n <= First(str, places) /\ First(str, places) \in 1..Npos(str)
  BY <1>3, FirstIs
<1> QED
  BY <1>1, <1>2, <1>4

(* Where there is nothing to be found, find returns npos.                  *)
LEMMA FirstOfNone ==
  ASSUME NEW str, Len(str) \in Nat
  PROVE  First(str, {}) = Npos(str)
BY FirstIs

(* The searches return a place from pos on, or npos.                       *)
LEMMA Searches ==
  ASSUME NEW str, Len(str) \in Nat, NEW pos \in Nat \ {0}
  PROVE  /\ FindType(str, pos) \in 1..Npos(str)
         /\ FindType(str, pos) # Npos(str) => FindType(str, pos) >= pos
         /\ FindBlank(str, pos) \in 1..Npos(str)
         /\ FindBlank(str, pos) # Npos(str) => FindBlank(str, pos) >= pos
         /\ FindBoundary(str, pos) \in 1..Npos(str)
         /\ FindBoundary(str, pos) # Npos(str) => FindBoundary(str, pos) >= pos
         /\ FindLastBoundary(str, pos) \in 1..Npos(str)
         /\ FindLastBoundary(str, pos) # Npos(str) => FindLastBoundary(str, pos) >= pos
<1>1. \A S \in SUBSET (1..Len(str)) :
        /\ First(str, S) \in 1..Npos(str)
        /\ First(str, S) # Npos(str) => First(str, S) \in S
  BY FirstIs
<1>2. ASSUME NEW S \in SUBSET (pos..Len(str))
      PROVE  /\ First(str, S) \in 1..Npos(str)
             /\ First(str, S) # Npos(str) => First(str, S) >= pos
  BY <1>1
<1>3. FindType(str, pos) \in 1..Npos(str)
      /\ (FindType(str, pos) # Npos(str) => FindType(str, pos) >= pos)
  BY <1>2 DEF FindType
<1>4. FindBlank(str, pos) \in 1..Npos(str)
      /\ (FindBlank(str, pos) # Npos(str) => FindBlank(str, pos) >= pos)
  BY <1>2 DEF FindBlank
<1>5. FindBoundary(str, pos) \in 1..Npos(str)
      /\ (FindBoundary(str, pos) # Npos(str) => FindBoundary(str, pos) >= pos)
  BY <1>2 DEF FindBoundary
<1>6. FindLastBoundary(str, pos) \in 1..Npos(str)
      /\ (FindLastBoundary(str, pos) # Npos(str) => FindLastBoundary(str, pos) >= pos)
  BY <1>2 DEF FindLastBoundary
<1> QED
  BY <1>3, <1>4, <1>5, <1>6

-----------------------------------------------------------------------------
(* The recursion of parse                                                  *)

(* What parse makes of the message from pos on, if rest is what it makes   *)
(* of it from the later places on.                                         *)
TypeFrom(str, pos) == FindType(str, pos)

BlankFrom(str, pos) ==
  IF TypeFrom(str, pos) = Npos(str) THEN Npos(str) ELSE FindBlank(str, TypeFrom(str, pos))

BoundaryFrom(str, pos) == NextBoundary(str, BlankFrom(str, pos) + 1)

Done(str, pos) == pos >= FindLastBoundary(str, 1) \/ TypeFrom(str, pos) = Npos(str)

PartFrom(str, pos) ==
  [content_type |-> str[TypeFrom(str, pos)],
   body |-> PartBody(str, BlankFrom(str, pos), BoundaryFrom(str, pos))]

PartsFrom(str, rest, pos) ==
  IF Done(str, pos) THEN <<>> ELSE <<PartFrom(str, pos)>> \o rest[BoundaryFrom(str, pos)]

(* Every pass of the loop ends at a later boundary than it begins.         *)
LEMMA Progress ==
  ASSUME NEW str, Len(str) \in Nat, NEW pos \in 1..Npos(str), ~Done(str, pos)
  PROVE  BoundaryFrom(str, pos) \in pos + 1..Npos(str)
<1>1. pos \in Nat \ {0} /\ Npos(str) \in Nat
  BY DEF Npos
<1>2. TypeFrom(str, pos) \in pos..Npos(str) /\ TypeFrom(str, pos) # Npos(str)
  BY <1>1, Searches DEF Done, TypeFrom
<1>3. BlankFrom(str, pos) \in pos..Npos(str)
  <2> DEFINE t == TypeFrom(str, pos)
  <2>1. t \in Nat \ {0} /\ t >= pos /\ t # Npos(str)
    BY <1>1, <1>2
  <2>2. BlankFrom(str, pos) = FindBlank(str, t)
    BY <1>2 DEF BlankFrom
  <2> HIDE DEF t
  <2>3. /\ FindBlank(str, t) \in 1..Npos(str)
        /\ FindBlank(str, t) # Npos(str) => FindBlank(str, t) >= t
    BY <2>1, Searches
  <2> QED
    BY <1>1, <2>1, <2>2, <2>3
<1>4. BlankFrom(str, pos) + 1 \in Nat \ {0}
  BY <1>1, <1>3
<1>5. /\ BoundaryFrom(str, pos) \in 1..Npos(str)
      /\ BoundaryFrom(str, pos) # Npos(str) => BoundaryFrom(str, pos) >= BlankFrom(str, pos) + 1
  BY <1>4, Searches DEF BoundaryFrom, NextBoundary
<1>6. pos # Npos(str)
  BY <1>1, <1>2
<1> QED
  BY <1>1, <1>3, <1>5, <1>6

(* So its recursion is well-founded: there is a function as it describes,  *)
(* and MimeParts is its value at the first boundary.                       *)
LEMMA PartsExist ==
  ASSUME NEW str, Len(str) \in Nat
  PROVE  \E rest : /\ rest = [pos \in 1..Npos(str) |-> PartsFrom(str, rest, pos)]
                   /\ MimeParts(str) = rest[FindBoundary(str, 1)]
<1> DEFINE N == Npos(str)
           From(m, f) == f = [pos \in m..N |-> PartsFrom(str, f, pos)]
           S == {k \in 0..N - 1 : \E f : From(N - k, f)}
<1>1. N \in Nat \ {0}
  BY DEF Npos
<1>2. 0 \in S
  <2> DEFINE f == [pos \in N..N |-> <<>>]
  <2>1. Done(str, N)
    <3>1. FindLastBoundary(str, 1) <= N
      BY <1>1, Searches
    <3> QED
      BY <3>1, <1>1, Searches DEF Done
  <2>2. \A pos \in N..N : PartsFrom(str, f, pos) = <<>>
    BY <1>1, <2>1 DEF PartsFrom
  <2>3. From(N, f)
    BY <2>2
  <2>4. N - 0 = N /\ 0 \in 0..N - 1
    BY <1>1
  <2> QED
    BY <2>3, <2>4
<1>3. ASSUME NEW k \in 0..N - 1 - 1, k \in S
      PROVE  k + 1 \in S
  <2>1. PICK f : From(N - k, f)
    BY <1>3
  <2> DEFINE m == N - (k + 1)
             g == [pos \in m..N |-> IF pos = m THEN PartsFrom(str, f, m) ELSE f[pos]]
  <2>2. m \in 1..N /\ m + 1 = N - k /\ k + 1 \in 0..N - 1
    BY <1>1
  <2>3. \A pos \in m + 1..N : g[pos] = f[pos] /\ f[pos] = PartsFrom(str, f, pos)
    <3>1. \A pos \in m + 1..N : pos \in m..N /\ pos # m
      BY <1>1, <2>2
    <3>2. f = [pos \in m + 1..N |-> PartsFrom(str, f, pos)]
      BY <2>1, <2>2
    <3> HIDE DEF m
    <3> QED
      BY <3>1, <3>2
  <2>4. ASSUME NEW pos \in m..N
        PROVE  PartsFrom(str, f, pos) = PartsFrom(str, g, pos)
    <3>1. CASE Done(str, pos)
      BY <3>1 DEF PartsFrom
    <3>2. CASE ~Done(str, pos)
      <4>1. pos \in 1..N
        BY <1>1, <2>2
      <4>2. BoundaryFrom(str, pos) \in pos + 1..N
        BY <3>2, <4>1, Progress
      <4>3. BoundaryFrom(str, pos) \in m + 1..N
        BY <1>1, <2>2, <4>2
      <4>4. f[BoundaryFrom(str, pos)] = g[BoundaryFrom(str, pos)]
        BY <2>3, <4>3
      <4> QED
        BY <4>4 DEF PartsFrom
    <3> QED
      BY <3>1, <3>2
  <2>5. ASSUME NEW pos \in m..N
        PROVE  g[pos] = PartsFrom(str, g, pos)
    <3>1. pos = m \/ pos \in m + 1..N
      BY <1>1, <2>2
    <3> HIDE DEF m
    <3>2. CASE pos = m
      BY <2>4, <3>2
    <3>3. CASE pos \in m + 1..N
      BY <2>3, <2>4, <3>3
    <3> QED
      BY <3>1, <3>2, <3>3
  <2>6. From(m, g)
    BY <2>5
  <2> QED
    BY <2>2, <2>6
<1> HIDE DEF S
<1>4. N - 1 \in S
  <2> DEFINE l == N - 1
  <2>1. l \in Nat /\ l \in 0..l
    BY <1>1
  <2>2. \A k \in 0..l - 1 : k \in S => k + 1 \in S
    BY <1>3
  <2> HIDE DEF l
  <2>3. 0..l \subseteq S
    BY <1>2, <2>1, <2>2, Induction
  <2> QED
    BY <2>1, <2>3 DEF l
<1> USE DEF S
<1>5. \E f : f = [pos \in 1..N |-> PartsFrom(str, f, pos)]
  BY <1>1, <1>4
<1> DEFINE F == CHOOSE f : f = [pos \in 1..N |-> PartsFrom(str, f, pos)]
<1>6. F = [pos \in 1..N |-> PartsFrom(str, F, pos)]
  BY <1>5
<1>7. MimeParts(str) = F[FindBoundary(str, 1)]
  BY DEF MimeParts, PartsFrom, PartFrom, Done, BoundaryFrom, BlankFrom, TypeFrom
<1> QED
  BY <1>6, <1>7

-----------------------------------------------------------------------------
(* The composed message                                                    *)

Size(part) == 3 + Len(part.before) + Len(part.after) + Len(part.body)

Added(str, part) ==
  str \o <<"delimiter">>
    \o part.before \o <<part.content_type>> \o part.after
    \o <<"blank">> \o part.body

(* A part stands in a message from the place p on, line by line.           *)
Stands(str, p, part) ==
  LET b == Len(part.before)  a == Len(part.after)
  IN  /\ str[p] = "delimiter"
      /\ \A k \in 1..b : str[p + k] = "id"
      /\ str[p + b + 1] = part.content_type
      /\ \A k \in 1..a : str[p + b + 1 + k] = "id"
      /\ str[p + b + a + 2] = "blank"
      /\ \A k \in 1..Len(part.body) : str[p + b + a + 2 + k] = part.body[k]

(* A sequence is added behind another.                                     *)
LEMMA Concat ==
  ASSUME NEW S, NEW s \in Seq(S), NEW t \in Seq(S), NEW r, r = s \o t,
         NEW n \in Nat, n = Len(s), NEW m \in Nat, m = Len(t)
  PROVE  /\ r \in Seq(S) /\ Len(r) = n + m
         /\ \A i \in 1..n : r[i] = s[i]
         /\ \A i \in 1..m : r[n + i] = t[i]
OBVIOUS

(* One element is added behind a sequence.                                 *)
LEMMA ConcatOne ==
  ASSUME NEW S, NEW s \in Seq(S), NEW x \in S, NEW r, r = s \o <<x>>,
         NEW n \in Nat, n = Len(s)
  PROVE  /\ r \in Seq(S) /\ Len(r) = n + 1
         /\ \A i \in 1..n : r[i] = s[i]
         /\ r[n + 1] = x
OBVIOUS

(* A sequence and what stands before it.                                   *)
LEMMA Prepended ==
  ASSUME NEW S, NEW x \in S, NEW t \in Seq(S), NEW u \in Seq(S),
         NEW n \in Nat, n = Len(t), Len(u) = n + 1,
         u[1] = x, \A j \in 1..n : u[j + 1] = t[j]
  PROVE  <<x>> \o t = u
<1> DEFINE r == <<x>> \o t
<1>1. r \in Seq(S) /\ Len(r) = n + 1
  OBVIOUS
<1>2. \A j \in 1..n + 1 : r[j] = IF j = 1 THEN x ELSE t[j - 1]
  OBVIOUS
<1> HIDE DEF r
<1>3. ASSUME NEW j \in 1..n + 1
      PROVE  r[j] = u[j]
  <2>1. CASE j = 1
    BY <1>2, <2>1
  <2>2. CASE j # 1
    <3>1. j - 1 \in 1..n /\ (j - 1) + 1 = j
      BY <2>2
    <3>2. u[(j - 1) + 1] = t[j - 1]
      BY <3>1
    <3> QED
      BY <1>2, <2>2, <3>1, <3>2
  <2> QED
    BY <2>1, <2>2
<1>4. r = u
  BY <1>1, <1>3, SeqEqual
<1> QED
  BY <1>4 DEF r

(* What the sender puts in a part are lines; the lines between the         *)
(* delimiter and the type are none of those that the parser looks for.     *)
LEMMA SentPartType ==
  ASSUME NEW Line, "id" \in Line, NEW part \in SentPart(Line)
  PROVE  /\ part.before \in Seq(Line) /\ part.after \in Seq(Line)
         /\ part.body \in Seq(Line) /\ part.content_type \in Line
         /\ Len(part.before) \in Nat /\ Len(part.after) \in Nat /\ Len(part.body) \in Nat
         /\ \A k \in 1..Len(part.before) : part.before[k] = "id"
         /\ \A k \in 1..Len(part.after) : part.after[k] = "id"
         /\ Size(part) \in Nat
<1>1. /\ part.before \in Seq({"id"}) /\ part.after \in Seq({"id"})
      /\ part.body \in Seq(Line) /\ part.content_type \in Line
  BY DEF SentPart
<1>2. {"id"} \subseteq Line
  OBVIOUS
<1>3. part.before \in Seq(Line) /\ part.after \in Seq(Line)
  BY <1>1, <1>2, SeqMonotonic
<1>4. /\ \A k \in 1..Len(part.before) : part.before[k] = "id"
      /\ \A k \in 1..Len(part.after) : part.after[k] = "id"
  <2>1. \A s \in Seq({"id"}) : \A k \in 1..Len(s) : s[k] \in {"id"}
    BY ElementOfSeq
  <2> QED
    BY <1>1, <2>1
<1>5. Len(part.before) \in Nat /\ Len(part.after) \in Nat /\ Len(part.body) \in Nat
  BY <1>1, LenProperties
<1>6. Size(part) \in Nat
  <2>1. \A b, a, c \in Nat : 3 + b + a + c \in Nat
    OBVIOUS
  <2> QED
    BY <1>5, <2>1 DEF Size
<1> QED
  BY <1>1, <1>3, <1>4, <1>5, <1>6

(* A part that is added stands behind what was there.                      *)
LEMMA AddedStands ==
  ASSUME NEW Line, {"id", "delimiter", "blank"} \subseteq Line,
         NEW str \in Seq(Line), NEW part \in SentPart(Line)
  PROVE  /\ Added(str, part) \in Seq(Line)
         /\ Len(str) \in Nat /\ Len(Added(str, part)) = Len(str) + Size(part)
         /\ \A i \in 1..Len(str) : Added(str, part)[i] = str[i]
         /\ Stands(Added(str, part), Len(str) + 1, part)
<1> DEFINE before == part.before
           type == part.content_type
           after == part.after
           body == part.body
           b == Len(before)
           a == Len(after)
           c == Len(body)
           n == Len(str)
<1>1. "delimiter" \in Line /\ "blank" \in Line /\ "id" \in Line
  OBVIOUS
<1>2. /\ before \in Seq(Line) /\ after \in Seq(Line) /\ body \in Seq(Line) /\ type \in Line
      /\ b \in Nat /\ a \in Nat /\ c \in Nat /\ n \in Nat
      /\ \A k \in 1..b : before[k] = "id"
      /\ \A k \in 1..a : after[k] = "id"
  BY <1>1, SentPartType, LenProperties
<1>3. Size(part) = 3 + b + a + c
  BY DEF Size
<1> HIDE DEF before, type, after, body, b, a, c, n
<1> DEFINE s1 == str \o <<"delimiter">>
           s2 == s1 \o before
           s3 == s2 \o <<type>>
           s4 == s3 \o after
           s5 == s4 \o <<"blank">>
           s6 == s5 \o body
           n1 == n + 1
           n2 == n1 + b
           n3 == n2 + 1
           n4 == n3 + a
           n5 == n4 + 1
<1>4. n1 \in Nat /\ n2 \in Nat /\ n3 \in Nat /\ n4 \in Nat /\ n5 \in Nat
  BY <1>2
<1>5. Added(str, part) = s6
  BY DEF Added, before, type, after, body
<1>6. /\ s1 \in Seq(Line) /\ Len(s1) = n1
      /\ \A i \in 1..n : s1[i] = str[i]
      /\ s1[n1] = "delimiter"
  <2> HIDE DEF s1
  <2>1. s1 = str \o <<"delimiter">> /\ n = Len(str)
    BY DEF s1, n
  <2> QED
    BY <1>1, <1>2, <2>1
<1> HIDE DEF s1, n1
<1>7. /\ s2 \in Seq(Line) /\ Len(s2) = n2
      /\ \A i \in 1..n1 : s2[i] = s1[i]
      /\ \A k \in 1..b : s2[n1 + k] = before[k]
  <2> HIDE DEF s2
  <2>1. s2 = s1 \o before /\ b = Len(before)
    BY DEF s2, b
  <2>2. s1 \in Seq(Line) /\ n1 = Len(s1) /\ n1 \in Nat
    BY <1>4, <1>6
  <2>3. before \in Seq(Line) /\ b \in Nat
    BY <1>2
  <2> QED
    BY <2>1, <2>2, <2>3
<1> HIDE DEF s2, n2
<1>8. /\ s3 \in Seq(Line) /\ Len(s3) = n3
      /\ \A i \in 1..n2 : s3[i] = s2[i]
      /\ s3[n3] = type
  <2> HIDE DEF s3
  <2>1. s3 = s2 \o <<type>>
    BY DEF s3
  <2>2. s2 \in Seq(Line) /\ Len(s2) = n2 /\ n2 \in Nat /\ type \in Line
    BY <1>2, <1>4, <1>7
  <2> QED
    BY <2>1, <2>2
<1> HIDE DEF s3, n3
<1>9. /\ s4 \in Seq(Line) /\ Len(s4) = n4
      /\ \A i \in 1..n3 : s4[i] = s3[i]
      /\ \A k \in 1..a : s4[n3 + k] = after[k]
  <2> HIDE DEF s4
  <2>1. s4 = s3 \o after /\ a = Len(after)
    BY DEF s4, a
  <2>2. s3 \in Seq(Line) /\ n3 = Len(s3) /\ n3 \in Nat
    BY <1>4, <1>8
  <2>3. after \in Seq(Line) /\ a \in Nat
    BY <1>2
  <2> QED
    BY <2>1, <2>2, <2>3
<1> HIDE DEF s4, n4
<1>10. /\ s5 \in Seq(Line) /\ Len(s5) = n5
       /\ \A i \in 1..n4 : s5[i] = s4[i]
       /\ s5[n5] = "blank"
  <2> HIDE DEF s5
  <2>1. s5 = s4 \o <<"blank">>
    BY DEF s5
  <2> QED
    BY <1>1, <1>4, <1>9, <2>1
<1> HIDE DEF s5, n5
<1>11. /\ s6 \in Seq(Line) /\ Len(s6) = n5 + c
       /\ \A i \in 1..n5 : s6[i] = s5[i]
       /\ \A k \in 1..c : s6[n5 + k] = body[k]
  <2> HIDE DEF s6
  <2>1. s6 = s5 \o body /\ c = Len(body)
    BY DEF s6, c
  <2>2. s5 \in Seq(Line) /\ n5 = Len(s5) /\ n5 \in Nat
    BY <1>4, <1>10
  <2>3. body \in Seq(Line) /\ c \in Nat
    BY <1>2
  <2> QED
    BY <2>1, <2>2, <2>3
<1> HIDE DEF s6
<1>12. /\ n1 = n + 1 /\ n2 = n1 + b /\ n3 = n2 + 1 /\ n4 = n3 + a /\ n5 = n4 + 1
  BY DEF n1, n2, n3, n4, n5
<1>13. /\ \A i \in 1..n4 : s6[i] = s4[i]
       /\ \A i \in 1..n3 : s6[i] = s3[i]
       /\ \A i \in 1..n2 : s6[i] = s2[i]
       /\ \A i \in 1..n1 : s6[i] = s1[i]
       /\ \A i \in 1..n : s6[i] = str[i]
  <2>1. \A i \in 1..n4 : s6[i] = s4[i]
    BY <1>2, <1>4, <1>10, <1>11, <1>12
  <2>2. \A i \in 1..n3 : s6[i] = s3[i]
    BY <1>2, <1>4, <1>9, <1>12, <2>1
  <2>3. \A i \in 1..n2 : s6[i] = s2[i]
    BY <1>2, <1>4, <1>8, <1>12, <2>2
  <2>4. \A i \in 1..n1 : s6[i] = s1[i]
    BY <1>2, <1>4, <1>7, <1>12, <2>3
  <2>5. \A i \in 1..n : s6[i] = str[i]
    BY <1>2, <1>4, <1>6, <1>12, <2>4
  <2> QED
    BY <2>1, <2>2, <2>3, <2>4, <2>5
<1>14. s6[n + 1] = "delimiter" /\ s6[n + 1 + b + 1] = type /\ s6[n + 1 + b + a + 2] = "blank"
  BY <1>2, <1>4, <1>6, <1>8, <1>10, <1>11, <1>12, <1>13
<1>15. \A k \in 1..b : s6[n + 1 + k] = "id"
  <2> SUFFICES ASSUME NEW k \in 1..b PROVE s6[n + 1 + k] = "id"
    OBVIOUS
  <2>1. n + 1 + k = n1 + k /\ n1 + k \in 1..n2
    BY <1>2, <1>4, <1>12
  <2> DEFINE m == n1 + k
  <2>2. \A i \in 1..n2 : s6[i] = s2[i]
    BY <1>13
  <2>3. s2[m] = "id"
    BY <1>2, <1>7
  <2> HIDE DEF m
  <2>4. s6[m] = "id"
    BY ONLY <2>1, <2>2, <2>3 DEF m
  <2> QED
    BY <2>1, <2>4 DEF m
<1>16. \A k \in 1..a : s6[n + 1 + b + 1 + k] = "id"
  <2> SUFFICES ASSUME NEW k \in 1..a PROVE s6[n + 1 + b + 1 + k] = "id"
    OBVIOUS
  <2>1. n + 1 + b + 1 + k = n3 + k /\ n3 + k \in 1..n4
    BY <1>2, <1>4, <1>12
  <2> DEFINE m == n3 + k
  <2>2. \A i \in 1..n4 : s6[i] = s4[i]
    BY <1>13
  <2>3. s4[m] = "id"
    BY <1>2, <1>9
  <2> HIDE DEF m
  <2>4. s6[m] = "id"
    BY ONLY <2>1, <2>2, <2>3 DEF m
  <2> QED
    BY <2>1, <2>4 DEF m
<1>17. \A k \in 1..c : s6[n + 1 + b + a + 2 + k] = body[k]
  <2> SUFFICES ASSUME NEW k \in 1..c PROVE s6[n + 1 + b + a + 2 + k] = body[k]
    OBVIOUS
  <2>1. n + 1 + b + a + 2 + k = n5 + k
    BY <1>2, <1>4, <1>12
  <2> QED
    BY <1>11, <2>1
<1>18. Stands(s6, n + 1, part)
  BY <1>14, <1>15, <1>16, <1>17 DEF Stands, b, a, c, before, type, after, body
<1>19. Len(s6) = n + Size(part)
  BY <1>2, <1>3, <1>4, <1>11, <1>12
<1> QED
  BY <1>2, <1>5, <1>11, <1>13, <1>18, <1>19 DEF n

(* It stands there still when more is added.                               *)
LEMMA StandsLonger ==
  ASSUME NEW Line, "id" \in Line, NEW part \in SentPart(Line), NEW str, NEW p \in Nat \ {0},
         Stands(str, p, part),
         NEW longer, \A i \in p..p + Size(part) - 1 : longer[i] = str[i]
  PROVE  Stands(longer, p, part)
<1> DEFINE b == Len(part.before)
           a == Len(part.after)
           c == Len(part.body)
<1>1. b \in Nat /\ a \in Nat /\ c \in Nat /\ Size(part) = 3 + b + a + c
  BY SentPartType DEF Size
<1>2. /\ str[p] = "delimiter"
      /\ \A k \in 1..b : str[p + k] = "id"
      /\ str[p + b + 1] = part.content_type
      /\ \A k \in 1..a : str[p + b + 1 + k] = "id"
      /\ str[p + b + a + 2] = "blank"
      /\ \A k \in 1..c : str[p + b + a + 2 + k] = part.body[k]
  BY DEF Stands
<1> HIDE DEF b, a, c
<1>3. /\ longer[p] = "delimiter"
      /\ longer[p + b + 1] = part.content_type
      /\ longer[p + b + a + 2] = "blank"
  BY <1>1, <1>2
<1>4. \A k \in 1..b : longer[p + k] = "id"
  BY <1>1, <1>2
<1>5. \A k \in 1..a : longer[p + b + 1 + k] = "id"
  <2> SUFFICES ASSUME NEW k \in 1..a PROVE longer[p + b + 1 + k] = "id"
    OBVIOUS
  <2>1. p + b + 1 + k \in p..p + Size(part) - 1
    BY <1>1
  <2> QED
    BY <1>2, <2>1
<1>6. \A k \in 1..c : longer[p + b + a + 2 + k] = part.body[k]
  BY <1>1, <1>2
<1> QED
  BY <1>3, <1>4, <1>5, <1>6 DEF Stands, b, a, c

(* The places before the parts, and the composed message: its parts stand  *)
(* one behind the other, and the ending stands behind them.                *)
Composed(str, at, parts, ending) ==
  LET n == Len(parts)
  IN  /\ at \in [0..n -> Nat] /\ at[0] = 0
      /\ Len(str) = at[n] + Len(ending)
      /\ \A i \in 0..n : at[i] <= at[n]
      /\ \A i \in 1..n : /\ at[i] = at[i - 1] + Size(parts[i])
                         /\ Stands(str, at[i - 1] + 1, parts[i])
      /\ \A k \in 1..Len(ending) : str[at[n] + k] = ending[k]

LinesBefore(parts, lines, i) ==
  IF i = 0 THEN <<>> ELSE Added(lines[i - 1], parts[i])

(* The lines of the first parts, for each number of parts.                 *)
LEMMA LinesExist ==
  ASSUME NEW parts, Len(parts) \in Nat, NEW ending
  PROVE  \E lines : /\ lines = [i \in 0..Len(parts) |-> LinesBefore(parts, lines, i)]
                    /\ Compose(parts, ending) = lines[Len(parts)] \o ending
<1> DEFINE n == Len(parts)
           To(m, f) == f = [i \in 0..m |-> LinesBefore(parts, f, i)]
           S == {m \in 0..n : \E f : To(m, f)}
<1>1. 0 \in S
  <2> DEFINE f == [i \in 0..0 |-> <<>>]
  <2>1. \A i \in 0..0 : LinesBefore(parts, f, i) = <<>>
    BY DEF LinesBefore
  <2>2. To(0, f)
    BY <2>1
  <2> QED
    BY <2>2
<1>2. ASSUME NEW m \in 0..n - 1, m \in S
      PROVE  m + 1 \in S
  <2>1. PICK f : To(m, f)
    BY <1>2
  <2> DEFINE g == [i \in 0..m + 1 |-> IF i = m + 1 THEN LinesBefore(parts, f, m + 1) ELSE f[i]]
  <2>2. \A i \in 0..m : i \in 0..m + 1 /\ i # m + 1
    OBVIOUS
  <2>3. \A i \in 0..m : g[i] = f[i] /\ f[i] = LinesBefore(parts, f, i)
    BY <2>1, <2>2
  <2>4. ASSUME NEW i \in 0..m + 1
        PROVE  LinesBefore(parts, g, i) = LinesBefore(parts, f, i)
    <3>1. CASE i = 0
      BY <3>1 DEF LinesBefore
    <3>2. CASE i # 0
      <4>1. i - 1 \in 0..m
        BY <3>2
      <4> QED
        BY <2>3, <4>1 DEF LinesBefore
    <3> QED
      BY <3>1, <3>2
  <2>5. ASSUME NEW i \in 0..m + 1
        PROVE  g[i] = LinesBefore(parts, g, i)
    <3>1. i = m + 1 \/ i \in 0..m
      OBVIOUS
    <3> QED
      BY <2>3, <2>4, <3>1
  <2>6. To(m + 1, g)
    BY <2>5
  <2>7. m + 1 \in 0..n
    OBVIOUS
  <2> QED
    BY <2>6, <2>7
<1> HIDE DEF S
<1>3. n \in S
  <2>1. n \in Nat /\ n \in 0..n
    OBVIOUS
  <2> HIDE DEF n
  <2>2. 0..n \subseteq S
    BY <1>1, <1>2, <2>1, Induction
  <2> QED
    BY <2>1, <2>2
<1> USE DEF S
<1>4. \E f : f = [i \in 0..n |-> LinesBefore(parts, f, i)]
  BY <1>3
<1> DEFINE F == CHOOSE f : f = [i \in 0..n |-> LinesBefore(parts, f, i)]
<1>5. F = [i \in 0..n |-> LinesBefore(parts, F, i)]
  BY <1>4
<1>6. Compose(parts, ending) = F[n] \o ending
  BY DEF Compose, LinesBefore, Added
<1> QED
  BY <1>5, <1>6

(* The message is composed of its parts.                                   *)
LEMMA ComposeComposes ==
  ASSUME NEW Line, {"id", "delimiter", "blank"} \subseteq Line,
         NEW parts \in Seq(SentPart(Line)), NEW ending \in Seq(Line)
  PROVE  /\ Compose(parts, ending) \in Seq(Line)
         /\ \E at : Composed(Compose(parts, ending), at, parts, ending)
<1> DEFINE n == Len(parts)
           str == Compose(parts, ending)
<1>1. n \in Nat /\ \A i \in 1..n : parts[i] \in SentPart(Line)
  BY LenProperties, ElementOfSeq
<1>2. PICK lines : /\ lines = [i \in 0..n |-> LinesBefore(parts, lines, i)]
                   /\ str = lines[n] \o ending
  BY <1>1, LinesExist
<1> HIDE DEF n, str
<1>3. lines[0] = <<>>
  BY <1>1, <1>2 DEF LinesBefore
<1>4. \A i \in 1..n : lines[i] = Added(lines[i - 1], parts[i])
  <2> SUFFICES ASSUME NEW i \in 1..n PROVE lines[i] = Added(lines[i - 1], parts[i])
    OBVIOUS
  <2>1. i \in 0..n /\ i # 0
    BY <1>1
  <2> QED
    BY <1>2, <2>1 DEF LinesBefore
<1> DEFINE at == [i \in 0..n |-> Len(lines[i])]
           Good(i) == /\ lines[i] \in Seq(Line)
                      /\ \A j \in 0..i : at[j] \in Nat /\ at[j] <= at[i]
                      /\ \A j \in 1..i : /\ at[j] = at[j - 1] + Size(parts[j])
                                         /\ Stands(lines[i], at[j - 1] + 1, parts[j])
           S == {i \in 0..n : Good(i)}
<1>5. 0 \in S
  <2>1. at[0] = 0
    BY <1>1, <1>3
  <2>2. lines[0] \in Seq(Line)
    BY <1>3
  <2> HIDE DEF at
  <2> QED
    BY <1>1, <2>1, <2>2
<1>6. ASSUME NEW i \in 0..n - 1, i \in S
      PROVE  i + 1 \in S
  <2> DEFINE part == parts[i + 1]
             old == lines[i]
             new == lines[i + 1]
  <2>1. i + 1 \in 1..n /\ i \in 0..n /\ i + 1 \in 0..n /\ part \in SentPart(Line)
    BY <1>1
  <2>2. new = Added(old, part)
    <3>1. (i + 1) - 1 = i
      OBVIOUS
    <3> QED
      BY <1>4, <2>1, <3>1
  <2>3. Good(i)
    BY <1>6
  <2>4. /\ new \in Seq(Line)
        /\ Len(old) \in Nat /\ Len(new) = Len(old) + Size(part)
        /\ \A k \in 1..Len(old) : new[k] = old[k]
        /\ Stands(new, Len(old) + 1, part)
    <3>1. old \in Seq(Line)
      BY <2>3
    <3> HIDE DEF old, part, new
    <3> QED
      BY <2>1, <2>2, <3>1, AddedStands
  <2>5. at[i] = Len(old) /\ at[i + 1] = Len(new)
    BY <2>1
  <2>6. Size(part) \in Nat
    BY <2>1, SentPartType
  <2> HIDE DEF at, part, old, new
  <2>7. at[i] \in Nat /\ at[i + 1] \in Nat /\ at[i + 1] = at[i] + Size(part) /\ at[i] <= at[i + 1]
    BY <2>4, <2>5, <2>6
  <2>8. ASSUME NEW j \in 0..i + 1
        PROVE  at[j] \in Nat /\ at[j] <= at[i + 1]
    <3>1. CASE j = i + 1
      BY <2>7, <3>1
    <3>2. CASE j \in 0..i
      BY <2>3, <2>7, <3>2
    <3> QED
      BY <3>1, <3>2
  <2>9. ASSUME NEW j \in 1..i + 1
        PROVE  /\ at[j] = at[j - 1] + Size(parts[j])
               /\ Stands(new, at[j - 1] + 1, parts[j])
    <3>1. CASE j = i + 1
      <4>1. j - 1 = i
        BY <3>1
      <4> QED
        BY <2>4, <2>5, <2>7, <3>1, <4>1 DEF part
    <3>2. CASE j \in 1..i
      <4>1. /\ at[j] = at[j - 1] + Size(parts[j])
            /\ Stands(old, at[j - 1] + 1, parts[j])
        BY <2>3, <3>2 DEF old
      <4>2. j \in 1..n /\ j \in 0..i /\ j - 1 \in 0..i
        BY <1>1, <3>2
      <4>3. at[j] \in Nat /\ at[j - 1] \in Nat /\ at[j] <= at[i]
        BY <2>3, <4>2
      <4>4. parts[j] \in SentPart(Line)
        BY <1>1, <4>2
      <4> DEFINE p == at[j - 1] + 1
      <4>5. Size(parts[j]) \in Nat
        BY <4>4, SentPartType
      <4>6. p \in Nat \ {0} /\ p + Size(parts[j]) - 1 = at[j]
        BY <4>1, <4>3, <4>5
      <4>7. Stands(old, p, parts[j])
        BY <4>1
      <4> HIDE DEF p
      <4>8. \A k \in p..p + Size(parts[j]) - 1 : new[k] = old[k]
        <5>1. \A k \in p..at[j] : k \in 1..at[i]
          BY <2>7, <4>3, <4>6
        <5> QED
          BY <2>4, <2>5, <4>6, <5>1
      <4>9. Stands(new, p, parts[j])
        BY <4>4, <4>6, <4>7, <4>8, StandsLonger
      <4> QED
        BY <4>1, <4>9 DEF p
    <3> QED
      BY <3>1, <3>2
  <2>10. Good(i + 1)
    BY <2>4, <2>8, <2>9 DEF new
  <2> QED
    BY <2>1, <2>10
<1> HIDE DEF S
<1>7. n \in S
  <2>1. 0..n \subseteq S
    BY <1>1, <1>5, <1>6, Induction
  <2> QED
    BY <1>1, <2>1
<1> USE DEF S
<1>8. Good(n)
  BY <1>7
<1>9. at \in [0..n -> Nat] /\ at[0] = 0
  <2>1. \A i \in 0..n : at[i] \in Nat
    BY <1>8
  <2> QED
    BY <1>1, <1>3, <2>1
<1>10. at[n] = Len(lines[n])
  BY <1>1
<1>11. /\ str \in Seq(Line)
       /\ Len(str) = Len(lines[n]) + Len(ending)
       /\ \A k \in 1..Len(lines[n]) : str[k] = lines[n][k]
       /\ \A k \in 1..Len(ending) : str[Len(lines[n]) + k] = ending[k]
  <2> DEFINE last == lines[n]
  <2>1. last \in Seq(Line) /\ str = last \o ending
    BY <1>2, <1>8
  <2> HIDE DEF last
  <2>2. Len(last) \in Nat /\ Len(ending) \in Nat
    BY <2>1, LenProperties
  <2>3. /\ str \in Seq(Line)
        /\ Len(str) = Len(last) + Len(ending)
        /\ \A k \in 1..Len(last) : str[k] = last[k]
        /\ \A k \in 1..Len(ending) : str[Len(last) + k] = ending[k]
    BY <2>1, <2>2
  <2> QED
    BY <2>3 DEF last
<1> HIDE DEF at
<1>12. ASSUME NEW i \in 1..n
       PROVE  Stands(str, at[i - 1] + 1, parts[i])
  <2> DEFINE p == at[i - 1] + 1
  <2>1. i \in 0..n /\ i - 1 \in 0..n
    BY <1>1
  <2>2. /\ at[i] \in Nat /\ at[i - 1] \in Nat /\ at[i] <= at[n] /\ at[n] \in Nat
        /\ at[i] = at[i - 1] + Size(parts[i])
        /\ Stands(lines[n], p, parts[i])
        /\ parts[i] \in SentPart(Line)
    BY <1>1, <1>8, <2>1
  <2>3. Size(parts[i]) \in Nat
    BY <2>2, SentPartType
  <2>4. p \in Nat \ {0} /\ p + Size(parts[i]) - 1 = at[i]
    <3> DEFINE l == at[i - 1]
               m == Size(parts[i])
    <3>1. l \in Nat /\ m \in Nat /\ at[i] = l + m
      BY <2>2, <2>3
    <3> HIDE DEF l, m
    <3>2. l + 1 \in Nat \ {0} /\ (l + 1) + m - 1 = at[i]
      BY <3>1
    <3> QED
      BY <3>2 DEF l, m
  <2> HIDE DEF p
  <2>5. \A k \in p..p + Size(parts[i]) - 1 : str[k] = lines[n][k]
    BY <1>10, <1>11, <2>2, <2>4
  <2>6. Stands(str, p, parts[i])
    BY <2>2, <2>4, <2>5, StandsLonger
  <2> QED
    BY <2>6 DEF p
<1>13. Composed(str, at, parts, ending)
  BY <1>8, <1>9, <1>10, <1>11, <1>12 DEF Composed, n
<1> QED
  BY <1>11, <1>13 DEF str

-----------------------------------------------------------------------------
(* Parsing what was composed                                               *)

(* A multipart message: parts of the expected types, whose content is not  *)
(* empty and has no boundary in it, and a closing boundary.                *)
Message(Line, str, at, parts, ending) ==
  /\ {"id", "delimiter", "blank", "close", "cut"} \subseteq Line
  /\ parts \in Seq(SentPart(Line)) /\ parts # <<>>
  /\ \A i \in 1..Len(parts) :
       /\ parts[i].content_type \in ContentTypes
       /\ parts[i].body # <<>>
       /\ \A k \in 1..Len(parts[i].body) :
            parts[i].body[k] \notin {"delimiter", "close", "cut"}
  /\ ending \in {<<"close">>, <<"cut">>}
  /\ str \in Seq(Line)
  /\ Composed(str, at, parts, ending)

(* The message ends with its ending, behind the last part.                 *)
LEMMA MessageEnds ==
  ASSUME NEW Line, NEW str, NEW at, NEW parts, NEW ending,
         Message(Line, str, at, parts, ending)
  PROVE  /\ Len(parts) \in Nat \ {0} /\ Len(str) \in Nat
         /\ at[0] = 0 /\ \A i \in 0..Len(parts) : at[i] \in Nat /\ at[i] <= at[Len(parts)]
         /\ Len(str) = at[Len(parts)] + 1
         /\ ending = <<str[Len(str)]>> /\ str[Len(str)] \in {"close", "cut"}
<1> DEFINE n == Len(parts)
<1>1. n \in Nat \ {0}
  BY EmptySeq, LenProperties DEF Message
<1>2. /\ at \in [0..n -> Nat] /\ at[0] = 0
      /\ Len(str) = at[n] + Len(ending)
      /\ \A i \in 0..n : at[i] <= at[n]
      /\ \A k \in 1..Len(ending) : str[at[n] + k] = ending[k]
  BY DEF Message, Composed
<1> HIDE DEF n
<1>3. /\ Len(ending) = 1 /\ ending = <<ending[1]>> /\ ending[1] \in {"close", "cut"}
  BY DEF Message
<1>4. Len(str) = at[n] + 1 /\ str[at[n] + 1] = ending[1] /\ at[n] \in Nat
  BY <1>1, <1>2, <1>3
<1> QED
  BY <1>1, <1>2, <1>3, <1>4 DEF n

(* The lines of one part.                                                  *)
LEMMA PartLines ==
  ASSUME NEW Line, NEW str, NEW at, NEW parts, NEW ending,
         Message(Line, str, at, parts, ending), NEW i \in 1..Len(parts)
  PROVE  LET p == at[i - 1] + 1
             b == Len(parts[i].before)
             a == Len(parts[i].after)
             c == Len(parts[i].body)
         IN  /\ p \in Nat \ {0} /\ b \in Nat /\ a \in Nat /\ c \in Nat \ {0}
             /\ at[i] \in Nat /\ at[i] = p + b + a + 2 + c /\ at[i] < Len(str)
             /\ str[p] = "delimiter"
             /\ \A k \in p + 1..p + b : str[k] = "id"
             /\ str[p + b + 1] = parts[i].content_type
             /\ parts[i].content_type \in ContentTypes
             /\ \A k \in p + b + 2..p + b + a + 1 : str[k] = "id"
             /\ str[p + b + a + 2] = "blank"
             /\ \A k \in 1..c : str[p + b + a + 2 + k] = parts[i].body[k]
             /\ \A k \in p + b + a + 3..at[i] : str[k] \notin {"delimiter", "close", "cut"}
             /\ parts[i].body \in Seq(Line)
<1> DEFINE part == parts[i]
           p == at[i - 1] + 1
           b == Len(part.before)
           a == Len(part.after)
           c == Len(part.body)
<1>1. part \in SentPart(Line) /\ "id" \in Line
  <2>1. parts \in Seq(SentPart(Line)) /\ "id" \in Line
    BY DEF Message
  <2> QED
    BY <2>1, ElementOfSeq
<1>2. /\ part.content_type \in ContentTypes /\ part.body # <<>>
      /\ \A k \in 1..c : part.body[k] \notin {"delimiter", "close", "cut"}
  BY DEF Message
<1>3. b \in Nat /\ a \in Nat /\ c \in Nat /\ part.body \in Seq(Line)
  BY <1>1, SentPartType
<1>4. c \in Nat \ {0}
  BY <1>2, <1>3, EmptySeq
<1>5. /\ at[i] \in Nat /\ at[i - 1] \in Nat /\ at[i] < Len(str) /\ p \in Nat \ {0}
  <2>1. /\ Len(parts) \in Nat /\ Len(str) = at[Len(parts)] + 1
        /\ \A j \in 0..Len(parts) : at[j] \in Nat /\ at[j] <= at[Len(parts)]
    BY MessageEnds
  <2>2. i \in 0..Len(parts) /\ i - 1 \in 0..Len(parts) /\ Len(parts) \in 0..Len(parts)
    BY <2>1
  <2>3. /\ at[i] \in Nat /\ at[i - 1] \in Nat /\ at[Len(parts)] \in Nat
        /\ at[i] <= at[Len(parts)]
    BY <2>1, <2>2
  <2> QED
    BY <2>1, <2>3
<1>6. at[i] = at[i - 1] + Size(part) /\ Stands(str, p, part)
  BY DEF Message, Composed
<1>7. at[i] = at[i - 1] + (3 + b + a + c)
  BY <1>6 DEF Size
<1>8. /\ str[p] = "delimiter"
      /\ \A k \in 1..b : str[p + k] = "id"
      /\ str[p + b + 1] = part.content_type
      /\ \A k \in 1..a : str[p + b + 1 + k] = "id"
      /\ str[p + b + a + 2] = "blank"
      /\ \A k \in 1..c : str[p + b + a + 2 + k] = part.body[k]
  BY <1>6 DEF Stands
<1>9. at[i] = p + b + a + 2 + c
  <2> DEFINE q == at[i]
             o == at[i - 1]
  <2>1. q \in Nat /\ o \in Nat /\ q = o + (3 + b + a + c) /\ p = o + 1
    BY <1>5, <1>7
  <2> HIDE DEF p, b, a, c, part, q, o
  <2>2. q = p + b + a + 2 + c
    BY <1>3, <2>1
  <2> QED
    BY <2>2 DEF q
<1> HIDE DEF p, b, a, c, part
<1>10. \A k \in p + 1..p + b : str[k] = "id"
  <2> SUFFICES ASSUME NEW k \in p + 1..p + b PROVE str[k] = "id"
    OBVIOUS
  <2>1. k - p \in 1..b /\ p + (k - p) = k
    BY <1>3, <1>5
  <2> QED
    BY <1>8, <2>1
<1>11. \A k \in p + b + 2..p + b + a + 1 : str[k] = "id"
  <2> SUFFICES ASSUME NEW k \in p + b + 2..p + b + a + 1 PROVE str[k] = "id"
    OBVIOUS
  <2> DEFINE j == k - (p + b + 1)
  <2>1. j \in 1..a /\ p + b + 1 + j = k
    BY <1>3, <1>5
  <2> QED
    BY <1>8, <2>1
<1>12. \A k \in p + b + a + 3..at[i] : str[k] \notin {"delimiter", "close", "cut"}
  <2> SUFFICES ASSUME NEW k \in p + b + a + 3..at[i]
               PROVE  str[k] \notin {"delimiter", "close", "cut"}
    OBVIOUS
  <2> DEFINE j == k - (p + b + a + 2)
  <2>1. j \in 1..c /\ p + b + a + 2 + j = k
    BY <1>3, <1>5, <1>9
  <2>2. str[k] = part.body[j]
    BY <1>8, <2>1
  <2> HIDE DEF j
  <2> QED
    BY <1>2, <2>1, <2>2
<1> QED
  BY <1>2, <1>3, <1>4, <1>5, <1>8, <1>9, <1>10, <1>11, <1>12 DEF p, b, a, c, part

(* Each part of a message begins with a delimiter.                         *)
LEMMA PartBegins ==
  ASSUME NEW Line, NEW str, NEW at, NEW parts, NEW ending,
         Message(Line, str, at, parts, ending), NEW i \in 1..Len(parts)
  PROVE  str[at[i - 1] + 1] = "delimiter"
BY PartLines

(* The lines of the parts are no closing boundary, and only the first one  *)
(* of each part is a boundary.                                             *)
LEMMA NoneWithin ==
  ASSUME NEW Line, NEW str, NEW at, NEW parts, NEW ending,
         Message(Line, str, at, parts, ending), NEW i \in 1..Len(parts)
  PROVE  /\ \A k \in at[i - 1] + 1..at[i] : str[k] # "close"
         /\ \A k \in at[i - 1] + 2..at[i] : str[k] # "delimiter"
<1> DEFINE p == at[i - 1] + 1
           b == Len(parts[i].before)
           a == Len(parts[i].after)
           c == Len(parts[i].body)
           t == parts[i].content_type
<1>1. /\ p \in Nat \ {0} /\ b \in Nat /\ a \in Nat /\ c \in Nat \ {0}
      /\ at[i] \in Nat /\ at[i] = p + b + a + 2 + c
      /\ str[p] = "delimiter"
      /\ \A k \in p + 1..p + b : str[k] = "id"
      /\ str[p + b + 1] = t
      /\ t \in ContentTypes
      /\ \A k \in p + b + 2..p + b + a + 1 : str[k] = "id"
      /\ str[p + b + a + 2] = "blank"
      /\ \A k \in p + b + a + 3..at[i] : str[k] \notin {"delimiter", "close", "cut"}
  BY PartLines
<1>2. at[i - 1] + 2 = p + 1
  <2>1. at[i - 1] \in Nat
    <3>1. Len(parts) \in Nat /\ \A j \in 0..Len(parts) : at[j] \in Nat
      BY MessageEnds
    <3>2. i - 1 \in 0..Len(parts)
      BY <3>1
    <3> QED
      BY <3>1, <3>2
  <2> QED
    BY <2>1
<1> HIDE DEF p, b, a, c, t
<1>3. t \notin {"delimiter", "close"}
  BY <1>1 DEF ContentTypes
<1>4. \A k \in p + 1..at[i] : str[k] \notin {"delimiter", "close"}
  <2> SUFFICES ASSUME NEW k \in p + 1..at[i] PROVE str[k] \notin {"delimiter", "close"}
    OBVIOUS
  <2>1. \/ k \in p + 1..p + b \/ k = p + b + 1 \/ k \in p + b + 2..p + b + a + 1
        \/ k = p + b + a + 2 \/ k \in p + b + a + 3..at[i]
    BY <1>1
  <2>2. CASE k \in p + 1..p + b
    <3>1. str[k] = "id"
      BY <1>1, <2>2
    <3> QED
      BY <3>1
  <2>3. CASE k = p + b + 1
    BY <1>1, <1>3, <2>3
  <2>4. CASE k \in p + b + 2..p + b + a + 1
    <3>1. str[k] = "id"
      BY <1>1, <2>4
    <3> QED
      BY <3>1
  <2>5. CASE k = p + b + a + 2
    BY <1>1, <2>5
  <2>6. CASE k \in p + b + a + 3..at[i]
    BY <1>1, <2>6
  <2> QED
    BY <2>1, <2>2, <2>3, <2>4, <2>5, <2>6
<1>5. \A k \in p..at[i] : str[k] # "close"
  <2>1. \A k \in p..at[i] : k = p \/ k \in p + 1..at[i]
    BY <1>1
  <2> QED
    BY <1>1, <1>4, <2>1
<1> QED
  BY <1>2, <1>4, <1>5 DEF p

(* Where the closing boundary is found: at the end, if it is there.        *)
LastPlace(str) == IF str[Len(str)] = "close" THEN Len(str) ELSE Npos(str)

(* The boundary is found to be the first line, and the closing boundary    *)
(* nowhere but at the end.                                                 *)
LEMMA Boundaries ==
  ASSUME NEW Line, NEW str, NEW at, NEW parts, NEW ending,
         Message(Line, str, at, parts, ending)
  PROVE  /\ BoundarySize(str) = 1 /\ Parses(str)
         /\ \A pos \in 1..Len(str) :
              /\ FindBoundary(str, pos) = First(str, {k \in pos..Len(str) : str[k] = "delimiter"})
              /\ FindLastBoundary(str, pos) = LastPlace(str)
<1> DEFINE n == Len(parts)
           N == Len(str)
<1>1. /\ n \in Nat \ {0} /\ N \in Nat
      /\ at[0] = 0 /\ \A i \in 0..n : at[i] \in Nat /\ at[i] <= at[n]
      /\ N = at[n] + 1
      /\ str[N] \in {"close", "cut"}
  BY MessageEnds
<1>2. str \in Seq(Line)
  BY DEF Message
<1>3. str[1] = "delimiter" /\ str[2] \in ContentTypes \cup {"id"} /\ N > 2
  <2>1. 1 \in 1..n /\ 1 - 1 = 0 /\ at[1 - 1] + 1 = 1
    BY <1>1
  <2> DEFINE b == Len(parts[1].before)
             a == Len(parts[1].after)
             c == Len(parts[1].body)
             t == parts[1].content_type
             p == at[1 - 1] + 1
  <2>2. /\ b \in Nat /\ a \in Nat /\ c \in Nat \ {0}
        /\ at[1] \in Nat /\ at[1] = p + b + a + 2 + c /\ at[1] < N
        /\ str[p] = "delimiter"
        /\ \A k \in p + 1..p + b : str[k] = "id"
        /\ str[p + b + 1] = t
        /\ t \in ContentTypes
        /\ p = 1
    BY <2>1, PartLines
  <2> HIDE DEF b, a, c, t, N, p
  <2>3. /\ b \in Nat /\ a \in Nat /\ c \in Nat \ {0}
        /\ at[1] \in Nat /\ at[1] = 1 + b + a + 2 + c /\ at[1] < N
        /\ str[1] = "delimiter"
        /\ \A k \in 2..1 + b : str[k] = "id"
        /\ str[1 + b + 1] = t
        /\ t \in ContentTypes
    BY <2>2
  <2>4. N > 2
    BY <1>1, <2>3
  <2>5. CASE b = 0
    BY <2>3, <2>4, <2>5
  <2>6. CASE b # 0
    <3>1. 2 \in 2..1 + b
      BY <2>3, <2>6
    <3> QED
      BY <2>3, <2>4, <3>1
  <2> QED
    BY <2>3, <2>5, <2>6
<1>4. BoundarySize(str) = 1
  <2> DEFINE S == {i \in 1..N : str[i] \in ContentTypes \cup {"id"}}
  <2>1. S \in SUBSET (1..N) /\ 2 \in S
    BY <1>1, <1>3
  <2>2. 1 \notin S
    BY <1>3 DEF ContentTypes
  <2>3. \A i \in S : 2 <= i
    BY <1>1, <2>1, <2>2
  <2> HIDE DEF S
  <2>4. First(str, S) = 2
    BY <1>1, <2>1, <2>3, FirstIsAt
  <2> QED
    BY <2>4 DEF BoundarySize, S
<1>5. Parses(str)
  BY <1>1, <1>3, <1>4 DEF Parses
<1>6. ASSUME NEW pos \in 1..N
      PROVE  FindBoundary(str, pos) = First(str, {k \in pos..N : str[k] = "delimiter"})
  <2>1. ASSUME NEW i \in pos..N
        PROVE  (/\ str[1] = "delimiter" /\ i + 1 - 1 <= N
                /\ SubSeq(str, i, i + 1 - 1) = SubSeq(str, 1, 1))
               <=> str[i] = "delimiter"
    <3>1. i + 1 - 1 = i /\ i <= N /\ i \in 1..N /\ 1 \in 1..N
      BY <1>1
    <3>2. \A j \in 1..N : Len(SubSeq(str, j, j)) = 1 /\ SubSeq(str, j, j)[1] = str[j]
                           /\ SubSeq(str, j, j) \in Seq(Line)
      <4> SUFFICES ASSUME NEW j \in 1..N
                   PROVE  Len(SubSeq(str, j, j)) = 1 /\ SubSeq(str, j, j)[1] = str[j]
                          /\ SubSeq(str, j, j) \in Seq(Line)
        OBVIOUS
      <4>1. \A k \in j..j : str[k] \in Line
        BY <1>2, ElementOfSeq
      <4>2. j \in Int /\ j <= j /\ j - j + 1 = 1 /\ 1 \in 1..1 /\ j + 1 - 1 = j
        OBVIOUS
      <4> HIDE DEF N
      <4>3. /\ SubSeq(str, j, j) \in Seq(Line)
            /\ Len(SubSeq(str, j, j)) = IF j <= j THEN j - j + 1 ELSE 0
            /\ \A k \in 1..j - j + 1 : SubSeq(str, j, j)[k] = str[j + k - 1]
        BY <4>1, <4>2, SubSeqProperties
      <4> QED
        BY <4>2, <4>3
    <3>3. SubSeq(str, i, i) = SubSeq(str, 1, 1) <=> str[i] = str[1]
      <4>1. CASE str[i] = str[1]
        <5>1. \A k \in 1..1 : k = 1
          OBVIOUS
        <5> QED
          BY <3>1, <3>2, <4>1, <5>1, SeqEqual
      <4>2. CASE str[i] # str[1]
        BY <3>1, <3>2, <4>2
      <4> QED
        BY <4>1, <4>2
    <3> QED
      BY <1>3, <3>1, <3>3
  <2>2. {i \in pos..N :
           /\ str[1] = "delimiter" /\ i + 1 - 1 <= N
           /\ SubSeq(str, i, i + 1 - 1) = SubSeq(str, 1, 1)}
          = {k \in pos..N : str[k] = "delimiter"}
    BY <2>1
  <2> QED
    BY <1>4, <2>2 DEF FindBoundary
<1>7. ASSUME NEW k \in 1..N - 1
      PROVE  str[k] # "close"
  <2> DEFINE T == {i \in 0..n : k <= at[i]}
  <2>1. n \in T /\ T \in SUBSET Nat
    BY <1>1
  <2>2. PICK i \in T : \A j \in T : i <= j
    <3> HIDE DEF T
    <3> QED
      BY <2>1, Least
  <2>3. i # 0
    BY <1>1, <2>2
  <2>4. i \in 1..n /\ i - 1 \in 0..n /\ i \in 0..n /\ ~(i <= i - 1)
    BY <1>1, <2>3
  <2>5. ~(k <= at[i - 1]) /\ k <= at[i]
    BY <2>2, <2>4
  <2> DEFINE l == at[i - 1]
             m == at[i]
  <2>6. k \in l + 1..m
    <3>1. l \in Nat /\ m \in Nat /\ ~(k <= l) /\ k <= m
      BY <1>1, <2>4, <2>5
    <3> HIDE DEF l, m
    <3> QED
      BY ONLY <3>1
  <2>7. \A j \in l + 1..m : str[j] # "close"
    BY <2>4, NoneWithin
  <2> HIDE DEF l, m
  <2> QED
    BY ONLY <2>6, <2>7
<1>8. ASSUME NEW pos \in 1..N
      PROVE  FindLastBoundary(str, pos) = LastPlace(str)
  <2> DEFINE S == {i \in pos..N : BoundarySize(str) = 1 /\ str[i] = "close"}
  <2>1. \A i \in S : i = N
    <3> SUFFICES ASSUME NEW i \in S PROVE i = N
      OBVIOUS
    <3>1. i \in pos..N /\ str[i] = "close"
      OBVIOUS
    <3> HIDE DEF S
    <3>2. N \in Nat /\ i \in Nat /\ 1 <= i /\ i <= N
      <4>1. N \in Nat /\ pos \in 1..N
        BY <1>1
      <4> HIDE DEF N
      <4> QED
        BY ONLY <3>1, <4>1
    <3>3. i = N \/ i \in 1..N - 1
      <4> HIDE DEF N
      <4> QED
        BY ONLY <3>2
    <3>4. \A k \in 1..N - 1 : str[k] # "close"
      BY <1>7
    <3> HIDE DEF N
    <3> QED
      BY ONLY <3>1, <3>3, <3>4
  <2>2. N \in pos..N
    <3>1. N \in Nat
      BY ONLY <1>1, Zenon
    <3> HIDE DEF N
    <3> QED
      BY <3>1
  <2>3. CASE str[N] = "close"
    <3>1. N \in S /\ S \in SUBSET (1..N) /\ \A i \in S : N <= i
      BY <1>1, <1>4, <2>1, <2>2, <2>3
    <3> HIDE DEF S
    <3>2. First(str, S) = N
      BY <1>1, <3>1, FirstIsAt
    <3> QED
      BY <2>3, <3>2 DEF S, FindLastBoundary, LastPlace
  <2>4. CASE str[N] # "close"
    <3>1. S = {}
      BY <2>1, <2>4
    <3> HIDE DEF S
    <3>2. First(str, S) = Npos(str)
      BY <1>1, <3>1, FirstOfNone
    <3> QED
      BY <2>4, <3>2 DEF S, FindLastBoundary, LastPlace
  <2> QED
    BY <2>3, <2>4
<1> QED
  BY <1>4, <1>5, <1>6, <1>8

(* Where the part after the i-th is looked for.                            *)
NextPlace(str, at, parts, i) == IF i < Len(parts) THEN at[i] + 1 ELSE LastPlace(str)

(* What is received as a part: without a CRLF the closing boundary is      *)
(* content of the last.                                                    *)
Received(parts, ending, i) ==
  [content_type |-> parts[i].content_type,
   body |-> parts[i].body
              \o (IF i = Len(parts) /\ ending = <<"cut">> THEN ending ELSE <<>>)]

(* From its boundary on a part is parsed as it was sent, up to the next.   *)
LEMMA PartParsed ==
  ASSUME NEW Line, NEW str, NEW at, NEW parts, NEW ending,
         Message(Line, str, at, parts, ending), NEW i \in 1..Len(parts)
  PROVE  LET pos == at[i - 1] + 1
         IN  /\ pos \in 1..Npos(str) /\ ~Done(str, pos)
             /\ BoundaryFrom(str, pos) = NextPlace(str, at, parts, i)
             /\ PartFrom(str, pos) = Received(parts, ending, i)
<1> DEFINE n == Len(parts)
           N == Len(str)
           p == at[i - 1] + 1
           b == Len(parts[i].before)
           a == Len(parts[i].after)
           c == Len(parts[i].body)
           content_type == parts[i].content_type
           body == parts[i].body
           q == at[i] + 1
<1>1. /\ p \in Nat \ {0} /\ b \in Nat /\ a \in Nat /\ c \in Nat \ {0}
      /\ at[i] \in Nat /\ at[i] = p + b + a + 2 + c /\ at[i] < N
      /\ str[p] = "delimiter"
      /\ \A k \in p + 1..p + b : str[k] = "id"
      /\ str[p + b + 1] = content_type
      /\ content_type \in ContentTypes
      /\ \A k \in p + b + 2..p + b + a + 1 : str[k] = "id"
      /\ str[p + b + a + 2] = "blank"
      /\ \A k \in 1..c : str[p + b + a + 2 + k] = body[k]
      /\ body \in Seq(Line)
  BY PartLines
<1>2. /\ n \in Nat \ {0} /\ N \in Nat /\ N = at[n] + 1
      /\ \A j \in 0..n : at[j] \in Nat /\ at[j] <= at[n]
      /\ ending = <<str[N]>> /\ str[N] \in {"close", "cut"}
  BY MessageEnds
<1>3. /\ \A pos \in 1..N :
           /\ FindBoundary(str, pos) = First(str, {k \in pos..N : str[k] = "delimiter"})
           /\ FindLastBoundary(str, pos) = LastPlace(str)
  BY Boundaries
<1>4. \A k \in at[i - 1] + 2..at[i] : str[k] # "delimiter"
  BY NoneWithin
<1>5. at[i - 1] + 2 = p + 1
  <2>1. i - 1 \in 0..n
    BY <1>2
  <2>2. at[i - 1] \in Nat
    BY <1>2, <2>1
  <2> QED
    BY <2>2
<1>6. Npos(str) = N + 1
  BY DEF Npos
<1>7. q \in Nat /\ q = p + b + a + 3 + c /\ q <= N /\ str \in Seq(Line)
  <2>1. str \in Seq(Line)
    BY DEF Message
  <2> DEFINE r == at[i]
  <2>2. r \in Nat /\ r = p + b + a + 2 + c /\ r < N /\ q = r + 1
    BY <1>1
  <2> HIDE DEF p, b, a, c, N, q, r
  <2> QED
    BY <1>1, <1>2, <2>1, <2>2
<1>8. \A k \in p + 1..q - 1 : str[k] # "delimiter"
  <2>1. q - 1 = at[i]
    BY <1>1
  <2> QED
    BY <1>4, <1>5, <2>1
<1>9. i < n => str[q] = "delimiter"
  <2> SUFFICES ASSUME i < n PROVE str[q] = "delimiter"
    OBVIOUS
  <2> DEFINE j == i + 1
  <2>1. j \in 1..n /\ j - 1 = i
    BY <1>2
  <2> HIDE DEF j
  <2>2. str[at[j - 1] + 1] = "delimiter"
    BY <2>1, PartBegins
  <2> QED
    BY <2>1, <2>2
<1>10. i >= n => i = n /\ q = N
  BY <1>2
<1> HIDE DEF n, N, p, b, a, c, content_type, body, q
<1>11. TypeFrom(str, p) = p + b + 1
  <2> DEFINE S == {k \in p..N : str[k] \in ContentTypes}
  <2>1. p + b + 1 \in S /\ S \in SUBSET (1..N)
    <3>1. p + b + 1 \in p..N
      BY <1>1, <1>2, <1>7
    <3>2. p \in Nat \ {0} /\ N \in Nat
      BY <1>1, <1>2
    <3>3. p..N \in SUBSET (1..N)
      BY ONLY <3>2
    <3> QED
      BY <1>1, <3>1, <3>3
  <2>2. \A k \in p..p + b : str[k] \notin ContentTypes
    <3> SUFFICES ASSUME NEW k \in p..p + b PROVE str[k] \notin ContentTypes
      OBVIOUS
    <3>1. k = p \/ k \in p + 1..p + b
      BY <1>1
    <3>2. str[k] \in {"delimiter", "id"}
      BY <1>1, <3>1
    <3> QED
      BY <3>2 DEF ContentTypes
  <2>3. \A k \in S : p + b + 1 <= k
    BY <1>1, <1>2, <2>2
  <2> HIDE DEF S
  <2>4. First(str, S) = p + b + 1
    BY <1>2, <2>1, <2>3, FirstIsAt DEF N
  <2> QED
    BY <2>4 DEF TypeFrom, FindType, S, N
<1>12. BlankFrom(str, p) = p + b + a + 1
  <2> DEFINE t == p + b + 1
             S == {k \in t..N - 1 : str[k + 1] = "blank"}
  <2>1. t \in Nat /\ t # Npos(str)
    BY <1>1, <1>2, <1>6, <1>7
  <2>2. p + b + a + 1 \in S /\ S \in SUBSET (1..N)
    <3>1. p + b + a + 1 \in t..N - 1 /\ (p + b + a + 1) + 1 = p + b + a + 2
      BY <1>1, <1>2, <1>7
    <3>2. t..N - 1 \in SUBSET (1..N)
      <4>1. t \in Nat /\ 1 <= t /\ N \in Nat
        BY <1>1, <1>2
      <4> HIDE DEF t
      <4> QED
        BY ONLY <4>1
    <3> QED
      BY <1>1, <3>1, <3>2
  <2>3. \A k \in S : p + b + a + 1 <= k
    <3> SUFFICES ASSUME NEW k \in t..N - 1, k < p + b + a + 1 PROVE str[k + 1] # "blank"
      BY <1>1, <1>2
    <3>1. k + 1 \in p + b + 2..p + b + a + 1
      BY <1>1, <1>2
    <3>2. str[k + 1] = "id"
      BY <1>1, <3>1
    <3> QED
      BY <3>2
  <2> HIDE DEF S
  <2>4. First(str, S) = p + b + a + 1
    BY <1>2, <2>2, <2>3, FirstIsAt DEF N
  <2> QED
    BY <1>11, <2>1, <2>4 DEF BlankFrom, FindBlank, S, N
<1> DEFINE from == p + b + a + 2
<1>13. from \in 1..N /\ from = BlankFrom(str, p) + 1
  BY <1>1, <1>2, <1>7, <1>12
<1>14. BoundaryFrom(str, p) = NextPlace(str, at, parts, i)
  <2> DEFINE S == {k \in from..N : str[k] = "delimiter"}
  <2>1. FindBoundary(str, from) = First(str, S) /\ FindLastBoundary(str, from) = LastPlace(str)
    BY <1>3, <1>13
  <2>2. S \in SUBSET (1..N) /\ \A k \in S : q <= k
    <3>1. from \in Nat \ {0} /\ N \in Nat
      BY <1>2, <1>13
    <3>2. S \in SUBSET (1..N)
      <4> HIDE DEF from
      <4> QED
        BY <3>1
    <3>3. \A k \in S : q <= k
      BY <1>1, <1>2, <1>7, <1>8
    <3> QED
      BY <3>2, <3>3
  <2>3. CASE i < n
    <3>1. q \in S /\ q # Npos(str)
      BY <1>1, <1>2, <1>6, <1>7, <1>9, <2>3
    <3> HIDE DEF S
    <3>2. First(str, S) = q
      BY <1>2, <2>2, <3>1, FirstIsAt DEF N
    <3> HIDE DEF from
    <3> QED
      BY <1>13, <2>1, <2>3, <3>1, <3>2 DEF BoundaryFrom, NextBoundary, NextPlace, n, q
  <2>4. CASE ~(i < n)
    <3>1. q = N
      BY <1>2, <1>10, <2>4 DEF n
    <3>2. S = {}
      <4>1. str[N] # "delimiter"
        BY <1>2
      <4>2. \A k \in S : k = N
        BY <1>2, <2>2, <3>1
      <4> QED
        BY <4>1, <4>2
    <3> HIDE DEF S
    <3>3. First(str, S) = Npos(str)
      BY <1>2, <3>2, FirstOfNone DEF N
    <3> HIDE DEF from
    <3> QED
      BY <1>13, <2>1, <2>4, <3>3 DEF BoundaryFrom, NextBoundary, NextPlace, n
  <2> QED
    BY <2>3, <2>4
<1>15. /\ p \in 1..Npos(str) /\ ~Done(str, p)
  <2>1. FindLastBoundary(str, 1) \in {N, N + 1}
    <3>1. 1 \in 1..N
      BY <1>2, <1>13
    <3> QED
      BY <1>3, <1>6, <3>1 DEF LastPlace, N
  <2>2. p < N
    BY <1>1, <1>2, <1>7
  <2>3. TypeFrom(str, p) # Npos(str)
    BY <1>1, <1>2, <1>6, <1>7, <1>11
  <2>4. p \in Nat \ {0} /\ N \in Nat
    BY <1>1, <1>2
  <2>5. p \in 1..N + 1 /\ ~(p >= N) /\ ~(p >= N + 1)
    BY ONLY <2>2, <2>4
  <2> QED
    BY <1>6, <2>1, <2>3, <2>5 DEF Done
<1>16. PartFrom(str, p) = Received(parts, ending, i)
  <2> DEFINE boundary == NextPlace(str, at, parts, i)
             blank == p + b + a + 1
             first == p + b + a + 3
  <2>1. /\ boundary \in {q, q + 1} /\ (boundary = q + 1 <=> i = n /\ str[N] = "cut")
        /\ boundary = q + 1 => q = N
    <3>1. CASE i < n
      BY <1>2, <1>7, <3>1 DEF NextPlace, n, q
    <3>2. CASE ~(i < n)
      <4>1. i = n /\ q = N
        BY <1>2, <1>10, <3>2 DEF n
      <4> QED
        BY <1>2, <1>6, <1>7, <3>2, <4>1 DEF NextPlace, LastPlace, n, N
    <3> QED
      BY <3>1, <3>2
  <2>2. blank # Npos(str) /\ blank + 2 = first /\ first \in Nat \ {0}
        /\ first + c = q /\ first # boundary
    <3>1. /\ p \in Nat \ {0} /\ b \in Nat /\ a \in Nat /\ c \in Nat \ {0} /\ N \in Nat
          /\ q = p + b + a + 3 + c /\ q <= N /\ Npos(str) = N + 1
      BY <1>1, <1>2, <1>6, <1>7
    <3> HIDE DEF boundary
    <3> QED
      BY <2>1, <3>1
  <2>3. PartBody(str, blank, boundary) = SubSeq(str, first, boundary - 1)
    <3> HIDE DEF blank, first, boundary
    <3> QED
      BY <2>2 DEF PartBody
  <2>4. \A k \in 1..c : str[first + k - 1] = body[k]
    <3> SUFFICES ASSUME NEW k \in 1..c PROVE str[first + k - 1] = body[k]
      OBVIOUS
    <3>1. first + k - 1 = p + b + a + 2 + k
      BY <1>1
    <3> QED
      BY <1>1, <3>1
  <2> HIDE DEF first
  <2>5. SubSeq(str, first, boundary - 1)
          = body \o (IF i = n /\ ending = <<"cut">> THEN ending ELSE <<>>)
    <3>1. ending = <<"cut">> <=> str[N] = "cut"
      BY <1>2
    <3>2. c = Len(body) /\ body \in Seq(Line)
      BY <1>1 DEF c, body
    <3>3. CASE boundary = q
      <4>1. ~(i = n /\ ending = <<"cut">>)
        <5>1. q + 1 # q
          BY <1>7
        <5> QED
          BY ONLY <2>1, <3>1, <3>3, <5>1
      <4>2. body \o <<>> = body
        BY <3>2, ConcatEmptySeq
      <4>3. SubSeq(str, first, q - 1) = body
        <5>1. \A k \in first..q - 1 : str[k] \in Line
          <6>1. \A k \in first..q - 1 : k \in 1..N
            BY <1>2, <1>7, <2>2
          <6> QED
            BY <1>7, <6>1, ElementOfSeq DEF N
        <5>2. first \in Int /\ q - 1 \in Int /\ first <= q - 1 /\ q - 1 - first + 1 = c
          BY <1>1, <1>7, <2>2
        <5> DEFINE s == SubSeq(str, first, q - 1)
        <5>3. s \in Seq(Line) /\ Len(s) = c /\ \A k \in 1..c : s[k] = str[first + k - 1]
          <6>1. /\ s \in Seq(Line)
                /\ Len(s) = IF first <= q - 1 THEN q - 1 - first + 1 ELSE 0
                /\ \A k \in 1..q - 1 - first + 1 : s[k] = str[first + k - 1]
            BY <5>1, <5>2, SubSeqProperties
          <6> HIDE DEF s
          <6> QED
            BY <5>2, <6>1
        <5> HIDE DEF s
        <5>4. s = body
          BY <2>4, <3>2, <5>3, SeqEqual
        <5> QED
          BY <5>4 DEF s
      <4> QED
        BY <3>3, <4>1, <4>2, <4>3
    <3>4. CASE boundary = q + 1
      <4>1. i = n /\ ending = <<"cut">> /\ q = N /\ str[q] = "cut"
        BY <2>1, <3>1, <3>4
      <4>2. boundary - 1 = q
        BY <1>7, <3>4
      <4>3. SubSeq(str, first, q) = body \o ending
        <5>1. \A k \in first..q : str[k] \in Line
          <6>1. \A k \in first..q : k \in 1..N
            BY <1>2, <1>7, <2>2
          <6> QED
            BY <1>7, <6>1, ElementOfSeq DEF N
        <5>2. first \in Int /\ q \in Int /\ first <= q /\ q - first + 1 = c + 1
          BY <1>1, <1>7, <2>2
        <5> DEFINE s == SubSeq(str, first, q)
                   r == body \o ending
        <5>3. s \in Seq(Line) /\ Len(s) = c + 1 /\ \A k \in 1..c + 1 : s[k] = str[first + k - 1]
          <6>1. /\ s \in Seq(Line)
                /\ Len(s) = IF first <= q THEN q - first + 1 ELSE 0
                /\ \A k \in 1..q - first + 1 : s[k] = str[first + k - 1]
            BY <5>1, <5>2, SubSeqProperties
          <6> HIDE DEF s
          <6> QED
            BY <5>2, <6>1
        <5>4. /\ r \in Seq(Line) /\ Len(r) = c + 1
              /\ \A k \in 1..c : r[k] = body[k]
              /\ r[c + 1] = "cut"
          <6>1. "cut" \in Line
            BY DEF Message
          <6>2. r = body \o <<"cut">>
            BY <4>1
          <6> HIDE DEF r
          <6> QED
            BY <1>1, <3>2, <6>1, <6>2, ConcatOne
        <5> HIDE DEF s, r
        <5>5. ASSUME NEW k \in 1..c + 1
              PROVE  s[k] = r[k]
          <6>1. CASE k \in 1..c
            BY <2>4, <5>3, <5>4, <6>1
          <6>2. CASE k = c + 1
            <7>1. first + k - 1 = q
              BY <1>1, <2>2, <6>2
            <7> QED
              BY <4>1, <5>3, <5>4, <6>2, <7>1
          <6> QED
            BY <1>1, <6>1, <6>2
        <5>6. s = r
          BY <5>3, <5>4, <5>5, SeqEqual
        <5> QED
          BY <5>6 DEF s, r
      <4> QED
        BY <4>1, <4>2, <4>3
    <3> QED
      BY <2>1, <3>3, <3>4
  <2> HIDE DEF boundary, blank
  <2>6. /\ str[TypeFrom(str, p)] = content_type
        /\ BlankFrom(str, p) = blank /\ BoundaryFrom(str, p) = boundary
    BY <1>1, <1>11, <1>12, <1>14 DEF blank, boundary
  <2> QED
    BY <2>3, <2>5, <2>6 DEF PartFrom, Received, content_type, body, n
<1> QED
  BY <1>14, <1>15, <1>16 DEF p

(* A multipart message is taken apart as it was put together: for any      *)
(* number of parts with any headers around their content types, any        *)
(* content, blank and header lines included, that has no boundary in it,   *)
(* and with the last CRLF or without, mime_parser::parse yields the parts  *)
(* that were sent, in their order; only that without the last CRLF the     *)
(* closing delimiter is at the end of the last one.                        *)
THEOREM ParsedAsSent ==
  ASSUME NEW Line, {"id", "delimiter", "blank", "close", "cut"} \subseteq Line,
         NEW parts \in Seq(SentPart(Line)), parts # <<>>,
         \A i \in 1..Len(parts) :
           /\ parts[i].content_type \in ContentTypes
           /\ parts[i].body # <<>>
           /\ \A k \in 1..Len(parts[i].body) :
                parts[i].body[k] \notin {"delimiter", "close", "cut"},
         NEW ending \in {<<"close">>, <<"cut">>}
  PROVE  /\ Parses(Compose(parts, ending))
         /\ MimeParts(Compose(parts, ending))
              = [i \in 1..Len(parts) |-> Received(parts, ending, i)]
<1> DEFINE n == Len(parts)
           str == Compose(parts, ending)
           N == Len(str)
<1>1. ending \in Seq(Line)
  <2>1. \A x \in Line : <<x>> \in Seq(Line)
    OBVIOUS
  <2>2. <<"close">> \in Seq(Line) /\ <<"cut">> \in Seq(Line)
    BY <2>1
  <2> QED
    BY <2>2
<1>2. str \in Seq(Line) /\ \E at : Composed(str, at, parts, ending)
  BY <1>1, ComposeComposes
<1>3. PICK at : Message(Line, str, at, parts, ending)
  <2> HIDE DEF str
  <2> QED
    BY <1>2 DEF Message
<1> HIDE DEF str
<1>4. /\ n \in Nat \ {0} /\ N \in Nat
      /\ at[0] = 0 /\ \A i \in 0..n : at[i] \in Nat /\ at[i] <= at[n]
      /\ N = at[n] + 1
  BY <1>3, MessageEnds
<1>5. PICK rest : /\ rest = [pos \in 1..Npos(str) |-> PartsFrom(str, rest, pos)]
                  /\ MimeParts(str) = rest[FindBoundary(str, 1)]
  BY <1>4, PartsExist
<1>6. /\ Parses(str)
      /\ \A pos \in 1..N :
           /\ FindBoundary(str, pos) = First(str, {k \in pos..N : str[k] = "delimiter"})
           /\ FindLastBoundary(str, pos) = LastPlace(str)
  BY <1>3, Boundaries
<1> DEFINE Place(i) == IF i < n THEN at[i] + 1 ELSE LastPlace(str)
           part(i) == Received(parts, ending, i)
<1>7. ASSUME NEW i \in 1..n
      PROVE  rest[at[i - 1] + 1] = <<part(i)>> \o rest[Place(i)]
  <2> DEFINE pos == at[i - 1] + 1
  <2>1. /\ pos \in 1..Npos(str) /\ ~Done(str, pos)
        /\ BoundaryFrom(str, pos) = Place(i)
        /\ PartFrom(str, pos) = part(i)
    BY <1>3, PartParsed DEF NextPlace
  <2>2. rest[pos] = PartsFrom(str, rest, pos)
    BY <1>5, <2>1
  <2> QED
    BY <2>1, <2>2 DEF PartsFrom
<1>8. rest[LastPlace(str)] = <<>>
  <2>1. LastPlace(str) \in 1..Npos(str) /\ 1 \in 1..N
    BY <1>4 DEF LastPlace, Npos
  <2>2. FindLastBoundary(str, 1) = LastPlace(str)
    BY <1>6, <2>1
  <2>3. Done(str, LastPlace(str))
    BY <2>1, <2>2 DEF Done
  <2> QED
    BY <1>5, <2>1, <2>3 DEF PartsFrom
<1> HIDE DEF n, part
<1> DEFINE Behind(k) == [j \in 1..k |-> part(n - k + j)]
           S == {k \in 0..n : rest[Place(n - k)] = Behind(k)}
<1>9. 0 \in S
  <2>1. n - 0 = n /\ 0 \in 0..n /\ ~(n < n)
    BY <1>4
  <2>2. Behind(0) = <<>>
    OBVIOUS
  <2> QED
    BY <1>8, <2>1, <2>2
<1>10. ASSUME NEW k \in 0..n - 1, k \in S
       PROVE  k + 1 \in S
  <2> DEFINE i == n - k
  <2>1. i \in 1..n /\ i - 1 < n /\ i - 1 = n - (k + 1) /\ k + 1 \in 0..n
    BY <1>4
  <2>2. rest[Place(n - (k + 1))] = <<part(i)>> \o Behind(k)
    <3>1. Place(n - (k + 1)) = at[i - 1] + 1
      BY <2>1
    <3>2. rest[Place(i)] = Behind(k)
      BY <1>10
    <3> HIDE DEF i, Behind, Place
    <3> QED
      BY <1>7, <2>1, <3>1, <3>2
  <2>3. <<part(i)>> \o Behind(k) = Behind(k + 1)
    <3> DEFINE Q == {part(j) : j \in 1..n}
               t == Behind(k)
               u == Behind(k + 1)
    <3>1. \A j \in 1..k : n - k + j \in 1..n /\ part(n - k + j) \in Q
      BY <1>4
    <3>2. \A j \in 1..k + 1 : n - (k + 1) + j \in 1..n /\ part(n - (k + 1) + j) \in Q
      BY <1>4
    <3>3. part(i) \in Q
      BY <2>1
    <3>4. t \in Seq(Q) /\ k = Len(t) /\ \A j \in 1..k : t[j] = part(n - k + j)
      BY <3>1
    <3>5. u \in Seq(Q) /\ Len(u) = k + 1 /\ \A j \in 1..k + 1 : u[j] = part(n - (k + 1) + j)
      <4>1. k + 1 \in Nat
        BY <1>4
      <4>2. u \in Seq(Q) /\ Len(u) = k + 1
        BY <3>2, <4>1
      <4>3. \A j \in 1..k + 1 : u[j] = part(n - (k + 1) + j)
        OBVIOUS
      <4> QED
        BY <4>2, <4>3
    <3> HIDE DEF t, u, Q
    <3>6. u[1] = part(i)
      <4>1. 1 \in 1..k + 1 /\ n - (k + 1) + 1 = i
        BY <1>4
      <4> HIDE DEF i
      <4> QED
        BY <3>5, <4>1
    <3>7. ASSUME NEW j \in 1..k
          PROVE  u[j + 1] = t[j]
      <4>1. j + 1 \in 1..k + 1 /\ n - (k + 1) + (j + 1) = n - k + j
        BY <1>4
      <4> QED
        BY <3>4, <3>5, <4>1
    <3>8. k \in Nat
      BY <1>4
    <3> DEFINE x == part(i)
    <3>9. x \in Q /\ u[1] = x
      BY <3>3, <3>6
    <3> HIDE DEF i, x, Behind, Place, S, N
    <3>10. /\ t \in Seq(Q) /\ k = Len(t) /\ u \in Seq(Q) /\ Len(u) = k + 1
           /\ \A j \in 1..k : u[j + 1] = t[j]
      BY <3>4, <3>5, <3>7
    <3>11. <<x>> \o t = u
      BY <3>8, <3>9, <3>10, Prepended
    <3> QED
      BY <3>11 DEF t, u, x
  <2> HIDE DEF i, Behind, Place
  <2> QED
    BY <2>1, <2>2, <2>3
<1> HIDE DEF S
<1>11. n \in S
  <2>1. 0..n \subseteq S
    BY <1>4, <1>9, <1>10, Induction
  <2> QED
    BY <1>4, <2>1
<1> USE DEF S
<1>12. rest[at[0] + 1] = [j \in 1..n |-> part(j)]
  <2>1. Place(n - n) = at[0] + 1
    BY <1>4
  <2>2. \A j \in 1..n : n - n + j = j
    BY <1>4
  <2> QED
    BY <1>11, <2>1, <2>2
<1>13. FindBoundary(str, 1) = 1
  <2> DEFINE T == {k \in 1..N : str[k] = "delimiter"}
  <2>1. 1 \in 1..N /\ 1 \in 1..n /\ at[1 - 1] + 1 = 1
    BY <1>4
  <2>2. str[1] = "delimiter"
    BY <1>3, <2>1, PartLines DEF n
  <2>3. 1 \in T /\ T \in SUBSET (1..N) /\ \A k \in T : 1 <= k
    BY <1>4, <2>1, <2>2
  <2> HIDE DEF T
  <2>4. First(str, T) = 1
    BY <1>4, <2>3, FirstIsAt
  <2> QED
    BY <1>6, <2>1, <2>4 DEF T
<1> QED
  BY <1>4, <1>5, <1>6, <1>12, <1>13 DEF str, n, part

=============================================================================
