------------------------- MODULE CommandLineProofs -------------------------
(***************************************************************************)
(* Theorems about CommandLine, for buffers of every size, any number of    *)
(* processes and any programs and commands.                                *)
(***************************************************************************)
EXTENDS CommandLine, IterationProofs, FiniteSetTheorems, SequenceTheorems

-----------------------------------------------------------------------------
(***************************************************************************)
(* The least element and the n-th one.                                     *)
(***************************************************************************)

\* Min is the least element.
LEMMA MinOf ==
    ASSUME NEW S, S \subseteq Nat, S # {}
    PROVE  Min(S) \in S /\ \A y \in S : Min(S) <= y
<1>1. \E x \in S : \A y \in S : x <= y
  BY Least
<1> QED
  BY <1>1 DEF Min

\* The number that is in the set and below all others is Min.
LEMMA MinIs ==
    ASSUME NEW S, S \subseteq Nat, NEW m \in S, \A y \in S : m <= y
    PROVE  Min(S) = m
<1>1. Min(S) \in S /\ Min(S) <= m
  BY MinOf
<1>2. PICK x \in S : x = Min(S)
  BY <1>1
<1>3. x \in Nat /\ m \in Nat /\ x <= m /\ m <= x
  BY <1>1, <1>2
<1> QED
  BY <1>2, <1>3

\* Two elements.
LEMMA Pair ==
    ASSUME NEW k \in Nat \ {0}
    PROVE  Cardinality({0, k}) = 2 /\ IsFiniteSet({0, k})
<1>1. {0, k} = {0} \cup {k} /\ k \notin {0}
  OBVIOUS
<1>2. IsFiniteSet({0}) /\ Cardinality({0}) = 1
  BY FS_Singleton
<1>3. IsFiniteSet({0} \cup {k}) /\ Cardinality({0} \cup {k}) = Cardinality({0}) + 1
  BY <1>1, <1>2, FS_AddElement
<1> QED
  BY <1>1, <1>2, <1>3

\* The elements below i.
Below(at, i) == {j \in at : j < i}

\* A larger element has more elements below it.
LEMMA Rank ==
    ASSUME NEW at, at \subseteq Nat, IsFiniteSet(at), NEW i \in at, NEW k \in at, i < k
    PROVE  Cardinality(Below(at, i)) < Cardinality(Below(at, k))
<1>1. Below(at, i) \in SUBSET at /\ Below(at, k) \in SUBSET at /\ i \notin Below(at, i)
  BY DEF Below
<1>2. IsFiniteSet(Below(at, i)) /\ IsFiniteSet(Below(at, k))
  BY <1>1, FS_Subset
<1>3. Below(at, i) \cup {i} \in SUBSET Below(at, k)
  <2>1. ASSUME NEW j \in at, j < i PROVE j < k
    <3>1. j \in Nat /\ i \in Nat /\ k \in Nat
      OBVIOUS
    <3> QED
      BY <2>1, <3>1
  <2> QED
    BY <2>1, Zenon DEF Below
<1>4. /\ Cardinality(Below(at, i)) \in Nat /\ Cardinality(Below(at, k)) \in Nat
      /\ Cardinality(Below(at, i) \cup {i}) = Cardinality(Below(at, i)) + 1
  BY <1>1, <1>2, FS_CardinalityType, FS_AddElement
<1>5. Cardinality(Below(at, i) \cup {i}) <= Cardinality(Below(at, k))
  BY <1>2, <1>3, FS_Subset
<1> QED
  BY <1>4, <1>5

\* The element with n others below it, as in Word.
Nth(at, n) == CHOOSE i \in at : Cardinality({j \in at : j < i}) = n

\* It is the only one.
LEMMA NthIs ==
    ASSUME NEW at, at \subseteq Nat, IsFiniteSet(at), NEW i \in at, NEW n,
           Cardinality(Below(at, i)) = n
    PROVE  Nth(at, n) = i
<1>1. ASSUME NEW x \in at, Cardinality(Below(at, x)) = n PROVE x = i
  <2>1. Cardinality(Below(at, x)) \in Nat
    <3>1. Below(at, x) \in SUBSET at
      BY DEF Below
    <3> QED
      BY <3>1, FS_Subset, FS_CardinalityType
  <2>2. ASSUME x < i PROVE FALSE
    <3>1. Cardinality(Below(at, x)) < Cardinality(Below(at, i))
      BY <2>2, Rank
    <3> QED
      BY <1>1, <2>1, <3>1
  <2>3. ASSUME i < x PROVE FALSE
    <3>1. Cardinality(Below(at, i)) < Cardinality(Below(at, x))
      BY <2>3, Rank
    <3> QED
      BY <1>1, <2>1, <3>1
  <2>4. x \in Nat /\ i \in Nat
    OBVIOUS
  <2> QED
    BY <2>2, <2>3, <2>4
<1>2. (CHOOSE x \in at : Cardinality(Below(at, x)) = n) = i
  BY <1>1
<1> QED
  BY <1>2 DEF Below, Nth

-----------------------------------------------------------------------------
(***************************************************************************)
(* The words of a line.                                                    *)
(***************************************************************************)

\* The first space after k, or the end of the line.
Spaces(l, k) == {i \in DOMAIN l : i > k /\ l[i] = SP} \cup {Len(l) + 1}
Space(l, k) == Min(Spaces(l, k))

\* What Space finds.
LEMMA SpaceFacts ==
    ASSUME NEW l \in Seq(Chars), NEW k \in 0 .. Len(l)
    PROVE  /\ Space(l, k) \in k + 1 .. Len(l) + 1
           /\ Space(l, k) # Len(l) + 1 => l[Space(l, k)] = SP
           /\ \A i \in k + 1 .. Space(l, k) - 1 : l[i] # SP /\ i \in 1 .. Len(l)
<1>1. PICK n \in Nat : n = Len(l) /\ DOMAIN l = 1 .. n
  OBVIOUS
<1>2. Spaces(l, k) \subseteq Nat /\ Spaces(l, k) # {}
  BY <1>1 DEF Spaces
<1>3. PICK s : s = Space(l, k) /\ s \in Spaces(l, k) /\ \A y \in Spaces(l, k) : s <= y
  BY <1>2, MinOf DEF Space
<1> QED
  BY <1>1, <1>3 DEF Spaces

\* The first two words: the text up to the first space, and from there to the next.
LEMMA Words ==
    ASSUME NEW l \in Seq(Chars)
    PROVE  LET s == Space(l, 0)
           IN  /\ Word(l, 0) = SubSeq(l, 1, s - 1)
               /\ s = Len(l) + 1 => Word(l, 1) = NoWord
               /\ s # Len(l) + 1 => Word(l, 1) = SubSeq(l, s + 1, Space(l, s) - 1)
<1>1. PICK n \in Nat : n = Len(l) /\ DOMAIN l = 1 .. n
  OBVIOUS
<1>2. PICK at : at = {0, n + 1} \cup {i \in 1 .. n : l[i] = SP}
  OBVIOUS
<1>3. at \subseteq Nat /\ at \subseteq 0 .. n + 1 /\ 0 \in at /\ n + 1 \in at
  BY <1>2
<1>4. IsFiniteSet(at)
  <2>1. IsFiniteSet(0 .. n + 1)
    BY FS_Interval
  <2> QED
    BY <1>3, <2>1, FS_Subset
<1>5. PICK s \in 1 .. n + 1 : /\ s = Space(l, 0) /\ s \in at
                             /\ \A j \in at : j < s => j = 0
  <2>1. /\ Space(l, 0) \in 1 .. n + 1 /\ (Space(l, 0) # n + 1 => l[Space(l, 0)] = SP)
        /\ \A i \in 1 .. Space(l, 0) - 1 : l[i] # SP
    BY <1>1, SpaceFacts
  <2>2. PICK s \in 1 .. n + 1 : s = Space(l, 0)
    BY <2>1
  <2>3. s \in at
    BY <1>2, <2>1, <2>2
  <2>4. ASSUME NEW j \in at, j < s PROVE j = 0
    <3>1. j \in 1 .. n => l[j] # SP
      BY <2>1, <2>2, <2>4
    <3> QED
      BY <1>2, <2>4, <3>1
  <2> QED
    BY <2>2, <2>3, <2>4
<1>6. Below(at, 0) = {} /\ Below(at, s) = {0}
  <2>1. ASSUME NEW j \in at PROVE ~ (j < 0) /\ (j < s <=> j = 0)
    BY <1>3, <1>5
  <2> QED
    BY <1>3, <2>1, Zenon DEF Below
<1>7. Cardinality(Below(at, 0)) = 0 /\ Cardinality(Below(at, s)) = 1
  BY <1>6, FS_EmptySet, FS_Singleton
<1>8. Nth(at, 0) = 0 /\ Nth(at, 1) = s
  BY <1>3, <1>4, <1>5, <1>7, NthIs
<1>9. ASSUME NEW k
      PROVE  Word(l, k) = IF k + 1 < Cardinality(at)
                          THEN SubSeq(l, Nth(at, k) + 1, Nth(at, k + 1) - 1) ELSE NoWord
  BY <1>1, <1>2 DEF Word, Nth
<1>10. Cardinality({0, n + 1}) = 2 /\ IsFiniteSet({0, n + 1})
  BY Pair
<1>11. Cardinality(at) \in Nat /\ Cardinality(at) >= 2
  <2>1. {0, n + 1} \in SUBSET at
    BY <1>3
  <2> QED
    BY <1>4, <1>10, <2>1, FS_Subset, FS_CardinalityType
<1>12. Word(l, 0) = SubSeq(l, 1, s - 1)
  <2>1. 0 + 1 = 1 /\ 0 + 1 < Cardinality(at)
    BY <1>11
  <2>2. Word(l, 0) = SubSeq(l, Nth(at, 0) + 1, Nth(at, 0 + 1) - 1)
    BY <1>9, <2>1
  <2> QED
    BY <1>8, <2>1, <2>2
<1>13. ASSUME s = n + 1 PROVE Word(l, 1) = NoWord
  <2>1. at = {0, n + 1}
    BY <1>2, <1>5, <1>13
  <2> QED
    BY <1>9, <1>10, <2>1
<1>14. ASSUME s # n + 1 PROVE Word(l, 1) = SubSeq(l, s + 1, Space(l, s) - 1)
  <2>1. PICK z \in s + 1 .. n + 1 : /\ z = Space(l, s) /\ z \in at
                                   /\ \A j \in at : j < z => j = 0 \/ j = s
    <3>1. /\ Space(l, s) \in s + 1 .. n + 1 /\ (Space(l, s) # n + 1 => l[Space(l, s)] = SP)
          /\ \A i \in s + 1 .. Space(l, s) - 1 : l[i] # SP
      BY <1>1, <1>5, <1>14, SpaceFacts
    <3>2. ASSUME NEW j \in at, j < Space(l, s) PROVE j = 0 \/ j = s
      <4>1. CASE j < s
        BY <1>5, <4>1
      <4>2. CASE ~ (j < s) /\ j # s
        <5>1. j \in s + 1 .. Space(l, s) - 1 /\ j \in 1 .. n /\ j # 0 /\ j # n + 1
          BY <1>3, <3>1, <3>2, <4>2
        <5>2. l[j] = SP
          BY <1>2, <5>1
        <5> QED
          BY <3>1, <5>1, <5>2
      <4> QED
        BY <4>1, <4>2
    <3>3. PICK z \in s + 1 .. n + 1 : z = Space(l, s)
      BY <3>1
    <3>4. z \in at
      BY <1>2, <3>1, <3>3
    <3> QED
      BY <3>2, <3>3, <3>4
  <2>2. Below(at, z) = {0, s}
    <3>1. ASSUME NEW j \in at PROVE j < z <=> j = 0 \/ j = s
      BY <2>1
    <3> QED
      BY <1>3, <1>5, <3>1, Zenon DEF Below
  <2>4. Cardinality({0, s}) = 2 /\ IsFiniteSet({0, s})
    BY Pair
  <2>5. Nth(at, 2) = z
    <3>1. Cardinality(Below(at, z)) = 2
      BY <2>2, <2>4
    <3> QED
      BY <1>3, <1>4, <2>1, <3>1, NthIs
  <2>6. Cardinality(at) > 2
    <3>1. {0, s} \in SUBSET at /\ n + 1 \notin {0, s} /\ n + 1 \in at
      BY <1>3, <1>5, <1>14
    <3>2. Cardinality({0, s}) <= Cardinality(at) /\ Cardinality({0, s}) # Cardinality(at)
      BY <1>4, <3>1, FS_Subset
    <3> QED
      BY <1>11, <2>4, <3>2
  <2>7. 1 + 1 = 2 /\ 1 + 1 < Cardinality(at)
    BY <1>11, <2>6
  <2>8. Word(l, 1) = SubSeq(l, Nth(at, 1) + 1, Nth(at, 1 + 1) - 1)
    BY <1>9, <2>7
  <2> QED
    BY <1>8, <2>1, <2>5, <2>7, <2>8
<1> QED
  BY <1>1, <1>5, <1>12, <1>13, <1>14

-----------------------------------------------------------------------------
(***************************************************************************)
(* The array that sys_execute reads.                                       *)
(***************************************************************************)

Arrays == [0 .. MAX_ARG_LEN - 1 -> Chars]

\* Line l stands at the beginning of the array c, followed by a newline or by a NUL and
\* no space in what the loop for the name reads.
Holds(c, l) ==
    /\ c \in Arrays /\ l \in Seq(Chars) /\ Len(l) \in 0 .. MAX_ARG_LEN
    /\ \A i \in 0 .. Len(l) - 1 : c[i] = l[i + 1] /\ c[i] \notin {NL, NUL}
    /\ Len(l) < MAX_ARG_LEN =>
         \/ c[Len(l)] = NL
         \/ c[Len(l)] = NUL /\ \A i \in Len(l) .. MAX_CMD_LEN - 1 : c[i] # SP

\* A text is a sequence of at most MAX_ARG_LEN characters.
LEMMA TextFacts ==
    ASSUME NEW text \in Texts
    PROVE  text \in Seq(Chars) /\ Len(text) \in 0 .. MAX_ARG_LEN /\ Array(text) \in Arrays
<1>1. PICK n \in 0 .. MAX_ARG_LEN : text \in [1 .. n -> Chars]
  BY DEF Texts
<1>2. text \in Seq(Chars) /\ Len(text) = n
  BY <1>1
<1>3. ASSUME NEW i \in 0 .. MAX_ARG_LEN - 1 PROVE (IF i < n THEN text[i + 1] ELSE NUL) \in Chars
  <2>1. i < n => i + 1 \in 1 .. n
    BY <1>1, CommandLineAssumption
  <2> QED
    BY <1>1, <2>1 DEF Chars
<1> QED
  BY <1>1, <1>2, <1>3 DEF Array, Arrays

\* Sequences from a part of another one.
LEMMA Part ==
    ASSUME NEW l \in Seq(Chars), NEW a \in Nat \ {0}, NEW b \in 0 .. Len(l), a <= b + 1
    PROVE  SubSeq(l, a, b) = [k \in 1 .. b - a + 1 |-> l[a + k - 1]]
<1>1. b \in Int /\ \A i \in a .. b : l[i] \in Chars
  OBVIOUS
<1>2. /\ SubSeq(l, a, b) \in Seq(Chars)
      /\ Len(SubSeq(l, a, b)) = IF a <= b THEN b - a + 1 ELSE 0
      /\ \A i \in 1 .. b - a + 1 : SubSeq(l, a, b)[i] = l[a + i - 1]
  BY <1>1, SubSeqProperties
<1>3. Len(SubSeq(l, a, b)) = b - a + 1
  BY <1>2
<1> QED
  BY <1>2, <1>3

\* The line of a command stands in its array.
LEMMA LineHeld ==
    ASSUME NEW text \in Texts, Ended(text)
    PROVE  Holds(Array(text), Line(text))
<1>1. PICK n \in Nat : n = Len(text) /\ DOMAIN text = 1 .. n /\ n <= MAX_ARG_LEN
  BY TextFacts, CommandLineAssumption
<1>2. text \in Seq(Chars) /\ Array(text) \in Arrays
  BY TextFacts
<1>3. PICK E : E = {i \in 1 .. n : text[i] \in {NL, NUL}} \cup {n + 1}
  OBVIOUS
<1>4. E \subseteq Nat /\ E # {}
  BY <1>3
<1>5. PICK e \in 1 .. n + 1 : /\ e = Min(E) /\ (e # n + 1 => text[e] \in {NL, NUL})
                              /\ \A i \in 1 .. e - 1 : i \in 1 .. n /\ text[i] \notin {NL, NUL}
  <2>1. PICK e \in E : e = Min(E) /\ \A y \in E : e <= y
    BY <1>4, MinOf
  <2>2. e \in 1 .. n + 1 /\ (e # n + 1 => text[e] \in {NL, NUL})
    BY <1>1, <1>3, <2>1
  <2>3. ASSUME NEW i \in 1 .. e - 1 PROVE i \in 1 .. n /\ text[i] \notin {NL, NUL}
    <3>1. i \in 1 .. n /\ ~ (e <= i)
      BY <2>2
    <3> QED
      BY <1>3, <2>1, <3>1
  <2> QED
    BY <2>1, <2>2, <2>3
<1>6. Line(text) = SubSeq(text, 1, e - 1)
  BY <1>1, <1>3, <1>5 DEF Line
<1>7. PICK l : l = Line(text) /\ l = [k \in 1 .. e - 1 |-> text[k]]
  <2>1. SubSeq(text, 1, e - 1) = [k \in 1 .. e - 1 - 1 + 1 |-> text[1 + k - 1]]
    BY <1>1, <1>2, <1>5, Part
  <2>2. e - 1 - 1 + 1 = e - 1 /\ \A k \in 1 .. e - 1 : 1 + k - 1 = k
    BY <1>5
  <2> QED
    BY <1>6, <2>1, <2>2
<1>8. l \in Seq(Chars) /\ Len(l) = e - 1
  <2>1. \A k \in 1 .. e - 1 : text[k] \in Chars
    BY <1>1, <1>2, <1>5
  <2> QED
    BY <1>5, <1>7, <2>1
<1>9. Len(l) \in 0 .. MAX_ARG_LEN
  BY <1>1, <1>5, <1>8, CommandLineAssumption
<1>10. PICK c : c = Array(text)
  OBVIOUS
<1>0. \A i \in 0 .. MAX_ARG_LEN - 1 : c[i] = IF i < n THEN text[i + 1] ELSE NUL
  BY <1>1, <1>10 DEF Array
<1>11. ASSUME NEW i \in 0 .. Len(l) - 1 PROVE c[i] = l[i + 1] /\ c[i] \notin {NL, NUL}
  <2>1. i + 1 \in 1 .. e - 1 /\ i \in 0 .. MAX_ARG_LEN - 1 /\ i < n
    BY <1>1, <1>5, <1>8, <1>9, CommandLineAssumption
  <2> QED
    BY <1>0, <1>5, <1>7, <2>1
<1>12. ASSUME Len(l) < MAX_ARG_LEN
       PROVE  \/ c[Len(l)] = NL
              \/ c[Len(l)] = NUL /\ \A i \in Len(l) .. MAX_CMD_LEN - 1 : c[i] # SP
  <2>1. PICK M \in Nat, A \in Nat : M = MAX_CMD_LEN /\ A = MAX_ARG_LEN /\ M < A /\ e - 1 < A
    BY <1>8, <1>12, CommandLineAssumption
  <2>2. c[e - 1] = IF e = n + 1 THEN NUL ELSE text[e]
    <3>1. e - 1 \in 0 .. A - 1 /\ (e - 1 < n <=> e # n + 1) /\ e - 1 + 1 = e
      BY <1>5, <2>1
    <3> QED
      BY <1>0, <2>1, <3>1
  <2>3. ASSUME NEW i \in e - 1 .. M - 1, c[e - 1] = NUL PROVE c[i] # SP
    <3>1. i \in 0 .. A - 1 /\ i + 1 \in e .. M
      BY <1>5, <2>1
    <3>2. CASE i < n
      <4>1. e \in 1 .. n /\ i + 1 \in 1 .. n /\ i + 1 <= M /\ (e < i + 1 \/ e = i + 1) /\ e # n + 1
        BY <1>5, <3>1, <3>2
      <4>2. text[e] = NUL /\ c[i] = text[i + 1]
        BY <1>0, <2>1, <2>2, <2>3, <3>1, <3>2, <4>1
      <4>3. CASE e < i + 1
        BY <1>1, <2>1, <4>1, <4>2, <4>3 DEF Ended
      <4>4. CASE e = i + 1
        BY <4>2, <4>4, CommandLineAssumption
      <4> QED
        BY <4>1, <4>3, <4>4
    <3>3. CASE ~ (i < n)
      BY <1>0, <2>1, <3>1, <3>3, CommandLineAssumption
    <3> QED
      BY <3>2, <3>3
  <2> QED
    BY <1>5, <1>8, <2>1, <2>2, <2>3
<1> QED
  BY <1>2, <1>7, <1>8, <1>9, <1>10, <1>11, <1>12 DEF Holds

\* Parts of the line are parts of the array.
LEMMA SliceOf ==
    ASSUME NEW c, NEW l, Holds(c, l), NEW a \in 0 .. Len(l), NEW b \in a .. Len(l)
    PROVE  SubSeq(l, a + 1, b) = Slice(c, a, b)
<1>1. PICK n \in Nat : n = Len(l) /\ l \in Seq(Chars)
  BY DEF Holds
<1>2. SubSeq(l, a + 1, b) = [k \in 1 .. b - (a + 1) + 1 |-> l[a + 1 + k - 1]]
  BY <1>1, Part
<1>3. b - (a + 1) + 1 = b - a
  BY <1>1
<1>4. ASSUME NEW k \in 1 .. b - a PROVE l[a + 1 + k - 1] = c[a + k - 1]
  <2>1. PICK i \in 0 .. n - 1 : i = a + k - 1 /\ i + 1 = a + 1 + k - 1
    BY <1>1
  <2>2. c[i] = l[i + 1]
    BY <1>1, <2>1 DEF Holds
  <2> QED
    BY <2>1, <2>2
<1> QED
  BY <1>2, <1>3, <1>4 DEF Slice

\* The loop for the name: it ends where the first word does, or runs over the NULs.
LEMMA NameOf ==
    ASSUME NEW c, NEW l, Holds(c, l), Space(l, 0) - 1 \in 1 .. MAX_CMD_LEN - 1
    PROVE  /\ NameEnd(c) # 0 /\ Name(c) = SubSeq(l, 1, Space(l, 0) - 1)
           /\ have_args(c) <=> Space(l, 0) # Len(l) + 1
           /\ have_args(c) => NameEnd(c) = Space(l, 0) - 1
<1>1. PICK n \in Nat, M \in Nat, A \in Nat :
        /\ n = Len(l) /\ M = MAX_CMD_LEN /\ A = MAX_ARG_LEN /\ M < A /\ n <= A
  BY CommandLineAssumption DEF Holds
<1>2. /\ \A i \in 0 .. n - 1 : c[i] = l[i + 1] /\ c[i] \notin {NL, NUL}
      /\ n < A => c[n] = NL \/ (c[n] = NUL /\ \A i \in n .. M - 1 : c[i] # SP)
      /\ l \in Seq(Chars)
  BY <1>1 DEF Holds
<1>3. PICK w \in 1 .. M - 1 : w + 1 = Space(l, 0) /\ w = Space(l, 0) - 1
  <2>1. Space(l, 0) \in 1 .. n + 1
    BY <1>1, <1>2, SpaceFacts
  <2>2. PICK s \in Int : s = Space(l, 0)
    BY <2>1
  <2> QED
    BY <1>1, <2>2
<1>4. /\ w <= n /\ (w # n => l[w + 1] = SP)
      /\ \A i \in 1 .. w : l[i] # SP /\ i \in 1 .. n
  <2>1. /\ w + 1 \in 1 .. n + 1 /\ (w + 1 # n + 1 => l[w + 1] = SP)
        /\ \A i \in 1 .. w + 1 - 1 : l[i] # SP /\ i \in 1 .. n
    BY <1>1, <1>2, <1>3, SpaceFacts
  <2> QED
    BY <1>1, <2>1
<1>5. ASSUME NEW i \in 0 .. w - 1 PROVE c[i] = l[i + 1] /\ c[i] \notin {SP, NL, NUL}
  <2>1. i + 1 \in 1 .. w /\ i \in 0 .. n - 1
    BY <1>4
  <2> QED
    BY <1>2, <1>4, <2>1
<1>6. PICK E : E = {i \in 0 .. M - 1 : c[i] \in {SP, NL}} \cup {M}
  OBVIOUS
<1>7. NameEnd(c) = Min(E)
  BY <1>1, <1>6 DEF NameEnd
<1>8. SubSeq(l, 1, w) = Slice(c, 0, w)
  <2>1. SubSeq(l, 0 + 1, w) = Slice(c, 0, w)
    BY <1>1, <1>4, SliceOf
  <2> QED
    BY <2>1
<1>9. ASSUME NEW e \in Nat, e = NameEnd(c), w <= e, w < e => c[w] = NUL
      PROVE  Name(c) = Slice(c, 0, w)
  <2>1. PICK F : F = {i \in 0 .. e - 1 : c[i] = NUL} \cup {e}
    OBVIOUS
  <2>2. F \subseteq Nat /\ w \in F
    BY <1>9, <2>1
  <2>3. ASSUME NEW i \in F PROVE w <= i
    <3>1. i \notin 0 .. w - 1
      BY <1>5, <1>9, <2>1, <2>3
    <3> QED
      BY <2>2, <3>1
  <2>4. Min(F) = w
    BY <2>2, <2>3, MinIs
  <2> QED
    BY <1>9, <2>1, <2>4 DEF Name
<1>10. CASE c[w] \in {SP, NL}
  <2>1. E \subseteq Nat /\ w \in E
    BY <1>6, <1>10
  <2>2. ASSUME NEW i \in E PROVE w <= i
    <3>1. i \notin 0 .. w - 1
      BY <1>5, <1>6, <2>2
    <3> QED
      BY <2>1, <3>1
  <2>3. NameEnd(c) = w
    BY <1>7, <2>1, <2>2, MinIs
  <2>4. Name(c) = Slice(c, 0, w)
    BY <1>9, <2>3
  <2>5. c[w] = SP <=> w # n
    <3>1. CASE w = n
      BY <1>1, <1>2, <1>10, <3>1, CommandLineAssumption
    <3>2. CASE w # n
      BY <1>2, <1>4, <3>2
    <3> QED
      BY <3>1, <3>2
  <2>6. have_args(c) <=> w # n
    BY <1>1, <2>3, <2>5 DEF have_args
  <2> QED
    BY <1>1, <1>3, <1>8, <2>3, <2>4, <2>6
<1>11. CASE c[w] \notin {SP, NL}
  <2>1. w = n /\ c[w] = NUL /\ \A i \in w .. M - 1 : c[i] # SP
    <3>1. w = n
      BY <1>2, <1>4, <1>11, SMTT(30)
    <3> QED
      BY <1>1, <1>2, <1>11, <3>1
  <2>2. E \subseteq Nat /\ E # {}
    BY <1>6
  <2>3. PICK e \in E : e = NameEnd(c)
    BY <1>7, <2>2, MinOf
  <2>4. e \in Nat /\ w < e /\ (e < M => c[e] # SP)
    <3>1. e \in 0 .. M
      BY <1>6
    <3>2. e \notin 0 .. w - 1 /\ e # w
      BY <1>5, <1>6, <1>11, <3>1
    <3>3. e < M => e \in w .. M - 1
      BY <3>1, <3>2
    <3> QED
      BY <2>1, <3>1, <3>2, <3>3
  <2>5. Name(c) = Slice(c, 0, w)
    BY <1>9, <2>1, <2>3, <2>4
  <2>6. ~ have_args(c)
    BY <1>1, <2>3, <2>4 DEF have_args
  <2> QED
    BY <1>1, <1>3, <1>8, <2>1, <2>3, <2>4, <2>5, <2>6
<1> QED
  BY <1>10, <1>11

\* The loop for the arguments: they are the second word.
LEMMA ArgumentsOf ==
    ASSUME NEW c, NEW l, Holds(c, l), NEW s, s = Space(l, 0), s # Len(l) + 1,
           NameEnd(c) = s - 1
    PROVE  Arguments(c) = SubSeq(l, s + 1, Space(l, s) - 1)
<1>1. PICK n \in Nat, A \in Nat : n = Len(l) /\ A = MAX_ARG_LEN /\ n <= A
  BY CommandLineAssumption DEF Holds
<1>2. /\ \A i \in 0 .. n - 1 : c[i] = l[i + 1] /\ c[i] \notin {NL, NUL}
      /\ n < A => c[n] \in {NL, NUL}
      /\ l \in Seq(Chars)
  BY <1>1 DEF Holds
<1>3. s \in 1 .. n
  BY <1>1, <1>2, SpaceFacts
<1>4. PICK e \in s .. n : /\ e = Space(l, s) - 1 /\ (e # n => l[e + 1] = SP)
                         /\ \A i \in s + 1 .. e : l[i] # SP
  <2>1. /\ Space(l, s) \in s + 1 .. n + 1 /\ (Space(l, s) # n + 1 => l[Space(l, s)] = SP)
        /\ \A i \in s + 1 .. Space(l, s) - 1 : l[i] # SP
    BY <1>1, <1>2, <1>3, SpaceFacts, SMTT(30)
  <2>2. PICK z \in s + 1 .. n + 1 : z = Space(l, s)
    BY <2>1
  <2>3. z - 1 \in s .. n /\ z - 1 + 1 = z
    BY <1>3, <2>2
  <2> QED
    BY <2>1, <2>2, <2>3
<1>5. PICK E : E = {i \in s .. A - 1 : c[i] \in {SP, NL, NUL}} \cup {A}
  OBVIOUS
<1>6. E \subseteq Nat /\ e \in E
  <2>1. CASE e = n
    <3>1. n = A \/ (n < A /\ c[n] \in {NL, NUL})
      BY <1>1, <1>2
    <3> QED
      BY <1>1, <1>3, <1>5, <2>1, <3>1
  <2>2. CASE e # n
    <3>1. e \in s .. A - 1 /\ e \in 0 .. n - 1
      BY <1>1, <1>3, <2>2
    <3>2. c[e] = SP
      BY <1>2, <1>4, <2>2, <3>1
    <3> QED
      BY <1>3, <1>5, <3>1, <3>2
  <2> QED
    BY <2>1, <2>2
<1>7. ASSUME NEW i \in E PROVE e <= i
  <2>1. ASSUME i < e, i \in s .. A - 1 PROVE c[i] \notin {SP, NL, NUL}
    <3>1. i + 1 \in s + 1 .. e /\ i \in 0 .. n - 1
      BY <1>3, <2>1
    <3> QED
      BY <1>2, <1>4, <3>1
  <2>2. e <= A
    BY <1>1, <1>3
  <2> QED
    BY <1>5, <1>6, <2>1, <2>2
<1>8. Min(E) = e
  BY <1>6, <1>7, MinIs
<1>9. Arguments(c) = Slice(c, s, e)
  <2>1. NameEnd(c) + 1 = s
    BY <1>3
  <2> QED
    BY <1>1, <1>5, <1>8, <2>1 DEF Arguments
<1>10. s \in 0 .. Len(l) /\ e \in s .. Len(l)
  BY <1>1, <1>3
<1>11. SubSeq(l, s + 1, e) = Slice(c, s, e)
  BY <1>10, SliceOf
<1> QED
  BY <1>4, <1>9, <1>11

-----------------------------------------------------------------------------
(***************************************************************************)
(* What is kept in the process control block.                              *)
(***************************************************************************)

Blocks == [args : Arrays, arg_len : ERROR .. MAX_ARG_LEN - 1]

\* A name ends at the latest where its buffer does.
LEMMA NameEndType ==
    ASSUME NEW c
    PROVE  NameEnd(c) \in 0 .. MAX_CMD_LEN
<1>1. PICK M \in Nat : M = MAX_CMD_LEN
  BY CommandLineAssumption
<1>2. PICK E : E = {i \in 0 .. M - 1 : c[i] \in {SP, NL}} \cup {M}
  OBVIOUS
<1>3. E \subseteq Nat /\ E \subseteq 0 .. M /\ E # {}
  BY <1>2
<1>4. Min(E) \in E
  BY <1>3, MinOf
<1> QED
  BY <1>1, <1>2, <1>3, <1>4 DEF NameEnd

\* Whatever the command is, its arguments hold no NUL and are shorter than the array.
LEMMA ArgumentsType ==
    ASSUME NEW c \in Arrays
    PROVE  /\ Arguments(c) \in Seq(Chars \ {NUL})
           /\ Len(Arguments(c)) \in 0 .. MAX_ARG_LEN - 1
<1>1. PICK A \in Nat, s \in Nat : A = MAX_ARG_LEN /\ s = NameEnd(c) + 1 /\ s \in 1 .. A
  <2>1. PICK w \in 0 .. MAX_CMD_LEN : w = NameEnd(c)
    BY NameEndType
  <2>2. w \in Nat /\ w + 1 \in 1 .. MAX_ARG_LEN /\ MAX_ARG_LEN \in Nat
    BY CommandLineAssumption
  <2> QED
    BY <2>1, <2>2
<1>2. PICK E : E = {i \in s .. A - 1 : c[i] \in {SP, NL, NUL}} \cup {A}
  OBVIOUS
<1>3. E \subseteq Nat /\ E \subseteq s .. A /\ E # {}
  BY <1>1, <1>2
<1>4. PICK e \in s .. A : e = Min(E) /\ \A y \in E : e <= y
  BY <1>3, MinOf
<1>5. Arguments(c) = [k \in 1 .. e - s |-> c[s + k - 1]]
  BY <1>1, <1>2, <1>4 DEF Arguments, Slice
<1>6. ASSUME NEW k \in 1 .. e - s PROVE c[s + k - 1] \in Chars \ {NUL}
  <2>1. PICK i \in s .. A - 1 : i = s + k - 1 /\ i \in 0 .. A - 1 /\ ~ (e <= i)
    BY <1>1
  <2>2. i \notin E
    BY <1>4, <2>1
  <2>3. c[i] # NUL
    BY <1>2, <2>1, <2>2
  <2>4. c[i] \in Chars
    BY <1>1, <2>1 DEF Arrays
  <2> QED
    BY <2>1, <2>3, <2>4
<1>7. e - s \in Nat /\ e - s <= A - 1
  BY <1>1
<1>8. Arguments(c) \in [1 .. e - s -> Chars \ {NUL}]
  BY <1>5, <1>6
<1>9. Arguments(c) \in Seq(Chars \ {NUL}) /\ Len(Arguments(c)) = e - s
  BY <1>7, <1>8
<1> QED
  BY <1>1, <1>7, <1>9

\* strncpy puts arguments at the beginning of the block's array.
LEMMA Stored ==
    ASSUME NEW old \in Arrays, NEW a \in Seq(Chars \ {NUL}), Len(a) \in 0 .. MAX_ARG_LEN - 1
    PROVE  LET new == strncpy(old, Array(a), Len(a))
           IN  new \in Arrays /\ Slice(new, 0, Len(a)) = a
<1>1. PICK A \in Nat, n \in Nat : A = MAX_ARG_LEN /\ n = Len(a) /\ n <= A - 1
  BY CommandLineAssumption
<1>2. PICK src : src = Array(a)
  OBVIOUS
<1>3. src = [i \in 0 .. A - 1 |-> IF i < n THEN a[i + 1] ELSE NUL]
  BY <1>1, <1>2 DEF Array
<1>4. PICK E : E = {i \in DOMAIN src : src[i] = NUL}
  OBVIOUS
<1>5. \A k \in 1 .. n : a[k] \in Chars /\ a[k] # NUL
  BY <1>1
<1>6. E \subseteq Nat /\ n \in E
  BY <1>1, <1>3, <1>4
<1>7. ASSUME NEW y \in E PROVE n <= y
  <2>1. y \in 0 .. A - 1 /\ src[y] = NUL
    BY <1>3, <1>4
  <2>2. y < n => y + 1 \in 1 .. n
    BY <2>1
  <2> QED
    BY <1>3, <1>5, <2>1, <2>2
<1>8. strlen(src) = n
  BY <1>4, <1>6, <1>7, MinIs DEF strlen
<1>9. \E i \in DOMAIN src : src[i] = NUL
  BY <1>4, <1>6
<1>10. PICK new : new = strncpy(old, src, n)
  OBVIOUS
<1>11. new = [i \in 0 .. A - 1 |-> IF i < n THEN (IF i < n THEN src[i] ELSE NUL) ELSE old[i]]
  BY <1>1, <1>8, <1>9, <1>10 DEF strncpy, Arrays
<1>12. ASSUME NEW i \in 0 .. A - 1
       PROVE  /\ new[i] = (IF i < n THEN a[i + 1] ELSE old[i])
              /\ new[i] \in Chars
  <2>1. new[i] = IF i < n THEN a[i + 1] ELSE old[i]
    BY <1>3, <1>11
  <2>2. old[i] \in Chars
    BY <1>1 DEF Arrays
  <2>3. i < n => i + 1 \in 1 .. n
    OBVIOUS
  <2> QED
    BY <1>5, <2>1, <2>2, <2>3
<1>13. new \in Arrays
  BY <1>1, <1>11, <1>12 DEF Arrays
<1>14. Slice(new, 0, n) = a
  <2>1. ASSUME NEW k \in 1 .. n PROVE new[0 + k - 1] = a[k]
    <3>1. PICK i \in 0 .. A - 1 : i = 0 + k - 1 /\ i < n /\ i + 1 = k
      BY <1>1
    <3> QED
      BY <1>12, <3>1
  <2>2. n - 0 = n
    OBVIOUS
  <2>3. Slice(new, 0, n) = [k \in 1 .. n |-> a[k]]
    BY <2>1, <2>2 DEF Slice
  <2> QED
    BY <1>1, <2>3
<1> QED
  BY <1>1, <1>2, <1>10, <1>13, <1>14

\* What a process control block keeps for a request.
Suits(request, file, block) ==
    Plain(request) =>
      /\ file = request.name
      /\ IF request.args = NoWord
         THEN block.arg_len = ERROR
         ELSE /\ block.arg_len = Len(request.args) /\ block.arg_len # ERROR
              /\ Slice(block.args, 0, block.arg_len) = request.args

\* Storing the arguments of any command leaves a proper block.
LEMMA StoreType ==
    ASSUME NEW old \in Blocks, NEW c \in Arrays
    PROVE  StoreArguments(old, c) \in Blocks
<1>1. old.args \in Arrays
  BY DEF Blocks
<1>2. CASE have_args(c)
  <2>1. PICK a, n : a = Arguments(c) /\ n = Len(a)
    OBVIOUS
  <2>2. a \in Seq(Chars \ {NUL}) /\ n \in 0 .. MAX_ARG_LEN - 1
    BY <2>1, ArgumentsType
  <2>3. strncpy(old.args, Array(a), n) \in Arrays
    BY <1>1, <2>1, <2>2, Stored
  <2>4. StoreArguments(old, c) = [args |-> strncpy(old.args, Array(a), n), arg_len |-> n]
    BY <1>2, <2>1 DEF StoreArguments
  <2>5. n \in ERROR .. MAX_ARG_LEN - 1
    BY <2>2, CommandLineAssumption DEF ERROR
  <2> QED
    BY <2>3, <2>4, <2>5 DEF Blocks
<1>3. CASE ~ have_args(c)
  <2>1. PICK new : new = [old.args EXCEPT ![0] = NUL]
    OBVIOUS
  <2>2. new \in Arrays
    BY <1>1, <2>1 DEF Arrays, Chars
  <2>3. StoreArguments(old, c) = [args |-> new, arg_len |-> ERROR]
    BY <1>3, <2>1 DEF StoreArguments
  <2>4. ERROR \in ERROR .. MAX_ARG_LEN - 1
    BY CommandLineAssumption DEF ERROR
  <2> QED
    BY <2>2, <2>3, <2>4 DEF Blocks
<1> QED
  BY <1>2, <1>3

\* A command is carried out as it says.
LEMMA StoreSuits ==
    ASSUME NEW old \in Blocks, NEW text \in Texts, Ended(text),
           NEW file \in Found(Array(text))
    PROVE  Suits(Request(text), file, StoreArguments(old, Array(text)))
<1>1. PICK c, l, s : c = Array(text) /\ l = Line(text) /\ s = Space(l, 0)
  OBVIOUS
<1>2. Holds(c, l) /\ c \in Arrays /\ l \in Seq(Chars) /\ s \in 1 .. Len(l) + 1
  <2>1. Holds(c, l)
    BY <1>1, LineHeld
  <2>2. l \in Seq(Chars) /\ c \in Arrays
    BY <2>1 DEF Holds
  <2>3. 0 \in 0 .. Len(l)
    BY <2>2
  <2> QED
    BY <1>1, <2>1, <2>2, <2>3, SpaceFacts
<1>3. PICK request : request = Request(text)
  OBVIOUS
<1>4. /\ request.name = SubSeq(l, 1, s - 1)
      /\ s = Len(l) + 1 => request.args = NoWord
      /\ s # Len(l) + 1 => request.args = SubSeq(l, s + 1, Space(l, s) - 1)
  BY <1>1, <1>2, <1>3, Words DEF Request
<1>5. SUFFICES ASSUME Plain(request)
               PROVE  /\ file = request.name
                      /\ LET block == StoreArguments(old, c)
                         IN  IF request.args = NoWord
                             THEN block.arg_len = ERROR
                             ELSE /\ block.arg_len = Len(request.args)
                                  /\ block.arg_len # ERROR
                                  /\ Slice(block.args, 0, block.arg_len) = request.args
  BY <1>1, <1>3 DEF Suits
<1>6. s - 1 \in 1 .. MAX_CMD_LEN - 1
  <2>1. PICK n \in Nat : n = Len(l) /\ s \in 1 .. n + 1
    BY <1>2
  <2>2. s - 1 \in 0 .. n /\ 1 <= s - 1 + 1
    BY <2>1
  <2>3. SubSeq(l, 1, s - 1) = [k \in 1 .. s - 1 - 1 + 1 |-> l[1 + k - 1]]
    BY <1>2, <2>1, <2>2, Part
  <2>4. s - 1 - 1 + 1 = s - 1
    BY <2>1
  <2>5. Len(SubSeq(l, 1, s - 1)) = s - 1
    BY <2>2, <2>3, <2>4
  <2> QED
    BY <1>4, <1>5, <2>5 DEF Plain
<1>7. /\ NameEnd(c) # 0 /\ Name(c) = request.name
      /\ have_args(c) <=> s # Len(l) + 1
      /\ have_args(c) => NameEnd(c) = s - 1
  BY <1>1, <1>2, <1>4, <1>6, NameOf
<1>8. file = request.name
  BY <1>1, <1>7 DEF Found
<1>9. CASE s = Len(l) + 1
  <2>1. ~ have_args(c) /\ request.args = NoWord
    BY <1>4, <1>7, <1>9
  <2>2. StoreArguments(old, c).arg_len = ERROR
    BY <2>1 DEF StoreArguments
  <2> QED
    BY <1>8, <2>1, <2>2
<1>10. CASE s # Len(l) + 1
  <2>1. have_args(c) /\ NameEnd(c) = s - 1
    BY <1>7, <1>10
  <2>2. PICK a, n : a = Arguments(c) /\ n = Len(a)
    OBVIOUS
  <2>3. request.args = a
    BY <1>1, <1>2, <1>4, <1>10, <2>1, <2>2, ArgumentsOf
  <2>4. a \in Seq(Chars \ {NUL}) /\ n \in 0 .. MAX_ARG_LEN - 1
    BY <1>2, <2>2, ArgumentsType
  <2>5. StoreArguments(old, c) = [args |-> strncpy(old.args, Array(a), n), arg_len |-> n]
    BY <2>1, <2>2 DEF StoreArguments
  <2>6. Slice(strncpy(old.args, Array(a), n), 0, n) = a
    BY <2>2, <2>4, Stored DEF Blocks
  <2>7. a # NoWord
    BY <2>4 DEF NoWord
  <2>8. n # ERROR
    BY <2>4 DEF ERROR
  <2> QED
    BY <1>8, <2>2, <2>3, <2>5, <2>6, <2>7, <2>8
<1> QED
  BY <1>9, <1>10

-----------------------------------------------------------------------------
(***************************************************************************)
(* The invariants.                                                         *)
(***************************************************************************)

Buffers == {NoBuffer} \cup [0 .. MAX_ARG_LEN -> Chars \cup {Dirt}]

\* The pids on the stack are different, so that starting and ending a process leaves the
\* blocks of the others alone.
Distinct == \A i, j \in DOMAIN stack : i # j => stack[i] # stack[j]

Base ==
    /\ stack \in Seq(Pids) /\ Len(stack) >= 1
    /\ Distinct
    /\ pcb \in [Pids -> Blocks]
    /\ prog \in [Pids -> Executables \cup {<<>>}]
    /\ DOMAIN asked = Pids
    /\ buf \in Buffers
    /\ ret \in {0, ERROR}

\* The block of every process suits the command it was started with.
Suited == \A i \in DOMAIN stack : Suits(asked[stack[i]], prog[stack[i]], pcb[stack[i]])

Served == Suited /\ GetargsExact

\* A block without arguments.
LEMMA ZeroBlock == /\ ZeroPcb \in Blocks /\ [ZeroPcb EXCEPT !.arg_len = ERROR] \in Blocks
<1>1. PICK z : z = [i \in 0 .. MAX_ARG_LEN - 1 |-> NUL]
  OBVIOUS
<1>2. z \in Arrays
  BY <1>1 DEF Arrays, Chars
<1>3. ERROR \in ERROR .. MAX_ARG_LEN - 1 /\ 0 \in ERROR .. MAX_ARG_LEN - 1
  BY CommandLineAssumption DEF ERROR
<1>4. ZeroPcb = [args |-> z, arg_len |-> 0]
  BY <1>1 DEF ZeroPcb
<1> QED
  BY <1>2, <1>3, <1>4 DEF Blocks

\* The pid that runs.
LEMMA Running ==
    ASSUME Base
    PROVE  Len(stack) \in DOMAIN stack /\ Last(stack) = stack[Len(stack)] /\ Last(stack) \in Pids
BY DEF Base, Last

\* The invariants hold at the start.
LEMMA Starts == Init => Base /\ Served
<1> SUFFICES ASSUME Init PROVE Base /\ Served
  OBVIOUS
<1>1. 0 \in Pids
  BY CommandLineAssumption DEF Pids
<1>2. stack \in Seq(Pids) /\ Len(stack) = 1 /\ DOMAIN stack = {1} /\ stack[1] = 0
  BY <1>1 DEF Init
<1>3. pcb \in [Pids -> Blocks]
  BY ZeroBlock DEF Init
<1>4. Base
  BY <1>2, <1>3 DEF Init, Base, Distinct, Buffers
<1>5. asked[0] = Nobody
  BY <1>1 DEF Init
<1>6. ~ Plain(Nobody)
  BY DEF Plain, Nobody
<1>7. Suited
  BY <1>2, <1>5, <1>6 DEF Suited, Suits
<1>8. GetargsExact
  BY DEF Init, GetargsExact
<1> QED
  BY <1>4, <1>7, <1>8 DEF Served

\* A new process has a pid of its own.
LEMMA Pushed ==
    ASSUME Base, NEW pid \in NewPids, stack' = Append(stack, pid)
    PROVE  /\ stack' \in Seq(Pids) /\ Len(stack') >= 1 /\ Distinct'
           /\ pid \in Pids
           /\ \A i \in DOMAIN stack' : \/ stack'[i] = pid
                                       \/ \E j \in DOMAIN stack : /\ stack'[i] = stack[j]
                                                                  /\ stack[j] # pid
<1>1. PICK n \in Nat : n = Len(stack) /\ DOMAIN stack = 1 .. n
  BY DEF Base
<1>2. pid \in Pids /\ \A i \in 1 .. n : stack[i] # pid /\ stack[i] \in Pids
  BY <1>1 DEF NewPids, Base
<1>3. /\ stack' \in Seq(Pids) /\ DOMAIN stack' = 1 .. n + 1 /\ Len(stack') = n + 1
      /\ stack'[n + 1] = pid
      /\ \A i \in 1 .. n : stack'[i] = stack[i]
  BY <1>1, <1>2 DEF Base
<1>4. \A i \in 1 .. n + 1 : i = n + 1 \/ i \in 1 .. n
  OBVIOUS
<1>5. \A i, j \in 1 .. n : i # j => stack[i] # stack[j]
  BY <1>1 DEF Base, Distinct
<1>6. Distinct'
  BY <1>2, <1>3, <1>4, <1>5 DEF Distinct
<1> QED
  BY <1>1, <1>2, <1>3, <1>4, <1>6

\* The process that ends leaves the stack.
LEMMA Popped ==
    ASSUME Base, Len(stack) > 1, stack' = SubSeq(stack, 1, Len(stack) - 1)
    PROVE  /\ stack' \in Seq(Pids) /\ Len(stack') >= 1 /\ Distinct'
           /\ \A i \in DOMAIN stack' : /\ i \in DOMAIN stack /\ stack'[i] = stack[i]
                                       /\ stack[i] # Last(stack)
<1>1. PICK n \in Nat : n = Len(stack) /\ DOMAIN stack = 1 .. n /\ n > 1
  BY DEF Base
<1>2. /\ stack' \in Seq(Pids) /\ DOMAIN stack' = 1 .. n - 1 /\ Len(stack') = n - 1
      /\ \A i \in 1 .. n - 1 : stack'[i] = stack[i]
  <2>1. stack \in Seq(Pids)
    BY DEF Base
  <2>2. \A i \in 1 .. n - 1 : stack[i] \in Pids
    BY <1>1, <2>1
  <2>3. /\ stack' \in Seq(Pids)
        /\ Len(stack') = IF 1 <= n - 1 THEN n - 1 - 1 + 1 ELSE 0
        /\ \A i \in 1 .. n - 1 - 1 + 1 : stack'[i] = stack[1 + i - 1]
    BY <1>1, <2>2, SubSeqProperties
  <2>4. Len(stack') = n - 1 /\ n - 1 - 1 + 1 = n - 1 /\ \A i \in 1 .. n - 1 : 1 + i - 1 = i
    BY <1>1, <2>3
  <2>5. \A i \in 1 .. n - 1 : stack'[i] = stack[i]
    BY <2>3, <2>4
  <2> QED
    BY <2>3, <2>4, <2>5
<1>3. \A i \in 1 .. n - 1 : i \in 1 .. n /\ i # n
  OBVIOUS
<1>4. \A i, j \in 1 .. n : i # j => stack[i] # stack[j]
  BY <1>1 DEF Base, Distinct
<1>5. n \in 1 .. n /\ n - 1 >= 1
  BY <1>1
<1>6. Distinct'
  BY <1>2, <1>3, <1>4 DEF Distinct
<1>7. \A i \in 1 .. n - 1 : stack[i] # Last(stack)
  BY <1>1, <1>3, <1>4, <1>5 DEF Last
<1> QED
  BY <1>1, <1>2, <1>3, <1>5, <1>6, <1>7

\* What getargs leaves in the buffer.
Answer(block, nbytes) ==
    IF block.arg_len = ERROR \/ nbytes < block.arg_len
    THEN Memory
    ELSE memcpy(IF nbytes > 0 THEN [Memory EXCEPT ![block.arg_len] = NUL] ELSE Memory,
                block.args, block.arg_len)

\* The arguments, a NUL if the size is not zero, and nothing else.
LEMMA Answered ==
    ASSUME NEW block \in Blocks, NEW nbytes \in Int, NEW n \in Int, n = block.arg_len,
           n # ERROR, ~ (nbytes < n)
    PROVE  LET b == Answer(block, nbytes)
           IN  /\ n \in 0 .. MAX_ARG_LEN - 1
               /\ b \in [0 .. MAX_ARG_LEN -> Chars \cup {Dirt}]
               /\ Slice(b, 0, n) = Slice(block.args, 0, n)
               /\ nbytes > 0 => b[n] = NUL
               /\ \A i \in n + 1 .. MAX_ARG_LEN : b[i] = Dirt
<1>1. PICK A \in Nat : A = MAX_ARG_LEN
  BY CommandLineAssumption
<1>2. n \in 0 .. A - 1
  BY <1>1 DEF Blocks, ERROR
<1>3. PICK args : args = block.args /\ \A i \in 0 .. A - 1 : args[i] \in Chars
  BY <1>1 DEF Blocks, Arrays
<1>4. PICK b : b = Answer(block, nbytes)
  OBVIOUS
<1>5. b = memcpy(IF nbytes > 0 THEN [Memory EXCEPT ![n] = NUL] ELSE Memory, args, n)
  BY <1>3, <1>4 DEF Answer
<1>6. /\ b = [i \in 0 .. A |-> IF i < n THEN args[i]
                               ELSE IF nbytes > 0 /\ i = n THEN NUL ELSE Dirt]
  BY <1>1, <1>2, <1>5 DEF memcpy, Memory
<1>7. b \in [0 .. A -> Chars \cup {Dirt}]
  BY <1>2, <1>3, <1>6 DEF Chars
<1>8. ASSUME NEW k \in 1 .. n - 0 PROVE b[0 + k - 1] = args[0 + k - 1]
  BY <1>2, <1>6
<1>9. Slice(b, 0, n) = Slice(args, 0, n)
  BY <1>8 DEF Slice
<1>10. (nbytes > 0 => b[n] = NUL) /\ \A i \in n + 1 .. A : b[i] = Dirt
  BY <1>2, <1>6
<1> QED
  BY <1>1, <1>2, <1>3, <1>4, <1>7, <1>9, <1>10

\* There are at most as many processes on the stack as there are pids.
LEMMA StackBound == Base => Len(stack) <= MAX_PROCESSES
<1> SUFFICES ASSUME Base, ~ (Len(stack) <= MAX_PROCESSES) PROVE FALSE
  OBVIOUS
<1>1. PICK n \in Nat, m \in Nat : n = Len(stack) /\ m = MAX_PROCESSES /\ m < n /\ m >= 1
  BY CommandLineAssumption DEF Base
<1>2. /\ IsFiniteSet(1 .. n) /\ Cardinality(1 .. n) = n
      /\ IsFiniteSet(0 .. m - 1) /\ Cardinality(0 .. m - 1) = m
  <2>1. m - 1 \in Int /\ n - 1 + 1 = n /\ m - 1 - 0 + 1 = m /\ ~ (1 > n) /\ ~ (0 > m - 1)
    BY <1>1
  <2>2. IsFiniteSet(1 .. n) /\ Cardinality(1 .. n) = IF 1 > n THEN 0 ELSE n - 1 + 1
    BY FS_Interval
  <2>3. /\ IsFiniteSet(0 .. m - 1)
        /\ Cardinality(0 .. m - 1) = IF 0 > m - 1 THEN 0 ELSE m - 1 - 0 + 1
    BY <2>1, FS_Interval
  <2> QED
    BY <2>1, <2>2, <2>3
<1>3. stack \in [1 .. n -> 0 .. m - 1]
  BY <1>1 DEF Base, Pids
<1>4. \E i, j \in 1 .. n : i # j /\ stack[i] = stack[j]
  BY <1>1, <1>2, <1>3, FS_PigeonHole
<1> QED
  BY <1>3, <1>4 DEF Base, Distinct

\* An execute that starts a process.
Started(text, file) ==
    /\ file \in Found(Array(text)) /\ file \in Executables /\ NewPids # {}
    /\ stack' = Append(stack, Min(NewPids))
    /\ pcb' = [pcb EXCEPT ![Min(NewPids)] = StoreArguments(@, Array(text))]
    /\ prog' = [prog EXCEPT ![Min(NewPids)] = file]
    /\ asked' = [asked EXCEPT ![Min(NewPids)] = Request(text)]
    /\ Return(0)

\* The other ways in which a call ends without touching the processes.
Failed == Return(ERROR) /\ UNCHANGED <<stack, pcb, prog, asked>>

Got(nbytes) ==
    LET block == pcb[Last(stack)]
    IN  /\ size' = nbytes /\ buf' = Answer(block, nbytes)
        /\ ret' = IF block.arg_len = ERROR \/ nbytes < block.arg_len THEN ERROR ELSE 0
        /\ UNCHANGED <<stack, pcb, prog, asked>>

\* The kinds of steps.
LEMMA Steps ==
    ASSUME [Next]_vars
    PROVE  \/ \E text \in Commands : \E file \in Found(Array(text)) : Started(text, file)
           \/ Failed
           \/ sys_halt
           \/ \E nbytes \in Sizes : Got(nbytes)
           \/ UNCHANGED vars
<1>1. ASSUME NEW text \in Commands, sys_execute(text)
      PROVE  Failed \/ \E file \in Found(Array(text)) : Started(text, file)
  <2>1. PICK file \in Found(Array(text)) :
          IF file \in Executables /\ NewPids # {}
          THEN Started(text, file) ELSE Failed
    BY <1>1 DEF sys_execute, Started, Failed
  <2> QED
    BY <2>1
<1>2. ASSUME NEW nbytes \in Sizes, sys_getargs(nbytes)
      PROVE  Failed \/ Got(nbytes)
  <2>1. CASE Return(ERROR)
    BY <1>2, <2>1 DEF sys_getargs, Failed
  <2>2. CASE ~ Return(ERROR)
    BY <1>2, <2>2 DEF sys_getargs, Got, Answer
  <2> QED
    BY <2>1, <2>2
<1> QED
  BY <1>1, <1>2 DEF Next

\* Base holds after every step.
LEMMA BaseStep ==
    ASSUME Base, [Next]_vars
    PROVE  Base'
<1>1. ASSUME NEW text \in Commands, NEW file \in Found(Array(text)), Started(text, file)
      PROVE  Base'
  <2>1. PICK pid : pid = Min(NewPids)
    OBVIOUS
  <2>2. pid \in NewPids
    <3>1. NewPids \subseteq Nat /\ NewPids # {}
      BY <1>1 DEF NewPids, Pids, Started
    <3> QED
      BY <2>1, <3>1, MinOf
  <2>3. stack' \in Seq(Pids) /\ Len(stack') >= 1 /\ Distinct' /\ pid \in Pids
    BY <1>1, <2>1, <2>2, Pushed DEF Started
  <2>4. Array(text) \in Arrays
    BY TextFacts, CommandLineAssumption
  <2>5. StoreArguments(pcb[pid], Array(text)) \in Blocks
    BY <2>3, <2>4, StoreType DEF Base
  <2>6. pcb' \in [Pids -> Blocks]
    BY <1>1, <2>1, <2>3, <2>5 DEF Base, Started
  <2>7. prog' \in [Pids -> Executables \cup {<<>>}] /\ DOMAIN asked' = Pids
    BY <1>1, <2>1, <2>3 DEF Base, Started
  <2>8. buf' \in Buffers /\ ret' \in {0, ERROR}
    BY <1>1 DEF Started, Return, Buffers
  <2> QED
    BY <2>3, <2>6, <2>7, <2>8 DEF Base
<1>2. CASE Failed
  BY <1>2 DEF Failed, Return, Base, Distinct, Buffers
<1>3. CASE sys_halt
  <2>1. stack' \in Seq(Pids) /\ Len(stack') >= 1 /\ Distinct'
    BY <1>3, Popped DEF sys_halt
  <2>2. pcb' \in [Pids -> Blocks]
    BY <1>3, ZeroBlock, Running DEF Base, sys_halt
  <2>3. prog' \in [Pids -> Executables \cup {<<>>}] /\ DOMAIN asked' = Pids
    BY <1>3, Running DEF Base, sys_halt
  <2>4. buf' \in Buffers /\ ret' \in {0, ERROR}
    BY <1>3 DEF sys_halt, Return, Buffers
  <2> QED
    BY <2>1, <2>2, <2>3, <2>4 DEF Base
<1>4. ASSUME NEW nbytes \in Sizes, Got(nbytes) PROVE Base'
  <2>1. PICK block \in Blocks : block = pcb[Last(stack)]
    BY Running DEF Base
  <2>2. Answer(block, nbytes) \in Buffers
    <3>1. CASE block.arg_len = ERROR \/ nbytes < block.arg_len
      <4>1. Memory \in [0 .. MAX_ARG_LEN -> Chars \cup {Dirt}]
        BY DEF Memory
      <4> QED
        BY <3>1, <4>1 DEF Answer, Buffers
    <3>2. CASE ~ (block.arg_len = ERROR \/ nbytes < block.arg_len)
      <4>1. nbytes \in Int /\ block.arg_len \in Int
        BY CommandLineAssumption DEF Blocks
      <4> QED
        BY <3>2, <4>1, Answered DEF Buffers
    <3> QED
      BY <3>1, <3>2
  <2>3. buf' \in Buffers /\ ret' \in {0, ERROR}
    BY <1>4, <2>1, <2>2 DEF Got
  <2>4. UNCHANGED <<stack, pcb, prog, asked>>
    BY <1>4 DEF Got
  <2> QED
    BY <2>3, <2>4 DEF Base, Distinct
<1>5. CASE UNCHANGED vars
  BY <1>5 DEF vars, Base, Distinct
<1> QED
  BY <1>1, <1>2, <1>3, <1>4, <1>5, Steps

\* What programs pass ends where its first NUL is.
Strings == \A text \in Commands : Ended(text)

\* Served holds after every step.
LEMMA ServedStep ==
    ASSUME Strings, Base, Served, [Next]_vars
    PROVE  Served'
<1>1. ASSUME NEW text \in Commands, NEW file \in Found(Array(text)), Started(text, file)
      PROVE  Served'
  <2>1. PICK pid : pid = Min(NewPids)
    OBVIOUS
  <2>2. pid \in NewPids
    <3>1. NewPids \subseteq Nat /\ NewPids # {}
      BY <1>1 DEF NewPids, Pids, Started
    <3> QED
      BY <2>1, <3>1, MinOf
  <2>3. /\ pid \in Pids
        /\ \A i \in DOMAIN stack' : \/ stack'[i] = pid
                                    \/ \E j \in DOMAIN stack : /\ stack'[i] = stack[j]
                                                               /\ stack[j] # pid
    BY <1>1, <2>1, <2>2, Pushed DEF Started
  <2>4. PICK old, new :
          old \in Blocks /\ old = pcb[pid] /\ new = StoreArguments(old, Array(text))
    BY <2>3 DEF Base
  <2>5. Suits(Request(text), file, new)
    <3>1. text \in Texts /\ Ended(text)
      BY CommandLineAssumption DEF Strings
    <3> QED
      BY <2>4, <3>1, StoreSuits
  <2>6. /\ pcb'[pid] = new /\ prog'[pid] = file /\ asked'[pid] = Request(text)
        /\ \A p \in Pids : p # pid => /\ pcb'[p] = pcb[p] /\ prog'[p] = prog[p]
                                      /\ asked'[p] = asked[p]
    BY <1>1, <2>1, <2>3, <2>4 DEF Base, Started
  <2>7. ASSUME NEW i \in DOMAIN stack'
        PROVE  Suits(asked'[stack'[i]], prog'[stack'[i]], pcb'[stack'[i]])
    <3>1. CASE stack'[i] = pid
      BY <2>5, <2>6, <3>1
    <3>2. CASE stack'[i] # pid
      <4>1. PICK j \in DOMAIN stack : stack'[i] = stack[j] /\ stack[j] # pid
        BY <2>3, <2>7, <3>2
      <4>2. Suits(asked[stack[j]], prog[stack[j]], pcb[stack[j]]) /\ stack[j] \in Pids
        BY DEF Served, Suited, Base
      <4> QED
        BY <2>6, <4>1, <4>2
    <3> QED
      BY <3>1, <3>2
  <2>8. Suited'
    BY <2>7 DEF Suited
  <2>9. GetargsExact'
    BY <1>1 DEF Started, Return, GetargsExact
  <2> QED
    BY <2>8, <2>9 DEF Served
<1>2. CASE Failed
  <2>1. Suited'
    BY <1>2 DEF Failed, Served, Suited
  <2>2. GetargsExact'
    BY <1>2 DEF Failed, Return, GetargsExact
  <2> QED
    BY <2>1, <2>2 DEF Served
<1>3. CASE sys_halt
  <2>1. \A i \in DOMAIN stack' : /\ i \in DOMAIN stack /\ stack'[i] = stack[i]
                                 /\ stack[i] # Last(stack) /\ stack[i] \in Pids
    BY <1>3, Popped DEF sys_halt, Base
  <2>2. \A p \in Pids : p # Last(stack) => /\ pcb'[p] = pcb[p] /\ prog'[p] = prog[p]
                                           /\ asked'[p] = asked[p]
    BY <1>3, Running DEF Base, sys_halt
  <2>3. Suited'
    BY <2>1, <2>2 DEF Served, Suited
  <2>4. GetargsExact'
    BY <1>3 DEF sys_halt, Return, GetargsExact
  <2> QED
    BY <2>3, <2>4 DEF Served
<1>4. ASSUME NEW nbytes \in Sizes, Got(nbytes) PROVE Served'
  <2>1. PICK p, block : p = Last(stack) /\ block = pcb[p] /\ block \in Blocks
    BY Running DEF Base
  <2>2. Suits(asked[p], prog[p], block)
    BY <2>1, Running DEF Served, Suited
  <2>3. PICK request : request = asked[p]
    OBVIOUS
  <2>4. PICK n \in Int, z \in Int : n = block.arg_len /\ z = nbytes
    BY <2>1, CommandLineAssumption DEF Blocks
  <2>5. /\ asked'[Last(stack')] = request /\ size' = z /\ buf' = Answer(block, z)
        /\ ret' = IF n = ERROR \/ z < n THEN ERROR ELSE 0
    BY <1>4, <2>1, <2>3, <2>4 DEF Got
  <2>6. SUFFICES ASSUME Plain(request)
                 PROVE  IF request.args = NoWord \/ z < Len(request.args)
                        THEN ret' = ERROR /\ buf' = Memory
                        ELSE /\ ret' = 0
                             /\ Slice(buf', 0, Len(request.args)) = request.args
                             /\ z > Len(request.args) =>
                                  /\ buf'[Len(request.args)] = NUL
                                  /\ \A i \in z .. MAX_ARG_LEN : buf'[i] = Dirt
    <3>1. Suited'
      BY <1>4 DEF Got, Served, Suited
    <3> QED
      BY <2>5, <3>1 DEF Served, GetargsExact
  <2>7. CASE request.args = NoWord
    <3>1. n = ERROR
      BY <2>2, <2>3, <2>4, <2>6, <2>7 DEF Suits
    <3> QED
      BY <2>4, <2>5, <2>7, <3>1 DEF Answer
  <2>8. CASE request.args # NoWord
    <3>1. /\ n = Len(request.args) /\ n # ERROR
          /\ Slice(block.args, 0, n) = request.args
      BY <2>2, <2>3, <2>4, <2>6, <2>8 DEF Suits
    <3>2. CASE z < n
      BY <2>4, <2>5, <3>1, <3>2 DEF Answer
    <3>3. CASE ~ (z < n)
      <4>1. /\ Slice(buf', 0, n) = Slice(block.args, 0, n)
            /\ z > 0 => buf'[n] = NUL
            /\ \A i \in n + 1 .. MAX_ARG_LEN : buf'[i] = Dirt
        BY <2>1, <2>4, <2>5, <3>1, <3>3, Answered
      <4>2. n \in 0 .. MAX_ARG_LEN - 1
        BY <2>1, <2>4, <3>1, <3>3, Answered
      <4>3. ASSUME z > n
            PROVE  buf'[n] = NUL /\ \A i \in z .. MAX_ARG_LEN : buf'[i] = Dirt
        <5>1. PICK A \in Nat : A = MAX_ARG_LEN
          BY CommandLineAssumption
        <5>2. z > 0 /\ \A i \in z .. A : i \in n + 1 .. A
          BY <4>2, <4>3, <5>1
        <5> QED
          BY <4>1, <5>1, <5>2
      <4> QED
        BY <2>5, <2>8, <3>1, <3>3, <4>1, <4>3
    <3> QED
      BY <3>2, <3>3
  <2> QED
    BY <2>7, <2>8
<1>5. CASE UNCHANGED vars
  BY <1>5 DEF vars, Served, Suited, GetargsExact
<1> QED
  BY <1>1, <1>2, <1>3, <1>4, <1>5, Steps

-----------------------------------------------------------------------------
(***************************************************************************)
(* The theorems.                                                           *)
(***************************************************************************)

\* Whatever programs pass to execute, a command with NULs in it or one that fills its
\* buffers included, the arguments stay within args and pcb, and the stack of the
\* terminal holds from one to MAX_PROCESSES pids.
THEOREM Typing == Spec => []TypeOK
<1>1. Init => Base
  BY Starts
<1>2. Base /\ [Next]_vars => Base'
  BY BaseStep
<1>3. Base => TypeOK
  <2> SUFFICES ASSUME Base PROVE TypeOK
    OBVIOUS
  <2>1. Len(stack) \in 1 .. MAX_PROCESSES /\ \A i \in DOMAIN stack : stack[i] \in Pids
    BY StackBound, CommandLineAssumption DEF Base
  <2> QED
    BY <2>1 DEF Base, TypeOK, Blocks, Arrays, Buffers
<1> QED
  BY <1>1, <1>2, <1>3, PTL DEF Spec

\* If no space is behind the NUL that ends a command, then every process is the program
\* that its command names and has the arguments of that command, whatever else has been
\* executed and has ended under its pid or above it.
THEOREM CommandsObeyed ==
    ASSUME Strings
    PROVE  Spec => []AsAsked
<1>1. Init => Base /\ Served
  BY Starts
<1>2. Base /\ Served /\ [Next]_vars => (Base /\ Served)'
  BY BaseStep, ServedStep
<1>3. Served => AsAsked
  BY DEF Served, Suited, Suits, AsAsked
<1> QED
  BY <1>1, <1>2, <1>3, PTL DEF Spec

\* Under the same condition getargs gives a program all of the arguments of its command
\* or nothing, and in a buffer with room for it ends them with a NUL and writes nothing
\* outside.
THEOREM ArgumentsReturned ==
    ASSUME Strings
    PROVE  Spec => []GetargsExact
<1>1. Init => Base /\ Served
  BY Starts
<1>2. Base /\ Served /\ [Next]_vars => (Base /\ Served)'
  BY BaseStep, ServedStep
<1>3. Served => GetargsExact
  BY DEF Served
<1> QED
  BY <1>1, <1>2, <1>3, PTL DEF Spec
=============================================================================
