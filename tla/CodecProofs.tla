---------------------------- MODULE CodecProofs ------------------------------
(***************************************************************************)
(* Proofs about the wire: a message between encoder and parser (Codec) and *)
(* the names that handlers register (Registry), for every line limit and   *)
(* every length of a text.                                                 *)
(***************************************************************************)
EXTENDS Registry, SequenceTheorems, FiniteSetTheorems, WellFoundedInduction, TLAPS

-----------------------------------------------------------------------------
(* Texts *)

\* Every lexeme of a line, the digits of an error code included.
Symbol ==
    Lexeme \cup Word \cup {"0", "2", "3", "4", "5", "6", "7", "8", "9"}
    \cup {"NOP", "BYE", "HELP", "RESET", "OPTION"}
Text == Seq(Symbol)

\* The empty text,
LEMMA NoText == <<>> \in Text /\ Len(<<>>) = 0
BY DEF Text

\* texts of one lexeme
LEMMA OneLexeme ==
    ASSUME NEW a \in Symbol
    PROVE  <<a>> \in Text /\ Len(<<a>>) = 1 /\ <<a>>[1] = a
BY DEF Text

\* and of two.
LEMMA TwoLexemes ==
    ASSUME NEW a \in Symbol, NEW b \in Symbol
    PROVE  <<a, b>> \in Text /\ Len(<<a, b>>) = 2 /\ <<a, b>>[1] = a /\ <<a, b>>[2] = b
BY DEF Text

\* validate_line (command.rs) looks for CR, LF and NUL.
LEMMA ValidLine ==
    ASSUME NEW s \in Text
    PROVE  validate_line(s) <=> \A i \in 1..Len(s) : s[i] # "nl"
<1>1. DOMAIN s = 1..Len(s)
  BY DEF Text
<1> QED BY <1>1, Zenon DEF validate_line, Range

\* Texts are equal lexeme by lexeme.
LEMMA SameText ==
    ASSUME NEW s \in Text, NEW t \in Text, Len(s) = Len(t), \A i \in 1..Len(s) : s[i] = t[i]
    PROVE  s = t
BY SeqEqual DEF Text

\* Two texts joined, and their lexemes.
LEMMA Joined ==
    ASSUME NEW s \in Text, NEW t \in Text
    PROVE  /\ s \o t \in Text /\ Len(s \o t) = Len(s) + Len(t)
           /\ Len(s) \in Nat /\ Len(t) \in Nat
           /\ \A i \in 1..Len(s) : (s \o t)[i] = s[i]
           /\ \A i \in 1..Len(t) : (s \o t)[Len(s) + i] = t[i]
BY DEF Text

\* A piece of a text, and its lexemes.
LEMMA Piece ==
    ASSUME NEW s \in Text, NEW m \in Nat, NEW n \in Nat, m <= n, n <= Len(s)
    PROVE  /\ SubSeq(s, m + 1, n) \in Text /\ Len(SubSeq(s, m + 1, n)) = n - m
           /\ \A i \in 1..(n - m) : SubSeq(s, m + 1, n)[i] = s[m + i]
<1>1. \A i \in (m + 1)..n : s[i] \in Symbol
  BY DEF Text
<1>2. /\ SubSeq(s, m + 1, n) = [i \in 1..(n - m) |-> s[i + m]]
  BY DEF Text
<1> QED BY <1>1, <1>2 DEF Text

\* Two texts that were joined come apart again: the front
LEMMA FrontOfJoined ==
    ASSUME NEW s \in Text, NEW t \in Text
    PROVE  SubSeq(s \o t, 1, Len(s)) = s
<1>1. /\ s \o t \in Text /\ Len(s \o t) = Len(s) + Len(t) /\ Len(s) \in Nat /\ Len(t) \in Nat
      /\ \A i \in 1..Len(s) : (s \o t)[i] = s[i]
  BY Joined, Zenon
<1> DEFINE j == s \o t
           n == Len(s)
<1> HIDE DEF j, n
<1>2. SubSeq(j, 0 + 1, n) \in Text /\ Len(SubSeq(j, 0 + 1, n)) = n - 0
      /\ \A i \in 1..(n - 0) : SubSeq(j, 0 + 1, n)[i] = j[0 + i]
  <2>1. j \in Text /\ n \in Nat /\ 0 \in Nat /\ 0 <= n /\ n <= Len(j)
    BY <1>1 DEF j, n
  <2> QED BY <2>1, Piece, Zenon
<1>3. /\ SubSeq(j, 1, n) \in Text /\ Len(SubSeq(j, 1, n)) = n
      /\ \A i \in 1..n : SubSeq(j, 1, n)[i] = s[i]
  BY <1>1, <1>2 DEF j, n
<1>4. SubSeq(j, 1, n) = s
  BY <1>3, SameText, Zenon DEF n
<1> QED BY <1>4, Zenon DEF j, n

\* and the rest.
LEMMA RestOfJoined ==
    ASSUME NEW s \in Text, NEW t \in Text
    PROVE  SubSeq(s \o t, Len(s) + 1, Len(s \o t)) = t
<1>1. /\ s \o t \in Text /\ Len(s \o t) = Len(s) + Len(t) /\ Len(s) \in Nat /\ Len(t) \in Nat
      /\ \A i \in 1..Len(t) : (s \o t)[Len(s) + i] = t[i]
  BY Joined, Zenon
<1> DEFINE j == s \o t
           n == Len(s)
           m == Len(t)
<1>2. j \in Text /\ n \in Nat /\ m \in Nat /\ Len(j) = n + m /\ n <= Len(j) /\ Len(j) \in Nat
      /\ Len(j) <= Len(j)
  BY <1>1
<1>3. \A i \in 1..m : j[n + i] = t[i]
  BY <1>1, Zenon
<1> HIDE DEF j, n, m
<1>4. /\ SubSeq(j, n + 1, Len(j)) \in Text /\ Len(SubSeq(j, n + 1, Len(j))) = Len(j) - n
      /\ \A i \in 1..(Len(j) - n) : SubSeq(j, n + 1, Len(j))[i] = j[n + i]
  BY <1>2, Piece, Zenon
<1>5. Len(j) - n = m
  BY <1>2
<1>6. /\ SubSeq(j, n + 1, Len(j)) \in Text /\ Len(SubSeq(j, n + 1, Len(j))) = m
      /\ \A i \in 1..m : SubSeq(j, n + 1, Len(j))[i] = t[i]
  BY <1>3, <1>4, <1>5, Zenon
<1>7. SubSeq(j, n + 1, Len(j)) = t
  BY <1>6, SameText, Zenon DEF m
<1> QED BY <1>7, Zenon DEF j, n

-----------------------------------------------------------------------------
\* The order of the natural numbers as a relation.
Less == {ss \in Nat \X Nat : ss[1] < ss[2]}

\* It is well-founded.
LEMMA LessIsWellFounded == IsWellFoundedOn(Less, Nat)
BY NatLessThanWellFounded, Zenon DEF OpToRel, Less

\* A set of natural numbers that is not empty has a least element.
LEMMA LeastElement ==
    ASSUME NEW T, T \subseteq Nat, T # {}
    PROVE  \E m \in T : \A k \in T : m <= k
<1>1. PICK m \in T : \A k \in T : ~(<<k, m>> \in Less)
  BY LessIsWellFounded, WFMin, Zenon
<1>2. ASSUME NEW k \in T
      PROVE  m <= k
  <2>1. m \in Nat /\ k \in Nat
    BY <1>1
  <2>2. ~(<<k, m>> \in Less)
    BY <1>1, Zenon
  <2>3. ~(k < m)
    BY <2>1, <2>2, Zenon DEF Less
  <2> QED BY <2>1, <2>3
<1> QED BY <1>1, <1>2, Zenon

\* Min is that element.
LEMMA LeastIsMin ==
    ASSUME NEW T, T \subseteq Nat, T # {}
    PROVE  Min(T) \in T /\ \A k \in T : Min(T) <= k
<1>1. \E m \in T : \A k \in T : m <= k
  BY LeastElement, Zenon
<1> QED BY <1>1, Zenon DEF Min

\* The recursion that concat is defined by.
Unfolds(f, s, n) == f = [i \in 0..n |-> IF i = 0 THEN <<>> ELSE f[i - 1] \o s[i]]

\* It has a solution.
LEMMA UnfoldsExists ==
    ASSUME NEW s, NEW n \in Nat
    PROVE  \E f : Unfolds(f, s, n)
<1> DEFINE Bad == {m \in Nat : ~\E f : Unfolds(f, s, m)}
<1>1. SUFFICES Bad = {}
  BY Zenon
<1>2. SUFFICES ASSUME Bad # {} PROVE FALSE
  BY Zenon
<1>3. PICK m \in Bad : \A k \in Bad : m <= k
  <2>1. Bad \subseteq Nat
    BY Zenon
  <2> QED BY <1>2, <2>1, LeastElement, Zenon
<1>4. CASE m = 0
  <2> DEFINE f == [i \in 0..0 |-> <<>>]
  <2>1. Unfolds(f, s, 0)
    BY DEF Unfolds
  <2> QED BY <1>3, <1>4, <2>1, Zenon
<1>5. CASE m # 0
  <2>1. m \in Nat /\ m - 1 \in Nat /\ ~(m <= m - 1)
    BY <1>3, <1>5
  <2>2. m - 1 \notin Bad
    BY <1>3, <2>1, Zenon
  <2>3. PICK f : Unfolds(f, s, m - 1)
    BY <2>1, <2>2, Zenon
  <2> DEFINE more == f[m - 1] \o s[m]
             g == [i \in 0..m |-> IF i = m THEN more ELSE f[i]]
  <2>4. \A i \in 0..(m - 1) : f[i] = IF i = 0 THEN <<>> ELSE f[i - 1] \o s[i]
    BY <2>3, Zenon DEF Unfolds
  <2>5. ASSUME NEW i \in 0..m
        PROVE  g[i] = IF i = 0 THEN <<>> ELSE g[i - 1] \o s[i]
    <3>1. CASE i = m
      <4>1. g[i] = more /\ g[i - 1] = f[m - 1] /\ i # 0
        BY <1>5, <2>1, <3>1
      <4> QED BY <3>1, <4>1, Zenon
    <3>2. CASE i # m
      <4>1. i \in 0..(m - 1) /\ g[i] = f[i]
        BY <2>1, <3>2
      <4>2. i # 0 => g[i - 1] = f[i - 1]
        BY <2>1, <3>2
      <4> QED BY <2>4, <4>1, <4>2, Zenon
    <3> QED BY <3>1, <3>2, Zenon
  <2>6. g = [i \in 0..m |-> g[i]]
    BY Zenon
  <2> HIDE DEF g
  <2>7. Unfolds(g, s, m)
    BY <2>5, <2>6, Zenon DEF Unfolds
  <2> QED BY <1>3, <2>7, Zenon
<1> QED BY <1>4, <1>5, Zenon

\* It depends on nothing but the parts it has joined.
LEMMA UnfoldsAgree ==
    ASSUME NEW f, NEW s, NEW n \in Nat, Unfolds(f, s, n),
           NEW g, NEW t, NEW m \in Nat, Unfolds(g, t, m), n <= m,
           \A i \in 1..n : s[i] = t[i]
    PROVE  \A k \in 0..n : f[k] = g[k]
<1> DEFINE Bad == {k \in 0..n : f[k] # g[k]}
<1>1. SUFFICES ASSUME Bad # {} PROVE FALSE
  BY Zenon
<1>2. PICK k \in Bad : \A i \in Bad : k <= i
  <2>1. Bad \subseteq Nat
    OBVIOUS
  <2> QED BY <1>1, <2>1, LeastElement, Zenon
<1>3. k \in 0..n /\ k \in 0..m /\ f[k] # g[k]
  BY <1>2
<1>4. /\ f[k] = IF k = 0 THEN <<>> ELSE f[k - 1] \o s[k]
      /\ g[k] = IF k = 0 THEN <<>> ELSE g[k - 1] \o t[k]
  BY <1>3, Zenon DEF Unfolds
<1>5. k # 0
  BY <1>3, <1>4, Zenon
<1>6. k - 1 \in 0..n /\ ~(k <= k - 1) /\ k \in 1..n
  BY <1>3, <1>5
<1>7. f[k - 1] = g[k - 1] /\ s[k] = t[k]
  BY <1>2, <1>6, Zenon
<1> QED BY <1>3, <1>4, <1>5, <1>7, Zenon

\* concat follows the recursion.
LEMMA ConcatUnfolds ==
    ASSUME NEW s, Len(s) \in Nat
    PROVE  \E f : Unfolds(f, s, Len(s)) /\ concat(s) = f[Len(s)]
<1> DEFINE n == Len(s)
           f == CHOOSE h : h = [i \in 0..n |-> IF i = 0 THEN <<>> ELSE h[i - 1] \o s[i]]
<1>1. \E h : Unfolds(h, s, n)
  BY UnfoldsExists, Zenon
<1>2. Unfolds(f, s, n)
  BY <1>1, Zenon DEF Unfolds
<1>3. concat(s) = f[n]
  BY Zenon DEF concat
<1> HIDE DEF f
<1> QED BY <1>2, <1>3, Zenon

\* What write_parts (encode.rs) joins: no parts,
LEMMA ConcatNone == concat(<<>>) = <<>>
<1> DEFINE s == <<>>
<1>1. Len(s) = 0 /\ Len(s) \in Nat /\ 0 \in 0..0
  OBVIOUS
<1> HIDE DEF s
<1>2. PICK f : Unfolds(f, s, Len(s)) /\ concat(s) = f[Len(s)]
  BY <1>1, ConcatUnfolds, Zenon
<1>3. f[0] = <<>>
  BY <1>1, <1>2 DEF Unfolds
<1> QED BY <1>1, <1>2, <1>3, Zenon DEF s

\* and one part more.
LEMMA ConcatMore ==
    ASSUME NEW s, NEW t, Len(s) \in Nat, Len(t) = Len(s) + 1,
           \A i \in 1..Len(s) : s[i] = t[i]
    PROVE  concat(t) = concat(s) \o t[Len(t)]
<1> DEFINE n == Len(s)
           m == n + 1
<1>1. n \in Nat /\ m \in Nat /\ n <= m /\ n \in 0..n /\ m \in 0..m /\ m # 0 /\ m - 1 = n
  OBVIOUS
<1>2. Len(t) = m /\ Len(t) \in Nat
  BY <1>1
<1>3. PICK f : Unfolds(f, s, n) /\ concat(s) = f[n]
  BY ConcatUnfolds, Zenon
<1>4. PICK g : Unfolds(g, t, Len(t)) /\ concat(t) = g[Len(t)]
  BY <1>2, ConcatUnfolds, Zenon
<1>5. Unfolds(g, t, m) /\ concat(t) = g[m]
  BY <1>2, <1>4, Zenon
<1> HIDE DEF m, n
<1>6. \A k \in 0..n : f[k] = g[k]
  <2>1. \A i \in 1..n : s[i] = t[i]
    BY Zenon DEF n
  <2> QED BY <1>1, <1>3, <1>5, <2>1, UnfoldsAgree
<1>7. g[m] = g[m - 1] \o t[m]
  BY <1>1, <1>5, Zenon DEF Unfolds
<1> QED BY <1>1, <1>2, <1>3, <1>5, <1>6, <1>7, Zenon

\* One part,
LEMMA ConcatOne ==
    ASSUME NEW a \in Text
    PROVE  concat(<<a>>) = a
<1> DEFINE s == <<>>
           t == <<a>>
<1>1. Len(s) = 0 /\ Len(s) \in Nat /\ Len(t) = Len(s) + 1 /\ t[Len(t)] = a
  OBVIOUS
<1>2. \A i \in 1..Len(s) : s[i] = t[i]
  OBVIOUS
<1>3. <<>> \o a = a
  BY DEF Text
<1>4. concat(s) = <<>>
  BY ConcatNone, Zenon
<1> HIDE DEF s, t
<1>5. concat(t) = concat(s) \o t[Len(t)]
  BY <1>1, <1>2, ConcatMore, Zenon
<1>6. concat(t) = a
  BY <1>1, <1>3, <1>4, <1>5, Zenon
<1> QED BY <1>6, Zenon DEF t

\* two,
LEMMA ConcatTwo ==
    ASSUME NEW a \in Text, NEW b \in Text
    PROVE  concat(<<a, b>>) = a \o b
<1> DEFINE s == <<a>>
           t == <<a, b>>
<1>1. Len(s) \in Nat /\ Len(t) = Len(s) + 1 /\ t[Len(t)] = b
  OBVIOUS
<1>2. \A i \in 1..Len(s) : s[i] = t[i]
  OBVIOUS
<1>3. concat(s) = a
  BY ConcatOne, Zenon
<1> HIDE DEF s, t
<1>4. concat(t) = concat(s) \o t[Len(t)]
  BY <1>1, <1>2, ConcatMore, Zenon
<1>5. concat(t) = a \o b
  BY <1>1, <1>3, <1>4, Zenon
<1> QED BY <1>5, Zenon DEF t

\* three
LEMMA ConcatThree ==
    ASSUME NEW a \in Text, NEW b \in Text, NEW c \in Text
    PROVE  concat(<<a, b, c>>) = (a \o b) \o c
<1> DEFINE s == <<a, b>>
           t == <<a, b, c>>
<1>1. Len(s) \in Nat /\ Len(t) = Len(s) + 1 /\ t[Len(t)] = c
  OBVIOUS
<1>2. \A i \in 1..Len(s) : s[i] = t[i]
  OBVIOUS
<1>3. concat(s) = a \o b
  BY ConcatTwo, Zenon
<1> HIDE DEF s, t
<1>4. concat(t) = concat(s) \o t[Len(t)]
  BY <1>1, <1>2, ConcatMore, Zenon
<1>5. concat(t) = (a \o b) \o c
  BY <1>1, <1>3, <1>4, Zenon
<1> QED BY <1>5, Zenon DEF t

\* and four.
LEMMA ConcatFour ==
    ASSUME NEW t \in Seq(Text), Len(t) = 4
    PROVE  concat(t) = ((t[1] \o t[2]) \o t[3]) \o t[4]
<1> DEFINE s == <<t[1], t[2], t[3]>>
<1>1. t[1] \in Text /\ t[2] \in Text /\ t[3] \in Text
  <2>1. 1 \in 1..Len(t) /\ 2 \in 1..Len(t) /\ 3 \in 1..Len(t)
    OBVIOUS
  <2> QED BY <2>1, ElementOfSeq, Zenon
<1>2. Len(s) \in Nat /\ Len(t) = Len(s) + 1
  OBVIOUS
<1>3. \A i \in 1..Len(s) : s[i] = t[i]
  <2>1. Len(s) = 3 /\ s[1] = t[1] /\ s[2] = t[2] /\ s[3] = t[3]
    OBVIOUS
  <2> HIDE DEF s
  <2>2. \A i \in 1..Len(s) : i = 1 \/ i = 2 \/ i = 3
    BY <2>1
  <2> QED BY <2>1, <2>2, Zenon
<1>4. concat(s) = (t[1] \o t[2]) \o t[3]
  BY <1>1, ConcatThree, Zenon
<1> HIDE DEF s
<1>5. concat(t) = concat(s) \o t[Len(t)]
  BY <1>2, <1>3, ConcatMore, Zenon
<1> QED BY <1>4, <1>5, Zenon

\* The size of a text in bytes.
LEMMA BytesIsNat ==
    ASSUME NEW s \in Text
    PROVE  Bytes(s) \in Nat /\ (s = <<>> => Bytes(s) = 0)
<1> DEFINE wide == {i \in DOMAIN s : s[i] = "e"}
<1>1. DOMAIN s = 1..Len(s) /\ Len(s) \in Nat
  BY DEF Text
<1>2. IsFiniteSet(1..Len(s))
  BY <1>1, FS_Interval
<1>3. IsFiniteSet(wide) /\ Cardinality(wide) \in Nat
  <2>1. wide \in SUBSET (1..Len(s))
    BY <1>1
  <2> QED BY <2>1, <1>2, FS_Subset, FS_CardinalityType, Zenon
<1>4. s = <<>> => Len(s) = 0 /\ Cardinality(wide) = 0
  <2>1. SUFFICES ASSUME s = <<>> PROVE Len(s) = 0 /\ Cardinality(wide) = 0
    OBVIOUS
  <2>2. Len(s) = 0
    BY <2>1
  <2>3. wide = {}
    BY <2>2, <1>1
  <2> QED BY <2>2, <2>3, FS_EmptySet, Zenon
<1> HIDE DEF wide
<1>5. Bytes(s) = Len(s) + Cardinality(wide)
  BY Zenon DEF Bytes, wide
<1> QED BY <1>1, <1>3, <1>4, <1>5

\* What write_parts lets out is writable.
LEMMA WritesParts ==
    ASSUME NEW parts, NEW n \in Nat, parts \in Seq(Text), Len(parts) = n,
           concat(parts) \in Text, ~IsError(write_parts(parts))
    PROVE  /\ write_parts(parts) = [line |-> concat(parts)]
           /\ \A i \in 1..n : validate_line(parts[i])
           /\ n # 0 \/ concat(parts) = <<>> => Bytes(concat(parts)) + 1 <= MaxLine
<1>1. BadParts(parts) = {}
  <2>1. SUFFICES ASSUME BadParts(parts) # {}
                 PROVE  IsError(write_parts(parts))
    OBVIOUS
  <2> QED BY <2>1 DEF write_parts, IsError, Refused
<1>2. write_parts(parts) = [line |-> concat(parts)]
  BY <1>1, Zenon DEF write_parts
<1>3. \A i \in 1..n : validate_line(parts[i]) /\ ~(Size(SubSeq(parts, 1, i)) > MaxLine)
  <2>1. DOMAIN parts = 1..n
    OBVIOUS
  <2> QED BY <1>1, <2>1, Zenon DEF BadParts
<1>5. Bytes(concat(parts)) \in Nat /\ MaxLine \in Nat /\ MaxLine >= 6
  BY BytesIsNat, DataAssumption, Zenon
<1>6. CASE n # 0
  <2>1. SubSeq(parts, 1, n) = parts /\ n \in 1..n
    BY <1>6
  <2>2. ~(1 + Bytes(concat(parts)) > MaxLine)
    BY <2>1, <1>3, Zenon DEF Size
  <2>3. Bytes(concat(parts)) + 1 <= MaxLine
    BY <2>2, <1>5
  <2> QED BY <2>3, <1>2, <1>3, Zenon
<1>7. CASE n = 0
  <2>1. concat(parts) = <<>> => Bytes(concat(parts)) = 0
    BY BytesIsNat, Zenon
  <2>2. concat(parts) = <<>> => Bytes(concat(parts)) + 1 <= MaxLine
    BY <2>1, <1>5
  <2> QED BY <2>2, <1>7, <1>2, <1>3, Zenon
<1> QED BY <1>6, <1>7, Zenon

\* A line is valid if both its parts are.
LEMMA ValidJoined ==
    ASSUME NEW s \in Text, NEW t \in Text
    PROVE  validate_line(s \o t) <=> validate_line(s) /\ validate_line(t)
<1> DEFINE j == s \o t
<1>1. /\ j \in Text /\ Len(j) = Len(s) + Len(t) /\ Len(s) \in Nat /\ Len(t) \in Nat
      /\ \A i \in 1..Len(s) : j[i] = s[i]
      /\ \A i \in 1..Len(t) : j[Len(s) + i] = t[i]
  BY Joined, Zenon
<1> HIDE DEF j
<1>2. (\A i \in 1..Len(j) : j[i] # "nl")
      <=> (\A i \in 1..Len(s) : s[i] # "nl") /\ (\A i \in 1..Len(t) : t[i] # "nl")
  <2>1. ASSUME \A i \in 1..Len(j) : j[i] # "nl"
        PROVE  (\A i \in 1..Len(s) : s[i] # "nl") /\ (\A i \in 1..Len(t) : t[i] # "nl")
    <3>1. \A i \in 1..Len(s) : i \in 1..Len(j)
      BY <1>1
    <3>2. \A i \in 1..Len(t) : Len(s) + i \in 1..Len(j)
      BY <1>1
    <3> QED BY <2>1, <3>1, <3>2, <1>1, Zenon
  <2>2. ASSUME \A i \in 1..Len(s) : s[i] # "nl", \A i \in 1..Len(t) : t[i] # "nl",
               NEW i \in 1..Len(j)
        PROVE  j[i] # "nl"
    <3>1. CASE i \in 1..Len(s)
      BY <3>1, <2>2, <1>1, Zenon
    <3>2. CASE i \notin 1..Len(s)
      <4>1. i - Len(s) \in 1..Len(t) /\ Len(s) + (i - Len(s)) = i
        BY <3>2, <1>1
      <4> QED BY <4>1, <2>2, <1>1, Zenon
    <3> QED BY <3>1, <3>2, Zenon
  <2> QED BY <2>1, <2>2, Zenon
<1>3. validate_line(j) <=> \A i \in 1..Len(j) : j[i] # "nl"
  BY <1>1, ValidLine, Zenon
<1>4. validate_line(s) <=> \A i \in 1..Len(s) : s[i] # "nl"
  BY ValidLine, Zenon
<1>5. validate_line(t) <=> \A i \in 1..Len(t) : t[i] # "nl"
  BY ValidLine, Zenon
<1> QED BY <1>2, <1>3, <1>4, <1>5, Zenon DEF j

\* The line of one part that write_parts lets out,
LEMMA LineOfOne ==
    ASSUME NEW a \in Text, ~IsError(write_parts(<<a>>))
    PROVE  write_parts(<<a>>) = [line |-> a] /\ Writable(a) /\ validate_line(a)
<1> DEFINE parts == <<a>>
<1>1. parts \in Seq(Text) /\ Len(parts) = 1 /\ parts[1] = a /\ 1 \in Nat /\ 1 \in 1..1 /\ 1 # 0
  OBVIOUS
<1>2. concat(parts) = a
  BY ConcatOne, Zenon
<1> HIDE DEF parts
<1>3. /\ write_parts(parts) = [line |-> a] /\ validate_line(parts[1])
      /\ Bytes(a) + 1 <= MaxLine
  BY <1>1, <1>2, WritesParts, Zenon DEF parts
<1> QED BY <1>1, <1>3, Zenon DEF Writable, parts

\* of two,
LEMMA LineOfTwo ==
    ASSUME NEW a \in Text, NEW b \in Text, ~IsError(write_parts(<<a, b>>))
    PROVE  /\ write_parts(<<a, b>>) = [line |-> a \o b] /\ Writable(a \o b)
           /\ validate_line(a) /\ validate_line(b)
<1> DEFINE parts == <<a, b>>
<1>1. /\ parts \in Seq(Text) /\ Len(parts) = 2 /\ parts[1] = a /\ parts[2] = b
      /\ 2 \in Nat /\ 1 \in 1..2 /\ 2 \in 1..2 /\ 2 # 0
  OBVIOUS
<1>2. concat(parts) = a \o b
  BY ConcatTwo, Zenon
<1>3. a \o b \in Text
  BY Joined, Zenon
<1> HIDE DEF parts
<1>4. /\ write_parts(parts) = [line |-> a \o b]
      /\ validate_line(parts[1]) /\ validate_line(parts[2])
      /\ Bytes(a \o b) + 1 <= MaxLine
  BY <1>1, <1>2, <1>3, WritesParts, Zenon DEF parts
<1> QED BY <1>1, <1>4, ValidJoined, Zenon DEF Writable, parts

\* of three
LEMMA LineOfThree ==
    ASSUME NEW a \in Text, NEW b \in Text, NEW c \in Text, ~IsError(write_parts(<<a, b, c>>))
    PROVE  /\ write_parts(<<a, b, c>>) = [line |-> (a \o b) \o c] /\ Writable((a \o b) \o c)
           /\ validate_line(a) /\ validate_line(b) /\ validate_line(c)
<1> DEFINE parts == <<a, b, c>>
<1>1. /\ parts \in Seq(Text) /\ Len(parts) = 3 /\ parts[1] = a /\ parts[2] = b /\ parts[3] = c
      /\ 3 \in Nat /\ 1 \in 1..3 /\ 2 \in 1..3 /\ 3 \in 1..3 /\ 3 # 0
  OBVIOUS
<1>2. concat(parts) = (a \o b) \o c
  BY ConcatThree, Zenon
<1>3. a \o b \in Text /\ (a \o b) \o c \in Text
  BY Joined, Zenon
<1> HIDE DEF parts
<1>4. /\ write_parts(parts) = [line |-> (a \o b) \o c]
      /\ validate_line(parts[1]) /\ validate_line(parts[2]) /\ validate_line(parts[3])
      /\ Bytes((a \o b) \o c) + 1 <= MaxLine
  BY <1>1, <1>2, <1>3, WritesParts, Zenon DEF parts
<1> QED BY <1>1, <1>3, <1>4, ValidJoined, Zenon DEF Writable, parts

\* and of four parts: a channel writes it (channel.rs:164).
LEMMA LineOfFour ==
    ASSUME NEW parts \in Seq(Text), Len(parts) = 4, ~IsError(write_parts(parts))
    PROVE  LET line == ((parts[1] \o parts[2]) \o parts[3]) \o parts[4] IN
           write_parts(parts) = [line |-> line] /\ Writable(line)
<1> DEFINE a == parts[1]
           b == parts[2]
           c == parts[3]
           d == parts[4]
<1>1. 4 \in Nat /\ 1 \in 1..4 /\ 2 \in 1..4 /\ 3 \in 1..4 /\ 4 \in 1..4 /\ 4 # 0
  OBVIOUS
<1>t. a \in Text /\ b \in Text /\ c \in Text /\ d \in Text
  BY <1>1, ElementOfSeq, Zenon
<1>2. concat(parts) = ((a \o b) \o c) \o d
  BY ConcatFour, Zenon
<1> HIDE DEF a, b, c, d
<1>a. a \o b \in Text /\ (a \o b) \o c \in Text
  BY <1>t, Joined, Zenon
<1>3. a \o b \in Text /\ (a \o b) \o c \in Text /\ ((a \o b) \o c) \o d \in Text
  BY <1>t, <1>a, Joined, Zenon
<1>4. /\ write_parts(parts) = [line |-> ((a \o b) \o c) \o d]
      /\ validate_line(a) /\ validate_line(b) /\ validate_line(c) /\ validate_line(d)
      /\ Bytes(((a \o b) \o c) \o d) + 1 <= MaxLine
  BY <1>1, <1>2, <1>3, WritesParts, Zenon DEF a, b, c, d
<1>5. Writable(((a \o b) \o c) \o d)
  BY <1>t, <1>3, <1>4, ValidJoined, Zenon DEF Writable
<1> QED BY <1>4, <1>5, Zenon DEF a, b, c, d

-----------------------------------------------------------------------------
(* The parsers *)

\* How the first lexemes decide the comparisons of the parsers.
LEMMA StartsWith ==
    ASSUME NEW line \in Text
    PROVE  /\ line = <<>> <=> Len(line) = 0
           /\ \A a \in Symbol : /\ line = <<a>> <=> Len(line) = 1 /\ line[1] = a
                                /\ starts_with(line, <<a>>) <=> Len(line) >= 1 /\ line[1] = a
           /\ \A a, b \in Symbol :
                 starts_with(line, <<a, b>>) <=> Len(line) >= 2 /\ line[1] = a /\ line[2] = b
<1>1. line = <<>> <=> Len(line) = 0
  BY DEF Text
<1>2. ASSUME NEW a \in Symbol
      PROVE  /\ line = <<a>> <=> Len(line) = 1 /\ line[1] = a
             /\ starts_with(line, <<a>>) <=> Len(line) >= 1 /\ line[1] = a
  <2>1. line = <<a>> <=> Len(line) = 1 /\ line[1] = a
    BY DEF Text
  <2>2. starts_with(line, <<a>>) <=> Len(line) >= 1 /\ line[1] = a
    <3> DEFINE p == <<a>>
               head == SubSeq(line, 1, 1)
    <3>1. Len(p) = 1 /\ p[1] = a /\ p \in Seq(Symbol)
      OBVIOUS
    <3> HIDE DEF p
    <3>2. ASSUME Len(line) >= 1
          PROVE  head \in Seq(Symbol) /\ Len(head) = 1 /\ head[1] = line[1]
      BY <3>2 DEF Text
    <3>3. starts_with(line, p) <=> Len(line) >= 1 /\ head = p
      BY <3>1 DEF Text, starts_with
    <3> HIDE DEF head
    <3>4. ASSUME Len(line) >= 1 PROVE head = p <=> head[1] = p[1]
      BY <3>1, <3>2, <3>4
    <3> QED BY <3>1, <3>2, <3>3, <3>4, Zenon DEF p
  <2> QED BY <2>1, <2>2, Zenon
<1>3. ASSUME NEW a \in Symbol, NEW b \in Symbol
      PROVE  starts_with(line, <<a, b>>) <=> Len(line) >= 2 /\ line[1] = a /\ line[2] = b
  <2> DEFINE p == <<a, b>>
             head == SubSeq(line, 1, 2)
  <2>1. Len(p) = 2 /\ p[1] = a /\ p[2] = b /\ p \in Seq(Symbol)
    OBVIOUS
  <2> HIDE DEF p
  <2>2. ASSUME Len(line) >= 2
        PROVE  /\ head \in Seq(Symbol) /\ Len(head) = 2
               /\ head[1] = line[1] /\ head[2] = line[2]
    BY <2>2 DEF Text
  <2>3. starts_with(line, p) <=> Len(line) >= 2 /\ head = p
    BY <2>1 DEF Text, starts_with
  <2> HIDE DEF head
  <2>4. ASSUME Len(line) >= 2 PROVE head = p <=> head[1] = p[1] /\ head[2] = p[2]
    BY <2>1, <2>2, <2>4
  <2> QED BY <2>1, <2>2, <2>3, <2>4, Zenon DEF p
<1> QED BY <1>1, <1>2, <1>3, Zenon

\* The lexemes that the parsers compare with.
LEMMA Symbols ==
    {"#", "OK", "ERR", "D", "S", "INQUIRE", "END", "CAN", "sp", "=", "--"} \subseteq Symbol
BY DEF Symbol, Lexeme, Word

\* How parse_server_line (message.rs:59) dispatches on the first lexemes.
LEMMA Dispatch ==
    ASSUME NEW line \in Text, validate_line(line)
    PROVE  /\ Len(line) = 0 => parse_server_line(line) = Plain("Empty", <<>>)
           /\ Len(line) >= 1 /\ line[1] = "#" =>
                 parse_server_line(line) = Plain("Comment", SubSeq(line, 2, Len(line)))
           /\ Len(line) = 1 /\ line[1] = "OK" => parse_server_line(line) = Plain("Ok", <<>>)
           /\ Len(line) = 1 /\ line[1] = "END" => parse_server_line(line) = Plain("End", <<>>)
           /\ Len(line) >= 2 /\ line[2] = "sp" =>
                 /\ line[1] = "OK" =>
                       parse_server_line(line) = Plain("Ok", SubSeq(line, 3, Len(line)))
                 /\ line[1] = "ERR" =>
                       parse_server_line(line) = ParseErr(SubSeq(line, 3, Len(line)))
                 /\ line[1] = "D" =>
                       parse_server_line(line) = Plain("Data", SubSeq(line, 3, Len(line)))
                 /\ line[1] = "S" =>
                       parse_server_line(line) = parse_keyword("Status", SubSeq(line, 3, Len(line)))
                 /\ line[1] = "INQUIRE" =>
                       parse_server_line(line)
                       = parse_keyword("Inquire", SubSeq(line, 3, Len(line)))
<1>1. Len(line) \in Nat
  BY DEF Text
<1>2. /\ Len(<<"#">>) + 1 = 2 /\ Len(<<"OK", "sp">>) + 1 = 3 /\ Len(<<"ERR", "sp">>) + 1 = 3
      /\ Len(<<"D", "sp">>) + 1 = 3 /\ Len(<<"S", "sp">>) + 1 = 3
      /\ Len(<<"INQUIRE", "sp">>) + 1 = 3
  OBVIOUS
<1>3. /\ line = <<>> <=> Len(line) = 0
      /\ starts_with(line, <<"#">>) <=> Len(line) >= 1 /\ line[1] = "#"
      /\ line = <<"OK">> <=> Len(line) = 1 /\ line[1] = "OK"
      /\ line = <<"END">> <=> Len(line) = 1 /\ line[1] = "END"
      /\ starts_with(line, <<"OK", "sp">>) <=> Len(line) >= 2 /\ line[1] = "OK" /\ line[2] = "sp"
      /\ starts_with(line, <<"ERR", "sp">>) <=> Len(line) >= 2 /\ line[1] = "ERR" /\ line[2] = "sp"
      /\ starts_with(line, <<"D", "sp">>) <=> Len(line) >= 2 /\ line[1] = "D" /\ line[2] = "sp"
      /\ starts_with(line, <<"S", "sp">>) <=> Len(line) >= 2 /\ line[1] = "S" /\ line[2] = "sp"
      /\ starts_with(line, <<"INQUIRE", "sp">>)
         <=> Len(line) >= 2 /\ line[1] = "INQUIRE" /\ line[2] = "sp"
  BY StartsWith, Symbols, Zenon
<1> DEFINE e == line = <<>>
           c == starts_with(line, <<"#">>)
           o == line = <<"OK">>
           os == starts_with(line, <<"OK", "sp">>)
           er == starts_with(line, <<"ERR", "sp">>)
           d == starts_with(line, <<"D", "sp">>)
           st == starts_with(line, <<"S", "sp">>)
           inq == starts_with(line, <<"INQUIRE", "sp">>)
           en == line = <<"END">>
           After(prefix) == SubSeq(line, Len(prefix) + 1, Len(line))
<1>4. parse_server_line(line) =
        CASE e -> Plain("Empty", <<>>)
          [] c -> Plain("Comment", After(<<"#">>))
          [] o -> Plain("Ok", <<>>)
          [] os -> Plain("Ok", After(<<"OK", "sp">>))
          [] er -> ParseErr(After(<<"ERR", "sp">>))
          [] d -> Plain("Data", After(<<"D", "sp">>))
          [] st -> parse_keyword("Status", After(<<"S", "sp">>))
          [] inq -> parse_keyword("Inquire", After(<<"INQUIRE", "sp">>))
          [] en -> Plain("End", <<>>)
          [] OTHER -> Refused("InvalidResponse")
  BY Zenon DEF parse_server_line
<1> HIDE DEF e, c, o, os, er, d, st, inq, en
<1>5. /\ e <=> Len(line) = 0
      /\ c <=> Len(line) >= 1 /\ line[1] = "#"
      /\ o <=> Len(line) = 1 /\ line[1] = "OK"
      /\ en <=> Len(line) = 1 /\ line[1] = "END"
      /\ os <=> Len(line) >= 2 /\ line[1] = "OK" /\ line[2] = "sp"
      /\ er <=> Len(line) >= 2 /\ line[1] = "ERR" /\ line[2] = "sp"
      /\ d <=> Len(line) >= 2 /\ line[1] = "D" /\ line[2] = "sp"
      /\ st <=> Len(line) >= 2 /\ line[1] = "S" /\ line[2] = "sp"
      /\ inq <=> Len(line) >= 2 /\ line[1] = "INQUIRE" /\ line[2] = "sp"
  BY <1>3, Zenon DEF e, c, o, os, er, d, st, inq, en
<1>6. Len(line) = 0 => parse_server_line(line) = Plain("Empty", <<>>)
  BY <1>1, <1>4, <1>5
<1>7. Len(line) >= 1 /\ line[1] = "#" =>
         parse_server_line(line) = Plain("Comment", SubSeq(line, 2, Len(line)))
  BY <1>1, <1>2, <1>4, <1>5
<1>8. Len(line) = 1 /\ line[1] = "OK" => parse_server_line(line) = Plain("Ok", <<>>)
  BY <1>1, <1>4, <1>5
<1>9. Len(line) = 1 /\ line[1] = "END" => parse_server_line(line) = Plain("End", <<>>)
  BY <1>1, <1>4, <1>5
<1>10. ASSUME Len(line) >= 2, line[2] = "sp"
       PROVE  /\ line[1] = "OK" =>
                    parse_server_line(line) = Plain("Ok", SubSeq(line, 3, Len(line)))
              /\ line[1] = "ERR" =>
                    parse_server_line(line) = ParseErr(SubSeq(line, 3, Len(line)))
              /\ line[1] = "D" =>
                    parse_server_line(line) = Plain("Data", SubSeq(line, 3, Len(line)))
              /\ line[1] = "S" =>
                    parse_server_line(line) = parse_keyword("Status", SubSeq(line, 3, Len(line)))
              /\ line[1] = "INQUIRE" =>
                    parse_server_line(line) = parse_keyword("Inquire", SubSeq(line, 3, Len(line)))
  BY <1>1, <1>2, <1>4, <1>5, <1>10
<1> QED BY <1>6, <1>7, <1>8, <1>9, <1>10, Zenon

\* split_field (command.rs) splits at the first space, if there is one,
LEMMA SplitsAtSpace ==
    ASSUME NEW s \in Text
    PROVE  /\ (\A i \in 1..Len(s) : s[i] # "sp") => split_field(s) = <<s, <<>>>>
           /\ \A k \in 1..Len(s) : s[k] = "sp" /\ (\A i \in 1..(k - 1) : s[i] # "sp") =>
                 split_field(s) = <<SubSeq(s, 1, k - 1), SubSeq(s, k + 1, Len(s))>>
<1> DEFINE T == {i \in 1..Len(s) : s[i] \in {"sp"}}
           at == position(s, {"sp"})
<1>1. at = IF T # {} THEN Min(T) ELSE 0
  BY Zenon DEF position
<1>2. T \subseteq Nat /\ Len(s) \in Nat
  BY DEF Text
<1>3. split_field(s) = IF at = 0 THEN <<s, <<>>>>
                       ELSE <<SubSeq(s, 1, at - 1), SubSeq(s, at + 1, Len(s))>>
  BY Zenon DEF split_field
<1> HIDE DEF at
<1>4. ASSUME \A i \in 1..Len(s) : s[i] # "sp"
      PROVE  split_field(s) = <<s, <<>>>>
  <2>1. T = {}
    BY <1>4, Zenon
  <2> QED BY <2>1, <1>1, <1>3, Zenon
<1>5. ASSUME NEW k \in 1..Len(s), s[k] = "sp", \A i \in 1..(k - 1) : s[i] # "sp"
      PROVE  split_field(s) = <<SubSeq(s, 1, k - 1), SubSeq(s, k + 1, Len(s))>>
  <2>1. k \in T /\ T # {}
    BY <1>5, Zenon
  <2>2. at \in T /\ \A x \in T : at <= x
    BY <2>1, <1>1, <1>2, LeastIsMin, Zenon
  <2>3. at \in 1..Len(s) /\ s[at] = "sp" /\ at <= k
    BY <2>1, <2>2, Zenon
  <2>4. at \notin 1..(k - 1)
    BY <2>3, <1>5, Zenon
  <2>5. at = k /\ at # 0
    BY <2>3, <2>4, <1>2
  <2> QED BY <2>5, <1>3, Zenon
<1> QED BY <1>4, <1>5, Zenon

\* so that a field without spaces and what follows it come apart again.
LEMMA SplitsJoined ==
    ASSUME NEW a \in Text, NEW b \in Text, \A i \in 1..Len(a) : a[i] # "sp"
    PROVE  split_field((a \o <<"sp">>) \o b) = <<a, b>>
<1>0. "sp" \in Symbol
  BY Symbols, Zenon
<1> DEFINE gap == <<"sp">>
           h == a \o gap
           j == h \o b
           n == Len(a)
<1>1. gap \in Text /\ Len(gap) = 1 /\ gap[1] = "sp"
  BY <1>0, OneLexeme, Zenon
<1> HIDE DEF gap
<1>2. /\ h \in Text /\ Len(h) = n + 1 /\ n \in Nat
      /\ \A i \in 1..n : h[i] = a[i]
      /\ \A i \in 1..Len(gap) : h[n + i] = gap[i]
  <2>1. /\ h \in Text /\ Len(h) = n + Len(gap) /\ n \in Nat
        /\ \A i \in 1..n : h[i] = a[i]
        /\ \A i \in 1..Len(gap) : h[n + i] = gap[i]
    BY <1>1, Joined, Zenon
  <2> QED BY <2>1, <1>1, Zenon
<1> HIDE DEF h, n
<1>3. /\ j \in Text /\ Len(j) = Len(h) + Len(b) /\ Len(b) \in Nat
      /\ \A i \in 1..Len(h) : j[i] = h[i]
  BY <1>2, Joined, Zenon
<1>4. SubSeq(j, Len(h) + 1, Len(j)) = b
  BY <1>2, RestOfJoined, Zenon
<1> HIDE DEF j
<1>5. h[n + 1] = "sp"
  <2>1. 1 \in 1..Len(gap)
    BY <1>1
  <2> QED BY <2>1, <1>1, <1>2, Zenon
<1>6. /\ n + 1 \in 1..Len(h) /\ n + 1 \in 1..Len(j) /\ (n + 1) - 1 = n
      /\ \A i \in 1..n : i \in 1..Len(h)
  BY <1>2, <1>3
<1>7. j[n + 1] = "sp" /\ \A i \in 1..n : j[i] = a[i]
  BY <1>2, <1>3, <1>5, <1>6, Zenon
<1>8. \A i \in 1..n : j[i] # "sp"
  BY <1>7, Zenon DEF n
<1>9. split_field(j) = <<SubSeq(j, 1, n), SubSeq(j, (n + 1) + 1, Len(j))>>
  BY <1>3, <1>6, <1>7, <1>8, SplitsAtSpace, Zenon
<1>10. SubSeq(j, 1, n) = a
  <2>1. n <= Len(j) /\ 0 <= n /\ 0 \in Nat /\ n - 0 = n
    BY <1>2, <1>3
  <2>2. /\ SubSeq(j, 0 + 1, n) \in Text /\ Len(SubSeq(j, 0 + 1, n)) = n - 0
        /\ \A i \in 1..(n - 0) : SubSeq(j, 0 + 1, n)[i] = j[0 + i]
    BY <2>1, <1>2, <1>3, Piece, Zenon
  <2>3. /\ SubSeq(j, 1, n) \in Text /\ Len(SubSeq(j, 1, n)) = n
        /\ \A i \in 1..n : SubSeq(j, 1, n)[i] = j[i]
    BY <2>2, <1>2
  <2> QED BY <2>3, <1>7, SameText, Zenon DEF n
<1> QED BY <1>9, <1>10, <1>4, <1>2, Zenon DEF j, h, gap

\* What follows a prefix of two lexemes is found from the third on.
LEMMA AfterTwo ==
    ASSUME NEW a \in Symbol, NEW b \in Symbol, NEW t \in Text
    PROVE  LET j == <<a, b>> \o t IN
           /\ j \in Text /\ Len(j) >= 2 /\ j[1] = a /\ j[2] = b
           /\ SubSeq(j, 3, Len(j)) = t
<1> DEFINE p == <<a, b>>
           j == p \o t
<1>1. p \in Text /\ Len(p) = 2 /\ p[1] = a /\ p[2] = b
  BY TwoLexemes, Zenon
<1> HIDE DEF p
<1>2. /\ j \in Text /\ Len(j) = Len(p) + Len(t) /\ Len(t) \in Nat
      /\ \A i \in 1..Len(p) : j[i] = p[i]
  BY <1>1, Joined, Zenon
<1>3. SubSeq(j, Len(p) + 1, Len(j)) = t
  BY <1>1, RestOfJoined, Zenon
<1> HIDE DEF j
<1>4. Len(j) >= 2 /\ j[1] = a /\ j[2] = b /\ Len(p) + 1 = 3
  BY <1>1, <1>2
<1> QED BY <1>2, <1>3, <1>4, Zenon DEF j, p

\* write_optional (encode.rs) adds a space and the text unless that is empty.
LEMMA Optional ==
    ASSUME NEW parts, NEW t \in Text
    PROVE  /\ t = <<>> => write_optional(parts, t) = write_parts(parts)
           /\ t # <<>> => write_optional(parts, t) = write_parts(parts \o <<<<"sp">>, t>>)
BY Zenon DEF write_optional

\* Two lexemes joined are a text of two.
LEMMA JoinOneOne ==
    ASSUME NEW a \in Symbol, NEW b \in Symbol
    PROVE  <<a>> \o <<b>> = <<a, b>>
<1> DEFINE x == <<a>>
           y == <<b>>
           j == x \o y
           z == <<a, b>>
<1>1. x \in Text /\ Len(x) = 1 /\ x[1] = a /\ y \in Text /\ Len(y) = 1 /\ y[1] = b
  BY OneLexeme, Zenon
<1>2. z \in Text /\ Len(z) = 2 /\ z[1] = a /\ z[2] = b
  BY TwoLexemes, Zenon
<1> HIDE DEF x, y, z
<1>3. /\ j \in Text /\ Len(j) = Len(x) + Len(y)
      /\ \A i \in 1..Len(x) : j[i] = x[i]
      /\ \A i \in 1..Len(y) : j[Len(x) + i] = y[i]
  BY <1>1, Joined, Zenon
<1> HIDE DEF j
<1>4. Len(j) = Len(z) /\ \A i \in 1..Len(j) : j[i] = z[i]
  BY <1>1, <1>2, <1>3
<1>5. j = z
  BY <1>2, <1>3, <1>4, SameText, Zenon
<1> QED BY <1>5, Zenon DEF j, x, y, z

\* Parts added to parts.
LEMMA JoinedParts ==
    ASSUME NEW s \in Seq(Text), NEW t \in Seq(Text)
    PROVE  /\ s \o t \in Seq(Text) /\ Len(s \o t) = Len(s) + Len(t)
           /\ \A i \in 1..Len(s) : (s \o t)[i] = s[i]
           /\ \A i \in 1..Len(t) : (s \o t)[Len(s) + i] = t[i]
OBVIOUS

\* Lists of parts are equal part by part.
LEMMA SameParts ==
    ASSUME NEW s \in Seq(Text), NEW t \in Seq(Text), Len(s) = Len(t),
           \A i \in 1..Len(s) : s[i] = t[i]
    PROVE  s = t
BY SeqEqual

\* write_optional adds two parts to one
LEMMA AddToOne ==
    ASSUME NEW a \in Text, NEW c \in Text, NEW d \in Text
    PROVE  <<a>> \o <<c, d>> = <<a, c, d>>
<1> DEFINE x == <<a>>
           y == <<c, d>>
           j == x \o y
           z == <<a, c, d>>
<1>1. x \in Seq(Text) /\ Len(x) = 1 /\ x[1] = a
  OBVIOUS
<1>2. z \in Seq(Text) /\ Len(z) = 3 /\ z[1] = a /\ z[2] = c /\ z[3] = d
  OBVIOUS
<1>y. y \in Seq(Text) /\ Len(y) = 2 /\ y[1] = c /\ y[2] = d
  OBVIOUS
<1> HIDE DEF x, y, z
<1>3. /\ j \in Seq(Text) /\ Len(j) = Len(x) + Len(y)
      /\ \A i \in 1..Len(x) : j[i] = x[i]
      /\ \A i \in 1..Len(y) : j[Len(x) + i] = y[i]
  BY <1>1, <1>y, JoinedParts, Zenon
<1> HIDE DEF j
<1>4. Len(j) = Len(z) /\ \A i \in 1..Len(j) : j[i] = z[i]
  BY <1>1, <1>2, <1>3, <1>y
<1>5. j = z
  BY <1>2, <1>3, <1>4, SameParts, Zenon
<1> QED BY <1>5, Zenon DEF j, x, y, z

\* or to two.
LEMMA AddToTwo ==
    ASSUME NEW a \in Text, NEW b \in Text, NEW c \in Text, NEW d \in Text
    PROVE  <<a, b>> \o <<c, d>> = <<a, b, c, d>>
<1> DEFINE x == <<a, b>>
           y == <<c, d>>
           j == x \o y
           z == <<a, b, c, d>>
<1>1. x \in Seq(Text) /\ Len(x) = 2 /\ x[1] = a /\ x[2] = b
  OBVIOUS
<1>2. z \in Seq(Text) /\ Len(z) = 4 /\ z[1] = a /\ z[2] = b /\ z[3] = c /\ z[4] = d
  OBVIOUS
<1>y. y \in Seq(Text) /\ Len(y) = 2 /\ y[1] = c /\ y[2] = d
  OBVIOUS
<1> HIDE DEF x, y, z
<1>3. /\ j \in Seq(Text) /\ Len(j) = Len(x) + Len(y)
      /\ \A i \in 1..Len(x) : j[i] = x[i]
      /\ \A i \in 1..Len(y) : j[Len(x) + i] = y[i]
  BY <1>1, <1>y, JoinedParts, Zenon
<1> HIDE DEF j
<1>4. Len(j) = Len(z) /\ \A i \in 1..Len(j) : j[i] = z[i]
  BY <1>1, <1>2, <1>3, <1>y
<1>5. j = z
  BY <1>2, <1>3, <1>4, SameParts, Zenon
<1> QED BY <1>5, Zenon DEF j, x, y, z

\* Joining is associative.
LEMMA Regroup ==
    ASSUME NEW s \in Text, NEW t \in Text, NEW u \in Text
    PROVE  (s \o t) \o u = s \o (t \o u)
BY ConcatAssociative DEF Text

\* A prefix, a field without spaces and a text come apart again as they went in.
LEMMA Fields ==
    ASSUME NEW a \in Symbol, NEW k \in Text, NEW t \in Text,
           \A i \in 1..Len(k) : k[i] # "sp",
           ~IsError(write_optional(<<<<a, "sp">>, k>>, t))
    PROVE  \E line \in Text :
              /\ write_optional(<<<<a, "sp">>, k>>, t) = [line |-> line]
              /\ Writable(line) /\ Len(line) >= 2 /\ line[1] = a /\ line[2] = "sp"
              /\ split_field(SubSeq(line, 3, Len(line))) = <<k, t>>
<1> DEFINE p == <<a, "sp">>
           gap == <<"sp">>
<1>0. "sp" \in Symbol
  BY Symbols, Zenon
<1>1. p \in Text
  BY <1>0, TwoLexemes, Zenon
<1>2. gap \in Text
  BY OneLexeme, Symbols, Zenon
<1>3. CASE t = <<>>
  <2>1. write_optional(<<p, k>>, t) = write_parts(<<p, k>>)
    BY <1>3, Optional, Zenon
  <2> HIDE DEF p, gap
  <2>2. write_parts(<<p, k>>) = [line |-> p \o k] /\ Writable(p \o k)
    <3>1. ~IsError(write_parts(<<p, k>>))
      BY <2>1, Zenon DEF p
    <3> QED BY <1>1, <3>1, LineOfTwo, Zenon
  <2>3. LET j == p \o k IN
        /\ j \in Text /\ Len(j) >= 2 /\ j[1] = a /\ j[2] = "sp" /\ SubSeq(j, 3, Len(j)) = k
    BY <1>0, AfterTwo DEF p
  <2>4. split_field(k) = <<k, t>>
    BY <1>3, SplitsAtSpace, Zenon
  <2> QED BY <2>1, <2>2, <2>3, <2>4, Zenon DEF p
<1>4. CASE t # <<>>
  <2> DEFINE f == (k \o gap) \o t
  <2>1. write_optional(<<p, k>>, t) = write_parts(<<p, k, gap, t>>)
    <3>1. write_optional(<<p, k>>, t) = write_parts(<<p, k>> \o <<gap, t>>)
      BY <1>4, Optional, Zenon
    <3> HIDE DEF p, gap
    <3>2. <<p, k>> \o <<gap, t>> = <<p, k, gap, t>>
      BY <1>1, <1>2, AddToTwo
    <3> QED BY <3>1, <3>2, Zenon
  <2>0. split_field(f) = <<k, t>>
    BY SplitsJoined, Zenon
  <2> HIDE DEF p, gap
  <2>2. /\ write_parts(<<p, k, gap, t>>) = [line |-> ((p \o k) \o gap) \o t]
        /\ Writable(((p \o k) \o gap) \o t)
    <3>1. ~IsError(write_parts(<<p, k, gap, t>>))
      BY <2>1, Zenon DEF p
    <3> DEFINE parts == <<p, k, gap, t>>
    <3>2. /\ parts \in Seq(Text) /\ Len(parts) = 4
          /\ parts[1] = p /\ parts[2] = k /\ parts[3] = gap /\ parts[4] = t
      BY <1>1, <1>2
    <3>3. ~IsError(write_parts(parts))
      BY <3>1, Zenon
    <3> HIDE DEF parts
    <3>4. LET line == ((parts[1] \o parts[2]) \o parts[3]) \o parts[4] IN
          write_parts(parts) = [line |-> line] /\ Writable(line)
      BY <3>2, <3>3, LineOfFour, Zenon
    <3>5. /\ write_parts(parts) = [line |-> ((p \o k) \o gap) \o t]
          /\ Writable(((p \o k) \o gap) \o t)
      BY <3>2, <3>4, Zenon
    <3> QED BY <3>5, Zenon DEF parts
  <2>3. k \o gap \in Text /\ f \in Text
    <3>1. k \o gap \in Text
      BY <1>2, Joined, Zenon
    <3> QED BY <3>1, Joined, Zenon
  <2>4. ((p \o k) \o gap) \o t = p \o f
    <3>1. (p \o k) \o gap = p \o (k \o gap)
      BY <1>1, <1>2, Regroup, Zenon
    <3>2. (p \o (k \o gap)) \o t = p \o ((k \o gap) \o t)
      BY <1>1, <2>3, Regroup, Zenon
    <3> QED BY <3>1, <3>2, Zenon
  <2> HIDE DEF f
  <2>5. LET j == p \o f IN
        /\ j \in Text /\ Len(j) >= 2 /\ j[1] = a /\ j[2] = "sp" /\ SubSeq(j, 3, Len(j)) = f
    BY <1>0, <2>3, AfterTwo DEF p
  <2> DEFINE j == p \o f
  <2>6. /\ j \in Text /\ Len(j) >= 2 /\ j[1] = a /\ j[2] = "sp" /\ SubSeq(j, 3, Len(j)) = f
        /\ write_optional(<<p, k>>, t) = [line |-> j] /\ Writable(j)
    BY <2>1, <2>2, <2>4, <2>5, Zenon
  <2> HIDE DEF j
  <2> QED BY <2>0, <2>6, Zenon DEF p
<1> QED BY <1>3, <1>4, Zenon

-----------------------------------------------------------------------------
(* Error codes *)

\* The ten digits differ, and none is a space.
LEMMA Digits ==
    /\ Digit \in Seq(Symbol) /\ Len(Digit) = 10
    /\ \A m \in 0..9 : m + 1 \in 1..10 /\ Digit[m + 1] \in Symbol /\ Digit[m + 1] # "sp"
                       /\ Digit[m + 1] \in Range(Digit)
    /\ \A m, n \in 0..9 : Digit[m + 1] = Digit[n + 1] => m = n
<1>1. /\ Digit[1] = "0" /\ Digit[2] = "1" /\ Digit[3] = "2" /\ Digit[4] = "3" /\ Digit[5] = "4"
      /\ Digit[6] = "5" /\ Digit[7] = "6" /\ Digit[8] = "7" /\ Digit[9] = "8" /\ Digit[10] = "9"
      /\ Len(Digit) = 10 /\ DOMAIN Digit = 1..10
  BY DEF Digit
<1>2. {"0", "1", "2", "3", "4", "5", "6", "7", "8", "9"} \subseteq Symbol
  BY DEF Symbol, Lexeme
<1>3. Digit \in Seq(Symbol)
  BY <1>2 DEF Digit
<1>4. ASSUME NEW m \in 0..9
      PROVE  m + 1 \in 1..10 /\ Digit[m + 1] \in Symbol /\ Digit[m + 1] # "sp"
  BY <1>1, <1>2
<1>5. ASSUME NEW m \in 0..9
      PROVE  Digit[m + 1] \in Range(Digit)
  BY <1>1, <1>4, Zenon DEF Range
<1>6. ASSUME NEW m \in 0..9, NEW n \in 0..9, Digit[m + 1] = Digit[n + 1]
      PROVE  m = n
  BY <1>1, <1>6
<1> QED BY <1>1, <1>3, <1>4, <1>5, <1>6, Zenon

\* A digit has the value it stands for.
LEMMA ValueOfDigit ==
    ASSUME NEW m \in 0..9
    PROVE  Value(Digit[m + 1]) = m
<1>1. \A n \in 0..9 : Digit[n + 1] = Digit[m + 1] => n = m
  BY Digits, Zenon
<1>2. Value(Digit[m + 1]) \in 0..9 /\ Digit[Value(Digit[m + 1]) + 1] = Digit[m + 1]
  BY Zenon DEF Value
<1> QED BY <1>1, <1>2, Zenon

\* The recursion that CodeOf is defined by.
CodeUnfolds(f, number) ==
    f = [i \in 0..Len(number) |->
            IF i = 0 THEN 0
            ELSE IF f[i - 1] > MaxCode THEN f[i - 1]
            ELSE f[i - 1] * 10 + Value(number[i])]

\* CodeOf follows the recursion, if some function does.
LEMMA CodeIs ==
    ASSUME NEW number, \E g : CodeUnfolds(g, number)
    PROVE  \E f : CodeUnfolds(f, number) /\ CodeOf(number) = f[Len(number)]
<1> DEFINE f == CHOOSE h : h = [i \in 0..Len(number) |->
                                  IF i = 0 THEN 0
                                  ELSE IF h[i - 1] > MaxCode THEN h[i - 1]
                                  ELSE h[i - 1] * 10 + Value(number[i])]
<1>1. CodeUnfolds(f, number)
  BY Zenon DEF CodeUnfolds
<1>2. CodeOf(number) = f[Len(number)]
  BY Zenon DEF CodeOf
<1> HIDE DEF f
<1> QED BY <1>1, <1>2, Zenon

\* The code an encoder formats (encode.rs) is the one the parser reads.
LEMMA CodeOfDecimal ==
    ASSUME NEW n \in 0..MaxCode
    PROVE  /\ Decimal(n) \in Text /\ Decimal(n) # <<>> /\ Range(Decimal(n)) \subseteq Range(Digit)
           /\ \A i \in 1..Len(Decimal(n)) : Decimal(n)[i] # "sp"
           /\ CodeOf(Decimal(n)) = n
<1>0. MaxCode \in 0..99 /\ n \in 0..99 /\ n <= MaxCode
  BY CodecAssumption
<1>1. CASE n < 10
  <2> DEFINE d == Digit[n + 1]
             s == <<d>>
             g == [i \in 0..1 |-> IF i = 0 THEN 0 ELSE n]
  <2>1. n \in 0..9
    BY <1>0, <1>1
  <2>2. Value(d) = n /\ d \in Symbol /\ d # "sp" /\ d \in Range(Digit)
    BY <2>1, ValueOfDigit, Digits, Zenon
  <2>3. Decimal(n) = s
    BY <1>1, Zenon DEF Decimal
  <2> HIDE DEF d
  <2>4. s \in Text /\ Len(s) = 1 /\ s[1] = d
    BY <2>2, OneLexeme, Zenon
  <2>5. s # <<>> /\ DOMAIN s = {1}
    BY <2>4
  <2>6. Range(s) \subseteq Range(Digit)
    BY <2>2, <2>4, <2>5, Zenon DEF Range
  <2> HIDE DEF s
  <2>7. CodeUnfolds(g, s)
    BY <1>0, <2>2, <2>4 DEF CodeUnfolds
  <2> HIDE DEF g
  <2>8. PICK f : CodeUnfolds(f, s) /\ CodeOf(s) = f[1]
    BY <2>4, <2>7, CodeIs, Zenon
  <2>9. f[1] = n
    <3>1. \A i \in 0..1 : f[i] = IF i = 0 THEN 0
                                 ELSE IF f[i - 1] > MaxCode THEN f[i - 1]
                                 ELSE f[i - 1] * 10 + Value(s[i])
      BY <2>4, <2>8, Zenon DEF CodeUnfolds
    <3>2. f[0] = 0
      BY <3>1
    <3> QED BY <1>0, <2>2, <2>4, <3>1, <3>2
  <2>10. \A i \in 1..Len(s) : s[i] # "sp"
    BY <2>2, <2>4
  <2> QED BY <2>3, <2>4, <2>5, <2>6, <2>8, <2>9, <2>10, Zenon
<1>2. CASE ~(n < 10)
  <2> DEFINE p == n \div 10
             q == n % 10
             c == Digit[p + 1]
             d == Digit[q + 1]
             s == <<c, d>>
             g == [i \in 0..2 |-> IF i = 0 THEN 0 ELSE IF i = 1 THEN p ELSE n]
  <2>1. p \in 0..9 /\ q \in 0..9 /\ n = p * 10 + q /\ p <= MaxCode
    BY <1>0, <1>2
  <2>3. Decimal(n) = s
    BY <1>2, Zenon DEF Decimal
  <2> HIDE DEF p, q
  <2>2. /\ Value(c) = p /\ c \in Symbol /\ c # "sp" /\ c \in Range(Digit)
        /\ Value(d) = q /\ d \in Symbol /\ d # "sp" /\ d \in Range(Digit)
    BY <2>1, ValueOfDigit, Digits, Zenon
  <2> HIDE DEF c, d
  <2>4. s \in Text /\ Len(s) = 2 /\ s[1] = c /\ s[2] = d
    BY <2>2, TwoLexemes, Zenon
  <2>5. s # <<>> /\ DOMAIN s = {1, 2}
    BY <2>4
  <2>6. Range(s) \subseteq Range(Digit)
    BY <2>2, <2>4, <2>5, Zenon DEF Range
  <2> HIDE DEF s
  <2>7. CodeUnfolds(g, s)
    BY <1>0, <2>1, <2>2, <2>4 DEF CodeUnfolds
  <2> HIDE DEF g
  <2>8. PICK f : CodeUnfolds(f, s) /\ CodeOf(s) = f[2]
    BY <2>4, <2>7, CodeIs, Zenon
  <2>9. f[2] = n
    <3>1. \A i \in 0..2 : f[i] = IF i = 0 THEN 0
                                 ELSE IF f[i - 1] > MaxCode THEN f[i - 1]
                                 ELSE f[i - 1] * 10 + Value(s[i])
      BY <2>4, <2>8, Zenon DEF CodeUnfolds
    <3>2. f[0] = 0
      BY <3>1
    <3>3. f[1] = p
      BY <1>0, <2>1, <2>2, <2>4, <3>1, <3>2
    <3> QED BY <1>0, <2>1, <2>2, <2>4, <3>1, <3>3
  <2>10. \A i \in 1..Len(s) : s[i] # "sp"
    BY <2>2, <2>4
  <2> QED BY <2>3, <2>4, <2>5, <2>6, <2>8, <2>9, <2>10, Zenon
<1> QED BY <1>1, <1>2, Zenon

-----------------------------------------------------------------------------
(* Responses *)

\* What an encoder returned is a line that a channel writes and that parses as r.
Reads(encoded, r) ==
    \E line \in Text :
        encoded = [line |-> line] /\ Writable(line) /\ parse_server_line(line) = r

\* OK is read as it was meant, with a text or without one (message.rs:59).
LEMMA OkReads ==
    ASSUME NEW t \in Text, ~IsError(write_optional(<<<<"OK">>>>, t))
    PROVE  Reads(write_optional(<<<<"OK">>>>, t), Plain("Ok", t))
<1> DEFINE p == <<"OK">>
           gap == <<"sp">>
<1>1. /\ "OK" \in Symbol /\ "sp" \in Symbol
      /\ p \in Text /\ Len(p) = 1 /\ p[1] = "OK" /\ gap \in Text
  BY OneLexeme, Symbols, Zenon
<1>2. CASE t = <<>>
  <2>1. write_optional(<<p>>, t) = write_parts(<<p>>)
    BY <1>2, Optional, Zenon
  <2> HIDE DEF p, gap
  <2>2. write_parts(<<p>>) = [line |-> p] /\ Writable(p)
    <3>1. ~IsError(write_parts(<<p>>))
      BY <2>1, Zenon DEF p
    <3> QED BY <1>1, <3>1, LineOfOne, Zenon
  <2>3. parse_server_line(p) = Plain("Ok", t)
    BY <1>1, <1>2, <2>2, Dispatch, Zenon DEF Writable
  <2> QED BY <1>1, <2>1, <2>2, <2>3, Zenon DEF p, Reads
<1>3. CASE t # <<>>
  <2>1. write_optional(<<p>>, t) = write_parts(<<p>> \o <<gap, t>>)
    BY <1>3, Optional, Zenon
  <2> DEFINE j == <<"OK", "sp">> \o t
  <2>2. p \o gap = <<"OK", "sp">>
    BY <1>1, JoinOneOne, Zenon
  <2>3. /\ j \in Text /\ Len(j) >= 2 /\ j[1] = "OK" /\ j[2] = "sp" /\ SubSeq(j, 3, Len(j)) = t
    BY <1>1, AfterTwo
  <2> HIDE DEF p, gap
  <2>4. <<p>> \o <<gap, t>> = <<p, gap, t>>
    BY <1>1, AddToOne, Zenon
  <2>5. /\ write_parts(<<p, gap, t>>) = [line |-> (p \o gap) \o t]
        /\ Writable((p \o gap) \o t)
    <3>1. ~IsError(write_parts(<<p, gap, t>>))
      BY <2>1, <2>4, Zenon DEF p
    <3> QED BY <1>1, <3>1, LineOfThree, Zenon
  <2>6. write_parts(<<p, gap, t>>) = [line |-> j] /\ Writable(j)
    BY <2>2, <2>5, Zenon
  <2> HIDE DEF j
  <2>7. parse_server_line(j) = Plain("Ok", t)
    <3>1. validate_line(j)
      BY <2>6, Zenon DEF Writable
    <3>2. parse_server_line(j) = Plain("Ok", SubSeq(j, 3, Len(j)))
      BY <2>3, <3>1, Dispatch, Zenon
    <3> QED BY <2>3, <3>2, Zenon
  <2> QED BY <2>1, <2>3, <2>4, <2>6, <2>7, Zenon DEF p, Reads
<1> QED BY <1>2, <1>3, Zenon

\* So is a comment,
LEMMA CommentReads ==
    ASSUME NEW t \in Text, ~IsError(write_parts(<<<<"#">>, t>>))
    PROVE  Reads(write_parts(<<<<"#">>, t>>), Plain("Comment", t))
<1> DEFINE p == <<"#">>
           j == p \o t
<1>1. p \in Text /\ Len(p) = 1 /\ p[1] = "#"
  BY OneLexeme, Symbols, Zenon
<1> HIDE DEF p
<1>2. write_parts(<<p, t>>) = [line |-> j] /\ Writable(j)
  BY <1>1, LineOfTwo, Zenon DEF p
<1>3. /\ j \in Text /\ Len(j) = Len(p) + Len(t) /\ Len(t) \in Nat
      /\ \A i \in 1..Len(p) : j[i] = p[i]
  BY <1>1, Joined, Zenon
<1>4. SubSeq(j, Len(p) + 1, Len(j)) = t
  BY <1>1, RestOfJoined, Zenon
<1> HIDE DEF j
<1>5. Len(j) >= 1 /\ j[1] = "#" /\ SubSeq(j, 2, Len(j)) = t
  BY <1>1, <1>3, <1>4
<1>6. parse_server_line(j) = Plain("Comment", SubSeq(j, 2, Len(j)))
  BY <1>2, <1>3, <1>5, Dispatch, Zenon DEF Writable
<1> QED BY <1>2, <1>3, <1>5, <1>6, Zenon DEF p, Reads

\* a data line,
LEMMA DataReads ==
    ASSUME NEW t \in Text, ~IsError(write_parts(<<<<"D", "sp">>, t>>))
    PROVE  Reads(write_parts(<<<<"D", "sp">>, t>>), Plain("Data", t))
<1> DEFINE p == <<"D", "sp">>
           j == p \o t
<1>1. "D" \in Symbol /\ "sp" \in Symbol
  BY Symbols, Zenon
<1>2. p \in Text
  BY <1>1, TwoLexemes, Zenon
<1>3. /\ j \in Text /\ Len(j) >= 2 /\ j[1] = "D" /\ j[2] = "sp" /\ SubSeq(j, 3, Len(j)) = t
  BY <1>1, AfterTwo
<1> HIDE DEF p
<1>4. write_parts(<<p, t>>) = [line |-> j] /\ Writable(j)
  BY <1>2, LineOfTwo, Zenon DEF p
<1> HIDE DEF j
<1>5. validate_line(j)
  BY <1>4, Zenon DEF Writable
<1>6. parse_server_line(j) = Plain("Data", SubSeq(j, 3, Len(j)))
  BY <1>3, <1>5, Dispatch, Zenon
<1> QED BY <1>3, <1>4, <1>6, Zenon DEF p, Reads

\* END
LEMMA EndReads ==
    ASSUME ~IsError(write_parts(<<<<"END">>>>))
    PROVE  Reads(write_parts(<<<<"END">>>>), Plain("End", <<>>))
<1> DEFINE p == <<"END">>
<1>1. p \in Text /\ Len(p) = 1 /\ p[1] = "END"
  BY OneLexeme, Symbols, Zenon
<1> HIDE DEF p
<1>2. write_parts(<<p>>) = [line |-> p] /\ Writable(p)
  BY <1>1, LineOfOne, Zenon DEF p
<1>3. parse_server_line(p) = Plain("End", <<>>)
  BY <1>1, <1>2, Dispatch, Zenon DEF Writable
<1> QED BY <1>1, <1>2, <1>3, Zenon DEF p, Reads

\* and an empty line.
LEMMA EmptyReads ==
    ASSUME ~IsError(write_parts(<<>>))
    PROVE  Reads(write_parts(<<>>), Plain("Empty", <<>>))
<1> DEFINE none == <<>>
<1>1. none \in Seq(Text) /\ Len(none) = 0 /\ 0 \in Nat
  OBVIOUS
<1>2. concat(none) = none
  BY ConcatNone, Zenon
<1>3. none \in Text
  BY NoText, Zenon
<1> HIDE DEF none
<1>4. write_parts(none) = [line |-> none] /\ Bytes(none) + 1 <= MaxLine
  BY <1>1, <1>2, <1>3, WritesParts, Zenon DEF none
<1>5. validate_line(none)
  <2>1. \A i \in 1..Len(none) : none[i] # "nl"
    BY <1>1
  <2> QED BY <1>3, <2>1, ValidLine, Zenon
<1>6. parse_server_line(none) = Plain("Empty", <<>>)
  BY <1>1, <1>3, <1>5, Dispatch, Zenon
<1> QED BY <1>3, <1>4, <1>5, <1>6, Zenon DEF none, Reads, Writable

\* ERR comes back with its code and its text (message.rs:59).
LEMMA ErrReads ==
    ASSUME NEW n \in 0..MaxCode, NEW t \in Text,
           ~IsError(write_optional(<<<<"ERR", "sp">>, Decimal(n)>>, t))
    PROVE  Reads(write_optional(<<<<"ERR", "sp">>, Decimal(n)>>, t), Response("Err", n, <<>>, t))
<1> DEFINE k == Decimal(n)
           word == "ERR"
           e == write_optional(<<<<word, "sp">>, k>>, t)
<1>1. /\ k \in Text /\ k # <<>> /\ Range(k) \subseteq Range(Digit) /\ CodeOf(k) = n
      /\ \A i \in 1..Len(k) : k[i] # "sp"
  BY CodeOfDecimal, Zenon
<1>2. word \in Symbol
  BY Symbols, Zenon
<1> HIDE DEF k, word
<1>3. PICK line \in Text :
        /\ e = [line |-> line]
        /\ Writable(line) /\ Len(line) >= 2 /\ line[1] = word /\ line[2] = "sp"
        /\ split_field(SubSeq(line, 3, Len(line))) = <<k, t>>
  <2>1. ~IsError(e)
    BY Zenon DEF k, word
  <2> QED BY <1>1, <1>2, <2>1, Fields, Zenon
<1> HIDE DEF e
<1> DEFINE fields == SubSeq(line, 3, Len(line))
<1>4. parse_server_line(line) = ParseErr(fields)
  BY <1>3, Dispatch, Zenon DEF Writable, word
<1>5. split_field(fields)[1] = k /\ split_field(fields)[2] = t
  BY <1>3
<1> HIDE DEF fields
<1>6. ~(CodeOf(k) > MaxCode)
  BY <1>1, CodecAssumption
<1>7. ParseErr(fields) = Response("Err", CodeOf(k), <<>>, t)
  BY <1>1, <1>5, <1>6, Zenon DEF ParseErr
<1> QED BY <1>1, <1>3, <1>4, <1>7, Zenon DEF Reads, e, k, word

\* A token (command.rs) has no spaces.
LEMMA TokenHasNoSpace ==
    ASSUME NEW k \in Text, validate_token(k)
    PROVE  \A i \in 1..Len(k) : k[i] # "sp"
<1>1. DOMAIN k = 1..Len(k)
  BY DEF Text
<1>2. Range(k) \cap {"sp", "%", "e", "nl"} = {}
  BY Zenon DEF validate_token
<1>3. \A i \in 1..Len(k) : k[i] \in Range(k)
  BY <1>1, Zenon DEF Range
<1> QED BY <1>2, <1>3, Zenon

\* S and INQUIRE come back with their keyword and their arguments (message.rs:59).
LEMMA KeywordReads ==
    ASSUME NEW word \in {"S", "INQUIRE"}, NEW k \in Text, NEW t \in Text,
           ~IsError(write_keyword(<<word, "sp">>, k, t))
    PROVE  Reads(write_keyword(<<word, "sp">>, k, t),
                 Response(IF word = "S" THEN "Status" ELSE "Inquire", 0, k, t))
<1> DEFINE p == <<word, "sp">>
           e == write_optional(<<p, k>>, t)
           kind == IF word = "S" THEN "Status" ELSE "Inquire"
<1>1. IsKeyword(k)
  <2>1. SUFFICES ASSUME ~IsKeyword(k) PROVE IsError(write_keyword(p, k, t))
    BY Zenon
  <2> QED BY <2>1 DEF write_keyword, IsError, Refused
<1>2. write_keyword(p, k, t) = e
  BY <1>1, Zenon DEF write_keyword
<1>3. \A i \in 1..Len(k) : k[i] # "sp"
  BY <1>1, TokenHasNoSpace, Zenon DEF IsKeyword
<1>4. word \in Symbol /\ "sp" \in Symbol
  BY Symbols, Zenon
<1>5. PICK line \in Text :
        /\ e = [line |-> line]
        /\ Writable(line) /\ Len(line) >= 2 /\ line[1] = word /\ line[2] = "sp"
        /\ split_field(SubSeq(line, 3, Len(line))) = <<k, t>>
  <2>1. ~IsError(e)
    BY <1>2, Zenon
  <2> QED BY <1>3, <1>4, <2>1, Fields, Zenon
<1> HIDE DEF e
<1> DEFINE fields == SubSeq(line, 3, Len(line))
<1>6. parse_server_line(line) = parse_keyword(kind, fields)
  <2>0. validate_line(line)
    BY <1>5, Zenon DEF Writable
  <2>1. CASE word = "S"
    BY <1>5, <2>0, <2>1, Dispatch, Zenon
  <2>2. CASE word = "INQUIRE"
    <3>1. word # "S"
      BY <2>2
    <3> QED BY <1>5, <2>0, <2>2, <3>1, Dispatch, Zenon
  <2> QED BY <2>1, <2>2, Zenon
<1>7. split_field(fields)[1] = k /\ split_field(fields)[2] = t
  BY <1>5
<1> HIDE DEF fields, kind, p
<1>8. parse_keyword(kind, fields) = Response(kind, 0, k, t)
  BY <1>1, <1>7, Zenon DEF parse_keyword
<1> QED BY <1>2, <1>5, <1>6, <1>8, Zenon DEF Reads, kind, p

\* What encode_response lets out as data, the peer decodes (escape.rs:22).
LEMMA CheckedDataDecodes ==
    ASSUME NEW s
    PROVE  validate_encoded_data(s) <=> Decodes(s)
BY Zenon DEF validate_encoded_data, Decodes

\* The texts of the model are texts.
LEMMA BoundedIsText ==
    ASSUME NEW S, S \subseteq Symbol, NEW n, NEW s \in SeqUpTo(S, n), n \in Nat
    PROVE  s \in Text
<1>1. PICK m \in 0..n : s \in [1..m -> S]
  BY Zenon DEF SeqUpTo
<1> QED BY <1>1 DEF Text

\* The fields of a response that its kind does not use are empty.
ResponseShape(r) ==
    /\ r = Response(r.kind, r.code, r.keyword, r.text)
    /\ r.text \in Text /\ r.keyword \in Text /\ r.code \in 0..MaxCode
    /\ \/ r.kind \in {"Ok", "Comment", "Data"} /\ r.code = 0 /\ r.keyword = <<>>
       \/ r.kind = "Err" /\ r.keyword = <<>>
       \/ r.kind \in {"Status", "Inquire"} /\ r.code = 0
       \/ r.kind \in {"End", "Empty"} /\ r.code = 0 /\ r.keyword = <<>> /\ r.text = <<>>

\* This holds of every response of the model.
LEMMA ResponsesHaveShape ==
    ASSUME NEW r \in Responses
    PROVE  ResponseShape(r)
<1>1. /\ Lexeme \cup {"OK", "END"} \subseteq Symbol /\ DataLexemes \subseteq Symbol
      /\ Lexeme \cup {"END"} \subseteq Symbol
  BY MessagesAssumption DEF Symbol, Word
<1>2. MaxText \in Nat /\ MaxData \in Nat /\ MaxName \in Nat /\ 0 \in 0..MaxCode
  BY CodecAssumption, MessagesAssumption
<1>3. /\ \A t \in Texts : t \in Text
      /\ \A t \in SeqUpTo(DataLexemes, MaxData) : t \in Text
      /\ \A t \in SeqUpTo(Lexeme \cup {"END"}, MaxName) : t \in Text
      /\ <<>> \in Text
  BY <1>1, <1>2, BoundedIsText, NoText, Zenon DEF Texts
<1>4. CASE r \in [kind : {"Ok", "Comment"}, code : {0}, keyword : {<<>>}, text : Texts]
  <2>1. /\ r.kind \in {"Ok", "Comment"} /\ r.code \in {0}
        /\ r.keyword \in {<<>>} /\ r.text \in Texts
        /\ r = Response(r.kind, r.code, r.keyword, r.text)
    BY <1>4 DEF Response
  <2> QED BY <1>2, <1>3, <2>1, Zenon DEF ResponseShape
<1>5. CASE r \in [kind : {"Data"}, code : {0}, keyword : {<<>>},
                  text : SeqUpTo(DataLexemes, MaxData)]
  <2>1. /\ r.kind \in {"Data"} /\ r.code \in {0}
        /\ r.keyword \in {<<>>} /\ r.text \in SeqUpTo(DataLexemes, MaxData)
        /\ r = Response(r.kind, r.code, r.keyword, r.text)
    BY <1>5 DEF Response
  <2> QED BY <1>2, <1>3, <2>1, Zenon DEF ResponseShape
<1>6. CASE r \in [kind : {"Err"}, code : 0..MaxCode, keyword : {<<>>}, text : Texts]
  <2>1. /\ r.kind \in {"Err"} /\ r.code \in 0..MaxCode
        /\ r.keyword \in {<<>>} /\ r.text \in Texts
        /\ r = Response(r.kind, r.code, r.keyword, r.text)
    BY <1>6 DEF Response
  <2> QED BY <1>2, <1>3, <2>1, Zenon DEF ResponseShape
<1>7. CASE r \in [kind : {"Status", "Inquire"}, code : {0},
                  keyword : SeqUpTo(Lexeme \cup {"END"}, MaxName), text : Texts]
  <2>1. /\ r.kind \in {"Status", "Inquire"} /\ r.code \in {0}
        /\ r.keyword \in SeqUpTo(Lexeme \cup {"END"}, MaxName) /\ r.text \in Texts
        /\ r = Response(r.kind, r.code, r.keyword, r.text)
    BY <1>7 DEF Response
  <2> QED BY <1>2, <1>3, <2>1, Zenon DEF ResponseShape
<1>8. CASE r \in [kind : {"End", "Empty"}, code : {0}, keyword : {<<>>}, text : {<<>>}]
  <2>1. /\ r.kind \in {"End", "Empty"} /\ r.code \in {0}
        /\ r.keyword \in {<<>>} /\ r.text \in {<<>>}
        /\ r = Response(r.kind, r.code, r.keyword, r.text)
    BY <1>8 DEF Response
  <2> QED BY <1>2, <1>3, <2>1, Zenon DEF ResponseShape
<1> QED BY <1>4, <1>5, <1>6, <1>7, <1>8, Zenon DEF Responses

\* encode_response then parse_server_line: the same response with every byte of its text.
LEMMA ResponseReads ==
    ASSUME NEW r, ResponseShape(r), ~IsError(encode_response(r))
    PROVE  Reads(encode_response(r), r) /\ (r.kind = "Data" => Decodes(r.text))
<1> DEFINE e == encode_response(r)
<1>0. /\ r = Response(r.kind, r.code, r.keyword, r.text)
      /\ r.text \in Text /\ r.keyword \in Text /\ r.code \in 0..MaxCode
  BY Zenon DEF ResponseShape
<1>1. CASE r.kind = "Ok"
  <2>1. e = write_optional(<<<<"OK">>>>, r.text)
    BY <1>1 DEF encode_response
  <2>2. r = Plain("Ok", r.text) /\ r.kind # "Data"
    BY <1>1 DEF ResponseShape, Plain
  <2> QED BY <1>0, <2>1, <2>2, OkReads, Zenon
<1>2. CASE r.kind = "Comment"
  <2>1. e = write_parts(<<<<"#">>, r.text>>)
    BY <1>2 DEF encode_response
  <2>2. r = Plain("Comment", r.text) /\ r.kind # "Data"
    BY <1>2 DEF ResponseShape, Plain
  <2> QED BY <1>0, <2>1, <2>2, CommentReads, Zenon
<1>3. CASE r.kind = "Data"
  <2>1. e = IF validate_encoded_data(r.text) THEN write_parts(<<<<"D", "sp">>, r.text>>)
            ELSE Refused("InvalidEscape")
    BY <1>3 DEF encode_response
  <2>2. r = Plain("Data", r.text)
    BY <1>3 DEF ResponseShape, Plain
  <2>3. validate_encoded_data(r.text)
    <3>1. IsError(Refused("InvalidEscape"))
      BY DEF IsError, Refused
    <3> QED BY <2>1, <3>1, Zenon
  <2> QED BY <1>0, <2>1, <2>2, <2>3, DataReads, CheckedDataDecodes, Zenon
<1>4. CASE r.kind = "Err"
  <2>1. e = write_optional(<<<<"ERR", "sp">>, Decimal(r.code)>>, r.text)
    BY <1>4 DEF encode_response
  <2>2. r = Response("Err", r.code, <<>>, r.text) /\ r.kind # "Data"
    BY <1>4 DEF ResponseShape
  <2> QED BY <1>0, <2>1, <2>2, ErrReads, Zenon
<1>5. CASE r.kind = "Status"
  <2>1. e = write_keyword(<<"S", "sp">>, r.keyword, r.text)
    BY <1>5 DEF encode_response
  <2>2. r = Response("Status", 0, r.keyword, r.text) /\ r.kind # "Data"
    BY <1>5 DEF ResponseShape
  <2>3. Reads(e, Response(IF "S" = "S" THEN "Status" ELSE "Inquire", 0, r.keyword, r.text))
    BY <1>0, <2>1, KeywordReads
  <2> QED BY <2>2, <2>3, Zenon
<1>6. CASE r.kind = "Inquire"
  <2>1. e = write_keyword(<<"INQUIRE", "sp">>, r.keyword, r.text)
    BY <1>6 DEF encode_response
  <2>2. r = Response("Inquire", 0, r.keyword, r.text) /\ r.kind # "Data" /\ "INQUIRE" # "S"
    BY <1>6 DEF ResponseShape
  <2>3. Reads(e, Response(IF "INQUIRE" = "S" THEN "Status" ELSE "Inquire", 0, r.keyword, r.text))
    BY <1>0, <2>1, KeywordReads
  <2> QED BY <2>2, <2>3, Zenon
<1>7. CASE r.kind = "End"
  <2>1. e = write_parts(<<<<"END">>>>)
    BY <1>7 DEF encode_response
  <2>2. r = Plain("End", <<>>) /\ r.kind # "Data"
    BY <1>7 DEF ResponseShape, Plain
  <2> QED BY <2>1, <2>2, EndReads, Zenon
<1>8. CASE r.kind = "Empty"
  <2>1. e = write_parts(<<>>)
    BY <1>8 DEF encode_response
  <2>2. r = Plain("Empty", <<>>) /\ r.kind # "Data"
    BY <1>8 DEF ResponseShape, Plain
  <2> QED BY <2>1, <2>2, EmptyReads, Zenon
<1> QED BY <1>1, <1>2, <1>3, <1>4, <1>5, <1>6, <1>7, <1>8, Zenon DEF ResponseShape

-----------------------------------------------------------------------------
(* Commands *)

\* The line of a command: its name up to the first space, its arguments after it.
LEMMA CommandLine ==
    ASSUME NEW n \in Text, NEW a \in Text, validate_token(n),
           ~IsError(write_optional(<<n>>, a))
    PROVE  \E line \in Text :
              /\ write_optional(<<n>>, a) = [line |-> line] /\ Writable(line)
              /\ Len(line) >= 1 /\ line[1] = n[1] /\ split_field(line) = <<n, a>>
<1> DEFINE gap == <<"sp">>
<1>1. gap \in Text
  BY OneLexeme, Symbols, Zenon
<1>2. \A i \in 1..Len(n) : n[i] # "sp"
  BY TokenHasNoSpace, Zenon
<1>3. Len(n) \in Nat /\ Len(n) >= 1 /\ 1 \in 1..Len(n)
  <2>1. n # <<>>
    BY Zenon DEF validate_token
  <2> QED BY <2>1 DEF Text
<1>4. CASE a = <<>>
  <2>1. write_optional(<<n>>, a) = write_parts(<<n>>)
    BY <1>4, Optional, Zenon
  <2>2. write_parts(<<n>>) = [line |-> n] /\ Writable(n)
    BY <2>1, LineOfOne, Zenon
  <2>3. split_field(n) = <<n, a>>
    BY <1>2, <1>4, SplitsAtSpace, Zenon
  <2> QED BY <1>3, <2>1, <2>2, <2>3, Zenon
<1>5. CASE a # <<>>
  <2> DEFINE h == n \o gap
             j == h \o a
  <2>1. split_field(j) = <<n, a>>
    BY <1>2, SplitsJoined, Zenon
  <2>2. write_optional(<<n>>, a) = write_parts(<<n>> \o <<gap, a>>)
    BY <1>5, Optional, Zenon
  <2> HIDE DEF gap
  <2>3. <<n>> \o <<gap, a>> = <<n, gap, a>>
    BY <1>1, AddToOne, Zenon
  <2>4. write_parts(<<n, gap, a>>) = [line |-> j] /\ Writable(j)
    <3>1. ~IsError(write_parts(<<n, gap, a>>))
      BY <2>2, <2>3, Zenon
    <3> QED BY <1>1, <3>1, LineOfThree, Zenon
  <2>5. /\ h \in Text /\ Len(h) = Len(n) + Len(gap) /\ Len(gap) \in Nat
        /\ \A i \in 1..Len(n) : h[i] = n[i]
    BY <1>1, Joined, Zenon
  <2> HIDE DEF h
  <2>6. /\ j \in Text /\ Len(j) = Len(h) + Len(a) /\ Len(a) \in Nat
        /\ \A i \in 1..Len(h) : j[i] = h[i]
    BY <2>5, Joined, Zenon
  <2> HIDE DEF j
  <2>7. Len(j) >= 1 /\ j[1] = n[1]
    BY <1>3, <2>5, <2>6
  <2> QED BY <2>1, <2>2, <2>3, <2>4, <2>6, <2>7, Zenon
<1> QED BY <1>4, <1>5, Zenon

\* Only a command whose name is D, END or CAN makes a line of an inquiry.
LEMMA InquiryLines ==
    ASSUME NEW line \in Text, NEW n, NEW a, split_field(line) = <<n, a>>
    PROVE  /\ starts_with(line, <<"D", "sp">>) => n = <<"D">>
           /\ line = <<"END">> => n = <<"END">>
           /\ line = <<"CAN">> => n = <<"CAN">>
<1>1. split_field(line)[1] = n
  OBVIOUS
<1>2. ASSUME starts_with(line, <<"D", "sp">>)
      PROVE  n = <<"D">>
  <2>1. Len(line) >= 2 /\ line[1] = "D" /\ line[2] = "sp"
    BY <1>2, StartsWith, Symbols, Zenon
  <2> DEFINE k == 2
  <2>2. k \in 1..Len(line) /\ line[k] = "sp" /\ \A i \in 1..(k - 1) : line[i] # "sp"
    BY <2>1 DEF Text
  <2> HIDE DEF k
  <2> DEFINE x == SubSeq(line, 1, k - 1)
             y == SubSeq(line, k + 1, Len(line))
  <2>3. split_field(line) = <<x, y>>
    BY <2>2, SplitsAtSpace, Zenon
  <2> HIDE DEF x, y
  <2>4. n = x /\ k - 1 = 1
    <3>1. <<x, y>>[1] = x
      OBVIOUS
    <3>2. k - 1 = 1
      BY DEF k
    <3> QED BY <1>1, <2>3, <3>1, <3>2, Zenon
  <2>5. SubSeq(line, 1, 1) = <<"D">>
    <3>1. SubSeq(line, 1, 1) = [i \in 1..1 |-> line[i]]
      BY <2>1 DEF Text
    <3> DEFINE u == SubSeq(line, 1, 1)
    <3>2. u \in Text /\ Len(u) = 1 /\ u[1] = "D"
      BY <2>1, <3>1, Symbols DEF Text
    <3> HIDE DEF u
    <3>3. u = <<"D">>
      BY <3>2, StartsWith, Symbols, Zenon
    <3> QED BY <3>3, Zenon DEF u
  <2> QED BY <2>4, <2>5, Zenon DEF x
<1>3. ASSUME NEW w \in Symbol, w # "sp", line = <<w>>
      PROVE  n = <<w>>
  <2>1. \A i \in 1..Len(line) : line[i] # "sp"
    BY <1>3
  <2>2. split_field(line) = <<line, <<>>>>
    BY <2>1, SplitsAtSpace, Zenon
  <2> QED BY <1>1, <1>3, <2>2
<1>4. "END" # "sp" /\ "CAN" # "sp"
  OBVIOUS
<1> QED BY <1>2, <1>3, <1>4, Symbols, Zenon

\* request_kind (inquiry.rs:190): what a valid line that starts like a token is.
LEMMA RequestOf ==
    ASSUME NEW line \in Text, validate_line(line), Len(line) >= 1, line[1] # "#"
    PROVE  \/ starts_with(line, <<"D", "sp">>) /\ request_kind(line) = [kind |-> "Data"]
           \/ line = <<"END">> /\ request_kind(line) = [kind |-> "End"]
           \/ line = <<"CAN">> /\ request_kind(line) = [kind |-> "Can"]
           \/ request_kind(line) =
                 IF ~IsError(ParseCommand(line)) /\ ParseCommand(line).name \in InquiryNames
                 THEN Refused("InvalidLine") ELSE ParseCommand(line)
<1>1. /\ ~(line = <<>>) /\ ~starts_with(line, <<"#">>)
      /\ starts_with(line, <<"D", "sp">>) <=> Len(line) >= 2 /\ line[1] = "D" /\ line[2] = "sp"
      /\ line = <<"END">> <=> Len(line) = 1 /\ line[1] = "END"
      /\ line = <<"CAN">> <=> Len(line) = 1 /\ line[1] = "CAN"
  <2>1. Len(line) # 0
    BY DEF Text
  <2> QED BY <2>1, StartsWith, Symbols, Zenon
<1> DEFINE e == line = <<>>
           c == starts_with(line, <<"#">>)
           d == starts_with(line, <<"D", "sp">>)
           en == line = <<"END">>
           ca == line = <<"CAN">>
           other == IF ~IsError(ParseCommand(line)) /\ ParseCommand(line).name \in InquiryNames
                    THEN Refused("InvalidLine") ELSE ParseCommand(line)
<1>2. request_kind(line) = CASE e -> [kind |-> "Empty"]
                             [] c -> [kind |-> "Comment"]
                             [] d -> [kind |-> "Data"]
                             [] en -> [kind |-> "End"]
                             [] ca -> [kind |-> "Can"]
                             [] OTHER -> other
  BY Zenon DEF request_kind, IsEnd, InquiryNames
<1>3. /\ ~e /\ ~c
      /\ d <=> Len(line) >= 2 /\ line[1] = "D" /\ line[2] = "sp"
      /\ en <=> Len(line) = 1 /\ line[1] = "END"
      /\ ca <=> Len(line) = 1 /\ line[1] = "CAN"
  BY <1>1, Zenon
<1> HIDE DEF e, c, d, en, ca, other
<1>4. /\ d => request_kind(line) = [kind |-> "Data"]
      /\ en => request_kind(line) = [kind |-> "End"]
      /\ ca => request_kind(line) = [kind |-> "Can"]
      /\ ~d /\ ~en /\ ~ca => request_kind(line) = other
  BY <1>2, <1>3
<1> QED BY <1>4, Zenon DEF d, en, ca, other

\* A command reaches dispatch as it was sent, unless its name belongs to an inquiry.
Dispatches(encoded, c) ==
    \E line \in Text :
        /\ encoded = [line |-> line] /\ Writable(line)
        /\ IF c.name \in InquiryNames
           THEN IsError(request_kind(line)) \/ request_kind(line).kind \in {"End", "Can", "Data"}
           ELSE request_kind(line) = c

\* This holds of every command that Command::new accepts (command.rs:25).
LEMMA CommandDispatches ==
    ASSUME NEW n \in Text, NEW a \in Text, ~IsError(Command(n, a)),
           ~IsError(encode_command(Command(n, a)))
    PROVE  Dispatches(encode_command(Command(n, a)), Command(n, a))
<1> DEFINE c == Command(n, a)
<1>1. validate_token(n) /\ validate_line(a)
  <2>1. \A w : IsError(Refused(w))
    BY DEF IsError, Refused
  <2> QED BY <2>1, Zenon DEF Command
<1>2. c = [kind |-> "Command", name |-> n, args |-> a]
  BY <1>1, Zenon DEF Command
<1>3. c.name = n /\ c.args = a
  BY <1>2
<1> HIDE DEF c
<1>4. encode_command(c) = write_optional(<<n>>, a)
  BY <1>3, Zenon DEF encode_command
<1>5. PICK line \in Text :
        /\ write_optional(<<n>>, a) = [line |-> line] /\ Writable(line)
        /\ Len(line) >= 1 /\ line[1] = n[1] /\ split_field(line) = <<n, a>>
  BY <1>1, <1>4, CommandLine, Zenon DEF c
<1>6. validate_line(line) /\ line[1] # "#"
  BY <1>1, <1>5, Zenon DEF Writable, validate_token
<1>7. ParseCommand(line) = c
  <2>1. split_field(line)[1] = n /\ split_field(line)[2] = a
    BY <1>5
  <2> QED BY <1>6, <2>1, Zenon DEF ParseCommand, c
<1>8. IF n \in InquiryNames
      THEN IsError(request_kind(line)) \/ request_kind(line).kind \in {"End", "Can", "Data"}
      ELSE request_kind(line) = c
  <2>1. <<"D">> \in InquiryNames /\ <<"END">> \in InquiryNames /\ <<"CAN">> \in InquiryNames
    BY Zenon DEF InquiryNames
  <2>2. CASE starts_with(line, <<"D", "sp">>) /\ request_kind(line) = [kind |-> "Data"]
    <3>1. n = <<"D">>
      BY <1>5, <2>2, InquiryLines, Zenon
    <3>2. request_kind(line).kind = "Data"
      BY <2>2
    <3> QED BY <2>1, <3>1, <3>2, Zenon
  <2>3. CASE line = <<"END">> /\ request_kind(line) = [kind |-> "End"]
    <3>1. n = <<"END">>
      BY <1>5, <2>3, InquiryLines, Zenon
    <3>2. request_kind(line).kind = "End"
      BY <2>3
    <3> QED BY <2>1, <3>1, <3>2, Zenon
  <2>4. CASE line = <<"CAN">> /\ request_kind(line) = [kind |-> "Can"]
    <3>1. n = <<"CAN">>
      BY <1>5, <2>4, InquiryLines, Zenon
    <3>2. request_kind(line).kind = "Can"
      BY <2>4
    <3> QED BY <2>1, <3>1, <3>2, Zenon
  <2>5. CASE request_kind(line) = IF ~IsError(c) /\ c.name \in InquiryNames
                                  THEN Refused("InvalidLine") ELSE c
    <3>1. ~IsError(c)
      BY Zenon DEF c
    <3>2. IsError(Refused("InvalidLine"))
      BY DEF IsError, Refused
    <3> QED BY <1>3, <2>5, <3>1, <3>2, Zenon
  <2> QED BY <1>5, <1>6, <1>7, <2>2, <2>3, <2>4, <2>5, RequestOf, Zenon
<1> QED BY <1>3, <1>4, <1>5, <1>8, Zenon DEF Dispatches, c

-----------------------------------------------------------------------------
(* Options *)

\* Max is the greatest element of a set of positions.
LEMMA GreatestIsMax ==
    ASSUME NEW n \in Nat, NEW T, T \subseteq 1..n, T # {}
    PROVE  Max(T) \in T /\ \A k \in T : Max(T) >= k
<1> DEFINE U == {d \in Nat : n - d \in T}
<1>1. U \subseteq Nat /\ U # {}
  <2>1. PICK k \in T : TRUE
    BY Zenon
  <2>2. n - k \in Nat /\ n - (n - k) \in T
    BY <2>1
  <2> QED BY <2>2, Zenon
<1>2. PICK d \in U : \A k \in U : d <= k
  BY <1>1, LeastElement, Zenon
<1>3. n - d \in T
  BY <1>2, Zenon
<1>4. ASSUME NEW k \in T
      PROVE  n - d >= k
  <2>1. n - k \in Nat /\ n - (n - k) \in T /\ k \in Nat /\ d \in Nat
    BY <1>2, <1>4
  <2>2. d <= n - k
    BY <1>2, <2>1, Zenon
  <2> QED BY <2>1, <2>2
<1> QED BY <1>3, <1>4, Zenon DEF Max

\* trim cuts at the first and the last lexeme that is not a space.
LEMMA TrimsTo ==
    ASSUME NEW s \in Text, NEW lo \in 1..Len(s), NEW hi \in 1..Len(s),
           s[lo] # "sp", s[hi] # "sp",
           \A i \in 1..Len(s) : s[i] # "sp" => lo <= i /\ i <= hi
    PROVE  trim(s) = SubSeq(s, lo, hi)
<1> DEFINE ink == {i \in DOMAIN s : s[i] # "sp"}
<1>0. DOMAIN s = 1..Len(s) /\ Len(s) \in Nat
  BY DEF Text
<1>1. ink \subseteq 1..Len(s) /\ ink \subseteq Nat /\ lo \in ink /\ hi \in ink /\ ink # {}
  BY <1>0
<1>2. \A i \in ink : lo <= i /\ i <= hi
  BY <1>0, Zenon
<1>3. trim(s) = SubSeq(s, Min(ink), Max(ink))
  BY <1>1, Zenon DEF trim
<1> HIDE DEF ink
<1>4. Min(ink) \in ink /\ \A k \in ink : Min(ink) <= k
  BY <1>1, LeastIsMin, Zenon
<1>5. Max(ink) \in ink /\ \A k \in ink : Max(ink) >= k
  BY <1>0, <1>1, GreatestIsMax, Zenon
<1>6. Min(ink) = lo
  <2>1. Min(ink) <= lo /\ lo <= Min(ink) /\ Min(ink) \in Nat /\ lo \in Nat
    BY <1>1, <1>2, <1>4, Zenon
  <2> QED BY <2>1
<1>7. Max(ink) = hi
  <2>1. Max(ink) >= hi /\ Max(ink) <= hi /\ Max(ink) \in Nat /\ hi \in Nat
    BY <1>1, <1>2, <1>5, Zenon
  <2> QED BY <2>1
<1> QED BY <1>3, <1>6, <1>7, Zenon

\* Nothing but spaces; and a text with none at its ends.
Spaces(s) == s \in Text /\ \A i \in 1..Len(s) : s[i] = "sp"
Inked(s) == s \in Text /\ Len(s) >= 1 /\ s[1] # "sp" /\ s[Len(s)] # "sp"

\* Nothing is left of spaces,
LEMMA SpacesTrim ==
    ASSUME NEW s, Spaces(s)
    PROVE  trim(s) = <<>>
<1>1. DOMAIN s = 1..Len(s)
  BY DEF Spaces, Text
<1>2. {i \in DOMAIN s : s[i] # "sp"} = {}
  BY <1>1, Zenon DEF Spaces
<1> QED BY <1>2, Zenon DEF trim

\* and what is between them stays as it is.
LEMMA InkStays ==
    ASSUME NEW l, NEW m, NEW r, Spaces(l), Inked(m), Spaces(r)
    PROVE  trim((l \o m) \o r) = m
<1> DEFINE h == l \o m
           j == h \o r
           lo == Len(l) + 1
           hi == Len(l) + Len(m)
<1>0. l \in Text /\ m \in Text /\ r \in Text /\ Len(m) >= 1
  BY Zenon DEF Spaces, Inked
<1>1. /\ h \in Text /\ Len(h) = Len(l) + Len(m) /\ Len(l) \in Nat /\ Len(m) \in Nat
      /\ \A i \in 1..Len(l) : h[i] = l[i]
      /\ \A i \in 1..Len(m) : h[Len(l) + i] = m[i]
  BY <1>0, Joined, Zenon
<1> HIDE DEF h
<1>2. /\ j \in Text /\ Len(j) = Len(h) + Len(r) /\ Len(r) \in Nat
      /\ \A i \in 1..Len(h) : j[i] = h[i]
      /\ \A i \in 1..Len(r) : j[Len(h) + i] = r[i]
  BY <1>0, <1>1, Joined, Zenon
<1> HIDE DEF j
<1>3. /\ lo \in 1..Len(j) /\ hi \in 1..Len(j) /\ lo \in 1..Len(h) /\ hi \in 1..Len(h)
      /\ 1 \in 1..Len(m) /\ Len(m) \in 1..Len(m) /\ Len(l) <= hi /\ hi <= Len(j) /\ hi \in Nat
      /\ hi - Len(l) = Len(m)
  BY <1>0, <1>1, <1>2
<1>4. \A i \in 1..Len(m) : j[Len(l) + i] = m[i]
  <2>1. \A i \in 1..Len(m) : Len(l) + i \in 1..Len(h)
    BY <1>1
  <2> QED BY <1>1, <1>2, <2>1, Zenon
<1>5. j[lo] # "sp" /\ j[hi] # "sp"
  BY <1>3, <1>4, Zenon DEF Inked
<1>6. ASSUME NEW i \in 1..Len(j), j[i] # "sp"
      PROVE  lo <= i /\ i <= hi
  <2>1. ~(i \in 1..Len(l))
    <3>1. i \in 1..Len(l) => i \in 1..Len(h)
      BY <1>1
    <3> QED BY <1>1, <1>2, <1>6, <3>1, Zenon DEF Spaces
  <2>2. ~(i - Len(h) \in 1..Len(r))
    <3>1. Len(h) + (i - Len(h)) = i
      BY <1>1, <1>2
    <3> QED BY <1>2, <1>6, <3>1, Zenon DEF Spaces
  <2> QED BY <1>1, <1>2, <2>1, <2>2
<1>7. trim(j) = SubSeq(j, lo, hi)
  BY <1>2, <1>3, <1>5, <1>6, TrimsTo, Zenon
<1>8. /\ SubSeq(j, lo, hi) \in Text /\ Len(SubSeq(j, lo, hi)) = hi - Len(l)
      /\ \A i \in 1..(hi - Len(l)) : SubSeq(j, lo, hi)[i] = j[Len(l) + i]
  BY <1>1, <1>2, <1>3, Piece, Zenon
<1> DEFINE u == SubSeq(j, lo, hi)
<1>9. u \in Text /\ Len(u) = Len(m) /\ \A i \in 1..Len(u) : u[i] = m[i]
  BY <1>3, <1>4, <1>8, Zenon
<1> HIDE DEF u
<1>10. u = m
  BY <1>0, <1>9, SameText, Zenon
<1> QED BY <1>7, <1>10, Zenon DEF u, j, h

\* A piece of a valid line is valid.
LEMMA PieceIsValid ==
    ASSUME NEW s \in Text, NEW m \in Nat, NEW n \in Nat, m <= n, n <= Len(s), validate_line(s)
    PROVE  validate_line(SubSeq(s, m + 1, n))
<1> DEFINE u == SubSeq(s, m + 1, n)
<1>1. u \in Text /\ Len(u) = n - m /\ \A i \in 1..(n - m) : u[i] = s[m + i]
  BY Piece, Zenon
<1> HIDE DEF u
<1>2. \A i \in 1..(n - m) : m + i \in 1..Len(s)
  BY DEF Text
<1>3. \A i \in 1..Len(s) : s[i] # "nl"
  BY ValidLine, Zenon
<1>4. \A i \in 1..Len(u) : u[i] # "nl"
  BY <1>1, <1>2, <1>3, Zenon
<1>5. validate_line(u)
  BY <1>1, <1>4, ValidLine, Zenon
<1> QED BY <1>5, Zenon DEF u

\* Valid, and without spaces around it.
Clean(s) == s \in Text /\ validate_line(s) /\ (s = <<>> \/ Inked(s))

\* trim makes a valid text clean.
LEMMA TrimmedIsClean ==
    ASSUME NEW s \in Text, validate_line(s)
    PROVE  Clean(trim(s))
<1> DEFINE ink == {i \in DOMAIN s : s[i] # "sp"}
<1>0. DOMAIN s = 1..Len(s) /\ Len(s) \in Nat
  BY DEF Text
<1>1. CASE ink = {}
  <2>1. trim(s) = <<>>
    BY <1>1, Zenon DEF trim
  <2>2. validate_line(<<>>)
    <3>1. \A i \in 1..Len(<<>>) : <<>>[i] # "nl"
      OBVIOUS
    <3> QED BY <3>1, NoText, ValidLine, Zenon
  <2> QED BY <2>1, <2>2, NoText, Zenon DEF Clean
<1>2. CASE ink # {}
  <2>1. ink \subseteq 1..Len(s) /\ ink \subseteq Nat
    BY <1>0
  <2> DEFINE lo == Min(ink)
             hi == Max(ink)
             m == lo - 1
             u == SubSeq(s, lo, hi)
  <2>2. trim(s) = u
    BY <1>2, Zenon DEF trim
  <2>3. lo \in ink /\ hi \in ink /\ lo <= hi
    BY <1>0, <1>2, <2>1, LeastIsMin, GreatestIsMax, Zenon
  <2>4. lo \in 1..Len(s) /\ s[lo] # "sp" /\ hi \in 1..Len(s) /\ s[hi] # "sp"
    BY <1>0, <2>3, Zenon
  <2> HIDE DEF ink, lo, hi
  <2>5. m \in Nat /\ hi \in Nat /\ m <= hi /\ hi <= Len(s) /\ m + 1 = lo
        /\ hi - m >= 1 /\ m + (hi - m) = hi /\ hi - m \in 1..(hi - m) /\ 1 \in 1..(hi - m)
    BY <1>0, <2>3, <2>4
  <2> HIDE DEF m
  <2>6. /\ SubSeq(s, m + 1, hi) \in Text /\ Len(SubSeq(s, m + 1, hi)) = hi - m
        /\ \A i \in 1..(hi - m) : SubSeq(s, m + 1, hi)[i] = s[m + i]
    BY <2>5, Piece, Zenon
  <2>7. validate_line(SubSeq(s, m + 1, hi))
    BY <2>5, PieceIsValid, Zenon
  <2>8. u \in Text /\ Len(u) = hi - m /\ u[1] = s[lo] /\ u[hi - m] = s[hi] /\ validate_line(u)
    BY <2>5, <2>6, <2>7, Zenon
  <2> HIDE DEF u
  <2>9. Inked(u)
    BY <2>4, <2>5, <2>8, Zenon DEF Inked
  <2> QED BY <2>2, <2>8, <2>9, Zenon DEF Clean
<1> QED BY <1>1, <1>2, Zenon

\* Where OptionRequest::parse (hooks.rs:47) ends the name.
NameEnd(s) ==
    LET stop == position(s, {"sp", "="}) IN
    IF stop = 0 THEN Len(s) ELSE stop - 1

\* The name ends before the first space or =, or with the text.
LEMMA NameEndIs ==
    ASSUME NEW s \in Text
    PROVE  /\ NameEnd(s) \in 0..Len(s)
           /\ \A i \in 1..NameEnd(s) : s[i] \notin {"sp", "="}
           /\ NameEnd(s) < Len(s) => s[NameEnd(s) + 1] \in {"sp", "="}
<1> DEFINE T == {i \in 1..Len(s) : s[i] \in {"sp", "="}}
           stop == position(s, {"sp", "="})
           e == NameEnd(s)
<1>1. stop = IF T # {} THEN Min(T) ELSE 0
  BY Zenon DEF position
<1>2. T \subseteq Nat /\ Len(s) \in Nat
  BY DEF Text
<1>3. e = IF stop = 0 THEN Len(s) ELSE stop - 1
  BY Zenon DEF NameEnd
<1> HIDE DEF stop, e
<1>4. CASE T = {}
  <2>1. e = Len(s)
    BY <1>1, <1>3, <1>4, Zenon
  <2>2. \A i \in 1..Len(s) : s[i] \notin {"sp", "="}
    BY <1>4, Zenon
  <2>3. e \in 0..Len(s) /\ ~(e < Len(s))
    BY <1>2, <2>1
  <2> QED BY <2>1, <2>2, <2>3, Zenon DEF e
<1>5. CASE T # {}
  <2>1. stop \in T /\ \A k \in T : stop <= k
    BY <1>1, <1>2, <1>5, LeastIsMin, Zenon
  <2>2. stop \in 1..Len(s) /\ s[stop] \in {"sp", "="}
    BY <2>1, Zenon
  <2>3. e = stop - 1 /\ e + 1 = stop /\ e \in 0..Len(s)
    BY <1>2, <1>3, <2>2
  <2>4. ASSUME NEW i \in 1..e
        PROVE  s[i] \notin {"sp", "="}
    <3>1. i \in 1..Len(s) /\ ~(stop <= i)
      BY <1>2, <2>2, <2>3
    <3> QED BY <2>1, <3>1, Zenon
  <2> QED BY <2>2, <2>3, <2>4, Zenon DEF e
<1> QED BY <1>4, <1>5, Zenon

\* The name of an option: a token up to a space or =.
OptionName(n) ==
    n \in Text /\ validate_token(n) /\ \A i \in 1..Len(n) : n[i] \notin {"sp", "="}

\* What follows the name: nothing, or its separator; no space at the end.
OptionTail(z) ==
    /\ z \in Text /\ validate_line(z)
    /\ z = <<>> \/ (Len(z) >= 1 /\ z[1] \in {"sp", "="} /\ z[Len(z)] # "sp")

\* A name ends where its tail starts.
LEMMA NameEndsAtTail ==
    ASSUME NEW n, NEW z, OptionName(n), OptionTail(z)
    PROVE  NameEnd(n \o z) = Len(n)
<1> DEFINE b == n \o z
           e == NameEnd(b)
<1>0. n \in Text /\ z \in Text
  BY Zenon DEF OptionName, OptionTail
<1>1. /\ b \in Text /\ Len(b) = Len(n) + Len(z) /\ Len(n) \in Nat /\ Len(z) \in Nat
      /\ \A i \in 1..Len(n) : b[i] = n[i]
      /\ \A i \in 1..Len(z) : b[Len(n) + i] = z[i]
  BY <1>0, Joined, Zenon
<1> HIDE DEF b
<1>2. /\ e \in 0..Len(b)
      /\ \A i \in 1..e : b[i] \notin {"sp", "="}
      /\ e < Len(b) => b[e + 1] \in {"sp", "="}
  BY <1>1, NameEndIs, Zenon
<1> HIDE DEF e
<1>3. ~(e + 1 \in 1..Len(n))
  <2>1. SUFFICES ASSUME e + 1 \in 1..Len(n) PROVE FALSE
    BY Zenon
  <2>2. e < Len(b)
    BY <1>1, <1>2, <2>1
  <2> QED BY <1>1, <1>2, <2>1, <2>2, Zenon DEF OptionName
<1>4. e >= Len(n)
  BY <1>1, <1>2, <1>3
<1>5. CASE z = <<>>
  <2>1. Len(z) = 0
    BY <1>5
  <2>2. e = Len(n)
    BY <1>1, <1>2, <1>4, <2>1
  <2> QED BY <2>2, Zenon DEF e, b
<1>6. CASE z # <<>>
  <2>1. Len(z) >= 1 /\ z[1] \in {"sp", "="}
    BY <1>6, Zenon DEF OptionTail
  <2>2. 1 \in 1..Len(z)
    BY <1>1, <2>1
  <2>3. b[Len(n) + 1] \in {"sp", "="}
    BY <1>1, <2>1, <2>2, Zenon
  <2>4. ~(Len(n) + 1 \in 1..e)
    BY <1>2, <2>3, Zenon
  <2>5. e = Len(n)
    BY <1>1, <1>2, <1>4, <2>4
  <2> QED BY <2>5, Zenon DEF e, b
<1> QED BY <1>5, <1>6, Zenon

\* ParseOption in terms of NameEnd.
LEMMA ParseOptionIs ==
    ASSUME NEW bytes
    PROVE  ParseOption(bytes) =
              LET trimmed == trim(bytes)
                  body == IF starts_with(trimmed, <<"--">>) THEN Tail(trimmed) ELSE trimmed
                  name == Command(SubSeq(body, 1, NameEnd(body)), <<>>) IN
              IF ~validate_line(bytes) THEN Refused("InvalidLine")
              ELSE IF IsError(name) THEN name
              ELSE [name |-> name.name,
                    value |-> OptionValue(trim(SubSeq(body, NameEnd(body) + 1, Len(body))))]
BY Zenon DEF ParseOption, NameEnd

\* The empty text is valid, and all spaces.
LEMMA EmptyIsValid == validate_line(<<>>) /\ Spaces(<<>>)
<1>1. (\A i \in 1..Len(<<>>) : <<>>[i] # "nl") /\ (\A i \in 1..Len(<<>>) : <<>>[i] = "sp")
  OBVIOUS
<1> QED BY <1>1, NoText, ValidLine, Zenon DEF Spaces

\* Command::new (command.rs) accepts a token.
LEMMA TokenIsValid ==
    ASSUME NEW n \in Text, validate_token(n)
    PROVE  /\ validate_line(n) /\ Len(n) >= 1
           /\ ~IsError(Command(n, <<>>)) /\ Command(n, <<>>).name = n
<1>1. validate_line(n)
  BY Zenon DEF validate_token, validate_line
<1>2. Len(n) >= 1
  <2>1. n # <<>>
    BY Zenon DEF validate_token
  <2> QED BY <2>1 DEF Text
<1>3. Command(n, <<>>) = [kind |-> "Command", name |-> n, args |-> <<>>]
  BY EmptyIsValid, Zenon DEF Command
<1>4. ~IsError(Command(n, <<>>)) /\ Command(n, <<>>).name = n
  BY <1>3 DEF IsError
<1> QED BY <1>1, <1>2, <1>4, Zenon

\* An option written again after -- and read again is the one it was.
LEMMA ReadAgain ==
    ASSUME NEW n, NEW z, NEW r, OptionName(n), OptionTail(z), Spaces(r)
    PROVE  ParseOption((<<"--">> \o (n \o z)) \o r)
           = [name |-> n, value |-> OptionValue(trim(z))]
<1> DEFINE d == <<"--">>
           b == n \o z
           w == d \o b
           j == w \o r
<1>0. n \in Text /\ z \in Text /\ r \in Text /\ validate_line(z) /\ validate_token(n)
  BY Zenon DEF OptionName, OptionTail, Spaces
<1>1. d \in Text /\ Len(d) = 1 /\ d[1] = "--"
  BY OneLexeme, Symbols, Zenon
<1>2. /\ validate_line(n) /\ Len(n) >= 1
      /\ ~IsError(Command(n, <<>>)) /\ Command(n, <<>>).name = n
  BY <1>0, TokenIsValid, Zenon
<1>3. /\ b \in Text /\ Len(b) = Len(n) + Len(z) /\ Len(n) \in Nat /\ Len(z) \in Nat
      /\ \A i \in 1..Len(n) : b[i] = n[i]
      /\ \A i \in 1..Len(z) : b[Len(n) + i] = z[i]
  BY <1>0, Joined, Zenon
<1>4. NameEnd(b) = Len(n) /\ SubSeq(b, 1, Len(n)) = n /\ SubSeq(b, Len(n) + 1, Len(b)) = z
  BY <1>0, NameEndsAtTail, FrontOfJoined, RestOfJoined, Zenon
<1>5. validate_line(b)
  BY <1>0, <1>2, ValidJoined, Zenon
<1>6. b[Len(b)] # "sp"
  <2>1. CASE z = <<>>
    <3>1. Len(z) = 0
      BY <2>1
    <3>2. Len(b) = Len(n) /\ Len(n) \in 1..Len(n)
      BY <1>2, <1>3, <3>1
    <3> QED BY <1>3, <3>2, Zenon DEF OptionName
  <2>2. CASE z # <<>>
    <3>1. Len(z) >= 1 /\ z[Len(z)] # "sp"
      BY <2>2, Zenon DEF OptionTail
    <3>2. Len(z) \in 1..Len(z)
      BY <1>3, <3>1
    <3> QED BY <1>3, <3>1, <3>2, Zenon
  <2> QED BY <2>1, <2>2, Zenon
<1> HIDE DEF b, d
<1>7. /\ w \in Text /\ Len(w) = Len(d) + Len(b)
      /\ \A i \in 1..Len(d) : w[i] = d[i]
      /\ \A i \in 1..Len(b) : w[Len(d) + i] = b[i]
  BY <1>1, <1>3, Joined, Zenon
<1>8. SubSeq(w, Len(d) + 1, Len(w)) = b
  BY <1>1, <1>3, RestOfJoined, Zenon
<1>9. validate_line(d)
  <2>1. \A i \in 1..Len(d) : d[i] # "nl"
    BY <1>1
  <2> QED BY <1>1, <2>1, ValidLine, Zenon
<1>10. validate_line(w)
  BY <1>1, <1>3, <1>5, <1>9, ValidJoined, Zenon
<1> HIDE DEF w
<1>11. Len(w) >= 1 /\ w[1] = "--" /\ Len(b) \in 1..Len(b) /\ 1 \in 1..Len(d)
  BY <1>1, <1>2, <1>3, <1>7
<1>12. Inked(w)
  <2>1. w[1] # "sp"
    BY <1>11
  <2> QED BY <1>6, <1>7, <1>11, <2>1, Zenon DEF Inked
<1>13. Tail(w) = b
  <2>1. Tail(w) = SubSeq(w, 2, Len(w)) /\ Len(d) + 1 = 2
    BY <1>1, <1>7, <1>11 DEF Text
  <2> QED BY <1>8, <2>1, Zenon
<1>14. starts_with(w, <<"--">>)
  BY <1>7, <1>11, StartsWith, Symbols, Zenon
<1>15. trim(j) = w
  <2>1. trim((<<>> \o w) \o r) = w
    BY <1>12, EmptyIsValid, InkStays, Zenon
  <2>2. <<>> \o w = w
    BY <1>7 DEF Text
  <2> QED BY <2>1, <2>2, Zenon
<1>16. validate_line(j)
  <2>1. \A i \in 1..Len(r) : r[i] # "nl"
    BY DEF Spaces
  <2>2. validate_line(r)
    BY <1>0, <2>1, ValidLine, Zenon
  <2> QED BY <1>0, <1>7, <1>10, <2>2, ValidJoined, Zenon
<1> HIDE DEF j
<1>17. ParseOption(j) = [name |-> n, value |-> OptionValue(trim(z))]
  BY <1>2, <1>4, <1>13, <1>14, <1>15, <1>16, ParseOptionIs, Zenon
<1> QED BY <1>17, Zenon DEF j, w, b, d

\* Joining nothing changes nothing.
LEMMA NothingJoined ==
    ASSUME NEW s \in Text
    PROVE  <<>> \o s = s /\ s \o <<>> = s
BY DEF Text

\* The ends of two texts joined.
LEMMA EndsOfJoined ==
    ASSUME NEW s \in Text, NEW t \in Text, Len(t) >= 1
    PROVE  /\ s \o t \in Text /\ Len(s \o t) >= 1 /\ (s \o t)[Len(s \o t)] = t[Len(t)]
           /\ Len(s) >= 1 => (s \o t)[1] = s[1]
           /\ Len(s) = 0 => (s \o t)[1] = t[1]
<1> DEFINE j == s \o t
<1>1. /\ j \in Text /\ Len(j) = Len(s) + Len(t) /\ Len(s) \in Nat /\ Len(t) \in Nat
      /\ \A i \in 1..Len(s) : j[i] = s[i]
      /\ \A i \in 1..Len(t) : j[Len(s) + i] = t[i]
  BY Joined, Zenon
<1> HIDE DEF j
<1>2. Len(j) >= 1 /\ j[Len(j)] = t[Len(t)]
  BY <1>1
<1>3. Len(s) >= 1 => j[1] = s[1]
  BY <1>1
<1>4. Len(s) = 0 => j[1] = t[1]
  BY <1>1
<1> QED BY <1>1, <1>2, <1>3, <1>4, Zenon DEF j

\* After spaces comes the separator.
LEMMA SpacedTail ==
    ASSUME NEW gap, Spaces(gap), NEW m, Inked(m), m[1] = "=", validate_line(m)
    PROVE  OptionTail(gap \o m) /\ trim(gap \o m) = m
<1> DEFINE z == gap \o m
<1>0. gap \in Text /\ m \in Text /\ Len(m) >= 1 /\ m[Len(m)] # "sp"
  BY Zenon DEF Spaces, Inked
<1>1. /\ z \in Text /\ Len(z) >= 1 /\ z[Len(z)] = m[Len(m)]
      /\ Len(gap) >= 1 => z[1] = gap[1]
      /\ Len(gap) = 0 => z[1] = m[1]
  BY <1>0, EndsOfJoined, Zenon
<1>2. z[1] \in {"sp", "="}
  <2>1. Len(gap) \in Nat
    BY <1>0 DEF Text
  <2>2. CASE Len(gap) >= 1
    <3>1. 1 \in 1..Len(gap)
      BY <2>1, <2>2
    <3> QED BY <1>1, <2>2, <3>1, Zenon DEF Spaces
  <2>3. CASE Len(gap) = 0
    BY <1>1, <2>3, Zenon
  <2>4. Len(gap) >= 1 \/ Len(gap) = 0
    BY <2>1
  <2> QED BY <2>2, <2>3, <2>4, Zenon
<1>3. validate_line(z)
  <2>1. \A i \in 1..Len(gap) : gap[i] # "nl"
    BY DEF Spaces
  <2>2. validate_line(gap)
    BY <1>0, <2>1, ValidLine, Zenon
  <2> QED BY <1>0, <2>2, ValidJoined, Zenon
<1>4. trim(z \o <<>>) = m
  BY EmptyIsValid, InkStays, Zenon
<1>5. z \o <<>> = z
  BY <1>1, NothingJoined, Zenon
<1> QED BY <1>0, <1>1, <1>2, <1>3, <1>4, <1>5, Zenon DEF OptionTail

\* The value comes back without the spaces around it.
LEMMA ValueReadAgain ==
    ASSUME NEW v, Clean(v), NEW gap, Spaces(gap)
    PROVE  \E z, r : /\ OptionTail(z) /\ Spaces(r)
                     /\ ((gap \o <<"=">>) \o gap) \o v = z \o r
                     /\ OptionValue(trim(z)) = <<v>>
<1> DEFINE eq == <<"=">>
<1>0. gap \in Text /\ v \in Text /\ validate_line(v)
  BY Zenon DEF Spaces, Clean
<1>1. eq \in Text /\ Len(eq) = 1 /\ eq[1] = "="
  BY OneLexeme, Symbols, Zenon
<1> HIDE DEF eq
<1>2. Inked(eq) /\ validate_line(eq) /\ eq # <<>>
  <2>1. eq[1] # "sp" /\ eq[Len(eq)] # "sp" /\ eq # <<>> /\ \A i \in 1..Len(eq) : eq[i] # "nl"
    BY <1>1
  <2>2. Len(eq) >= 1
    BY <1>1
  <2> QED BY <1>1, <2>1, <2>2, ValidLine, Zenon DEF Inked
<1>3. CASE v = <<>>
  <2> DEFINE z == gap \o eq
  <2>1. OptionTail(z) /\ trim(z) = eq
    BY <1>1, <1>2, SpacedTail, Zenon
  <2>2. (z \o gap) \o v = z \o gap
    <3>1. z \o gap \in Text
      <4>1. z \in Text
        BY <1>0, <1>1, Joined, Zenon
      <4> HIDE DEF z
      <4> QED BY <1>0, <4>1, Joined, Zenon
    <3> QED BY <1>3, <3>1, NothingJoined, Zenon
  <2>3. OptionValue(eq) = <<v>>
    <3>1. SubSeq(eq, 2, Len(eq)) = <<>>
      BY <1>1 DEF Text
    <3>2. trim(<<>>) = <<>>
      BY EmptyIsValid, SpacesTrim, Zenon
    <3> QED BY <1>1, <1>2, <1>3, <3>1, <3>2, Zenon DEF OptionValue
  <2> QED BY <2>1, <2>2, <2>3, Zenon DEF eq
<1>4. CASE v # <<>>
  <2>0. Inked(v) /\ Len(v) >= 1
    BY <1>4, Zenon DEF Clean, Inked
  <2> DEFINE q == gap \o v
             m == eq \o q
             z == gap \o m
  <2>1. /\ q \in Text /\ Len(q) >= 1 /\ q[Len(q)] = v[Len(v)]
    BY <1>0, <2>0, EndsOfJoined, Zenon
  <2>2. trim(q) = v
    <3>1. trim(q \o <<>>) = v
      BY <2>0, EmptyIsValid, InkStays, Zenon
    <3>2. q \o <<>> = q
      BY <2>1, NothingJoined, Zenon
    <3> QED BY <3>1, <3>2, Zenon
  <2>3. validate_line(q)
    <3>1. \A i \in 1..Len(gap) : gap[i] # "nl"
      BY DEF Spaces
    <3>2. validate_line(gap)
      BY <1>0, <3>1, ValidLine, Zenon
    <3> QED BY <1>0, <3>2, ValidJoined, Zenon
  <2>4. ((gap \o eq) \o gap) \o v = z
    <3>1. (gap \o eq) \o gap = gap \o (eq \o gap)
      BY <1>0, <1>1, Regroup, Zenon
    <3>2. eq \o gap \in Text
      BY <1>0, <1>1, Joined, Zenon
    <3>3. (gap \o (eq \o gap)) \o v = gap \o ((eq \o gap) \o v)
      BY <1>0, <3>2, Regroup, Zenon
    <3>4. (eq \o gap) \o v = eq \o (gap \o v)
      BY <1>0, <1>1, Regroup, Zenon
    <3> QED BY <3>1, <3>3, <3>4, Zenon
  <2> HIDE DEF q
  <2>5. /\ m \in Text /\ Len(m) >= 1 /\ m[Len(m)] = q[Len(q)]
        /\ Len(eq) >= 1 => m[1] = eq[1]
    BY <1>1, <2>1, EndsOfJoined, Zenon
  <2>6. SubSeq(m, Len(eq) + 1, Len(m)) = q
    BY <1>1, <2>1, RestOfJoined, Zenon
  <2>7. validate_line(m)
    BY <1>1, <1>2, <2>1, <2>3, ValidJoined, Zenon
  <2> HIDE DEF m
  <2>8. m[1] = "=" /\ m[1] # "sp" /\ m # <<>> /\ SubSeq(m, 2, Len(m)) = q
    BY <1>1, <2>5, <2>6
  <2>9. Inked(m)
    BY <2>0, <2>1, <2>5, <2>8, Zenon DEF Inked
  <2>10. OptionTail(z) /\ trim(z) = m
    BY <2>7, <2>8, <2>9, SpacedTail, Zenon
  <2>11. OptionValue(m) = <<v>>
    BY <2>2, <2>8, Zenon DEF OptionValue
  <2>12. z \o <<>> = z
    BY <2>10, NothingJoined, Zenon DEF OptionTail
  <2> HIDE DEF z
  <2> QED BY <2>4, <2>10, <2>11, <2>12, EmptyIsValid, Zenon DEF eq
<1> QED BY <1>3, <1>4, Zenon

\* What OptionRequest::parse finds: a name, and at most one value without spaces around it.
LEMMA OptionFound ==
    ASSUME NEW bytes \in Text, ~IsError(ParseOption(bytes))
    PROVE  \E n, val : /\ ParseOption(bytes) = [name |-> n, value |-> val] /\ OptionName(n)
                       /\ val = <<>> \/ \E v : Clean(v) /\ val = <<v>>
<1> DEFINE trimmed == trim(bytes)
           body == IF starts_with(trimmed, <<"--">>) THEN Tail(trimmed) ELSE trimmed
           e == NameEnd(body)
           n == SubSeq(body, 1, e)
           name == Command(n, <<>>)
           s == trim(SubSeq(body, e + 1, Len(body)))
<1>0. \A w : IsError(Refused(w))
  BY DEF IsError, Refused
<1>1. /\ validate_line(bytes) /\ ~IsError(name)
      /\ ParseOption(bytes) = [name |-> name.name, value |-> OptionValue(s)]
  BY <1>0, ParseOptionIs, Zenon
<1>2. Clean(trimmed)
  BY <1>1, TrimmedIsClean, Zenon
<1> HIDE DEF trimmed
<1>3. trimmed \in Text /\ validate_line(trimmed)
  BY <1>2, Zenon DEF Clean
<1>4. body \in Text /\ validate_line(body)
  <2>1. CASE starts_with(trimmed, <<"--">>)
    <3>1. Len(trimmed) >= 1
      BY <1>3, <2>1, StartsWith, Symbols, Zenon
    <3> DEFINE one == 1
    <3>2. /\ Tail(trimmed) = SubSeq(trimmed, one + 1, Len(trimmed)) /\ one \in Nat
          /\ one <= Len(trimmed) /\ Len(trimmed) \in Nat /\ Len(trimmed) <= Len(trimmed)
      BY <1>3, <3>1 DEF Text
    <3> HIDE DEF one
    <3>3. Tail(trimmed) \in Text /\ validate_line(Tail(trimmed))
      BY <1>3, <3>2, Piece, PieceIsValid, Zenon
    <3> QED BY <2>1, <3>3, Zenon
  <2>2. CASE ~starts_with(trimmed, <<"--">>)
    BY <1>3, <2>2, Zenon
  <2> QED BY <2>1, <2>2, Zenon
<1> HIDE DEF body
<1>5. e \in 0..Len(body) /\ \A i \in 1..e : body[i] \notin {"sp", "="}
  BY <1>4, NameEndIs, Zenon
<1> HIDE DEF e
<1>6. Len(body) \in Nat /\ e \in Nat /\ e <= Len(body) /\ Len(body) <= Len(body)
  BY <1>4, <1>5 DEF Text
<1>7. n \in Text /\ Len(n) = e /\ \A i \in 1..e : n[i] = body[i]
  <2> DEFINE zero == 0
  <2>1. /\ zero \in Nat /\ zero <= e /\ n = SubSeq(body, zero + 1, e) /\ e - zero = e
        /\ \A i \in 1..e : zero + i = i
    BY <1>6
  <2> HIDE DEF zero, n
  <2>2. /\ n \in Text /\ Len(n) = e - zero
        /\ \A i \in 1..(e - zero) : n[i] = body[zero + i]
    BY <1>4, <1>6, <2>1, Piece, Zenon
  <2> QED BY <2>1, <2>2, Zenon
<1> HIDE DEF n
<1>8. validate_token(n)
  BY <1>0, <1>1, Zenon DEF Command
<1>9. OptionName(n) /\ name.name = n
  <2>1. name.name = n
    BY <1>7, <1>8, TokenIsValid, Zenon
  <2> QED BY <1>5, <1>7, <1>8, <2>1, Zenon DEF OptionName
<1>10. Clean(s)
  <2>1. SubSeq(body, e + 1, Len(body)) \in Text /\ validate_line(SubSeq(body, e + 1, Len(body)))
    BY <1>4, <1>6, Piece, PieceIsValid, Zenon
  <2> QED BY <2>1, TrimmedIsClean, Zenon
<1> HIDE DEF s, name
<1>11. OptionValue(s) = <<>> \/ \E v : Clean(v) /\ OptionValue(s) = <<v>>
  <2>1. CASE s = <<>>
    BY <2>1, Zenon DEF OptionValue
  <2>2. CASE s # <<>> /\ s[1] = "="
    <3> DEFINE one == 1
               u == SubSeq(s, one + 1, Len(s))
    <3>1. s \in Text /\ validate_line(s)
      BY <1>10, Zenon DEF Clean
    <3>2. one \in Nat /\ one <= Len(s) /\ Len(s) \in Nat /\ Len(s) <= Len(s) /\ one + 1 = 2
      BY <2>2, <3>1 DEF Text
    <3> HIDE DEF one
    <3>3. u \in Text /\ validate_line(u)
      BY <3>1, <3>2, Piece, PieceIsValid, Zenon
    <3>4. Clean(trim(u))
      BY <3>3, TrimmedIsClean, Zenon
    <3>5. OptionValue(s) = <<trim(u)>>
      BY <2>2, <3>2, Zenon DEF OptionValue
    <3> QED BY <3>4, <3>5, Zenon
  <2>3. CASE s # <<>> /\ s[1] # "="
    BY <1>10, <2>3, Zenon DEF OptionValue
  <2> QED BY <2>1, <2>2, <2>3, Zenon
<1> QED BY <1>1, <1>9, <1>11, Zenon

\* The option found, written again with or without spaces around =, is found again.
LEMMA OptionReadAgain ==
    ASSUME NEW bytes \in Text, ~IsError(ParseOption(bytes)), NEW gap \in {<<>>, <<"sp">>}
    PROVE  LET o == ParseOption(bytes)
               tail == IF o.value = <<>> THEN <<>> ELSE gap \o <<"=">> \o gap \o o.value[1] IN
           ParseOption(<<"--">> \o o.name \o tail) = o
<1> DEFINE o == ParseOption(bytes)
           d == <<"--">>
           tail == IF o.value = <<>> THEN <<>> ELSE gap \o <<"=">> \o gap \o o.value[1]
<1>1. PICK n, val : /\ o = [name |-> n, value |-> val] /\ OptionName(n)
                    /\ val = <<>> \/ \E v : Clean(v) /\ val = <<v>>
  BY OptionFound, Zenon
<1>2. Spaces(gap)
  <2>1. Spaces(<<"sp">>)
    <3>1. <<"sp">> \in Text
      BY OneLexeme, Symbols, Zenon
    <3>2. \A i \in 1..Len(<<"sp">>) : <<"sp">>[i] = "sp"
      OBVIOUS
    <3> QED BY <3>1, <3>2, Zenon DEF Spaces
  <2> QED BY <2>1, EmptyIsValid, Zenon
<1>3. o.name = n /\ o.value = val
  BY <1>1
<1> HIDE DEF o
<1>4. PICK z, r : OptionTail(z) /\ Spaces(r) /\ tail = z \o r /\ OptionValue(trim(z)) = val
  <2>1. CASE val = <<>>
    <3>1. tail = <<>>
      BY <1>3, <2>1, Zenon
    <3>2. OptionTail(<<>>)
      BY EmptyIsValid, NoText, Zenon DEF OptionTail
    <3>3. <<>> \o <<>> = <<>>
      BY NoText, NothingJoined, Zenon
    <3>4. OptionValue(trim(<<>>)) = <<>>
      <4>1. trim(<<>>) = <<>>
        BY EmptyIsValid, SpacesTrim, Zenon
      <4> QED BY <4>1, Zenon DEF OptionValue
    <3> HIDE DEF tail
    <3> QED BY <2>1, <3>1, <3>2, <3>3, <3>4, EmptyIsValid, Zenon
  <2>2. CASE val # <<>>
    <3>1. PICK v : Clean(v) /\ val = <<v>>
      BY <1>1, <2>2, Zenon
    <3>2. val[1] = v
      BY <3>1
    <3>3. tail = ((gap \o <<"=">>) \o gap) \o v
      BY <1>3, <2>2, <3>2, Zenon
    <3>4. \E z, r : /\ OptionTail(z) /\ Spaces(r)
                    /\ ((gap \o <<"=">>) \o gap) \o v = z \o r /\ OptionValue(trim(z)) = <<v>>
      BY <1>2, <3>1, ValueReadAgain, Zenon
    <3> HIDE DEF tail
    <3> QED BY <3>1, <3>3, <3>4, Zenon
  <2> QED BY <2>1, <2>2, Zenon
<1> HIDE DEF tail
<1>5. ParseOption((d \o (n \o z)) \o r) = [name |-> n, value |-> OptionValue(trim(z))]
  BY <1>1, <1>4, ReadAgain, Zenon
<1>6. d \in Text
  BY OneLexeme, Symbols, Zenon
<1> HIDE DEF d
<1>7. (d \o n) \o (z \o r) = (d \o (n \o z)) \o r
  <2>0. n \in Text /\ z \in Text /\ r \in Text
    BY <1>1, <1>4, Zenon DEF OptionName, OptionTail, Spaces
  <2>1. d \o n \in Text
    BY <1>6, <2>0, Joined, Zenon
  <2>2. ((d \o n) \o z) \o r = (d \o n) \o (z \o r)
    BY <2>0, <2>1, Regroup, Zenon
  <2>3. (d \o n) \o z = d \o (n \o z)
    BY <1>6, <2>0, Regroup, Zenon
  <2> QED BY <2>2, <2>3, Zenon
<1>8. ParseOption((d \o n) \o tail) = o
  BY <1>1, <1>4, <1>5, <1>7, Zenon
<1> QED BY <1>3, <1>8, Zenon DEF o, d, tail

-----------------------------------------------------------------------------
(* The messages of the model *)

\* What an end sends for a message, and what the other end makes of the line.
Encoded(m) ==
    CASE m.kind = "Command" -> encode_command(m)
      [] m.kind = "Option" -> [line |-> m.bytes]
      [] OTHER -> encode_response(m)

Parsed(m, line) ==
    CASE m.kind = "Command" -> request_kind(line)
      [] m.kind = "Option" -> ParseOption(line)
      [] OTHER -> parse_server_line(line)

\* The line is what the encoder made of the message, the outcome what the parser made of it.
WireInv ==
    /\ message \in Responses \cup Commands \cup Options \cup {Nothing}
    /\ wire # Nothing => message # Nothing /\ wire = Encoded(message)
    /\ outcome # Nothing =>
          wire # Nothing /\ ~IsError(wire) /\ outcome = Parsed(message, wire.line)

\* WireInv holds initially.
LEMMA WireInvInit == Init => WireInv
BY Zenon DEF Init, WireInv

\* Sending and receiving preserve WireInv; nothing else touches a message.
LEMMA WireInvNext == WireInv /\ [Next]_vars => WireInv'
<1> SUFFICES ASSUME WireInv, [Next]_vars
             PROVE  WireInv'
  OBVIOUS
<1>1. CASE UNCHANGED msgVars
  BY <1>1, Zenon DEF WireInv, msgVars
<1>2. CASE Sends
  <2>1. message' = message /\ outcome' = outcome /\ message # Nothing /\ wire = Nothing
    BY <1>2, Zenon DEF Sends
  <2>2. wire' = Encoded(message)
    BY <1>2, Zenon DEF Sends, Encoded
  <2>3. outcome = Nothing
    BY <2>1, Zenon DEF WireInv
  <2> QED BY <2>1, <2>2, <2>3, Zenon DEF WireInv
<1>3. CASE Receives
  <2>1. /\ message' = message /\ wire' = wire /\ message # Nothing /\ wire # Nothing
        /\ ~IsError(wire)
    BY <1>3, Zenon DEF Receives
  <2>2. outcome' = Parsed(message, wire.line)
    BY <1>3, Zenon DEF Receives, Parsed
  <2> QED BY <2>1, <2>2, Zenon DEF WireInv
<1> QED BY <1>1, <1>2, <1>3, Zenon DEF Next, vars, msgVars

\* The commands of the model are what Command::new accepted,
LEMMA CommandsAre ==
    ASSUME NEW c \in Commands
    PROVE  /\ c.kind = "Command" /\ ~IsError(c)
           /\ \E n \in Text, a \in Text : c = Command(n, a)
<1>1. PICK n \in SeqUpTo(Lexeme \cup {"D", "END", "CAN"}, MaxName), a \in Texts :
         c = Command(n, a)
  BY DEF Commands
<1>2. ~IsError(c)
  BY DEF Commands
<1>3. n \in Text /\ a \in Text
  <2>1. /\ Lexeme \cup {"D", "END", "CAN"} \subseteq Symbol
        /\ Lexeme \cup {"OK", "END"} \subseteq Symbol /\ MaxName \in Nat /\ MaxText \in Nat
    BY CodecAssumption, MessagesAssumption DEF Symbol, Word
  <2> QED BY <2>1, BoundedIsText, Zenon DEF Texts
<1>4. c.kind = "Command"
  <2>1. \A w : IsError(Refused(w))
    BY DEF IsError, Refused
  <2>2. c = [kind |-> "Command", name |-> n, args |-> a]
    BY <1>1, <1>2, <2>1, Zenon DEF Command
  <2> QED BY <2>2
<1> QED BY <1>1, <1>2, <1>3, <1>4, Zenon

\* and its options are texts.
LEMMA OptionsAre ==
    ASSUME NEW o \in Options
    PROVE  o.kind = "Option" /\ o.bytes \in Text
<1>1. o.kind = "Option" /\ o.bytes \in SeqUpTo(OptionLexemes, MaxOption)
  BY DEF Options
<1>2. OptionLexemes \subseteq Symbol /\ MaxOption \in Nat
  BY MessagesAssumption DEF Symbol
<1> QED BY <1>1, <1>2, BoundedIsText, Zenon

\* Every message that was received was read as meant.
LEMMA WireInvImplies == WireInv => WireRoundTrip
<1> SUFFICES ASSUME WireInv, outcome # Nothing
             PROVE  /\ message.kind # "Option" => Writable(wire.line)
                    /\ CASE message.kind = "Command" -> CommandRoundTrip
                         [] message.kind = "Option" -> OptionRoundTrip
                         [] OTHER -> ResponseRoundTrip
  BY Zenon DEF WireRoundTrip
<1>1. /\ message \in Responses \cup Commands \cup Options
      /\ wire = Encoded(message) /\ ~IsError(wire) /\ outcome = Parsed(message, wire.line)
  BY Zenon DEF WireInv
<1>2. CASE message \in Responses
  <2>1. ResponseShape(message)
    BY <1>2, ResponsesHaveShape, Zenon
  <2>2. message.kind # "Command" /\ message.kind # "Option"
    BY <2>1 DEF ResponseShape
  <2>3. wire = encode_response(message) /\ outcome = parse_server_line(wire.line)
    BY <1>1, <2>2, Zenon DEF Encoded, Parsed
  <2>4. PICK line \in Text :
          wire = [line |-> line] /\ Writable(line) /\ parse_server_line(line) = message
    BY <1>1, <2>1, <2>3, ResponseReads, Zenon DEF Reads
  <2>5. wire.line = line
    BY <2>4
  <2>6. message.kind = "Data" => Decodes(message.text)
    BY <1>1, <2>1, <2>3, ResponseReads, Zenon
  <2>7. Writable(wire.line) /\ ResponseRoundTrip
    BY <2>3, <2>4, <2>5, <2>6, Zenon DEF ResponseRoundTrip
  <2> QED BY <2>2, <2>7, Zenon
<1>3. CASE message \in Commands
  <2>1. message.kind = "Command" /\ ~IsError(message)
    BY <1>3, CommandsAre, Zenon
  <2>2. PICK n \in Text, a \in Text : message = Command(n, a)
    BY <1>3, CommandsAre, Zenon
  <2>3. wire = encode_command(message) /\ outcome = request_kind(wire.line)
    BY <1>1, <2>1 DEF Encoded, Parsed
  <2>4. Dispatches(wire, message)
    BY <1>1, <2>1, <2>2, <2>3, CommandDispatches, Zenon
  <2>5. PICK line \in Text :
          /\ wire = [line |-> line] /\ Writable(line)
          /\ IF message.name \in InquiryNames
             THEN IsError(request_kind(line)) \/ request_kind(line).kind \in {"End", "Can", "Data"}
             ELSE request_kind(line) = message
    BY <2>4, Zenon DEF Dispatches
  <2>6. wire.line = line
    BY <2>5
  <2>7. Writable(wire.line) /\ CommandRoundTrip
    BY <2>3, <2>5, <2>6, Zenon DEF CommandRoundTrip
  <2>8. message.kind # "Option"
    BY <2>1
  <2> QED BY <2>1, <2>7, <2>8, Zenon
<1>4. CASE message \in Options
  <2>1. message.kind = "Option" /\ message.bytes \in Text /\ message.kind # "Command"
    BY <1>4, OptionsAre
  <2>2. wire = [line |-> message.bytes] /\ outcome = ParseOption(wire.line)
    BY <1>1, <2>1, Zenon DEF Encoded, Parsed
  <2>3. outcome = ParseOption(message.bytes)
    BY <2>2
  <2>4. OptionRoundTrip
    <3>1. SUFFICES ASSUME ~IsError(outcome), NEW gap \in {<<>>, <<"sp">>}
                   PROVE  LET tail == IF outcome.value = <<>> THEN <<>>
                                      ELSE gap \o <<"=">> \o gap \o outcome.value[1] IN
                          ParseOption(<<"--">> \o outcome.name \o tail) = outcome
      BY Zenon DEF OptionRoundTrip
    <3> QED BY <2>1, <2>3, <3>1, OptionReadAgain, Zenon
  <2> QED BY <2>1, <2>4, Zenon
<1> QED BY <1>1, <1>2, <1>3, <1>4, Zenon

\* Whatever an encoder lets out is writable and read as meant.
THEOREM WireAlwaysRoundTrips == Spec => []WireRoundTrip
<1>1. WireInv => WireRoundTrip
  BY WireInvImplies
<1> QED BY WireInvInit, WireInvNext, <1>1, PTL DEF Spec

\* A name that fits a line by itself is written (encode.rs:16).
LEMMA NameIsWritten ==
    ASSUME NEW n \in Text, validate_line(n), ~(Bytes(n) >= MaxLine)
    PROVE  ~IsError(write_parts(<<n>>))
<1> DEFINE parts == <<n>>
<1>0. parts \in Seq(Text) /\ Len(parts) = 1 /\ parts[1] = n
  OBVIOUS
<1>2. concat(parts) = n
  BY ConcatOne, Zenon
<1>3. ~(1 + Bytes(n) > MaxLine)
  BY BytesIsNat, DataAssumption
<1> HIDE DEF parts
<1>1. DOMAIN parts = {1} /\ parts[1] = n /\ SubSeq(parts, 1, 1) = parts
  BY <1>0
<1>4. BadParts(parts) = {}
  BY <1>1, <1>2, <1>3, Zenon DEF BadParts, Size
<1>5. write_parts(parts) = [line |-> n]
  BY <1>2, <1>4, Zenon DEF write_parts
<1>6. ~IsError(write_parts(parts))
  BY <1>5 DEF IsError
<1> QED BY <1>6, Zenon DEF parts

\* What a registration accepts, the dispatch finds.
LEMMA RegisterReaches ==
    ASSUME NEW n \in Names, NEW t \in Descriptions, Register(n, t)
    PROVE  RegisteredIsReachable(n, t)
<1> DEFINE c == Command(n, <<>>)
           name == IF IsError(c) \/ Bytes(n) >= MaxLine THEN "InvalidName"
                   ELSE IF n \in Reserved THEN "Reserved" ELSE "Ok"
           text == IF validate_line(t) THEN "Ok" ELSE "InvalidDescription"
<1>0. n \in Text
  <2>1. Lexeme \cup Word \cup {"NOP", "BYE", "HELP", "RESET", "OPTION"} \subseteq Symbol
    BY DEF Symbol
  <2>2. n \in Seq(Lexeme \cup Word \cup {"NOP", "BYE", "HELP", "RESET", "OPTION"})
    BY NamesAssumption, Zenon
  <2> DEFINE S == Lexeme \cup Word \cup {"NOP", "BYE", "HELP", "RESET", "OPTION"}
  <2> HIDE DEF S
  <2>3. n \in Seq(S) /\ S \subseteq Symbol
    BY <2>1, <2>2, Zenon DEF S
  <2> QED BY <2>3 DEF Text
<1>1. result' = IF name # "Ok" THEN name ELSE IF text # "Ok" THEN text
                ELSE IF n \in DOMAIN registry THEN "Duplicate" ELSE "Ok"
  BY Zenon DEF Register, validate_name, validate_description
<1>2. validate_metadata(n, t) <=>
         ~IsError(c) /\ Bytes(n) < MaxLine /\ n \notin Reserved /\ validate_line(t)
  BY Zenon DEF validate_metadata
<1>3. Bytes(n) < MaxLine <=> ~(Bytes(n) >= MaxLine)
  BY <1>0, BytesIsNat, DataAssumption
<1>4. validate_metadata(n, t) <=> result' \in {"Ok", "Duplicate"}
  BY <1>1, <1>2, <1>3
<1>5. ASSUME result' = "Ok", n \notin InquiryNames
      PROVE  LET line == encode_command(c) IN ~IsError(line) /\ request_kind(line.line) = c
  <2>1. ~IsError(c) /\ ~(Bytes(n) >= MaxLine)
    BY <1>1, <1>5
  <2>2. validate_token(n)
    <3>1. \A w : IsError(Refused(w))
      BY DEF IsError, Refused
    <3> QED BY <2>1, <3>1, Zenon DEF Command
  <2>3. validate_line(n) /\ <<>> \in Text
    BY <1>0, <2>2, TokenIsValid, NoText, Zenon
  <2>4. c.name = n /\ c.args = <<>>
    <3>1. c = [kind |-> "Command", name |-> n, args |-> <<>>]
      BY <2>2, EmptyIsValid, Zenon DEF Command
    <3> QED BY <3>1
  <2>5. encode_command(c) = write_parts(<<n>>)
    <3>1. encode_command(c) = write_optional(<<n>>, <<>>)
      BY <2>4, Zenon DEF encode_command
    <3> QED BY <2>3, <3>1, Optional, Zenon
  <2>6. ~IsError(encode_command(c))
    BY <1>0, <2>1, <2>3, <2>5, NameIsWritten, Zenon
  <2>7. Dispatches(encode_command(c), c)
    BY <1>0, <2>1, <2>3, <2>6, CommandDispatches, Zenon
  <2> HIDE DEF c
  <2>8. PICK line \in Text : encode_command(c) = [line |-> line] /\ request_kind(line) = c
    BY <1>5, <2>4, <2>7, Zenon DEF Dispatches
  <2>9. encode_command(c).line = line
    BY <2>8
  <2> QED BY <2>6, <2>8, <2>9, Zenon
<1> QED BY <1>4, <1>5, Zenon DEF RegisteredIsReachable

\* A handler that registers can be called by its name (registry.rs:75, attribute.rs:86).
THEOREM RegisteredAlwaysReachable ==
    Spec => [][\A n \in Names, t \in Descriptions :
                  Register(n, t) => RegisteredIsReachable(n, t)]_vars
<1>1. \A n \in Names, t \in Descriptions : Register(n, t) => RegisteredIsReachable(n, t)
  BY RegisterReaches, Zenon
<1> QED BY <1>1, PTL
=============================================================================
