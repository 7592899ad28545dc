---------------------------- MODULE SerialProofs ----------------------------
(***************************************************************************)
(* Why a client and a server that each do to the streams only what is      *)
(* stated below answer one command at a time, send each other only what    *)
(* the other expects, never both wait, and lose no byte of an inquiry: the *)
(* argument about Assuan's two streams.  AssuanProofs shows that the two   *)
(* ends do no more than that.                                              *)
(***************************************************************************)
EXTENDS Assuan, SequenceTheorems, TLAPS

(* Streams *)

\* t is what is left of s when some lines have gone from its front.
Suffix(t, s) ==
    \E n \in 0..Len(s) :
        Len(t) = Len(s) - n /\ \A i \in 1..Len(t) : t[i] = s[i + n]

\* The lines of a stream: those read ahead, then those still on the wire.
Joined(a, w) == a \o w
Rest(r) == r.ahead \o r.wire

\* A receive takes the first line and leaves the others, wherever they are.
LEMMA ReceivesFirst ==
    ASSUME NEW L, NEW a \in Seq(L), NEW w \in Seq(L), NEW p,
           NEW r \in Receives(a, p, w)
    PROVE  /\ Joined(a, w) # <<>> /\ r.line = Joined(a, w)[1]
           /\ r.ahead \in Seq(L) /\ r.wire \in Seq(L)
           /\ Rest(r) = Tail(Joined(a, w))
           /\ Suffix(r.wire, Joined(a, w))
           /\ (p => w # <<>>) => (r.partial => r.wire # <<>>)
<1>1. CASE a # <<>>
  <2>1. r = [line |-> Head(a), ahead |-> Tail(a), partial |-> p, wire |-> w]
    BY <1>1 DEF Receives
  <2>2. /\ r.line = a[1] /\ r.ahead = Tail(a) /\ r.wire = w /\ Tail(a) \in Seq(L)
        /\ r.partial = p
    BY <1>1, <2>1
  <2>3. Tail(a) \o w = Tail(a \o w)
    BY <1>1
  <2>4. (a \o w)[1] = a[1] /\ a \o w # <<>>
    BY <1>1
  <2>5. Suffix(w, a \o w)
    <3>1. Len(a) \in 0..Len(a \o w)
      OBVIOUS
    <3>2. Len(w) = Len(a \o w) - Len(a) /\ \A i \in 1..Len(w) : w[i] = (a \o w)[i + Len(a)]
      OBVIOUS
    <3> QED BY <3>1, <3>2, Zenon DEF Suffix
  <2> QED BY <2>2, <2>3, <2>4, <2>5, Zenon DEF Joined, Rest
<1>2. CASE a = <<>>
  <2>0. PICK k \in 1..Len(w), q \in BOOLEAN :
           r = [line |-> w[1], ahead |-> SubSeq(w, 2, k),
                partial |-> q /\ k < Len(w), wire |-> SubSeq(w, k + 1, Len(w))]
    BY <1>2 DEF Receives
  <2>1. /\ r.line = w[1] /\ r.ahead = SubSeq(w, 2, k) /\ r.wire = SubSeq(w, k + 1, Len(w))
        /\ r.partial => k < Len(w)
    BY <2>0, Zenon
  <2>2. a \o w = w /\ w # <<>>
    BY <1>2
  <2>3. SubSeq(w, 2, k) \o SubSeq(w, k + 1, Len(w)) = Tail(w)
    <3> DEFINE x == SubSeq(w, 2, k)
               y == SubSeq(w, k + 1, Len(w))
    <3>1. x \in Seq(L) /\ Len(x) = k - 1 /\ \A i \in 1..(k - 1) : x[i] = w[i + 1]
      OBVIOUS
    <3>2. y \in Seq(L) /\ Len(y) = Len(w) - k /\ \A i \in 1..(Len(w) - k) : y[i] = w[i + k]
      OBVIOUS
    <3>3. Tail(w) \in Seq(L) /\ Len(Tail(w)) = Len(w) - 1
          /\ \A i \in 1..(Len(w) - 1) : Tail(w)[i] = w[i + 1]
      BY <2>2
    <3> HIDE DEF x, y
    <3>4. x \o y \in Seq(L) /\ Len(x \o y) = Len(w) - 1
      <4>1. x \o y \in Seq(L) /\ Len(x \o y) = Len(x) + Len(y)
        BY <3>1, <3>2, ConcatProperties, Zenon
      <4>2. Len(w) \in Nat
        OBVIOUS
      <4> QED BY <3>1, <3>2, <4>1, <4>2
    <3>5. ASSUME NEW i \in 1..(Len(w) - 1)
          PROVE  (x \o y)[i] = w[i + 1]
      <4>0. (x \o y)[i] = IF i <= Len(x) THEN x[i] ELSE y[i - Len(x)]
        <5>1. \A j \in 1..(Len(x) + Len(y)) :
                 (x \o y)[j] = IF j <= Len(x) THEN x[j] ELSE y[j - Len(x)]
          BY <3>1, <3>2, ConcatProperties, Zenon
        <5>2. Len(w) \in Nat
          OBVIOUS
        <5>3. i \in 1..(Len(x) + Len(y))
          BY <3>1, <3>2, <5>2
        <5> QED BY <5>1, <5>3, Zenon
      <4>1. CASE i < k
        <5>1. i \in 1..Len(x) /\ (x \o y)[i] = x[i]
          BY <3>1, <4>0, <4>1
        <5> QED BY <5>1, <3>1, Zenon
      <4>2. CASE i >= k
        <5>0. Len(w) \in Nat
          OBVIOUS
        <5>1. i - Len(x) \in 1..Len(y) /\ (x \o y)[i] = y[i - Len(x)]
          BY <3>1, <3>2, <4>0, <4>2, <5>0
        <5>2. y[i - (k - 1)] = w[(i - (k - 1)) + k]
          BY <5>1, <3>1, <3>2, Zenon
        <5>3. (i - (k - 1)) + k = i + 1
          OBVIOUS
        <5> QED BY <5>1, <5>2, <5>3, <3>1, Zenon
      <4>3. i < k \/ i >= k
        <5>1. Len(w) \in Nat
          OBVIOUS
        <5>2. i \in Int /\ k \in Int
          BY <5>1
        <5> QED BY <5>2
      <4> QED BY <4>1, <4>2, <4>3, Zenon
    <3>6. x \o y = Tail(w)
      BY <3>3, <3>4, <3>5, SeqEqual, Zenon
    <3> QED BY <3>6, Zenon DEF x, y
  <2>4. /\ SubSeq(w, 2, k) \in Seq(L) /\ SubSeq(w, k + 1, Len(w)) \in Seq(L)
        /\ Suffix(SubSeq(w, k + 1, Len(w)), w)
    <3>1. Len(SubSeq(w, k + 1, Len(w))) = Len(w) - k
      OBVIOUS
    <3>2. \A i \in 1..(Len(w) - k) : SubSeq(w, k + 1, Len(w))[i] = w[i + k]
      OBVIOUS
    <3>3. SubSeq(w, 2, k) \in Seq(L) /\ SubSeq(w, k + 1, Len(w)) \in Seq(L)
      OBVIOUS
    <3>4. k \in 0..Len(w)
      OBVIOUS
    <3>5. \E n \in 0..Len(w) :
             /\ Len(SubSeq(w, k + 1, Len(w))) = Len(w) - n
             /\ \A i \in 1..(Len(w) - n) : SubSeq(w, k + 1, Len(w))[i] = w[i + n]
      BY <3>1, <3>2, <3>4, Zenon
    <3>6. Suffix(SubSeq(w, k + 1, Len(w)), w)
      BY <3>5, Zenon DEF Suffix
    <3> QED BY <3>3, <3>6
  <2>5. ASSUME k < Len(w)
        PROVE  SubSeq(w, k + 1, Len(w)) # <<>>
    <3>1. Len(SubSeq(w, k + 1, Len(w))) = Len(w) - k
      OBVIOUS
    <3>2. Len(w) - k # 0 /\ Len(<<>>) = 0
      BY <2>5
    <3> QED BY <3>1, <3>2, Zenon
  <2> QED BY <2>1, <2>2, <2>3, <2>4, <2>5, Zenon DEF Joined, Rest
<1> QED BY <1>1, <1>2, Zenon
\* What has been taken from the front of a stream, or wiped, leaves a suffix.
LEMMA ConsumesSuffix ==
    ASSUME NEW L, NEW a \in Seq(L), NEW w \in Seq(L), NEW p, NEW a2, NEW w2,
           \/ w2 = w /\ a2 \in {a, <<>>}
           \/ \E r \in Receives(a, p, w) : w2 = r.wire /\ a2 \in {r.ahead, <<>>}
    PROVE  Joined(a2, w2) \in Seq(L) /\ Suffix(Joined(a2, w2), Joined(a, w))
<1> DEFINE s == Joined(a, w)
<1>0. s \in Seq(L) /\ Len(s) \in Nat
  BY ConcatProperties, LenProperties, Zenon DEF Joined
<1>1. Suffix(s, s)
  <2> HIDE DEF s
  <2>1. 0 \in 0..Len(s) /\ Len(s) = Len(s) - 0
    BY <1>0
  <2>2. \A i \in 1..Len(s) : s[i] = s[i + 0]
    OBVIOUS
  <2> QED BY <2>1, <2>2, Zenon DEF Suffix
<1>2. Suffix(w, s)
  <2>1. Len(a) \in 0..Len(a \o w)
    OBVIOUS
  <2>2. Len(w) = Len(a \o w) - Len(a) /\ \A i \in 1..Len(w) : w[i] = (a \o w)[i + Len(a)]
    OBVIOUS
  <2> QED BY <2>1, <2>2, Zenon DEF Suffix, Joined
<1>3. \A x \in Seq(L) : Joined(<<>>, x) = x
  BY ConcatEmptySeq, Zenon DEF Joined
<1>4. CASE w2 = w /\ a2 \in {a, <<>>}
  BY <1>0, <1>1, <1>2, <1>3, <1>4, Zenon
<1>5. ASSUME NEW r \in Receives(a, p, w), w2 = r.wire, a2 \in {r.ahead, <<>>}
      PROVE  Joined(a2, w2) \in Seq(L) /\ Suffix(Joined(a2, w2), s)
  <2>1. s # <<>> /\ r.wire \in Seq(L) /\ Rest(r) = Tail(s) /\ Suffix(r.wire, s)
    BY ReceivesFirst
  <2>2. Joined(r.ahead, r.wire) = Rest(r)
    BY Zenon DEF Joined, Rest
  <2> HIDE DEF s
  <2>3. Tail(s) \in Seq(L) /\ Suffix(Tail(s), s)
    <3>1. /\ Tail(s) \in Seq(L) /\ Len(Tail(s)) = Len(s) - 1
          /\ \A i \in 1..Len(Tail(s)) : Tail(s)[i] = s[i + 1]
      BY <1>0, <2>1, HeadTailProperties, Zenon
    <3>2. 1 \in 0..Len(s)
      BY <1>0, <2>1
    <3> QED BY <3>1, <3>2, Zenon DEF Suffix
  <2> QED BY <1>3, <1>5, <2>1, <2>2, <2>3, Zenon
<1> QED BY <1>4, <1>5, Zenon

\* A line written to a stream comes last, after what has been read ahead.
LEMMA AppendLast ==
    ASSUME NEW L, NEW a \in Seq(L), NEW w \in Seq(L), NEW l \in L
    PROVE  Joined(a, Append(w, l)) = Append(Joined(a, w), l) /\ Joined(a, w) \in Seq(L)
BY DEF Joined

-----------------------------------------------------------------------------
(* Commands and responses in a stream *)

IsFinal(line) == line.kind \in {"Ok", "Err"}

Pending(s) == \E i \in 1..Len(s) : s[i].kind = "Command"
OneCommand(s) ==
    \A i, j \in 1..Len(s) : s[i].kind = "Command" /\ s[j].kind = "Command" => i = j

Current(s, op) == \A i \in 1..Len(s) : s[i].op = op
HasFinal(s) == \E i \in 1..Len(s) : IsFinal(s[i])
FinalLast(s) == \A i \in 1..Len(s) : IsFinal(s[i]) => i = Len(s)

\* Taking lines from the front adds no command.
LEMMA SuffixCommands ==
    ASSUME NEW L, NEW s \in Seq(L), NEW t, Len(t) \in Nat, Suffix(t, s), OneCommand(s)
    PROVE  OneCommand(t) /\ (Pending(t) => Pending(s))
<1>1. PICK n \in 0..Len(s) : Len(t) = Len(s) - n /\ \A i \in 1..Len(t) : t[i] = s[i + n]
  BY Zenon DEF Suffix
<1>2. \A i \in 1..Len(t) : i + n \in 1..Len(s)
  BY <1>1
<1>3. \A i, j \in 1..Len(t) : i + n = j + n => i = j
  OBVIOUS
<1>4. OneCommand(t)
  BY <1>1, <1>2, <1>3, Zenon DEF OneCommand
<1>5. Pending(t) => Pending(s)
  BY <1>1, <1>2, Zenon DEF Pending
<1> QED BY <1>4, <1>5, Zenon

\* Appending a line that is no command, or a command where there is none.
LEMMA AppendCommands ==
    ASSUME NEW L, NEW s \in Seq(L), NEW l \in L, OneCommand(s),
           l.kind = "Command" => ~Pending(s)
    PROVE  /\ OneCommand(Append(s, l))
           /\ Pending(Append(s, l)) => Pending(s) \/ l.kind = "Command"
<1> DEFINE t == Append(s, l)
<1>1. Len(t) = Len(s) + 1 /\ t[Len(s) + 1] = l /\ \A i \in 1..Len(s) : t[i] = s[i]
  OBVIOUS
<1>2. Len(s) \in Nat /\ \A i \in 1..(Len(s) + 1) : i \in 1..Len(s) \/ i = Len(s) + 1
  OBVIOUS
<1> HIDE DEF t
<1>3. OneCommand(t) /\ (Pending(t) => Pending(s) \/ l.kind = "Command")
  BY <1>1, <1>2, Zenon DEF OneCommand, Pending
<1> QED BY <1>3, Zenon DEF t

\* The only command, once taken, leaves none.
LEMMA TakenCommand ==
    ASSUME NEW L, NEW s \in Seq(L), s # <<>>, OneCommand(s), s[1].kind = "Command"
    PROVE  OneCommand(Tail(s)) /\ ~Pending(Tail(s))
<1>1. Len(Tail(s)) = Len(s) - 1 /\ \A i \in 1..Len(Tail(s)) : Tail(s)[i] = s[i + 1]
  BY HeadTailProperties, Zenon
<1>2. Len(s) \in Nat /\ 1 \in 1..Len(s)
  OBVIOUS
<1>3. \A i \in 1..Len(Tail(s)) : i + 1 \in 1..Len(s) /\ i + 1 # 1
  BY <1>1, <1>2
<1> QED BY <1>1, <1>2, <1>3, Zenon DEF OneCommand, Pending

\* Receiving a line; a final response is the last one.
LEMMA TakenResponse ==
    ASSUME NEW L, NEW s \in Seq(L), s # <<>>, NEW op, Current(s, op), FinalLast(s)
    PROVE  /\ Current(Tail(s), op) /\ FinalLast(Tail(s))
           /\ HasFinal(Tail(s)) => HasFinal(s)
           /\ IsFinal(s[1]) => Tail(s) = <<>> /\ HasFinal(s)
<1>1. /\ Tail(s) \in Seq(L) /\ Len(Tail(s)) = Len(s) - 1
      /\ \A i \in 1..Len(Tail(s)) : Tail(s)[i] = s[i + 1]
  BY HeadTailProperties, Zenon
<1>2. Len(s) \in Nat /\ 1 \in 1..Len(s)
  OBVIOUS
<1>3. ASSUME NEW i \in 1..Len(Tail(s))
      PROVE  i + 1 \in 1..Len(s) /\ (i + 1 = Len(s) => i = Len(Tail(s)))
  <2>1. i \in 1..(Len(s) - 1)
    BY <1>1, Zenon
  <2>2. i + 1 \in 1..Len(s)
    BY <1>2, <2>1
  <2>3. i + 1 = Len(s) => i = Len(s) - 1
    BY <1>2, <2>1
  <2> QED BY <1>1, <2>2, <2>3, Zenon
<1>4. Current(Tail(s), op) /\ FinalLast(Tail(s)) /\ (HasFinal(Tail(s)) => HasFinal(s))
  BY <1>1, <1>3, Zenon DEF Current, FinalLast, HasFinal
<1>5. ASSUME IsFinal(s[1])
      PROVE  Tail(s) = <<>> /\ HasFinal(s)
  <2>1. Len(s) = 1
    BY <1>2, <1>5, Zenon DEF FinalLast
  <2>2. Len(Tail(s)) = 0
    BY <1>1, <2>1
  <2> QED BY <1>1, <1>2, <1>5, <2>2, EmptySeq, Zenon DEF HasFinal
<1> QED BY <1>4, <1>5, Zenon

\* Sending a line of the current operation before its final response.
LEMMA SentResponse ==
    ASSUME NEW L, NEW s \in Seq(L), NEW l \in L, NEW op, Current(s, op), ~HasFinal(s),
           l.op = op
    PROVE  /\ Current(Append(s, l), op) /\ FinalLast(Append(s, l))
           /\ HasFinal(Append(s, l)) => IsFinal(l)
<1> DEFINE t == Append(s, l)
<1>1. Len(t) = Len(s) + 1 /\ t[Len(s) + 1] = l /\ \A i \in 1..Len(s) : t[i] = s[i]
  OBVIOUS
<1>2. Len(s) \in Nat /\ \A i \in 1..(Len(s) + 1) : i \in 1..Len(s) \/ i = Len(s) + 1
  OBVIOUS
<1> HIDE DEF t
<1>3. Current(t, op) /\ FinalLast(t) /\ (HasFinal(t) => IsFinal(l))
  BY <1>1, <1>2, Zenon DEF Current, FinalLast, HasFinal
<1> QED BY <1>3, Zenon DEF t

\* The kinds of the lines of a stream: all of them, or some.
AllKinds(s, K) == \A i \in 1..Len(s) : s[i].kind \in K
Has(s, K) == \E i \in 1..Len(s) : s[i].kind \in K

\* Only status lines, or the start of a line, follow an INQUIRE.
AskedLast(s) ==
    \A i, j \in 1..Len(s) :
        s[i].kind = "Inquire" /\ i < j => s[j].kind \in {"Status", "Fragment"}

\* Only the last line of an answer is no D line.
AnswerLast(s) == \A i \in 1..Len(s) : s[i].kind # "Data" => i = Len(s)

\* No line of s was cut short.
Whole(s) == \A i \in 1..Len(s) : s[i].kind # "Fragment"

(***************************************************************************)
(* The bytes of an answer: from is what its reader had counted before s, to*)
(* what its writer has counted (when exact).  f[i] is the count after i    *)
(* lines; an END carries the count of its writer.                          *)
(***************************************************************************)
Counted(s, from, to, exact) ==
    \E f \in [0..Len(s) -> Nat] :
        /\ f[0] = from
        /\ exact => f[Len(s)] = to
        /\ \A i \in 1..Len(s) :
              /\ s[i].kind = "Data" => f[i] = f[i - 1] + s[i].len
              /\ s[i].kind = "End" => s[i].len = f[i - 1]

\* A receive returns a whole line and reads only whole lines ahead.
LEMMA ReceivesWhole ==
    ASSUME NEW L, NEW a \in Seq(L), NEW w \in Seq(L), NEW p, Whole(a),
           NEW r \in Receives(a, p, w)
    PROVE  Whole(r.ahead) /\ r.line.kind # "Fragment"
<1>1. CASE a # <<>>
  <2>1. r.line = Head(a) /\ r.ahead = Tail(a)
    BY <1>1 DEF Receives
  <2>2. /\ Len(Tail(a)) = Len(a) - 1 /\ Len(a) \in Nat /\ Head(a) = a[1] /\ 1 \in 1..Len(a)
        /\ \A i \in 1..Len(Tail(a)) : Tail(a)[i] = a[i + 1]
    BY <1>1, HeadTailProperties
  <2>3. \A i \in 1..Len(Tail(a)) : i + 1 \in 1..Len(a)
    BY <2>2
  <2> QED BY <2>1, <2>2, <2>3, Zenon DEF Whole
<1>2. CASE a = <<>>
  <2>0. PICK k \in {j \in 1..Len(w) : Complete(w, j)}, q \in BOOLEAN :
           r = [line |-> w[1], ahead |-> SubSeq(w, 2, k),
                partial |-> q /\ k < Len(w), wire |-> SubSeq(w, k + 1, Len(w))]
    BY <1>2 DEF Receives
  <2>1. k \in 1..Len(w) /\ Len(w) \in Nat /\ \A i \in 1..k : w[i].kind # "Fragment"
    BY DEF Complete
  <2>2. Len(SubSeq(w, 2, k)) = k - 1 /\ \A i \in 1..(k - 1) : SubSeq(w, 2, k)[i] = w[i + 1]
    BY <2>1
  <2>3. 1 \in 1..k /\ \A i \in 1..(k - 1) : i + 1 \in 1..k
    BY <2>1
  <2>4. r.line = w[1] /\ r.ahead = SubSeq(w, 2, k)
    BY <2>0, Zenon
  <2> QED BY <2>1, <2>2, <2>3, <2>4, Zenon DEF Whole
<1> QED BY <1>1, <1>2, Zenon

\* A stream with nothing in it.
LEMMA EmptyKinds ==
    /\ \A K : AllKinds(<<>>, K) /\ ~Has(<<>>, K)
    /\ AskedLast(<<>>) /\ AnswerLast(<<>>) /\ Whole(<<>>)
BY DEF AllKinds, Has, AskedLast, AnswerLast, Whole

\* One line more at the end.
LEMMA AppendKinds ==
    ASSUME NEW L, NEW s \in Seq(L), NEW l \in L
    PROVE  /\ \A K : AllKinds(Append(s, l), K) <=> AllKinds(s, K) /\ l.kind \in K
           /\ \A K : Has(Append(s, l), K) <=> Has(s, K) \/ l.kind \in K
           /\ /\ AskedLast(s)
              /\ Has(s, {"Inquire"}) => l.kind \in {"Status", "Fragment"}
              => AskedLast(Append(s, l))
           /\ AllKinds(s, {"Data"}) => AnswerLast(Append(s, l))
<1> DEFINE t == Append(s, l)
<1>1. Len(t) = Len(s) + 1 /\ t[Len(s) + 1] = l /\ \A i \in 1..Len(s) : t[i] = s[i]
  OBVIOUS
<1>2. /\ Len(s) \in Nat /\ Len(s) + 1 \in 1..(Len(s) + 1)
      /\ \A i \in 1..(Len(s) + 1) : i \in 1..Len(s) \/ i = Len(s) + 1
      /\ \A i \in 1..Len(s) : i \in 1..(Len(s) + 1)
      /\ \A j \in 1..(Len(s) + 1) : ~(Len(s) + 1 < j)
  OBVIOUS
<1> HIDE DEF t
<1>3. \A K : AllKinds(t, K) <=> AllKinds(s, K) /\ l.kind \in K
  BY <1>1, <1>2, Zenon DEF AllKinds
<1>4. \A K : Has(t, K) <=> Has(s, K) \/ l.kind \in K
  BY <1>1, <1>2, Zenon DEF Has
<1>5. ASSUME AskedLast(s), Has(s, {"Inquire"}) => l.kind \in {"Status", "Fragment"}
      PROVE  AskedLast(t)
  BY <1>1, <1>2, <1>5, Zenon DEF AskedLast, Has
<1>6. AllKinds(s, {"Data"}) => AnswerLast(t)
  BY <1>1, <1>2, Zenon DEF AllKinds, AnswerLast
<1> QED BY <1>3, <1>4, <1>5, <1>6, Zenon DEF t

\* The first line is taken.
LEMMA TailKinds ==
    ASSUME NEW L, NEW s \in Seq(L), s # <<>>
    PROVE  /\ \A K : AllKinds(s, K) <=> s[1].kind \in K /\ AllKinds(Tail(s), K)
           /\ \A K : Has(s, K) <=> s[1].kind \in K \/ Has(Tail(s), K)
           /\ AskedLast(s) => AskedLast(Tail(s))
           /\ AskedLast(s) /\ s[1].kind = "Inquire" => AllKinds(Tail(s), {"Status", "Fragment"})
           /\ AnswerLast(s) => AnswerLast(Tail(s))
           /\ AnswerLast(s) /\ s[1].kind # "Data" => Tail(s) = <<>>
<1> DEFINE t == Tail(s)
<1>1. /\ t \in Seq(L) /\ Len(t) = Len(s) - 1 /\ Len(s) \in Nat /\ 1 \in 1..Len(s)
      /\ \A i \in 1..Len(t) : t[i] = s[i + 1]
  BY HeadTailProperties
<1> HIDE DEF t
<1>2. /\ \A i \in 1..Len(t) : i + 1 \in 1..Len(s) /\ 1 < i + 1
      /\ \A i \in 1..Len(s) : i = 1 \/ (i - 1 \in 1..Len(t) /\ (i - 1) + 1 = i)
      /\ \A i \in 1..Len(t) : i + 1 = Len(s) => i = Len(t)
      /\ \A i, j \in 1..Len(t) : i < j => i + 1 < j + 1
  BY <1>1
<1>split. \A i \in 1..Len(s) : i = 1 \/ (i - 1 \in 1..Len(t) /\ s[i] = t[i - 1])
  BY <1>1, <1>2, Zenon
<1>3. \A K : AllKinds(s, K) <=> s[1].kind \in K /\ AllKinds(t, K)
  BY <1>1, <1>2, <1>split, Zenon DEF AllKinds
<1>4. \A K : Has(s, K) <=> s[1].kind \in K \/ Has(t, K)
  BY <1>1, <1>2, <1>split, Zenon DEF Has
<1>5. AskedLast(s) => AskedLast(t)
  BY <1>1, <1>2 DEF AskedLast
<1>6. AskedLast(s) /\ s[1].kind = "Inquire" => AllKinds(t, {"Status", "Fragment"})
  BY <1>1, <1>2, Zenon DEF AskedLast, AllKinds
<1>7. ASSUME AnswerLast(s), NEW i \in 1..Len(t), t[i].kind # "Data"
      PROVE  i = Len(t)
  <2>1. i + 1 \in 1..Len(s) /\ s[i + 1].kind # "Data"
    BY <1>1, <1>2, <1>7, Zenon
  <2>2. i + 1 = Len(s)
    BY <1>7, <2>1, Zenon DEF AnswerLast
  <2> QED BY <1>2, <2>2, Zenon
<1>8. ASSUME AnswerLast(s), s[1].kind # "Data"
      PROVE  t = <<>>
  <2>1. Len(s) = 1
    BY <1>1, <1>8, Zenon DEF AnswerLast
  <2>2. Len(t) = 0
    BY <1>1, <2>1
  <2> QED BY <1>1, <2>2, EmptySeq, Zenon
<1> QED BY <1>3, <1>4, <1>5, <1>6, <1>7, <1>8, Zenon DEF t, AnswerLast

\* The count so far is all there is to know of an empty stream.
LEMMA CountedEmpty ==
    ASSUME NEW from \in Nat, NEW to, NEW exact, exact => from = to
    PROVE  Counted(<<>>, from, to, exact)
<1> DEFINE f == [i \in 0..0 |-> from]
<1>1. f \in [0..Len(<<>>) -> Nat] /\ f[0] = from /\ Len(<<>>) = 0
  OBVIOUS
<1> HIDE DEF f
<1>2. \A i \in 1..Len(<<>>) : FALSE
  OBVIOUS
<1> QED BY <1>1, <1>2, Zenon DEF Counted

\* A count the writer no longer keeps.
LEMMA CountedWeaker ==
    ASSUME NEW s, NEW from, NEW to, NEW exact, Counted(s, from, to, exact), NEW to2, NEW exact2,
           exact2 => exact /\ to2 = to
    PROVE  Counted(s, from, to2, exact2)
BY Zenon DEF Counted

\* The writer sends a line, and counts it.
LEMMA CountedAppend ==
    ASSUME NEW s \in Seq(ClientLine), NEW l \in ClientLine, NEW from, NEW to \in Nat,
           Counted(s, from, to, TRUE), NEW to2, NEW exact,
           exact => to2 = IF l.kind = "Data" THEN to + l.len ELSE to,
           l.kind = "End" => l.len = to
    PROVE  Counted(Append(s, l), from, to2, exact)
<1> DEFINE t == Append(s, l)
           d == IF l.kind = "Data" THEN to + l.len ELSE to
<1>1. PICK f \in [0..Len(s) -> Nat] :
        /\ f[0] = from /\ f[Len(s)] = to
        /\ \A i \in 1..Len(s) :
              /\ s[i].kind = "Data" => f[i] = f[i - 1] + s[i].len
              /\ s[i].kind = "End" => s[i].len = f[i - 1]
  BY Zenon DEF Counted
<1> DEFINE g == [i \in 0..(Len(s) + 1) |-> IF i = Len(s) + 1 THEN d ELSE f[i]]
<1>2. Len(s) \in Nat /\ Len(t) = Len(s) + 1 /\ t[Len(s) + 1] = l /\ \A i \in 1..Len(s) : t[i] = s[i]
  OBVIOUS
<1>3. d \in Nat
  BY DEF ClientLine
<1>4. g \in [0..(Len(s) + 1) -> Nat] /\ g[0] = from /\ g[Len(s) + 1] = d
  BY <1>1, <1>2, <1>3
<1>5. \A i \in 0..Len(s) : g[i] = f[i]
  BY <1>2
<1> HIDE DEF t, g
<1>6. ASSUME NEW i \in 1..Len(t)
      PROVE  /\ t[i].kind = "Data" => g[i] = g[i - 1] + t[i].len
             /\ t[i].kind = "End" => t[i].len = g[i - 1]
  <2>1. CASE i = Len(s) + 1
    <3>1. t[i] = l /\ g[i] = d /\ g[i - 1] = to
      BY <1>1, <1>2, <1>4, <1>5, <2>1
    <3> QED BY <3>1, Zenon
  <2>2. CASE i # Len(s) + 1
    <3>1. i \in 1..Len(s)
      BY <1>2, <2>2
    <3>2. t[i] = s[i] /\ g[i] = f[i] /\ g[i - 1] = f[i - 1]
      BY <1>2, <1>5, <3>1
    <3> QED BY <1>1, <3>1, <3>2, Zenon
  <2> QED BY <2>1, <2>2, Zenon
<1>7. exact => g[Len(t)] = to2
  BY <1>2, <1>4
<1>8. g \in [0..Len(t) -> Nat]
  BY <1>2, <1>4, Zenon
<1>9. Counted(t, from, to2, exact)
  BY <1>4, <1>6, <1>7, <1>8, Zenon DEF Counted
<1> QED BY <1>9, Zenon DEF t

\* The reader takes a D line, and counts it.
LEMMA CountedTail ==
    ASSUME NEW s \in Seq(ClientLine), s # <<>>, s[1].kind = "Data", NEW from, NEW to, NEW exact,
           Counted(s, from, to, exact)
    PROVE  Counted(Tail(s), from + s[1].len, to, exact)
<1> DEFINE t == Tail(s)
<1>1. PICK f \in [0..Len(s) -> Nat] :
        /\ f[0] = from /\ (exact => f[Len(s)] = to)
        /\ \A i \in 1..Len(s) :
              /\ s[i].kind = "Data" => f[i] = f[i - 1] + s[i].len
              /\ s[i].kind = "End" => s[i].len = f[i - 1]
  BY Zenon DEF Counted
<1> DEFINE g == [i \in 0..(Len(s) - 1) |-> f[i + 1]]
<1>2. /\ Len(s) \in Nat /\ Len(t) = Len(s) - 1 /\ 1 \in 1..Len(s)
      /\ \A i \in 1..Len(t) : t[i] = s[i + 1]
  BY HeadTailProperties
<1>3. g \in [0..(Len(s) - 1) -> Nat] /\ \A i \in 0..(Len(s) - 1) : g[i] = f[i + 1]
  BY <1>1, <1>2
<1>4. f[1] = f[1 - 1] + s[1].len
  BY <1>1, <1>2, Zenon
<1> HIDE DEF t, g
<1>5. g[0] = from + s[1].len
  BY <1>1, <1>2, <1>3, <1>4
<1>6. ASSUME NEW i \in 1..Len(t)
      PROVE  /\ t[i].kind = "Data" => g[i] = g[i - 1] + t[i].len
             /\ t[i].kind = "End" => t[i].len = g[i - 1]
  <2>1. i + 1 \in 1..Len(s) /\ (i + 1) - 1 = i /\ (i - 1) + 1 = i
        /\ i \in 0..(Len(s) - 1) /\ i - 1 \in 0..(Len(s) - 1)
    BY <1>2
  <2>2. t[i] = s[i + 1] /\ g[i] = f[i + 1] /\ g[i - 1] = f[(i + 1) - 1]
    BY <1>2, <1>3, <2>1, Zenon
  <2> QED BY <1>1, <2>1, <2>2, Zenon
<1>7. exact => g[Len(t)] = to
  BY <1>1, <1>2, <1>3
<1>8. g \in [0..Len(t) -> Nat]
  BY <1>2, <1>3, Zenon
<1>9. Counted(t, from + s[1].len, to, exact)
  BY <1>5, <1>6, <1>7, <1>8, Zenon DEF Counted
<1> QED BY <1>9, Zenon DEF t

\* An END that has come to the front carries the reader's count.
LEMMA CountedFirst ==
    ASSUME NEW s \in Seq(ClientLine), s # <<>>, s[1].kind = "End", NEW from, NEW to, NEW exact,
           Counted(s, from, to, exact)
    PROVE  s[1].len = from
<1>1. 1 \in 1..Len(s) /\ 1 - 1 = 0
  OBVIOUS
<1> QED BY <1>1, Zenon DEF Counted
-----------------------------------------------------------------------------
(* What each end does to the streams *)

Sending == {"new", "final"} \cup S!Application

\* The bytes the client's inquiry has put on the wire.
Delivered == IF cio = "data" THEN total - crest ELSE sent

\* Of the client: nothing is received, issued or answered, and nothing goes out.
Idles ==
    /\ Live /\ Live'
    /\ UNCHANGED <<begun, cfinals, c2s, s2c, cahead, cpartial, cmachine>>
    /\ cio' = "command" <=> cio = "command"
    /\ cio' = "drain" => cio = "drain" \/ C!HasBufferedInput
    /\ cinquiry' => cinquiry /\ Delivered' = Delivered

\* A line of an inquiry goes out.
Answers ==
    /\ Live /\ Live'
    /\ UNCHANGED <<begun, cfinals, s2c, cahead, cpartial>>
    /\ cmachine.state = "Inquiry" /\ cmachine.origin \in {"Greeting", "Command"} /\ cinquiry
    /\ cio' \notin {"command", "drain"}
    /\ c2s' = Append(c2s, C!Output)
    /\ \/ cio = "data" /\ cmachine' = cmachine /\ Delivered' = Delivered + C!Output.len
       \/ cio = "End" /\ cmachine'.state = cmachine.origin /\ ~cinquiry'
       \/ cio = "Can" /\ cmachine'.state = "AwaitFinal" /\ ~cinquiry'

\* The connection is dead from now on, whatever is left of a line being written.
Dies ==
    /\ ~Live'
    /\ UNCHANGED <<begun, cfinals>>
    /\ copen' => copen /\ UNCHANGED <<owner, cmachine>>
    /\ cio' # "command"
    /\ c2s' = c2s \/ (cio \in C!Writing /\ c2s' \in Interrupted(c2s, C2SCap, C!Output))

\* A command is begun, on a connection with nothing left to receive.
Issues ==
    /\ Live /\ cmachine.state = "Ready"
    /\ begun' = begun + 1
    /\ UNCHANGED <<cfinals, c2s>>
    /\ \/ ~Live' /\ ~copen' /\ cio' # "command"
       \/ Live' /\ cmachine'.state = "Command" /\ cio' = "command"
    /\ UNCHANGED <<s2c, cahead, cpartial>> \/ Receives(cahead, cpartial, s2c) # {}

\* A command is on its way.
Writes ==
    /\ Live /\ Live'
    /\ cio = "command" /\ cio' \notin {"command", "drain"}
    /\ c2s' = Append(c2s, C!Output)
    /\ UNCHANGED <<begun, cfinals, s2c, cahead, cpartial, cmachine>>

\* A line is received; a final response makes the client ready, an inquiry is
\* taken up, and nothing else changes the phase.
Takes ==
    /\ Live /\ Live'
    /\ UNCHANGED <<begun, c2s>>
    /\ cio \in C!Reading /\ cio' # "command"
    /\ cio' = "drain" => cio = "drain"
    /\ \E r \in Receives(cahead, cpartial, s2c) :
          /\ s2c' = r.wire /\ cahead' = r.ahead /\ cpartial' = r.partial
          /\ \/ /\ IsFinal(r.line)
                /\ cmachine.state # "Ready" /\ cmachine'.state = "Ready"
                /\ cfinals' = cfinals + 1
             \/ /\ r.line.kind = "Inquire"
                /\ cmachine.state \in {"Greeting", "Command"}
                /\ cmachine' = [state |-> "Inquiry", origin |-> cmachine.state]
                /\ Delivered' = 0
                /\ cfinals' = cfinals
             \/ /\ r.line.kind \notin {"Ok", "Err", "Inquire"}
                /\ UNCHANGED <<cmachine, cfinals>>

ClientEffect == Idles \/ Answers \/ Dies \/ Issues \/ Writes \/ Takes

\* Of the server: lines leave the stream from its front, and a closed channel
\* loses those it had read ahead.
Consumes ==
    \/ c2s' = c2s /\ sahead' \in {sahead, <<>>}
    \/ \E r \in Receives(sahead, spartial, c2s) :
          c2s' = r.wire /\ sahead' \in {r.ahead, <<>>}

\* The session has not asked, or has had its answer, and may ask (again).
Asks == smachine.state \in {"Greeting", "Handler"} \/ sio = "Inquire"

\* A line of the current operation goes out, one that fits the phase; a final
\* response is its last.
Sends(line) ==
    /\ s2c' = Append(s2c, line)
    /\ line.op = dispatched
    /\ at \in Sending /\ sopen
    /\ IsFinal(line) => at = "final" /\ at' \notin Sending
    /\ line.kind = "Inquire" => sio = "Inquire"
    /\ line.kind \in {"Data", "Comment"} => smachine.state = "Handler"
    /\ line.kind \in {"Ok", "Err", "Inquire", "Data", "Comment", "Status", "Fragment"}

\* A guard is left alone, or gone.
GuardKept ==
    /\ outcome' \in {outcome, "none"}
    /\ sinquiry' => sinquiry /\ received' = received

\* Nothing is sent or received.
Waits ==
    /\ sopen /\ sopen'
    /\ UNCHANGED <<c2s, s2c, sahead, dispatched, unanswered>>
    /\ at' \in Sending <=> at \in Sending
    /\ Asks' => Asks \/ outcome = "End"
    /\ GuardKept

\* The stream is closed from now on, whatever is left of a line being written.
Stops ==
    /\ ~sopen'
    /\ UNCHANGED dispatched
    /\ at' \in Sending => at \in Sending
    /\ Consumes
    /\ s2c' = s2c \/ \E line \in ServerLine : Sends(line)

\* A whole line goes out.
Speaks ==
    /\ sopen'
    /\ UNCHANGED <<c2s, sahead, dispatched>>
    /\ Asks' => Asks
    /\ \E line \in ServerLine :
          /\ Sends(line)
          /\ IsFinal(line) \/ at' = at
          /\ IF line.kind = "Inquire"
             THEN unanswered' /\ outcome' = "none" /\ received' = 0
             ELSE UNCHANGED unanswered /\ GuardKept

\* A line of an inquiry, or one to be passed over, is read.
Hears ==
    /\ sopen /\ sopen'
    /\ UNCHANGED <<s2c, dispatched, at, sinquiry>>
    /\ Asks' => Asks
    /\ \E r \in Receives(sahead, spartial, c2s) :
          /\ c2s' = r.wire /\ sahead' = r.ahead
          /\ \/ /\ r.line.kind \in {"Comment", "Empty"}
                /\ UNCHANGED <<unanswered, outcome, received>>
             \/ /\ r.line.kind = "Data"
                /\ received' = received + r.line.len
                /\ UNCHANGED <<unanswered, outcome>>
             \/ /\ r.line.kind \in {"End", "Can"}
                /\ ~unanswered' /\ outcome' = r.line.kind

\* A command becomes the current operation.
Dispatches ==
    /\ sopen /\ sopen'
    /\ at \notin Sending /\ at' \in Sending
    /\ dispatched' = dispatched + 1
    /\ UNCHANGED <<s2c, unanswered, outcome, sinquiry, received>>
    /\ \E r \in Receives(sahead, spartial, c2s) :
          r.line.kind = "Command" /\ c2s' = r.wire /\ sahead' = r.ahead

ServerEffect == UNCHANGED copen /\ (Waits \/ Stops \/ Speaks \/ Hears \/ Dispatches)

\* What the client's own invariant says of a call parked in its I/O.
ClientParked ==
    /\ cio # "none" => Live
    /\ cio = "next" => cmachine.state \in {"Greeting", "Command", "AwaitFinal"}
    /\ cio = "drain" => cmachine.state = "Ready"
    /\ cio \in {"data", "End", "Can"} => cmachine.state = "Inquiry" /\ cinquiry
    /\ cio = "command" => cmachine.state = "Command"

\* What the server's own invariant says of what it may be saying.
ServerParked ==
    /\ at = "idle" \/ sio = "next" => sopen
    /\ sopen => at \in Sending \cup {"idle"}
    /\ sio # "none" => at \in Sending
    /\ at \in {"idle", "final"} => ~unanswered
    /\ unanswered => smachine.state \notin {"Greeting", "Handler"}
    /\ outcome # "none" => ~unanswered
    /\ smachine.state = "Handler" => dispatched > 0
    /\ sio = "Inquire" => ~unanswered
    /\ sio = "next" => unanswered /\ sinquiry

\* What the two ends' own invariants say of the state both effects are about.
Ends ==
    /\ ClientParked /\ ServerParked
    /\ Delivered \in Nat /\ received \in Nat
    /\ cahead \in Seq(ServerLine) /\ s2c \in Seq(ServerLine)
    /\ sahead \in Seq(ClientLine) /\ c2s \in Seq(ClientLine)
    /\ begun \in Nat /\ dispatched \in Nat /\ cfinals \in Nat
    /\ Live => cfinals = IF cmachine.state = "Ready" THEN begun + 1 ELSE begun
    /\ cio \in C!Writing => C!Output \in ClientLine

-----------------------------------------------------------------------------
(* The invariant of the two together *)

(***************************************************************************)
(* The server is behind by at most one command: the one being written or   *)
(* on its way, of which there is never a second.                           *)
(***************************************************************************)
CommandsInv ==
    /\ dispatched <= begun /\ begun <= dispatched + 1
    /\ OneCommand(ToServer)
    /\ Pending(ToServer) => begun = dispatched + 1
    /\ cio = "command" => begun = dispatched + 1 /\ ~Pending(ToServer)

(***************************************************************************)
(* What is on its way to a live client belongs to its current operation.   *)
(* Nothing is, and nothing will be, before that operation is dispatched or *)
(* after its final response, which is the last line sent for it.           *)
(***************************************************************************)
ResponsesInv ==
    Live =>
      /\ Current(ToClient, begun) /\ FinalLast(ToClient)
      /\ HasFinal(ToClient) => at \notin Sending
      /\ cmachine.state = "Ready" \/ begun = dispatched + 1 =>
            ToClient = <<>> /\ at \notin Sending
      /\ cmachine.state = "Ready" => begun = dispatched

\* A stream the client still owns has an owner, and the start of a line is read
\* ahead only while the rest of it is on its way.
StreamInv ==
    /\ copen => owner # "dropped" /\ cmachine.state \notin C!CM!Terminal
    /\ Live /\ cpartial => s2c # <<>>

JointInv == CommandsInv /\ ResponsesInv /\ StreamInv

(***************************************************************************)
(* What is on its way to an open server: a command, while one is on its    *)
(* way; an answer, while an inquiry is unanswered; otherwise nothing.      *)
(***************************************************************************)
ToServerInv ==
    /\ begun = dispatched + 1 => at \notin Sending
    /\ sopen =>
          /\ begun = dispatched + 1 =>
                /\ ~unanswered
                /\ Len(ToServer) <= 1 /\ AllKinds(ToServer, {"Command", "Fragment"})
                /\ cio = "command" => ToServer = <<>>
          /\ begun = dispatched /\ ~unanswered => ToServer = <<>>
          /\ unanswered =>
                AllKinds(ToServer, {"Data", "End", "Can", "Fragment"}) /\ AnswerLast(ToServer)

(***************************************************************************)
(* What is on its way to a live client fits the phase it is in.            *)
(***************************************************************************)
ToClientInv ==
    Live =>
      /\ AllKinds(ToClient, {"Status", "Data", "Comment", "Inquire", "Ok", "Err", "Fragment"})
      /\ AskedLast(ToClient)
      /\ begun = 0 => ~Has(ToClient, {"Data"})
      /\ \/ cmachine.state = "Greeting"
         \/ cmachine.state = "Inquiry" /\ cmachine.origin = "Greeting"
         => begun = 0
      /\ cmachine.state = "Inquiry" =>
            /\ cmachine.origin \in {"Greeting", "Command"}
            /\ AllKinds(ToClient, {"Status", "Fragment"})
      /\ cmachine.state = "AwaitFinal" => ~Has(ToClient, {"Data", "Inquire"})
      /\ begun = dispatched + 1 => cmachine.state = "Command"
      /\ cio # "drain"

(***************************************************************************)
(* Whose turn it is, while both ends are there: somebody always has        *)
(* something to do or something to read.                                   *)
(***************************************************************************)
TurnInv ==
    Live /\ sopen =>
      /\ cmachine.state = "Inquiry" => unanswered /\ AllKinds(ToServer, {"Data"})
      /\ Has(ToClient, {"Inquire"}) =>
            unanswered /\ ToServer = <<>> /\ (sinquiry => received = 0)
      /\ HasFinal(ToClient) \/ cmachine.state = "Ready" => ~unanswered
      /\ outcome = "End" \/ Has(ToServer, {"End"}) \/ Asks => cmachine.state # "AwaitFinal"
      /\ begun = dispatched + 1 /\ cio # "command" => Pending(ToServer)
      /\ begun = dispatched /\ at \notin Sending =>
            cmachine.state = "Ready" \/ HasFinal(ToClient)
      /\ unanswered => \/ Has(ToClient, {"Inquire"})
                       \/ cmachine.state = "Inquiry"
                       \/ Has(ToServer, {"End", "Can"})

(***************************************************************************)
(* The server's guard has counted what it has read of an answer; what is   *)
(* still on its way makes up the client's count.                           *)
(***************************************************************************)
Counting == Live /\ cmachine.state = "Inquiry" /\ cinquiry
BytesInv ==
    sopen /\ sinquiry /\ unanswered => Counted(ToServer, received, Delivered, Counting)

\* Only whole lines are read ahead.
WholeInv == (Live => Whole(cahead)) /\ (sopen => Whole(sahead))

FitInv == ToServerInv /\ ToClientInv /\ TurnInv /\ BytesInv /\ WholeInv

-----------------------------------------------------------------------------
(* Steps *)

\* The streams are sequences of lines.
LEMMA Types ==
    ASSUME Ends
    PROVE  /\ cahead \in Seq(ServerLine) /\ s2c \in Seq(ServerLine)
           /\ sahead \in Seq(ClientLine) /\ c2s \in Seq(ClientLine)
           /\ ToClient = Joined(cahead, s2c) /\ ToClient \in Seq(ServerLine)
           /\ ToServer = Joined(sahead, c2s) /\ ToServer \in Seq(ClientLine)
           /\ begun \in Nat /\ dispatched \in Nat /\ cfinals \in Nat
<1>1. ToClient \in Seq(ServerLine)
  BY ConcatProperties, Zenon DEF ToClient, Ends
<1>2. ToServer \in Seq(ClientLine)
  BY ConcatProperties, Zenon DEF ToServer, Ends
<1> QED BY <1>1, <1>2, Zenon DEF Ends, ToClient, ToServer, Joined

\* What the client receives is the first line on its way to it.
LEMMA ClientReceives ==
    ASSUME Ends, NEW r \in Receives(cahead, cpartial, s2c)
    PROVE  /\ ToClient # <<>> /\ r.line = ToClient[1] /\ Rest(r) = Tail(ToClient)
           /\ (cpartial => s2c # <<>>) => (r.partial => r.wire # <<>>)
<1>1. cahead \in Seq(ServerLine) /\ s2c \in Seq(ServerLine)
  BY Zenon DEF Ends
<1>2. /\ Joined(cahead, s2c) # <<>> /\ r.line = Joined(cahead, s2c)[1]
      /\ Rest(r) = Tail(Joined(cahead, s2c))
      /\ (cpartial => s2c # <<>>) => (r.partial => r.wire # <<>>)
  BY <1>1, ReceivesFirst
<1>3. ToClient = Joined(cahead, s2c)
  BY Zenon DEF ToClient, Joined
<1> QED BY <1>2, <1>3, Zenon

\* And what the server receives.
LEMMA ServerReceives ==
    ASSUME Ends, NEW r \in Receives(sahead, spartial, c2s)
    PROVE  ToServer # <<>> /\ r.line = ToServer[1] /\ Rest(r) = Tail(ToServer)
<1>1. sahead \in Seq(ClientLine) /\ c2s \in Seq(ClientLine)
  BY Zenon DEF Ends
<1>2. /\ Joined(sahead, c2s) # <<>> /\ r.line = Joined(sahead, c2s)[1]
      /\ Rest(r) = Tail(Joined(sahead, c2s))
  BY <1>1, ReceivesFirst
<1>3. ToServer = Joined(sahead, c2s)
  BY Zenon DEF ToServer, Joined
<1> QED BY <1>2, <1>3, Zenon

\* An empty stream has no command and no response in it.
LEMMA EmptyStream ==
    /\ ~Pending(<<>>) /\ ~HasFinal(<<>>) /\ FinalLast(<<>>)
    /\ \A op : Current(<<>>, op)
BY DEF Pending, HasFinal, FinalLast, Current

\* A step that SerialCalls does not see.
LEMMA Unseen ==
    ASSUME UNCHANGED <<begun, dispatched, cfinals>>, Live' <=> Live
    PROVE  UNCHANGED Serial!vars
<1>1. Answered' = Answered
  BY Zenon DEF Answered
<1>2. Live' = Live
  BY Zenon DEF Live
<1> QED BY <1>1, <1>2, Zenon DEF Serial!vars

\* A step after which the connection is dead.
LEMMA Seen ==
    ASSUME UNCHANGED <<begun, dispatched, cfinals>>, ~Live'
    PROVE  [Serial!Next]_(Serial!vars)
<1>1. CASE ~Live
  BY <1>1, Unseen, Zenon
<1>2. CASE Live
  <2>1. Answered' = Answered
    BY Zenon DEF Answered
  <2>2. Live' = FALSE
    BY Zenon DEF Live
  <2>3. Serial!Fail
    BY <1>2, <2>1, <2>2, Zenon DEF Serial!Fail
  <2> QED BY <2>3, Zenon DEF Serial!Next
<1> QED BY <1>1, <1>2, Zenon

\* The line the client is writing: a command only where it writes one.
LEMMA OutputKinds ==
    ASSUME Ends, cio \in C!Writing
    PROVE  /\ C!Output \in ClientLine
           /\ [C!Output EXCEPT !.kind = "Fragment"] \in ClientLine
           /\ [C!Output EXCEPT !.kind = "Fragment"].kind # "Command"
           /\ C!Output.kind = "Command" <=> cio = "command"
<1>1. C!Output \in ClientLine
  BY Zenon DEF Ends
<1>2. /\ [C!Output EXCEPT !.kind = "Fragment"] \in ClientLine
      /\ [C!Output EXCEPT !.kind = "Fragment"].kind = "Fragment"
  BY <1>1, Zenon DEF ClientLine, Outgoing, RequestKind
<1>3. C!Output.kind = "Command" <=> cio = "command"
  BY Zenon DEF C!Output, C!Writing
<1> QED BY <1>1, <1>2, <1>3, Zenon

\* What SerialCalls asks of a step.
Serially == [Serial!Next]_(Serial!vars)

\* A step of the client keeps the joint invariant and is a step of SerialCalls.
LEMMA ClientStep ==
    ASSUME Ends, JointInv, ClientEffect, UNCHANGED serverOnly
    PROVE  JointInv' /\ Serially
<1> USE DEF JointInv, CommandsInv, ResponsesInv, StreamInv
<1>1. UNCHANGED <<at, dispatched, sahead>>
  BY Zenon DEF serverOnly
<1>2. /\ cahead \in Seq(ServerLine) /\ s2c \in Seq(ServerLine)
      /\ sahead \in Seq(ClientLine) /\ c2s \in Seq(ClientLine)
      /\ ToClient = Joined(cahead, s2c) /\ ToClient \in Seq(ServerLine)
      /\ ToServer = Joined(sahead, c2s) /\ ToServer \in Seq(ClientLine)
      /\ begun \in Nat /\ dispatched \in Nat /\ cfinals \in Nat
  BY Types, Zenon
<1>3. ToClient' = Joined(cahead', s2c') /\ ToServer' = Joined(sahead, c2s')
  BY <1>1, Zenon DEF ToClient, ToServer, Joined
<1>4. Live' => owner' # "dropped" /\ cmachine'.state \notin C!CM!Terminal
  BY Zenon DEF Live
<1>5. ASSUME NEW l \in ClientLine, c2s' = Append(c2s, l), l.kind = "Command" => ~Pending(ToServer)
      PROVE  /\ OneCommand(ToServer')
             /\ Pending(ToServer') => Pending(ToServer) \/ l.kind = "Command"
  <2>1. ToServer' = Append(ToServer, l)
    BY <1>2, <1>3, <1>5, AppendLast
  <2> QED BY <1>2, <1>5, <2>1, AppendCommands, Zenon
<1>6. CASE Idles \/ Answers
  <2>0. /\ Live /\ Live'
        /\ UNCHANGED <<begun, cfinals, s2c, cahead, cpartial>>
        /\ cmachine'.state = "Ready" <=> cmachine.state = "Ready"
        /\ cio' = "command" <=> cio = "command"
        /\ c2s' = c2s \/ (cio \in {"data", "End", "Can"} /\ c2s' = Append(c2s, C!Output))
    BY <1>6, Zenon DEF Idles, Answers
  <2>1. OneCommand(ToServer') /\ (Pending(ToServer') => Pending(ToServer))
    <3>1. CASE c2s' = c2s
      BY <1>2, <1>3, <3>1, Zenon
    <3>2. CASE cio \in {"data", "End", "Can"} /\ c2s' = Append(c2s, C!Output)
      BY <1>5, <3>2, OutputKinds, Zenon DEF C!Writing
    <3> QED BY <2>0, <3>1, <3>2, Zenon
  <2>2. CommandsInv'
    BY <1>1, <2>0, <2>1, Zenon
  <2>3. ToClient' = ToClient
    BY <1>2, <1>3, <2>0, Zenon
  <2>4. ResponsesInv'
    BY <1>1, <1>2, <2>0, <2>3, Zenon
  <2>5. StreamInv'
    BY <1>1, <1>2, <1>4, <2>0, Zenon
  <2>6. Serially
    BY <1>1, <1>2, <2>0, Unseen, Zenon DEF Serially
  <2> QED BY <2>2, <2>4, <2>5, <2>6, Zenon
<1>7. CASE Dies
  <2>0. cio' # "command" /\ begun' = begun /\ ~Live' /\ cfinals' = cfinals
    BY <1>1, <1>7, Zenon DEF Dies
  <2>1. OneCommand(ToServer') /\ (Pending(ToServer') => begun = dispatched + 1)
    <3>1. CASE c2s' = c2s
      BY <1>2, <1>3, <3>1, Zenon
    <3>2. CASE cio \in C!Writing /\ c2s' = Append(c2s, C!Output)
      BY <1>5, <3>2, OutputKinds, Zenon
    <3>3. CASE cio \in C!Writing /\ c2s' = Append(c2s, [C!Output EXCEPT !.kind = "Fragment"])
      BY <1>5, <3>3, OutputKinds, Zenon
    <3> QED BY <1>7, <3>1, <3>2, <3>3, Zenon DEF Dies, Interrupted
  <2>2. CommandsInv' /\ ResponsesInv'
    BY <1>1, <2>0, <2>1, Zenon
  <2>3. StreamInv'
    BY <1>7, <2>0, Zenon DEF Dies
  <2>4. Serially
    BY <1>1, <2>0, Seen, Zenon DEF Serially
  <2> QED BY <2>2, <2>3, <2>4, Zenon
<1>8. CASE Issues
  <2>1. /\ Live /\ ToClient = <<>> /\ at \notin Sending /\ begun = dispatched
        /\ ~Pending(ToServer)
    BY <1>2, <1>8 DEF Issues
  <2>2. Receives(cahead, cpartial, s2c) = {}
    BY <1>2, <2>1, ReceivesFirst, Zenon
  <2>3. UNCHANGED <<s2c, cahead, cpartial, c2s>> /\ begun' = begun + 1 /\ cfinals' = cfinals
    BY <1>8, <2>2, Zenon DEF Issues
  <2>4. ToClient' = <<>> /\ ToServer' = ToServer
    BY <1>2, <1>3, <2>1, <2>3, Zenon
  <2>5. CommandsInv'
    BY <1>1, <1>2, <2>1, <2>3, <2>4
  <2>6. ResponsesInv'
    BY <1>1, <1>2, <1>8, <2>1, <2>3, <2>4, EmptyStream, Zenon DEF Issues
  <2>7. StreamInv'
    BY <1>1, <1>4, <1>8, <2>1, <2>3, Zenon DEF Issues
  <2>8. Serially
    <3>1. cfinals = begun + 1
      BY <1>8, Zenon DEF Issues, Ends
    <3>2. Answered = begun /\ Answered' = Answered
      BY <1>2, <2>3, <3>1 DEF Answered
    <3>3. Live' \in BOOLEAN
      BY Zenon DEF Live
    <3>4. Serial!Issue
      BY <1>1, <2>1, <2>3, <3>2, <3>3, Zenon DEF Serial!Issue
    <3> QED BY <3>4, Zenon DEF Serially, Serial!Next
  <2> QED BY <2>5, <2>6, <2>7, <2>8, Zenon
<1>9. CASE Writes
  <2>1. /\ cio = "command" /\ cio' # "command" /\ c2s' = Append(c2s, C!Output)
        /\ UNCHANGED <<begun, cfinals, s2c, cahead, cpartial, cmachine>>
        /\ Live /\ Live' /\ begun = dispatched + 1 /\ ~Pending(ToServer)
    BY <1>1, <1>2, <1>9, Zenon DEF Writes
  <2>2. OneCommand(ToServer')
    BY <1>5, <2>1, OutputKinds, Zenon DEF C!Writing
  <2>3. CommandsInv'
    BY <1>1, <1>2, <2>1, <2>2, Zenon
  <2>4. ToClient' = ToClient
    BY <1>2, <1>3, <2>1, Zenon
  <2>5. ResponsesInv'
    BY <1>1, <2>1, <2>4, Zenon
  <2>6. StreamInv'
    BY <1>4, <2>1, Zenon
  <2>7. Serially
    BY <1>1, <2>1, Unseen, Zenon DEF Serially
  <2> QED BY <2>3, <2>5, <2>6, <2>7, Zenon
<1>10. CASE Takes
  <2>1. /\ Live /\ Live' /\ UNCHANGED <<begun, c2s>>
        /\ cio # "command" /\ cio' # "command"
    BY <1>1, <1>2, <1>10, Zenon DEF Takes, C!Reading
  <2>2. PICK r \in Receives(cahead, cpartial, s2c) :
          /\ s2c' = r.wire /\ cahead' = r.ahead /\ cpartial' = r.partial
          /\ IF IsFinal(r.line)
             THEN /\ cmachine.state # "Ready" /\ cmachine'.state = "Ready"
                  /\ cfinals' = cfinals + 1
             ELSE /\ cmachine'.state = "Ready" <=> cmachine.state = "Ready"
                  /\ cfinals' = cfinals
    BY <1>10, SMTT(30) DEF Takes, IsFinal
  <2>3. /\ ToClient # <<>> /\ r.line = ToClient[1] /\ Rest(r) = Tail(ToClient)
        /\ (cpartial => s2c # <<>>) => (r.partial => r.wire # <<>>)
    BY ClientReceives, Zenon
  <2>4. ToClient' = Tail(ToClient) /\ ToServer' = ToServer
    BY <1>2, <1>3, <2>1, <2>2, <2>3, Zenon DEF Rest, Joined
  <2>5. cmachine.state # "Ready" /\ begun = dispatched
    <3>1. cmachine.state # "Ready" /\ begun # dispatched + 1
      BY <2>1, <2>3, Zenon
    <3>2. dispatched <= begun /\ begun <= dispatched + 1
      BY Zenon
    <3> QED BY <1>2, <3>1, <3>2
  <2>6. /\ Current(Tail(ToClient), begun) /\ FinalLast(Tail(ToClient))
        /\ HasFinal(Tail(ToClient)) => at \notin Sending
        /\ IsFinal(r.line) => Tail(ToClient) = <<>> /\ at \notin Sending
    <3>1. /\ Current(ToClient, begun) /\ FinalLast(ToClient)
          /\ HasFinal(ToClient) => at \notin Sending
      BY <2>1, Zenon
    <3>2. /\ Current(Tail(ToClient), begun) /\ FinalLast(Tail(ToClient))
          /\ HasFinal(Tail(ToClient)) => HasFinal(ToClient)
          /\ IsFinal(ToClient[1]) => Tail(ToClient) = <<>> /\ HasFinal(ToClient)
      BY <1>2, <2>3, <3>1, TakenResponse, Zenon
    <3> QED BY <2>3, <3>1, <3>2, Zenon
  <2>7. CommandsInv'
    BY <1>1, <2>1, <2>4, Zenon
  <2>8. ResponsesInv'
    BY <1>1, <1>2, <2>1, <2>2, <2>4, <2>5, <2>6
  <2>9. StreamInv'
    BY <1>4, <2>1, <2>2, <2>3, Zenon
  <2>10. Serially
    <3>1. CASE ~IsFinal(r.line)
      BY <1>1, <2>1, <2>2, <3>1, Unseen, Zenon DEF Serially
    <3>2. CASE IsFinal(r.line)
      <4>1. cfinals = begun /\ cfinals' = begun + 1
        BY <2>1, <2>2, <2>5, <3>2, Zenon
        DEF Ends
      <4>2. CASE begun = 0
        <5>1. Answered' = Answered /\ Live' = Live
          BY <2>1, <4>1, <4>2 DEF Answered
        <5> QED BY <1>1, <2>1, <5>1, Zenon DEF Serially, Serial!vars
      <4>3. CASE begun # 0
        <5>1. Answered = begun - 1 /\ Answered' = begun
          BY <1>2, <4>1, <4>3 DEF Answered
        <5>2. Live' = Live
          BY <2>1
        <5>3. Serial!Answer
          BY <1>1, <1>2, <2>1, <2>5, <5>1, <5>2 DEF Serial!Answer
        <5> QED BY <5>3, Zenon DEF Serially, Serial!Next
      <4> QED BY <4>2, <4>3, Zenon
    <3> QED BY <3>1, <3>2, Zenon
  <2> QED BY <2>7, <2>8, <2>9, <2>10, Zenon
<1> QED BY <1>6, <1>7, <1>8, <1>9, <1>10, Zenon DEF ClientEffect

\* So does a step of the server.
LEMMA ServerStep ==
    ASSUME Ends, JointInv, ServerEffect, UNCHANGED clientOnly
    PROVE  JointInv' /\ Serially
<1> USE DEF JointInv, CommandsInv, ResponsesInv, StreamInv
<1>1. /\ UNCHANGED <<copen, owner, cmachine, begun, cfinals, cahead, cpartial, cio>>
      /\ Live' <=> Live
  BY Zenon DEF clientOnly, Live, ServerEffect
<1>2. /\ cahead \in Seq(ServerLine) /\ s2c \in Seq(ServerLine)
      /\ sahead \in Seq(ClientLine) /\ c2s \in Seq(ClientLine)
      /\ ToClient = Joined(cahead, s2c) /\ ToClient \in Seq(ServerLine)
      /\ ToServer = Joined(sahead, c2s) /\ ToServer \in Seq(ClientLine)
      /\ begun \in Nat /\ dispatched \in Nat
  BY Types, Zenon
<1>3. ToClient' = Joined(cahead, s2c') /\ ToServer' = Joined(sahead', c2s')
  BY <1>1, Zenon DEF ToClient, ToServer, Joined
<1>4. CASE Waits \/ Stops \/ Speaks \/ Hears
  <2>0. /\ UNCHANGED dispatched
        /\ at' \in Sending => at \in Sending
        /\ s2c' = s2c \/ \E line \in ServerLine : Sends(line)
    <3>1. CASE Speaks
      BY <3>1, Zenon DEF Speaks, Sends
    <3>2. CASE Waits \/ Stops \/ Hears
      BY <3>2, Zenon DEF Waits, Stops, Hears
    <3> QED BY <1>4, <3>1, <3>2, Zenon
  <2>1. ToServer' \in Seq(ClientLine) /\ Suffix(ToServer', ToServer)
    <3>1. \/ c2s' = c2s /\ sahead' \in {sahead, <<>>}
          \/ \E r \in Receives(sahead, spartial, c2s) :
                c2s' = r.wire /\ sahead' \in {r.ahead, <<>>}
      <4>1. CASE Waits \/ Speaks
        BY <4>1, Zenon DEF Waits, Speaks
      <4>2. CASE Stops
        BY <4>2, Zenon DEF Stops, Consumes
      <4>3. CASE Hears
        BY <4>3, Zenon DEF Hears, Consumes
      <4> QED BY <1>4, <4>1, <4>2, <4>3, Zenon
    <3>2. /\ Joined(sahead', c2s') \in Seq(ClientLine)
          /\ Suffix(Joined(sahead', c2s'), Joined(sahead, c2s))
      BY <1>2, <3>1, ConsumesSuffix, Zenon
    <3> QED BY <1>2, <1>3, <3>2, Zenon
  <2>2. OneCommand(ToServer') /\ (Pending(ToServer') => Pending(ToServer))
    BY <1>2, <2>1, SuffixCommands, LenProperties, Zenon
  <2>3. CommandsInv'
    BY <1>1, <2>0, <2>2, Zenon
  <2>4. CASE s2c' = s2c
    <3>1. ToClient' = ToClient
      BY <1>2, <1>3, <2>4, Zenon
    <3> QED BY <1>1, <2>0, <2>3, <2>4, <3>1, Unseen, Zenon DEF Serially
  <2>5. CASE \E line \in ServerLine : Sends(line)
    <3>1. PICK l \in ServerLine :
            /\ s2c' = Append(s2c, l) /\ l.op = dispatched /\ at \in Sending
            /\ IsFinal(l) => at' \notin Sending
      BY <2>5, Zenon DEF Sends, IsFinal
    <3>2. l \in ServerLine
      BY Zenon
    <3>3. ToClient' = Append(ToClient, l)
      BY <1>2, <1>3, <3>1, <3>2, AppendLast
    <3>4. Live => begun = dispatched /\ cmachine.state # "Ready" /\ ~HasFinal(ToClient)
      BY <1>2, <3>1
    <3>5. ResponsesInv'
      BY <1>1, <1>2, <2>0, <3>1, <3>2, <3>3, <3>4, SentResponse, Zenon
    <3>6. StreamInv'
      <4>1. s2c' # <<>>
        <5>1. Len(Append(s2c, l)) = Len(s2c) + 1 /\ Len(s2c) \in Nat
          BY <1>2, <3>2
        <5>2. Len(s2c') # 0 /\ Len(<<>>) = 0
          BY <3>1, <5>1
        <5> QED BY <5>2, Zenon
      <4> QED BY <1>1, <4>1, Zenon
    <3>7. Serially
      BY <1>1, <2>0, Unseen, Zenon DEF Serially
    <3> QED BY <2>3, <3>5, <3>6, <3>7, Zenon
  <2> QED BY <2>0, <2>4, <2>5, Zenon
<1>5. CASE Dispatches
  <2>1. PICK r \in Receives(sahead, spartial, c2s) :
          r.line.kind = "Command" /\ c2s' = r.wire /\ sahead' = r.ahead
    BY <1>5, Zenon DEF Dispatches
  <2>2. ToServer # <<>> /\ r.line = ToServer[1] /\ Rest(r) = Tail(ToServer)
    BY ServerReceives, Zenon
  <2>3. ToServer' = Tail(ToServer)
    BY <1>3, <2>1, <2>2, Zenon DEF Rest, Joined
  <2>4. OneCommand(ToServer') /\ ~Pending(ToServer')
    <3>1. OneCommand(ToServer) /\ ToServer[1].kind = "Command" /\ ToServer \in Seq(ClientLine)
      BY <1>2, <2>1, <2>2, Types, Zenon
    <3>2. OneCommand(Tail(ToServer)) /\ ~Pending(Tail(ToServer))
      BY <2>2, <3>1, TakenCommand, Zenon
    <3> QED BY <2>3, <3>2, Zenon
  <2>5. Pending(ToServer)
    <3>1. 1 \in 1..Len(ToServer)
      BY <1>2, <2>2
    <3> QED BY <2>1, <2>2, <3>1, Zenon DEF Pending
  <2>6. begun = dispatched + 1 /\ cio # "command" /\ dispatched' = dispatched + 1 /\ s2c' = s2c
    BY <1>5, <2>5, Zenon DEF Dispatches
  <2>7. CommandsInv'
    BY <1>1, <1>2, <2>4, <2>6
  <2>8. ToClient' = ToClient
    BY <1>2, <1>3, <2>6, Zenon
  <2>9. ResponsesInv' /\ StreamInv'
    BY <1>1, <1>2, <2>6, <2>8, EmptyStream
  <2>10. Serially
    <3>1. Answered' = Answered /\ Live' = Live
      BY <1>1, Zenon DEF Answered, clientOnly, Live
    <3>2. Serial!Execute
      BY <1>1, <1>2, <2>6, <3>1 DEF Serial!Execute
    <3> QED BY <3>2, Zenon DEF Serially, Serial!Next
  <2> QED BY <2>7, <2>9, <2>10, Zenon
<1> QED BY <1>4, <1>5, Zenon DEF ServerEffect

-----------------------------------------------------------------------------
(* Steps, and what fits *)

\* Kinds the joint argument names otherwise.
LEMMA NamedKinds ==
    /\ \A s : HasFinal(s) <=> Has(s, {"Ok", "Err"})
    /\ \A s : Pending(s) <=> Has(s, {"Command"})
BY Zenon DEF HasFinal, Pending, Has, IsFinal

\* A stream has no line of a kind that none of its lines is of.
LEMMA NoneHas ==
    ASSUME NEW s, NEW K, AllKinds(s, K), NEW M, K \cap M = {}
    PROVE  ~Has(s, M)
BY Zenon DEF AllKinds, Has

\* A stream of some kinds is one of more kinds.
LEMMA MoreKinds ==
    ASSUME NEW s, NEW K, AllKinds(s, K), NEW M, K \subseteq M
    PROVE  AllKinds(s, M)
BY Zenon DEF AllKinds

\* The line the client is writing, by what it is parked in.
LEMMA OutputFields ==
    ASSUME cio \in C!Writing
    PROVE  /\ C!Output.kind = CASE cio = "command" -> "Command"
                                [] cio = "data" -> "Data"
                                [] OTHER -> cio
           /\ cio \in {"End", "Can"} => C!Output.len = sent
BY Zenon DEF C!Output, C!Writing

\* Nothing is on its way to a client that is ready, or that waits for the
\* server to read its command; so the client never has to drain.
LEMMA NothingToDrain ==
    ASSUME Ends, JointInv, Live, cmachine.state = "Ready"
    PROVE  ~C!HasBufferedInput
<1>1. ToClient = <<>>
  BY Zenon DEF JointInv, ResponsesInv
<1>2. cahead = <<>> /\ s2c = <<>>
  BY <1>1, ConcatEqualIffEmpty DEF ToClient, Ends
<1> QED BY <1>2, Zenon DEF C!HasBufferedInput, JointInv, StreamInv

\* What a step of the client leaves alone.
LEMMA ServerStill ==
    ASSUME UNCHANGED <<serverOnly, sopen>>
    PROVE  /\ UNCHANGED <<at, dispatched, sahead, sio, sinquiry, outcome, received>>
           /\ UNCHANGED <<unanswered, sopen>>
           /\ Asks' <=> Asks
BY Zenon DEF serverOnly, Asks

\* The client waits: nothing moves.
LEMMA IdlesFits ==
    ASSUME Ends, Ends', JointInv, FitInv, Idles, UNCHANGED <<serverOnly, sopen>>
    PROVE  FitInv'
<1>1. /\ UNCHANGED <<at, dispatched, sahead, sio, sinquiry, outcome, received>>
      /\ UNCHANGED <<unanswered, sopen>>
      /\ Asks' <=> Asks
  BY ServerStill, Zenon
<1>2. /\ Live /\ Live'
      /\ UNCHANGED <<begun, cfinals, c2s, s2c, cahead, cpartial, cmachine>>
      /\ cio' = "command" <=> cio = "command"
      /\ cio' = "drain" => cio = "drain" \/ C!HasBufferedInput
      /\ cinquiry' => cinquiry /\ Delivered' = Delivered
  BY Zenon DEF Idles
<1>3. ToClient' = ToClient /\ ToServer' = ToServer
  BY <1>1, <1>2, Zenon DEF ToClient, ToServer
<1>4. Counting' => Counting /\ Delivered' = Delivered
  BY <1>2, Zenon DEF Counting
<1>5. cio' # "drain"
  BY <1>2, NothingToDrain, Zenon DEF Ends, ClientParked, FitInv, ToClientInv
<1>6. ToServerInv'
  BY <1>1, <1>2, <1>3 DEF FitInv, ToServerInv
<1>7. ToClientInv'
  BY <1>1, <1>2, <1>3, <1>5, Zenon DEF FitInv, ToClientInv
<1>8. TurnInv'
  BY <1>1, <1>2, <1>3, SMTT(30) DEF FitInv, TurnInv
<1>9. BytesInv'
  BY <1>1, <1>3, <1>4, CountedWeaker DEF FitInv, BytesInv
<1>10. WholeInv'
  BY <1>1, <1>2 DEF FitInv, WholeInv
<1> QED BY <1>6, <1>7, <1>8, <1>9, <1>10, Zenon DEF FitInv

\* The client sends a line of an inquiry: the server, if it is there, has asked.
LEMMA AnswersFits ==
    ASSUME Ends, Ends', JointInv, FitInv, Answers, UNCHANGED <<serverOnly, sopen>>
    PROVE  FitInv'
<1>1. /\ UNCHANGED <<at, dispatched, sahead, sio, sinquiry, outcome, received>>
      /\ UNCHANGED <<unanswered, sopen>>
      /\ Asks' <=> Asks
  BY ServerStill, Zenon
<1>2. /\ Live /\ Live'
      /\ UNCHANGED <<begun, cfinals, s2c, cahead, cpartial>>
      /\ cmachine.state = "Inquiry" /\ cmachine.origin \in {"Greeting", "Command"} /\ cinquiry
      /\ cio' \notin {"command", "drain"}
      /\ c2s' = Append(c2s, C!Output)
      /\ \/ cio = "data" /\ cmachine' = cmachine /\ Delivered' = Delivered + C!Output.len
         \/ cio = "End" /\ cmachine'.state = cmachine.origin /\ ~cinquiry'
         \/ cio = "Can" /\ cmachine'.state = "AwaitFinal" /\ ~cinquiry'
  BY Zenon DEF Answers
<1>3. /\ C!Output \in ClientLine /\ C!Output.kind = IF cio = "data" THEN "Data" ELSE cio
      /\ cio \in {"End", "Can"} => C!Output.len = sent /\ Delivered = sent
  BY <1>2, OutputFields, Zenon DEF Ends, C!Writing, Delivered
<1>4. ToClient' = ToClient /\ ToServer' = Append(ToServer, C!Output)
      /\ ToServer \in Seq(ClientLine) /\ Delivered \in Nat
  <2>1. ToServer' = Joined(sahead, Append(c2s, C!Output)) /\ ToServer = Joined(sahead, c2s)
    BY <1>1, <1>2, Zenon DEF ToServer, Joined
  <2>2. ToClient' = ToClient
    BY <1>2, Zenon DEF ToClient
  <2>3. sahead \in Seq(ClientLine) /\ c2s \in Seq(ClientLine) /\ C!Output \in ClientLine
    BY <1>3, Types, Zenon
  <2>4. Joined(sahead, Append(c2s, C!Output)) = Append(Joined(sahead, c2s), C!Output)
        /\ Joined(sahead, c2s) \in Seq(ClientLine)
    BY <2>3, AppendLast, Zenon
  <2>5. Delivered \in Nat
    BY Zenon DEF Ends
  <2> QED BY <2>1, <2>2, <2>4, <2>5, Zenon
<1>5. /\ \A K : AllKinds(ToServer', K) <=> AllKinds(ToServer, K) /\ C!Output.kind \in K
      /\ \A K : Has(ToServer', K) <=> Has(ToServer, K) \/ C!Output.kind \in K
      /\ AllKinds(ToServer, {"Data"}) => AnswerLast(ToServer')
  BY <1>3, <1>4, AppendKinds, Zenon
<1>6. /\ begun # dispatched + 1
      /\ AllKinds(ToClient, {"Status", "Fragment"})
      /\ cmachine.origin = "Greeting" => begun = 0
  BY <1>2, Zenon DEF FitInv, ToClientInv
<1>7. ~Has(ToClient, {"Inquire"}) /\ ~HasFinal(ToClient) /\ ~Has(ToClient, {"Data", "Inquire"})
  BY <1>6, NoneHas, NamedKinds
<1>8. sopen => unanswered /\ AllKinds(ToServer, {"Data"}) /\ at \in Sending
  BY <1>2, <1>6, <1>7, SMTT(30) DEF FitInv, TurnInv, JointInv, CommandsInv, Ends
<1>9. ToServerInv'
  <2>1. sopen => AllKinds(ToServer, {"Data", "End", "Can", "Fragment"})
    BY <1>8, MoreKinds, Zenon
  <2> QED BY <1>1, <1>2, <1>3, <1>5, <1>6, <1>8, <2>1, SMTT(30) DEF ToServerInv
<1>10. ToClientInv'
  BY <1>1, <1>2, <1>4, <1>6, <1>7, Zenon DEF FitInv, ToClientInv
<1>11. TurnInv'
  <2>1. sopen => ~Has(ToServer, {"End"}) /\ outcome # "End" /\ ~Asks
    BY <1>8, NoneHas, SMTT(30) DEF Ends, ServerParked, Asks
  <2>2. /\ cio = "data" => cmachine'.state = "Inquiry"
        /\ cio = "End" => cmachine'.state \in {"Greeting", "Command"}
        /\ cio = "Can" => cmachine'.state = "AwaitFinal"
    BY <1>2, Zenon
  <2> QED BY <1>1, <1>2, <1>3, <1>4, <1>5, <1>6, <1>7, <1>8, <2>1, <2>2, SMTT(30) DEF TurnInv
<1>12. BytesInv'
  <2> SUFFICES ASSUME sopen, sinquiry, unanswered
               PROVE  Counted(Append(ToServer, C!Output), received, Delivered', Counting')
    BY <1>1, <1>4 DEF BytesInv
  <2>1. Counting
    BY <1>2, Zenon DEF Counting
  <2>2. Counted(ToServer, received, Delivered, TRUE)
    BY <2>1, CountedWeaker, Zenon DEF FitInv, BytesInv
  <2>3. Counting' => Delivered' = IF C!Output.kind = "Data" THEN Delivered + C!Output.len
                                                            ELSE Delivered
    BY <1>2, <1>3, Zenon DEF Counting
  <2>4. C!Output.kind = "End" => C!Output.len = Delivered
    BY <1>2, <1>3, Zenon
  <2> HIDE DEF Delivered
  <2> QED BY <1>3, <1>4, <2>2, <2>3, <2>4, CountedAppend, Zenon
<1>13. WholeInv'
  BY <1>1, <1>2 DEF FitInv, WholeInv
<1> QED BY <1>9, <1>10, <1>11, <1>12, <1>13, Zenon DEF FitInv

\* The connection is lost, perhaps in the middle of a line; a server that still
\* listens may find that line, whole or cut short, after those it waits for.
LEMMA DiesFits ==
    ASSUME Ends, JointInv, FitInv, Dies, UNCHANGED <<serverOnly, sopen>>
    PROVE  FitInv'
<1>1. /\ UNCHANGED <<at, dispatched, sahead, sio, sinquiry, outcome, received>>
      /\ UNCHANGED <<unanswered, sopen>>
  BY ServerStill, Zenon
<1>2. ~Live' /\ begun' = begun /\ cio' # "command" /\ ~Counting'
  BY Zenon DEF Dies, Counting
<1>3. ToClientInv' /\ TurnInv' /\ WholeInv'
  BY <1>1, <1>2, SMTT(30) DEF FitInv, ToClientInv, TurnInv, WholeInv
<1>4. CASE c2s' = c2s
  <2>1. ToServer' = ToServer
    BY <1>1, <1>4, Zenon DEF ToServer
  <2>2. ToServerInv'
    BY <1>1, <1>2, <2>1 DEF FitInv, ToServerInv
  <2>3. BytesInv'
    BY <1>1, <1>2, <2>1, CountedWeaker DEF FitInv, BytesInv
  <2> QED BY <1>3, <2>2, <2>3, Zenon DEF FitInv
<1>5. ASSUME cio \in C!Writing, NEW l \in ClientLine, c2s' = Append(c2s, l),
             l.kind = "Fragment" \/ l = C!Output
      PROVE  FitInv'
  <2>1. /\ Live
        /\ cio = "command" => l.kind \in {"Command", "Fragment"}
        /\ cio # "command" => /\ cmachine.state = "Inquiry" /\ cinquiry
                              /\ l.kind \in {"Data", "End", "Can", "Fragment"}
        /\ l.kind = "Data" => cio = "data"
        /\ l.kind = "End" => l.len = Delivered
    BY <1>5, OutputFields, Zenon DEF Ends, ClientParked, C!Writing, Delivered
  <2>2. /\ ToServer' = Append(ToServer, l) /\ ToServer \in Seq(ClientLine)
        /\ Len(ToServer') = Len(ToServer) + 1
    <3>1. ToServer' = Joined(sahead, Append(c2s, l)) /\ ToServer = Joined(sahead, c2s)
      BY <1>1, <1>5, Zenon DEF ToServer, Joined
    <3>2. ToServer' = Append(ToServer, l) /\ ToServer \in Seq(ClientLine)
      BY <3>1, AppendLast, Types, SMTT(30) DEF Ends
    <3> QED BY <3>2
  <2>3. /\ \A K : AllKinds(ToServer', K) <=> AllKinds(ToServer, K) /\ l.kind \in K
        /\ AllKinds(ToServer, {"Data"}) => AnswerLast(ToServer')
    BY <2>2, AppendKinds, Zenon
  <2>4. CASE cio = "command"
    <3>1. begun = dispatched + 1 /\ (sopen => ToServer = <<>> /\ ~unanswered)
      BY <2>4, Zenon DEF JointInv, CommandsInv, FitInv, ToServerInv
    <3>2. sopen => AllKinds(ToServer, {"Command", "Fragment"}) /\ Len(ToServer) = 0
      BY <3>1, EmptyKinds
    <3>3. ToServerInv'
      <4>1. sopen => AllKinds(ToServer', {"Command", "Fragment"}) /\ Len(ToServer') <= 1
        BY <2>1, <2>2, <2>3, <2>4, <3>2
      <4> QED BY <1>1, <1>2, <3>1, <4>1, SMTT(30) DEF FitInv, ToServerInv, Ends
    <3>4. BytesInv'
      BY <1>1, <3>1 DEF BytesInv
    <3> QED BY <1>3, <3>3, <3>4, Zenon DEF FitInv
  <2>5. CASE cio # "command"
    <3>1. /\ begun # dispatched + 1
          /\ sopen => unanswered /\ AllKinds(ToServer, {"Data"})
      BY <2>1, <2>5, Zenon DEF FitInv, ToClientInv, TurnInv
    <3>2. ToServerInv'
      <4>1. sopen => AllKinds(ToServer, {"Data", "End", "Can", "Fragment"})
        BY <3>1, MoreKinds, Zenon
      <4> QED BY <1>1, <1>2, <2>1, <2>3, <2>5, <3>1, <4>1 DEF ToServerInv
    <3>3. BytesInv'
      <4> SUFFICES ASSUME sopen, sinquiry, unanswered
                   PROVE  Counted(Append(ToServer, l), received, Delivered', Counting')
        BY <1>1, <2>2 DEF BytesInv
      <4>1. Counted(ToServer, received, Delivered, TRUE)
        BY <2>1, <2>5, CountedWeaker, Zenon DEF FitInv, BytesInv, Counting
      <4>2. Delivered \in Nat
        BY Zenon DEF Ends
      <4> QED BY <1>2, <1>5, <2>1, <2>2, <4>1, <4>2, CountedAppend, Zenon
    <3> QED BY <1>3, <3>2, <3>3, Zenon DEF FitInv
  <2> QED BY <2>4, <2>5, Zenon
<1>6. CASE cio \in C!Writing /\ c2s' \in Interrupted(c2s, C2SCap, C!Output)
  <2>1. /\ C!Output \in ClientLine
        /\ [C!Output EXCEPT !.kind = "Fragment"] \in ClientLine
        /\ [C!Output EXCEPT !.kind = "Fragment"].kind = "Fragment"
    BY <1>6, OutputKinds, Zenon DEF ClientLine
  <2>2. \/ c2s' = c2s
        \/ c2s' = Append(c2s, C!Output)
        \/ c2s' = Append(c2s, [C!Output EXCEPT !.kind = "Fragment"])
    BY <1>6, Zenon DEF Interrupted
  <2> QED BY <1>4, <1>5, <1>6, <2>1, <2>2, Zenon
<1> QED BY <1>4, <1>6, Zenon DEF Dies

\* A command is begun: nothing is on its way in either direction.
LEMMA IssuesFits ==
    ASSUME Ends, JointInv, FitInv, Issues, UNCHANGED <<serverOnly, sopen>>
    PROVE  FitInv'
<1>1. /\ UNCHANGED <<at, dispatched, sahead, sio, sinquiry, outcome, received>>
      /\ UNCHANGED <<unanswered, sopen>>
  BY ServerStill, Zenon
<1>2. Live /\ ToClient = <<>> /\ at \notin Sending /\ begun = dispatched
  BY Zenon DEF Issues, JointInv, ResponsesInv
<1>3. sopen => ~unanswered /\ ToServer = <<>>
  BY <1>2, Zenon DEF Issues, FitInv, TurnInv, ToServerInv
<1>4. Receives(cahead, cpartial, s2c) = {}
  BY <1>2, ClientReceives, Zenon
<1>5. UNCHANGED <<s2c, cahead, cpartial, c2s>> /\ begun' = begun + 1 /\ begun \in Nat
  BY <1>4, Zenon DEF Issues, Ends
<1>6. ToClient' = <<>> /\ ToServer' = ToServer
  BY <1>1, <1>2, <1>5, Zenon DEF ToClient, ToServer
<1>7. ToServerInv'
  BY <1>1, <1>2, <1>3, <1>5, <1>6, EmptyKinds DEF ToServerInv
<1>8. Live' => cmachine'.state = "Command" /\ cio' = "command"
  BY Zenon DEF Issues
<1>9. ToClientInv'
  BY <1>1, <1>5, <1>6, <1>8, EmptyKinds, Zenon DEF ToClientInv
<1>10. TurnInv'
  BY <1>1, <1>2, <1>3, <1>5, <1>6, <1>8, EmptyKinds, NamedKinds DEF TurnInv
<1>11. BytesInv' /\ WholeInv'
  BY <1>1, <1>2, <1>3, <1>5 DEF FitInv, BytesInv, WholeInv
<1> QED BY <1>7, <1>9, <1>10, <1>11, Zenon DEF FitInv

\* The command goes out.
LEMMA WritesFits ==
    ASSUME Ends, JointInv, FitInv, Writes, UNCHANGED <<serverOnly, sopen>>
    PROVE  FitInv'
<1>1. /\ UNCHANGED <<at, dispatched, sahead, sio, sinquiry, outcome, received>>
      /\ UNCHANGED <<unanswered, sopen>>
  BY ServerStill, Zenon
<1>2. /\ Live /\ Live' /\ cio = "command" /\ cio' \notin {"command", "drain"}
      /\ c2s' = Append(c2s, C!Output)
      /\ UNCHANGED <<begun, s2c, cahead, cmachine>>
  BY Zenon DEF Writes
<1>3. /\ begun = dispatched + 1 /\ cmachine.state = "Command" /\ ToClient = <<>>
      /\ begun \in Nat /\ dispatched \in Nat
      /\ sopen => ToServer = <<>> /\ ~unanswered
  BY <1>2, Zenon DEF JointInv, CommandsInv, ResponsesInv, FitInv, ToServerInv, ToClientInv, Ends
<1>4. C!Output \in ClientLine /\ C!Output.kind = "Command"
  BY <1>2, OutputFields, Zenon DEF Ends, C!Writing
<1>5. /\ ToClient' = <<>>
      /\ ToServer' = Append(ToServer, C!Output) /\ ToServer \in Seq(ClientLine)
      /\ Len(ToServer') = Len(ToServer) + 1
  <2>1. ToServer' = Joined(sahead, Append(c2s, C!Output)) /\ ToServer = Joined(sahead, c2s)
    BY <1>1, <1>2, Zenon DEF ToServer, Joined
  <2>2. ToClient' = ToClient
    BY <1>2, Zenon DEF ToClient
  <2>3. ToServer' = Append(ToServer, C!Output) /\ ToServer \in Seq(ClientLine)
    BY <1>4, <2>1, AppendLast, Types, SMTT(30) DEF Ends
  <2> QED BY <1>3, <1>4, <2>2, <2>3
<1>6. /\ \A K : AllKinds(ToServer', K) <=> AllKinds(ToServer, K) /\ C!Output.kind \in K
      /\ \A K : Has(ToServer', K) <=> Has(ToServer, K) \/ C!Output.kind \in K
  BY <1>4, <1>5, AppendKinds, Zenon
<1>7. sopen => /\ AllKinds(ToServer, {"Command", "Fragment"}) /\ Len(ToServer) = 0
               /\ ~Has(ToServer, {"End"})
  BY <1>3, EmptyKinds
<1>8. ToServerInv'
  BY <1>1, <1>2, <1>3, <1>4, <1>5, <1>6, <1>7, SMTT(30) DEF FitInv, ToServerInv
<1>9. ToClientInv'
  BY <1>1, <1>2, <1>3, <1>5, EmptyKinds, Zenon DEF ToClientInv
<1>10. TurnInv'
  BY <1>1, <1>2, <1>3, <1>4, <1>5, <1>6, <1>7, EmptyKinds, NamedKinds, SMTT(30) DEF TurnInv
<1>11. BytesInv' /\ WholeInv'
  BY <1>1, <1>2, <1>3 DEF FitInv, BytesInv, WholeInv
<1> QED BY <1>8, <1>9, <1>10, <1>11, Zenon DEF FitInv

\* The client takes a line: a final response ends the operation, an INQUIRE
\* hands the turn to the client, any other line changes nothing.
LEMMA TakesFits ==
    ASSUME Ends, JointInv, FitInv, Takes, UNCHANGED <<serverOnly, sopen>>
    PROVE  FitInv'
<1>1. /\ UNCHANGED <<at, dispatched, sahead, sio, sinquiry, outcome, received>>
      /\ UNCHANGED <<unanswered, sopen>>
      /\ Asks' <=> Asks
  BY ServerStill, Zenon
<1>2. /\ Live /\ Live' /\ UNCHANGED <<begun, c2s>>
      /\ cio \in C!Reading /\ cio' # "command"
      /\ cio' = "drain" => cio = "drain"
  BY Zenon DEF Takes
<1>3. PICK r \in Receives(cahead, cpartial, s2c) :
          /\ s2c' = r.wire /\ cahead' = r.ahead /\ cpartial' = r.partial
          /\ \/ /\ IsFinal(r.line)
                /\ cmachine.state # "Ready" /\ cmachine'.state = "Ready"
                /\ cfinals' = cfinals + 1
             \/ /\ r.line.kind = "Inquire"
                /\ cmachine.state \in {"Greeting", "Command"}
                /\ cmachine' = [state |-> "Inquiry", origin |-> cmachine.state]
                /\ Delivered' = 0
                /\ cfinals' = cfinals
             \/ /\ r.line.kind \notin {"Ok", "Err", "Inquire"}
                /\ UNCHANGED <<cmachine, cfinals>>
  BY Zenon DEF Takes
<1>4. ToClient # <<>> /\ r.line = ToClient[1] /\ Rest(r) = Tail(ToClient)
  BY ClientReceives, Zenon
<1>5. ToClient' = Tail(ToClient) /\ ToServer' = ToServer /\ ToClient \in Seq(ServerLine)
  BY <1>1, <1>2, <1>3, <1>4, Types, Zenon DEF Rest, ToClient, ToServer
<1>6. /\ \A K : AllKinds(ToClient, K) <=> r.line.kind \in K /\ AllKinds(ToClient', K)
      /\ \A K : Has(ToClient, K) <=> r.line.kind \in K \/ Has(ToClient', K)
      /\ AskedLast(ToClient')
      /\ r.line.kind = "Inquire" => AllKinds(ToClient', {"Status", "Fragment"})
  BY <1>2, <1>4, <1>5, TailKinds, Zenon DEF FitInv, ToClientInv
<1>7. begun # dispatched + 1 /\ cmachine.state \in {"Greeting", "Command", "AwaitFinal"}
  BY <1>2, <1>4, Zenon
  DEF JointInv, ResponsesInv, FitInv, ToClientInv, Ends, ClientParked, C!Reading
<1>8. ToServerInv'
  BY <1>1, <1>2, <1>5, <1>7, SMTT(30) DEF FitInv, ToServerInv
<1>9. WholeInv'
  <2>1. Whole(r.ahead)
    BY <1>2, ReceivesWhole, Zenon DEF FitInv, WholeInv, Ends
  <2> QED BY <1>1, <1>3, <2>1 DEF FitInv, WholeInv
<1>10. /\ AllKinds(ToClient', {"Status", "Data", "Comment", "Inquire", "Ok", "Err", "Fragment"})
       /\ begun = 0 => ~Has(ToClient', {"Data"})
       /\ cio' # "drain"
  BY <1>2, <1>6, Zenon DEF FitInv, ToClientInv
<1>11. CASE IsFinal(r.line)
  <2>1. cmachine'.state = "Ready"
    BY <1>3, <1>11, Zenon DEF IsFinal
  <2>2. HasFinal(ToClient) /\ ToClient' = <<>>
    BY <1>2, <1>4, <1>5, <1>11, TakenResponse, Zenon DEF JointInv, ResponsesInv
  <2>3. sopen => ~unanswered
    BY <1>2, <2>2, Zenon DEF FitInv, TurnInv
  <2>4. ToClientInv'
    BY <1>1, <1>2, <1>6, <1>7, <1>10, <2>1, Zenon DEF ToClientInv
  <2>5. TurnInv'
    BY <1>1, <1>2, <1>7, <2>1, <2>2, <2>3, EmptyKinds DEF TurnInv
  <2>6. BytesInv'
    BY <1>1, <2>3 DEF BytesInv
  <2> QED BY <1>8, <1>9, <2>4, <2>5, <2>6, Zenon DEF FitInv
<1>12. CASE r.line.kind = "Inquire"
  <2>1. /\ cmachine.state \in {"Greeting", "Command"}
        /\ cmachine'.state = "Inquiry" /\ cmachine'.origin = cmachine.state
        /\ Delivered' = 0
    BY <1>3, <1>12 DEF IsFinal
  <2>2. ~Has(ToClient', {"Inquire"}) /\ ~HasFinal(ToClient') /\ ~HasFinal(ToClient)
    <3>1. AllKinds(ToClient', {"Status", "Fragment"})
      BY <1>6, <1>12, Zenon
    <3>2. ~Has(ToClient', {"Inquire"}) /\ ~Has(ToClient', {"Ok", "Err"})
      BY <3>1, NoneHas
    <3>3. ~Has(ToClient, {"Ok", "Err"})
      BY <1>6, <1>12, <3>2, Zenon
    <3> QED BY <3>2, <3>3, NamedKinds, Zenon
  <2>3. sopen => /\ unanswered /\ ToServer = <<>>
                 /\ sinquiry => received = 0
    BY <1>2, <1>6, <1>12, Zenon DEF FitInv, TurnInv
  <2>4. ToClientInv'
    BY <1>1, <1>2, <1>6, <1>7, <1>10, <1>12, <2>1, Zenon DEF FitInv, ToClientInv
  <2>5. TurnInv'
    BY <1>1, <1>2, <1>5, <1>7, <2>1, <2>2, <2>3, EmptyKinds, SMTT(30) DEF FitInv, TurnInv
  <2>6. BytesInv'
    BY <1>1, <1>5, <2>1, <2>3, CountedEmpty DEF BytesInv
  <2> QED BY <1>8, <1>9, <2>4, <2>5, <2>6, Zenon DEF FitInv
<1>13. CASE r.line.kind \notin {"Ok", "Err", "Inquire"}
  <2>1. cmachine' = cmachine
    BY <1>3, <1>13, Zenon DEF IsFinal
  <2>2. /\ Has(ToClient', {"Inquire"}) <=> Has(ToClient, {"Inquire"})
        /\ HasFinal(ToClient') <=> HasFinal(ToClient)
        /\ Has(ToClient', {"Data", "Inquire"}) => Has(ToClient, {"Data", "Inquire"})
    BY <1>6, <1>13, NamedKinds, Zenon
  <2>3. ToClientInv'
    BY <1>1, <1>2, <1>6, <1>7, <1>10, <2>1, <2>2, Zenon DEF FitInv, ToClientInv
  <2>4. TurnInv'
    BY <1>1, <1>2, <1>5, <1>7, <2>1, <2>2, SMTT(30) DEF FitInv, TurnInv
  <2>5. BytesInv'
    <3>1. ~Counting'
      BY <1>7, <2>1, Zenon DEF Counting
    <3> QED BY <1>1, <1>5, <3>1, CountedWeaker DEF FitInv, BytesInv
  <2> QED BY <1>8, <1>9, <2>3, <2>4, <2>5, Zenon DEF FitInv
<1> QED BY <1>3, <1>11, <1>12, <1>13, Zenon

\* A step of the client keeps what fits.
LEMMA ClientFits ==
    ASSUME Ends, Ends', JointInv, FitInv, ClientEffect, UNCHANGED <<serverOnly, sopen>>
    PROVE  FitInv'
BY IdlesFits, AnswersFits, DiesFits, IssuesFits, WritesFits, TakesFits, Zenon DEF ClientEffect

\* What a step of the server leaves alone.
LEMMA ClientStill ==
    ASSUME UNCHANGED clientOnly
    PROVE  /\ UNCHANGED <<begun, cahead, cio, cmachine, cinquiry, Delivered>>
           /\ (Live' <=> Live) /\ (Counting' <=> Counting)
BY Zenon DEF clientOnly, Live, Delivered, Counting

\* The server waits: nothing moves.
LEMMA WaitsFits ==
    ASSUME Ends, FitInv, Waits, UNCHANGED clientOnly
    PROVE  FitInv'
<1>1. /\ UNCHANGED <<begun, cahead, cio, cmachine, cinquiry, Delivered>>
      /\ (Live' <=> Live) /\ (Counting' <=> Counting)
  BY ClientStill, Zenon
<1>2. /\ sopen /\ sopen'
      /\ UNCHANGED <<c2s, s2c, sahead, dispatched, unanswered>>
      /\ at' \in Sending <=> at \in Sending
      /\ Asks' => Asks \/ outcome = "End"
      /\ outcome' \in {outcome, "none"}
      /\ sinquiry' => sinquiry /\ received' = received
  BY Zenon DEF Waits, GuardKept
<1>3. ToClient' = ToClient /\ ToServer' = ToServer
  BY <1>1, <1>2, Zenon DEF ToClient, ToServer
<1>4. ToServerInv'
  BY <1>1, <1>2, <1>3, Zenon DEF FitInv, ToServerInv
<1>5. ToClientInv'
  BY <1>1, <1>2, <1>3, Zenon DEF FitInv, ToClientInv
<1>6. TurnInv'
  BY <1>1, <1>2, <1>3, Zenon DEF FitInv, TurnInv
<1>7. BytesInv'
  BY <1>1, <1>2, <1>3, CountedWeaker, Zenon DEF FitInv, BytesInv
<1>8. WholeInv'
  BY <1>1, <1>2, Zenon DEF FitInv, WholeInv
<1> QED BY <1>4, <1>5, <1>6, <1>7, <1>8, Zenon DEF FitInv

\* What the server sends fits the phase of a live client.
LEMMA SendsFits ==
    ASSUME Ends, JointInv, FitInv, UNCHANGED <<clientOnly, dispatched>>,
           NEW line \in ServerLine, Sends(line)
    PROVE  /\ ToClientInv'
           /\ ToClient' = Append(ToClient, line) /\ ToClient \in Seq(ServerLine)
           /\ Live => /\ begun = dispatched /\ cmachine.state # "Ready" /\ ~HasFinal(ToClient)
                      /\ line.kind \notin {"Status", "Fragment"} =>
                            ~unanswered /\ ~Has(ToClient, {"Inquire"})
                            /\ cmachine.state # "Inquiry"
<1>1. /\ UNCHANGED <<begun, cahead, cio, cmachine, cinquiry, Delivered>>
      /\ (Live' <=> Live) /\ (Counting' <=> Counting)
  BY ClientStill, Zenon
<1>2. /\ s2c' = Append(s2c, line)
      /\ at \in Sending /\ sopen
      /\ IsFinal(line) => at = "final"
      /\ line.kind = "Inquire" => sio = "Inquire"
      /\ line.kind \in {"Data", "Comment"} => smachine.state = "Handler"
      /\ line.kind \in {"Ok", "Err", "Inquire", "Data", "Comment", "Status", "Fragment"}
  BY Zenon DEF Sends
<1>3. ToClient' = Append(ToClient, line) /\ ToClient \in Seq(ServerLine)
  <2>1. ToClient' = Joined(cahead, Append(s2c, line)) /\ ToClient = Joined(cahead, s2c)
    BY <1>1, <1>2, Zenon DEF ToClient, Joined
  <2> QED BY <2>1, AppendLast, Types, SMTT(30) DEF Ends
<1>4. Live => begun = dispatched /\ cmachine.state # "Ready" /\ ~HasFinal(ToClient)
  BY <1>2, SMTT(30) DEF JointInv, ResponsesInv, CommandsInv, Ends
<1>5. line.kind \notin {"Status", "Fragment"} => ~unanswered
  BY <1>2, Zenon DEF Ends, ServerParked, IsFinal
<1>6. Live /\ line.kind \notin {"Status", "Fragment"} =>
         ~Has(ToClient, {"Inquire"}) /\ cmachine.state # "Inquiry"
  BY <1>2, <1>5, Zenon DEF FitInv, TurnInv
<1>7. /\ \A K : AllKinds(ToClient', K) <=> AllKinds(ToClient, K) /\ line.kind \in K
      /\ \A K : Has(ToClient', K) <=> Has(ToClient, K) \/ line.kind \in K
      /\ /\ AskedLast(ToClient)
         /\ Has(ToClient, {"Inquire"}) => line.kind \in {"Status", "Fragment"}
         => AskedLast(ToClient')
  BY <1>3, AppendKinds, Zenon
<1>8. /\ line.kind = "Data" => dispatched > 0
      /\ Live /\ line.kind \in {"Data", "Inquire"} => cmachine.state # "AwaitFinal"
  BY <1>2, Zenon DEF Ends, ServerParked, FitInv, TurnInv, Asks
<1>9. ToClientInv'
  <2> SUFFICES ASSUME Live
               PROVE  ToClientInv'
    BY <1>1, Zenon DEF ToClientInv
  <2>1. /\ AllKinds(ToClient', {"Status", "Data", "Comment", "Inquire", "Ok", "Err", "Fragment"})
        /\ AskedLast(ToClient')
    BY <1>2, <1>6, <1>7, Zenon DEF FitInv, ToClientInv
  <2>2. begun = 0 => ~Has(ToClient', {"Data"})
    BY <1>4, <1>7, <1>8, SMTT(30) DEF FitInv, ToClientInv, Ends
  <2>3. cmachine.state = "Inquiry" => AllKinds(ToClient', {"Status", "Fragment"})
    BY <1>6, <1>7, Zenon DEF FitInv, ToClientInv
  <2>4. cmachine.state = "AwaitFinal" => ~Has(ToClient', {"Data", "Inquire"})
    BY <1>7, <1>8, Zenon DEF FitInv, ToClientInv
  <2> QED BY <1>1, <2>1, <2>2, <2>3, <2>4, Zenon DEF FitInv, ToClientInv
<1> QED BY <1>3, <1>4, <1>5, <1>6, <1>9, Zenon

\* The server closes its stream.
LEMMA StopsFits ==
    ASSUME Ends, JointInv, FitInv, Stops, UNCHANGED clientOnly
    PROVE  FitInv'
<1>1. /\ UNCHANGED <<begun, cahead, cio, cmachine, cinquiry, Delivered>>
      /\ (Live' <=> Live) /\ (Counting' <=> Counting)
  BY ClientStill, Zenon
<1>2. ~sopen' /\ dispatched' = dispatched /\ (at' \in Sending => at \in Sending)
  BY Zenon DEF Stops
<1>3. ToServerInv' /\ TurnInv' /\ BytesInv' /\ WholeInv'
  BY <1>1, <1>2, Zenon DEF FitInv, ToServerInv, TurnInv, BytesInv, WholeInv
<1>4. CASE s2c' = s2c
  <2>1. ToClient' = ToClient
    BY <1>1, <1>4, Zenon DEF ToClient
  <2>2. ToClientInv'
    BY <1>1, <1>2, <2>1, Zenon DEF FitInv, ToClientInv
  <2> QED BY <1>3, <2>2, Zenon DEF FitInv
<1>5. ASSUME NEW line \in ServerLine, Sends(line)
      PROVE  FitInv'
  BY <1>2, <1>3, <1>5, SendsFits, Zenon DEF FitInv
<1> QED BY <1>4, <1>5, Zenon DEF Stops

\* The server sends a whole line: an INQUIRE makes it wait for the answer, a
\* final response for the next command.
LEMMA SpeaksFits ==
    ASSUME Ends, JointInv, FitInv, Speaks, UNCHANGED clientOnly
    PROVE  FitInv'
<1>1. /\ UNCHANGED <<begun, cahead, cio, cmachine, cinquiry, Delivered>>
      /\ (Live' <=> Live) /\ (Counting' <=> Counting)
  BY ClientStill, Zenon
<1>2. sopen' /\ UNCHANGED <<c2s, sahead, dispatched>> /\ (Asks' => Asks)
  BY Zenon DEF Speaks
<1>3. PICK line \in ServerLine :
          /\ Sends(line)
          /\ IsFinal(line) \/ at' = at
          /\ IF line.kind = "Inquire"
             THEN unanswered' /\ outcome' = "none" /\ received' = 0
             ELSE UNCHANGED unanswered /\ GuardKept
  BY Zenon DEF Speaks
<1>4. at \in Sending /\ sopen /\ (IsFinal(line) => at = "final" /\ at' \notin Sending)
  BY <1>3, Zenon DEF Sends
<1>5. /\ ToClientInv'
      /\ ToClient' = Append(ToClient, line) /\ ToClient \in Seq(ServerLine)
      /\ Live => /\ begun = dispatched /\ cmachine.state # "Ready" /\ ~HasFinal(ToClient)
                 /\ line.kind \notin {"Status", "Fragment"} =>
                       ~unanswered /\ ~Has(ToClient, {"Inquire"}) /\ cmachine.state # "Inquiry"
  BY <1>2, <1>3, SendsFits, Zenon
<1>6. ToServer' = ToServer /\ begun # dispatched + 1
  BY <1>2, <1>4, Zenon DEF ToServer, FitInv, ToServerInv
<1>7. \A K : Has(ToClient', K) <=> Has(ToClient, K) \/ line.kind \in K
  BY <1>5, AppendKinds, Zenon
<1>8. WholeInv'
  BY <1>1, <1>2, <1>4, Zenon DEF FitInv, WholeInv
<1>9. CASE line.kind = "Inquire"
  <2>1. unanswered' /\ outcome' = "none" /\ received' = 0 /\ ~unanswered
    BY <1>3, <1>9, Zenon DEF Sends, Ends, ServerParked
  <2>2. begun = dispatched /\ ToServer = <<>>
    BY <1>4, <1>6, <2>1, SMTT(30) DEF FitInv, ToServerInv, JointInv, CommandsInv, Ends
  <2>3. ToServerInv'
    BY <1>1, <1>2, <1>6, <2>1, <2>2, EmptyKinds, Zenon DEF ToServerInv
  <2>4. ~HasFinal(ToClient) => ~HasFinal(ToClient')
    BY <1>7, <1>9, NamedKinds, Zenon
  <2>5. Has(ToClient', {"Inquire"})
    BY <1>7, <1>9, Zenon
  <2>6. at' = at
    BY <1>3, <1>9, Zenon DEF IsFinal
  <2>7. TurnInv'
    BY <1>1, <1>2, <1>4, <1>5, <1>6, <1>9, <2>1, <2>2, <2>4, <2>5, <2>6, EmptyKinds, Zenon
    DEF FitInv, TurnInv
  <2>8. BytesInv'
    <3>1. ~Counting'
      BY <1>1, <1>5, <1>9, Zenon DEF Counting
    <3> QED BY <1>6, <2>1, <2>2, <3>1, CountedEmpty, Zenon DEF BytesInv
  <2> QED BY <1>5, <1>8, <2>3, <2>7, <2>8, Zenon DEF FitInv
<1>10. CASE line.kind # "Inquire"
  <2>1. /\ unanswered' = unanswered /\ outcome' \in {outcome, "none"}
        /\ sinquiry' => sinquiry /\ received' = received
    BY <1>3, <1>10, Zenon DEF GuardKept
  <2>2. ToServerInv'
    BY <1>1, <1>2, <1>4, <1>6, <2>1, Zenon DEF FitInv, ToServerInv
  <2>3. Has(ToClient', {"Inquire"}) <=> Has(ToClient, {"Inquire"})
    BY <1>7, <1>10, Zenon
  <2>4. HasFinal(ToClient') <=> HasFinal(ToClient) \/ IsFinal(line)
    BY <1>7, NamedKinds, Zenon DEF IsFinal
  <2>5. IsFinal(line) => ~unanswered
    BY <1>4, Zenon DEF Ends, ServerParked
  <2>6. TurnInv'
    BY <1>1, <1>2, <1>3, <1>4, <1>5, <1>6, <2>1, <2>3, <2>4, <2>5, Zenon DEF FitInv, TurnInv
  <2>7. BytesInv'
    BY <1>1, <1>2, <1>4, <1>6, <2>1, CountedWeaker, Zenon DEF FitInv, BytesInv
  <2> QED BY <1>5, <1>8, <2>2, <2>6, <2>7, Zenon DEF FitInv
<1> QED BY <1>9, <1>10, Zenon

\* What an open server reads besides commands is an answer it has asked for.
LEMMA HearsFits ==
    ASSUME Ends, JointInv, FitInv, Hears, UNCHANGED clientOnly
    PROVE  FitInv'
<1>1. /\ UNCHANGED <<begun, cahead, cio, cmachine, cinquiry, Delivered>>
      /\ (Live' <=> Live) /\ (Counting' <=> Counting)
  BY ClientStill, Zenon
<1>2. /\ sopen /\ sopen' /\ UNCHANGED <<s2c, dispatched, at, sinquiry>> /\ (Asks' => Asks)
  BY Zenon DEF Hears
<1>3. PICK r \in Receives(sahead, spartial, c2s) :
          /\ c2s' = r.wire /\ sahead' = r.ahead
          /\ \/ /\ r.line.kind \in {"Comment", "Empty"}
                /\ UNCHANGED <<unanswered, outcome, received>>
             \/ /\ r.line.kind = "Data"
                /\ received' = received + r.line.len
                /\ UNCHANGED <<unanswered, outcome>>
             \/ /\ r.line.kind \in {"End", "Can"}
                /\ ~unanswered' /\ outcome' = r.line.kind
  BY Zenon DEF Hears
<1>4. ToServer # <<>> /\ r.line = ToServer[1] /\ Rest(r) = Tail(ToServer)
  BY ServerReceives, Zenon
<1>5. ToServer' = Tail(ToServer) /\ ToClient' = ToClient /\ ToServer \in Seq(ClientLine)
  BY <1>1, <1>2, <1>3, <1>4, Types, Zenon DEF Rest, ToClient, ToServer
<1>6. /\ \A K : AllKinds(ToServer, K) <=> r.line.kind \in K /\ AllKinds(ToServer', K)
      /\ \A K : Has(ToServer, K) <=> r.line.kind \in K \/ Has(ToServer', K)
      /\ AnswerLast(ToServer) => AnswerLast(ToServer')
      /\ AnswerLast(ToServer) /\ r.line.kind # "Data" => ToServer' = <<>>
  BY <1>4, <1>5, TailKinds, Zenon
<1>7. begun = dispatched /\ unanswered
  <2>1. begun # dispatched + 1
    BY <1>2, <1>3, <1>6, Zenon DEF FitInv, ToServerInv
  <2>2. begun = dispatched
    BY <2>1 DEF JointInv, CommandsInv, Ends
  <2> QED BY <1>2, <1>4, <2>2, Zenon DEF FitInv, ToServerInv
<1>8. /\ r.line.kind \in {"Data", "End", "Can"}
      /\ AllKinds(ToServer', {"Data", "End", "Can", "Fragment"}) /\ AnswerLast(ToServer')
      /\ r.line.kind # "Data" => ToServer' = <<>>
  BY <1>2, <1>3, <1>6, <1>7, Zenon DEF FitInv, ToServerInv
<1>9. ToServerInv'
  BY <1>1, <1>2, <1>3, <1>7, <1>8, Zenon DEF FitInv, ToServerInv, Ends
<1>10. ToClientInv'
  BY <1>1, <1>2, <1>5, Zenon DEF FitInv, ToClientInv
<1>11. Live => /\ ~Has(ToClient, {"Inquire"}) /\ ~HasFinal(ToClient)
               /\ cmachine.state # "Ready"
               /\ cmachine.state = "Inquiry" =>
                     r.line.kind = "Data" /\ AllKinds(ToServer', {"Data"})
  BY <1>2, <1>4, <1>6, <1>7, Zenon DEF FitInv, TurnInv
<1>12. TurnInv'
  <2>1. /\ r.line.kind = "Data" => UNCHANGED <<unanswered, outcome>>
        /\ r.line.kind # "Data" => ~unanswered' /\ outcome' = r.line.kind
    BY <1>3, <1>8, Zenon
  <2>2. /\ Has(ToServer', {"End"}) => Has(ToServer, {"End"})
        /\ r.line.kind = "End" => Has(ToServer, {"End"})
        /\ r.line.kind = "Data" =>
              (Has(ToServer, {"End", "Can"}) => Has(ToServer', {"End", "Can"}))
    BY <1>6, Zenon
  <2> SUFFICES ASSUME Live
               PROVE  TurnInv'
    BY <1>1, Zenon DEF TurnInv
  <2>3. cmachine.state = "Inquiry" => unanswered' /\ AllKinds(ToServer', {"Data"})
    BY <1>7, <1>11, <2>1, Zenon
  <2>4. outcome' = "End" \/ Has(ToServer', {"End"}) \/ Asks' => cmachine.state # "AwaitFinal"
    BY <1>2, <1>8, <2>1, <2>2, Zenon DEF FitInv, TurnInv
  <2>5. begun = dispatched /\ at \notin Sending => FALSE
    BY <1>2, <1>11, Zenon DEF FitInv, TurnInv
  <2>6. unanswered' => cmachine.state = "Inquiry" \/ Has(ToServer', {"End", "Can"})
    BY <1>2, <1>7, <1>11, <2>1, <2>2, Zenon DEF FitInv, TurnInv
  <2>7. begun # dispatched + 1
    BY <1>7 DEF Ends
  <2> QED BY <1>1, <1>2, <1>5, <1>11, <2>3, <2>4, <2>5, <2>6, <2>7, Zenon DEF TurnInv
<1>13. BytesInv'
  <2> SUFFICES ASSUME sinquiry, unanswered'
               PROVE  Counted(ToServer', received', Delivered', Counting')
    BY <1>2, Zenon DEF BytesInv
  <2>1. r.line.kind = "Data" /\ received' = received + r.line.len
    BY <1>3, <1>8, Zenon
  <2>2. Counted(ToServer, received, Delivered, Counting)
    BY <1>2, <1>7, Zenon DEF FitInv, BytesInv
  <2>3. Counted(Tail(ToServer), received + r.line.len, Delivered, Counting)
    BY <1>4, <1>5, <2>1, <2>2, CountedTail, Zenon
  <2>4. Counted(ToServer', received', Delivered, Counting)
    BY <1>5, <2>1, <2>3, Zenon
  <2> QED BY <1>1, <2>4, CountedWeaker, Zenon
<1>14. WholeInv'
  <2>1. Whole(r.ahead)
    BY <1>2, ReceivesWhole, Zenon DEF FitInv, WholeInv, Ends
  <2> QED BY <1>1, <1>3, <2>1, Zenon DEF FitInv, WholeInv
<1> QED BY <1>9, <1>10, <1>12, <1>13, <1>14, Zenon DEF FitInv

\* The server takes the only line on its way to it.
LEMMA DispatchesFits ==
    ASSUME Ends, JointInv, FitInv, Dispatches, UNCHANGED clientOnly
    PROVE  FitInv'
<1>1. /\ UNCHANGED <<begun, cahead, cio, cmachine, cinquiry, Delivered>>
      /\ (Live' <=> Live) /\ (Counting' <=> Counting)
  BY ClientStill, Zenon
<1>2. /\ sopen /\ sopen' /\ at \notin Sending /\ at' \in Sending
      /\ dispatched' = dispatched + 1
      /\ UNCHANGED <<s2c, unanswered, outcome, sinquiry, received>>
  BY Zenon DEF Dispatches
<1>3. PICK r \in Receives(sahead, spartial, c2s) :
          r.line.kind = "Command" /\ c2s' = r.wire /\ sahead' = r.ahead
  BY Zenon DEF Dispatches
<1>4. ToServer # <<>> /\ r.line = ToServer[1] /\ Rest(r) = Tail(ToServer)
  BY ServerReceives, Zenon
<1>5. ToServer' = Tail(ToServer) /\ ToClient' = ToClient /\ ToServer \in Seq(ClientLine)
  BY <1>1, <1>2, <1>3, <1>4, Types, Zenon DEF Rest, ToClient, ToServer
<1>6. Pending(ToServer)
  <2>1. 1 \in 1..Len(ToServer)
    BY <1>4, <1>5
  <2> QED BY <1>3, <1>4, <2>1, Zenon DEF Pending
<1>7. begun = dispatched + 1 /\ ~unanswered /\ Len(ToServer) <= 1
  BY <1>2, <1>6, Zenon DEF JointInv, CommandsInv, FitInv, ToServerInv
<1>8. ToServer' = <<>>
  <2>1. Tail(ToServer) \in Seq(ClientLine) /\ Len(Tail(ToServer)) = Len(ToServer) - 1
        /\ Len(ToServer) \in Nat
    BY <1>4, <1>5, HeadTailProperties
  <2>2. Len(Tail(ToServer)) = 0
    BY <1>7, <2>1, LenProperties
  <2> QED BY <1>5, <2>1, <2>2, EmptySeq, Zenon
<1>9. Live => ToClient = <<>> /\ cmachine.state = "Command"
  BY <1>7, Zenon DEF JointInv, ResponsesInv, FitInv, ToClientInv
<1>10. ToServerInv'
  BY <1>1, <1>2, <1>7, <1>8, SMTT(30) DEF ToServerInv, Ends
<1>11. ToClientInv'
  BY <1>1, <1>2, <1>5, <1>7, <1>9, Zenon DEF FitInv, ToClientInv, Ends
<1>12. TurnInv'
  <2>1. ASSUME Live
        PROVE  /\ cmachine'.state = "Command" /\ ~unanswered'
               /\ ToServer' = <<>> /\ ToClient' = <<>>
               /\ begun' # dispatched' + 1 /\ at' \in Sending
    BY <1>1, <1>2, <1>5, <1>7, <1>8, <1>9, <2>1 DEF Ends
  <2>2. ~HasFinal(<<>>) /\ \A K : ~Has(<<>>, K)
    BY EmptyKinds, NamedKinds, Zenon
  <2> QED BY <1>1, <2>1, <2>2, Zenon DEF TurnInv
<1>13. BytesInv'
  BY <1>2, <1>7, Zenon DEF BytesInv
<1>14. WholeInv'
  <2>1. Whole(r.ahead)
    BY <1>2, ReceivesWhole, Zenon DEF FitInv, WholeInv, Ends
  <2> QED BY <1>1, <1>3, <2>1, Zenon DEF FitInv, WholeInv
<1> QED BY <1>10, <1>11, <1>12, <1>13, <1>14, Zenon DEF FitInv

\* A step of the server keeps what fits.
LEMMA ServerFits ==
    ASSUME Ends, JointInv, FitInv, ServerEffect, UNCHANGED clientOnly
    PROVE  FitInv'
BY WaitsFits, StopsFits, SpeaksFits, HearsFits, DispatchesFits, Zenon DEF ServerEffect

-----------------------------------------------------------------------------
(* What the invariant says *)

\* A line that can be returned without waiting is whole.
LEMMA ArrivedWhole ==
    ASSUME NEW L, NEW a \in Seq(L), NEW w \in Seq(L), Whole(a), Arrived(a, w)
    PROVE  a \o w # <<>> /\ 1 \in 1..Len(a \o w) /\ (a \o w)[1].kind # "Fragment"
<1>1. CASE a # <<>>
  <2>1. 1 \in 1..Len(a) /\ (a \o w)[1] = a[1] /\ a \o w # <<>>
    BY <1>1
  <2> QED BY <2>1, SMTT(30) DEF Whole
<1>2. CASE a = <<>>
  <2>1. w # <<>> /\ Complete(w, 1) /\ a \o w = w
    BY <1>2 DEF Arrived
  <2>2. 1 \in 1..Len(w) /\ w[1].kind # "Fragment"
    BY <2>1 DEF Complete
  <2> QED BY <2>1, <2>2, Zenon
<1> QED BY <1>1, <1>2, Zenon

\* No end is sent a line it must refuse.
LEMMA UnexpectedNever ==
    ASSUME Ends, JointInv, FitInv
    PROVE  NoUnexpectedLine
<1>1. /\ cahead \in Seq(ServerLine) /\ s2c \in Seq(ServerLine)
      /\ sahead \in Seq(ClientLine) /\ c2s \in Seq(ClientLine)
  BY Zenon DEF Ends
<1>2. ASSUME cio \in C!Reading, Arrived(cahead, s2c)
      PROVE  C!CM!Receive(cmachine, ToClient[1].kind).err \in {"none", "GreetingRejected"}
  <2> DEFINE k == ToClient[1].kind
  <2>1. Live /\ cmachine.state \in {"Greeting", "Command", "AwaitFinal"}
    BY <1>2, Zenon DEF Ends, ClientParked, FitInv, ToClientInv, C!Reading
  <2>2. 1 \in 1..Len(ToClient) /\ k # "Fragment"
    BY <1>1, <1>2, <2>1, ArrivedWhole, Zenon DEF ToClient, FitInv, WholeInv
  <2>3. k \in {"Status", "Data", "Comment", "Inquire", "Ok", "Err"}
    BY <2>1, <2>2, Zenon DEF FitInv, ToClientInv, AllKinds
  <2>4. cmachine.state = "Greeting" => k # "Data"
    BY <2>1, <2>2, Zenon DEF FitInv, ToClientInv, Has
  <2>5. cmachine.state = "AwaitFinal" => k \notin {"Data", "Inquire"}
    BY <2>1, <2>2, Zenon DEF FitInv, ToClientInv, Has
  <2> HIDE DEF k
  <2>6. C!CM!Receive(cmachine, k).err \in {"none", "GreetingRejected"}
    BY <2>1, <2>3, <2>4, <2>5, Zenon
    DEF C!CM!Receive, C!CM!Terminal, C!CM!Ignored, C!CM!Keeps, C!CM!Goes, C!CM!Rejects,
        C!CM!StartsInquiry, C!CM!FinalAfterCancel
  <2> QED BY <2>6, Zenon DEF k
<1>3. ASSUME at = "idle" \/ sio = "next", Arrived(sahead, c2s)
      PROVE  /\ sopen /\ ToServer # <<>> /\ 1 \in 1..Len(ToServer)
             /\ ToServer[1].kind # "Fragment"
  BY <1>1, <1>3, ArrivedWhole, Zenon DEF ToServer, FitInv, WholeInv, Ends, ServerParked
<1>4. ASSUME at = "idle", Arrived(sahead, c2s)
      PROVE  ToServer[1].kind = "Command"
  <2>1. begun # dispatched
    BY <1>3, <1>4, Zenon DEF Ends, ServerParked, FitInv, ToServerInv
  <2>2. begun = dispatched + 1
    BY <2>1 DEF JointInv, CommandsInv, Ends
  <2> QED BY <1>3, <1>4, <2>2, Zenon DEF FitInv, ToServerInv, AllKinds
<1>5. ASSUME sio = "next", Arrived(sahead, c2s)
      PROVE  ToServer[1].kind \in {"Data", "End", "Can"}
  BY <1>3, <1>5, Zenon DEF Ends, ServerParked, FitInv, ToServerInv, AllKinds
<1> QED BY <1>2, <1>4, <1>5, Zenon DEF NoUnexpectedLine

\* The ends never wait for each other.
LEMMA MutualNever ==
    ASSUME Ends, JointInv, FitInv
    PROVE  NoMutualWait
<1>1. ASSUME sopen, cio \in C!Reading, ServerReading, ToClient = <<>>, ToServer = <<>>
      PROVE  FALSE
  <2>1. /\ Live /\ cmachine.state \in {"Greeting", "Command", "AwaitFinal"}
        /\ cio # "command"
    BY <1>1, Zenon DEF Ends, ClientParked, FitInv, ToClientInv, C!Reading
  <2>2. begun = dispatched
    BY <1>1, <2>1, EmptyKinds, NamedKinds, SMTT(30) DEF FitInv, TurnInv, JointInv, CommandsInv, Ends
  <2>3. ~Has(ToClient, {"Inquire"}) /\ ~Has(ToServer, {"End", "Can"}) /\ ~HasFinal(ToClient)
    BY <1>1, EmptyKinds, NamedKinds, Zenon
  <2>4. CASE at = "idle"
    BY <1>1, <2>1, <2>2, <2>3, <2>4, Zenon DEF FitInv, TurnInv, Sending, S!Application
  <2>5. CASE sio = "next"
    BY <1>1, <2>1, <2>3, <2>5, Zenon DEF FitInv, TurnInv, Ends, ServerParked
  <2> QED BY <1>1, <2>4, <2>5, Zenon DEF ServerReading
<1>2. ASSUME sopen, cio \in C!Writing, ServerWriting
      PROVE  unanswered
  <2>1. at \in Sending
    BY <1>2, Zenon DEF ServerWriting, S!Writing, Ends, ServerParked, Sending
  <2>2. cio # "command"
    BY <2>1, Zenon DEF FitInv, ToServerInv, JointInv, CommandsInv
  <2>3. Live /\ cmachine.state = "Inquiry"
    BY <1>2, <2>2, Zenon DEF Ends, ClientParked, C!Writing
  <2> QED BY <1>2, <2>3, Zenon DEF FitInv, TurnInv
<1> QED BY <1>1, <1>2, Zenon DEF NoMutualWait

\* An answered inquiry has delivered every byte.
LEMMA BytesDelivered ==
    ASSUME Ends, FitInv
    PROVE  InquiryBytesArrive
<1> SUFFICES ASSUME sio = "next", Arrived(sahead, c2s), ToServer[1].kind = "End"
             PROVE  ToServer[1].len = received
  BY Zenon DEF InquiryBytesArrive
<1>1. sopen /\ unanswered /\ sinquiry /\ sahead \in Seq(ClientLine) /\ c2s \in Seq(ClientLine)
  BY Zenon DEF Ends, ServerParked
<1>2. ToServer # <<>> /\ ToServer \in Seq(ClientLine)
  BY <1>1, ArrivedWhole, Types, Zenon DEF ToServer, FitInv, WholeInv
<1>3. Counted(ToServer, received, Delivered, Counting)
  BY <1>1, Zenon DEF FitInv, BytesInv
<1> QED BY <1>2, <1>3, CountedFirst, Zenon
=============================================================================
