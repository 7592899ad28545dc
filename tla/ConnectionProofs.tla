-------------------------- MODULE ConnectionProofs ---------------------------
(***************************************************************************)
(* Proofs about a connection's way into the program: how the server's loop *)
(* accepts it (Serve), for any set of connections and any number of        *)
(* permits; how lines are read from its stream (Framing), for every line   *)
(* limit, however long the source; and how a payload of any length travels *)
(* in them (DataLines).                                                    *)
(***************************************************************************)
EXTENDS Serve, Framing, DataLines, SequenceTheorems, FiniteSetTheorems, WellFoundedInduction,
        TLAPS

-----------------------------------------------------------------------------
(* The accept loop *)

\* The types that do not depend on the permits being conserved.
WeakTypeOK ==
    /\ phase \in InLoop \cup {"drain", "abort", "returned", "dropped"}
    /\ permits \in Nat
    /\ permit \in BOOLEAN
    /\ shutdown \in BOOLEAN
    /\ returned \in {"none", "Ok", "Err"}
    /\ task \in [Conn -> TaskState]
    /\ aborting \subseteq Conn

(***************************************************************************)
(* PermitsConserved alone is not inductive: Accept gives up the loop's     *)
(* permit, so it must hold one, which is a fact about the phase.           *)
(***************************************************************************)
IInv ==
    /\ WeakTypeOK
    /\ PermitsConserved
    /\ phase = "accept" <=> permit
    /\ phase = "returned" => InSet = {}
    /\ phase \in {"drain", "abort", "returned"} => returned # "none"

-----------------------------------------------------------------------------
(* Counting live sessions *)

\* Finitely many sessions are live at any time.
LEMMA SessionsFinite == IsFiniteSet(Sessions) /\ Cardinality(Sessions) \in Nat
<1>1. Sessions \in SUBSET Conn
  BY DEF Sessions
<1>2. IsFiniteSet(Sessions)
  BY <1>1, FS_Subset, ServeAssumption
<1> QED BY <1>2, FS_CardinalityType

\* A task that starts counts once more, one whose future goes once less.
LEMMA SessionStarts ==
    ASSUME task \in [Conn -> TaskState], NEW c \in Conn, task[c] = "none",
           task' = [task EXCEPT ![c] = "session"]
    PROVE  Cardinality(Sessions') = Cardinality(Sessions) + 1
<1>1. Sessions' = Sessions \cup {c} /\ c \notin Sessions
  BY DEF Sessions, Live, TaskState
<1> QED BY <1>1, SessionsFinite, FS_AddElement

\* A task that ends takes exactly one session away.
LEMMA SessionStops ==
    ASSUME task \in [Conn -> TaskState], NEW c \in Conn, task[c] \in Live,
           task' = [task EXCEPT ![c] = "over"]
    PROVE  Cardinality(Sessions') = Cardinality(Sessions) - 1
<1>1. Sessions' = Sessions \ {c} /\ c \in Sessions
  BY DEF Sessions, Live, TaskState
<1> QED BY <1>1, SessionsFinite, FS_RemoveElement

\* Moving a task between two states that are both live, or both not, does not
\* count.
LEMMA SessionStays ==
    ASSUME task \in [Conn -> TaskState], NEW c \in Conn, NEW s \in TaskState,
           task' = [task EXCEPT ![c] = s], task[c] \in Live <=> s \in Live
    PROVE  Sessions' = Sessions
BY DEF Sessions

-----------------------------------------------------------------------------
\* IInv holds initially: all permits are there and no session is.
LEMMA InvInit == Init => IInv
<1> SUFFICES ASSUME Init PROVE IInv
  OBVIOUS
<1>1. Sessions = {}
  BY DEF Init, Sessions, Live
<1>2. Cardinality(Sessions) = 0
  BY <1>1, FS_EmptySet
<1>3. WeakTypeOK
  BY ServeAssumption DEF Init, WeakTypeOK, InLoop, TaskState
<1>4. PermitsConserved
  BY <1>2, ServeAssumption DEF Init, PermitsConserved
<1> QED BY <1>3, <1>4 DEF Init, IInv

\* No step of serve or of a task leaves the types.
LEMMA TypeStep ==
    ASSUME WeakTypeOK, Next
    PROVE  WeakTypeOK'
<1> USE DEF WeakTypeOK, InLoop, TaskState, Live
<1>1. CASE ShutdownResolves
  BY <1>1 DEF ShutdownResolves
<1>2. CASE Acquire
  BY <1>2 DEF Acquire
<1>3. CASE AcceptFails \/ StopsAccepting \/ DropServe
  <2>1. permits' \in Nat /\ permit' = FALSE
    BY <1>3 DEF AcceptFails, StopsAccepting, DropServe, LeavesLoop
  <2>2. aborting' \subseteq Conn
    BY <1>3 DEF AcceptFails, StopsAccepting, DropServe, LeavesLoop, InSet
  <2>3. phase' \in {"drain", "dropped"} /\ returned' \in {"none", "Ok", "Err"}
    BY <1>3 DEF AcceptFails, StopsAccepting, DropServe, LeavesLoop
  <2>4. UNCHANGED <<shutdown, task>>
    BY <1>3 DEF AcceptFails, StopsAccepting, DropServe, LeavesLoop
  <2> QED BY <2>1, <2>2, <2>3, <2>4
<1>4. CASE GraceExpires
  BY <1>4 DEF GraceExpires, InSet
<1>5. CASE Return
  BY <1>5 DEF Return
<1>6. ASSUME NEW c \in Conn, Reap(c) \/ Accept(c)
      PROVE  WeakTypeOK'
  BY <1>6 DEF Reap, Accept
<1>7. ASSUME NEW c \in Conn,
             EntersHook(c) \/ SessionEnds(c) \/ AbortStops(c) \/ BecomesJoinable(c)
      PROVE  WeakTypeOK'
  BY <1>7 DEF EntersHook, SessionEnds, AbortStops, Over, BecomesJoinable
<1> QED BY <1>1, <1>2, <1>3, <1>4, <1>5, <1>6, <1>7 DEF Next

\* No step creates or loses a permit.
LEMMA PermitStep ==
    ASSUME IInv, Next
    PROVE  PermitsConserved'
<1> DEFINE N == Cardinality(Sessions)
<1>0. N \in Nat /\ permits \in Nat /\ MaxSessions \in Nat /\ permit \in BOOLEAN
  BY SessionsFinite, ServeAssumption DEF IInv, WeakTypeOK
<1>t. task \in [Conn -> TaskState]
  BY DEF IInv, WeakTypeOK
<1> HIDE DEF N
<1>p. permits + (IF permit THEN 1 ELSE 0) + N = MaxSessions
  BY DEF IInv, PermitsConserved, N
<1>s. SUFFICES permits' + (IF permit' THEN 1 ELSE 0) + N' = MaxSessions
  BY DEF PermitsConserved, N
<1>1. CASE ShutdownResolves \/ Return \/ GraceExpires
  <2>1. Sessions' = Sessions
    BY <1>1 DEF Sessions, ShutdownResolves, Return, GraceExpires
  <2> QED BY <1>1, <1>p, <2>1 DEF N, ShutdownResolves, Return, GraceExpires
<1>2. CASE Acquire
  <2>1. Sessions' = Sessions
    BY <1>2 DEF Sessions, Acquire
  <2>2. ~permit
    BY <1>2 DEF IInv, Acquire
  <2> QED BY <1>0, <1>2, <1>p, <2>1, <2>2 DEF N, Acquire
<1>3. CASE AcceptFails \/ StopsAccepting \/ DropServe
  <2>1. Sessions' = Sessions
    BY <1>3 DEF Sessions, AcceptFails, StopsAccepting, DropServe, LeavesLoop
  <2>2. permits' = permits + (IF permit THEN 1 ELSE 0) /\ permit' = FALSE
    BY <1>3 DEF AcceptFails, StopsAccepting, DropServe, LeavesLoop
  <2> QED BY <1>0, <1>p, <2>1, <2>2 DEF N
<1>4. ASSUME NEW c \in Conn, Reap(c) \/ EntersHook(c) \/ BecomesJoinable(c)
      PROVE  permits' + (IF permit' THEN 1 ELSE 0) + N' = MaxSessions
  <2>1. Sessions' = Sessions
    BY <1>4, <1>t, SessionStays DEF Reap, EntersHook, BecomesJoinable, Live, TaskState
  <2> QED BY <1>4, <1>p, <2>1 DEF N, Reap, EntersHook, BecomesJoinable
<1>5. ASSUME NEW c \in Conn, Accept(c)
      PROVE  permits' + (IF permit' THEN 1 ELSE 0) + N' = MaxSessions
  <2>1. N' = N + 1
    BY <1>5, <1>t, SessionStarts DEF Accept, N
  <2>2. permit
    BY <1>5 DEF IInv, Accept
  <2> QED BY <1>0, <1>5, <1>p, <2>1, <2>2 DEF Accept
<1>6. ASSUME NEW c \in Conn, SessionEnds(c) \/ AbortStops(c)
      PROVE  permits' + (IF permit' THEN 1 ELSE 0) + N' = MaxSessions
  <2>1. N' = N - 1
    BY <1>6, <1>t, SessionStops DEF SessionEnds, AbortStops, Over, N
  <2>2. permits' = permits + 1 /\ permit' = permit
    BY <1>6 DEF SessionEnds, AbortStops, Over
  <2> QED BY <1>0, <1>p, <2>1, <2>2
<1> QED BY <1>1, <1>2, <1>3, <1>4, <1>5, <1>6 DEF Next

\* The phase, the permit in hand, the tasks left and what it returns stay related.
LEMMA PhaseStep ==
    ASSUME IInv, Next
    PROVE  /\ (phase = "accept" <=> permit)'
           /\ (phase = "returned" => InSet = {})'
           /\ (phase \in {"drain", "abort", "returned"} => returned # "none")'
<1> USE DEF IInv, WeakTypeOK, InLoop
<1>1. CASE ShutdownResolves
  BY <1>1 DEF ShutdownResolves, InSet
<1>2. CASE Acquire
  BY <1>2 DEF Acquire
<1>3. CASE AcceptFails \/ StopsAccepting
  BY <1>3 DEF AcceptFails, StopsAccepting, LeavesLoop
<1>4. CASE GraceExpires
  BY <1>4 DEF GraceExpires
<1>5. CASE Return
  BY <1>5 DEF Return, InSet
<1>6. CASE DropServe
  BY <1>6 DEF DropServe
<1>7. ASSUME NEW c \in Conn, Reap(c) \/ Accept(c)
      PROVE  /\ (phase = "accept" <=> permit)'
             /\ (phase = "returned" => InSet = {})'
             /\ (phase \in {"drain", "abort", "returned"} => returned # "none")'
  BY <1>7 DEF Reap, Accept
<1>8. ASSUME NEW c \in Conn,
             EntersHook(c) \/ SessionEnds(c) \/ AbortStops(c) \/ BecomesJoinable(c)
      PROVE  /\ (phase = "accept" <=> permit)'
             /\ (phase = "returned" => InSet = {})'
             /\ (phase \in {"drain", "abort", "returned"} => returned # "none")'
  <2>1. c \in InSet
    BY <1>8 DEF EntersHook, SessionEnds, AbortStops, BecomesJoinable, InSet, Live
  <2>2. phase # "returned"
    BY <2>1
  <2>3. UNCHANGED <<phase, permit, returned>>
    BY <1>8 DEF EntersHook, SessionEnds, AbortStops, Over, BecomesJoinable
  <2> QED BY <2>2, <2>3
<1> QED BY <1>1, <1>2, <1>3, <1>4, <1>5, <1>6, <1>7, <1>8 DEF Next

\* IInv is an invariant.
THEOREM Invariance == Spec => []IInv
<1>1. IInv /\ [Next]_vars => IInv'
  <2> SUFFICES ASSUME IInv, [Next]_vars PROVE IInv'
    OBVIOUS
  <2>1. CASE Next
    BY <2>1, TypeStep, PermitStep, PhaseStep DEF IInv
  <2>2. CASE UNCHANGED vars
    BY <2>2 DEF vars, IInv, WeakTypeOK, PermitsConserved, Sessions, InSet
  <2> QED BY <2>1, <2>2
<1> QED BY <1>1, InvInit, PTL DEF Spec

(***************************************************************************)
(* The semaphore accounts for every session, close hooks included: no more *)
(* than max_sessions run at once, and no permit is ever lost, however many *)
(* connections there are and however their sessions end.                   *)
(***************************************************************************)
THEOREM Conservation == Spec => []PermitsConserved
<1>1. IInv => PermitsConserved
  BY DEF IInv
<1> QED BY <1>1, Invariance, PTL

(***************************************************************************)
(* The semaphore never holds more permits than it started with.            *)
(***************************************************************************)
THEOREM TypeCorrect == Spec => []TypeOK
<1>1. IInv => TypeOK
  BY SessionsFinite, ServeAssumption DEF IInv, WeakTypeOK, PermitsConserved, TypeOK
<1> QED BY <1>1, Invariance, PTL

(***************************************************************************)
(* serve returns only when its JoinSet is empty and every permit is back.  *)
(***************************************************************************)
THEOREM NothingOutlives == Spec => []NothingOutlivesServe
<1>1. IInv => NothingOutlivesServe
  <2> SUFFICES ASSUME IInv, phase = "returned"
               PROVE  InSet = {} /\ permits = MaxSessions /\ returned # "none"
    BY DEF NothingOutlivesServe
  <2>1. InSet = {} /\ returned # "none" /\ ~permit
    BY DEF IInv
  <2>2. Sessions = {}
    BY <2>1 DEF Sessions, InSet
  <2>3. Cardinality(Sessions) = 0
    BY <2>2, FS_EmptySet
  <2> QED BY <2>1, <2>3, ServeAssumption DEF IInv, WeakTypeOK, PermitsConserved
<1> QED BY <1>1, Invariance, PTL

-----------------------------------------------------------------------------
(* Reading lines *)

\* How a read may end.
Verdicts == {"none", "Line", "Eof", "LineTooLong", "UnexpectedEof", "Cancelled"}

\* The types of the variables.
FrameTypeOK ==
    /\ source \in Seq(Byte) /\ taken \in 0..Len(source)
    /\ ahead \in Seq(Byte) /\ storage \in Seq(Byte)
    /\ ready \in BOOLEAN /\ reading \in BOOLEAN /\ discarded \in BOOLEAN
    /\ verdict \in Verdicts /\ start \in 0..Len(source)
    /\ lines \in Seq(Seq(Byte))

\* Until something is discarded, storage and ahead hold the bytes from start on.
Buffered ==
    ~discarded =>
        /\ start + Len(storage) + Len(ahead) = taken
        /\ \A i \in 1..Len(storage) : storage[i] = source[start + i]
        /\ \A i \in 1..Len(ahead) : ahead[i] = source[start + Len(storage) + i]

\* storage is a line or the beginning of one that still has room.
OneLine ==
    /\ ~ready => Len(storage) < MaxLine /\ \A i \in 1..Len(storage) : storage[i] # "LF"
    /\ ready => /\ Len(storage) \in 1..MaxLine /\ storage[Len(storage)] = "LF"
                /\ \A i \in 1..(Len(storage) - 1) : storage[i] # "LF"

\* What the point that the read has reached says about the buffers.
Stage ==
    /\ reading => ~ready /\ ~discarded
    /\ ~reading /\ ~discarded /\ ~ready => storage = <<>>
    /\ verdict = "Eof" => ~reading
    /\ verdict = "LineTooLong" => discarded
    /\ discarded => ~ready

\* How many lines of the source have ended by position n.
Count(n) == Cardinality({q \in LFs : q <= n})

\* Lines have been returned up to a boundary, which start is.
Returned ==
    /\ start = 0 \/ start \in LFs
    /\ ~discarded => Len(lines) = Count(IF ready THEN start + Len(storage) ELSE start)
    /\ Len(lines) <= Cardinality(LFs)
    /\ \A i \in 1..Len(lines) : lines[i] = Reference[i]

\* The inductive invariant of Framing.
FrameInv == FrameTypeOK /\ Buffered /\ OneLine /\ Stage /\ Returned /\ VerdictIsRight

-----------------------------------------------------------------------------
\* The order of the natural numbers as a relation.
Less == {ss \in Nat \X Nat : ss[1] < ss[2]}

\* It is well-founded.
LEMMA LessIsWellFounded == IsWellFoundedOn(Less, Nat)
BY NatLessThanWellFounded, Zenon DEF OpToRel, Less

\* A set of natural numbers that is not empty has a least element.
LEMMA LeastElement ==
    ASSUME NEW T, T \subseteq Nat, T # {}
    PROVE  \E m \in T : \A k \in T : m <= k
<1>1. PICK m \in T : \A k \in T : ~(<<k, m>> \in Less)
  BY LessIsWellFounded, WFMin, Zenon
<1>2. \A k \in T : m <= k
  <2> TAKE k \in T
  <2>1. m \in Nat /\ k \in Nat
    BY <1>1, Zenon
  <2>2. ~(<<k, m>> \in Less)
    BY <1>1, Zenon
  <2>3. ~(k < m)
    BY <2>1, <2>2, Zenon DEF Less
  <2> QED BY <2>1, <2>3
<1> QED BY <1>1, <1>2, Zenon

-----------------------------------------------------------------------------
\* A piece of a sequence, its length and its elements.
LEMMA PieceOfSeq ==
    ASSUME NEW S, NEW s \in Seq(S), NEW m \in Nat, NEW n \in Nat, m < n + 1, n <= Len(s)
    PROVE  /\ SubSeq(s, m + 1, n) \in Seq(S) /\ Len(SubSeq(s, m + 1, n)) = n - m
           /\ \A i \in 1..(n - m) : SubSeq(s, m + 1, n)[i] = s[m + i]
<1>1. \A i \in (m + 1)..n : s[i] \in S
  BY ElementOfSeq
<1>2. /\ SubSeq(s, m + 1, n) \in Seq(S)
      /\ Len(SubSeq(s, m + 1, n)) = IF m + 1 <= n THEN n - (m + 1) + 1 ELSE 0
      /\ \A i \in 1..(n - (m + 1) + 1) : SubSeq(s, m + 1, n)[i] = s[m + 1 + i - 1]
  <2> DEFINE k == m + 1
  <2>1. k \in Int /\ n \in Int /\ \A i \in k..n : s[i] \in S
    BY <1>1
  <2> HIDE DEF k
  <2>2. /\ SubSeq(s, k, n) \in Seq(S)
        /\ Len(SubSeq(s, k, n)) = IF k <= n THEN n - k + 1 ELSE 0
        /\ \A i \in 1..(n - k + 1) : SubSeq(s, k, n)[i] = s[k + i - 1]
    BY <2>1, SubSeqProperties
  <2> QED BY <2>2, Zenon DEF k
<1> QED BY <1>2

\* The same for bytes.
LEMMA PieceOfBytes ==
    ASSUME NEW s \in Seq(Byte), NEW m \in Nat, NEW n \in Nat, m < n + 1, n <= Len(s)
    PROVE  /\ SubSeq(s, m + 1, n) \in Seq(Byte) /\ Len(SubSeq(s, m + 1, n)) = n - m
           /\ \A i \in 1..(n - m) : SubSeq(s, m + 1, n)[i] = s[m + i]
BY PieceOfSeq

\* What feed looks for (frame.rs:49-74) is the first LF, if there is one.
LEMMA FirstLFIsFirst ==
    ASSUME NEW s \in Seq(Byte)
    PROVE  /\ FirstLF(s) = 0 => \A i \in 1..Len(s) : s[i] # "LF"
           /\ FirstLF(s) # 0 => /\ FirstLF(s) \in 1..Len(s) /\ s[FirstLF(s)] = "LF"
                                /\ \A i \in 1..(FirstLF(s) - 1) : s[i] # "LF"
           /\ FirstLF(s) \in Nat
<1>1. CASE "LF" \notin Range(s)
  BY <1>1 DEF FirstLF, Range
<1>2. CASE "LF" \in Range(s)
  <2> DEFINE T == {i \in 1..Len(s) : s[i] = "LF"}
  <2>1. T \subseteq Nat /\ T # {}
    BY <1>2 DEF Range
  <2>2. PICK m \in T : \A k \in T : m <= k
    BY <2>1, LeastElement, Zenon
  <2>3. m \in DOMAIN s /\ s[m] = "LF" /\ \A j \in 1..(m - 1) : s[j] # "LF"
    BY <2>2
  <2>4. FirstLF(s) = CHOOSE i \in DOMAIN s : s[i] = "LF" /\ \A j \in 1..(i - 1) : s[j] # "LF"
    BY <1>2, Zenon DEF FirstLF
  <2>5. /\ FirstLF(s) \in DOMAIN s /\ s[FirstLF(s)] = "LF"
        /\ \A j \in 1..(FirstLF(s) - 1) : s[j] # "LF"
    BY <2>3, <2>4, Zenon
  <2> QED BY <2>5
<1> QED BY <1>1, <1>2, Zenon

\* A source has finitely many LFs, so that lines can be counted.
LEMMA LFsAreFinite ==
    ASSUME source \in Seq(Byte)
    PROVE  /\ LFs \subseteq 1..Len(source) /\ IsFiniteSet(LFs) /\ Cardinality(LFs) \in Nat
           /\ \A n \in Nat : IsFiniteSet({q \in LFs : q <= n}) /\ Count(n) \in Nat
           /\ \A n \in Nat : Count(n) <= Cardinality(LFs)
           /\ Count(0) = 0 /\ Count(Len(source)) = Cardinality(LFs)
<1>1. LFs \subseteq 1..Len(source)
  BY DEF LFs
<1>a. \A q \in LFs : ~(q <= 0) /\ q <= Len(source)
  BY <1>1
<1>2. IsFiniteSet(1..Len(source))
  BY FS_Interval
<1>3. IsFiniteSet(LFs) /\ Cardinality(LFs) \in Nat
  BY <1>1, <1>2, FS_Subset, FS_CardinalityType, Zenon
<1>4. ASSUME NEW n \in Nat
      PROVE  /\ IsFiniteSet({q \in LFs : q <= n}) /\ Count(n) \in Nat
             /\ Count(n) <= Cardinality(LFs)
  <2>1. {q \in LFs : q <= n} \in SUBSET LFs
    BY Zenon
  <2> QED BY <2>1, <1>3, FS_Subset, FS_CardinalityType, Zenon DEF Count
<1>5. {q \in LFs : q <= 0} = {}
  BY <1>a, Zenon
<1>6. {q \in LFs : q <= Len(source)} = LFs
  BY <1>a, Zenon
<1> QED BY <1>1, <1>3, <1>4, <1>5, <1>6, FS_EmptySet, Zenon DEF Count

\* The next LF ends one line more.
LEMMA CountOfNext ==
    ASSUME source \in Seq(Byte), NEW n \in Nat, NEW p \in LFs, n < p,
           \A q \in LFs : q <= n \/ q >= p
    PROVE  Count(p) = Count(n) + 1
<1>1. LFs \subseteq 1..Len(source) /\ IsFiniteSet({q \in LFs : q <= n})
  BY LFsAreFinite, Zenon
<1>a. p \in Nat /\ \A q \in LFs : q <= p <=> q <= n \/ q = p
  BY <1>1
<1>2. {q \in LFs : q <= p} = {q \in LFs : q <= n} \cup {p}
  BY <1>a, Zenon
<1>3. p \notin {q \in LFs : q <= n}
  BY <1>1
<1> QED BY <1>1, <1>2, <1>3, FS_AddElement, Zenon DEF Count

\* No two LFs end the same line,
LEMMA CountIsInjective ==
    ASSUME source \in Seq(Byte), NEW p \in LFs, NEW r \in LFs, Count(p) = Count(r)
    PROVE  p = r
<1>1. LFs \subseteq 1..Len(source) /\ p \in Nat /\ r \in Nat
  BY LFsAreFinite
<1>2. ASSUME NEW a \in LFs, NEW b \in LFs, Count(a) = Count(b), a < b
      PROVE  FALSE
  <2>1. a \in Nat /\ b \in Nat
    BY <1>1
  <2>a. \A q \in LFs : q <= a => q <= b
    BY <1>2, <1>1, <2>1
  <2>2. {q \in LFs : q <= a} \in SUBSET {q \in LFs : q <= b}
    BY <2>a, Zenon
  <2>3. IsFiniteSet({q \in LFs : q <= b})
    BY <2>1, LFsAreFinite, Zenon
  <2>4. {q \in LFs : q <= b} = {q \in LFs : q <= a}
    BY <2>2, <2>3, <1>2, FS_Subset, Zenon DEF Count
  <2>5. b \in {q \in LFs : q <= b} /\ b \notin {q \in LFs : q <= a}
    BY <2>1, <1>2
  <2> QED BY <2>4, <2>5, Zenon
<1>3. p < r \/ r < p \/ p = r
  BY <1>1
<1> QED BY <1>2, <1>3, Zenon

\* so the LF that ends a line is found from its number.
LEMMA LineEndOfCount ==
    ASSUME source \in Seq(Byte), NEW p \in LFs
    PROVE  LineEnd(Count(p)) = p
<1>1. \A r \in LFs : Cardinality({q \in LFs : q <= r}) = Count(p) => r = p
  BY CountIsInjective, Zenon DEF Count
<1>2. Cardinality({q \in LFs : q <= p}) = Count(p)
  BY Zenon DEF Count
<1> QED BY <1>1, <1>2, Zenon DEF LineEnd

\* A line starts where the one before it ended.
LEMMA PreviousIsBoundary ==
    ASSUME source \in Seq(Byte), NEW n \in Nat, NEW p \in LFs, n < p,
           n = 0 \/ n \in LFs, \A q \in LFs : q <= n \/ q >= p
    PROVE  Previous(p) = n
<1>1. LFs \subseteq 1..Len(source)
  BY LFsAreFinite, Zenon
<1> DEFINE before == {q \in LFs : q < p}
<1>2. CASE n = 0
  <2>a. \A q \in LFs : ~(q < p)
    BY <1>1, <1>2
  <2>1. before = {}
    BY <2>a, Zenon
  <2> QED BY <2>1, <1>2, Zenon DEF Previous
<1>3. CASE n # 0
  <2>1. n \in before /\ \A r \in before : r <= n
    BY <1>1, <1>3
  <2>2. \A q \in before : (\A r \in before : r <= q) => q = n
    BY <2>1, <1>1
  <2>3. Previous(p) = CHOOSE q \in before : \A r \in before : r <= q
    BY <2>1, Zenon DEF Previous
  <2> QED BY <2>1, <2>2, <2>3, Zenon
<1> QED BY <1>2, <1>3, Zenon

\* LineBuffer::line (frame.rs:78) returns bytes,
LEMMA ContentIsSeq ==
    ASSUME NEW s \in Seq(Byte)
    PROVE  Content(s) \in Seq(Byte)
BY DEF Content

\* those before the LF, or before the CR LF.
LEMMA ContentIsStripped ==
    ASSUME NEW s \in Seq(Byte), Len(s) >= 1, s[Len(s)] = "LF"
    PROVE  Content(s) = Stripped(s)
<1> DEFINE crlf == <<"CR", "LF">>
          tail == SubSeq(s, Len(s) - 1, Len(s))
<1>1. ends_with(s, crlf) <=> Len(s) >= 2 /\ s[Len(s) - 1] = "CR"
  <2>1. Len(crlf) = 2 /\ crlf[1] = "CR" /\ crlf[2] = "LF" /\ crlf \in Seq(Byte)
    BY DEF Byte
  <2> HIDE DEF crlf
  <2>2. ASSUME Len(s) >= 2
        PROVE  /\ tail \in Seq(Byte) /\ Len(tail) = 2
               /\ tail[1] = s[Len(s) - 1] /\ tail[2] = s[Len(s)]
    BY <2>2
  <2>3. ends_with(s, crlf) <=> Len(s) >= 2 /\ tail = crlf
    BY <2>1 DEF ends_with
  <2> HIDE DEF tail
  <2>4. ASSUME Len(s) >= 2 PROVE tail = crlf <=> tail[1] = crlf[1] /\ tail[2] = crlf[2]
    BY <2>1, <2>2, <2>4
  <2> QED BY <2>1, <2>2, <2>3, <2>4, Zenon
<1> QED BY <1>1 DEF Content, Stripped

\* The empty sequence.
LEMMA EmptyIsSeq == <<>> \in Seq(Byte) /\ <<>> \in Seq(Seq(Byte)) /\ Len(<<>>) = 0
OBVIOUS

\* FrameInv holds initially.
LEMMA InitFrameInv == FrameInit => FrameInv
<1> SUFFICES ASSUME FrameInit PROVE FrameInv
  BY Zenon
<1> USE FramingAssumption
<1>1. source \in Seq(Byte)
  <2>1. PICK m \in 0..MaxSource : source \in [1..m -> Byte]
    BY Zenon DEF FrameInit, SeqUpTo
  <2> QED BY <2>1
<1>2. FrameTypeOK
  <2>1. 0 \in 0..Len(source)
    BY <1>1
  <2> QED BY <1>1, <2>1, EmptyIsSeq, Zenon DEF FrameInit, FrameTypeOK, Verdicts
<1>3. Buffered /\ OneLine /\ Stage
  BY DEF FrameInit, Buffered, OneLine, Stage
<1>4. Returned
  BY <1>1, LFsAreFinite DEF FrameInit, Returned
<1>5. VerdictIsRight
  BY DEF FrameInit, VerdictIsRight
<1> QED BY <1>2, <1>3, <1>4, <1>5, Zenon DEF FrameInv

\* What the reference says depends on the source alone.
LEMMA SourceStays ==
    ASSUME source' = source
    PROVE  LFs' = LFs /\ Reference' = Reference
BY DEF LFs, Reference, LineEnd, Previous, Stripped

\* A read that fails wipes its buffers (channel.rs:199-227).
LEMMA FailsFrameInv ==
    ASSUME FrameInv, NEW why \in {"LineTooLong", "UnexpectedEof", "Cancelled"}, Fails(why),
           taken' = taken, reading,
           why = "LineTooLong" =>
              /\ start + MaxLine <= Len(source)
              /\ \A p \in (start + 1)..(start + MaxLine) : source[p] # "LF",
           why = "UnexpectedEof" => source # <<>> /\ last(source) # "LF"
    PROVE  FrameInv'
<1> USE FramingAssumption DEF Fails, Clears
<1>1. FrameTypeOK'
  BY EmptyIsSeq, Zenon DEF FrameInv, FrameTypeOK, Verdicts
<1>2. Buffered' /\ OneLine' /\ Stage'
  BY DEF Buffered, OneLine, Stage
<1>3. LFs' = LFs /\ Reference' = Reference
  BY SourceStays, Zenon
<1>4. Returned'
  BY <1>3, Zenon DEF FrameInv, Returned
<1>5. VerdictIsRight'
  BY DEF VerdictIsRight, last
<1> QED BY <1>1, <1>2, <1>4, <1>5, Zenon DEF FrameInv

\* Starting a read preserves FrameInv.
LEMMA StartReadFrameInv == FrameInv /\ StartRead => FrameInv'
<1> SUFFICES ASSUME FrameInv, StartRead PROVE FrameInv'
  BY Zenon
<1> USE FramingAssumption DEF StartRead, Clears
<1>0. LFs' = LFs /\ Reference' = Reference
  BY SourceStays, Zenon
<1>a. start + Len(storage) <= taken
  BY DEF FrameInv, FrameTypeOK, Buffered
<1>1. FrameTypeOK'
  <2>1. start' \in 0..Len(source)
    BY <1>a DEF FrameInv, FrameTypeOK
  <2> QED BY <2>1, EmptyIsSeq, Zenon DEF FrameInv, FrameTypeOK
<1>2. Buffered'
  BY DEF FrameInv, FrameTypeOK, Buffered
<1>3. OneLine' /\ Stage'
  BY DEF FrameInv, OneLine, Stage
<1>4. Returned'
  <2>1. CASE ready
    <3>a. Len(storage) \in 1..MaxLine /\ storage[Len(storage)] = "LF"
      BY <2>1, Zenon DEF FrameInv, OneLine
    <3>b. \A i \in 1..Len(storage) : storage[i] = source[start + i]
      BY Zenon DEF FrameInv, Buffered
    <3>c. start \in Nat /\ taken \in 0..Len(source) /\ Len(source) \in Nat
      BY DEF FrameInv, FrameTypeOK
    <3>d. start + Len(storage) \in 1..Len(source)
      BY <3>a, <3>c, <1>a
    <3>e. source[start + Len(storage)] = "LF"
      BY <3>a, <3>b
    <3>1. start' \in 1..Len(source) /\ source[start'] = "LF"
      BY <3>d, <3>e, Zenon
    <3>2. start' \in LFs
      BY <3>1 DEF LFs, FrameInv, FrameTypeOK
    <3> QED BY <3>2, <2>1, <1>0, Zenon DEF FrameInv, FrameTypeOK, Returned, Count
  <2>2. CASE ~ready
    <3>1. start' = start
      BY <2>2 DEF FrameInv, FrameTypeOK, Stage
    <3> QED BY <3>1, <2>2, <1>0, Zenon DEF FrameInv, FrameTypeOK, Returned, Count
  <2> QED BY <2>1, <2>2, Zenon
<1>5. VerdictIsRight'
  BY <1>0 DEF FrameInv, VerdictIsRight, Stage, last
<1> QED BY <1>1, <1>2, <1>3, <1>4, <1>5, Zenon DEF FrameInv

\* The next LF after a boundary ends the next line of the reference.
LEMMA NextLine ==
    ASSUME source \in Seq(Byte), NEW n \in Nat, NEW p \in LFs, n < p,
           n = 0 \/ n \in LFs, \A q \in LFs : q <= n \/ q >= p
    PROVE  /\ Count(p) = Count(n) + 1 /\ Count(p) \in 1..Cardinality(LFs)
           /\ Reference[Count(p)] = Stripped(SubSeq(source, n + 1, p))
<1>1. Count(p) = Count(n) + 1
  BY CountOfNext, Zenon
<1>2. p \in Nat
  BY LFsAreFinite
<1>3. /\ Count(n) \in Nat /\ Count(p) \in Nat /\ Count(p) <= Cardinality(LFs)
      /\ Cardinality(LFs) \in Nat
  BY <1>2, LFsAreFinite, Zenon
<1>4. Count(p) \in 1..Cardinality(LFs)
  BY <1>1, <1>3
<1>5. LineEnd(Count(p)) = p /\ Previous(p) = n
  BY LineEndOfCount, PreviousIsBoundary, Zenon
<1> QED BY <1>1, <1>4, <1>5, Zenon DEF Reference

\* Feeding up to the LF returns the next line (frame.rs:49-94).
LEMMA FeedCompletesFrameInv == FrameInv /\ FeedCompletes => FrameInv'
<1>0. SUFFICES ASSUME FrameInv, FeedCompletes PROVE FrameInv'
  BY Zenon
<1> DEFINE lf == FirstLF(ahead)
           end == start + Len(storage) + lf
<1>1. /\ reading /\ lf # 0 /\ lf <= MaxLine - Len(storage)
      /\ storage' = storage \o SubSeq(ahead, 1, lf) /\ ready' = TRUE
      /\ ahead' = SubSeq(ahead, lf + 1, Len(ahead))
      /\ reading' = FALSE /\ verdict' = "Line"
      /\ lines' = Append(lines, Content(storage'))
      /\ source' = source /\ taken' = taken /\ start' = start /\ discarded' = discarded
  BY <1>0, Zenon DEF FeedCompletes, Room
<1>2. LFs' = LFs /\ Reference' = Reference
  BY <1>1, SourceStays, Zenon
<1>3. /\ source \in Seq(Byte) /\ ahead \in Seq(Byte) /\ storage \in Seq(Byte)
      /\ lines \in Seq(Seq(Byte)) /\ MaxLine \in Nat
      /\ start \in Nat /\ taken \in Nat /\ taken <= Len(source)
  BY <1>0, FramingAssumption DEF FrameInv, FrameTypeOK
<1>4. ~discarded /\ ~ready
  BY <1>0, <1>1, Zenon DEF FrameInv, Stage
<1>5. /\ start + Len(storage) + Len(ahead) = taken
      /\ \A i \in 1..Len(storage) : storage[i] = source[start + i]
      /\ \A i \in 1..Len(ahead) : ahead[i] = source[start + Len(storage) + i]
  BY <1>0, <1>4, Zenon DEF FrameInv, Buffered
<1>6. Len(storage) < MaxLine /\ \A i \in 1..Len(storage) : storage[i] # "LF"
  BY <1>0, <1>4, Zenon DEF FrameInv, OneLine
<1>7. /\ lf \in 1..Len(ahead) /\ ahead[lf] = "LF"
      /\ \A i \in 1..(lf - 1) : ahead[i] # "LF"
  BY <1>1, <1>3, FirstLFIsFirst, Zenon
<1>8. /\ storage' \in Seq(Byte) /\ Len(storage') = Len(storage) + lf
      /\ \A i \in 1..Len(storage') :
            storage'[i] = IF i <= Len(storage) THEN storage[i] ELSE ahead[i - Len(storage)]
  <2> DEFINE piece == SubSeq(ahead, 0 + 1, lf)
  <2>1. 0 < lf + 1 /\ lf <= Len(ahead) /\ lf \in Nat /\ Len(storage) \in Nat
    BY <1>3, <1>7
  <2>2. /\ piece \in Seq(Byte) /\ Len(piece) = lf - 0
        /\ \A i \in 1..(lf - 0) : piece[i] = ahead[0 + i]
    BY <2>1, <1>3, PieceOfBytes, Zenon
  <2>3. /\ storage \o piece \in Seq(Byte)
        /\ Len(storage \o piece) = Len(storage) + Len(piece)
        /\ \A i \in 1..(Len(storage) + Len(piece)) :
              (storage \o piece)[i] = IF i <= Len(storage) THEN storage[i]
                                     ELSE piece[i - Len(storage)]
    BY <2>2, <1>3, ConcatProperties, Zenon
  <2>4. storage' = storage \o piece
    BY <1>1
  <2> HIDE DEF piece
  <2>5. \A i \in 1..(Len(storage) + lf) : i > Len(storage) =>
            piece[i - Len(storage)] = ahead[i - Len(storage)]
    BY <2>1, <2>2
  <2> QED BY <2>1, <2>2, <2>3, <2>4, <2>5
<1>9. /\ ahead' \in Seq(Byte) /\ Len(ahead') = Len(ahead) - lf
      /\ \A i \in 1..Len(ahead') : ahead'[i] = ahead[lf + i]
  <2>1. lf < Len(ahead) + 1 /\ Len(ahead) <= Len(ahead) /\ Len(ahead) \in Nat /\ lf \in Nat
    BY <1>3, <1>7
  <2> DEFINE others == SubSeq(ahead, lf + 1, Len(ahead))
  <2>2. /\ others \in Seq(Byte) /\ Len(others) = Len(ahead) - lf
        /\ \A i \in 1..(Len(ahead) - lf) : others[i] = ahead[lf + i]
    BY <2>1, <1>3, PieceOfBytes, Zenon
  <2>3. ahead' = others
    BY <1>1, Zenon
  <2> QED BY <2>2, <2>3, Zenon
<1>n. /\ lf \in Nat /\ lf >= 1 /\ lf <= Len(ahead) /\ lf <= MaxLine - Len(storage)
      /\ Len(storage) \in Nat /\ Len(ahead) \in Nat /\ Len(source) \in Nat /\ MaxLine \in Nat
      /\ start \in Nat /\ taken \in Nat /\ taken <= Len(source)
      /\ start + Len(storage) + Len(ahead) = taken
      /\ Len(storage') = Len(storage) + lf /\ Len(ahead') = Len(ahead) - lf
  <2>1. Len(storage) \in Nat /\ Len(ahead) \in Nat /\ Len(source) \in Nat
    BY <1>3
  <2>2. lf \in Nat /\ lf >= 1 /\ lf <= Len(ahead)
    BY <1>7, <2>1
  <2> QED BY <2>1, <2>2, <1>1, <1>3, <1>5, <1>8, <1>9, Zenon
<1> HIDE DEF lf
<1>10. \A i \in 1..Len(storage') : storage'[i] = source[start + i]
  <2>1. TAKE i \in 1..Len(storage')
  <2>2. CASE i <= Len(storage)
    <3>1. storage'[i] = storage[i] /\ i \in 1..Len(storage)
      BY <2>2, <1>n, <1>8
    <3> QED BY <3>1, <1>5, Zenon
  <2>3. CASE i > Len(storage)
    <3>1. i - Len(storage) \in 1..Len(ahead)
      BY <2>3, <1>n
    <3>2. storage'[i] = ahead[i - Len(storage)]
      BY <2>3, <1>n, <1>8
    <3>3. start + Len(storage) + (i - Len(storage)) = start + i
      BY <1>n
    <3> QED BY <3>1, <3>2, <3>3, <1>5, Zenon
  <2> QED BY <2>2, <2>3, <1>n
<1>11. end \in Nat /\ start < end /\ end <= Len(source) /\ end = start + Len(storage')
  BY <1>n
<1>12. storage'[Len(storage')] = "LF" /\ \A i \in 1..(Len(storage') - 1) : storage'[i] # "LF"
  <2>1. Len(storage') \in 1..Len(storage') /\ ~(Len(storage') <= Len(storage))
    BY <1>n
  <2>2. Len(storage') - Len(storage) = lf
    BY <1>n
  <2>3. storage'[Len(storage')] = "LF"
    BY <2>1, <2>2, <1>7, <1>8, Zenon
  <2>4. ASSUME NEW i \in 1..(Len(storage') - 1) PROVE storage'[i] # "LF"
    <3>1. i \in 1..Len(storage')
      BY <1>n
    <3>2. CASE i <= Len(storage)
      <4>1. storage'[i] = storage[i] /\ i \in 1..Len(storage)
        BY <3>1, <3>2, <1>n, <1>8
      <4> QED BY <4>1, <1>6, Zenon
    <3>3. CASE i > Len(storage)
      <4>1. i - Len(storage) \in 1..(lf - 1)
        BY <3>1, <3>3, <1>n
      <4>2. storage'[i] = ahead[i - Len(storage)]
        BY <3>1, <3>3, <1>n, <1>8
      <4> QED BY <4>1, <4>2, <1>7, Zenon
    <3> QED BY <3>1, <3>2, <3>3, <1>n
  <2> QED BY <2>3, <2>4, Zenon
<1>13. end \in LFs
  <2>1. end \in DOMAIN source
    BY <1>3, <1>11
  <2>2. Len(storage') \in 1..Len(storage')
    BY <1>n
  <2> QED BY <2>1, <2>2, <1>10, <1>11, <1>12, Zenon DEF LFs
<1>14. \A q \in LFs : q <= start \/ q >= end
  <2>1. TAKE q \in LFs
  <2>2. q \in 1..Len(source) /\ source[q] = "LF"
    BY <1>3 DEF LFs
  <2>3. ASSUME q > start, q < end PROVE FALSE
    <3>1. q - start \in 1..(Len(storage') - 1)
      BY <1>n, <1>11, <2>2, <2>3
    <3>2. storage'[q - start] = source[start + (q - start)] /\ storage'[q - start] # "LF"
      <4>1. q - start \in 1..Len(storage')
        BY <3>1, <1>n
      <4> QED BY <4>1, <3>1, <1>10, <1>12, Zenon
    <3>3. start + (q - start) = q
      BY <1>n, <2>2
    <3> QED BY <3>2, <3>3, <2>2, Zenon
  <2> QED BY <2>2, <2>3, <1>n, <1>11
<1>15. SubSeq(source, start + 1, end) = storage'
  <2> DEFINE stop == end
             piece == SubSeq(source, start + 1, stop)
  <2>1. /\ stop \in Nat /\ start < stop + 1 /\ stop <= Len(source)
        /\ stop - start = Len(storage')
    BY <1>n, <1>11
  <2> HIDE DEF stop
  <2>2. /\ piece \in Seq(Byte) /\ Len(piece) = stop - start
        /\ \A i \in 1..(stop - start) : piece[i] = source[start + i]
    BY <2>1, <1>3, PieceOfBytes, Zenon
  <2> HIDE DEF piece
  <2>3. piece = storage'
    BY <2>1, <2>2, <1>8, <1>10, SeqEqual, Zenon
  <2> QED BY <2>3, Zenon DEF piece, stop
<1>16. start = 0 \/ start \in LFs
  BY <1>0, Zenon DEF FrameInv, Returned
<1>17. /\ Count(end) = Count(start) + 1 /\ Count(end) \in 1..Cardinality(LFs)
       /\ Reference[Count(end)] = Stripped(storage')
  BY <1>3, <1>11, <1>13, <1>14, <1>15, <1>16, NextLine, Zenon
<1>18. Content(storage') = Stripped(storage')
  <2>1. Len(storage') >= 1
    BY <1>n
  <2> QED BY <2>1, <1>8, <1>12, ContentIsStripped, Zenon
<1>19. Content(storage') \in Seq(Byte)
  BY <1>8, ContentIsSeq, Zenon
<1>20. Len(lines) = Count(start)
  BY <1>0, <1>4, Zenon DEF FrameInv, Returned
<1>t. FrameTypeOK'
  <2>1. lines' \in Seq(Seq(Byte))
    BY <1>1, <1>3, <1>19, AppendProperties, Zenon
  <2> QED BY <1>0, <1>1, <1>8, <1>9, <2>1, Zenon DEF FrameInv, FrameTypeOK, Verdicts
<1>h. Buffered'
  <2>1. start + Len(storage') + Len(ahead') = taken
    BY <1>n
  <2>2. ASSUME NEW i \in 1..Len(ahead')
        PROVE  ahead'[i] = source[start + Len(storage') + i]
    <3>1. lf + i \in 1..Len(ahead)
      BY <1>n
    <3>2. start + Len(storage) + (lf + i) = start + Len(storage') + i
      BY <1>n
    <3> QED BY <3>1, <3>2, <1>5, <1>9, Zenon
  <2> QED BY <2>1, <2>2, <1>1, <1>10, Zenon DEF Buffered
<1>o. OneLine'
  <2>2. Len(storage') \in 1..MaxLine
    BY <1>n
  <2> QED BY <2>2, <1>1, <1>12, Zenon DEF OneLine
<1>s. Stage'
  BY <1>1, <1>4, Zenon DEF Stage
<1>r. Returned'
  <2> DEFINE line == Content(storage')
  <2>a. line \in Seq(Byte) /\ lines \in Seq(Seq(Byte)) /\ lines' = Append(lines, line)
    BY <1>1, <1>3, <1>19, Zenon
  <2> HIDE DEF line
  <2>b. /\ Len(lines') = Len(lines) + 1 /\ lines'[Len(lines) + 1] = line
        /\ \A i \in 1..Len(lines) : lines'[i] = lines[i]
    <3>1. /\ Len(Append(lines, line)) = Len(lines) + 1
          /\ Append(lines, line)[Len(lines) + 1] = line
          /\ \A i \in 1..Len(lines) : Append(lines, line)[i] = lines[i]
      <4> DEFINE S == Seq(Byte)
      <4>1. line \in S /\ lines \in Seq(S)
        BY <2>a, Zenon
      <4> HIDE DEF S
      <4> QED BY <4>1
    <3> QED BY <3>1, <2>a, Zenon
  <2>1. Len(lines') = Count(end) /\ lines'[Count(end)] = Content(storage')
    BY <2>b, <1>17, <1>20, Zenon DEF line
  <2>2. \A i \in 1..Len(lines) : lines'[i] = lines[i]
    BY <2>b, Zenon
  <2>3. \A i \in 1..Len(lines) : lines[i] = Reference[i]
    BY <1>0, Zenon DEF FrameInv, Returned
  <2>4. ASSUME NEW i \in 1..Len(lines') PROVE lines'[i] = Reference[i]
    <3>1. Len(lines) \in Nat /\ Len(lines') = Len(lines) + 1
      BY <1>3, <1>17, <1>20, <2>1
    <3>2. i \in 1..Len(lines) \/ i = Count(end)
      BY <3>1, <2>1
    <3> QED BY <3>2, <2>1, <2>2, <2>3, <1>17, <1>18, Zenon
  <2>5. Len(lines') <= Cardinality(LFs)
    BY <2>1, <1>17
  <2>6. Len(lines') = Cardinality({q \in LFs : q <= start + Len(storage')})
    BY <2>1, <1>11, Zenon DEF Count
  <2> QED BY <2>4, <2>5, <2>6, <1>1, <1>2, <1>16, Zenon DEF Returned, Count
<1>v. VerdictIsRight'
  <2>1. Len(storage') <= MaxLine
    BY <1>n
  <2>2. /\ verdict' \notin {"LineTooLong", "Eof", "UnexpectedEof"} /\ ready'
    BY <1>1, Zenon
  <2> QED BY <2>1, <2>2, Zenon DEF VerdictIsRight
<1> QED BY <1>t, <1>h, <1>o, <1>s, <1>r, <1>v, Zenon DEF FrameInv

\* Feeding without an LF takes all that is ahead.
LEMMA FeedContinuesFrameInv == FrameInv /\ FeedContinues => FrameInv'
<1>0. SUFFICES ASSUME FrameInv, FeedContinues PROVE FrameInv'
  BY Zenon
<1>1. /\ reading /\ FirstLF(ahead) = 0 /\ Len(ahead) < MaxLine - Len(storage)
      /\ storage' = storage \o ahead /\ ahead' = <<>>
      /\ source' = source /\ taken' = taken /\ ready' = ready /\ reading' = reading
      /\ verdict' = verdict /\ start' = start /\ lines' = lines /\ discarded' = discarded
  BY <1>0, Zenon DEF FeedContinues, Room
<1>2. LFs' = LFs /\ Reference' = Reference
  BY <1>1, SourceStays, Zenon
<1>3. /\ ahead \in Seq(Byte) /\ storage \in Seq(Byte) /\ MaxLine \in Nat
      /\ start \in Nat /\ taken \in Nat /\ Len(ahead) \in Nat /\ Len(storage) \in Nat
  BY <1>0, FramingAssumption DEF FrameInv, FrameTypeOK
<1>4. ~discarded /\ ~ready
  BY <1>0, <1>1, Zenon DEF FrameInv, Stage
<1>5. /\ start + Len(storage) + Len(ahead) = taken
      /\ \A i \in 1..Len(storage) : storage[i] = source[start + i]
      /\ \A i \in 1..Len(ahead) : ahead[i] = source[start + Len(storage) + i]
  BY <1>0, <1>4, Zenon DEF FrameInv, Buffered
<1>6. Len(storage) < MaxLine /\ \A i \in 1..Len(storage) : storage[i] # "LF"
  BY <1>0, <1>4, Zenon DEF FrameInv, OneLine
<1>7. \A i \in 1..Len(ahead) : ahead[i] # "LF"
  BY <1>1, <1>3, FirstLFIsFirst, Zenon
<1>8. /\ storage' \in Seq(Byte) /\ Len(storage') = Len(storage) + Len(ahead)
      /\ \A i \in 1..(Len(storage) + Len(ahead)) :
            storage'[i] = IF i <= Len(storage) THEN storage[i] ELSE ahead[i - Len(storage)]
  BY <1>1, <1>3, ConcatProperties, Zenon
<1>9. ASSUME NEW i \in 1..Len(storage')
      PROVE  storage'[i] = source[start + i] /\ storage'[i] # "LF"
  <2>1. i \in 1..(Len(storage) + Len(ahead))
    BY <1>8, Zenon
  <2>2. CASE i <= Len(storage)
    <3>1. storage'[i] = storage[i] /\ i \in 1..Len(storage)
      BY <2>1, <2>2, <1>3, <1>8
    <3> QED BY <3>1, <1>5, <1>6, Zenon
  <2>3. CASE i > Len(storage)
    <3>1. i - Len(storage) \in 1..Len(ahead)
      BY <2>1, <2>3, <1>3
    <3>2. storage'[i] = ahead[i - Len(storage)]
      BY <2>1, <2>3, <1>3, <1>8
    <3>3. start + Len(storage) + (i - Len(storage)) = start + i
      BY <2>1, <1>3
    <3> QED BY <3>1, <3>2, <3>3, <1>5, <1>7, Zenon
  <2> QED BY <2>1, <2>2, <2>3, <1>3
<1>t. FrameTypeOK'
  BY <1>0, <1>1, <1>8, EmptyIsSeq, Zenon DEF FrameInv, FrameTypeOK
<1>h. Buffered'
  <2>1. start + Len(storage') + 0 = taken
    BY <1>3, <1>5, <1>8
  <2>2. Len(ahead') = 0 /\ 1..0 = {}
    BY <1>1
  <2> QED BY <2>1, <2>2, <1>1, <1>9, Zenon DEF Buffered
<1>o. OneLine'
  <2>1. Len(ahead) < MaxLine - Len(storage)
    BY <1>1, Zenon
  <2>2. Len(storage') < MaxLine
    BY <2>1, <1>3, <1>8
  <2> QED BY <2>2, <1>1, <1>4, <1>9, Zenon DEF OneLine
<1>s. Stage'
  BY <1>0, <1>1, Zenon DEF FrameInv, Stage
<1>r. Returned'
  BY <1>0, <1>1, <1>2, <1>4, Zenon DEF FrameInv, Returned, Count
<1>v. VerdictIsRight'
  <2>1. Len(storage') <= MaxLine /\ Len(storage') < MaxLine
    <3>1. Len(ahead) < MaxLine - Len(storage)
      BY <1>1, Zenon
    <3> QED BY <3>1, <1>3, <1>8
  <2> QED BY <2>1, <1>0, <1>1, <1>2, Zenon DEF FrameInv, VerdictIsRight, last
<1> QED BY <1>t, <1>h, <1>o, <1>s, <1>r, <1>v, Zenon DEF FrameInv

\* Feeding fails only if no LF comes within MaxLine bytes.
LEMMA FeedFailsFrameInv == FrameInv /\ FeedFails => FrameInv'
<1>0. SUFFICES ASSUME FrameInv, FeedFails PROVE FrameInv'
  BY Zenon
<1> DEFINE lf == FirstLF(ahead)
<1>1. /\ reading /\ Fails("LineTooLong") /\ taken' = taken
      /\ IF lf = 0 THEN Len(ahead) >= MaxLine - Len(storage) ELSE lf > MaxLine - Len(storage)
  BY <1>0, Zenon DEF FeedFails, Room
<1>3. /\ source \in Seq(Byte) /\ ahead \in Seq(Byte) /\ storage \in Seq(Byte)
      /\ MaxLine \in Nat /\ start \in Nat /\ taken \in Nat /\ taken <= Len(source)
      /\ Len(source) \in Nat /\ Len(ahead) \in Nat /\ Len(storage) \in Nat
  BY <1>0, FramingAssumption DEF FrameInv, FrameTypeOK
<1>4. ~discarded /\ ~ready
  BY <1>0, <1>1, Zenon DEF FrameInv, Stage
<1>5. /\ start + Len(storage) + Len(ahead) = taken
      /\ \A i \in 1..Len(storage) : storage[i] = source[start + i]
      /\ \A i \in 1..Len(ahead) : ahead[i] = source[start + Len(storage) + i]
  BY <1>0, <1>4, Zenon DEF FrameInv, Buffered
<1>6. Len(storage) < MaxLine /\ \A i \in 1..Len(storage) : storage[i] # "LF"
  BY <1>0, <1>4, Zenon DEF FrameInv, OneLine
<1>7. /\ lf = 0 => \A i \in 1..Len(ahead) : ahead[i] # "LF"
      /\ lf # 0 => lf \in 1..Len(ahead) /\ \A i \in 1..(lf - 1) : ahead[i] # "LF"
  BY <1>3, FirstLFIsFirst, Zenon
<1> HIDE DEF lf
<1>8. Len(ahead) >= MaxLine - Len(storage)
  BY <1>1, <1>3, <1>7
<1>9. \A i \in 1..(MaxLine - Len(storage)) : ahead[i] # "LF"
  BY <1>1, <1>3, <1>7, <1>8
<1>10. start + MaxLine <= Len(source)
  BY <1>3, <1>5, <1>8
<1>11. ASSUME NEW p \in (start + 1)..(start + MaxLine) PROVE source[p] # "LF"
  <2>1. CASE p - start <= Len(storage)
    <3>1. p - start \in 1..Len(storage) /\ start + (p - start) = p
      BY <2>1, <1>3
    <3> QED BY <3>1, <1>5, <1>6, Zenon
  <2>2. CASE p - start > Len(storage)
    <3> DEFINE i == p - start - Len(storage)
    <3>1. /\ i \in 1..(MaxLine - Len(storage)) /\ i \in 1..Len(ahead)
          /\ start + Len(storage) + i = p
      BY <2>2, <1>3, <1>8
    <3> HIDE DEF i
    <3> QED BY <3>1, <1>5, <1>9, Zenon
  <2> QED BY <2>1, <2>2, <1>3
<1> QED BY <1>0, <1>1, <1>10, <1>11, FailsFrameInv, Zenon

\* Filling the read-ahead storage preserves FrameInv.
LEMMA FillFrameInv == FrameInv /\ Fill => FrameInv'
<1>0. SUFFICES ASSUME FrameInv, Fill PROVE FrameInv'
  BY Zenon
<1>1. PICK k \in 1..MaxLine : /\ taken + k <= Len(source)
                              /\ ahead' = SubSeq(source, taken + 1, taken + k)
                              /\ taken' = taken + k
  BY <1>0, Zenon DEF Fill
<1>2. /\ reading /\ ahead = <<>> /\ source' = source /\ storage' = storage /\ ready' = ready
      /\ reading' = reading /\ verdict' = verdict /\ start' = start /\ lines' = lines
      /\ discarded' = discarded
  BY <1>0, Zenon DEF Fill, bufferVars
<1>3. /\ source \in Seq(Byte) /\ MaxLine \in Nat /\ start \in Nat /\ taken \in Nat
      /\ Len(source) \in Nat /\ Len(storage) \in Nat /\ k \in Nat /\ k >= 1
  BY <1>0, FramingAssumption DEF FrameInv, FrameTypeOK
<1>4. ~discarded
  BY <1>0, <1>2, Zenon DEF FrameInv, Stage
<1>5. /\ start + Len(storage) + Len(ahead) = taken
      /\ \A i \in 1..Len(storage) : storage[i] = source[start + i]
  BY <1>0, <1>4, Zenon DEF FrameInv, Buffered
<1>6. start + Len(storage) = taken
  BY <1>2, <1>3, <1>5
<1>7. /\ ahead' \in Seq(Byte) /\ Len(ahead') = k
      /\ \A i \in 1..k : ahead'[i] = source[taken + i]
  <2> DEFINE stop == taken + k
             piece == SubSeq(source, taken + 1, stop)
  <2>1. stop \in Nat /\ taken < stop + 1 /\ stop <= Len(source) /\ stop - taken = k
    BY <1>1, <1>3
  <2>2. ahead' = piece
    BY <1>1, Zenon
  <2> HIDE DEF stop
  <2>3. /\ piece \in Seq(Byte) /\ Len(piece) = stop - taken
        /\ \A i \in 1..(stop - taken) : piece[i] = source[taken + i]
    BY <2>1, <1>3, PieceOfBytes, Zenon
  <2> QED BY <2>1, <2>2, <2>3, Zenon
<1>8. LFs' = LFs /\ Reference' = Reference
  BY <1>2, SourceStays, Zenon
<1>t. FrameTypeOK'
  <2>1. taken' \in 0..Len(source)
    BY <1>1, <1>3
  <2> QED BY <1>0, <1>2, <1>7, <2>1, Zenon DEF FrameInv, FrameTypeOK
<1>h. Buffered'
  <2>1. start + Len(storage') + Len(ahead') = taken'
    BY <1>1, <1>2, <1>3, <1>6, <1>7, Zenon
  <2> QED BY <2>1, <1>2, <1>5, <1>6, <1>7, Zenon DEF Buffered
<1>o. OneLine' /\ Stage'
  BY <1>0, <1>2, Zenon DEF FrameInv, OneLine, Stage
<1>r. Returned'
  BY <1>0, <1>2, <1>8, Zenon DEF FrameInv, Returned, Count
<1>v. VerdictIsRight'
  BY <1>0, <1>2, <1>8, Zenon DEF FrameInv, VerdictIsRight, last
<1> QED BY <1>t, <1>h, <1>o, <1>r, <1>v, Zenon DEF FrameInv

\* EOF inside a line is told from EOF at a boundary (channel.rs:131-134).
LEMMA EofFrameInv == FrameInv /\ Eof => FrameInv'
<1>0. SUFFICES ASSUME FrameInv, Eof PROVE FrameInv'
  BY Zenon
<1>1. reading /\ ahead = <<>> /\ taken = Len(source) /\ taken' = taken
  BY <1>0, Zenon DEF Eof
<1>2. ~discarded /\ ~ready
  BY <1>0, <1>1, Zenon DEF FrameInv, Stage
<1>3. /\ source \in Seq(Byte) /\ storage \in Seq(Byte) /\ start \in Nat
      /\ lines \in Seq(Seq(Byte)) /\ Len(source) \in Nat /\ Len(storage) \in Nat
  BY <1>0 DEF FrameInv, FrameTypeOK
<1>4. /\ start + Len(storage) + Len(ahead) = taken
      /\ \A i \in 1..Len(storage) : storage[i] = source[start + i] /\ storage[i] # "LF"
  BY <1>0, <1>2, Zenon DEF FrameInv, Buffered, OneLine
<1>5. start + Len(storage) = Len(source)
  BY <1>1, <1>3, <1>4
<1>6. CASE storage # <<>>
  <2>1. Fails("UnexpectedEof")
    BY <1>0, <1>2, <1>6, Zenon DEF Eof
  <2>2. Len(storage) \in 1..Len(storage) /\ Len(source) # 0
    BY <1>3, <1>5, <1>6
  <2>3. source[Len(source)] # "LF"
    BY <2>2, <1>4, <1>5, Zenon
  <2>4. source # <<>>
    BY <2>2
  <2>5. last(source) # "LF"
    BY <2>3, Zenon DEF last
  <2> QED BY <2>1, <2>4, <2>5, <1>0, <1>1, FailsFrameInv, Zenon
<1>7. CASE storage = <<>>
  <2>1. /\ reading' = FALSE /\ verdict' = "Eof" /\ source' = source /\ ahead' = ahead
        /\ storage' = storage /\ ready' = ready /\ start' = start /\ lines' = lines
        /\ discarded' = discarded
    BY <1>0, <1>2, <1>7, Zenon DEF Eof, bufferVars
  <2>2. LFs' = LFs /\ Reference' = Reference
    BY <2>1, SourceStays, Zenon
  <2>3. start = Len(source)
    BY <1>3, <1>5, <1>7
  <2>4. Len(lines) = Cardinality(LFs) /\ Cardinality(LFs) \in Nat
    BY <2>3, <1>0, <1>2, <1>3, LFsAreFinite, Zenon DEF FrameInv, Returned
  <2>5. lines = Reference
    <3>1. \A i \in 1..Len(lines) : lines[i] = Reference[i]
      BY <1>0, Zenon DEF FrameInv, Returned
    <3>2. lines = [i \in 1..Len(lines) |-> lines[i]]
      BY <1>3
    <3>3. Reference = [i \in 1..Cardinality(LFs) |-> Reference[i]]
      BY Zenon DEF Reference
    <3> QED BY <3>1, <3>2, <3>3, <2>4, Zenon
  <2>6. source # <<>> => last(source) = "LF"
    <3>1. source # <<>> => Len(source) # 0
      BY <1>3
    <3>2. start = 0 \/ start \in LFs
      BY <1>0, Zenon DEF FrameInv, Returned
    <3> QED BY <3>1, <3>2, <2>3, Zenon DEF LFs, last
  <2>t. FrameTypeOK'
    BY <1>0, <1>1, <2>1, Zenon DEF FrameInv, FrameTypeOK, Verdicts
  <2>h. Buffered' /\ OneLine'
    BY <1>0, <1>1, <2>1, Zenon DEF FrameInv, Buffered, OneLine
  <2>s. Stage'
    BY <1>0, <1>2, <1>7, <2>1, Zenon DEF FrameInv, Stage
  <2>r. Returned'
    BY <1>0, <2>1, <2>2, Zenon DEF FrameInv, Returned, Count
  <2>v. VerdictIsRight'
    BY <1>0, <2>1, <2>2, <2>5, <2>6, Zenon DEF FrameInv, VerdictIsRight, last
  <2> QED BY <2>t, <2>h, <2>s, <2>r, <2>v, Zenon DEF FrameInv
<1> QED BY <1>6, <1>7, Zenon

\* Every step of FrameNext preserves FrameInv.
LEMMA NextFrameInv == FrameInv /\ [FrameNext]_frameVars => FrameInv'
<1>1. FrameInv /\ Cancel => FrameInv'
  <2> SUFFICES ASSUME FrameInv, Cancel PROVE FrameInv'
    BY Zenon
  <2>1. "Cancelled" # "LineTooLong" /\ "Cancelled" # "UnexpectedEof"
    BY Zenon
  <2> QED BY <2>1, FailsFrameInv, Zenon DEF Cancel
<1>2. ASSUME FrameInv, UNCHANGED frameVars PROVE FrameInv'
  <2>1. /\ source' = source /\ taken' = taken /\ ahead' = ahead /\ storage' = storage
        /\ ready' = ready /\ reading' = reading /\ verdict' = verdict /\ start' = start
        /\ lines' = lines /\ discarded' = discarded
    BY <1>2, Zenon DEF frameVars, bufferVars
  <2>2. LFs' = LFs /\ Reference' = Reference
    BY <2>1, SourceStays, Zenon
  <2>3. FrameTypeOK' /\ Buffered' /\ OneLine' /\ Stage'
    BY <1>2, <2>1, Zenon DEF FrameInv, FrameTypeOK, Buffered, OneLine, Stage
  <2>4. Returned'
    BY <1>2, <2>1, <2>2, Zenon DEF FrameInv, Returned, Count
  <2>5. VerdictIsRight'
    BY <1>2, <2>1, <2>2, Zenon DEF FrameInv, VerdictIsRight, last
  <2> QED BY <2>3, <2>4, <2>5, Zenon DEF FrameInv
<1> QED BY <1>1, <1>2, StartReadFrameInv, FeedCompletesFrameInv, FeedContinuesFrameInv,
       FeedFailsFrameInv,
           FillFrameInv, EofFrameInv, Zenon DEF FrameNext

\* FrameInv is an invariant of the byte-level receiver.
THEOREM FramingInvariance == FrameSpec => []FrameInv
<1>1. FrameInit => FrameInv
  BY InitFrameInv, Zenon
<1>2. FrameInv /\ [FrameNext]_frameVars => FrameInv'
  BY NextFrameInv, Zenon
<1> QED BY <1>1, <1>2, PTL DEF FrameSpec

\* The lines that were returned are the first ones of the reference.
LEMMA FrameInvIsFaithful == FrameInv => LinesAreFaithful
<1>0. SUFFICES ASSUME FrameInv PROVE LinesAreFaithful
  BY Zenon
<1>1. /\ source \in Seq(Byte) /\ ahead \in Seq(Byte) /\ storage \in Seq(Byte)
      /\ lines \in Seq(Seq(Byte)) /\ start \in Nat /\ taken \in Nat /\ taken <= Len(source)
      /\ Len(storage) \in Nat /\ Len(ahead) \in Nat /\ Len(lines) \in Nat
      /\ Len(source) \in Nat
  BY <1>0 DEF FrameInv, FrameTypeOK
<1>2. starts_with(Reference, lines)
  <2>1. Len(lines) <= Cardinality(LFs) /\ Cardinality(LFs) \in Nat
    BY <1>0, <1>1, LFsAreFinite, Zenon DEF FrameInv, Returned
  <2>2. \A i \in 1..Len(lines) : lines[i] = Reference[i]
    BY <1>0, Zenon DEF FrameInv, Returned
  <2>3. Len(Reference) = Cardinality(LFs)
    BY <2>1 DEF Reference
  <2>4. SubSeq(lines, 1, Len(lines)) = SubSeq(Reference, 1, Len(lines))
    BY <2>2, <1>1
  <2>5. SubSeq(lines, 1, Len(lines)) = lines
    BY <1>1
  <2> QED BY <2>1, <2>3, <2>4, <2>5, Zenon DEF starts_with
<1>3. ASSUME ~discarded PROVE SubSeq(source, start + 1, taken) = storage \o ahead
  <2>1. /\ start + Len(storage) + Len(ahead) = taken
        /\ \A i \in 1..Len(storage) : storage[i] = source[start + i]
        /\ \A i \in 1..Len(ahead) : ahead[i] = source[start + Len(storage) + i]
    BY <1>0, <1>3, Zenon DEF FrameInv, Buffered
  <2>2. /\ storage \o ahead \in Seq(Byte)
        /\ Len(storage \o ahead) = Len(storage) + Len(ahead)
        /\ \A i \in 1..(Len(storage) + Len(ahead)) :
              (storage \o ahead)[i] = IF i <= Len(storage) THEN storage[i]
                                      ELSE ahead[i - Len(storage)]
    BY <1>1, ConcatProperties, Zenon
  <2>3. start < taken + 1 /\ taken - start = Len(storage) + Len(ahead)
    BY <1>1, <2>1
  <2> DEFINE piece == SubSeq(source, start + 1, taken)
  <2>4. /\ piece \in Seq(Byte) /\ Len(piece) = taken - start
        /\ \A i \in 1..(taken - start) : piece[i] = source[start + i]
    BY <2>3, <1>1, PieceOfBytes, Zenon
  <2> HIDE DEF piece
  <2>5. ASSUME NEW i \in 1..(Len(storage) + Len(ahead))
        PROVE  (storage \o ahead)[i] = source[start + i]
    <3>1. CASE i <= Len(storage)
      <4>1. (storage \o ahead)[i] = storage[i] /\ i \in 1..Len(storage)
        BY <3>1, <1>1, <2>2
      <4> QED BY <4>1, <2>1, Zenon
    <3>2. CASE i > Len(storage)
      <4>1. i - Len(storage) \in 1..Len(ahead)
        BY <3>2, <1>1
      <4>2. (storage \o ahead)[i] = ahead[i - Len(storage)]
        BY <3>2, <1>1, <2>2
      <4>3. start + Len(storage) + (i - Len(storage)) = start + i
        BY <1>1
      <4> QED BY <4>1, <4>2, <4>3, <2>1, Zenon
    <3> QED BY <3>1, <3>2, <1>1
  <2>6. piece = storage \o ahead
    BY <2>2, <2>3, <2>4, <2>5, SeqEqual, Zenon
  <2> QED BY <2>6, Zenon DEF piece
<1> QED BY <1>2, <1>3, Zenon DEF LinesAreFaithful

\* However the stream cuts its bytes, the reader returns the lines of the source,
\* whole, in order and without their terminators (frame.rs:49-94, channel.rs:93-134).
THEOREM LinesStayFaithful == FrameSpec => []LinesAreFaithful
BY FramingInvariance, FrameInvIsFaithful, PTL

\* A line is refused as too long only if it is, and an EOF is unexpected only
\* inside a line (channel.rs:119-134).
THEOREM VerdictStaysRight == FrameSpec => []VerdictIsRight
<1>1. FrameInv => VerdictIsRight
  BY Zenon DEF FrameInv
<1> QED BY <1>1, FramingInvariance, PTL

-----------------------------------------------------------------------------
(* Data lines *)

\* Bytes of an escaped line, and those that it must not hold.
WireByte == PayloadByte \cup {"0", "A", "D"}
Raw == {"CR", "LF", "NUL"}

\* The types of the variables.
DataTypeOK ==
    /\ input \in Seq(PayloadByte) /\ rest \in Seq(PayloadByte)
    /\ buffer \in Seq(WireByte) /\ received \in Seq(PayloadByte)
    /\ read \in Nat /\ written \in Nat /\ turn \in {"encode", "decode", "done"}

\* How much of the payload the sender has encoded.
Sent == Len(input) - Len(rest)

\* Where the receiver, the line and the sender stand in the payload.
Pieces ==
    /\ Len(rest) <= Len(input) /\ Len(received) + written <= Sent
    /\ \A i \in 1..Len(rest) : rest[i] = input[Sent + i]
    /\ \A i \in 1..Len(received) : received[i] = input[i]
    /\ \A i \in 1..written : buffer[i] = input[Len(received) + i]

\* Escapes of the bytes that are not decoded yet are where they were written.
Escapes ==
    /\ read = EscapedSize(input, Len(received) + written) - EscapedSize(input, Len(received))
    /\ Len(buffer) = EscapedSize(input, Sent) - EscapedSize(input, Len(received))
    /\ \A j \in (Len(received) + written + 1)..Sent : \A m \in 1..Cost(input[j]) :
          buffer[EscapedSize(input, j - 1) - EscapedSize(input, Len(received)) + m]
          = Escape(input[j])[m]

\* A line that is complete fits, and is cut short only when it is full.
Lines ==
    /\ turn # "decode" => read = 0 /\ written = 0
    /\ turn = "done" => rest = <<>> /\ buffer = <<>>
    /\ turn = "encode" \/ (turn = "decode" /\ read = 0) =>
          /\ Len(buffer) + 3 <= MaxLine
          /\ \A i \in 1..Len(buffer) : buffer[i] \notin Raw
    /\ turn = "decode" /\ read = 0 /\ rest # <<>> =>
          2 + Len(buffer) + Cost(Head(rest)) + 1 > MaxLine

\* The inductive invariant of DataLines.
DataInv == DataTypeOK /\ Pieces /\ Escapes /\ Lines

-----------------------------------------------------------------------------
\* What encode_data_chunk (encode.rs:37-70) writes for one byte.
LEMMA EscapeShape ==
    ASSUME NEW b \in PayloadByte
    PROVE  /\ Cost(b) \in 1..3 /\ Escape(b) \in Seq(WireByte) /\ Len(Escape(b)) = Cost(b)
           /\ \A m \in 1..Cost(b) : Escape(b)[m] \notin Raw
           /\ b \in DOMAIN Hex => /\ Cost(b) = 3 /\ Escape(b)[1] = "%"
                                  /\ Hex[b] = <<Escape(b)[2], Escape(b)[3]>>
           /\ b \notin DOMAIN Hex => Cost(b) = 1 /\ Escape(b)[1] = b /\ b # "%"
<1>1. CASE b = "%"
  BY <1>1 DEF Cost, Escape, Hex, WireByte, PayloadByte, Raw
<1>2. CASE b = "CR"
  BY <1>2 DEF Cost, Escape, Hex, WireByte, PayloadByte, Raw
<1>3. CASE b = "LF"
  BY <1>3 DEF Cost, Escape, Hex, WireByte, PayloadByte, Raw
<1>4. CASE b = "NUL"
  BY <1>4 DEF Cost, Escape, Hex, WireByte, PayloadByte, Raw
<1>5. CASE b \notin {"%", "CR", "LF", "NUL"}
  BY <1>5 DEF Cost, Escape, Hex, WireByte, PayloadByte, Raw
<1> QED BY <1>1, <1>2, <1>3, <1>4, <1>5, Zenon

\* Two hex digits determine the byte.
LEMMA HexIsInjective ==
    ASSUME NEW b \in DOMAIN Hex, NEW c \in DOMAIN Hex, Hex[b] = Hex[c]
    PROVE  b = c
BY DEF Hex

\* Each byte adds what it costs to the size of the escaped form,
LEMMA EscapedSizeGrows ==
    ASSUME NEW s, NEW n \in Nat
    PROVE  /\ EscapedSize(s, n) \in Nat /\ EscapedSize(s, 0) = 0
           /\ EscapedSize(s, n + 1) = EscapedSize(s, n) + Cost(s[n + 1])
<1> DEFINE Special(k) == {i \in 1..k : s[i] \in DOMAIN Hex}
<1>1. \A k \in Nat : IsFiniteSet(Special(k)) /\ Cardinality(Special(k)) \in Nat
  <2>1. TAKE k \in Nat
  <2>2. IsFiniteSet(1..k)
    BY FS_Interval
  <2>3. Special(k) \in SUBSET (1..k)
    BY Zenon
  <2> QED BY <2>2, <2>3, FS_Subset, FS_CardinalityType, Zenon
<1>2. Special(0) = {}
  OBVIOUS
<1>3. Cardinality(Special(0)) = 0
  BY <1>2, FS_EmptySet, Zenon
<1>4. CASE s[n + 1] \in DOMAIN Hex
  <2>1. Special(n + 1) = Special(n) \cup {n + 1} /\ n + 1 \notin Special(n)
    BY <1>4
  <2>2. Cardinality(Special(n + 1)) = Cardinality(Special(n)) + 1
    BY <2>1, <1>1, FS_AddElement, Zenon
  <2> HIDE DEF Special
  <2>3. EscapedSize(s, n + 1) = (n + 1) + 2 * Cardinality(Special(n + 1))
    BY Zenon DEF EscapedSize, Special
  <2>4. /\ EscapedSize(s, n) = n + 2 * Cardinality(Special(n))
        /\ EscapedSize(s, 0) = 0 + 2 * Cardinality(Special(0))
    BY Zenon DEF EscapedSize, Special
  <2> QED BY <2>2, <2>3, <2>4, <1>1, <1>3, <1>4 DEF Cost
<1>5. CASE s[n + 1] \notin DOMAIN Hex
  <2>1. Special(n + 1) = Special(n)
    BY <1>5
  <2> HIDE DEF Special
  <2>3. EscapedSize(s, n + 1) = (n + 1) + 2 * Cardinality(Special(n + 1))
    BY Zenon DEF EscapedSize, Special
  <2>4. /\ EscapedSize(s, n) = n + 2 * Cardinality(Special(n))
        /\ EscapedSize(s, 0) = 0 + 2 * Cardinality(Special(0))
    BY Zenon DEF EscapedSize, Special
  <2> QED BY <2>1, <2>3, <2>4, <1>1, <1>3, <1>5 DEF Cost
<1> QED BY <1>4, <1>5, Zenon

\* which is never smaller than the bytes themselves.
LEMMA EscapedSizeMonotonic ==
    ASSUME NEW s, NEW a \in Nat, NEW b \in Nat, a <= b
    PROVE  EscapedSize(s, b) - EscapedSize(s, a) >= b - a
<1> DEFINE Special(k) == {i \in 1..k : s[i] \in DOMAIN Hex}
<1>1. IsFiniteSet(1..a) /\ IsFiniteSet(1..b)
  BY FS_Interval
<1>2. Special(a) \in SUBSET (1..a) /\ Special(b) \in SUBSET (1..b)
  BY Zenon
<1>3. \A i \in 1..a : i \in 1..b
  OBVIOUS
<1>4. Special(a) \in SUBSET Special(b)
  BY <1>3, Zenon
<1>5. /\ Cardinality(Special(a)) \in Nat /\ Cardinality(Special(b)) \in Nat
      /\ Cardinality(Special(a)) <= Cardinality(Special(b))
  BY <1>1, <1>2, <1>4, FS_Subset, FS_CardinalityType, Zenon
<1>6. /\ EscapedSize(s, a) = a + 2 * Cardinality(Special(a))
      /\ EscapedSize(s, b) = b + 2 * Cardinality(Special(b))
  BY Zenon DEF EscapedSize
<1> HIDE DEF Special
<1> QED BY <1>5, <1>6

\* DataInv holds initially.
LEMMA DataInitInv ==
    ASSUME DataInit
    PROVE  DataInv
<1>1. input \in Seq(PayloadByte) /\ MaxLine \in Nat /\ MaxLine >= 6
  BY DataAssumption DEF DataInit, SeqUpTo
<1>2. /\ rest = input /\ buffer = <<>> /\ received = <<>>
      /\ read = 0 /\ written = 0 /\ turn = "encode"
  BY Zenon DEF DataInit
<1>3. DataTypeOK
  BY <1>1, <1>2 DEF DataTypeOK
<1>4. Len(buffer) = 0 /\ Len(received) = 0 /\ Sent = 0
  BY <1>1, <1>2 DEF Sent
<1>5. Pieces
  BY <1>1, <1>2, <1>4 DEF Pieces
<1>6. EscapedSize(input, 0) = 0
  BY EscapedSizeGrows, Zenon
<1>7. Escapes
  BY <1>2, <1>4, <1>6 DEF Escapes
<1>8. Lines
  BY <1>1, <1>2, <1>4 DEF Lines
<1> QED BY <1>3, <1>5, <1>7, <1>8, Zenon DEF DataInv

\* The next byte to encode is the payload's at that position.
LEMMA SentPosition ==
    ASSUME DataInv, rest # <<>>
    PROVE  /\ Head(rest) \in PayloadByte /\ Tail(rest) \in Seq(PayloadByte)
           /\ Len(rest) \in Nat \ {0} /\ Len(Tail(rest)) = Len(rest) - 1
           /\ Head(rest) = input[Sent + 1]
           /\ \A i \in 1..Len(rest) - 1 : Tail(rest)[i] = rest[i + 1]
<1>1. rest \in Seq(PayloadByte)
  BY Zenon DEF DataInv, DataTypeOK
<1>2. Len(rest) \in Nat \ {0}
  BY <1>1
<1>3. \A i \in 1..Len(rest) : rest[i] = input[Sent + i]
  BY Zenon DEF DataInv, Pieces
<1> QED BY <1>1, <1>2, <1>3

\* Encoding a byte that fits preserves DataInv.
LEMMA EncodeByteInv ==
    ASSUME DataInv, EncodeByte
    PROVE  DataInv'
<1> DEFINE b == Head(rest)
           f == Len(received)
<1>1. /\ turn = "encode" /\ rest # <<>> /\ 2 + Len(buffer) + Cost(b) < MaxLine
      /\ buffer' = buffer \o Escape(b) /\ rest' = Tail(rest)
      /\ input' = input /\ read' = read /\ written' = written
      /\ received' = received /\ turn' = turn
  BY Zenon DEF EncodeByte, Fits
<1>2. /\ input \in Seq(PayloadByte) /\ rest \in Seq(PayloadByte)
      /\ buffer \in Seq(WireByte) /\ received \in Seq(PayloadByte)
      /\ read \in Nat /\ written \in Nat /\ turn \in {"encode", "decode", "done"}
  BY Zenon DEF DataInv, DataTypeOK
<1>3. read = 0 /\ written = 0
  BY <1>1, Zenon DEF DataInv, Lines
<1>4. /\ b \in PayloadByte /\ Tail(rest) \in Seq(PayloadByte)
      /\ Len(rest) \in Nat \ {0} /\ Len(Tail(rest)) = Len(rest) - 1
      /\ b = input[Sent + 1]
      /\ \A i \in 1..Len(rest) - 1 : Tail(rest)[i] = rest[i + 1]
  BY <1>1, SentPosition, Zenon
<1>5. /\ Cost(b) \in 1..3 /\ Escape(b) \in Seq(WireByte) /\ Len(Escape(b)) = Cost(b)
      /\ \A m \in 1..Cost(b) : Escape(b)[m] \notin Raw
  BY <1>4, EscapeShape, Zenon
<1> HIDE DEF b
<1>6. /\ Len(input) \in Nat /\ Len(rest) \in Nat /\ Len(received) \in Nat
      /\ Len(buffer) \in Nat /\ MaxLine \in Nat
  BY <1>2, DataAssumption
<1>7. Len(rest) <= Len(input) /\ Len(received) <= Sent /\ Sent \in Nat
  BY <1>3, <1>6 DEF DataInv, Pieces, Sent
<1>8. Sent' = Sent + 1
  BY <1>1, <1>4, <1>6 DEF Sent
<1>9. /\ EscapedSize(input, Sent + 1) = EscapedSize(input, Sent) + Cost(b)
      /\ EscapedSize(input, Sent) \in Nat
      /\ EscapedSize(input, Sent + 1) \in Nat /\ EscapedSize(input, f) \in Nat
  <2>1. Sent + 1 \in Nat /\ f \in Nat
    BY <1>6, <1>7
  <2> QED BY <2>1, <1>4, <1>7, EscapedSizeGrows, Zenon
<1>10. /\ buffer' \in Seq(WireByte) /\ Len(buffer') = Len(buffer) + Cost(b)
       /\ \A i \in 1..Len(buffer) : buffer'[i] = buffer[i]
       /\ \A m \in 1..Cost(b) : buffer'[Len(buffer) + m] = Escape(b)[m]
  <2>1. buffer \o Escape(b) \in Seq(WireByte) /\ Len(buffer \o Escape(b)) = Len(buffer) + Cost(b)
    BY <1>2, <1>5, ConcatProperties, Zenon
  <2>2. \A i \in 1..Len(buffer) : (buffer \o Escape(b))[i] = buffer[i]
    BY <1>2, <1>5, <1>6
  <2>3. \A m \in 1..Cost(b) : (buffer \o Escape(b))[Len(buffer) + m] = Escape(b)[m]
    BY <1>2, <1>5, <1>6
  <2> QED BY <2>1, <2>2, <2>3, <1>1, Zenon
<1>11. DataTypeOK'
  BY <1>1, <1>2, <1>4, <1>10, Zenon DEF DataTypeOK
<1>12. Pieces'
  <2>1. Len(rest') <= Len(input') /\ Len(received') + written' <= Sent'
    BY <1>1, <1>3, <1>4, <1>6, <1>7, <1>8
  <2>2. \A i \in 1..Len(rest') : rest'[i] = input'[Sent' + i]
    <3>1. \A i \in 1..Len(rest) : rest[i] = input[Sent + i]
      BY Zenon DEF DataInv, Pieces
    <3> QED BY <3>1, <1>1, <1>4, <1>6, <1>7, <1>8
  <2>3. \A i \in 1..Len(received') : received'[i] = input'[i]
    BY <1>1, Zenon DEF DataInv, Pieces
  <2>4. \A i \in 1..written' : buffer'[i] = input'[Len(received') + i]
    BY <1>1, <1>3
  <2> QED BY <2>1, <2>2, <2>3, <2>4, Zenon DEF Pieces
<1>14. Escapes'
  <2>1. read' = EscapedSize(input', Len(received') + written') - EscapedSize(input', Len(received'))
    BY <1>1, Zenon DEF DataInv, Escapes
  <2>2. Len(buffer) = EscapedSize(input, Sent) - EscapedSize(input, f)
    BY Zenon DEF DataInv, Escapes
  <2>3. Len(buffer') = EscapedSize(input, Sent + 1) - EscapedSize(input, f)
    BY <2>2, <1>9, <1>10, <1>5
  <2>4. ASSUME NEW j \in (f + 1)..(Sent + 1), NEW m \in 1..Cost(input[j])
        PROVE  buffer'[EscapedSize(input, j - 1) - EscapedSize(input, f) + m] = Escape(input[j])[m]
    <3>1. CASE j = Sent + 1
      <4>1. input[j] = b /\ j - 1 = Sent
        BY <3>1, <1>4, <1>7
      <4> QED BY <4>1, <2>2, <1>10, Zenon
    <3>2. CASE j \in (f + 1)..Sent
      <4>1. buffer[EscapedSize(input, j - 1) - EscapedSize(input, f) + m] = Escape(input[j])[m]
        <5>1. j \in (f + written + 1)..Sent
          BY <3>2, <1>3, <1>6
        <5> QED BY <5>1, Zenon DEF DataInv, Escapes
      <4>2. /\ j \in Nat /\ j - 1 \in Nat /\ f <= j - 1 /\ j <= Sent /\ j = (j - 1) + 1
            /\ j \in 1..Len(input)
        BY <3>2, <1>6, <1>7 DEF Sent
      <4>3. input[j] \in PayloadByte
        BY <4>2, <1>2
      <4>4. Cost(input[j]) \in 1..3
        BY <4>3, EscapeShape, Zenon
      <4>5. /\ EscapedSize(input, j) = EscapedSize(input, j - 1) + Cost(input[j])
            /\ EscapedSize(input, j - 1) \in Nat
        BY <4>2, EscapedSizeGrows, Zenon
      <4>6. /\ EscapedSize(input, j - 1) - EscapedSize(input, f) >= 0
            /\ EscapedSize(input, Sent) - EscapedSize(input, j) >= 0
        <5>1. EscapedSize(input, j - 1) - EscapedSize(input, f) >= (j - 1) - f
          BY <4>2, <1>6, EscapedSizeMonotonic, Zenon
        <5>2. EscapedSize(input, Sent) - EscapedSize(input, j) >= Sent - j
          BY <4>2, <1>7, EscapedSizeMonotonic, Zenon
        <5>3. (j - 1) - f >= 0 /\ Sent - j >= 0
          BY <4>2, <1>6, <1>7
        <5> DEFINE x == (j - 1) - f
                   y == Sent - j
                   u == EscapedSize(input, j - 1)
                   v == EscapedSize(input, j)
                   z == EscapedSize(input, f)
                   w == EscapedSize(input, Sent)
        <5>4. x \in Nat /\ y \in Nat
          BY <5>3, <4>2, <1>6, <1>7
        <5>5. u \in Nat /\ v \in Nat /\ z \in Nat /\ w \in Nat
          BY <4>2, <1>9, EscapedSizeGrows, Zenon
        <5>6. u - z >= x /\ w - v >= y
          BY <5>1, <5>2, Zenon
        <5> HIDE DEF x, y, u, v, z, w
        <5>7. u - z >= 0 /\ w - v >= 0
          BY <5>4, <5>5, <5>6
        <5> QED BY <5>7, Zenon DEF u, v, z, w
      <4>7. EscapedSize(input, j - 1) - EscapedSize(input, f) + m \in 1..Len(buffer)
        <5> DEFINE u == EscapedSize(input, j - 1)
                   v == EscapedSize(input, j)
                   z == EscapedSize(input, f)
                   w == EscapedSize(input, Sent)
                   c == Cost(input[j])
        <5>1. /\ u \in Nat /\ v = u + c /\ z \in Nat /\ w \in Nat /\ c \in 1..3 /\ m \in 1..c
              /\ u - z >= 0 /\ w - v >= 0 /\ Len(buffer) = w - z
          BY <4>4, <4>5, <4>6, <1>9, <2>2, Zenon
        <5> HIDE DEF u, v, z, w, c
        <5>2. u - z + m \in 1..(w - z)
          BY <5>1
        <5> QED BY <5>1, <5>2, Zenon DEF u, z, w
      <4> QED BY <4>1, <4>7, <1>10, Zenon
    <3> QED BY <3>1, <3>2, <1>6, <1>7
  <2>5. /\ Len(received') = f /\ written' = 0 /\ Sent' = Sent + 1 /\ input' = input
        /\ f + 0 + 1 = f + 1
    BY <1>1, <1>3, <1>6, <1>8
  <2>6. Len(buffer') = EscapedSize(input', Sent') - EscapedSize(input', Len(received'))
    BY <2>3, <2>5, Zenon
  <2>7. \A j \in (Len(received') + written' + 1)..Sent' : \A m \in 1..Cost(input'[j]) :
           buffer'[EscapedSize(input', j - 1) - EscapedSize(input', Len(received')) + m]
           = Escape(input'[j])[m]
    <3>1. (Len(received') + written' + 1)..Sent' = (f + 1)..(Sent + 1)
      BY <2>5, Zenon
    <3>2. \A j \in (f + 1)..(Sent + 1) : \A m \in 1..Cost(input[j]) :
             buffer'[EscapedSize(input, j - 1) - EscapedSize(input, f) + m] = Escape(input[j])[m]
      BY <2>4, Zenon
    <3>3. input' = input /\ received' = received
      BY <1>1, Zenon
    <3> QED BY <3>1, <3>2, <3>3, Zenon
  <2> QED BY <2>1, <2>6, <2>7, Zenon DEF Escapes
<1>15. Lines'
  <2>1. \A i \in 1..Len(buffer') : buffer'[i] \notin Raw
    <3>1. \A i \in 1..Len(buffer) : buffer[i] \notin Raw
      BY <1>1, Zenon DEF DataInv, Lines
    <3>2. ASSUME NEW i \in 1..Len(buffer')
          PROVE  i \in 1..Len(buffer) \/ \E m \in 1..Cost(b) : i = Len(buffer) + m
      <4>1. CASE i <= Len(buffer)
        BY <4>1, <1>6
      <4>2. CASE ~(i <= Len(buffer))
        <5>1. i - Len(buffer) \in 1..Cost(b) /\ i = Len(buffer) + (i - Len(buffer))
          BY <4>2, <1>5, <1>6, <1>10
        <5> QED BY <5>1, Zenon
      <4> QED BY <4>1, <4>2, Zenon
    <3> QED BY <3>1, <3>2, <1>5, <1>10, Zenon
  <2>2. Len(buffer') + 3 <= MaxLine
    BY <1>1, <1>5, <1>6, <1>10
  <2> QED BY <2>1, <2>2, <1>1, <1>3, Zenon DEF Lines
<1> QED BY <1>11, <1>12, <1>14, <1>15, Zenon DEF DataInv

\* A line ends with the payload or before a byte that does not fit.
LEMMA EncodeEndsInv ==
    ASSUME DataInv, EncodeEnds
    PROVE  DataInv'
<1>1. /\ turn = "encode" /\ (rest # <<>> => ~(2 + Len(buffer) + Cost(Head(rest)) < MaxLine))
      /\ turn' = "decode" /\ input' = input /\ rest' = rest /\ buffer' = buffer
      /\ read' = read /\ written' = written /\ received' = received
  BY Zenon DEF EncodeEnds, Fits
<1>2. DataTypeOK'
  BY <1>1, Zenon DEF DataInv, DataTypeOK
<1>3. Pieces'
  BY <1>1, Zenon DEF DataInv, Pieces, Sent
<1>4. Escapes'
  BY <1>1, Zenon DEF DataInv, Escapes, Sent
<1>5. Lines'
  <2>1. /\ Len(buffer) + 3 <= MaxLine
        /\ \A i \in 1..Len(buffer) : buffer[i] \notin Raw
    BY <1>1, Zenon DEF DataInv, Lines
  <2>2. rest # <<>> => 2 + Len(buffer) + Cost(Head(rest)) + 1 > MaxLine
    <3>1. ASSUME rest # <<>>
          PROVE  Cost(Head(rest)) \in Nat
      BY <3>1, SentPosition, EscapeShape
    <3>2. Len(buffer) \in Nat /\ MaxLine \in Nat
      BY DataAssumption DEF DataInv, DataTypeOK
    <3> QED BY <3>1, <3>2, <1>1
  <2> QED BY <2>1, <2>2, <1>1, Zenon DEF Lines
<1> QED BY <1>2, <1>3, <1>4, <1>5, Zenon DEF DataInv

\* What the second loop of decode_data_in_place finds at its cursor.
LEMMA NextEscape ==
    ASSUME DataInv, read < Len(buffer)
    PROVE  LET j == Len(received) + written + 1
               base == EscapedSize(input, Len(received)) IN
           /\ j \in 1..Sent /\ j <= Len(input) /\ input[j] \in PayloadByte
           /\ EscapedSize(input, j) = EscapedSize(input, j - 1) + Cost(input[j])
           /\ read = EscapedSize(input, j - 1) - base
           /\ EscapedSize(input, j) - base <= Len(buffer)
           /\ written <= read
           /\ \A m \in 1..Cost(input[j]) : buffer[read + m] = Escape(input[j])[m]
<1> DEFINE f == Len(received)
           k == f + written
           j == k + 1
<1>1. /\ input \in Seq(PayloadByte) /\ f \in Nat /\ written \in Nat /\ read \in Nat
      /\ Len(input) \in Nat /\ Len(rest) \in Nat /\ Len(buffer) \in Nat
  BY DEF DataInv, DataTypeOK
<1>2. Len(rest) <= Len(input) /\ k <= Sent /\ Sent = Len(input) - Len(rest)
  BY Zenon DEF DataInv, Pieces, Sent
<1>3. /\ read = EscapedSize(input, k) - EscapedSize(input, f)
      /\ Len(buffer) = EscapedSize(input, Sent) - EscapedSize(input, f)
      /\ \A i \in (f + written + 1)..Sent : \A m \in 1..Cost(input[i]) :
            buffer[EscapedSize(input, i - 1) - EscapedSize(input, f) + m] = Escape(input[i])[m]
  BY Zenon DEF DataInv, Escapes
<1>4. k # Sent
  <2>1. SUFFICES ASSUME k = Sent
                 PROVE  FALSE
    BY Zenon
  <2>2. read = Len(buffer)
    BY <2>1, <1>3, Zenon
  <2> QED BY <2>2, <1>1
<1>5. /\ k \in Nat /\ j \in Nat /\ j \in 1..Sent /\ j <= Len(input) /\ j <= Sent /\ Sent \in Nat
      /\ j - 1 = k /\ f <= k /\ k - f = written /\ j \in (f + written + 1)..Sent
      /\ j \in 1..Len(input) /\ 0 <= Sent - j
  BY <1>1, <1>2, <1>4
<1>6. input[j] \in PayloadByte
  BY <1>1, <1>5
<1> HIDE DEF f, k, j
<1>7. /\ EscapedSize(input, j) = EscapedSize(input, k) + Cost(input[j])
      /\ EscapedSize(input, k) \in Nat /\ EscapedSize(input, j) \in Nat
      /\ EscapedSize(input, f) \in Nat /\ EscapedSize(input, Sent) \in Nat
  BY <1>1, <1>5, EscapedSizeGrows, Zenon DEF j
<1>8. /\ EscapedSize(input, k) - EscapedSize(input, f) >= written
      /\ EscapedSize(input, Sent) - EscapedSize(input, j) >= Sent - j
  BY <1>1, <1>5, EscapedSizeMonotonic, Zenon
<1>9. EscapedSize(input, j) - EscapedSize(input, f) <= Len(buffer) /\ written <= read
  <2> DEFINE u == EscapedSize(input, k)
             v == EscapedSize(input, j)
             z == EscapedSize(input, f)
             w == EscapedSize(input, Sent)
             y == Sent - j
  <2>1. /\ u \in Nat /\ v \in Nat /\ z \in Nat /\ w \in Nat
        /\ u - z >= written /\ w - v >= y /\ 0 <= y /\ read = u - z /\ Len(buffer) = w - z
    BY <1>3, <1>5, <1>7, <1>8, Zenon
  <2>2. y \in Int
    BY <1>5
  <2> HIDE DEF u, v, z, w, y
  <2>3. v - z <= w - z /\ written <= u - z
    BY <2>1, <2>2, <1>1
  <2> QED BY <2>1, <2>3, Zenon DEF v, z
<1>10. \A m \in 1..Cost(input[j]) : buffer[read + m] = Escape(input[j])[m]
  <2>1. \A m \in 1..Cost(input[j]) :
           buffer[EscapedSize(input, j - 1) - EscapedSize(input, f) + m] = Escape(input[j])[m]
    BY <1>3, <1>5, Zenon
  <2> QED BY <2>1, <1>3, <1>5, Zenon
<1> QED BY <1>3, <1>5, <1>6, <1>7, <1>9, <1>10, Zenon DEF f, k, j

\* Either way decode_data_in_place stores the byte that was escaped.
LEMMA DecodedByte ==
    ASSUME DataInv, DecodeByte
    PROVE  LET j == Len(received) + written + 1 IN
           /\ buffer' = [buffer EXCEPT ![written + 1] = input[j]]
           /\ read' = read + Cost(input[j])
<1> DEFINE b == input[Len(received) + written + 1]
<1>1. /\ read < Len(buffer) /\ written' = written + 1
      /\ IF buffer[read + 1] = "%"
         THEN /\ buffer' = [buffer EXCEPT ![written + 1] =
                   CHOOSE c \in DOMAIN Hex : Hex[c] = <<buffer[read + 2], buffer[read + 3]>>]
              /\ read' = read + 3
         ELSE /\ buffer' = [buffer EXCEPT ![written + 1] = buffer[read + 1]]
              /\ read' = read + 1
  BY Zenon DEF DecodeByte
<1>2. b \in PayloadByte /\ \A m \in 1..Cost(b) : buffer[read + m] = Escape(b)[m]
  BY <1>1, NextEscape, Zenon
<1> HIDE DEF b
<1>3. CASE b \in DOMAIN Hex
  <2>1. Cost(b) = 3 /\ Escape(b)[1] = "%" /\ Hex[b] = <<Escape(b)[2], Escape(b)[3]>>
    BY <1>2, <1>3, EscapeShape, Zenon
  <2>2. 1 \in 1..3 /\ 2 \in 1..3 /\ 3 \in 1..3
    OBVIOUS
  <2>3. /\ buffer[read + 1] = "%"
        /\ Hex[b] = <<buffer[read + 2], buffer[read + 3]>>
    BY <2>1, <2>2, <1>2, Zenon
  <2>4. (CHOOSE c \in DOMAIN Hex : Hex[c] = <<buffer[read + 2], buffer[read + 3]>>) = b
    <3> DEFINE c0 == CHOOSE c \in DOMAIN Hex : Hex[c] = <<buffer[read + 2], buffer[read + 3]>>
    <3>1. c0 \in DOMAIN Hex /\ Hex[c0] = <<buffer[read + 2], buffer[read + 3]>>
      BY <2>3, <1>3, Zenon
    <3> HIDE DEF c0
    <3>2. c0 = b
      BY <3>1, <2>3, <1>3, HexIsInjective, Zenon
    <3> QED BY <3>2, Zenon DEF c0
  <2> QED BY <1>1, <2>1, <2>3, <2>4, Zenon DEF b
<1>4. CASE b \notin DOMAIN Hex
  <2>1. Cost(b) = 1 /\ Escape(b)[1] = b /\ b # "%"
    BY <1>2, <1>4, EscapeShape, Zenon
  <2>2. 1 \in 1..1
    OBVIOUS
  <2>3. buffer[read + 1] = b /\ b # "%"
    BY <2>1, <2>2, <1>2, Zenon
  <2> QED BY <1>1, <2>1, <2>3, Zenon DEF b
<1> QED BY <1>3, <1>4, Zenon

\* Decoding a byte in place preserves DataInv: the writer never overtakes the reader.
LEMMA DecodeByteInv ==
    ASSUME DataInv, DecodeByte
    PROVE  DataInv'
<1> DEFINE f == Len(received)
           j == f + written + 1
           u == EscapedSize(input, j - 1)
           v == EscapedSize(input, j)
           z == EscapedSize(input, f)
<1>1. /\ turn = "decode" /\ read < Len(buffer) /\ written' = written + 1
      /\ input' = input /\ rest' = rest /\ received' = received /\ turn' = turn
  BY Zenon DEF DecodeByte
<1>2. buffer' = [buffer EXCEPT ![written + 1] = input[j]] /\ read' = read + Cost(input[j])
  BY DecodedByte, Zenon
<1>3. /\ j \in 1..Sent /\ j <= Len(input) /\ input[j] \in PayloadByte
      /\ v = u + Cost(input[j]) /\ read = u - z /\ v - z <= Len(buffer)
      /\ written <= read
  BY <1>1, NextEscape, Zenon
<1>4. /\ input \in Seq(PayloadByte) /\ rest \in Seq(PayloadByte)
      /\ buffer \in Seq(WireByte) /\ received \in Seq(PayloadByte)
      /\ read \in Nat /\ written \in Nat /\ turn \in {"encode", "decode", "done"}
  BY Zenon DEF DataInv, DataTypeOK
<1>5. f \in Nat /\ Len(buffer) \in Nat /\ Len(input) \in Nat /\ Len(rest) \in Nat
  BY <1>4
<1>6. Cost(input[j]) \in 1..3
  BY <1>3, EscapeShape, Zenon
<1>7. j \in Nat /\ Sent' = Sent /\ f + written' = j /\ Sent \in Nat /\ j <= Sent
  BY <1>1, <1>3, <1>4, <1>5 DEF Sent
<1>8. u \in Nat /\ v \in Nat /\ z \in Nat
  <2>1. j - 1 \in Nat
    BY <1>3
  <2> QED BY <2>1, <1>5, <1>7, EscapedSizeGrows, Zenon
<1>9. written + 1 \in 1..Len(buffer) /\ read' \in Nat /\ written' \in Nat
  BY <1>1, <1>2, <1>3, <1>4, <1>5, <1>6
<1>10. input[j] \in WireByte
  BY <1>3, Zenon DEF WireByte
<1>11. /\ buffer' \in Seq(WireByte) /\ Len(buffer') = Len(buffer)
       /\ buffer'[written + 1] = input[j]
       /\ \A i \in 1..Len(buffer) : i # written + 1 => buffer'[i] = buffer[i]
  <2> DEFINE b == input[j]
  <2>1. b \in WireByte /\ buffer' = [buffer EXCEPT ![written + 1] = b]
    BY <1>2, <1>10, Zenon
  <2> HIDE DEF b
  <2>2. /\ buffer' \in Seq(WireByte) /\ Len(buffer') = Len(buffer)
        /\ buffer'[written + 1] = b
        /\ \A i \in 1..Len(buffer) : i # written + 1 => buffer'[i] = buffer[i]
    BY <2>1, <1>4, <1>9
  <2> QED BY <2>2, Zenon DEF b
<1>12. DataTypeOK'
  BY <1>1, <1>4, <1>9, <1>11, Zenon DEF DataTypeOK
<1>13. Pieces'
  <2>1. Len(rest') <= Len(input') /\ Len(received') + written' <= Sent'
    <3>1. Len(rest) <= Len(input)
      BY Zenon DEF DataInv, Pieces
    <3> QED BY <3>1, <1>1, <1>7, Zenon
  <2>2. /\ \A i \in 1..Len(rest') : rest'[i] = input'[Sent' + i]
        /\ \A i \in 1..Len(received') : received'[i] = input'[i]
    BY <1>1, <1>7, Zenon DEF DataInv, Pieces
  <2>3. ASSUME NEW i \in 1..written'
        PROVE  buffer'[i] = input[f + i]
    <3>1. CASE i = written + 1
      <4>1. f + i = j
        BY <3>1, <1>4, <1>5
      <4> QED BY <3>1, <4>1, <1>11, Zenon
    <3>2. CASE i \in 1..written
      <4>1. buffer[i] = input[f + i]
        BY <3>2, Zenon DEF DataInv, Pieces
      <4>2. i \in 1..Len(buffer) /\ i # written + 1
        BY <3>2, <1>4, <1>5, <1>9
      <4> QED BY <4>1, <4>2, <1>11, Zenon
    <3> QED BY <3>1, <3>2, <1>1, <1>4
  <2>4. \A i \in 1..written' : buffer'[i] = input'[Len(received') + i]
    BY <2>3, <1>1, Zenon
  <2> QED BY <2>1, <2>2, <2>4, Zenon DEF Pieces
<1>14. Escapes'
  <2>1. read' = EscapedSize(input', Len(received') + written') - EscapedSize(input', Len(received'))
    <3> HIDE DEF u, v, z
    <3>1. read' = v - z
      BY <1>2, <1>3, <1>6, <1>8
    <3>2. /\ EscapedSize(input', Len(received') + written') = v
          /\ EscapedSize(input', Len(received')) = z
      BY <1>1, <1>7, Zenon DEF v, z
    <3> QED BY <3>1, <3>2, Zenon
  <2>2. Len(buffer') = EscapedSize(input', Sent') - EscapedSize(input', Len(received'))
    BY <1>1, <1>7, <1>11, Zenon DEF DataInv, Escapes
  <2>3. ASSUME NEW i \in (j + 1)..Sent, NEW m \in 1..Cost(input[i])
        PROVE  buffer'[EscapedSize(input, i - 1) - EscapedSize(input, f) + m] = Escape(input[i])[m]
    <3> DEFINE x == EscapedSize(input, i - 1)
               y == EscapedSize(input, i)
               w == EscapedSize(input, Sent)
    <3>1. /\ i \in Nat /\ i - 1 \in Nat /\ j <= i - 1 /\ i <= Sent /\ i = (i - 1) + 1
          /\ i \in 1..Len(input) /\ (i - 1) - j \in Nat /\ Sent - i \in Nat
          /\ i \in (f + written + 1)..Sent
      BY <1>4, <1>5, <1>7 DEF Sent
    <3>2. input[i] \in PayloadByte
      BY <3>1, <1>4
    <3>3. Cost(input[i]) \in 1..3
      BY <3>2, EscapeShape, Zenon
    <3>4. buffer[x - z + m] = Escape(input[i])[m]
      BY <3>1, Zenon DEF DataInv, Escapes
    <3>5. y = x + Cost(input[i]) /\ x \in Nat /\ y \in Nat /\ w \in Nat
      BY <3>1, <1>7, EscapedSizeGrows, Zenon
    <3>6. x - v >= (i - 1) - j /\ w - y >= Sent - i /\ Len(buffer) = w - z
      BY <3>1, <1>7, EscapedSizeMonotonic, Zenon DEF DataInv, Escapes
    <3> DEFINE p == (i - 1) - j
               q == Sent - i
               c == Cost(input[j])
               d == Cost(input[i])
    <3>7. /\ p \in Nat /\ q \in Nat /\ x - v >= p /\ w - y >= q /\ v = u + c /\ y = x + d
          /\ c \in 1..3 /\ d \in 1..3 /\ m \in 1..d /\ u \in Nat /\ v \in Nat /\ z \in Nat
          /\ x \in Nat /\ y \in Nat /\ w \in Nat /\ written \in Nat /\ written <= u - z
      BY <3>1, <3>3, <3>5, <3>6, <1>3, <1>4, <1>6, <1>8, Zenon
    <3> HIDE DEF p, q, c, d, x, y, w, u, v, z
    <3>8. x - z + m \in 1..(w - z) /\ x - z + m # written + 1
      BY <3>7
    <3>9. buffer'[x - z + m] = buffer[x - z + m]
      BY <3>6, <3>8, <1>11, Zenon
    <3> QED BY <3>4, <3>9, Zenon DEF x, z
  <2>4. (Len(received') + written' + 1)..Sent' = (j + 1)..Sent
    BY <1>1, <1>7, Zenon
  <2>5. \A i \in (j + 1)..Sent : \A m \in 1..Cost(input[i]) :
           buffer'[EscapedSize(input, i - 1) - EscapedSize(input, f) + m] = Escape(input[i])[m]
    BY <2>3, Zenon
  <2>6. input' = input /\ received' = received
    BY <1>1, Zenon
  <2>7. \A i \in (Len(received') + written' + 1)..Sent' : \A m \in 1..Cost(input'[i]) :
           buffer'[EscapedSize(input', i - 1) - EscapedSize(input', Len(received')) + m]
           = Escape(input'[i])[m]
    BY <2>4, <2>5, <2>6, Zenon
  <2> QED BY <2>1, <2>2, <2>7, Zenon DEF Escapes
<1>15. Lines'
  <2>1. turn' = "decode" /\ read' # 0
    BY <1>1, <1>2, <1>4, <1>6
  <2> QED BY <2>1, Zenon DEF Lines
<1> QED BY <1>12, <1>13, <1>14, <1>15, Zenon DEF DataInv

\* The decoded bytes are handed over, and the next line starts afresh.
LEMMA DecodeEndsInv ==
    ASSUME DataInv, DecodeEnds
    PROVE  DataInv'
<1> DEFINE f == Len(received)
           k == f + written
<1>1. /\ turn = "decode" /\ read = Len(buffer)
      /\ received' = received \o SubSeq(buffer, 1, written)
      /\ buffer' = <<>> /\ read' = 0 /\ written' = 0
      /\ turn' = (IF rest = <<>> THEN "done" ELSE "encode")
      /\ input' = input /\ rest' = rest
  BY Zenon DEF DecodeEnds
<1>2. /\ input \in Seq(PayloadByte) /\ rest \in Seq(PayloadByte)
      /\ buffer \in Seq(WireByte) /\ received \in Seq(PayloadByte)
      /\ read \in Nat /\ written \in Nat
  BY Zenon DEF DataInv, DataTypeOK
<1>3. /\ f \in Nat /\ Len(buffer) \in Nat /\ Len(input) \in Nat /\ Len(rest) \in Nat
      /\ MaxLine \in Nat /\ MaxLine >= 6 /\ k \in Nat
  BY <1>2, DataAssumption
<1>4. /\ Len(rest) <= Len(input) /\ k <= Sent /\ Sent \in Nat /\ Sent <= Len(input)
      /\ Sent' = Sent
  BY <1>1, <1>3 DEF DataInv, Pieces, Sent
<1>5. /\ read = EscapedSize(input, k) - EscapedSize(input, f)
      /\ Len(buffer) = EscapedSize(input, Sent) - EscapedSize(input, f)
  BY Zenon DEF DataInv, Escapes
<1>6. /\ EscapedSize(input, k) \in Nat /\ EscapedSize(input, f) \in Nat
      /\ EscapedSize(input, Sent) \in Nat
  BY <1>3, <1>4, EscapedSizeGrows, Zenon
<1>7. k = Sent /\ written <= Len(buffer)
  <2>1. /\ EscapedSize(input, Sent) - EscapedSize(input, k) >= Sent - k
        /\ EscapedSize(input, k) - EscapedSize(input, f) >= k - f
    <3>1. f <= k
      BY <1>2, <1>3
    <3> QED BY <3>1, <1>3, <1>4, EscapedSizeMonotonic, Zenon
  <2> DEFINE u == EscapedSize(input, k)
             w == EscapedSize(input, Sent)
             z == EscapedSize(input, f)
  <2>2. /\ u \in Nat /\ w \in Nat /\ z \in Nat /\ u - z = w - z /\ w - u >= Sent - k
        /\ u - z >= k - f /\ Len(buffer) = w - z
        /\ f \in Nat /\ k \in Nat /\ k = f + written /\ written \in Nat /\ k <= Sent /\ Sent \in Nat
    BY <2>1, <1>1, <1>2, <1>3, <1>4, <1>5, <1>6, Zenon
  <2> HIDE DEF u, w, z, f, k
  <2>3. k = Sent
    BY <2>2
  <2>4. written <= w - z
    BY <2>2
  <2> QED BY <2>2, <2>3, <2>4, Zenon
<1>8. \A i \in 1..written : buffer[i] = input[f + i] /\ f + i \in 1..Len(input)
  <2>1. \A i \in 1..written : buffer[i] = input[f + i]
    BY Zenon DEF DataInv, Pieces
  <2>2. \A i \in 1..written : f + i \in 1..Len(input)
    BY <1>2, <1>3, <1>4
  <2> QED BY <2>1, <2>2, Zenon
<1>9. /\ received' \in Seq(PayloadByte) /\ Len(received') = k
      /\ \A i \in 1..k : received'[i] = input[i]
  <2> DEFINE d == SubSeq(buffer, 1, written)
  <2>1. Len(d) = written /\ d \in Seq(WireByte) /\ \A i \in 1..written : d[i] = buffer[i]
    BY <1>2, <1>3, <1>7, SubSeqProperties
  <2>2. \A i \in 1..written : d[i] \in PayloadByte /\ d[i] = input[f + i]
    BY <2>1, <1>2, <1>8, ElementOfSeq, Zenon
  <2>3. d \in Seq(PayloadByte)
    BY <2>1, <2>2, <1>2
  <2> HIDE DEF d
  <2>4. received' = received \o d
    BY <1>1, Zenon DEF d
  <2>5. received' \in Seq(PayloadByte) /\ Len(received') = k
    BY <2>1, <2>3, <2>4, <1>2, ConcatProperties, Zenon
  <2>6. ASSUME NEW i \in 1..k
        PROVE  received'[i] = input[i]
    <3>1. CASE i \in 1..f
      <4>1. received'[i] = received[i]
        BY <3>1, <2>3, <2>4, <1>2
      <4>2. received[i] = input[i]
        BY <3>1, Zenon DEF DataInv, Pieces
      <4> QED BY <4>1, <4>2, Zenon
    <3>2. CASE i \notin 1..f
      <4>1. i - f \in 1..written /\ f + (i - f) = i
        BY <3>2, <1>2, <1>3
      <4>2. received'[i] = d[i - f]
        BY <3>2, <4>1, <2>1, <2>3, <2>4, <1>2, <1>3
      <4> QED BY <4>1, <4>2, <2>2, Zenon
    <3> QED BY <3>1, <3>2, Zenon
  <2> QED BY <2>5, <2>6, Zenon
<1>10. DataTypeOK'
  BY <1>1, <1>2, <1>9 DEF DataTypeOK
<1>11. Pieces'
  <2>1. Len(rest') <= Len(input') /\ Len(received') + written' <= Sent'
    BY <1>1, <1>3, <1>4, <1>7, <1>9
  <2>2. \A i \in 1..Len(rest') : rest'[i] = input'[Sent' + i]
    BY <1>1, <1>4, Zenon DEF DataInv, Pieces
  <2>3. \A i \in 1..Len(received') : received'[i] = input'[i]
    BY <1>1, <1>9, Zenon
  <2>4. \A i \in 1..written' : buffer'[i] = input'[Len(received') + i]
    BY <1>1
  <2> QED BY <2>1, <2>2, <2>3, <2>4, Zenon DEF Pieces
<1>12. Escapes'
  <2>1. Len(received') = Sent /\ Sent' = Sent /\ Sent + 0 = Sent /\ Len(buffer') = 0
    BY <1>1, <1>4, <1>7, <1>9
  <2>2. EscapedSize(input, Sent) - EscapedSize(input, Sent) = 0
    BY <1>6
  <2>3. read' = EscapedSize(input', Len(received') + written') - EscapedSize(input', Len(received'))
    BY <2>1, <2>2, <1>1, Zenon
  <2>4. Len(buffer') = EscapedSize(input', Sent') - EscapedSize(input', Len(received'))
    BY <2>1, <2>2, <1>1, Zenon
  <2>5. \A i : i \notin (Len(received') + written' + 1)..Sent'
    BY <2>1, <1>1, <1>4
  <2> QED BY <2>3, <2>4, <2>5, Zenon DEF Escapes
<1>13. Lines'
  <2>1. Len(buffer') = 0 /\ turn' # "decode"
    BY <1>1, Zenon
  <2> QED BY <2>1, <1>1, <1>3 DEF Lines
<1> QED BY <1>10, <1>11, <1>12, <1>13, Zenon DEF DataInv

\* Every step of DataNext preserves DataInv.
LEMMA DataNextInv ==
    ASSUME DataInv, [DataNext]_dataVars
    PROVE  DataInv'
<1>1. CASE UNCHANGED dataVars
  <2>1. /\ input' = input /\ rest' = rest /\ buffer' = buffer /\ read' = read
        /\ written' = written /\ received' = received /\ turn' = turn
    BY <1>1, Zenon DEF dataVars
  <2>2. DataTypeOK'
    BY <2>1, Zenon DEF DataInv, DataTypeOK
  <2>3. Pieces'
    BY <2>1, Zenon DEF DataInv, Pieces, Sent
  <2>4. Escapes'
    BY <2>1, Zenon DEF DataInv, Escapes, Sent
  <2>5. Lines'
    BY <2>1, Zenon DEF DataInv, Lines
  <2> QED BY <2>2, <2>3, <2>4, <2>5, Zenon DEF DataInv
<1>2. CASE EncodeByte
  BY <1>2, EncodeByteInv, Zenon
<1>3. CASE EncodeEnds
  BY <1>3, EncodeEndsInv, Zenon
<1>4. CASE DecodeByte
  BY <1>4, DecodeByteInv, Zenon
<1>5. CASE DecodeEnds
  BY <1>5, DecodeEndsInv, Zenon
<1> QED BY <1>1, <1>2, <1>3, <1>4, <1>5, Zenon DEF DataNext

\* DataInv says that all parts of the payload add up.
LEMMA DataInvSurvives ==
    ASSUME DataInv
    PROVE  PayloadSurvives
<1> DEFINE f == Len(received)
           k == f + written
           decoded == SubSeq(buffer, 1, written)
           tail == SubSeq(buffer, read + 1, Len(buffer))
           base == EscapedSize(input, k)
<1>1. /\ input \in Seq(PayloadByte) /\ rest \in Seq(PayloadByte)
      /\ buffer \in Seq(WireByte) /\ received \in Seq(PayloadByte)
      /\ read \in Nat /\ written \in Nat
  BY Zenon DEF DataInv, DataTypeOK
<1>2. /\ f \in Nat /\ Len(buffer) \in Nat /\ Len(input) \in Nat /\ Len(rest) \in Nat
      /\ k \in Nat /\ f <= k /\ k - f = written
  BY <1>1
<1>3. Len(rest) <= Len(input) /\ k <= Sent /\ Sent \in Nat /\ Sent <= Len(input) /\ k <= Len(input)
  BY <1>2 DEF DataInv, Pieces, Sent
<1>4. /\ read = base - EscapedSize(input, f)
      /\ Len(buffer) = EscapedSize(input, Sent) - EscapedSize(input, f)
      /\ \A j \in (k + 1)..Sent : \A m \in 1..Cost(input[j]) :
            buffer[EscapedSize(input, j - 1) - EscapedSize(input, f) + m] = Escape(input[j])[m]
  BY Zenon DEF DataInv, Escapes
<1>5. base \in Nat /\ EscapedSize(input, f) \in Nat /\ EscapedSize(input, Sent) \in Nat
  BY <1>2, <1>3, EscapedSizeGrows, Zenon
<1>6. /\ EscapedSize(input, Sent) - base >= Sent - k
      /\ base - EscapedSize(input, f) >= written
  BY <1>2, <1>3, EscapedSizeMonotonic, Zenon
<1>7. written <= read /\ read <= Len(buffer) /\ written <= Len(buffer)
  <2> DEFINE w == EscapedSize(input, Sent)
             z == EscapedSize(input, f)
  <2>1. /\ base \in Nat /\ z \in Nat /\ w \in Nat /\ w - base >= Sent - k /\ base - z >= written
        /\ read = base - z /\ Len(buffer) = w - z /\ k \in Nat /\ Sent \in Nat /\ k <= Sent
        /\ written \in Nat
    BY <1>1, <1>2, <1>3, <1>4, <1>5, <1>6, Zenon
  <2> HIDE DEF w, z, base, k
  <2>2. written <= base - z /\ base - z <= w - z /\ written <= w - z
    BY <2>1
  <2> QED BY <2>1, <2>2, Zenon
<1>8. /\ \A i \in 1..Len(rest) : rest[i] = input[Sent + i]
      /\ \A i \in 1..f : received[i] = input[i]
      /\ \A i \in 1..written : buffer[i] = input[f + i]
  BY Zenon DEF DataInv, Pieces
<1>9. received \o decoded = SubSeq(input, 1, k)
  <2>1. /\ Len(decoded) = written /\ decoded \in Seq(WireByte)
        /\ \A i \in 1..written : decoded[i] = buffer[i]
    BY <1>1, <1>2, <1>7, SubSeqProperties
  <2>2. /\ SubSeq(input, 1, k) \in Seq(PayloadByte) /\ Len(SubSeq(input, 1, k)) = k
        /\ \A i \in 1..k : SubSeq(input, 1, k)[i] = input[i]
    BY <1>1, <1>2, <1>3, SubSeqProperties
  <2>3. received \in Seq(WireByte) /\ SubSeq(input, 1, k) \in Seq(WireByte)
    <3>1. PayloadByte \subseteq WireByte
      BY Zenon DEF WireByte
    <3>2. \A s \in Seq(PayloadByte) : s \in Seq(WireByte)
      BY <3>1
    <3> QED BY <3>2, <2>2, <1>1, Zenon
  <2> HIDE DEF decoded
  <2>4. received \o decoded \in Seq(WireByte) /\ Len(received \o decoded) = k
    BY <2>1, <2>3, ConcatProperties, Zenon
  <2>5. ASSUME NEW i \in 1..k
        PROVE  (received \o decoded)[i] = input[i]
    <3>1. CASE i \in 1..f
      <4>1. (received \o decoded)[i] = received[i]
        BY <3>1, <2>1, <2>3
      <4> QED BY <3>1, <4>1, <1>8, Zenon
    <3>2. CASE i \notin 1..f
      <4>1. i - f \in 1..written /\ f + (i - f) = i
        BY <3>2, <1>1, <1>2
      <4>2. (received \o decoded)[i] = decoded[i - f]
        BY <3>2, <4>1, <2>1, <2>3, <1>2
      <4> QED BY <4>1, <4>2, <2>1, <1>8, Zenon
    <3> QED BY <3>1, <3>2, Zenon
  <2>6. \A i \in 1..k : (received \o decoded)[i] = SubSeq(input, 1, k)[i]
    BY <2>2, <2>5, Zenon
  <2> QED BY <2>2, <2>3, <2>4, <2>6, SeqEqual, Zenon
<1>10. rest = SubSeq(input, Sent + 1, Len(input))
  <2>1. /\ SubSeq(input, Sent + 1, Len(input)) \in Seq(PayloadByte)
        /\ Len(SubSeq(input, Sent + 1, Len(input))) = Len(rest)
        /\ \A i \in 1..Len(rest) : SubSeq(input, Sent + 1, Len(input))[i] = input[Sent + i]
    BY <1>1, <1>2, <1>3, SubSeqProperties DEF Sent
  <2> QED BY <2>1, <1>1, <1>8, SeqEqual, Zenon
<1>11. turn = "done" => received = input
  <2>1. SUFFICES ASSUME turn = "done"
                 PROVE  received = input
    BY Zenon
  <2>2. rest = <<>> /\ buffer = <<>> /\ written = 0
    BY <2>1, Zenon DEF DataInv, Lines
  <2>3. k = Sent /\ Sent = Len(input) /\ f = k
    <3>1. Len(buffer) = 0 /\ Len(rest) = 0
      BY <2>2, Zenon
    <3> DEFINE w == EscapedSize(input, Sent)
               z == EscapedSize(input, f)
    <3>2. /\ base \in Nat /\ z \in Nat /\ w \in Nat /\ w - base >= Sent - k /\ base - z >= 0
          /\ 0 = w - z /\ k \in Nat /\ Sent \in Nat /\ k <= Sent
      BY <2>2, <3>1, <1>2, <1>3, <1>4, <1>5, <1>6, Zenon
    <3> HIDE DEF w, z, base, k
    <3>3. k = Sent
      BY <3>2
    <3>4. Sent = Len(input)
      BY <3>1, <1>2 DEF Sent
    <3>5. f = k
      BY <2>2, <1>2 DEF k
    <3> QED BY <3>3, <3>4, <3>5, Zenon
  <2> QED BY <2>3, <1>1, <1>8, SeqEqual, Zenon
<1>12. IsEscaped(tail, k, Sent)
  <2>1. /\ tail \in Seq(WireByte) /\ Len(tail) = Len(buffer) - read
        /\ \A i \in 1..(Len(buffer) - read) : tail[i] = buffer[read + i]
    BY <1>1, <1>2, <1>7, SubSeqProperties
  <2>2. Len(tail) = EscapedSize(input, Sent) - base
    <3> DEFINE w == EscapedSize(input, Sent)
               z == EscapedSize(input, f)
    <3>1. /\ base \in Nat /\ z \in Nat /\ w \in Nat /\ Len(tail) = (w - z) - (base - z)
      BY <2>1, <1>4, <1>5, Zenon
    <3> HIDE DEF w, z, base, tail
    <3>2. Len(tail) = w - base
      BY <3>1
    <3> QED BY <3>2, Zenon DEF w
  <2> HIDE DEF tail
  <2>3. ASSUME NEW j \in (k + 1)..Sent
        PROVE  SubSeq(tail, EscapedSize(input, j - 1) - base + 1, EscapedSize(input, j) - base)
               = Escape(input[j])
    <3> DEFINE x == EscapedSize(input, j - 1)
               y == EscapedSize(input, j)
               w == EscapedSize(input, Sent)
               z == EscapedSize(input, f)
               c == Cost(input[j])
               e == Escape(input[j])
               piece == SubSeq(tail, x - base + 1, y - base)
    <3>1. /\ j \in Nat /\ j - 1 \in Nat /\ k <= j - 1 /\ j <= Sent /\ j = (j - 1) + 1
          /\ j \in 1..Len(input) /\ (j - 1) - k \in Nat /\ Sent - j \in Nat
      BY <1>2, <1>3
    <3>2. input[j] \in PayloadByte
      BY <3>1, <1>1
    <3>3. c \in 1..3 /\ e \in Seq(WireByte) /\ Len(e) = c
      BY <3>2, EscapeShape, Zenon
    <3>4. \A m \in 1..c : buffer[x - z + m] = e[m]
      BY <1>4, Zenon
    <3>5. y = x + c /\ x \in Nat /\ y \in Nat
      BY <3>1, EscapedSizeGrows, Zenon
    <3> DEFINE p == (j - 1) - k
               q == Sent - j
    <3>6. x - base >= p /\ w - y >= q
      BY <3>1, <1>2, <1>3, EscapedSizeMonotonic, Zenon
    <3>7. /\ p \in Nat /\ q \in Nat /\ x - base >= p /\ w - y >= q /\ y = x + c /\ c \in 1..3
          /\ x \in Nat /\ y \in Nat /\ w \in Nat /\ z \in Nat /\ base \in Nat
          /\ read = base - z /\ Len(buffer) = w - z
      BY <3>1, <3>3, <3>5, <3>6, <1>4, <1>5, Zenon
    <3> HIDE DEF x, y, w, z, c, e, p, q, base
    <3>8. /\ x - base + 1 \in Int /\ y - base \in Int /\ x - base + 1 <= y - base
          /\ (y - base) - (x - base + 1) + 1 = c
          /\ \A i \in (x - base + 1)..(y - base) : i \in 1..(Len(buffer) - read)
          /\ \A m \in 1..c : /\ x - base + 1 + m - 1 \in 1..(Len(buffer) - read)
                             /\ read + (x - base + 1 + m - 1) = x - z + m
      BY <3>7
    <3>9. \A i \in (x - base + 1)..(y - base) : tail[i] \in WireByte
      BY <3>8, <2>1, ElementOfSeq, Zenon
    <3>10. /\ piece \in Seq(WireByte) /\ Len(piece) = c
           /\ \A m \in 1..c : piece[m] = tail[x - base + 1 + m - 1]
      <4> DEFINE lo == x - base + 1
                 hi == y - base
      <4>1. /\ lo \in Int /\ hi \in Int /\ lo <= hi /\ hi - lo + 1 = c
            /\ \A i \in lo..hi : tail[i] \in WireByte
        BY <3>8, <3>9, Zenon
      <4> HIDE DEF lo, hi
      <4>2. /\ SubSeq(tail, lo, hi) \in Seq(WireByte) /\ Len(SubSeq(tail, lo, hi)) = c
            /\ \A m \in 1..c : SubSeq(tail, lo, hi)[m] = tail[lo + m - 1]
        BY <4>1, SubSeqProperties
      <4> QED BY <4>2, Zenon DEF lo, hi
    <3> HIDE DEF piece
    <3>11. \A m \in 1..c : piece[m] = e[m]
      BY <3>4, <3>8, <3>10, <2>1, Zenon
    <3>12. piece = e
      BY <3>3, <3>10, <3>11, SeqEqual, Zenon
    <3> QED BY <3>12, Zenon DEF piece, x, y, e
  <2> QED BY <2>2, <2>3, Zenon DEF IsEscaped
<1>13. turn = "decode" /\ read = 0 =>
          /\ 2 + Len(buffer) + 1 <= MaxLine
          /\ \A i \in DOMAIN buffer : buffer[i] \notin {"CR", "LF", "NUL"}
          /\ rest # <<>> => 2 + Len(buffer) + Cost(Head(rest)) + 1 > MaxLine
  <2>1. SUFFICES ASSUME turn = "decode", read = 0
                 PROVE  /\ 2 + Len(buffer) + 1 <= MaxLine
                        /\ \A i \in DOMAIN buffer : buffer[i] \notin {"CR", "LF", "NUL"}
                        /\ rest # <<>> => 2 + Len(buffer) + Cost(Head(rest)) + 1 > MaxLine
    BY Zenon
  <2>2. /\ Len(buffer) + 3 <= MaxLine /\ \A i \in 1..Len(buffer) : buffer[i] \notin Raw
        /\ rest # <<>> => 2 + Len(buffer) + Cost(Head(rest)) + 1 > MaxLine
    BY <2>1, Zenon DEF DataInv, Lines
  <2>3. DOMAIN buffer = 1..Len(buffer)
    BY <1>1
  <2>4. 2 + Len(buffer) + 1 <= MaxLine
    BY <2>2, <1>2, DataAssumption
  <2> QED BY <2>2, <2>3, <2>4, Zenon DEF Raw
<1>14. /\ received \o SubSeq(buffer, 1, written) = SubSeq(input, 1, Len(received) + written)
       /\ IsEscaped(SubSeq(buffer, read + 1, Len(buffer)), Len(received) + written,
                    Len(input) - Len(rest))
       /\ rest = SubSeq(input, (Len(input) - Len(rest)) + 1, Len(input))
  BY <1>9, <1>10, <1>12, Zenon DEF Sent
<1> QED BY <1>11, <1>13, <1>14, Zenon DEF PayloadSurvives

\* A payload of any length and content survives escaping, chunking and in-place
\* decoding (encode.rs:37-70, escape.rs:20-51), for every line limit.
THEOREM PayloadAlwaysSurvives == DataSpec => []PayloadSurvives
<1>1. DataInit => DataInv
  BY DataInitInv, Zenon
<1>2. DataInv /\ [DataNext]_dataVars => DataInv'
  BY DataNextInv, Zenon
<1>3. DataInv => PayloadSurvives
  BY DataInvSurvives, Zenon
<1> QED BY <1>1, <1>2, <1>3, PTL DEF DataSpec
=============================================================================
