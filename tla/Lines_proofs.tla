---------------------------- MODULE Lines_proofs ----------------------------
(***************************************************************************)
(* The algorithms on text do what LinesProperties states, for texts of any *)
(* length and buffers of any size.                                         *)
(***************************************************************************)
EXTENDS LinesProperties, FiniteSetTheorems, SequenceTheorems,
        WellFoundedInduction, TLAPS
-----------------------------------------------------------------------------
(* Numbers, and the members of a set of them in their order *)

\* A set of numbers that is not empty has a least element: the induction that
\* the recursive functions of the model need.
LEMMA LeastElement ==
    ASSUME NEW S, S \subseteq Nat, S # {}
    PROVE  \E n \in S : \A m \in S : n <= m
<1>1. PICK n \in S : \A m \in S : ~ (<<m, n>> \in OpToRel(<, Nat))
  BY NatLessThanWellFounded, WFMin, Zenon
<1>2. ASSUME NEW m \in S
      PROVE  n <= m
  <2>1. SUFFICES ASSUME m < n PROVE FALSE
    BY SMT
  <2>2. <<m, n>> \in Nat \X Nat
    BY SMT
  <2>3. <<m, n>> \in OpToRel(<, Nat)
    BY <2>1, <2>2 DEF OpToRel
  <2> QED
    BY <2>3, <1>1
<1> QED
  BY <1>2

\* Min of a set of numbers that is not empty is its least element.
LEMMA MinIsLeast ==
    ASSUME NEW S, S \subseteq Nat, S # {}
    PROVE  Min(S) \in S /\ \A m \in S : Min(S) <= m
BY LeastElement DEF Min

\* A set of numbers up to m is finite, with m members at most.
LEMMA Size ==
    ASSUME NEW m \in Nat, NEW S, S \subseteq 1..m
    PROVE  /\ IsFiniteSet(S) /\ Cardinality(S) \in Nat /\ Cardinality(S) <= m
           /\ \A T \in SUBSET S :
                /\ IsFiniteSet(T) /\ Cardinality(T) \in Nat
                /\ Cardinality(T) <= Cardinality(S)
                /\ T # S => Cardinality(T) < Cardinality(S)
<1>1. IsFiniteSet(1..m) /\ Cardinality(1..m) = m
  BY FS_Interval
<1>2. IsFiniteSet(S) /\ Cardinality(S) <= m
  BY <1>1, FS_Subset
<1>3. Cardinality(S) \in Nat
  BY <1>2, FS_CardinalityType
<1>4. ASSUME NEW T \in SUBSET S
      PROVE  /\ IsFiniteSet(T) /\ Cardinality(T) \in Nat
             /\ Cardinality(T) <= Cardinality(S)
             /\ T # S => Cardinality(T) < Cardinality(S)
  <2>1. /\ IsFiniteSet(T) /\ Cardinality(T) <= Cardinality(S)
        /\ Cardinality(S) = Cardinality(T) => S = T
    BY <1>2, FS_Subset
  <2>2. Cardinality(T) \in Nat
    BY <2>1, FS_CardinalityType
  <2> QED
    BY <2>1, <2>2, <1>3
<1> QED
  BY <1>2, <1>3, <1>4

\* In a set of numbers each rank up to its size belongs to one member.
LEMMA RankTaken ==
    ASSUME NEW m \in Nat, NEW S, S \subseteq 1..m, NEW n \in 1..Cardinality(S)
    PROVE  \E i \in S : Cardinality(S \cap 1..i) = n
<1> DEFINE Ranked(k) == \A T \in SUBSET (1..k) :
               \A h \in 1..Cardinality(T) :
                 \E i \in T : Cardinality(T \cap 1..i) = h
           Bad == {k \in Nat : ~Ranked(k)}
<1>0. \A k \in Nat : \A T \in SUBSET (1..k) :
         IsFiniteSet(T) /\ Cardinality(T) \in 0..k
  <2> SUFFICES ASSUME NEW k \in Nat, NEW T, T \subseteq 1..k
               PROVE  IsFiniteSet(T) /\ Cardinality(T) \in 0..k
    OBVIOUS
  <2>1. IsFiniteSet(T) /\ Cardinality(T) \in Nat /\ Cardinality(T) <= k
    BY Size
  <2> QED
    BY <2>1
<1>1. Ranked(0)
  <2> SUFFICES ASSUME NEW T \in SUBSET (1..0) PROVE Cardinality(T) = 0
    OBVIOUS
  <2>1. Cardinality(T) \in 0..0
    BY <1>0
  <2> QED
    BY <2>1
<1>2. ASSUME NEW k \in Nat, Ranked(k) PROVE Ranked(k + 1)
  <2> SUFFICES ASSUME NEW T \in SUBSET (1..k + 1), NEW h \in 1..Cardinality(T)
               PROVE  \E i \in T : Cardinality(T \cap 1..i) = h
    OBVIOUS
  <2> DEFINE U == T \cap 1..k
  <2>1. /\ U \in SUBSET (1..k) /\ IsFiniteSet(U) /\ Cardinality(U) \in Nat
        /\ k + 1 \notin U
    BY <1>0
  <2>2. CASE h \in 1..Cardinality(U)
    <3>1. PICK i \in U : Cardinality(U \cap 1..i) = h
      BY <2>1, <2>2, <1>2
    <3>2. U \cap 1..i = T \cap 1..i
      OBVIOUS
    <3> QED
      BY <3>1, <3>2
  <2>3. CASE h \notin 1..Cardinality(U)
    <3>1. T # U
      BY <2>3
    <3>2. 1..k + 1 = (1..k) \cup {k + 1}
      OBVIOUS
    <3>3. k + 1 \in T /\ T = U \cup {k + 1}
      BY <3>1, <3>2
    <3>4. Cardinality(T) = Cardinality(U) + 1
      BY <3>3, <2>1, FS_AddElement
    <3>5. h = Cardinality(T)
      BY <3>4, <2>1, <2>3
    <3>6. T \cap 1..(k + 1) = T
      OBVIOUS
    <3> QED
      BY <3>3, <3>5, <3>6
  <2> QED
    BY <2>2, <2>3
<1>3. Ranked(m)
  <2> SUFFICES ASSUME Bad # {} PROVE FALSE
    OBVIOUS
  <2>1. PICK k \in Bad : \A j \in Bad : k <= j
    BY LeastElement
  <2> HIDE DEF Ranked
  <2>2. k \in Nat \ {0} /\ ~Ranked(k)
    BY <1>1
  <2>3. Ranked(k - 1) => Ranked((k - 1) + 1)
    BY <2>2, <1>2
  <2>4. (k - 1) + 1 = k /\ k - 1 \in Nat /\ ~(k <= k - 1)
    BY <2>2
  <2>5. k - 1 \notin Bad
    BY <2>1, <2>4
  <2> QED
    BY <2>2, <2>3, <2>4, <2>5
<1> QED
  BY <1>3

\* Two members have different ranks.
LEMMA RankOnce ==
    ASSUME NEW m \in Nat, NEW S, S \subseteq 1..m, NEW i \in S, NEW j \in S,
           Cardinality(S \cap 1..i) = Cardinality(S \cap 1..j)
    PROVE  i = j
<1>1. ASSUME NEW h \in S, NEW k \in S, h < k
      PROVE  Cardinality(S \cap 1..h) < Cardinality(S \cap 1..k)
  <2>1. S \cap 1..k \subseteq 1..m /\ S \cap 1..h \in SUBSET (S \cap 1..k)
    BY <1>1
  <2>2. k \in S \cap 1..k /\ k \notin S \cap 1..h
    BY <1>1
  <2> QED
    BY <2>1, <2>2, Size
<1>2. /\ Cardinality(S \cap 1..i) \in Nat /\ Cardinality(S \cap 1..j) \in Nat
      /\ i \in Nat /\ j \in Nat
  BY Size
<1> QED
  BY <1>1, <1>2

\* Nth(S, n) is the member of rank n.
LEMMA NthMember ==
    ASSUME NEW m \in Nat, NEW S, S \subseteq 1..m, NEW n \in 1..Cardinality(S)
    PROVE  Nth(S, n) \in S /\ Cardinality(S \cap 1..Nth(S, n)) = n
<1>1. \E i \in S : Cardinality(S \cap 1..i) = n
  BY RankTaken
<1> QED
  BY <1>1 DEF Nth

\* A member of S of rank n is Nth(S, n).
LEMMA NthIs ==
    ASSUME NEW m \in Nat, NEW S, S \subseteq 1..m, NEW i \in S, NEW n,
           Cardinality(S \cap 1..i) = n
    PROVE  Nth(S, n) = i
<1>1. \A j \in S : Cardinality(S \cap 1..j) = n => i = j
  BY RankOnce
<1> QED
  BY <1>1 DEF Nth

\* A function on 1..n is a sequence of that length.
LEMMA FunctionIsSeq ==
    ASSUME NEW T, NEW n \in Nat, NEW f \in [1..n -> T]
    PROVE  f \in Seq(T) /\ Len(f) = n
<1>1. f \in Seq(T)
  BY SeqDef
<1>2. DOMAIN f = 1..Len(f) /\ Len(f) \in Nat /\ DOMAIN f = 1..n
  BY <1>1, LenProperties
<1> QED
  BY <1>1, <1>2

\* What is picked from members of T is a sequence of members of T.
LEMMA PickedIn ==
    ASSUME NEW m \in Nat, NEW S, S \subseteq 1..m, NEW T, NEW s,
           \A i \in S : s[i] \in T
    PROVE  Picked(s, S) \in Seq(T)
<1>1. Cardinality(S) \in Nat
  BY Size
<1>2. \A n \in 1..Cardinality(S) : s[Nth(S, n)] \in T
  BY NthMember
<1>3. Picked(s, S) \in [1..Cardinality(S) -> T]
  BY <1>2 DEF Picked
<1> QED
  BY <1>1, <1>3, FunctionIsSeq

\* It is as long as there are places.
LEMMA PickedLen ==
    ASSUME NEW m \in Nat, NEW S, S \subseteq 1..m, NEW s
    PROVE  Len(Picked(s, S)) = Cardinality(S)
<1> DEFINE T == {s[i] : i \in S}
<1>1. Cardinality(S) \in Nat
  BY Size
<1>2. \A n \in 1..Cardinality(S) : s[Nth(S, n)] \in T
  BY NthMember
<1> HIDE DEF T
<1>3. Picked(s, S) \in [1..Cardinality(S) -> T]
  BY <1>2 DEF Picked
<1> QED
  BY <1>1, <1>3, FunctionIsSeq

\* Nothing is picked from no places.
LEMMA PickedNone == ASSUME NEW s PROVE Picked(s, {}) = <<>>
<1>1. Cardinality({}) = 0
  BY FS_EmptySet
<1> QED
  BY <1>1 DEF Picked

\* Sequences that agree on the places are picked from alike.
LEMMA PickedSame ==
    ASSUME NEW m \in Nat, NEW S, S \subseteq 1..m, NEW s, NEW t,
           \A i \in S : s[i] = t[i]
    PROVE  Picked(s, S) = Picked(t, S)
<1>1. \A n \in 1..Cardinality(S) : s[Nth(S, n)] = t[Nth(S, n)]
  BY NthMember
<1> QED
  BY <1>1 DEF Picked

\* The next place appends.
LEMMA PickedMore ==
    ASSUME NEW p \in Nat \ {0}, NEW S, S \subseteq 1..p - 1, NEW s
    PROVE  Picked(s, S \cup {p}) = Append(Picked(s, S), s[p])
<1> DEFINE Q == S \cup {p}
           c == Cardinality(S)
           T == {s[i] : i \in Q}
<1>0. p - 1 \in Nat /\ (\A i \in S : s[i] \in T) /\ s[p] \in T
  OBVIOUS
<1>7. \A i \in Q : s[i] \in T
  OBVIOUS
<1> HIDE DEF T
<1>1. Q \subseteq 1..p /\ S \subseteq 1..p /\ p \notin S
  OBVIOUS
<1>2. IsFiniteSet(S) /\ c \in Nat
  BY <1>0, Size
<1>3. Cardinality(Q) = c + 1
  BY <1>1, <1>2, FS_AddElement
<1>4. \A n \in 1..c : Nth(Q, n) = Nth(S, n)
  <2> SUFFICES ASSUME NEW n \in 1..c PROVE Nth(Q, n) = Nth(S, n)
    OBVIOUS
  <2>1. PICK i \in S : i = Nth(S, n) /\ Cardinality(S \cap 1..i) = n
    BY <1>0, NthMember
  <2>2. i \in Q /\ Q \cap 1..i = S \cap 1..i
    BY <2>1
  <2> HIDE DEF Q
  <2>3. Cardinality(Q \cap 1..i) = n
    BY <2>1, <2>2
  <2>4. Nth(Q, n) = i
    BY <1>1, <2>2, <2>3, NthIs, ZenonT(60)
  <2> QED
    BY <2>1, <2>4
<1>5. Nth(Q, c + 1) = p
  <2>1. Q \cap 1..p = Q
    BY <1>1
  <2>2. p \in Q
    OBVIOUS
  <2> HIDE DEF Q
  <2> QED
    BY <1>1, <1>3, <2>1, <2>2, NthIs
<1>6. /\ Picked(s, S) \in Seq(T) /\ Len(Picked(s, S)) = c
      /\ \A n \in 1..c : Picked(s, S)[n] = s[Nth(S, n)]
  <2>1. Picked(s, S) \in Seq(T)
    BY <1>0, PickedIn
  <2>2. Len(Picked(s, S)) = c
    BY <1>0, PickedLen
  <2> QED
    BY <2>1, <2>2 DEF Picked
<1>8. /\ Picked(s, Q) \in Seq(T) /\ Len(Picked(s, Q)) = c + 1
      /\ \A n \in 1..c + 1 : Picked(s, Q)[n] = s[Nth(Q, n)]
  <2> HIDE DEF Q, c
  <2>1. Picked(s, Q) \in Seq(T)
    BY <1>1, <1>7, PickedIn
  <2>2. Len(Picked(s, Q)) = c + 1
    BY <1>1, <1>3, PickedLen
  <2> QED
    BY <1>3, <2>1, <2>2 DEF Picked
<1> DEFINE A == Append(Picked(s, S), s[p])
<1>9. /\ A \in Seq(T) /\ Len(A) = c + 1 /\ A[c + 1] = s[p]
      /\ \A n \in 1..c : A[n] = Picked(s, S)[n]
  BY <1>0, <1>6, AppendProperties
<1>10. \A n \in 1..c + 1 : Picked(s, Q)[n] = A[n]
  <2> HIDE DEF A, Q
  <2> QED
    BY <1>2, <1>4, <1>5, <1>6, <1>8, <1>9
<1> HIDE DEF A, Q
<1> QED
  BY <1>8, <1>9, <1>10, SeqEqual DEF A, Q

\* Up to a place what is picked is a beginning of it all.
LEMMA PickedPrefix ==
    ASSUME NEW m \in Nat, NEW S, S \subseteq 1..m, NEW c \in 0..m,
           NEW s
    PROVE  IsPrefix(Picked(s, S \cap 1..c), Picked(s, S))
<1> DEFINE Q == S \cap 1..c
           T == {s[i] : i \in S}
<1>0. \A i \in S : s[i] \in T
  OBVIOUS
<1> HIDE DEF T
<1>1. Q \subseteq 1..m /\ \A i \in Q : s[i] \in T
  BY <1>0
<1>2. Cardinality(Q) <= Cardinality(S)
  BY Size
<1>3. \A n \in 1..Cardinality(Q) : Nth(S, n) = Nth(Q, n)
  <2> SUFFICES ASSUME NEW n \in 1..Cardinality(Q) PROVE Nth(S, n) = Nth(Q, n)
    OBVIOUS
  <2> HIDE DEF Q
  <2>1. PICK i \in Q : i = Nth(Q, n) /\ Cardinality(Q \cap 1..i) = n
    BY <1>1, NthMember
  <2>2. i \in S /\ Q \cap 1..i = S \cap 1..i
    BY <2>1 DEF Q
  <2>3. Cardinality(S \cap 1..i) = n
    BY <2>1, <2>2
  <2>4. Nth(S, n) = i
    BY <2>2, <2>3, NthIs, Zenon
  <2> QED
    BY <2>1, <2>4
<1> HIDE DEF Q
<1>4. /\ Picked(s, Q) \in Seq(T) /\ Len(Picked(s, Q)) = Cardinality(Q)
      /\ \A n \in 1..Cardinality(Q) : Picked(s, Q)[n] = s[Nth(Q, n)]
  <2>1. Picked(s, Q) \in Seq(T)
    BY <1>1, PickedIn
  <2>2. Len(Picked(s, Q)) = Cardinality(Q)
    BY <1>1, PickedLen
  <2> QED
    BY <2>1, <2>2 DEF Picked
<1>5. /\ Picked(s, S) \in Seq(T) /\ Len(Picked(s, S)) = Cardinality(S)
      /\ \A n \in 1..Cardinality(S) : Picked(s, S)[n] = s[Nth(S, n)]
  <2>1. Picked(s, S) \in Seq(T)
    BY <1>0, PickedIn
  <2>2. Len(Picked(s, S)) = Cardinality(S)
    BY PickedLen
  <2> QED
    BY <2>1, <2>2 DEF Picked
<1>6. /\ Cardinality(Q) \in Nat /\ Cardinality(S) \in Nat
      /\ \A n \in 1..Cardinality(Q) : Picked(s, Q)[n] = Picked(s, S)[n]
  BY <1>1, <1>2, <1>3, <1>4, <1>5, LenProperties
<1> DEFINE A == Picked(s, Q)
           B == Picked(s, S)
<1> HIDE DEF A, B
<1>7. SubSeq(A, 1, Len(A)) = A
  BY <1>4, SubSeqFull DEF A
<1>8. SubSeq(B, 1, Len(A)) = A
  <2>1. /\ SubSeq(B, 1, Len(A)) \in Seq(T) /\ Len(SubSeq(B, 1, Len(A))) = Len(A)
        /\ \A n \in 1..Len(A) : SubSeq(B, 1, Len(A))[n] = B[n]
    BY <1>2, <1>4, <1>5, <1>6, SubSeqProperties DEF A, B
  <2> QED
    BY <2>1, <1>4, <1>6, SeqEqual DEF A, B
<1> QED
  BY <1>2, <1>4, <1>5, <1>7, <1>8 DEF A, B, Q, IsPrefix

-----------------------------------------------------------------------------
(* sanitise_whitespace *)

\* t is s with c behind the first w cells, and the cells behind c as before.
Put(s, w, c, t) ==
    /\ t \in Seq(Char) /\ Len(t) = Len(s)
    /\ SubSeq(t, 1, w + 1) = Append(SubSeq(s, 1, w), c)
    /\ \A i \in 1..Len(s) : i > w + 1 => t[i] = s[i]

\* A cell is written behind those that count.
LEMMA PutMore ==
    ASSUME NEW s \in Seq(Char), NEW w \in Nat, w < Len(s), NEW c \in Char,
           NEW t, t = [s EXCEPT ![w + 1] = c]
    PROVE  Put(s, w, c, t)
<1>1. w + 1 \in 1..Len(s) /\ Len(s) \in Nat
  BY LenProperties
<1>2. /\ t \in Seq(Char) /\ Len(t) = Len(s)
      /\ \A i \in 1..Len(s) : t[i] = IF i = w + 1 THEN c ELSE s[i]
  BY <1>1, ExceptSeq
<1> DEFINE a == SubSeq(t, 1, w + 1)
           b == SubSeq(s, 1, w)
<1>3. /\ \A i \in 1..w : s[i] \in Char
      /\ \A i \in 1..w + 1 : t[i] \in Char
  BY <1>1, <1>2, ElementOfSeq
<1>4. /\ b \in Seq(Char) /\ Len(b) = w /\ \A i \in 1..w : b[i] = s[i]
  BY <1>3, SubSeqProperties
<1>5. a \in Seq(Char) /\ Len(a) = w + 1 /\ \A i \in 1..w + 1 : a[i] = t[i]
  BY <1>3, SubSeqProperties
<1> HIDE DEF a, b
<1>6. /\ Append(b, c) \in Seq(Char) /\ Len(Append(b, c)) = w + 1
      /\ \A i \in 1..w : Append(b, c)[i] = b[i]
      /\ Append(b, c)[w + 1] = c
  BY <1>4, AppendProperties
<1>7. \A i \in 1..w + 1 : a[i] = Append(b, c)[i]
  BY <1>1, <1>2, <1>4, <1>5, <1>6
<1>8. a = Append(b, c)
  BY <1>5, <1>6, <1>7, SeqEqual
<1> QED
  BY <1>1, <1>2, <1>8 DEF a, b, Put

\* The states of the buffer, and the one the loop begins with.
Buffer == [s : Seq(Char), w : Nat, ws : BOOLEAN]
Unread(str) == [s |-> str, w |-> 0, ws |-> FALSE]

\* f holds the states of the buffer after up to n turns.
Turns(f, str, n) ==
    f = [r \in 0..n |-> IF r = 0 THEN Unread(str) ELSE Turn(f[r - 1], r)]

\* There is such a function: the recursion of Sanitised defines one.
LEMMA TurnsExist ==
    ASSUME NEW str, NEW n \in Nat
    PROVE  \E f : Turns(f, str, n)
<1> DEFINE Bad == {k \in Nat : ~ \E f : Turns(f, str, k)}
<1>1. 0 \notin Bad
  <2>1. Turns([r \in 0..0 |-> Unread(str)], str, 0)
    BY DEF Turns
  <2> QED
    BY <2>1
<1>2. ASSUME NEW k \in Nat, NEW f, Turns(f, str, k)
      PROVE  k + 1 \notin Bad
  <2> DEFINE g == [r \in 0..k + 1 |-> IF r = k + 1 THEN Turn(f[k], k + 1)
                                      ELSE f[r]]
  <2>1. \A r \in 0..k : f[r] = IF r = 0 THEN Unread(str) ELSE Turn(f[r - 1], r)
    BY <1>2 DEF Turns
  <2>2. \A r \in 0..k + 1 :
            g[r] = IF r = 0 THEN Unread(str) ELSE Turn(g[r - 1], r)
    BY <2>1
  <2>3. Turns(g, str, k + 1)
    BY <2>2 DEF Turns
  <2> QED
    BY <2>3
<1>3. Bad = {}
  <2> SUFFICES ASSUME Bad # {} PROVE FALSE
    OBVIOUS
  <2>1. PICK k \in Bad : \A j \in Bad : k <= j
    BY LeastElement
  <2>2. k \in Nat /\ k # 0 /\ (k - 1) + 1 = k /\ k - 1 \in Nat
    BY <1>1, <2>1
  <2>3. k - 1 \notin Bad
    BY <2>1, <2>2
  <2>4. \E f : Turns(f, str, k - 1)
    BY <2>2, <2>3
  <2>5. (k - 1) + 1 \notin Bad
    BY <1>2, <2>2, <2>4
  <2> QED
    BY <2>1, <2>2, <2>5
<1> QED
  BY <1>3

\* So Sanitised is what n turns leave, n being the length of the text.
LEMMA SanitisedIs ==
    ASSUME NEW str \in Seq(Char)
    PROVE  \E f : /\ Turns(f, str, Len(str))
                  /\ LET m == f[Len(str)] IN
                     Sanitised(str) = SubSeq(m.s, 1, m.w)
<1> DEFINE f == CHOOSE f : Turns(f, str, Len(str))
<1>1. Turns(f, str, Len(str))
  <2>1. Len(str) \in Nat
    BY LenProperties
  <2> QED
    BY <2>1, TurnsExist
<1>2. Sanitised(str) = SubSeq(f[Len(str)].s, 1, f[Len(str)].w)
  BY DEF Sanitised, Turns, Unread
<1> HIDE DEF f
<1> QED
  BY <1>1, <1>2

\* A turn at white space only takes notice of it.
LEMMA TurnSpace ==
    ASSUME NEW m \in Buffer, NEW r, isspace(m.s[r])
    PROVE  Turn(m, r) = [s |-> m.s, w |-> m.w, ws |-> TRUE]
BY DEF Turn, Buffer

\* A turn at a character after another, or at the first of all.
LEMMA TurnWord ==
    ASSUME NEW m \in Buffer, NEW r, ~isspace(m.s[r]), ~(m.ws /\ m.w > 0)
    PROVE  Turn(m, r) = [s |-> [m.s EXCEPT ![m.w + 1] = m.s[r]],
                         w |-> m.w + 1, ws |-> FALSE]
BY DEF Turn, Buffer, GapBefore

\* A turn at the first character of a word that is not the first word.
LEMMA TurnGap ==
    ASSUME NEW m \in Buffer, NEW r, ~isspace(m.s[r]), m.ws, m.w > 0
    PROVE  Turn(m, r) = [s |-> [[m.s EXCEPT ![m.w + 1] = Blank]
                                   EXCEPT ![(m.w + 1) + 1] = m.s[r]],
                         w |-> (m.w + 1) + 1, ws |-> FALSE]
BY DEF Turn, Buffer, GapBefore

\* A text with its white space shown as blanks, the places of it that are
\* kept, and those of them that r turns have written.
Shown(str) ==
    [i \in 1..Len(str) |-> IF ~isspace(str[i]) THEN str[i] ELSE Blank]
Kept(str) ==
    {i \in 1..Len(str) :
       \/ ~isspace(str[i])
       \/ /\ i < Len(str) /\ ~isspace(str[i + 1])
          /\ \E h \in 1..i : ~isspace(str[h])}
KeptBy(str, r) == {i \in Kept(str) : i < r \/ (i = r /\ ~isspace(str[i]))}

\* Joined, with these names.
LEMMA JoinedIs ==
    ASSUME NEW str PROVE Joined(str) = Picked(Shown(str), Kept(str))
BY DEF Joined, Shown, Kept

\* What a turn adds to the places that are written.
LEMMA KeptByTurn ==
    ASSUME NEW str \in Seq(Char), NEW r \in 1..Len(str)
    PROVE  /\ KeptBy(str, r - 1) \subseteq 1..r - 1
           /\ isspace(str[r]) => KeptBy(str, r) = KeptBy(str, r - 1)
           /\ ~isspace(str[r]) =>
                IF r > 1 /\ isspace(str[r - 1]) /\ KeptBy(str, r - 1) # {}
                THEN /\ KeptBy(str, r) = (KeptBy(str, r - 1) \cup {r - 1}) \cup {r}
                     /\ KeptBy(str, r - 1) \subseteq 1..r - 2
                ELSE KeptBy(str, r) = KeptBy(str, r - 1) \cup {r}
<1>1. Len(str) \in Nat
  BY LenProperties
<1>2. KeptBy(str, r - 1) \subseteq 1..r - 1
  BY <1>1 DEF KeptBy, Kept
<1>3. CASE isspace(str[r])
  BY <1>1, <1>2, <1>3 DEF KeptBy, Kept
<1>4. CASE ~isspace(str[r])
  <2>1. /\ r \in KeptBy(str, r) /\ KeptBy(str, r - 1) \subseteq KeptBy(str, r)
        /\ KeptBy(str, r) \subseteq KeptBy(str, r - 1) \cup {r - 1, r}
    BY <1>1, <1>4 DEF KeptBy, Kept
  <2>2. CASE r = 1 \/ ~isspace(str[r - 1])
    <3>1. r - 1 \in KeptBy(str, r) => r - 1 \in KeptBy(str, r - 1)
      BY <1>1, <2>2 DEF KeptBy, Kept
    <3> QED
      BY <1>2, <1>4, <2>1, <2>2, <3>1
  <2>3. CASE r > 1 /\ isspace(str[r - 1])
    <3>1. r - 1 \notin KeptBy(str, r - 1)
      BY <2>3 DEF KeptBy
    <3>2. (\E h \in 1..r - 1 : ~isspace(str[h])) <=> KeptBy(str, r - 1) # {}
      <4>1. ASSUME NEW h \in 1..r - 1, ~isspace(str[h])
            PROVE  h \in KeptBy(str, r - 1)
        BY <1>1, <4>1 DEF KeptBy, Kept
      <4>2. ASSUME NEW i \in KeptBy(str, r - 1)
            PROVE  \E h \in 1..r - 1 : ~isspace(str[h])
        BY <1>1, <1>2, <4>2 DEF KeptBy, Kept
      <4> QED
        BY <4>1, <4>2
    <3>3. r - 1 \in KeptBy(str, r) <=> KeptBy(str, r - 1) # {}
      <4>1. r - 1 \in Kept(str) <=> r - 1 \in KeptBy(str, r)
        BY <1>1, <2>3 DEF KeptBy
      <4>2. r - 1 \in 1..Len(str) /\ r - 1 < Len(str) /\ (r - 1) + 1 = r
        BY <1>1, <2>3
      <4>3. r - 1 \in Kept(str) <=> \E h \in 1..r - 1 : ~isspace(str[h])
        BY <1>4, <2>3, <4>2 DEF Kept
      <4> QED
        BY <3>2, <4>1, <4>3
    <3>4. KeptBy(str, r - 1) \subseteq 1..r - 2
      BY <1>2, <3>1
    <3> QED
      BY <1>2, <1>4, <2>1, <2>3, <3>1, <3>3, <3>4
  <2> QED
    BY <2>2, <2>3
<1> QED
  BY <1>2, <1>3, <1>4

\* What holds after r turns: the reader has not been overtaken, what it has
\* yet to read is as it was, and what is written is as it shall be.
Tidied(str, m, r) ==
    /\ m \in Buffer /\ Len(m.s) = Len(str) /\ m.w <= r
    /\ m.ws <=> r > 0 /\ isspace(str[r])
    /\ m.ws => m.w < r
    /\ \A i \in 1..Len(str) : i > r => m.s[i] = str[i]
    /\ SubSeq(m.s, 1, m.w) = Picked(Shown(str), KeptBy(str, r))

\* The state before the first turn is tidied.
LEMMA TidiedFirst ==
    ASSUME NEW str \in Seq(Char)
    PROVE  Tidied(str, Unread(str), 0)
<1>1. KeptBy(str, 0) = {}
  BY LenProperties DEF KeptBy, Kept
<1>2. Picked(Shown(str), {}) = <<>>
  BY PickedNone
<1>3. SubSeq(str, 1, 0) = <<>>
  BY SubSeqEmpty
<1>4. /\ Unread(str) \in Buffer /\ Unread(str).s = str
      /\ Unread(str).w = 0 /\ Unread(str).ws = FALSE
  BY DEF Unread, Buffer
<1> DEFINE m == Unread(str)
           V == Shown(str)
<1>5. SubSeq(m.s, 1, m.w) = Picked(V, KeptBy(str, 0))
  <2> HIDE DEF V
  <2> QED
    BY <1>1, <1>2, <1>3, <1>4 DEF V
<1> HIDE DEF m, V
<1> QED
  BY <1>4, <1>5 DEF Tidied, m, V

\* So is the state after a turn.
LEMMA TidiedTurn ==
    ASSUME NEW str \in Seq(Char), NEW r \in 1..Len(str), NEW m,
           Tidied(str, m, r - 1)
    PROVE  Tidied(str, Turn(m, r), r)
<1> DEFINE K == KeptBy(str, r - 1)
           V == Shown(str)
<1>1. /\ m \in Buffer /\ Len(m.s) = Len(str) /\ m.w \in Nat /\ m.w <= r - 1
      /\ m.s \in Seq(Char) /\ Len(str) \in Nat /\ r \in Nat
      /\ m.ws <=> r - 1 > 0 /\ isspace(str[r - 1])
      /\ m.ws => m.w < r - 1
      /\ SubSeq(m.s, 1, m.w) = Picked(V, K)
  BY LenProperties DEF Tidied, Buffer
<1>2. m.s[r] = str[r] /\ m.s[r] \in Char /\ Blank \in Char
  BY <1>1, LinesConstants, ElementOfSeq DEF Tidied
<1>3. /\ \A i \in 1..Len(str) : V[i] = IF ~isspace(str[i]) THEN str[i] ELSE Blank
      /\ \A i \in 1..Len(str) : V[i] \in Char
  BY <1>2, ElementOfSeq DEF Shown
<1>4. K \subseteq 1..r - 1
  BY KeptByTurn
<1>5. m.w > 0 <=> K # {}
  <2>1. Len(Picked(V, K)) = Cardinality(K) /\ IsFiniteSet(K)
    <3> HIDE DEF K, V
    <3>1. r - 1 \in Nat
      OBVIOUS
    <3>2. Len(Picked(V, K)) = Cardinality(K)
      BY <3>1, <1>4, PickedLen
    <3>3. IsFiniteSet(K)
      BY <3>1, <1>4, Size
    <3> QED
      BY <3>2, <3>3
  <2>2. Len(SubSeq(m.s, 1, m.w)) = m.w
    <3>1. \A i \in 1..m.w : m.s[i] \in Char
      BY <1>1, ElementOfSeq
    <3> QED
      BY <1>1, <3>1, SubSeqProperties
  <2>3. Cardinality(K) = 0 <=> K = {}
    BY <2>1, FS_EmptySet
  <2> HIDE DEF K, V
  <2> QED
    BY <1>1, <2>1, <2>2, <2>3
<1>6. CASE isspace(str[r])
  <2>1. Turn(m, r) = [s |-> m.s, w |-> m.w, ws |-> TRUE]
    BY <1>1, <1>2, <1>6, TurnSpace
  <2>2. KeptBy(str, r) = K
    BY <1>6, KeptByTurn
  <2> QED
    BY <1>1, <1>6, <2>1, <2>2 DEF Tidied, Buffer
<1>7. CASE ~isspace(str[r]) /\ ~(m.ws /\ m.w > 0)
  <2> DEFINE s1 == [m.s EXCEPT ![m.w + 1] = m.s[r]]
  <2>1. Turn(m, r) = [s |-> s1, w |-> m.w + 1, ws |-> FALSE]
    BY <1>1, <1>2, <1>7, TurnWord
  <2>2. KeptBy(str, r) = K \cup {r}
    BY <1>1, <1>5, <1>7, KeptByTurn
  <2>3. Put(m.s, m.w, m.s[r], s1)
    <3>1. m.w < Len(m.s)
      BY <1>1
    <3> HIDE DEF s1
    <3>2. s1 = [m.s EXCEPT ![m.w + 1] = m.s[r]]
      BY DEF s1
    <3> QED
      BY <1>1, <1>2, <3>1, <3>2, PutMore
  <2>4. Picked(V, K \cup {r}) = Append(Picked(V, K), V[r])
    <3>1. r \in Nat \ {0}
      BY <1>1
    <3> HIDE DEF K, V
    <3> QED
      BY <3>1, <1>4, PickedMore
  <2>5. V[r] = m.s[r]
    BY <1>2, <1>3, <1>7
  <2> HIDE DEF s1, K, V
  <2>6. SubSeq(s1, 1, m.w + 1) = Picked(V, KeptBy(str, r))
    BY <1>1, <2>2, <2>3, <2>4, <2>5 DEF Put
  <2>7. \A i \in 1..Len(str) : i > r => s1[i] = str[i]
    BY <1>1, <2>3 DEF Tidied, Put
  <2> QED
    <3> DEFINE t == Turn(m, r)
    <3>0. s1 \in Seq(Char) /\ m.w + 1 \in Nat
      <4>1. m.w + 1 \in Nat
        BY <1>1
      <4> QED
        BY <2>3, <4>1 DEF Put
    <3>1. /\ t \in Buffer /\ t.s = s1 /\ t.w = m.w + 1 /\ t.ws = FALSE
      BY <2>1, <3>0 DEF Buffer
    <3>2. Len(t.s) = Len(str) /\ t.w <= r
      BY <1>1, <2>3, <3>1 DEF Put
    <3> HIDE DEF t
    <3> QED
      BY <1>7, <2>6, <2>7, <3>1, <3>2 DEF Tidied, V, t
<1>8. CASE ~isspace(str[r]) /\ m.ws /\ m.w > 0
  <2> DEFINE s1 == [m.s EXCEPT ![m.w + 1] = Blank]
             s2 == [s1 EXCEPT ![(m.w + 1) + 1] = m.s[r]]
             p == r - 1
  <2>1. Turn(m, r) = [s |-> s2, w |-> (m.w + 1) + 1, ws |-> FALSE]
    BY <1>1, <1>2, <1>8, TurnGap
  <2>2. KeptBy(str, r) = (K \cup {p}) \cup {r} /\ K \subseteq 1..r - 2
    BY <1>1, <1>5, <1>8, KeptByTurn
  <2>3. Put(m.s, m.w, Blank, s1)
    <3>1. m.w < Len(m.s)
      BY <1>1
    <3> HIDE DEF s1
    <3>2. s1 = [m.s EXCEPT ![m.w + 1] = Blank]
      BY DEF s1
    <3> QED
      BY <1>1, <1>2, <3>1, <3>2, PutMore
  <2>4. m.w + 1 \in Nat /\ m.w + 1 < Len(m.s)
    BY <1>1, <1>8
  <2>5. Put(s1, m.w + 1, m.s[r], s2)
    <3> HIDE DEF s1, s2
    <3>1. s2 = [s1 EXCEPT ![(m.w + 1) + 1] = m.s[r]]
      BY DEF s2
    <3>2. s1 \in Seq(Char) /\ m.w + 1 < Len(s1)
      BY <2>3, <2>4 DEF Put
    <3> QED
      BY <1>2, <2>4, <3>1, <3>2, PutMore
  <2>6. V[p] = Blank /\ V[r] = m.s[r]
    <3>1. isspace(str[p]) /\ p \in 1..Len(str)
      BY <1>1, <1>8
    <3>2. V[p] = Blank
      BY <1>3, <3>1
    <3> QED
      BY <1>2, <1>3, <1>8, <3>2
  <2>7. Picked(V, K \cup {p}) = Append(Picked(V, K), V[p])
    <3>1. p \in Nat \ {0} /\ K \subseteq 1..p - 1
      BY <1>1, <1>8, <2>2
    <3> HIDE DEF K, V, p
    <3> QED
      BY <3>1, PickedMore
  <2>8. Picked(V, (K \cup {p}) \cup {r}) = Append(Picked(V, K \cup {p}), V[r])
    <3> DEFINE L == K \cup {p}
    <3>1. r \in Nat \ {0} /\ L \subseteq 1..r - 1
      BY <1>1, <1>4, <1>8
    <3> HIDE DEF L, V, p, K
    <3> QED
      BY <3>1, PickedMore DEF L
  <2> HIDE DEF s1, s2, K, V, p
  <2>9. SubSeq(s2, 1, (m.w + 1) + 1) = Picked(V, KeptBy(str, r))
    BY <1>1, <2>2, <2>3, <2>5, <2>6, <2>7, <2>8 DEF Put
  <2>10. \A i \in 1..Len(str) : i > r => s2[i] = str[i]
    <3>1. \A i \in 1..Len(str) : i > r => s2[i] = s1[i] /\ s1[i] = m.s[i]
      BY <1>1, <1>8, <2>3, <2>5, SMTT(30) DEF Put
    <3>2. \A i \in 1..Len(str) : i > r => m.s[i] = str[i]
      BY DEF Tidied
    <3> QED
      BY <3>1, <3>2
  <2> QED
    <3> DEFINE t == Turn(m, r)
    <3>0. s2 \in Seq(Char) /\ (m.w + 1) + 1 \in Nat
      BY <2>4, <2>5 DEF Put
    <3>1. /\ t \in Buffer /\ t.s = s2 /\ t.w = (m.w + 1) + 1 /\ t.ws = FALSE
      BY <2>1, <3>0 DEF Buffer
    <3>2. Len(t.s) = Len(str) /\ t.w <= r
      BY <1>1, <1>8, <2>3, <2>5, <3>1 DEF Put
    <3> HIDE DEF t
    <3> QED
      BY <1>8, <2>9, <2>10, <3>1, <3>2 DEF Tidied, V, t
<1> QED
  BY <1>6, <1>7, <1>8

\* The loop, in place, leaves the words with one blank between them: the
\* reader is never overtaken.
THEOREM SanitisedIsJoined ==
    ASSUME NEW str \in Seq(Char)
    PROVE  Sanitised(str) = Joined(str)
<1> DEFINE n == Len(str)
<1>1. n \in Nat
  BY LenProperties
<1>2. PICK f : /\ Turns(f, str, n)
               /\ Sanitised(str) = SubSeq(f[n].s, 1, f[n].w)
  BY SanitisedIs
<1>3. /\ f[0] = Unread(str)
      /\ \A r \in 1..n : f[r] = Turn(f[r - 1], r)
  BY <1>1, <1>2, SMTT(30) DEF Turns
<1> HIDE DEF n
<1> DEFINE Bad == {r \in 0..n : ~Tidied(str, f[r], r)}
<1>4. Bad = {}
  <2> SUFFICES ASSUME Bad # {} PROVE FALSE
    OBVIOUS
  <2>1. PICK r \in Bad : \A q \in Bad : r <= q
    <3>1. Bad \subseteq Nat
      BY <1>1
    <3> HIDE DEF Bad
    <3> QED
      BY <3>1, LeastElement
  <2>2. r # 0
    BY <1>3, TidiedFirst
  <2>3. r \in 1..n /\ r - 1 \in 0..n /\ ~(r <= r - 1)
    BY <1>1, <2>2
  <2>4. Tidied(str, f[r - 1], r - 1)
    BY <2>1, <2>3
  <2>5. Tidied(str, Turn(f[r - 1], r), r)
    BY <2>3, <2>4, TidiedTurn DEF n
  <2> QED
    BY <1>3, <2>3, <2>5
<1>5. Tidied(str, f[n], n)
  BY <1>1, <1>4
<1>6. KeptBy(str, n) = Kept(str)
  BY <1>1 DEF KeptBy, Kept, n
<1> QED
  BY <1>2, <1>5, <1>6, JoinedIs DEF Tidied

\* What is left is a text, no longer, with no newline in it.
LEMMA JoinedText ==
    ASSUME NEW str \in Seq(Char)
    PROVE  /\ Joined(str) \in Seq(Char) /\ Len(Joined(str)) <= Len(str)
           /\ \A i \in 1..Len(Joined(str)) : Joined(str)[i] # Newline
<1> DEFINE n == Len(str)
           K == Kept(str)
           V == Shown(str)
           T == Char \ {Newline}
<1>1. n \in Nat /\ \A i \in 1..n : str[i] \in Char
  BY LenProperties, ElementOfSeq
<1>2. K \subseteq 1..n
  BY DEF Kept
<1>3. \A i \in 1..n : V[i] \in T
  BY <1>1, LinesConstants DEF Shown, isspace
<1> HIDE DEF n, K, V, T
<1>4. Picked(V, K) \in Seq(T)
  BY <1>1, <1>2, <1>3, PickedIn
<1>5. Len(Picked(V, K)) <= n
  BY <1>1, <1>2, PickedLen, Size
<1>6. \A i \in 1..Len(Picked(V, K)) : Picked(V, K)[i] \in T
  BY <1>4, ElementOfSeq
<1>7. Picked(V, K) \in Seq(Char)
  BY <1>4, SeqMonotonic DEF T
<1>8. Joined(str) = Picked(V, K)
  BY JoinedIs DEF V, K
<1> QED
  BY <1>5, <1>6, <1>7, <1>8 DEF n, T

-----------------------------------------------------------------------------
(* Cutting: fgets, snprintf and read_until_delim *)

\* Up to its end, a line has no newline.
LEMMA LineEndIs ==
    ASSUME NEW s \in Seq(Char)
    PROVE  /\ LineEnd(s) \in 1..Len(s) + 1
           /\ \A i \in 1..Len(s) : i < LineEnd(s) => s[i] # Newline
           /\ LineEnd(s) <= Len(s) => s[LineEnd(s)] = Newline
<1> DEFINE E == {i \in 1..Len(s) : s[i] = Newline} \cup {Len(s) + 1}
<1>1. Len(s) \in Nat
  BY LenProperties
<1>2. E \subseteq Nat /\ E # {} /\ E \subseteq 1..Len(s) + 1
  BY <1>1
<1>3. LineEnd(s) = Min(E)
  BY DEF LineEnd
<1>4. Min(E) \in E /\ \A e \in E : Min(E) <= e
  <2> HIDE DEF E
  <2> QED
    BY <1>2, MinIsLeast
<1> DEFINE e == LineEnd(s)
<1>5. e \in E /\ \A i \in E : e <= i
  BY <1>3, <1>4
<1> HIDE DEF e
<1>6. e \in 1..Len(s) + 1
  BY <1>2, <1>5
<1>7. \A i \in 1..Len(s) : s[i] = Newline => e <= i
  BY <1>5
<1>8. e <= Len(s) => s[e] = Newline
  BY <1>1, <1>5
<1> QED
  BY <1>1, <1>6, <1>7, <1>8 DEF e

\* p is the piece of s that fgets takes into a buffer of this size.
Piece(s, p, size) ==
    /\ p \in Seq(Char) /\ Len(p) \in 1..Len(s) /\ Len(p) < size
    /\ \A i \in 1..Len(p) : p[i] = s[i]
    /\ \A i \in 1..Len(p) : i < Len(p) => p[i] # Newline
    /\ Len(p) = Len(s) \/ Len(p) = size - 1 \/ p[Len(p)] = Newline

\* The first n characters of a text.
LEMMA FirstChars ==
    ASSUME NEW s \in Seq(Char), NEW n \in 0..Len(s)
    PROVE  /\ SubSeq(s, 1, n) \in Seq(Char) /\ Len(SubSeq(s, 1, n)) = n
           /\ \A i \in 1..n : SubSeq(s, 1, n)[i] = s[i]
<1>1. Len(s) \in Nat /\ \A i \in 1..n : s[i] \in Char
  BY LenProperties, ElementOfSeq
<1> QED
  BY <1>1, SubSeqProperties

\* What is behind them.
LEMMA OtherChars ==
    ASSUME NEW s \in Seq(Char), NEW n \in 0..Len(s)
    PROVE  /\ Drop(s, n) \in Seq(Char) /\ Len(Drop(s, n)) = Len(s) - n
           /\ \A i \in 1..Len(s) - n : Drop(s, n)[i] = s[n + i]
<1>1. Len(s) \in Nat /\ \A i \in n + 1..Len(s) : s[i] \in Char
  BY LenProperties, ElementOfSeq
<1> DEFINE d == SubSeq(s, n + 1, Len(s))
<1>2. d \in Seq(Char)
  BY <1>1, SubSeqProperties
<1>3. Len(d) = IF n + 1 <= Len(s) THEN Len(s) - (n + 1) + 1 ELSE 0
  BY <1>1, SubSeqProperties
<1>4. \A i \in 1..Len(s) - (n + 1) + 1 : d[i] = s[(n + 1) + i - 1]
  BY <1>1, SubSeqProperties
<1> HIDE DEF d
<1>5. Len(d) = Len(s) - n /\ \A i \in 1..Len(s) - n : d[i] = s[n + i]
  BY <1>1, <1>3, <1>4
<1> QED
  BY <1>2, <1>5 DEF d, Drop

\* fgets takes a piece of what there is.
LEMMA FgetsPiece ==
    ASSUME NEW s \in Seq(Char), s # <<>>, NEW size \in Nat \ {0, 1}
    PROVE  Piece(s, Fgets(s, size), size)
<1> DEFINE n == Least(LineEnd(s), Least(size - 1, Len(s)))
           p == SubSeq(s, 1, n)
<1>1. Len(s) \in Nat \ {0}
  BY LenProperties, EmptySeq
<1>2. /\ n \in 1..Len(s) /\ n < size /\ n <= LineEnd(s)
      /\ n = Len(s) \/ n = size - 1 \/ n = LineEnd(s)
  BY <1>1, LineEndIs DEF Least
<1>3. p \in Seq(Char) /\ Len(p) = n /\ \A i \in 1..n : p[i] = s[i]
  BY <1>2, FirstChars
<1>4. LineEnd(s) \in Int /\ \A i \in 1..n : i < n => s[i] # Newline
  BY <1>1, <1>2, LineEndIs
<1>5. n = LineEnd(s) => s[n] = Newline
  BY <1>2, LineEndIs
<1>6. Fgets(s, size) = p
  BY DEF Fgets
<1> HIDE DEF n, p
<1> QED
  BY <1>2, <1>3, <1>4, <1>5, <1>6 DEF Piece

\* A line that can be sent: it fits into the buffer and is one line.
Sendable(line) ==
    /\ line \in Seq(Char) /\ Len(line) \in 1..MAX_RPC_BUF_LEN - 1
    /\ \A i \in 1..Len(line) : line[i] # Newline

\* Behind the first a characters of p is a line, up to place b: with its
\* newline, or as long as the buffer and without one.
Holds(p, line, a, b) ==
    /\ \A j \in 1..Len(line) : p[a + j] = line[j]
    /\ \/ b = a + Len(line) + 1 /\ p[b] = Newline
       \/ b = a + Len(line) /\ Len(line) = MAX_RPC_BUF_LEN - 1

\* What is in the pipe are the lines behind the first d, at[i] being the end
\* of line i, and before them perhaps the newline of a line that was read.
Framed(p, lines, d, at) ==
    /\ at \in [d..Len(lines) -> 0..Len(p)]
    /\ at[d] <= 1 /\ (at[d] = 1 => p[1] = Newline)
    /\ at[Len(lines)] = Len(p)
    /\ \A i, j \in d..Len(lines) : i < j => at[i] < at[j]
    /\ \A i \in d + 1..Len(lines) : Holds(p, lines[i], at[i - 1], at[i])

\* The lines of q but for empty ones.
Full(q) == Picked(q, {i \in DOMAIN q : q[i] # <<>>})

\* How much of the text has been read.
Taken == Len(text) - Len(typed)

\* The lines that were typed, at the places where they begin, and those
\* of the places where a line begins that is not blank.
Tidy(t) == [i \in 1..Len(t) |-> Joined(RunFrom(t, {Newline}, i))]
Written(t) == {i \in Begins(t, {Newline}) : Tidy(t)[i] # <<>>}

\* Every line is to arrive as it was typed.
Exact == begun = "rpc" /\ Fit(text, MAX_RPC_BUF_LEN)

Forms ==
    /\ text \in Texts /\ typed \in Seq(Char) /\ Len(typed) <= Len(text)
    /\ \A i \in 1..Len(typed) : typed[i] = text[Taken + i]
    /\ begun \in {"auth", "rpc"} /\ phase \in {"auth", "wait", "rpc", "end"}
    /\ meant \in Seq(Seq(Char)) /\ got \in Seq(Seq(Char)) /\ pipe \in Seq(Char)
    /\ \A i \in 1..Len(got) : Len(got[i]) < MAX_RPC_BUF_LEN
    /\ \A i \in 1..Len(meant) : Sendable(meant[i])

\* The server is as many lines behind the client as the pipe holds.
Behind ==
    \E d \in 0..Len(meant) :
       /\ Full(got) = SubSeq(meant, 1, d)
       /\ \E at \in [d..Len(meant) -> 0..Len(pipe)] :
             /\ Framed(pipe, meant, d, at)
             /\ Exact => at[d] = 0 /\ got = SubSeq(meant, 1, d)

\* Lines that fit are read and sent whole, one by one.
Whole ==
    Exact =>
      /\ phase \in {"rpc", "end"}
      /\ \A i \in 1..Len(meant) : Len(meant[i]) < MAX_RPC_BUF_LEN - 1
      /\ Taken \in {0, Len(text)} \/ text[Taken] = Newline
      /\ meant = Picked(Tidy(text), Written(text) \cap 1..Taken)

IInv == Forms /\ Behind /\ Whole

\* m is the message a line goes out as.
Message(line, m) ==
    /\ m \in Seq(Char)
    /\ \A i \in 1..Len(line) : m[i] = line[i]
    /\ \/ Len(m) = Len(line) + 1 /\ m[Len(m)] = Newline
       \/ Len(m) = Len(line) /\ Len(line) = MAX_RPC_BUF_LEN - 1

\* snprintf makes a message of a line, with either buffer of the client.
LEMMA SnprintfMessage ==
    ASSUME NEW line, Sendable(line),
           NEW size \in {MAX_RPC_BUF_LEN, MAX_RPC_BUF_LEN + 1}
    PROVE  Message(line, Snprintf(Append(line, Newline), size))
<1> DEFINE s == Append(line, Newline)
           n == Least(size - 1, Len(s))
           m == SubSeq(s, 1, n)
<1>1. /\ line \in Seq(Char) /\ Newline \in Char /\ MAX_RPC_BUF_LEN \in Nat \ {0, 1}
      /\ Len(line) \in Nat /\ Len(line) \in 1..MAX_RPC_BUF_LEN - 1
  BY LinesConstants DEF Sendable
<1>2. /\ s \in Seq(Char) /\ Len(s) = Len(line) + 1 /\ s[Len(line) + 1] = Newline
      /\ \A i \in 1..Len(line) : s[i] = line[i]
  BY <1>1, AppendProperties
<1> HIDE DEF s
<1>3. /\ n \in 0..Len(s)
      /\ n = Len(line) + 1 \/ (n = Len(line) /\ Len(line) = MAX_RPC_BUF_LEN - 1)
  BY <1>1, <1>2 DEF Least
<1>4. m \in Seq(Char) /\ Len(m) = n /\ \A i \in 1..n : m[i] = s[i]
  BY <1>2, <1>3, FirstChars
<1>5. \A i \in 1..Len(line) : m[i] = line[i]
  BY <1>1, <1>2, <1>3, <1>4
<1>6. n = Len(line) + 1 => m[Len(m)] = Newline
  BY <1>1, <1>2, <1>4
<1>7. Snprintf(s, size) = m
  BY DEF Snprintf
<1> HIDE DEF m, n
<1> QED
  BY <1>3, <1>4, <1>5, <1>6, <1>7 DEF Message, s

\* The j-th of l characters behind the first a, all of them up to place n.
LEMMA PlaceWithin ==
    ASSUME NEW a \in Nat, NEW l \in Nat, NEW b \in Nat, NEW n \in Nat,
           a + l <= b, b <= n, NEW j \in 1..l
    PROVE  a + j \in 1..n
OBVIOUS

\* The pipe holds the lines behind the first d, from place c on.
FramedFrom(p, lines, d, c) == \E a : Framed(p, lines, d, a) /\ a[d] = c

AllSendable(lines) == \A i \in 1..Len(lines) : Sendable(lines[i])

\* The pipe still holds the lines when one more is written.
LEMMA SendFramed ==
    ASSUME NEW p \in Seq(Char), NEW lines \in Seq(Seq(Char)),
           NEW d \in 0..Len(lines), NEW at, Framed(p, lines, d, at),
           AllSendable(lines),
           NEW line, Sendable(line), NEW m, Message(line, m)
    PROVE  FramedFrom(p \o m, Append(lines, line), d, at[d])
<1> DEFINE n == Len(lines)
           q == p \o m
           ls == Append(lines, line)
           a == [i \in d..n + 1 |-> IF i = n + 1 THEN Len(p) + Len(m) ELSE at[i]]
<1>1. /\ n \in Nat /\ d \in 0..n /\ Len(p) \in Nat /\ Len(m) \in Nat
      /\ m \in Seq(Char) /\ line \in Seq(Char) /\ Len(line) \in Nat
  BY LenProperties DEF Message, Sendable
<1>2. /\ Len(q) = Len(p) + Len(m)
      /\ \A i \in 1..Len(p) : q[i] = p[i]
      /\ \A i \in 1..Len(m) : q[Len(p) + i] = m[i]
  <2>1. /\ Len(q) = Len(p) + Len(m)
        /\ \A i \in 1..Len(p) + Len(m) :
              q[i] = IF i <= Len(p) THEN p[i] ELSE m[i - Len(p)]
    BY <1>1, ConcatProperties
  <2> HIDE DEF q
  <2>2. \A i \in 1..Len(p) : q[i] = p[i]
    BY <1>1, <2>1
  <2>3. \A i \in 1..Len(m) :
           /\ Len(p) + i \in 1..Len(p) + Len(m) /\ ~(Len(p) + i <= Len(p))
           /\ (Len(p) + i) - Len(p) = i
    BY <1>1
  <2>4. \A i \in 1..Len(m) : q[Len(p) + i] = m[i]
    BY <2>1, <2>3
  <2> QED
    BY <2>1, <2>2, <2>4
<1>3. /\ Len(ls) = n + 1 /\ ls[n + 1] = line
      /\ \A i \in 1..n : ls[i] = lines[i]
  BY <1>1, AppendProperties
<1>4. /\ at \in [d..n -> 0..Len(p)] /\ at[n] = Len(p)
      /\ at[d] <= 1 /\ (at[d] = 1 => p[1] = Newline)
      /\ \A i \in d + 1..n : Holds(p, lines[i], at[i - 1], at[i])
  BY DEF Framed
<1> HIDE DEF q, ls, n
<1>5. /\ a \in [d..n + 1 -> 0..Len(q)] /\ a[n + 1] = Len(q) /\ a[d] = at[d]
      /\ \A i \in d..n : a[i] = at[i] /\ at[i] \in 0..Len(p)
  <2>1. \A i \in d..n : at[i] \in 0..Len(p)
    BY <1>4
  <2>2. \A i \in d..n : i # n + 1 /\ i \in d..n + 1
    BY <1>1
  <2>3. \A i \in d..n : a[i] = at[i]
    BY <2>2
  <2>4. n + 1 \in d..n + 1 /\ d \in d..n /\ Len(p) + Len(m) \in 0..Len(q)
    BY <1>1, <1>2
  <2>5. a[n + 1] = Len(q)
    BY <1>2, <2>4
  <2>6. a \in [d..n + 1 -> 0..Len(q)]
    <3>1. \A i \in d..n + 1 : i # n + 1 => at[i] \in 0..Len(q)
      BY <1>1, <1>2, <2>1
    <3> QED
      BY <2>4, <3>1
  <2> QED
    BY <2>1, <2>3, <2>4, <2>5, <2>6
<1>6. a[d] <= 1 /\ (a[d] = 1 => q[1] = Newline)
  BY <1>1, <1>2, <1>4, <1>5
<1>7. ASSUME NEW i \in d + 1..n
      PROVE  Holds(q, ls[i], a[i - 1], a[i])
  <2>1. i \in 1..n /\ i - 1 \in d..n /\ i \in d..n
    BY <1>1
  <2>2. Holds(p, lines[i], at[i - 1], at[i])
    BY <1>4
  <2>3. Len(lines[i]) \in Nat /\ ls[i] = lines[i]
    BY <1>3, <2>1 DEF Sendable, AllSendable, n
  <2>4. /\ a[i] = at[i] /\ at[i] \in 0..Len(p)
        /\ a[i - 1] = at[i - 1] /\ at[i - 1] \in 0..Len(p)
    BY <1>5, <2>1
  <2>5. at[i - 1] + Len(lines[i]) <= at[i]
    BY <2>2, <2>3, <2>4, SMTT(30) DEF Holds
  <2>6. \A j \in 1..Len(lines[i]) : q[at[i - 1] + j] = p[at[i - 1] + j]
    <3>1. \A j \in 1..Len(lines[i]) : at[i - 1] + j \in 1..Len(p)
      <4>1. at[i - 1] \in Nat /\ at[i] \in Nat /\ at[i] <= Len(p)
        BY <1>1, <2>4
      <4> QED
        BY <1>1, <2>3, <2>5, <4>1, PlaceWithin
    <3> QED
      BY <1>2, <3>1
  <2>7. at[i] = at[i - 1] + Len(lines[i]) + 1 => q[at[i]] = p[at[i]]
    <3>1. at[i] = at[i - 1] + Len(lines[i]) + 1 => at[i] \in 1..Len(p)
      BY <1>1, <2>3, <2>4, SMTT(30)
    <3> QED
      BY <1>2, <3>1
  <2> HIDE DEF a
  <2> QED
    BY <2>2, <2>3, <2>4, <2>6, <2>7 DEF Holds
<1>8. Holds(q, ls[n + 1], a[(n + 1) - 1], a[n + 1])
  <2>1. (n + 1) - 1 = n /\ a[n] = Len(p) /\ a[n + 1] = Len(p) + Len(m)
    BY <1>1, <1>2, <1>4, <1>5
  <2>2. \A i \in 1..Len(line) : m[i] = line[i] /\ i \in 1..Len(m)
    BY <1>1 DEF Message
  <2>3. \A i \in 1..Len(line) : q[Len(p) + i] = line[i]
    BY <1>2, <2>2
  <2>4. Len(m) = Len(line) + 1 => q[Len(p) + Len(m)] = m[Len(m)]
    BY <1>1, <1>2
  <2>5. \/ /\ Len(p) + Len(m) = Len(p) + Len(line) + 1
           /\ q[Len(p) + Len(m)] = Newline
        \/ /\ Len(p) + Len(m) = Len(p) + Len(line)
           /\ Len(line) = MAX_RPC_BUF_LEN - 1
    <3>1. CASE Len(m) = Len(line) + 1 /\ m[Len(m)] = Newline
      BY <1>1, <2>4, <3>1
    <3>2. CASE Len(m) = Len(line) /\ Len(line) = MAX_RPC_BUF_LEN - 1
      BY <1>1, <3>2
    <3> QED
      BY <3>1, <3>2 DEF Message
  <2> HIDE DEF a
  <2> QED
    BY <1>3, <2>1, <2>3, <2>5 DEF Holds
<1>9. \A i \in d + 1..n + 1 : i \in d + 1..n \/ i = n + 1
  BY <1>1
<1>10. \A i, j \in d..n + 1 : i < j => a[i] < a[j]
  <2>1. Len(m) > 0
    BY <1>1 DEF Message, Sendable
  <2>2. \A i, j \in d..n : i < j => at[i] < at[j]
    BY DEF Framed, n
  <2>3. \A i \in d..n : a[i] < a[n + 1]
    <3>1. \A x \in 0..Len(p) : x < Len(q)
      BY <1>1, <1>2, <2>1
    <3> QED
      BY <1>5, <3>1
  <2>4. \A i, j \in d..n : i < j => a[i] < a[j]
    BY <1>5, <2>2
  <2>5. \A i, j \in d..n + 1 : i < j => i \in d..n /\ (j \in d..n \/ j = n + 1)
    BY <1>1
  <2> HIDE DEF a
  <2> QED
    BY <2>3, <2>4, <2>5
<1>11. Framed(q, ls, d, a)
  <2> HIDE DEF a
  <2> QED
    BY <1>3, <1>5, <1>6, <1>7, <1>8, <1>9, <1>10 DEF Framed
<1> QED
  BY <1>5, <1>11 DEF q, ls, FramedFrom

\* read_until_delim takes the line at the front, and its newline unless the
\* buffer is full before.
LEMMA ReadLine ==
    ASSUME NEW p \in Seq(Char), NEW line, Sendable(line),
           NEW b \in 0..Len(p), Holds(p, line, 0, b)
    PROVE  \E e \in 1..Len(p) :
              /\ ReadUntilDelim(p, MAX_RPC_BUF_LEN) =
                     [done |-> TRUE, line |-> line, rest |-> Drop(p, e)]
              /\ e = b \/ (b = e + 1 /\ p[b] = Newline)
              /\ Len(line) < MAX_RPC_BUF_LEN - 1 => e = b
<1> DEFINE k == Len(line)
           max == MAX_RPC_BUF_LEN - 1
           n == Least(LineEnd(p) - 1, Room(MAX_RPC_BUF_LEN))
<1>1. /\ k \in Nat /\ k >= 1 /\ k <= max /\ max \in Nat /\ Len(p) \in Nat
      /\ line \in Seq(Char) /\ \A i \in 1..k : line[i] # Newline
  BY LinesConstants, LenProperties DEF Sendable
<1>2. /\ \A i \in 1..k : p[i] = line[i]
      /\ \/ b = k + 1 /\ p[b] = Newline
         \/ b = k /\ k = max
  BY <1>1 DEF Holds
<1>3. k \in 1..Len(p) /\ b \in 1..Len(p)
  BY <1>1, <1>2
<1>4. SubSeq(p, 1, k) = line
  <2>1. /\ SubSeq(p, 1, k) \in Seq(Char) /\ Len(SubSeq(p, 1, k)) = k
        /\ \A i \in 1..k : SubSeq(p, 1, k)[i] = p[i]
    BY <1>1, <1>3, FirstChars
  <2> QED
    BY <1>1, <1>2, <2>1, SeqEqual
<1>5. /\ LineEnd(p) \in 1..Len(p) + 1
      /\ \A i \in 1..Len(p) : i < LineEnd(p) => p[i] # Newline
      /\ LineEnd(p) <= Len(p) => p[LineEnd(p)] = Newline
  BY LineEndIs
<1>6. LineEnd(p) > k
  <2>1. ASSUME LineEnd(p) <= k PROVE FALSE
    <3>1. LineEnd(p) \in 1..k /\ LineEnd(p) <= Len(p)
      BY <1>1, <1>3, <1>5, <2>1
    <3> QED
      BY <1>1, <1>2, <1>5, <3>1
  <2> QED
    BY <1>1, <1>5, <2>1
<1>7. b = k + 1 => LineEnd(p) = k + 1
  BY <1>1, <1>2, <1>3, <1>5, <1>6
<1>8. n = k
  BY <1>1, <1>2, <1>5, <1>6, <1>7 DEF Least, Room
<1> DEFINE cut == n = Room(MAX_RPC_BUF_LEN)
           found == ~cut /\ n < Len(p)
           e == IF found THEN n + 1 ELSE n
<1>9. ReadUntilDelim(p, MAX_RPC_BUF_LEN) =
         [done |-> cut \/ found, line |-> SubSeq(p, 1, n), rest |-> Drop(p, e)]
  BY DEF ReadUntilDelim
<1>10. cut <=> k = max
  BY <1>8 DEF Room
<1>11. found <=> k # max
  BY <1>1, <1>2, <1>3, <1>8, <1>10
<1>12. e = IF k # max THEN k + 1 ELSE k
  BY <1>8, <1>11
<1>13. (cut \/ found) = TRUE
  BY <1>10, <1>11
<1>14. SubSeq(p, 1, n) = line
  BY <1>4, <1>8
<1> HIDE DEF n, cut, found, e, k
<1>15. /\ e \in 1..Len(p)
       /\ e = b \/ (b = e + 1 /\ p[b] = Newline)
       /\ k < max => e = b
  BY <1>1, <1>2, <1>3, <1>12
<1>16. ReadUntilDelim(p, MAX_RPC_BUF_LEN) =
         [done |-> TRUE, line |-> line, rest |-> Drop(p, e)]
  BY <1>9, <1>13, <1>14
<1> QED
  BY <1>15, <1>16 DEF k

\* It takes a newline at the front as an empty line.
LEMMA ReadNewline ==
    ASSUME NEW p \in Seq(Char), p # <<>>, p[1] = Newline
    PROVE  ReadUntilDelim(p, MAX_RPC_BUF_LEN) =
              [done |-> TRUE, line |-> <<>>, rest |-> Drop(p, 1)]
<1> DEFINE n == Least(LineEnd(p) - 1, Room(MAX_RPC_BUF_LEN))
<1>1. Len(p) \in Nat \ {0} /\ MAX_RPC_BUF_LEN \in Nat \ {0, 1}
  BY LenProperties, EmptySeq, LinesConstants
<1>2. LineEnd(p) = 1
  <2>1. /\ LineEnd(p) \in 1..Len(p) + 1
        /\ \A i \in 1..Len(p) : i < LineEnd(p) => p[i] # Newline
    BY LineEndIs
  <2> QED
    BY <1>1, <2>1
<1>3. n = 0 /\ Room(MAX_RPC_BUF_LEN) # 0
  BY <1>1, <1>2 DEF Least, Room
<1>4. SubSeq(p, 1, 0) = <<>>
  BY SubSeqEmpty
<1>5. 0 < Len(p) /\ 0 + 1 = 1
  BY <1>1
<1>6. ReadUntilDelim(p, MAX_RPC_BUF_LEN) =
         [done |-> n = Room(MAX_RPC_BUF_LEN)
                     \/ (n # Room(MAX_RPC_BUF_LEN) /\ n < Len(p)),
          line |-> SubSeq(p, 1, n),
          rest |-> Drop(p, IF n # Room(MAX_RPC_BUF_LEN) /\ n < Len(p)
                           THEN n + 1 ELSE n)]
  BY DEF ReadUntilDelim
<1> HIDE DEF n
<1> QED
  BY <1>3, <1>4, <1>5, <1>6

\* Without its first e characters the pipe holds what is left of the lines.
LEMMA DropFramed ==
    ASSUME NEW p \in Seq(Char), NEW lines \in Seq(Seq(Char)),
           \A i \in 1..Len(lines) : Sendable(lines[i]),
           NEW d \in 0..Len(lines), NEW at, Framed(p, lines, d, at),
           NEW c \in d..Len(lines), NEW e \in 1..Len(p),
           e = at[c] \/ (at[c] = e + 1 /\ p[at[c]] = Newline)
    PROVE  \E a : Framed(Drop(p, e), lines, c, a) /\ (e = at[c] => a[c] = 0)
<1> DEFINE n == Len(lines)
           q == Drop(p, e)
           a == [i \in c..n |-> at[i] - e]
<1>1. n \in Nat /\ c \in d..n /\ Len(p) \in Nat /\ d \in Nat /\ e \in Nat
  BY LenProperties
<1>2. Len(q) = Len(p) - e /\ \A i \in 1..Len(p) - e : q[i] = p[e + i]
  BY <1>1, OtherChars
<1>3. /\ at \in [d..n -> 0..Len(p)] /\ at[n] = Len(p)
      /\ \A i, j \in d..n : i < j => at[i] < at[j]
      /\ \A i \in d + 1..n : Holds(p, lines[i], at[i - 1], at[i])
  BY DEF Framed
<1> HIDE DEF q, n
<1>4. \A i \in c..n : at[i] \in e..Len(p)
  <2>1. c \in d..n /\ at[c] >= e /\ at[c] \in 0..Len(p)
    BY <1>1, <1>3
  <2>2. \A i \in c..n : i \in d..n /\ at[i] \in 0..Len(p) /\ (i = c \/ c < i)
    BY <1>1, <1>3
  <2>3. \A i \in c..n : at[i] >= e
    BY <1>1, <1>3, <2>1, <2>2
  <2> QED
    BY <1>1, <2>2, <2>3
<1>5. \A i \in c..n : a[i] = at[i] - e /\ a[i] \in 0..Len(q)
  <2>1. \A x \in e..Len(p) : x - e \in 0..Len(p) - e
    BY <1>1
  <2> QED
    BY <1>2, <1>4, <2>1
<1>6. a \in [c..n -> 0..Len(q)]
  BY <1>5
<1> HIDE DEF a
<1>7. c \in c..n /\ n \in c..n /\ a[n] = Len(q)
  BY <1>1, <1>2, <1>3, <1>5
<1>8. a[c] <= 1 /\ (e = at[c] => a[c] = 0) /\ (a[c] = 1 => q[1] = Newline)
  <2>1. CASE e = at[c]
    BY <1>1, <1>5, <1>7, <2>1
  <2>2. CASE at[c] = e + 1 /\ p[at[c]] = Newline
    <3>1. a[c] = 1 /\ e # at[c]
      BY <1>1, <1>5, <1>7, <2>2
    <3>2. q[1] = p[e + 1]
      BY <1>1, <1>2, <1>4, <1>7, <2>2
    <3> QED
      BY <2>2, <3>1, <3>2
  <2> QED
    BY <2>1, <2>2
<1>9. \A i, j \in c..n : i < j => a[i] < a[j]
  <2>1. \A i, j \in c..n : i < j => at[i] < at[j]
    BY <1>1, <1>3
  <2>2. \A x, y \in e..Len(p) : x < y => x - e < y - e
    BY <1>1
  <2> QED
    BY <1>4, <1>5, <2>1, <2>2
<1>10. ASSUME NEW i \in c + 1..n
       PROVE  Holds(q, lines[i], a[i - 1], a[i])
  <2>1. i \in c..n /\ i - 1 \in c..n /\ i \in d + 1..n /\ i \in 1..n
    BY <1>1
  <2>2. Holds(p, lines[i], at[i - 1], at[i])
    BY <1>3, <2>1
  <2>3. Len(lines[i]) \in Nat
    BY <2>1 DEF Sendable, n
  <2>4. /\ at[i] \in e..Len(p) /\ at[i - 1] \in e..Len(p)
        /\ a[i] = at[i] - e /\ a[i - 1] = at[i - 1] - e
    BY <1>4, <1>5, <2>1
  <2>5. at[i - 1] + Len(lines[i]) <= at[i]
    BY <1>1, <2>2, <2>3, <2>4, SMTT(30) DEF Holds
  <2>6. ASSUME NEW j \in 1..Len(lines[i])
        PROVE  q[a[i - 1] + j] = lines[i][j]
    <3>1. /\ (at[i - 1] - e) + j \in 1..Len(p) - e
          /\ e + ((at[i - 1] - e) + j) = at[i - 1] + j
      <4>1. at[i] \in e..Len(p) /\ at[i - 1] \in e..Len(p)
        BY <2>4
      <4>2. \A x, y \in e..Len(p) : \A l \in Nat : x + l <= y =>
               \A h \in 1..l : /\ (x - e) + h \in 1..Len(p) - e
                               /\ e + ((x - e) + h) = x + h
        BY <1>1
      <4>3. \A h \in 1..Len(lines[i]) :
               /\ (at[i - 1] - e) + h \in 1..Len(p) - e
               /\ e + ((at[i - 1] - e) + h) = at[i - 1] + h
        BY <2>3, <2>5, <4>1, <4>2
      <4> QED
        BY <4>3
    <3>2. q[(at[i - 1] - e) + j] = p[at[i - 1] + j]
      BY <1>2, <3>1
    <3> QED
      BY <2>2, <2>4, <3>2 DEF Holds
  <2>7. CASE at[i] = at[i - 1] + Len(lines[i]) + 1 /\ p[at[i]] = Newline
    <3>1. at[i] - e \in 1..Len(p) - e /\ e + (at[i] - e) = at[i]
      <4>1. at[i] \in e..Len(p) /\ at[i] > e
        BY <1>1, <2>3, <2>4, <2>7, SMTT(30)
      <4>2. \A x \in e..Len(p) : x > e =>
                x - e \in 1..Len(p) - e /\ e + (x - e) = x
        BY <1>1
      <4> QED
        BY <4>1, <4>2
    <3>2. q[at[i] - e] = Newline
      BY <1>2, <2>7, <3>1
    <3>3. a[i] = a[i - 1] + Len(lines[i]) + 1
      BY <1>1, <2>3, <2>4, <2>7, SMTT(30)
    <3> QED
      BY <2>4, <2>6, <3>2, <3>3 DEF Holds
  <2>8. CASE /\ at[i] = at[i - 1] + Len(lines[i])
             /\ Len(lines[i]) = MAX_RPC_BUF_LEN - 1
    <3>1. a[i] = a[i - 1] + Len(lines[i])
      BY <1>1, <2>3, <2>4, <2>8
    <3> QED
      BY <2>6, <2>8, <3>1 DEF Holds
  <2> QED
    BY <2>2, <2>7, <2>8 DEF Holds
<1>11. Framed(q, lines, c, a)
  BY <1>6, <1>7, <1>8, <1>9, <1>10 DEF Framed, n
<1> QED
  BY <1>8, <1>11 DEF q

\* A turn of the sweep reads the next line of the pipe, whole, or the newline
\* that a full buffer left behind.
Swept(p, lines, d, c) ==
    \E line \in Seq(Char), rest \in Seq(Char) :
       /\ ReadUntilDelim(p, MAX_RPC_BUF_LEN) =
              [done |-> TRUE, line |-> line, rest |-> rest]
       /\ \/ /\ c = 1 /\ line = <<>>
             /\ \E a : Framed(rest, lines, d, a)
          \/ /\ c = 0 /\ d < Len(lines) /\ line = lines[d + 1]
             /\ \E a : /\ Framed(rest, lines, d + 1, a)
                       /\ Len(line) < MAX_RPC_BUF_LEN - 1 => a[d + 1] = 0

\* The pipe never makes it take anything else.
LEMMA SweepFramed ==
    ASSUME NEW p \in Seq(Char), p # <<>>, NEW lines \in Seq(Seq(Char)),
           AllSendable(lines),
           NEW d \in 0..Len(lines), NEW at, Framed(p, lines, d, at)
    PROVE  Swept(p, lines, d, at[d])
<1> DEFINE n == Len(lines)
<1>1. /\ Len(p) \in Nat \ {0} /\ n \in Nat /\ d \in 0..n /\ d \in d..n
      /\ at \in [d..n -> 0..Len(p)] /\ at[n] = Len(p)
      /\ at[d] <= 1 /\ (at[d] = 1 => p[1] = Newline)
      /\ \A i \in d + 1..n : Holds(p, lines[i], at[i - 1], at[i])
  BY LenProperties, EmptySeq DEF Framed
<1>2. at[d] \in {0, 1}
  <2>1. at[d] \in 0..Len(p) /\ at[d] <= 1
    BY <1>1
  <2> QED
    BY <1>1, <2>1
<1>3. CASE at[d] = 1
  <2>1. ReadUntilDelim(p, MAX_RPC_BUF_LEN) =
           [done |-> TRUE, line |-> <<>>, rest |-> Drop(p, 1)]
    BY <1>1, <1>3, ReadNewline
  <2>2. 1 \in 1..Len(p) /\ 1 = at[d]
    BY <1>1, <1>3
  <2>3. \E a : Framed(Drop(p, 1), lines, d, a)
    BY <1>1, <2>2, DropFramed DEF AllSendable
  <2>4. Drop(p, 1) \in Seq(Char) /\ <<>> \in Seq(Char)
    BY <2>2, OtherChars, EmptySeq
  <2> QED
    BY <1>3, <2>1, <2>3, <2>4 DEF Swept
<1>4. CASE at[d] = 0
  <2>1. d < n
    BY <1>1, <1>4
  <2>2. /\ d + 1 \in d + 1..n /\ d + 1 \in d..n /\ (d + 1) - 1 = d
        /\ d + 1 \in 1..n
    BY <1>1, <2>1
  <2> DEFINE line == lines[d + 1]
             b == at[d + 1]
  <2>3. Sendable(line) /\ line \in Seq(Char)
    BY <2>2 DEF Sendable, AllSendable
  <2>4. Holds(p, line, 0, b) /\ b \in 0..Len(p)
    BY <1>1, <1>4, <2>2
  <2> HIDE DEF line, b
  <2>5. PICK e \in 1..Len(p) :
              /\ ReadUntilDelim(p, MAX_RPC_BUF_LEN) =
                     [done |-> TRUE, line |-> line, rest |-> Drop(p, e)]
              /\ e = b \/ (b = e + 1 /\ p[b] = Newline)
              /\ Len(line) < MAX_RPC_BUF_LEN - 1 => e = b
    BY <2>3, <2>4, ReadLine
  <2>6. e = at[d + 1] \/ (at[d + 1] = e + 1 /\ p[at[d + 1]] = Newline)
    BY <2>5 DEF b
  <2>7. PICK a : /\ Framed(Drop(p, e), lines, d + 1, a)
                 /\ e = at[d + 1] => a[d + 1] = 0
    <3> DEFINE c == d + 1
    <3>1. c \in d..Len(lines) /\ (e = at[c] \/ (at[c] = e + 1 /\ p[at[c]] = Newline))
      BY <2>2, <2>6
    <3> HIDE DEF c
    <3>2. \E a : Framed(Drop(p, e), lines, c, a) /\ (e = at[c] => a[c] = 0)
      BY <3>1, DropFramed DEF AllSendable
    <3> QED
      BY <3>2 DEF c
  <2>8. Len(line) < MAX_RPC_BUF_LEN - 1 => a[d + 1] = 0
    BY <2>5, <2>7 DEF b
  <2>9. Drop(p, e) \in Seq(Char)
    <3>1. e \in 0..Len(p)
      BY <1>1
    <3> QED
      BY <3>1, OtherChars
  <2> QED
    BY <1>4, <2>1, <2>3, <2>5, <2>7, <2>8, <2>9 DEF line, Swept
<1> QED
  BY <1>2, <1>3, <1>4

\* An empty line changes nothing of the lines that are not empty, another
\* one is the next of them.
LEMMA FullAppend ==
    ASSUME NEW q \in Seq(Seq(Char)), NEW line \in Seq(Char)
    PROVE  Full(Append(q, line)) =
              IF line = <<>> THEN Full(q) ELSE Append(Full(q), line)
<1> DEFINE n == Len(q)
           r == Append(q, line)
           S == {i \in DOMAIN q : q[i] # <<>>}
           T == {i \in DOMAIN r : r[i] # <<>>}
<1>1. /\ n \in Nat /\ DOMAIN q = 1..n
      /\ r \in Seq(Seq(Char)) /\ Len(r) = n + 1 /\ r[n + 1] = line
      /\ \A i \in 1..n : r[i] = q[i]
  BY LenProperties, AppendProperties
<1>2. DOMAIN r = 1..n + 1
  BY <1>1, LenProperties
<1> HIDE DEF n, r
<1>3. S \subseteq 1..n /\ \A i \in S : r[i] = q[i]
  BY <1>1
<1>4. Picked(r, S) = Picked(q, S)
  <2> HIDE DEF S
  <2> QED
    BY <1>1, <1>3, PickedSame
<1>5. T = IF line = <<>> THEN S ELSE S \cup {n + 1}
  BY <1>1, <1>2
<1>6. Picked(r, S \cup {n + 1}) = Append(Picked(r, S), line)
  <2>1. S \subseteq 1..(n + 1) - 1 /\ n + 1 \in Nat \ {0}
    BY <1>1
  <2> HIDE DEF S
  <2> QED
    BY <1>1, <2>1, PickedMore
<1>7. Full(q) = Picked(q, S) /\ Full(r) = Picked(r, T)
  BY DEF Full
<1> HIDE DEF S, T
<1> QED
  BY <1>4, <1>5, <1>6, <1>7 DEF r

\* The beginning of a sequence that grows.
LEMMA FirstOfAppend ==
    ASSUME NEW T, NEW s \in Seq(T), NEW e \in T, NEW d \in 0..Len(s)
    PROVE  SubSeq(Append(s, e), 1, d) = SubSeq(s, 1, d)
<1> DEFINE r == Append(s, e)
<1>1. /\ Len(s) \in Nat /\ \A i \in 1..d : s[i] \in T /\ r[i] = s[i]
  BY LenProperties, ElementOfSeq, AppendProperties
<1> HIDE DEF r
<1>2. /\ SubSeq(s, 1, d) \in Seq(T) /\ Len(SubSeq(s, 1, d)) = d
      /\ \A i \in 1..d : SubSeq(s, 1, d)[i] = s[i]
  BY <1>1, SubSeqProperties
<1>3. /\ SubSeq(r, 1, d) \in Seq(T) /\ Len(SubSeq(r, 1, d)) = d
      /\ \A i \in 1..d : SubSeq(r, 1, d)[i] = r[i]
  BY <1>1, SubSeqProperties
<1> QED
  BY <1>1, <1>2, <1>3, SeqEqual DEF r

\* The beginning that is one longer.
LEMMA FirstNext ==
    ASSUME NEW T, NEW s \in Seq(T), NEW d \in Nat, d < Len(s)
    PROVE  SubSeq(s, 1, d + 1) = Append(SubSeq(s, 1, d), s[d + 1])
<1> DEFINE a == SubSeq(s, 1, d)
           b == SubSeq(s, 1, d + 1)
<1>1. Len(s) \in Nat /\ \A i \in 1..d + 1 : s[i] \in T
  BY LenProperties, ElementOfSeq
<1>2. a \in Seq(T) /\ Len(a) = d /\ \A i \in 1..d : a[i] = s[i]
  BY <1>1, SubSeqProperties
<1>3. b \in Seq(T) /\ Len(b) = d + 1 /\ \A i \in 1..d + 1 : b[i] = s[i]
  BY <1>1, SubSeqProperties
<1> HIDE DEF a, b
<1>4. /\ Append(a, s[d + 1]) \in Seq(T) /\ Len(Append(a, s[d + 1])) = d + 1
      /\ \A i \in 1..d : Append(a, s[d + 1])[i] = a[i]
      /\ Append(a, s[d + 1])[d + 1] = s[d + 1]
  <2>1. s[d + 1] \in T
    BY <1>1
  <2> QED
    BY <1>2, <2>1, AppendProperties
<1>5. \A i \in 1..d + 1 : b[i] = Append(a, s[d + 1])[i]
  BY <1>2, <1>3, <1>4
<1> QED
  BY <1>3, <1>4, <1>5, SeqEqual DEF a, b

-----------------------------------------------------------------------------
(* Lines that fit: the client reads them as they were typed *)

\* A newline at the end of a line makes no difference.
LEMMA JoinedNewline ==
    ASSUME NEW s \in Seq(Char)
    PROVE  Joined(Append(s, Newline)) = Joined(s)
<1> DEFINE n == Len(s)
           t == Append(s, Newline)
<1>1. /\ n \in Nat /\ t \in Seq(Char) /\ Len(t) = n + 1 /\ t[n + 1] = Newline
      /\ \A i \in 1..n : t[i] = s[i]
  BY LenProperties, AppendProperties, LinesConstants
<1>2. isspace(t[n + 1])
  BY <1>1 DEF isspace
<1> HIDE DEF n, t
<1>3. \A i \in 1..n : \A h \in 1..i : t[h] = s[h]
  BY <1>1
<1>4. \A i \in 1..n : i \in Kept(t) <=> i \in Kept(s)
  <2> SUFFICES ASSUME NEW i \in 1..n PROVE i \in Kept(t) <=> i \in Kept(s)
    OBVIOUS
  <2>1. i \in 1..n + 1 /\ i < n + 1 /\ t[i] = s[i]
    BY <1>1
  <2>2. CASE i < n
    <3>1. t[i + 1] = s[i + 1]
      BY <1>1, <2>2
    <3> QED
      BY <1>1, <1>3, <2>1, <2>2, <3>1 DEF Kept, n
  <2>3. CASE i = n
    BY <1>1, <1>2, <2>1, <2>3 DEF Kept, n
  <2> QED
    BY <1>1, <2>2, <2>3
<1>5. n + 1 \notin Kept(t)
  BY <1>1, <1>2 DEF Kept
<1>6. Kept(s) \subseteq 1..n /\ Kept(t) \subseteq 1..n + 1
  BY <1>1 DEF Kept, n
<1>7. Kept(t) = Kept(s)
  <2>1. Kept(t) \subseteq 1..n
    BY <1>1, <1>5, <1>6
  <2> QED
    BY <1>4, <1>6, <2>1
<1>8. \A i \in Kept(s) : Shown(t)[i] = Shown(s)[i]
  BY <1>1, <1>6 DEF Shown, n
<1>9. Picked(Shown(t), Kept(s)) = Picked(Shown(s), Kept(s))
  BY <1>1, <1>6, <1>8, PickedSame
<1> QED
  BY <1>7, <1>9, JoinedIs DEF t

\* Nothing is left of an empty line.
LEMMA JoinedEmpty == Joined(<<>>) = <<>> /\ Joined(<<Newline>>) = <<>>
<1>1. Kept(<<>>) = {}
  BY DEF Kept
<1>2. Joined(<<>>) = <<>>
  BY <1>1, JoinedIs, PickedNone
<1>3. <<>> \in Seq(Char) /\ Append(<<>>, Newline) = <<Newline>>
  BY EmptySeq
<1> QED
  BY <1>2, <1>3, JoinedNewline

\* The characters of t from place i to the one before place e.
LEMMA CharsFrom ==
    ASSUME NEW t \in Seq(Char), NEW i \in 1..Len(t), NEW e \in i..Len(t) + 1
    PROVE  /\ SubSeq(t, i, e - 1) \in Seq(Char)
           /\ Len(SubSeq(t, i, e - 1)) = e - i
           /\ \A h \in 1..e - i : SubSeq(t, i, e - 1)[h] = t[(i - 1) + h]
<1> DEFINE q == SubSeq(t, i, e - 1)
<1>1. /\ i \in Int /\ e - 1 \in Int /\ Len(t) \in Nat
      /\ \A j \in i..e - 1 : t[j] \in Char
  BY LenProperties, ElementOfSeq
<1>2. q \in Seq(Char)
  BY <1>1, SubSeqProperties
<1>3. Len(q) = IF i <= e - 1 THEN (e - 1) - i + 1 ELSE 0
  BY <1>1, SubSeqProperties
<1>4. \A h \in 1..(e - 1) - i + 1 : q[h] = t[i + h - 1]
  BY <1>1, SubSeqProperties
<1>5. (e - 1) - i + 1 = e - i /\ \A h \in 1..e - i : i + h - 1 = (i - 1) + h
  BY <1>1
<1> HIDE DEF q
<1>6. Len(q) = e - i
  BY <1>1, <1>3
<1>7. \A h \in 1..e - i : q[h] = t[(i - 1) + h]
  BY <1>4, <1>5
<1> QED
  BY <1>2, <1>6, <1>7 DEF q

\* A run ends at the first separator or with the text.
LEMMA RunTo ==
    ASSUME NEW Sep, NEW t \in Seq(Char), NEW i \in 1..Len(t), NEW e \in i..Len(t) + 1,
           \A j \in i..e - 1 : t[j] \notin Sep,
           e <= Len(t) => t[e] \in Sep
    PROVE  RunFrom(t, Sep, i) = SubSeq(t, i, e - 1)
<1> DEFINE E == {j \in i..Len(t) : t[j] \in Sep} \cup {Len(t) + 1}
           x == Min(E)
<1>1. Len(t) \in Nat /\ i \in Nat /\ e \in Nat
  BY LenProperties
<1>2. E \subseteq Nat /\ E # {}
  BY <1>1
<1>3. e \in E
  BY <1>1
<1>4. \A y \in E : e <= y
  BY <1>1
<1>5. x \in E /\ \A y \in E : x <= y
  <2> HIDE DEF E
  <2> QED
    BY <1>2, MinIsLeast
<1>6. RunFrom(t, Sep, i) = SubSeq(t, i, x - 1)
  BY DEF RunFrom
<1> HIDE DEF E, x
<1>7. x = e
  BY <1>1, <1>2, <1>3, <1>4, <1>5
<1> QED
  BY <1>6, <1>7

\* Where a run of characters that are no newlines ends.
LEMMA RunIs ==
    ASSUME NEW t \in Seq(Char), NEW i \in 1..Len(t), NEW e \in i..Len(t) + 1,
           \A j \in i..e - 1 : t[j] # Newline,
           e <= Len(t) => t[e] = Newline
    PROVE  RunFrom(t, {Newline}, i) = SubSeq(t, i, e - 1)
<1>1. /\ \A j \in i..e - 1 : t[j] \notin {Newline}
      /\ e <= Len(t) => t[e] \in {Newline}
  OBVIOUS
<1> QED
  BY <1>1, RunTo

\* What a run has at least.
LEMMA RunLong ==
    ASSUME NEW t \in Seq(Char), NEW i \in 1..Len(t), NEW e \in i..Len(t) + 1,
           \A j \in i..e - 1 : t[j] # Newline
    PROVE  Len(RunFrom(t, {Newline}, i)) >= e - i
<1> DEFINE E == {j \in i..Len(t) : t[j] \in {Newline}} \cup {Len(t) + 1}
           x == Min(E)
<1>1. Len(t) \in Nat /\ i \in Nat /\ e \in Nat
  BY LenProperties
<1>2. E \subseteq Nat /\ E # {} /\ E \subseteq i..Len(t) + 1
  BY <1>1
<1>3. \A y \in E : e <= y
  BY <1>1
<1>4. x \in E
  <2> HIDE DEF E
  <2> QED
    BY <1>2, MinIsLeast
<1>5. x \in i..Len(t) + 1 /\ e <= x
  BY <1>2, <1>3, <1>4
<1>6. RunFrom(t, {Newline}, i) = SubSeq(t, i, x - 1)
  BY DEF RunFrom
<1> HIDE DEF x, E
<1>7. Len(SubSeq(t, i, x - 1)) = x - i
  BY <1>5, CharsFrom
<1> QED
  BY <1>1, <1>5, <1>6, <1>7

\* What is read from place c on, the beginning of a line, ends with that line
\* or with the text, and is worth as much as the line.
LineRead(t, c, out, size) ==
    /\ c + Len(out) = Len(t) \/ t[c + Len(out)] = Newline
    /\ \A i \in Begins(t, {Newline}) : i \in c + 1..c + Len(out) => i = c + 1
    /\ IF c + 1 \in Begins(t, {Newline})
       THEN LET run == RunFrom(t, {Newline}, c + 1) IN
            /\ Len(run) < size - 1 /\ run \in Seq(Char)
            /\ Joined(out) = Joined(run)
       ELSE Joined(out) = <<>>

\* Reading at the beginning of a line, of a text whose lines fit: fgets takes
\* all of the line, and the next read is again at the beginning of a line.
LEMMA ReadWhole ==
    ASSUME NEW size \in Nat \ {0, 1}, NEW t \in Seq(Char), Fit(t, size),
           NEW c \in Nat, c < Len(t),
           c = 0 \/ t[c] = Newline,
           NEW u \in Seq(Char), Len(u) = Len(t) - c,
           \A i \in 1..Len(u) : u[i] = t[c + i],
           NEW out, Piece(u, out, size)
    PROVE  LineRead(t, c, out, size)
<1> DEFINE k == Len(out)
           run == RunFrom(t, {Newline}, c + 1)
           B == Begins(t, {Newline})
<1>1. /\ Len(t) \in Nat /\ Len(u) \in Nat /\ k \in Nat /\ k >= 1 /\ k <= Len(u)
      /\ k < size /\ size \in Nat
      /\ out \in Seq(Char)
      /\ \A i \in 1..k : out[i] = u[i]
      /\ \A i \in 1..k : i < k => out[i] # Newline
      /\ k = Len(u) \/ k = size - 1 \/ out[k] = Newline
  BY LenProperties, LinesConstants DEF Piece
<1> HIDE DEF k
<1>2. /\ \A i \in 1..k : out[i] = t[c + i]
      /\ c + k \in 1..Len(t) /\ c + 1 \in 1..Len(t)
  <2>1. \A i \in 1..k : out[i] = u[i] /\ i \in 1..Len(u)
    BY <1>1
  <2>2. c + k \in 1..Len(t) /\ c + 1 \in 1..Len(t)
    BY <1>1
  <2> QED
    BY <2>1, <2>2
<1>3. \A j \in c + 1..c + k : j < c + k => t[j] # Newline
  <2> SUFFICES ASSUME NEW j \in c + 1..c + k, j < c + k PROVE t[j] # Newline
    OBVIOUS
  <2>1. j - c \in 1..k /\ j - c < k /\ c + (j - c) = j
    BY <1>1
  <2> QED
    BY <1>1, <1>2, <2>1
<1>4. out[k] = t[c + k] /\ out[1] = t[c + 1]
  BY <1>1, <1>2
<1>5. c + 1 \in B <=> t[c + 1] # Newline
  <2>1. c # 0 => t[(c + 1) - 1] = Newline
    OBVIOUS
  <2> QED
    BY <1>2, <2>1 DEF Begins
<1>6. c + 1 \in B => Len(run) < size - 1
  BY DEF Fit
<1>7. c + k = Len(t) \/ t[c + k] = Newline
  <2>1. SUFFICES ASSUME c + k # Len(t), t[c + k] # Newline PROVE FALSE
    OBVIOUS
  <2>2. k = size - 1
    BY <1>1, <1>4, <2>1
  <2> DEFINE e == (c + 1) + k
  <2>3. e \in c + 1..Len(t) + 1 /\ e - (c + 1) = k
    BY <1>1, <1>2
  <2>4. \A j \in c + 1..e - 1 : j \in c + 1..c + k /\ (j < c + k \/ j = c + k)
    BY <1>1
  <2>5. \A j \in c + 1..e - 1 : t[j] # Newline
    BY <1>3, <2>1, <2>4
  <2>6. t[c + 1] # Newline
    <3>1. c + 1 \in c + 1..e - 1
      BY <1>1
    <3> QED
      BY <2>5, <3>1
  <2> HIDE DEF run, e
  <2>7. Len(RunFrom(t, {Newline}, c + 1)) >= e - (c + 1)
    BY <1>2, <2>3, <2>5, RunLong
  <2> QED
    BY <1>1, <1>5, <1>6, <2>2, <2>3, <2>6, <2>7 DEF run
<1>8. ASSUME NEW i \in B, i \in c + 1..c + k PROVE i = c + 1
  <2>1. i = 1 \/ t[i - 1] = Newline
    BY DEF Begins
  <2>2. i # c + 1 => i - 1 \in c + 1..c + k /\ i - 1 < c + k
    BY <1>1, <1>8
  <2>3. i = 1 => i = c + 1
    BY <1>8
  <2> QED
    BY <1>3, <2>1, <2>2, <2>3
<1>9. CASE c + 1 \notin B
  <2>1. k = 1
    <3>1. out[1] = Newline
      BY <1>4, <1>5, <1>9
    <3>2. ~(1 < k)
      BY <1>1, <3>1
    <3> QED
      BY <1>1, <3>2
  <2>2. Len(out) = 1 /\ out[1] = Newline
    BY <1>4, <1>5, <1>9, <2>1 DEF k
  <2>3. out = <<Newline>>
    <3>1. <<Newline>> \in Seq(Char) /\ Len(<<Newline>>) = 1
      BY LinesConstants
    <3> QED
      BY <1>1, <2>2, <3>1, SeqEqual
  <2> QED
    BY <1>7, <1>8, <1>9, <2>3, JoinedEmpty DEF k, LineRead
<1>10. CASE c + 1 \in B
  <2>1. CASE t[c + k] = Newline
    <3> DEFINE l == k - 1
               e == c + k
    <3>1. k # 1 /\ l \in Nat
      BY <1>1, <1>5, <1>10, <2>1
    <3>2. e \in c + 1..Len(t) + 1 /\ e - (c + 1) = l /\ t[e] = Newline
      BY <1>1, <1>2, <2>1
    <3>3. \A j \in c + 1..e - 1 : j \in c + 1..c + k /\ j < c + k
      BY <1>1
    <3>4. \A j \in c + 1..e - 1 : t[j] # Newline
      BY <1>3, <3>3
    <3> HIDE DEF run, e
    <3>5. run = SubSeq(t, c + 1, e - 1)
      BY <1>2, <3>2, <3>4, RunIs DEF run
    <3>6. run \in Seq(Char)
      BY <1>2, <3>2, <3>5, CharsFrom
    <3>7. Len(run) = l
      BY <1>2, <3>2, <3>5, CharsFrom
    <3>8. \A i \in 1..l : run[i] = t[c + i]
      <4>1. \A i \in 1..e - (c + 1) : run[i] = t[((c + 1) - 1) + i]
        BY <1>2, <3>2, <3>5, CharsFrom
      <4>2. (c + 1) - 1 = c
        OBVIOUS
      <4> QED
        BY <3>2, <4>1, <4>2
    <3>9. out = Append(run, Newline)
      <4>1. Newline \in Char
        BY LinesConstants
      <4>2. /\ Append(run, Newline) \in Seq(Char)
            /\ Len(Append(run, Newline)) = l + 1
            /\ \A i \in 1..l : Append(run, Newline)[i] = run[i]
            /\ Append(run, Newline)[l + 1] = Newline
        BY <3>6, <3>7, <4>1, AppendProperties
      <4>3. l + 1 = k
        BY <1>1
      <4>4. \A i \in 1..k : out[i] = Append(run, Newline)[i]
        BY <1>1, <1>2, <1>4, <2>1, <3>8, <4>2
      <4> QED
        BY <1>1, <4>2, <4>3, <4>4, SeqEqual DEF k
    <3>10. Joined(out) = Joined(run)
      BY <3>6, <3>9, JoinedNewline
    <3> QED
      BY <1>6, <1>7, <1>8, <1>10, <3>6, <3>10 DEF k, run, LineRead
  <2>2. CASE t[c + k] # Newline
    <3> DEFINE e == Len(t) + 1
    <3>1. c + k = Len(t)
      BY <1>7, <2>2
    <3>2. \A j \in c + 1..e - 1 : j \in c + 1..c + k /\ (j < c + k \/ j = c + k)
      BY <1>1, <3>1
    <3>3. \A j \in c + 1..e - 1 : t[j] # Newline
      BY <1>3, <2>2, <3>2
    <3>4. e \in c + 1..Len(t) + 1 /\ ~(e <= Len(t)) /\ e - 1 = Len(t)
      BY <1>1, <1>2
    <3> HIDE DEF run, e
    <3>5. run = SubSeq(t, c + 1, e - 1)
      BY <1>2, <3>3, <3>4, RunIs DEF run
    <3>6. /\ Drop(t, c) \in Seq(Char) /\ Len(Drop(t, c)) = Len(t) - c
          /\ \A i \in 1..Len(t) - c : Drop(t, c)[i] = t[c + i]
      <4>1. c \in 0..Len(t)
        BY <1>1
      <4> QED
        BY <4>1, OtherChars
    <3>7. Len(t) - c = k
      <4>1. Len(t) \in Nat /\ k \in Nat
        BY <1>1
      <4>2. \A x, y, z \in Nat : x + y = z => z - x = y
        OBVIOUS
      <4> QED
        BY <3>1, <4>1, <4>2, ZenonT(60)
    <3>8. Drop(t, c) = out
      <4>1. /\ Drop(t, c) \in Seq(Char) /\ Len(Drop(t, c)) = k
            /\ \A i \in 1..k : Drop(t, c)[i] = t[c + i]
        BY <3>6, <3>7
      <4>2. \A i \in 1..k : Drop(t, c)[i] = out[i]
        BY <1>2, <4>1
      <4>3. out \in Seq(Char) /\ Len(out) = k
        BY <1>1 DEF k
      <4> QED
        BY <4>1, <4>2, <4>3, SeqEqual
    <3>9. run = out
      BY <3>4, <3>5, <3>8 DEF Drop
    <3> QED
      BY <1>1, <1>6, <1>7, <1>8, <1>10, <3>9 DEF k, run, LineRead
  <2> QED
    BY <2>1, <2>2
<1> QED
  BY <1>9, <1>10

-----------------------------------------------------------------------------
(* The invariant *)

\* What sanitise_whitespace leaves of a piece, if anything, can be sent.
LEMMA SanitisedSendable ==
    ASSUME NEW s \in Seq(Char), Len(s) < MAX_RPC_BUF_LEN, Sanitised(s) # <<>>
    PROVE  Sendable(Sanitised(s))
<1> DEFINE l == Sanitised(s)
<1>1. /\ l \in Seq(Char) /\ Len(l) <= Len(s)
      /\ \A i \in 1..Len(l) : l[i] # Newline
  BY SanitisedIsJoined, JoinedText
<1> HIDE DEF l
<1>2. Len(l) \in Nat \ {0} /\ Len(s) \in Nat
  BY <1>1, EmptySeq, LenProperties DEF l
<1>3. Len(l) \in 1..MAX_RPC_BUF_LEN - 1
  BY <1>1, <1>2, LinesConstants
<1> QED
  BY <1>1, <1>3 DEF Sendable, l

\* A line with its newline is a message, in a buffer that is large enough.
LEMMA WholeMessage ==
    ASSUME NEW line, Sendable(line)
    PROVE  Message(line, Append(line, Newline))
<1>1. line \in Seq(Char) /\ Newline \in Char /\ Len(line) \in Nat
  BY LinesConstants, LenProperties DEF Sendable
<1>2. /\ Append(line, Newline) \in Seq(Char)
      /\ Len(Append(line, Newline)) = Len(line) + 1
      /\ \A i \in 1..Len(line) : Append(line, Newline)[i] = line[i]
      /\ Append(line, Newline)[Len(line) + 1] = Newline
  BY <1>1, AppendProperties
<1> DEFINE m == Append(line, Newline)
<1> HIDE DEF m
<1>3. /\ m \in Seq(Char) /\ Len(m) = Len(line) + 1
      /\ \A i \in 1..Len(line) : m[i] = line[i]
      /\ m[Len(m)] = Newline
  BY <1>2 DEF m
<1> QED
  BY <1>3 DEF Message, m

\* Sending a line keeps the server as many lines behind as the pipe holds.
LEMMA SendBehind ==
    ASSUME Forms, Behind, NEW line, Sendable(line), NEW m, Message(line, m),
           Send(line, m), UNCHANGED <<text, begun, got>>
    PROVE  /\ Behind'
           /\ meant' \in Seq(Seq(Char)) /\ pipe' \in Seq(Char)
           /\ Len(meant') = Len(meant) + 1
           /\ \A i \in 1..Len(meant') :
                 meant'[i] = line \/ (i \in 1..Len(meant) /\ meant'[i] = meant[i])
<1> DEFINE n == Len(meant)
<1>1. /\ meant \in Seq(Seq(Char)) /\ n \in Nat /\ pipe \in Seq(Char)
      /\ got \in Seq(Seq(Char))
      /\ line \in Seq(Char) /\ m \in Seq(Char)
      /\ \A i \in 1..n : Sendable(meant[i])
      /\ meant' = Append(meant, line) /\ pipe' = pipe \o m
  BY LenProperties DEF Forms, Sendable, Message, Send
<1>2. /\ meant' \in Seq(Seq(Char)) /\ Len(meant') = n + 1
      /\ meant'[n + 1] = line /\ \A i \in 1..n : meant'[i] = meant[i]
  <2>1. /\ Append(meant, line) \in Seq(Seq(Char))
        /\ Len(Append(meant, line)) = n + 1
        /\ Append(meant, line)[n + 1] = line
        /\ \A i \in 1..n : Append(meant, line)[i] = meant[i]
    BY <1>1, AppendProperties
  <2> QED
    BY <1>1, <2>1
<1>3. pipe' \in Seq(Char)
  BY <1>1, ConcatProperties
<1>4. \A i \in 1..n + 1 : i \in 1..n \/ i = n + 1
  BY <1>1
<1>5. Behind'
  <2>1. PICK d \in 0..n :
          /\ Full(got) = SubSeq(meant, 1, d)
          /\ \E at \in [d..n -> 0..Len(pipe)] :
                /\ Framed(pipe, meant, d, at)
                /\ Exact => at[d] = 0 /\ got = SubSeq(meant, 1, d)
    BY DEF Behind
  <2>2. PICK at : /\ Framed(pipe, meant, d, at)
                  /\ Exact => at[d] = 0 /\ got = SubSeq(meant, 1, d)
    BY <2>1
  <2>3. PICK a : Framed(pipe', meant', d, a) /\ a[d] = at[d]
    <3>1. d \in 0..Len(meant) /\ AllSendable(meant)
      BY <1>1 DEF AllSendable
    <3>2. Framed(pipe, meant, d, at)
      BY <2>2
    <3> HIDE DEF n
    <3>3. pipe \in Seq(Char) /\ meant \in Seq(Seq(Char))
      BY <1>1
    <3>4. FramedFrom(pipe \o m, Append(meant, line), d, at[d])
      BY <3>1, <3>2, <3>3, SendFramed
    <3> QED
      BY <1>1, <3>4 DEF FramedFrom
  <2>4. SubSeq(meant', 1, d) = SubSeq(meant, 1, d)
    BY <1>1, FirstOfAppend
  <2>5. a \in [d..Len(meant') -> 0..Len(pipe')]
    BY <2>3 DEF Framed
  <2>6. d \in 0..Len(meant')
    BY <1>1, <1>2
  <2>7. (Exact <=> Exact') /\ got' = got
    BY DEF Exact
  <2>8. Full(got)' = SubSeq(meant', 1, d)
    BY <2>1, <2>4, <2>7 DEF Full
  <2>9. Exact' => a[d] = 0 /\ got' = SubSeq(meant', 1, d)
    BY <2>2, <2>3, <2>4, <2>7
  <2> QED
    BY <2>3, <2>5, <2>6, <2>8, <2>9 DEF Behind
<1> HIDE DEF n
<1> QED
  BY <1>2, <1>3, <1>4, <1>5 DEF n

\* What the client reads is a piece of what is typed, and leaves the rest.
LEMMA ReadSome ==
    ASSUME Forms, typed # <<>>, NEW out, out = Fgets(typed, MAX_RPC_BUF_LEN),
           typed' = Drop(typed, Len(out)), text' = text
    PROVE  /\ Piece(typed, out, MAX_RPC_BUF_LEN)
           /\ Len(text) \in Nat /\ Len(typed) \in 1..Len(text)
           /\ typed' \in Seq(Char) /\ Len(typed') <= Len(text')
           /\ \A i \in 1..Len(typed') : typed'[i] = text'[Taken' + i]
           /\ Taken' = Taken + Len(out)
<1>1. /\ text \in Seq(Char) /\ typed \in Seq(Char) /\ Len(typed) <= Len(text)
      /\ Len(text) \in Nat /\ Len(typed) \in Nat \ {0}
      /\ \A i \in 1..Len(typed) : typed[i] = text[Taken + i]
  BY LinesConstants, LenProperties, EmptySeq DEF Forms
<1>2. Piece(typed, out, MAX_RPC_BUF_LEN)
  <2>1. MAX_RPC_BUF_LEN \in Nat \ {0, 1}
    BY LinesConstants
  <2> QED
    BY <1>1, <2>1, FgetsPiece
<1> DEFINE k == Len(out)
<1>3. k \in 1..Len(typed) /\ k \in 0..Len(typed)
  BY <1>1, <1>2 DEF Piece
<1>4. /\ typed' \in Seq(Char) /\ Len(typed') = Len(typed) - k
      /\ \A i \in 1..Len(typed) - k : typed'[i] = typed[k + i]
  <2> DEFINE r == Drop(typed, k)
  <2>1. /\ r \in Seq(Char) /\ Len(r) = Len(typed) - k
        /\ \A i \in 1..Len(typed) - k : r[i] = typed[k + i]
    BY <1>1, <1>3, OtherChars
  <2> HIDE DEF r
  <2>2. typed' = r
    BY DEF r
  <2> QED
    BY <2>1, <2>2
<1> HIDE DEF k
<1>5. Taken' = Taken + k /\ Taken \in Nat
  BY <1>1, <1>3, <1>4 DEF Taken
<1>6. \A i \in 1..Len(typed) - k :
         k + i \in 1..Len(typed) /\ Taken + (k + i) = (Taken + k) + i
  BY <1>1, <1>3, <1>5
<1>7. \A i \in 1..Len(typed') : typed'[i] = text'[Taken' + i]
  <2> SUFFICES ASSUME NEW i \in 1..Len(typed')
               PROVE  typed'[i] = text[Taken' + i]
    OBVIOUS
  <2>1. i \in 1..Len(typed) - k
    BY <1>4
  <2>2. typed'[i] = typed[k + i] /\ typed[k + i] = text[Taken + (k + i)]
    BY <1>1, <1>4, <1>6, <2>1
  <2>3. Taken + (k + i) = Taken' + i
    BY <1>5, <1>6, <2>1
  <2> QED
    BY <2>2, <2>3
<1>8. Len(typed') <= Len(text')
  BY <1>1, <1>3, <1>4
<1>9. Len(typed) \in 1..Len(text)
  BY <1>1
<1>10. Taken' = Taken + Len(out)
  BY <1>5 DEF k
<1> QED
  BY <1>1, <1>2, <1>4, <1>7, <1>8, <1>9, <1>10

\* Nothing has been read and nothing sent at the beginning.
LEMMA InitIInv == Init => IInv
<1> SUFFICES ASSUME Init PROVE IInv
  OBVIOUS
<1>1. /\ text \in Texts /\ text \in Seq(Char) /\ typed = text
      /\ Len(text) \in Nat
      /\ meant = <<>> /\ got = <<>> /\ pipe = <<>> /\ phase = begun
      /\ begun \in {"auth", "rpc"}
  BY LinesConstants, LenProperties DEF Init
<1>2. Taken = 0
  BY <1>1 DEF Taken
<1>3. /\ Len(meant) = 0 /\ Len(got) = 0 /\ Len(pipe) = 0
      /\ meant \in Seq(Seq(Char)) /\ got \in Seq(Seq(Char)) /\ pipe \in Seq(Char)
  BY <1>1, EmptySeq
<1>4. Forms
  <2>1. \A i \in 1..Len(typed) : typed[i] = text[Taken + i]
    BY <1>1, <1>2
  <2> QED
    BY <1>1, <1>3, <2>1 DEF Forms
<1>5. Behind
  <2> DEFINE at == [i \in 0..0 |-> 0]
  <2>1. Full(got) = <<>> /\ SubSeq(meant, 1, 0) = <<>>
    <3>1. {i \in DOMAIN got : got[i] # <<>>} = {}
      BY <1>1
    <3> QED
      BY <3>1, PickedNone, SubSeqEmpty DEF Full
  <2>2. at \in [0..0 -> 0..0] /\ at[0] = 0
    OBVIOUS
  <2> HIDE DEF at
  <2>3. Framed(pipe, meant, 0, at)
    BY <1>3, <2>2 DEF Framed
  <2>4. got = SubSeq(meant, 1, 0)
    BY <1>1, <2>1
  <2>5. \E a \in [0..Len(meant) -> 0..Len(pipe)] :
           /\ Framed(pipe, meant, 0, a)
           /\ Exact => a[0] = 0 /\ got = SubSeq(meant, 1, 0)
    BY <1>3, <2>2, <2>3, <2>4
  <2>6. 0 \in 0..Len(meant) /\ Full(got) = SubSeq(meant, 1, 0)
    BY <1>3, <2>1
  <2> QED
    BY <2>5, <2>6 DEF Behind
<1>6. Whole
  <2>1. Written(text) \cap 1..Taken = {}
    BY <1>2
  <2>2. meant = Picked(Tidy(text), Written(text) \cap 1..Taken)
    BY <1>1, <2>1, PickedNone
  <2>3. Exact => begun = "rpc"
    BY DEF Exact
  <2> QED
    BY <1>1, <1>2, <1>3, <2>2, <2>3 DEF Whole
<1> QED
  BY <1>4, <1>5, <1>6 DEF IInv

\* A turn of the sweep brings the server one line nearer to the client, or
\* takes the newline that was left of the last line.
LEMMA SweepIInv == IInv /\ Sweep => IInv'
<1> SUFFICES ASSUME IInv, Sweep PROVE IInv'
  OBVIOUS
<1>1. /\ meant \in Seq(Seq(Char)) /\ got \in Seq(Seq(Char)) /\ pipe \in Seq(Char)
      /\ pipe # <<>> /\ AllSendable(meant)
      /\ UNCHANGED <<text, begun, typed, phase, meant>>
      /\ MAX_RPC_BUF_LEN \in Nat \ {0, 1}
  BY LinesConstants DEF IInv, Forms, Sweep, AllSendable
<1>2. (Exact <=> Exact') /\ Taken' = Taken
  BY <1>1 DEF Exact, Taken
<1>3. PICK d \in 0..Len(meant) :
         /\ Full(got) = SubSeq(meant, 1, d)
         /\ \E at \in [d..Len(meant) -> 0..Len(pipe)] :
               /\ Framed(pipe, meant, d, at)
               /\ Exact => at[d] = 0 /\ got = SubSeq(meant, 1, d)
  BY DEF IInv, Behind
<1>4. PICK at : /\ Framed(pipe, meant, d, at)
                /\ Exact => at[d] = 0 /\ got = SubSeq(meant, 1, d)
  BY <1>3
<1>5. Swept(pipe, meant, d, at[d])
  <2>1. Framed(pipe, meant, d, at)
    BY <1>4
  <2> QED
    BY <1>1, <2>1, SweepFramed
<1>6. PICK line \in Seq(Char), rest \in Seq(Char) :
         /\ ReadUntilDelim(pipe, MAX_RPC_BUF_LEN) =
                [done |-> TRUE, line |-> line, rest |-> rest]
         /\ \/ /\ at[d] = 1 /\ line = <<>>
               /\ \E a : Framed(rest, meant, d, a)
            \/ /\ at[d] = 0 /\ d < Len(meant) /\ line = meant[d + 1]
               /\ \E a : /\ Framed(rest, meant, d + 1, a)
                         /\ Len(line) < MAX_RPC_BUF_LEN - 1 => a[d + 1] = 0
  BY <1>5 DEF Swept
<1>7. pipe' = rest /\ got' = Append(got, line)
  BY <1>6 DEF Sweep
<1>8. /\ got' \in Seq(Seq(Char)) /\ Len(got') = Len(got) + 1 /\ Len(got) \in Nat
      /\ got'[Len(got) + 1] = line
      /\ \A i \in 1..Len(got) : got'[i] = got[i]
  <2>1. /\ Append(got, line) \in Seq(Seq(Char))
        /\ Len(Append(got, line)) = Len(got) + 1
        /\ Append(got, line)[Len(got) + 1] = line
        /\ \A i \in 1..Len(got) : Append(got, line)[i] = got[i]
    BY <1>1, <1>6, AppendProperties
  <2> QED
    BY <1>1, <1>7, <2>1, LenProperties
<1>9. line = <<>> \/ (d + 1 \in 1..Len(meant) /\ line = meant[d + 1])
  <2>1. Len(meant) \in Nat
    BY <1>1, LenProperties
  <2> QED
    BY <1>6, <2>1
<1>10. Len(line) < MAX_RPC_BUF_LEN
  <2>1. line = <<>> => Len(line) = 0
    BY EmptySeq
  <2>2. line # <<>> => Len(line) \in 1..MAX_RPC_BUF_LEN - 1
    BY <1>1, <1>9 DEF AllSendable, Sendable
  <2> QED
    BY <1>1, <2>1, <2>2
<1>11. Forms'
  <2>1. \A i \in 1..Len(got') : Len(got'[i]) < MAX_RPC_BUF_LEN
    <3>1. \A i \in 1..Len(got') : i \in 1..Len(got) \/ i = Len(got) + 1
      BY <1>8
    <3>2. \A i \in 1..Len(got) : Len(got[i]) < MAX_RPC_BUF_LEN
      BY DEF IInv, Forms
    <3> QED
      BY <1>8, <1>10, <3>1, <3>2
  <2>2. pipe' \in Seq(Char) /\ got' \in Seq(Seq(Char))
    BY <1>6, <1>7, <1>8
  <2>3. \A i \in 1..Len(meant') : Sendable(meant'[i])
    BY <1>1 DEF AllSendable
  <2>4. Forms
    BY DEF IInv
  <2> QED
    BY <1>1, <1>2, <2>1, <2>2, <2>3, <2>4 DEF Forms
<1>12. Whole'
  BY <1>1, <1>2 DEF IInv, Whole
<1>13. Full(got)' = IF line = <<>> THEN Full(got) ELSE Append(Full(got), line)
  <2>1. Full(Append(got, line)) =
           IF line = <<>> THEN Full(got) ELSE Append(Full(got), line)
    BY <1>1, FullAppend
  <2>2. Full(got)' = Full(Append(got, line))
    BY <1>7 DEF Full
  <2> QED
    BY <2>1, <2>2
<1>14. ASSUME NEW e \in 0..Len(meant), Full(got)' = SubSeq(meant, 1, e),
              NEW a, Framed(rest, meant, e, a),
              Exact => a[e] = 0 /\ got' = SubSeq(meant, 1, e)
       PROVE  Behind'
  <2>1. a \in [e..Len(meant) -> 0..Len(pipe')] /\ Framed(pipe', meant, e, a)
    BY <1>7, <1>14 DEF Framed
  <2>2. Full(got)' = SubSeq(meant', 1, e) /\ e \in 0..Len(meant')
    BY <1>1, <1>14
  <2>3. /\ a \in [e..Len(meant') -> 0..Len(pipe')]
        /\ Framed(pipe', meant', e, a)
        /\ Exact' => a[e] = 0 /\ got' = SubSeq(meant', 1, e)
    BY <1>1, <1>2, <1>14, <2>1
  <2> QED
    BY <2>2, <2>3 DEF Behind
<1>15. ASSUME line = <<>> PROVE Behind'
  <2>1. PICK a : at[d] = 1 /\ Framed(rest, meant, d, a)
    <3>1. ~(d < Len(meant) /\ line = meant[d + 1])
      <4>1. ASSUME d < Len(meant), line = meant[d + 1] PROVE FALSE
        <5>1. d + 1 \in 1..Len(meant)
          BY <1>1, <4>1, LenProperties
        <5>2. Len(line) \in 1..MAX_RPC_BUF_LEN - 1
          BY <1>1, <4>1, <5>1 DEF AllSendable, Sendable
        <5> QED
          BY <1>1, <1>15, <5>2, EmptySeq
      <4> QED
        BY <4>1
    <3> QED
      BY <1>6, <3>1
  <2>2. ~Exact
    BY <1>4, <2>1
  <2>3. Full(got)' = SubSeq(meant, 1, d)
    BY <1>3, <1>13, <1>15
  <2> QED
    BY <1>14, <2>1, <2>2, <2>3
<1>16. ASSUME line # <<>> PROVE Behind'
  <2>1. PICK a : /\ at[d] = 0 /\ d < Len(meant) /\ line = meant[d + 1]
                 /\ Framed(rest, meant, d + 1, a)
                 /\ Len(line) < MAX_RPC_BUF_LEN - 1 => a[d + 1] = 0
    BY <1>6, <1>16
  <2>2. d + 1 \in 1..Len(meant) /\ d + 1 \in 0..Len(meant) /\ d \in Nat
    BY <1>1, <2>1, LenProperties
  <2>3. SubSeq(meant, 1, d + 1) = Append(SubSeq(meant, 1, d), line)
    BY <1>1, <2>1, <2>2, FirstNext
  <2>4. Full(got)' = SubSeq(meant, 1, d + 1)
    BY <1>3, <1>13, <1>16, <2>3
  <2>5. Exact => a[d + 1] = 0
    <3>1. Exact => Len(line) < MAX_RPC_BUF_LEN - 1
      BY <2>1, <2>2 DEF IInv, Whole
    <3> QED
      BY <2>1, <3>1
  <2>6. Exact => got' = SubSeq(meant, 1, d + 1)
    BY <1>4, <1>7, <2>3
  <2>7. Framed(rest, meant, d + 1, a)
    BY <2>1
  <2> DEFINE e == d + 1
  <2> HIDE DEF e
  <2>8. /\ e \in 0..Len(meant) /\ Full(got)' = SubSeq(meant, 1, e)
        /\ Framed(rest, meant, e, a)
        /\ Exact => a[e] = 0 /\ got' = SubSeq(meant, 1, e)
    BY <2>2, <2>4, <2>5, <2>6, <2>7 DEF e
  <2> QED
    BY <1>14, <2>8
<1>17. Behind'
  BY <1>15, <1>16
<1> QED
  BY <1>11, <1>12, <1>17 DEF IInv

\* A line that fits is read as it was typed: what is to be sent for it is the
\* next of the lines that were typed, or nothing when it is blank.
LEMMA ReadLineWhole ==
    ASSUME IInv, Exact, typed # <<>>, NEW out,
           out = Fgets(typed, MAX_RPC_BUF_LEN),
           typed' = Drop(typed, Len(out)), text' = text,
           NEW line, line = Sanitised(out)
    PROVE  /\ Taken' \in {0, Len(text)} \/ text[Taken'] = Newline
           /\ Picked(Tidy(text), Written(text) \cap 1..Taken') =
                 IF line = <<>> THEN meant ELSE Append(meant, line)
           /\ line # <<>> => Len(line) < MAX_RPC_BUF_LEN - 1
<1> DEFINE c == Taken
           B == Begins(text, {Newline})
           W == Written(text)
           T == Tidy(text)
<1>0. Forms
  BY DEF IInv
<1>1. /\ Piece(typed, out, MAX_RPC_BUF_LEN)
      /\ Len(text) \in Nat /\ Len(typed) \in 1..Len(text)
  BY <1>0, ReadSome
<1>2. Taken' = c + Len(out)
  BY <1>0, ReadSome
<1>3. /\ text \in Seq(Char) /\ typed \in Seq(Char) /\ Len(typed) = Len(text) - c
      /\ c \in Nat /\ c < Len(text)
      /\ \A i \in 1..Len(typed) : typed[i] = text[c + i]
      /\ Fit(text, MAX_RPC_BUF_LEN) /\ MAX_RPC_BUF_LEN \in Nat \ {0, 1}
  BY <1>0, <1>1, LinesConstants DEF Forms, Taken, Exact
<1>4. c = 0 \/ text[c] = Newline
  <2>1. c \in {0, Len(text)} \/ text[c] = Newline
    BY DEF IInv, Whole
  <2> QED
    BY <1>3, <2>1
<1>5. meant = Picked(T, W \cap 1..c)
  BY DEF IInv, Whole
<1>6. LineRead(text, c, out, MAX_RPC_BUF_LEN)
  <2> HIDE DEF c
  <2> QED
    BY <1>1, <1>3, <1>4, ReadWhole
<1>7. line = Joined(out)
  BY <1>1, SanitisedIsJoined DEF Piece
<1>8. Len(out) \in Nat /\ Len(out) >= 1 /\ c + Len(out) \in Nat
  BY <1>1, <1>3 DEF Piece
<1>9. \A i \in W : i \in B
  BY DEF Written
<1>10. \A i \in B : i \in 1..Len(text)
  BY DEF Begins
<1>11. c + 1 \in W <=> c + 1 \in B /\ line # <<>>
  <2>1. c + 1 \in B => T[c + 1] = line
    <3>1. ASSUME c + 1 \in B PROVE T[c + 1] = line
      <4>1. T[c + 1] = Joined(RunFrom(text, {Newline}, c + 1))
        BY <1>10, <3>1 DEF Tidy
      <4>2. Joined(out) = Joined(RunFrom(text, {Newline}, c + 1))
        BY <1>6, <3>1 DEF LineRead
      <4> QED
        BY <1>7, <4>1, <4>2
    <3> QED
      BY <3>1
  <2> QED
    BY <2>1 DEF Written
<1>12. c + 1 \notin B => line = <<>>
  BY <1>6, <1>7 DEF LineRead
<1>13. \A i \in W : i \in c + 1..c + Len(out) => i = c + 1
  BY <1>6, <1>9 DEF LineRead
<1>14. line # <<>> => T[c + 1] = line /\ Len(line) < MAX_RPC_BUF_LEN - 1
  <2>1. ASSUME line # <<>>
        PROVE  T[c + 1] = line /\ Len(line) < MAX_RPC_BUF_LEN - 1
    <3> DEFINE run == RunFrom(text, {Newline}, c + 1)
    <3>1. c + 1 \in B
      BY <1>12, <2>1
    <3>2. /\ Len(run) < MAX_RPC_BUF_LEN - 1 /\ run \in Seq(Char)
          /\ Joined(out) = Joined(run)
      BY <1>6, <3>1 DEF LineRead
    <3>3. T[c + 1] = Joined(run)
      BY <1>10, <3>1 DEF Tidy
    <3> HIDE DEF run, T
    <3>4. Len(Joined(run)) <= Len(run) /\ Joined(run) \in Seq(Char)
      BY <3>2, JoinedText
    <3>5. Len(line) <= Len(run)
      BY <1>7, <3>2, <3>4
    <3>6. Len(line) \in Nat /\ Len(run) \in Nat /\ MAX_RPC_BUF_LEN \in Nat
      BY <1>7, <3>2, <3>4, LenProperties, LinesConstants
    <3>7. Len(line) < MAX_RPC_BUF_LEN - 1
      BY <3>2, <3>5, <3>6
    <3> QED
      BY <1>7, <3>2, <3>3, <3>7
  <2> QED
    BY <2>1
<1>15. W \cap 1..c + Len(out) =
          IF line = <<>> THEN W \cap 1..c ELSE (W \cap 1..c) \cup {c + 1}
  <2>1. \A i \in W : i \in Nat
    <3>1. \A i \in 1..Len(text) : i \in Nat
      BY <1>1
    <3> HIDE DEF W, B
    <3> QED
      BY <1>9, <1>10, <3>1
  <2>2. \A i \in Nat : i \in 1..c + Len(out) <=>
                          i \in 1..c \/ i \in c + 1..c + Len(out)
    BY <1>3, <1>8
  <2>3. c + 1 \in c + 1..c + Len(out)
    BY <1>3, <1>8
  <2>4. line = <<>> => c + 1 \notin W
    BY <1>11
  <2>5. line # <<>> => c + 1 \in W
    BY <1>11, <1>12
  <2> HIDE DEF W, c
  <2>6. \A i \in W : i \in 1..c + Len(out) <=> i \in 1..c \/ i = c + 1
    BY <1>13, <2>1, <2>2, <2>3
  <2> QED
    BY <2>4, <2>5, <2>6
<1>16. Picked(T, W \cap 1..c + Len(out)) =
          IF line = <<>> THEN meant ELSE Append(meant, line)
  <2>1. CASE line = <<>>
    BY <1>5, <1>15, <2>1
  <2>2. CASE line # <<>>
    <3> DEFINE S == W \cap 1..c
               p == c + 1
    <3>1. p \in Nat \ {0} /\ S \subseteq 1..p - 1
      BY <1>3
    <3> HIDE DEF S, p, T
    <3>2. Picked(T, S \cup {p}) = Append(Picked(T, S), T[p])
      BY <3>1, PickedMore
    <3> QED
      BY <1>5, <1>14, <1>15, <2>2, <3>2 DEF S, p
  <2> QED
    BY <2>1, <2>2
<1>17. Taken' = Len(text) \/ text[Taken'] = Newline
  BY <1>2, <1>6 DEF LineRead
<1> QED
  BY <1>2, <1>14, <1>16, <1>17

\* Reading without sending.
LEMMA ReadOnly ==
    ASSUME IInv, typed # <<>>, NEW out, out = Fgets(typed, MAX_RPC_BUF_LEN),
           typed' = Drop(typed, Len(out)),
           UNCHANGED <<text, begun, phase, meant, pipe, got>>
    PROVE  Forms' /\ Behind'
<1>1. Forms
  BY DEF IInv
<1>2. typed' \in Seq(Char) /\ Len(typed') <= Len(text')
  BY <1>1, ReadSome
<1>3. \A i \in 1..Len(typed') : typed'[i] = text'[Taken' + i]
  BY <1>1, ReadSome
<1>4. Forms'
  BY <1>1, <1>2, <1>3 DEF Forms
<1>5. Behind'
  BY DEF IInv, Behind, Full, Exact
<1> QED
  BY <1>4, <1>5

\* Reading and sending a line.
LEMMA ReadAndSend ==
    ASSUME IInv, typed # <<>>, NEW out, out = Fgets(typed, MAX_RPC_BUF_LEN),
           typed' = Drop(typed, Len(out)),
           NEW line, Sendable(line), NEW m, Message(line, m), Send(line, m),
           phase' \in {"auth", "wait", "rpc", "end"},
           UNCHANGED <<text, begun, got>>
    PROVE  Forms' /\ Behind'
<1>1. Forms /\ Behind
  BY DEF IInv
<1>2. typed' \in Seq(Char) /\ Len(typed') <= Len(text')
  BY <1>1, ReadSome
<1>3. \A i \in 1..Len(typed') : typed'[i] = text'[Taken' + i]
  BY <1>1, ReadSome
<1>4. Behind'
  BY <1>1, SendBehind
<1>5. meant' \in Seq(Seq(Char)) /\ pipe' \in Seq(Char)
  BY <1>1, SendBehind
<1>6. \A i \in 1..Len(meant') :
         meant'[i] = line \/ (i \in 1..Len(meant) /\ meant'[i] = meant[i])
  BY <1>1, SendBehind
<1>7. \A i \in 1..Len(meant') : Sendable(meant'[i])
  BY <1>1, <1>6 DEF Forms
<1>8. Forms'
  BY <1>1, <1>2, <1>3, <1>5, <1>7 DEF Forms
<1> QED
  BY <1>4, <1>8

\* The login dialogue reads as fgets does; nothing that was typed for it is
\* held against the lines of a session.
LEMMA AuthoriseIInv == IInv /\ Authorise => IInv'
<1> SUFFICES ASSUME IInv, Authorise PROVE IInv'
  OBVIOUS
<1> DEFINE input == Fgets(typed, MAX_RPC_BUF_LEN)
           stripped == IF Last(input) = Newline THEN Front(input) ELSE input
           line == Sanitised(stripped)
           m == Snprintf(Append(line, Newline), MAX_RPC_BUF_LEN + 1)
<1>1. /\ phase = "auth" /\ typed # <<>> /\ typed' = Drop(typed, Len(input))
      /\ UNCHANGED <<text, begun, got>>
  BY DEF Authorise
<1>2. \/ UNCHANGED <<phase, meant, pipe>>
      \/ line # <<>> /\ Send(line, m) /\ phase' = "wait"
  BY DEF Authorise
<1>3. Piece(typed, input, MAX_RPC_BUF_LEN)
  <2>1. Forms
    BY DEF IInv
  <2> HIDE DEF input
  <2>2. input = Fgets(typed, MAX_RPC_BUF_LEN)
    BY DEF input
  <2> QED
    BY <1>1, <2>1, <2>2, ReadSome
<1>4. ~Exact /\ ~Exact'
  BY <1>1 DEF IInv, Whole, Exact
<1>5. stripped \in Seq(Char) /\ Len(stripped) < MAX_RPC_BUF_LEN
  <2>1. /\ input \in Seq(Char) /\ Len(input) < MAX_RPC_BUF_LEN
        /\ Len(input) \in Nat /\ Len(input) >= 1 /\ MAX_RPC_BUF_LEN \in Nat
    BY <1>3, LinesConstants, LenProperties DEF Piece
  <2> HIDE DEF input
  <2>2. /\ SubSeq(input, 1, Len(input) - 1) \in Seq(Char)
        /\ Len(SubSeq(input, 1, Len(input) - 1)) = Len(input) - 1
    <3>1. Len(input) - 1 \in 0..Len(input)
      BY <2>1
    <3> QED
      BY <2>1, <3>1, FirstChars
  <2>3. Front(input) = SubSeq(input, 1, Len(input) - 1)
    BY DEF Front
  <2>4. Front(input) \in Seq(Char) /\ Len(Front(input)) < MAX_RPC_BUF_LEN
    BY <2>1, <2>2, <2>3
  <2> QED
    BY <2>1, <2>4
<1> HIDE DEF input, stripped
<1>6. line # <<>> => Sendable(line)
  BY <1>5, SanitisedSendable
<1> HIDE DEF line
<1>7. line # <<>> => Message(line, m)
  <2>1. MAX_RPC_BUF_LEN + 1 \in {MAX_RPC_BUF_LEN, MAX_RPC_BUF_LEN + 1}
    OBVIOUS
  <2> QED
    BY <1>6, <2>1, SnprintfMessage
<1> HIDE DEF m
<1>8. Forms' /\ Behind'
  <2>1. CASE UNCHANGED <<phase, meant, pipe>>
    BY <1>1, <2>1, ReadOnly DEF input
  <2>2. CASE line # <<>> /\ Send(line, m) /\ phase' = "wait"
    <3>1. Sendable(line) /\ Message(line, m)
      BY <1>6, <1>7, <2>2
    <3>2. phase' \in {"auth", "wait", "rpc", "end"}
      BY <2>2
    <3> QED
      BY <1>1, <2>2, <3>1, <3>2, ReadAndSend DEF input
  <2> QED
    BY <1>2, <2>1, <2>2
<1>9. Whole'
  BY <1>4 DEF Whole
<1> QED
  BY <1>8, <1>9 DEF IInv

\* The answer to Login moves no text.
LEMMA AnsweredIInv == IInv /\ Answered => IInv'
<1> SUFFICES ASSUME IInv, Answered PROVE IInv'
  OBVIOUS
<1>1. /\ phase = "wait" /\ phase' \in {"rpc", "end"}
      /\ UNCHANGED <<text, begun, typed, meant, pipe, got>>
  BY DEF Answered
<1>2. ~Exact /\ ~Exact'
  BY <1>1 DEF IInv, Whole, Exact
<1>3. Forms'
  BY <1>1 DEF IInv, Forms, Taken
<1>4. Behind'
  BY <1>1 DEF IInv, Behind, Full, Exact
<1>5. Whole'
  BY <1>2 DEF Whole
<1> QED
  BY <1>3, <1>4, <1>5 DEF IInv

\* send_user_input reads as fgets does and sends what is not blank; a line
\* that fits goes out as it was typed.
LEMMA SendUserInputIInv == IInv /\ SendUserInput => IInv'
<1> SUFFICES ASSUME IInv, SendUserInput PROVE IInv'
  OBVIOUS
<1> DEFINE out == Fgets(typed, MAX_RPC_BUF_LEN)
           line == Sanitised(out)
           cut == Snprintf(Append(line, Newline), MAX_RPC_BUF_LEN)
<1>1. /\ phase = "rpc" /\ typed # <<>> /\ typed' = Drop(typed, Len(out))
      /\ UNCHANGED <<text, begun, got>>
  BY DEF SendUserInput
<1>2. \/ line = <<>> /\ UNCHANGED <<phase, meant, pipe>>
      \/ line = QUIT /\ Send(line, Append(QUIT, Newline)) /\ phase' = "end"
      \/ line # <<>> /\ Send(line, cut) /\ UNCHANGED phase
  BY DEF SendUserInput
<1>3. Piece(typed, out, MAX_RPC_BUF_LEN)
  <2>1. Forms
    BY DEF IInv
  <2> HIDE DEF out
  <2>2. out = Fgets(typed, MAX_RPC_BUF_LEN)
    BY DEF out
  <2> QED
    BY <1>1, <2>1, <2>2, ReadSome
<1>4. line # <<>> => Sendable(line)
  <2>1. out \in Seq(Char) /\ Len(out) < MAX_RPC_BUF_LEN
    BY <1>3 DEF Piece
  <2> HIDE DEF out
  <2> QED
    BY <2>1, SanitisedSendable
<1> HIDE DEF out, line
<1>5. line # <<>> => Message(line, cut) /\ Message(line, Append(line, Newline))
  <2>1. MAX_RPC_BUF_LEN \in {MAX_RPC_BUF_LEN, MAX_RPC_BUF_LEN + 1}
    OBVIOUS
  <2>2. line # <<>> => Message(line, cut)
    BY <1>4, <2>1, SnprintfMessage
  <2>3. line # <<>> => Message(line, Append(line, Newline))
    BY <1>4, WholeMessage
  <2> QED
    BY <2>2, <2>3
<1> HIDE DEF cut
<1>6. \/ line = <<>> /\ UNCHANGED <<phase, meant, pipe>>
      \/ /\ line # <<>> /\ phase' \in {"rpc", "end"}
         /\ \E m : Message(line, m) /\ Send(line, m)
  <2>1. ASSUME line = QUIT, Send(line, Append(QUIT, Newline)), phase' = "end"
        PROVE  /\ line # <<>> /\ phase' \in {"rpc", "end"}
               /\ \E m : Message(line, m) /\ Send(line, m)
    <3>1. line # <<>>
      BY <2>1, LinesConstants
    <3>2. Message(line, Append(line, Newline)) /\ Send(line, Append(line, Newline))
      BY <1>5, <2>1, <3>1
    <3> QED
      BY <2>1, <3>1, <3>2
  <2>2. ASSUME line # <<>>, Send(line, cut), UNCHANGED phase
        PROVE  /\ line # <<>> /\ phase' \in {"rpc", "end"}
               /\ \E m : Message(line, m) /\ Send(line, m)
    BY <1>1, <1>5, <2>2
  <2> QED
    BY <1>2, <2>1, <2>2
<1>7. out = Fgets(typed, MAX_RPC_BUF_LEN) /\ line = Sanitised(out)
  BY DEF out, line
<1>8. Forms' /\ Behind'
  <2>1. CASE line = <<>> /\ UNCHANGED <<phase, meant, pipe>>
    BY <1>1, <1>7, <2>1, ReadOnly
  <2>2. CASE /\ line # <<>> /\ phase' \in {"rpc", "end"}
             /\ \E m : Message(line, m) /\ Send(line, m)
    <3>1. PICK m : Message(line, m) /\ Send(line, m)
      BY <2>2
    <3>2. Sendable(line) /\ phase' \in {"auth", "wait", "rpc", "end"}
      BY <1>4, <2>2
    <3> QED
      BY <1>1, <1>7, <3>1, <3>2, ReadAndSend
  <2> QED
    BY <1>6, <2>1, <2>2
<1>9. ASSUME Exact' PROVE Whole'
  <2>1. Exact /\ text' = text
    BY <1>1, <1>9 DEF Exact
  <2>2. Taken' \in {0, Len(text)} \/ text[Taken'] = Newline
    BY <1>1, <1>7, <2>1, ReadLineWhole
  <2>3. Picked(Tidy(text), Written(text) \cap 1..Taken') =
           IF line = <<>> THEN meant ELSE Append(meant, line)
    BY <1>1, <1>7, <2>1, ReadLineWhole
  <2>4. line # <<>> => Len(line) < MAX_RPC_BUF_LEN - 1
    BY <1>1, <1>7, <2>1, ReadLineWhole
  <2>5. /\ \A i \in 1..Len(meant) : Len(meant[i]) < MAX_RPC_BUF_LEN - 1
        /\ meant \in Seq(Seq(Char))
    BY <2>1 DEF IInv, Forms, Whole
  <2>6. /\ phase' \in {"rpc", "end"}
        /\ \A i \in 1..Len(meant') : Len(meant'[i]) < MAX_RPC_BUF_LEN - 1
        /\ meant' = IF line = <<>> THEN meant ELSE Append(meant, line)
    <3>1. CASE line = <<>> /\ UNCHANGED <<phase, meant, pipe>>
      BY <1>1, <2>5, <3>1
    <3>2. CASE /\ line # <<>> /\ phase' \in {"rpc", "end"}
               /\ \E m : Message(line, m) /\ Send(line, m)
      <4>1. meant' = Append(meant, line)
        BY <3>2 DEF Send
      <4>2. PICK m : Message(line, m) /\ Send(line, m)
        BY <3>2
      <4>3. \A i \in 1..Len(meant') :
               meant'[i] = line \/ (i \in 1..Len(meant) /\ meant'[i] = meant[i])
        <5>1. Forms /\ Behind
          BY DEF IInv
        <5>2. Sendable(line)
          BY <1>4, <3>2
        <5> QED
          BY <1>1, <4>2, <5>1, <5>2, SendBehind
      <4>4. \A i \in 1..Len(meant') : Len(meant'[i]) < MAX_RPC_BUF_LEN - 1
        BY <2>4, <2>5, <3>2, <4>3
      <4> QED
        BY <3>2, <4>1, <4>4
    <3> QED
      BY <1>6, <3>1, <3>2
  <2>7. meant' = Picked(Tidy(text'), Written(text') \cap 1..Taken')
    BY <2>1, <2>3, <2>6
  <2> QED
    BY <2>1, <2>2, <2>6, <2>7 DEF Whole
<1>10. Whole'
  BY <1>9 DEF Whole
<1> QED
  BY <1>8, <1>10 DEF IInv

\* The invariant holds, whatever is typed and however the reads fall.
LEMMA Invariance == Spec => []IInv
<1>1. IInv /\ [Next]_vars => IInv'
  <2> SUFFICES ASSUME IInv, [Next]_vars PROVE IInv'
    OBVIOUS
  <2>1. CASE Authorise
    BY <2>1, AuthoriseIInv
  <2>2. CASE Answered
    BY <2>2, AnsweredIInv
  <2>3. CASE SendUserInput
    BY <2>3, SendUserInputIInv
  <2>4. CASE Sweep
    BY <2>4, SweepIInv
  <2>5. CASE UNCHANGED vars
    <3>1. UNCHANGED <<text, begun, typed, phase, meant, pipe, got>>
      BY <2>5 DEF vars
    <3>2. Forms'
      BY <3>1 DEF IInv, Forms, Taken
    <3>3. Behind'
      BY <3>1 DEF IInv, Behind, Full, Exact
    <3>4. Whole'
      BY <3>1 DEF IInv, Whole, Exact, Taken
    <3> QED
      BY <3>2, <3>3, <3>4 DEF IInv
  <2> QED
    BY <2>1, <2>2, <2>3, <2>4, <2>5 DEF Next
<1> QED
  BY <1>1, InitIInv, PTL DEF Spec

-----------------------------------------------------------------------------
(* What the invariant says of the properties *)

\* A prefix place by place.
LEMMA PrefixIs ==
    ASSUME NEW T, NEW a \in Seq(T), NEW b \in Seq(T)
    PROVE  IsPrefix(a, b) <=> /\ Len(a) <= Len(b)
                              /\ \A i \in 1..Len(a) : a[i] = b[i]
<1>1. /\ Len(a) \in Nat /\ Len(b) \in Nat
      /\ SubSeq(a, 1, Len(a)) = a
  BY LenProperties, SubSeqFull
<1>2. ASSUME Len(a) <= Len(b)
      PROVE  SubSeq(b, 1, Len(a)) = a <=> \A i \in 1..Len(a) : a[i] = b[i]
  <2> DEFINE c == SubSeq(b, 1, Len(a))
  <2>1. \A i \in 1..Len(a) : b[i] \in T
    <3>1. \A i \in 1..Len(a) : i \in 1..Len(b)
      BY <1>1, <1>2
    <3> QED
      BY <3>1, ElementOfSeq
  <2>2. c \in Seq(T) /\ Len(c) = Len(a) /\ \A i \in 1..Len(a) : c[i] = b[i]
    BY <1>1, <2>1, SubSeqProperties
  <2> HIDE DEF c
  <2>3. (\A i \in 1..Len(a) : a[i] = b[i]) => c = a
    BY <2>2, SeqEqual
  <2>4. c = a => \A i \in 1..Len(a) : a[i] = b[i]
    BY <2>2
  <2> QED
    BY <2>3, <2>4 DEF c
<1>3. IsPrefix(a, b) <=> Len(a) <= Len(b) /\ SubSeq(b, 1, Len(a)) = a
  BY <1>1 DEF IsPrefix
<1> QED
  BY <1>2, <1>3

\* The beginning of a sequence.
LEMMA FirstPart ==
    ASSUME NEW T, NEW s \in Seq(T), NEW d \in 0..Len(s)
    PROVE  /\ SubSeq(s, 1, d) \in Seq(T) /\ Len(SubSeq(s, 1, d)) = d
           /\ \A i \in 1..d : SubSeq(s, 1, d)[i] = s[i]
<1>1. Len(s) \in Nat /\ \A i \in 1..d : s[i] \in T
  <2>1. Len(s) \in Nat
    BY LenProperties
  <2>2. \A i \in 1..d : i \in 1..Len(s)
    BY <2>1
  <2> QED
    BY <2>1, <2>2, ElementOfSeq
<1> QED
  BY <1>1, SubSeqProperties

\* The same back to front.
LEMMA ReverseIs ==
    ASSUME NEW T, NEW s \in Seq(T)
    PROVE  /\ Reverse(s) \in Seq(T) /\ Len(Reverse(s)) = Len(s)
           /\ \A i \in 1..Len(s) : Reverse(s)[i] = s[(Len(s) - i) + 1]
<1> DEFINE r == Reverse(s)
<1>1. Len(s) \in Nat /\ \A i \in 1..Len(s) : s[i] \in T
  BY LenProperties, ElementOfSeq
<1>2. r = [i \in 1..Len(s) |-> s[(Len(s) - i) + 1]]
  BY DEF Reverse
<1>3. \A i \in 1..Len(s) : (Len(s) - i) + 1 \in 1..Len(s)
  BY <1>1
<1>4. r \in [1..Len(s) -> T]
  <2>1. \A i \in 1..Len(s) : s[(Len(s) - i) + 1] \in T
    BY <1>1, <1>3
  <2> HIDE DEF r
  <2> QED
    BY <1>2, <2>1
<1> HIDE DEF r
<1>5. r \in Seq(T) /\ Len(r) = Len(s)
  BY <1>1, <1>4, FunctionIsSeq
<1> QED
  BY <1>2, <1>5 DEF r

\* What is left of a text is a suffix.
LEMMA SuffixIs ==
    ASSUME NEW T, NEW s \in Seq(T), NEW t \in Seq(T), Len(s) <= Len(t),
           \A i \in 1..Len(s) : s[i] = t[(Len(t) - Len(s)) + i]
    PROVE  IsSuffix(s, t)
<1> DEFINE a == Reverse(s)
           b == Reverse(t)
<1>1. Len(s) \in Nat /\ Len(t) \in Nat
  BY LenProperties
<1>2. /\ a \in Seq(T) /\ Len(a) = Len(s)
      /\ \A i \in 1..Len(s) : a[i] = s[(Len(s) - i) + 1]
  BY ReverseIs
<1>3. /\ b \in Seq(T) /\ Len(b) = Len(t)
      /\ \A i \in 1..Len(t) : b[i] = t[(Len(t) - i) + 1]
  BY ReverseIs
<1> HIDE DEF a, b
<1>4. \A i \in 1..Len(s) :
         /\ i \in 1..Len(t) /\ (Len(s) - i) + 1 \in 1..Len(s)
         /\ (Len(t) - Len(s)) + ((Len(s) - i) + 1) = (Len(t) - i) + 1
  BY <1>1
<1>5. \A i \in 1..Len(a) : a[i] = b[i]
  <2> SUFFICES ASSUME NEW i \in 1..Len(s) PROVE a[i] = b[i]
    BY <1>2
  <2>1. s[(Len(s) - i) + 1] = t[(Len(t) - i) + 1]
    BY <1>4
  <2> QED
    BY <1>2, <1>3, <1>4, <2>1
<1>6. IsPrefix(a, b)
  BY <1>2, <1>3, <1>5, PrefixIs
<1> QED
  BY <1>6 DEF IsSuffix, a, b

\* What is left of a run is a text.
LEMMA RunText ==
    ASSUME NEW t \in Seq(Char), NEW i \in 1..Len(t)
    PROVE  RunFrom(t, {Newline}, i) \in Seq(Char)
<1> DEFINE E == {j \in i..Len(t) : t[j] \in {Newline}} \cup {Len(t) + 1}
           x == Min(E)
<1>1. Len(t) \in Nat /\ i \in Nat
  BY LenProperties
<1>2. E \subseteq Nat /\ E # {} /\ E \subseteq i..Len(t) + 1
  BY <1>1
<1>3. x \in E
  <2> HIDE DEF E
  <2> QED
    BY <1>2, MinIsLeast
<1>4. x \in i..Len(t) + 1
  BY <1>2, <1>3
<1>5. RunFrom(t, {Newline}, i) = SubSeq(t, i, x - 1)
  BY DEF RunFrom
<1> HIDE DEF x, E
<1> QED
  BY <1>4, <1>5, CharsFrom, ZenonT(60)

\* The lines that were typed are texts.
LEMMA TypedLinesIs ==
    ASSUME text \in Seq(Char)
    PROVE  /\ TypedLines = Picked(Tidy(text), Written(text))
           /\ TypedLines \in Seq(Seq(Char))
           /\ Written(text) \subseteq 1..Len(text)
<1>1. TypedLines = Picked(Tidy(text), Written(text))
  BY DEF TypedLines, Tidy, Written
<1>2. Written(text) \subseteq 1..Len(text)
  BY DEF Written, Begins
<1>3. \A i \in Written(text) : Tidy(text)[i] \in Seq(Char)
  <2>1. \A i \in 1..Len(text) : Joined(RunFrom(text, {Newline}, i)) \in Seq(Char)
    BY RunText, JoinedText
  <2>2. \A i \in 1..Len(text) :
           Tidy(text)[i] = Joined(RunFrom(text, {Newline}, i))
    BY DEF Tidy
  <2> QED
    BY <1>2, <2>1, <2>2
<1>4. Picked(Tidy(text), Written(text)) \in Seq(Seq(Char))
  <2>1. Len(text) \in Nat
    BY LenProperties
  <2> QED
    BY <1>2, <1>3, <2>1, PickedIn
<1> QED
  BY <1>1, <1>2, <1>4

\* The invariant bounds what is where.
LEMMA IInvTypeOK == IInv => TypeOK
<1> SUFFICES ASSUME IInv PROVE TypeOK
  OBVIOUS
<1>1. Forms
  BY DEF IInv
<1>2. /\ text \in Seq(Char) /\ typed \in Seq(Char) /\ Len(typed) <= Len(text)
      /\ \A i \in 1..Len(typed) : typed[i] = text[(Len(text) - Len(typed)) + i]
  BY <1>1, LinesConstants DEF Forms, Taken
<1>3. IsSuffix(typed, text)
  BY <1>2, SuffixIs
<1>4. DOMAIN got = 1..Len(got)
  BY <1>1, LenProperties DEF Forms
<1> QED
  BY <1>1, <1>3, <1>4 DEF Forms, TypeOK

\* The lines read are the first of those sent, and all of them when the pipe
\* is empty.
LEMMA IInvInStep == IInv => InStep
<1> SUFFICES ASSUME IInv PROVE InStep
  OBVIOUS
<1>1. /\ meant \in Seq(Seq(Char)) /\ pipe \in Seq(Char) /\ Len(meant) \in Nat
  BY LenProperties DEF IInv, Forms
<1>2. PICK d \in 0..Len(meant) :
         /\ Full(got) = SubSeq(meant, 1, d)
         /\ \E at \in [d..Len(meant) -> 0..Len(pipe)] : Framed(pipe, meant, d, at)
  BY DEF IInv, Behind
<1>3. PICK at : Framed(pipe, meant, d, at)
  BY <1>2
<1> DEFINE full == Picked(got, {i \in DOMAIN got : got[i] # <<>>})
<1>4. full = SubSeq(meant, 1, d)
  BY <1>2 DEF Full
<1> HIDE DEF full
<1>5. /\ full \in Seq(Seq(Char)) /\ Len(full) = d
      /\ \A i \in 1..d : full[i] = meant[i]
  BY <1>1, <1>4, FirstPart
<1>6. IsPrefix(full, meant)
  <2>1. d <= Len(meant)
    BY <1>1
  <2> QED
    BY <1>1, <1>5, <2>1, PrefixIs
<1>7. ASSUME pipe = <<>> PROVE full = meant
  <2>1. Len(pipe) = 0
    BY <1>7, EmptySeq
  <2>2. /\ at \in [d..Len(meant) -> 0..0]
        /\ \A i, j \in d..Len(meant) : i < j => at[i] < at[j]
    BY <1>3, <2>1 DEF Framed
  <2>3. d = Len(meant)
    <3>1. SUFFICES ASSUME d # Len(meant) PROVE FALSE
      OBVIOUS
    <3>2. d \in d..Len(meant) /\ Len(meant) \in d..Len(meant) /\ d < Len(meant)
      BY <1>1, <3>1
    <3>3. at[d] = 0 /\ at[Len(meant)] = 0
      BY <2>2, <3>2
    <3>4. at[d] < at[Len(meant)]
      BY <2>2, <3>2
    <3> QED
      BY <3>3, <3>4
  <2> QED
    BY <1>1, <1>5, <2>3, SeqEqual
<1> QED
  BY <1>6, <1>7 DEF InStep, full

\* Lines that fit arrive as they were typed.
LEMMA IInvAsTyped == IInv => AsTyped
<1> SUFFICES ASSUME IInv, Exact PROVE AsTyped
  BY DEF AsTyped, Exact
<1>1. /\ text \in Seq(Char) /\ Len(text) \in Nat
      /\ typed \in Seq(Char) /\ Len(typed) \in Nat /\ Len(typed) <= Len(text)
      /\ meant \in Seq(Seq(Char)) /\ pipe \in Seq(Char) /\ Len(meant) \in Nat
      /\ got \in Seq(Seq(Char))
  BY LinesConstants, LenProperties DEF IInv, Forms
<1>2. PICK d \in 0..Len(meant) :
         \E at \in [d..Len(meant) -> 0..Len(pipe)] :
            /\ Framed(pipe, meant, d, at)
            /\ Exact => at[d] = 0 /\ got = SubSeq(meant, 1, d)
  BY DEF IInv, Behind
<1>3. got = SubSeq(meant, 1, d)
  BY <1>2
<1>4. Len(got) = d /\ \A i \in 1..d : got[i] = meant[i]
  BY <1>1, <1>3, FirstPart
<1> DEFINE S == Written(text)
           T == Tidy(text)
<1>5. /\ TypedLines = Picked(T, S) /\ TypedLines \in Seq(Seq(Char))
      /\ S \subseteq 1..Len(text)
  BY <1>1, TypedLinesIs
<1>6. meant = Picked(T, S \cap 1..Taken)
  BY DEF IInv, Whole
<1>7. Taken \in 0..Len(text) /\ (typed = <<>> => Taken = Len(text))
  BY <1>1, EmptySeq DEF Taken
<1> HIDE DEF S, T
<1>8. IsPrefix(meant, TypedLines)
  <2>1. IsPrefix(Picked(T, S \cap 1..Taken), Picked(T, S))
    BY <1>1, <1>5, <1>7, PickedPrefix
  <2> QED
    BY <1>5, <1>6, <2>1
<1>9. /\ Len(meant) <= Len(TypedLines) /\ Len(TypedLines) \in Nat
      /\ \A i \in 1..Len(meant) : meant[i] = TypedLines[i]
  BY <1>1, <1>5, <1>8, PrefixIs, LenProperties
<1>10. IsPrefix(got, TypedLines)
  <2>1. Len(got) <= Len(TypedLines)
    BY <1>1, <1>4, <1>9
  <2>2. \A i \in 1..d : i \in 1..Len(meant)
    BY <1>1
  <2>3. \A i \in 1..Len(got) : got[i] = TypedLines[i]
    BY <1>4, <1>9, <2>2
  <2> QED
    BY <1>1, <1>5, <2>1, <2>3, PrefixIs
<1>11. ASSUME typed = <<>>, pipe = <<>> PROVE got = TypedLines
  <2>1. meant = TypedLines
    <3>1. S \cap 1..Taken = S
      BY <1>5, <1>7, <1>11
    <3> QED
      BY <1>5, <1>6, <3>1
  <2>2. PICK at : /\ Framed(pipe, meant, d, at) /\ at[d] = 0
                  /\ at \in [d..Len(meant) -> 0..Len(pipe)]
    BY <1>2
  <2>3. Len(pipe) = 0
    BY <1>11, EmptySeq
  <2>4. \A i, j \in d..Len(meant) : i < j => at[i] < at[j]
    BY <2>2 DEF Framed
  <2>5. d = Len(meant)
    <3>1. SUFFICES ASSUME d # Len(meant) PROVE FALSE
      OBVIOUS
    <3>2. d \in d..Len(meant) /\ Len(meant) \in d..Len(meant) /\ d < Len(meant)
      BY <1>1, <3>1
    <3>3. at[Len(meant)] = 0
      BY <2>2, <2>3, <3>2
    <3>4. at[d] < at[Len(meant)]
      BY <2>4, <3>2
    <3> QED
      BY <2>2, <3>3, <3>4
  <2>6. SubSeq(meant, 1, Len(meant)) = meant
    BY <1>1, SubSeqFull
  <2> QED
    BY <1>3, <2>1, <2>5, <2>6
<1> QED
  BY <1>10, <1>11 DEF AsTyped

\* However long the lines are that are typed and however the server's reads
\* fall between the client's writes, the fgets of the client and the
\* read_until_delim of the server cut the text at the same places, each line
\* fits its buffer, and lines that fit arrive as they were typed.
THEOREM LinesAlwaysArrive == Spec => []LinesArrive
<1>1. IInv => LinesArrive
  BY IInvTypeOK, IInvInStep, IInvAsTyped DEF LinesArrive
<1> QED
  BY <1>1, Invariance, PTL

\* sanitise_whitespace computes the words of any text that may be typed, with
\* single blanks, although it writes into the text it is reading.
THEOREM SanitisedAlwaysExact == Spec => []SanitiseExact
<1>1. IInv => SanitiseExact
  <2>1. IInv => text \in Seq(Char)
    BY LinesConstants DEF IInv, Forms
  <2>2. text \in Seq(Char) => Sanitised(text) = Joined(text)
    BY SanitisedIsJoined
  <2> QED
    BY <2>1, <2>2 DEF SanitiseExact
<1> QED
  BY <1>1, Invariance, PTL

-----------------------------------------------------------------------------
(* The search in users.txt: its loop *)

\* f answers at the places from m to n: at once, or as it does further on.
Jumps(f, m, n, stop, answer, next) ==
    f = [c \in m..n |-> IF stop[c] THEN answer[c] ELSE f[next[c]]]

\* There is such a function when every step goes on: what defines the
\* recursion of usertxt_get_balance.
LEMMA JumpsExist ==
    ASSUME NEW n \in Nat, NEW stop, NEW answer, NEW next,
           \A c \in 0..n : stop[c] \/ next[c] \in c + 1..n
    PROVE  \E f : Jumps(f, 0, n, stop, answer, next)
<1> DEFINE There(k) == \E f : Jumps(f, n - k, n, stop, answer, next)
           Bad == {k \in 0..n : ~There(k)}
<1>1. There(0)
  <2> DEFINE g == [c \in n - 0..n |-> answer[c]]
  <2>1. stop[n] /\ \A c \in n - 0..n : c = n
    <3>1. ~ (next[n] \in n + 1..n)
      OBVIOUS
    <3> QED
      BY <3>1
  <2>2. Jumps(g, n - 0, n, stop, answer, next)
    BY <2>1 DEF Jumps
  <2> QED
    BY <2>2
<1>2. ASSUME NEW k \in 0..n, k # 0, There(k - 1) PROVE There(k)
  <2> DEFINE m == n - k
  <2>1. m \in 0..n /\ m < n /\ n - (k - 1) = m + 1
    BY <1>2
  <2>2. PICK f : Jumps(f, m + 1, n, stop, answer, next)
    BY <1>2, <2>1
  <2> HIDE DEF m
  <2> DEFINE g == [c \in m..n |-> IF c = m
                                  THEN IF stop[m] THEN answer[m] ELSE f[next[m]]
                                  ELSE f[c]]
  <2>3. \A c \in m + 1..n :
            f[c] = IF stop[c] THEN answer[c] ELSE f[next[c]]
    BY <2>2 DEF Jumps
  <2>4. \A c \in m + 1..n : c \in m..n /\ c # m
    BY <2>1
  <2>5. \A c \in m..n : stop[c] \/ next[c] \in m + 1..n
    BY <2>1
  <2>6. \A c \in m..n : c = m \/ c \in m + 1..n
    BY <2>1
  <2>7. \A c \in m..n : ~stop[c] => g[next[c]] = f[next[c]]
    BY <2>4, <2>5
  <2>8. \A c \in m..n : g[c] = IF stop[c] THEN answer[c] ELSE f[next[c]]
    BY <2>3, <2>6
  <2>9. \A c \in m..n : g[c] = IF stop[c] THEN answer[c] ELSE g[next[c]]
    BY <2>7, <2>8
  <2>10. g = [c \in m..n |-> g[c]]
    OBVIOUS
  <2> HIDE DEF g
  <2>11. Jumps(g, m, n, stop, answer, next)
    BY <2>9, <2>10 DEF Jumps
  <2> QED
    BY <2>11 DEF m
<1> HIDE DEF There
<1>3. Bad = {}
  <2> SUFFICES ASSUME Bad # {} PROVE FALSE
    OBVIOUS
  <2>1. PICK k \in Bad : \A j \in Bad : k <= j
    <3>1. Bad \subseteq Nat
      OBVIOUS
    <3> HIDE DEF Bad
    <3> QED
      BY <3>1, LeastElement
  <2>2. k \in 0..n /\ k # 0
    BY <1>1, <2>1
  <2>3. k - 1 \in 0..n /\ k - 1 \notin Bad
    <3>1. k - 1 \in 0..n /\ ~(k <= k - 1)
      BY <2>2
    <3> QED
      BY <2>1, <3>1
  <2> QED
    BY <1>2, <2>1, <2>2, <2>3
<1>4. There(n) /\ n - n = 0
  BY <1>3
<1> QED
  BY <1>4 DEF There

\* What the loop reads at place c, and what it decides from.
PieceAt(t, c) == Fgets(Drop(t, c), MAX_UTXT_LINEBUF_LEN)
BufferAt(t, c) == Sanitised(PieceAt(t, c))
NumberIn(buffer, name) == Strtol(Drop(buffer, Len(name)))
Hit(buffer, name) == Names(buffer, name) /\ ~NumberIn(buffer, name).malformed
Verdict(value) == IF value > 0 THEN "AUTH_OK" ELSE "AUTH_NO"

\* f holds the answers of the loop, by the place it has come to.
Searched(f, name, t) ==
    f = [c \in 0..Len(t) |->
            IF Drop(t, c) = <<>> THEN "AUTH_UN"
            ELSE IF Hit(BufferAt(t, c), name)
            THEN Verdict(NumberIn(BufferAt(t, c), name).value)
            ELSE f[c + Len(PieceAt(t, c))]]

\* Each turn takes a piece of the text.
LEMMA PieceTaken ==
    ASSUME NEW t \in Seq(Char), NEW c \in 0..Len(t)
    PROVE  /\ Drop(t, c) = <<>> <=> c = Len(t)
           /\ c < Len(t) =>
                /\ Piece(Drop(t, c), PieceAt(t, c), MAX_UTXT_LINEBUF_LEN)
                /\ c + Len(PieceAt(t, c)) \in c + 1..Len(t)
<1>1. /\ Drop(t, c) \in Seq(Char) /\ Len(Drop(t, c)) = Len(t) - c
      /\ Len(t) \in Nat
  BY OtherChars, LenProperties
<1>2. Drop(t, c) = <<>> <=> c = Len(t)
  BY <1>1, EmptySeq
<1>3. ASSUME c < Len(t)
      PROVE  /\ Piece(Drop(t, c), PieceAt(t, c), MAX_UTXT_LINEBUF_LEN)
             /\ c + Len(PieceAt(t, c)) \in c + 1..Len(t)
  <2>1. Drop(t, c) # <<>> /\ MAX_UTXT_LINEBUF_LEN \in Nat \ {0, 1}
    BY <1>2, <1>3, LinesConstants
  <2>2. Piece(Drop(t, c), PieceAt(t, c), MAX_UTXT_LINEBUF_LEN)
    BY <1>1, <2>1, FgetsPiece DEF PieceAt
  <2>3. Len(PieceAt(t, c)) \in 1..Len(t) - c
    BY <1>1, <2>2 DEF Piece
  <2> QED
    BY <1>1, <2>2, <2>3
<1> QED
  BY <1>2, <1>3

\* So there are such answers.
LEMMA SearchExists ==
    ASSUME NEW t \in Seq(Char), NEW name
    PROVE  \E f : Searched(f, name, t)
<1> DEFINE n == Len(t)
           stop == [c \in 0..n |-> c = n \/ Hit(BufferAt(t, c), name)]
           answer == [c \in 0..n |->
                         IF c = n THEN "AUTH_UN"
                         ELSE Verdict(NumberIn(BufferAt(t, c), name).value)]
           next == [c \in 0..n |-> c + Len(PieceAt(t, c))]
<1>1. n \in Nat
  BY LenProperties
<1>2. \A c \in 0..n : Drop(t, c) = <<>> <=> c = n
  BY PieceTaken
<1>3. \A c \in 0..n : stop[c] \/ next[c] \in c + 1..n
  <2>1. \A c \in 0..n : c < n => c + Len(PieceAt(t, c)) \in c + 1..n
    BY PieceTaken
  <2>2. \A c \in 0..n : c = n \/ c < n
    BY <1>1
  <2>3. \A c \in 0..n : next[c] = c + Len(PieceAt(t, c))
    OBVIOUS
  <2>4. \A c \in 0..n : c = n => stop[c]
    OBVIOUS
  <2> HIDE DEF stop, next
  <2> QED
    BY <2>1, <2>2, <2>3, <2>4
<1> HIDE DEF n
<1>4. PICK f : Jumps(f, 0, n, stop, answer, next)
  <2> HIDE DEF stop, answer, next
  <2> QED
    BY <1>1, <1>3, JumpsExist
<1>5. f = [c \in 0..n |->
             IF c = n \/ Hit(BufferAt(t, c), name)
             THEN IF c = n THEN "AUTH_UN"
                  ELSE Verdict(NumberIn(BufferAt(t, c), name).value)
             ELSE f[c + Len(PieceAt(t, c))]]
  BY <1>4 DEF Jumps
<1>6. f = [c \in 0..n |->
             IF Drop(t, c) = <<>> THEN "AUTH_UN"
             ELSE IF Hit(BufferAt(t, c), name)
             THEN Verdict(NumberIn(BufferAt(t, c), name).value)
             ELSE f[c + Len(PieceAt(t, c))]]
  BY <1>2, <1>5
<1> QED
  BY <1>6 DEF Searched, n

\* And the search gives the one for the beginning of the text.
LEMMA SearchIs ==
    ASSUME NEW t \in Seq(Char), NEW name
    PROVE  \E f : Searched(f, name, t) /\ usertxt_get_balance(name, t) = f[0]
<1> DEFINE f == CHOOSE f : Searched(f, name, t)
<1>1. Searched(f, name, t)
  BY SearchExists
<1>2. usertxt_get_balance(name, t) = f[0]
  BY DEF usertxt_get_balance, Searched, Hit, Verdict, NumberIn, BufferAt, PieceAt
<1> HIDE DEF f
<1> QED
  BY <1>1, <1>2

-----------------------------------------------------------------------------
(* The first two words of a line, and of the line as it is tidied *)

\* From place i to the one before e there is a word of s, all of it.
WordAt(s, i, e) ==
    /\ i \in 1..Len(s) /\ e \in i + 1..Len(s) + 1
    /\ \A j \in i..e - 1 : ~isspace(s[j])
    /\ e <= Len(s) => isspace(s[e])
    /\ i = 1 \/ isspace(s[i - 1])

\* Nothing but white space behind place c, up to place d.
Empty(s, c, d) == \A j \in c + 1..d : isspace(s[j])

\* Behind a place where no word can have begun there is a word, or none.
LEMMA NextWord ==
    ASSUME NEW s \in Seq(Char), NEW c \in 0..Len(s), c = 0 \/ isspace(s[c])
    PROVE  \/ Empty(s, c, Len(s))
           \/ \E i \in c + 1..Len(s) : \E e \in i + 1..Len(s) + 1 :
                 WordAt(s, i, e) /\ Empty(s, c, i - 1)
<1> DEFINE n == Len(s)
           I == {j \in c + 1..n : ~isspace(s[j])}
<1>1. n \in Nat
  BY LenProperties
<1> SUFFICES ASSUME ~Empty(s, c, n)
             PROVE  \E i \in c + 1..n : \E e \in i + 1..n + 1 :
                       WordAt(s, i, e) /\ Empty(s, c, i - 1)
  OBVIOUS
<1> HIDE DEF n
<1>2. I # {} /\ I \subseteq Nat
  BY <1>1 DEF Empty
<1>3. PICK i \in I : \A j \in I : i <= j
  BY <1>2, LeastElement
<1>4. i \in c + 1..n /\ i \in 1..n /\ ~isspace(s[i])
  BY <1>1, <1>3
<1>5. Empty(s, c, i - 1)
  <2> SUFFICES ASSUME NEW j \in c + 1..i - 1 PROVE isspace(s[j])
    BY DEF Empty
  <2>1. j \in c + 1..n /\ ~(i <= j)
    BY <1>1, <1>4
  <2> QED
    BY <1>3, <2>1
<1>6. i = 1 \/ isspace(s[i - 1])
  <2>1. CASE i = c + 1
    BY <1>4, <2>1
  <2>2. CASE i # c + 1
    <3>1. i - 1 \in c + 1..i - 1
      BY <1>4, <2>2
    <3> QED
      BY <1>5, <3>1 DEF Empty
  <2> QED
    BY <2>1, <2>2
<1> DEFINE E == {j \in i..n : isspace(s[j])} \cup {n + 1}
<1>7. E # {} /\ E \subseteq Nat /\ E \subseteq i..n + 1
  BY <1>1, <1>4
<1>8. PICK e \in E : \A j \in E : e <= j
  <2> HIDE DEF E
  <2> QED
    BY <1>7, LeastElement
<1>9. e \in i + 1..n + 1
  <2>1. e \in i..n + 1 /\ e # i
    BY <1>1, <1>4, <1>7, <1>8
  <2> QED
    BY <1>4, <2>1
<1>10. \A j \in i..e - 1 : ~isspace(s[j])
  <2> SUFFICES ASSUME NEW j \in i..e - 1, isspace(s[j]) PROVE FALSE
    OBVIOUS
  <2>1. j \in i..n /\ ~(e <= j)
    BY <1>1, <1>4, <1>9
  <2> QED
    BY <1>8, <2>1
<1>11. e <= n => isspace(s[e])
  BY <1>1, <1>8
<1>12. WordAt(s, i, e)
  BY <1>4, <1>6, <1>9, <1>10, <1>11 DEF WordAt, n
<1> QED
  BY <1>4, <1>5, <1>9, <1>12

\* How many members of a set of numbers do not exceed i.
Rank(S, i) == Cardinality(S \cap 1..i)

\* Behind place c, and up to place i, the set holds what comes from a on.
Follows(S, c, a, i) == \A j \in c + 1..i : j \in S <=> j >= a

\* Behind place c, and up to place i, it holds nothing.
Skips(S, c, i) == \A j \in c + 1..i : j \notin S

\* The ranks of numbers that follow one another in a set.
LEMMA RankOn ==
    ASSUME NEW m \in Nat, NEW S, S \subseteq 1..m, NEW c \in 0..m,
           NEW a \in c + 1..m, NEW i \in a..m,
           Follows(S, c, a, i)
    PROVE  Rank(S, i) = Rank(S, c) + ((i - a) + 1)
<1> DEFINE P == S \cap 1..c
<1>1. S \cap 1..i = P \cup (a..i) /\ P \cap (a..i) = {}
  <2>1. ASSUME NEW x PROVE x \in S \cap 1..i <=> x \in P \cup (a..i)
    <3>1. CASE x \in 1..i /\ x <= c
      BY <3>1
    <3>2. CASE x \in 1..i /\ x > c
      BY <3>2 DEF Follows
    <3>3. CASE x \notin 1..i
      BY <3>3
    <3> QED
      BY <3>1, <3>2, <3>3
  <2> QED
    BY <2>1
<1>2. IsFiniteSet(P) /\ Cardinality(P) \in Nat
  BY Size
<1>3. IsFiniteSet(a..i) /\ Cardinality(a..i) = (i - a) + 1
  <2>1. a \in Int /\ i \in Int /\ ~(a > i) /\ (i - a) + 1 = i - a + 1
    OBVIOUS
  <2> QED
    BY <2>1, FS_Interval
<1>4. Cardinality(P \cap (a..i)) = 0
  BY <1>1, FS_EmptySet
<1> DEFINE Q == a..i
<1> HIDE DEF P, Q
<1>5. Cardinality(P \cup Q) = Cardinality(P) + Cardinality(Q)
  <2>1. Cardinality(Q) \in Nat /\ IsFiniteSet(Q)
    BY <1>3 DEF Q
  <2>2. Cardinality(P \cup Q)
            = Cardinality(P) + Cardinality(Q) - Cardinality(P \cap Q)
    BY <1>2, <2>1, FS_Union
  <2>3. Cardinality(P \cap Q) = 0
    BY <1>4 DEF Q
  <2> QED
    BY <1>2, <2>1, <2>2, <2>3
<1> QED
  BY <1>1, <1>3, <1>5 DEF P, Q, Rank

\* Nothing more of a set.
LEMMA RankStays ==
    ASSUME NEW m \in Nat, NEW S, S \subseteq 1..m, NEW c \in 0..m,
           NEW i \in c..m, Skips(S, c, i)
    PROVE  Rank(S, i) = Rank(S, c)
<1>1. \A x : x \in S \cap 1..i <=> x \in S \cap 1..c
  <2> SUFFICES ASSUME NEW x PROVE x \in S \cap 1..i <=> x \in S \cap 1..c
    OBVIOUS
  <2>1. x \in 1..i /\ x > c => x \in c + 1..i
    OBVIOUS
  <2> QED
    BY <2>1 DEF Skips
<1> QED
  BY <1>1 DEF Rank

\* A word is followed by another one, or by nothing.
LEMMA AfterWord ==
    ASSUME NEW s \in Seq(Char), NEW i, NEW e, WordAt(s, i, e)
    PROVE  \/ Empty(s, e - 1, Len(s))
           \/ \E h \in e + 1..Len(s) : \E d \in h + 1..Len(s) + 1 :
                 WordAt(s, h, d) /\ Empty(s, e - 1, h - 1)
<1> DEFINE n == Len(s)
<1>1. n \in Nat /\ i \in 1..n /\ e \in i + 1..n + 1 /\ (e <= n => isspace(s[e]))
  BY LenProperties DEF WordAt
<1>2. CASE e = n + 1
  <2>1. Empty(s, e - 1, n)
    BY <1>1, <1>2 DEF Empty
  <2> QED
    BY <2>1
<1>3. CASE e # n + 1
  <2>1. e \in 1..n /\ e \in 0..n /\ isspace(s[e])
    BY <1>1, <1>3
  <2>2. ASSUME NEW d \in Nat, Empty(s, e, d) PROVE Empty(s, e - 1, d)
    <3> SUFFICES ASSUME NEW j \in (e - 1) + 1..d PROVE isspace(s[j])
      BY DEF Empty
    <3>1. j = e \/ j \in e + 1..d
      BY <2>1
    <3> QED
      BY <2>1, <2>2, <3>1 DEF Empty
  <2>3. \/ Empty(s, e, n)
        \/ \E h \in e + 1..n : \E d \in h + 1..n + 1 :
              WordAt(s, h, d) /\ Empty(s, e, h - 1)
    BY <2>1, NextWord
  <2>4. \A h \in e + 1..n : h - 1 \in Nat
    BY <2>1
  <2>5. Empty(s, e, n) => Empty(s, e - 1, n)
    BY <1>1, <2>2
  <2>6. \A h \in e + 1..n : Empty(s, e, h - 1) => Empty(s, e - 1, h - 1)
    BY <2>2, <2>4
  <2> QED
    BY <2>3, <2>5, <2>6, Zenon
<1> QED
  BY <1>2, <1>3

\* What is kept of a word, and of the white space between words.
LEMMA KeptIs ==
    ASSUME NEW s \in Seq(Char)
    PROVE  /\ Kept(s) \subseteq 1..Len(s)
           /\ \A j \in 1..Len(s) : ~isspace(s[j]) =>
                 j \in Kept(s) /\ Shown(s)[j] = s[j]
           /\ \A j \in 1..Len(s) : isspace(s[j]) =>
                 /\ Shown(s)[j] = Blank
                 /\ j \in Kept(s) <=>
                      /\ j < Len(s) /\ ~isspace(s[j + 1])
                      /\ \E h \in 1..j : ~isspace(s[h])
<1>1. Kept(s) \subseteq 1..Len(s)
  BY DEF Kept
<1>2. \A j \in 1..Len(s) :
         j \in Kept(s) <=> \/ ~isspace(s[j])
                           \/ /\ j < Len(s) /\ ~isspace(s[j + 1])
                              /\ \E h \in 1..j : ~isspace(s[h])
  BY DEF Kept
<1>3. \A j \in 1..Len(s) :
         Shown(s)[j] = IF ~isspace(s[j]) THEN s[j] ELSE Blank
  BY DEF Shown
<1> QED
  BY <1>1, <1>2, <1>3

\* Where a place that is kept comes in the tidied line.
LEMMA JoinedAt ==
    ASSUME NEW s \in Seq(Char), NEW p \in Kept(s), NEW r,
           r = Rank(Kept(s), p)
    PROVE  r \in 1..Len(Joined(s)) /\ Joined(s)[r] = Shown(s)[p]
<1> DEFINE K == Kept(s)
<1>1. K \subseteq 1..Len(s) /\ Len(s) \in Nat
  BY KeptIs, LenProperties
<1> HIDE DEF K
<1>2. /\ Cardinality(K) \in Nat /\ Rank(K, p) \in Nat
      /\ Rank(K, p) <= Cardinality(K)
      /\ IsFiniteSet(K \cap 1..p)
  <2>1. K \cap 1..p \in SUBSET K
    OBVIOUS
  <2> QED
    BY <1>1, <2>1, Size DEF Rank
<1>3. Rank(K, p) # 0
  <2>1. p \in K \cap 1..p
    BY <1>1 DEF K
  <2> QED
    BY <1>2, <2>1, FS_EmptySet DEF Rank
<1>4. r \in 1..Cardinality(K)
  BY <1>2, <1>3 DEF K
<1>5. Nth(K, r) = p
  BY <1>1, NthIs DEF K, Rank
<1>6. Len(Joined(s)) = Cardinality(K)
  BY <1>1, JoinedIs, PickedLen DEF K
<1>7. Joined(s)[r] = Shown(s)[Nth(K, r)]
  BY <1>4, JoinedIs DEF Picked, K
<1> QED
  BY <1>4, <1>5, <1>6, <1>7

\* A line without words.
LEMMA NoWordJoined ==
    ASSUME NEW s \in Seq(Char), Empty(s, 0, Len(s))
    PROVE  Joined(s) = <<>>
<1>1. \A j \in 1..Len(s) : isspace(s[j])
  BY DEF Empty
<1>2. Kept(s) = {}
  <2> SUFFICES ASSUME NEW j \in Kept(s) PROVE FALSE
    OBVIOUS
  <2>1. j \in 1..Len(s) /\ isspace(s[j])
    BY <1>1, KeptIs
  <2>2. PICK h \in 1..j : ~isspace(s[h])
    BY <2>1, KeptIs
  <2>3. h \in 1..Len(s)
    BY <2>1, <2>2, LenProperties
  <2> QED
    BY <1>1, <2>2, <2>3
<1> QED
  BY <1>2, JoinedIs, PickedNone

\* The first word comes first.
LEMMA FirstJoined ==
    ASSUME NEW s \in Seq(Char), NEW i, NEW e, WordAt(s, i, e),
           Empty(s, 0, i - 1)
    PROVE  /\ Rank(Kept(s), e - 1) = e - i
           /\ \A j \in 1..e - i : /\ j \in 1..Len(Joined(s))
                                  /\ Joined(s)[j] = s[(i - 1) + j]
<1> DEFINE n == Len(s)
           K == Kept(s)
<1>1. n \in Nat /\ i \in 1..n /\ e \in i + 1..n + 1
      /\ (\A j \in i..e - 1 : ~isspace(s[j]))
  BY LenProperties DEF WordAt
<1>2. \A j \in 1..i - 1 : isspace(s[j])
  BY DEF Empty
<1>3. K \subseteq 1..n
  BY KeptIs
<1>4. \A j \in 1..i - 1 : j \notin K
  <2> SUFFICES ASSUME NEW j \in 1..i - 1, j \in K PROVE FALSE
    OBVIOUS
  <2>1. j \in 1..n /\ isspace(s[j]) /\ \A h \in 1..j : h \in 1..i - 1
    BY <1>1, <1>2
  <2>2. PICK h \in 1..j : ~isspace(s[h])
    BY <2>1, KeptIs
  <2> QED
    BY <1>2, <2>1, <2>2
<1>5. \A j \in i..e - 1 : j \in K /\ Shown(s)[j] = s[j]
  <2>1. \A j \in i..e - 1 : j \in 1..n
    BY <1>1
  <2> QED
    BY <1>1, <2>1, KeptIs
<1> HIDE DEF n, K
<1>6. ASSUME NEW p \in i..e - 1 PROVE Rank(K, p) = (p - i) + 1
  <2>1. Follows(K, 0, i, p)
    <3>1. \A j \in 0 + 1..p : (j \in 1..i - 1 /\ ~(j >= i))
                               \/ (j \in i..e - 1 /\ j >= i)
      BY <1>1
    <3> QED
      BY <1>4, <1>5, <3>1 DEF Follows
  <2>2. 0 \in 0..n /\ i \in 0 + 1..n /\ p \in i..n
    BY <1>1
  <2>3. Rank(K, p) = Rank(K, 0) + ((p - i) + 1)
    BY <1>1, <1>3, <2>1, <2>2, RankOn
  <2>4. Rank(K, 0) = 0
    <3>1. K \cap 1..0 = {}
      OBVIOUS
    <3> QED
      BY <3>1, FS_EmptySet DEF Rank
  <2>5. (p - i) + 1 \in Nat
    BY <1>1
  <2> QED
    BY <2>3, <2>4, <2>5
<1>7. Rank(K, e - 1) = e - i
  <2>1. e - 1 \in i..e - 1 /\ ((e - 1) - i) + 1 = e - i
    BY <1>1
  <2> QED
    BY <1>6, <2>1
<1>8. ASSUME NEW j \in 1..e - i
      PROVE  j \in 1..Len(Joined(s)) /\ Joined(s)[j] = s[(i - 1) + j]
  <2> DEFINE p == (i - 1) + j
  <2>1. p \in i..e - 1 /\ (p - i) + 1 = j
    BY <1>1
  <2> HIDE DEF p
  <2>2. p \in K /\ Shown(s)[p] = s[p] /\ Rank(K, p) = j
    BY <1>5, <1>6, <2>1
  <2>3. j \in 1..Len(Joined(s)) /\ Joined(s)[j] = Shown(s)[p]
    BY <2>2, JoinedAt DEF K
  <2> QED
    BY <2>2, <2>3 DEF p
<1> QED
  BY <1>7, <1>8 DEF K

\* After a word that nothing follows the tidied line ends.
LEMMA LastJoined ==
    ASSUME NEW s \in Seq(Char), NEW i, NEW e, WordAt(s, i, e),
           Empty(s, e - 1, Len(s))
    PROVE  Len(Joined(s)) = Rank(Kept(s), e - 1)
<1> DEFINE n == Len(s)
           K == Kept(s)
<1>1. n \in Nat /\ i \in 1..n /\ e \in i + 1..n + 1 /\ K \subseteq 1..n
  BY KeptIs, LenProperties DEF WordAt
<1>2. ASSUME NEW j \in (e - 1) + 1..n PROVE j \notin K
  <2>1. j \in 1..n /\ isspace(s[j])
    BY <1>1 DEF Empty
  <2>2. j < n => isspace(s[j + 1])
    <3>1. j < n => j + 1 \in (e - 1) + 1..n
      BY <1>1
    <3> QED
      BY <3>1 DEF Empty
  <2> QED
    BY <2>1, <2>2, KeptIs
<1>3. Len(Joined(s)) = Cardinality(K)
  BY <1>1, JoinedIs, PickedLen
<1> HIDE DEF n, K
<1>4. e - 1 \in 0..n /\ n \in e - 1..n
  BY <1>1
<1>5. Rank(K, n) = Rank(K, e - 1)
  <2>1. Skips(K, e - 1, n)
    BY <1>2 DEF Skips
  <2> QED
    BY <1>1, <1>4, <2>1, RankStays
<1>6. K \cap 1..n = K
  BY <1>1
<1> QED
  BY <1>3, <1>5, <1>6 DEF K, Rank

\* Behind its first r characters the tidied line goes on with a blank and
\* the word from h to d.
Continues(s, r, h, d) ==
    /\ Rank(Kept(s), d - 1) = (r + 1) + (d - h)
    /\ r + 1 \in 1..Len(Joined(s)) /\ Joined(s)[r + 1] = Blank
    /\ \A j \in 1..d - h :
          /\ (r + 1) + j \in 1..Len(Joined(s))
          /\ Joined(s)[(r + 1) + j] = s[(h - 1) + j]

\* After a word comes one blank, and the next word.
LEMMA NextJoined ==
    ASSUME NEW s \in Seq(Char), NEW i, NEW e, WordAt(s, i, e),
           NEW h, NEW d, WordAt(s, h, d), h \in e + 1..Len(s),
           Empty(s, e - 1, h - 1),
           NEW r \in Nat, r = Rank(Kept(s), e - 1)
    PROVE  Continues(s, r, h, d)
<1> DEFINE n == Len(s)
           K == Kept(s)
<1>1. /\ n \in Nat /\ i \in 1..n /\ e \in i + 1..n + 1
      /\ h \in e + 1..n /\ d \in h + 1..n + 1
      /\ (\A j \in i..e - 1 : ~isspace(s[j]))
      /\ (\A j \in h..d - 1 : ~isspace(s[j]))
  BY LenProperties DEF WordAt
<1>2. \A j \in (e - 1) + 1..h - 1 : isspace(s[j])
  BY DEF Empty
<1>3. K \subseteq 1..n
  BY KeptIs
<1>4. ASSUME NEW j \in (e - 1) + 1..h - 2 PROVE j \notin K
  <2>1. /\ j \in 1..n /\ j \in (e - 1) + 1..h - 1
        /\ j + 1 \in (e - 1) + 1..h - 1
    BY <1>1
  <2>2. isspace(s[j]) /\ isspace(s[j + 1])
    BY <1>2, <2>1
  <2> QED
    BY <2>1, <2>2, KeptIs
<1>5. h - 1 \in K /\ Shown(s)[h - 1] = Blank
  <2>1. /\ h - 1 \in 1..n /\ h - 1 \in (e - 1) + 1..h - 1 /\ h - 1 < n
        /\ (h - 1) + 1 = h /\ h \in h..d - 1
        /\ i \in 1..h - 1 /\ i \in i..e - 1
    BY <1>1
  <2>2. isspace(s[h - 1]) /\ ~isspace(s[(h - 1) + 1]) /\ ~isspace(s[i])
    BY <1>1, <1>2, <2>1
  <2> QED
    BY <2>1, <2>2, KeptIs
<1>6. \A j \in h..d - 1 : j \in K /\ Shown(s)[j] = s[j]
  <2>1. \A j \in h..d - 1 : j \in 1..n
    BY <1>1
  <2> QED
    BY <1>1, <2>1, KeptIs
<1> HIDE DEF n, K
<1>7. ASSUME NEW p \in h - 1..d - 1
      PROVE  Rank(K, p) = r + ((p - (h - 1)) + 1)
  <2>1. Follows(K, e - 1, h - 1, p)
    <3>1. \A j \in (e - 1) + 1..p :
             (j \in (e - 1) + 1..h - 2 /\ ~(j >= h - 1))
             \/ (j = h - 1 /\ j >= h - 1) \/ (j \in h..d - 1 /\ j >= h - 1)
      BY <1>1
    <3> QED
      BY <1>4, <1>5, <1>6, <3>1, Zenon DEF Follows
  <2>2. e - 1 \in 0..n /\ h - 1 \in (e - 1) + 1..n /\ p \in h - 1..n
    BY <1>1
  <2>3. Rank(K, p)
            = Rank(K, e - 1) + ((p - (h - 1)) + 1)
    BY <1>1, <1>3, <2>1, <2>2, RankOn
  <2> QED
    BY <2>3 DEF K
<1>8. Rank(K, d - 1) = (r + 1) + (d - h)
  <2>1. d - 1 \in h - 1..d - 1
        /\ r + (((d - 1) - (h - 1)) + 1) = (r + 1) + (d - h)
    BY <1>1
  <2> QED
    BY <1>7, <2>1
<1>9. r + 1 \in 1..Len(Joined(s)) /\ Joined(s)[r + 1] = Blank
  <2>1. h - 1 \in h - 1..d - 1 /\ r + (((h - 1) - (h - 1)) + 1) = r + 1
    BY <1>1
  <2>2. Rank(K, h - 1) = r + 1
    BY <1>7, <2>1
  <2>3. r + 1 \in 1..Len(Joined(s)) /\ Joined(s)[r + 1] = Shown(s)[h - 1]
    BY <1>5, <2>2, JoinedAt DEF K
  <2> QED
    BY <1>5, <2>3
<1>10. ASSUME NEW j \in 1..d - h
       PROVE  /\ (r + 1) + j \in 1..Len(Joined(s))
              /\ Joined(s)[(r + 1) + j] = s[(h - 1) + j]
  <2> DEFINE p == (h - 1) + j
  <2>1. /\ p \in h..d - 1 /\ p \in h - 1..d - 1
        /\ r + ((p - (h - 1)) + 1) = (r + 1) + j
    BY <1>1
  <2> HIDE DEF p
  <2>2. p \in K /\ Shown(s)[p] = s[p] /\ Rank(K, p) = (r + 1) + j
    BY <1>6, <1>7, <2>1
  <2>3. (r + 1) + j \in 1..Len(Joined(s))
        /\ Joined(s)[(r + 1) + j] = Shown(s)[p]
    BY <2>2, JoinedAt DEF K
  <2> QED
    BY <2>2, <2>3 DEF p
<1> QED
  BY <1>8, <1>9, <1>10 DEF K, Continues

\* Where the tidied line goes on after a word, it does with a blank.
LEMMA BlankAfter ==
    ASSUME NEW s \in Seq(Char), NEW i, NEW e, WordAt(s, i, e),
           NEW r \in Nat, r = Rank(Kept(s), e - 1),
           r < Len(Joined(s))
    PROVE  Joined(s)[r + 1] = Blank
<1>1. ~Empty(s, e - 1, Len(s))
  <2>1. ~(r < r)
    OBVIOUS
  <2> QED
    BY <2>1, LastJoined
<1>2. PICK h \in e + 1..Len(s) : \E d \in h + 1..Len(s) + 1 :
             WordAt(s, h, d) /\ Empty(s, e - 1, h - 1)
  BY <1>1, AfterWord
<1> QED
  BY <1>2, NextJoined DEF Continues

\* The characters of a word.
Chars(s, i, e) == SubSeq(s, i, e - 1)

\* They are as many as there are places, and none is white space.
LEMMA WordIs ==
    ASSUME NEW s \in Seq(Char), NEW i, NEW e, WordAt(s, i, e)
    PROVE  /\ Chars(s, i, e) \in Seq(Char) /\ Len(Chars(s, i, e)) = e - i
           /\ e - i \in Nat \ {0}
           /\ \A j \in 1..e - i : /\ Chars(s, i, e)[j] = s[(i - 1) + j]
                                  /\ ~isspace(Chars(s, i, e)[j])
           /\ RunFrom(s, {Newline, Blank}, i) = Chars(s, i, e)
<1>1. /\ Len(s) \in Nat /\ i \in 1..Len(s) /\ e \in i + 1..Len(s) + 1
      /\ e \in i..Len(s) + 1
      /\ \A j \in i..e - 1 : ~isspace(s[j])
      /\ e <= Len(s) => isspace(s[e])
  BY LenProperties DEF WordAt
<1>2. RunFrom(s, {Newline, Blank}, i) = Chars(s, i, e)
  BY <1>1, RunTo DEF isspace, Chars
<1>3. /\ Chars(s, i, e) \in Seq(Char) /\ Len(Chars(s, i, e)) = e - i
      /\ \A j \in 1..e - i : Chars(s, i, e)[j] = s[(i - 1) + j]
  BY <1>1, CharsFrom DEF Chars
<1>4. \A j \in 1..e - i : ~isspace(s[(i - 1) + j])
  <2>1. \A j \in 1..e - i : (i - 1) + j \in i..e - 1
    BY <1>1
  <2> QED
    BY <1>1, <2>1
<1>5. e - i \in Nat \ {0}
  BY <1>1
<1> QED
  BY <1>2, <1>3, <1>4, <1>5

\* Where the words of a line begin.
Firsts(s) == Begins(s, {Newline, Blank})

\* They are the places whose character is none of white space and that are
\* the first or come after white space.
LEMMA FirstsAre ==
    ASSUME NEW s \in Seq(Char)
    PROVE  /\ Firsts(s) \subseteq 1..Len(s)
           /\ \A j \in 1..Len(s) :
                 j \in Firsts(s) <=> /\ ~isspace(s[j])
                                     /\ j = 1 \/ isspace(s[j - 1])
BY DEF Firsts, Begins, isspace

\* The words of a line by the ranks of these places.
LEMMA WordsAt ==
    ASSUME NEW s \in Seq(Char)
    PROVE  /\ Len(Words(s)) = Cardinality(Firsts(s))
           /\ Len(Words(s)) \in Nat
           /\ \A p \in Firsts(s) :
                 /\ Rank(Firsts(s), p) \in 1..Len(Words(s))
                 /\ Words(s)[Rank(Firsts(s), p)]
                        = RunFrom(s, {Newline, Blank}, p)
<1> DEFINE S == Firsts(s)
           R == [i \in 1..Len(s) |-> RunFrom(s, {Newline, Blank}, i)]
<1>1. S \subseteq 1..Len(s) /\ Len(s) \in Nat
  BY FirstsAre, LenProperties
<1>2. Words(s) = Picked(R, S)
  BY DEF Words, Runs, Firsts
<1>3. \A p \in S : R[p] = RunFrom(s, {Newline, Blank}, p)
  BY <1>1
<1> HIDE DEF S, R
<1>4. Len(Words(s)) = Cardinality(S) /\ Cardinality(S) \in Nat
  BY <1>1, <1>2, PickedLen, Size
<1>5. ASSUME NEW p \in S
      PROVE  /\ Rank(S, p) \in 1..Len(Words(s))
             /\ Words(s)[Rank(S, p)] = RunFrom(s, {Newline, Blank}, p)
  <2>1. S \cap 1..p \in SUBSET S /\ p \in S \cap 1..p
    BY <1>1
  <2>2. IsFiniteSet(S \cap 1..p) /\ Cardinality(S \cap 1..p) \in Nat
        /\ Cardinality(S \cap 1..p) <= Cardinality(S)
    BY <1>1, <2>1, Size
  <2>3. Cardinality(S \cap 1..p) # 0
    BY <2>1, <2>2, FS_EmptySet
  <2>4. Rank(S, p) \in 1..Cardinality(S)
    BY <1>4, <2>2, <2>3 DEF Rank
  <2>5. Nth(S, Rank(S, p)) = p
    BY <1>1, NthIs DEF Rank
  <2>6. Picked(R, S)[Rank(S, p)] = R[Nth(S, Rank(S, p))]
    BY <2>4 DEF Picked
  <2> QED
    BY <1>2, <1>3, <1>4, <2>4, <2>5, <2>6
<1> QED
  BY <1>4, <1>5 DEF S

\* Nothing comes up to place 0.
LEMMA RankNone == ASSUME NEW S PROVE Rank(S, 0) = 0
<1>1. S \cap 1..0 = {}
  OBVIOUS
<1> QED
  BY <1>1, FS_EmptySet DEF Rank

\* The first word of a line.
LEMMA FirstWord ==
    ASSUME NEW s \in Seq(Char), NEW i, NEW e, WordAt(s, i, e),
           Empty(s, 0, i - 1)
    PROVE  i \in Firsts(s) /\ Rank(Firsts(s), i) = 1
<1> DEFINE S == Firsts(s)
<1>1. /\ Len(s) \in Nat /\ i \in 1..Len(s) /\ e \in i + 1..Len(s) + 1
      /\ \A j \in i..e - 1 : ~isspace(s[j])
      /\ i = 1 \/ isspace(s[i - 1])
  BY LenProperties DEF WordAt
<1>2. S \subseteq 1..Len(s)
  BY FirstsAre
<1>3. i \in S
  BY <1>1, FirstsAre
<1>4. \A j \in 1..i - 1 : j \notin S
  <2>1. \A j \in 1..i - 1 : isspace(s[j]) /\ j \in 1..Len(s)
    BY <1>1 DEF Empty
  <2> QED
    BY <2>1, FirstsAre
<1> HIDE DEF S
<1>5. Follows(S, 0, i, i)
  <2>1. \A j \in 0 + 1..i : (j \in 1..i - 1 /\ ~(j >= i)) \/ (j = i /\ j >= i)
    BY <1>1
  <2> QED
    BY <1>3, <1>4, <2>1 DEF Follows
<1>6. Rank(S, i) = Rank(S, 0) + ((i - i) + 1)
  <2>1. 0 \in 0..Len(s) /\ i \in 0 + 1..Len(s) /\ i \in i..Len(s)
    BY <1>1
  <2> QED
    BY <1>1, <1>2, <1>5, <2>1, RankOn
<1>7. (i - i) + 1 = 1
  BY <1>1
<1> QED
  BY <1>3, <1>6, <1>7, RankNone DEF S

\* The word after a word.
LEMMA SecondWord ==
    ASSUME NEW s \in Seq(Char), NEW i, NEW e, WordAt(s, i, e),
           NEW h, NEW d, WordAt(s, h, d), h \in e + 1..Len(s),
           Empty(s, e - 1, h - 1), Rank(Firsts(s), i) = 1
    PROVE  h \in Firsts(s) /\ Rank(Firsts(s), h) = 2
<1> DEFINE S == Firsts(s)
<1>1. /\ Len(s) \in Nat /\ i \in 1..Len(s) /\ e \in i + 1..Len(s) + 1
      /\ h \in e + 1..Len(s) /\ d \in h + 1..Len(s) + 1
      /\ (\A j \in i..e - 1 : ~isspace(s[j]))
      /\ (\A j \in h..d - 1 : ~isspace(s[j]))
      /\ h = 1 \/ isspace(s[h - 1])
  BY LenProperties DEF WordAt
<1>2. S \subseteq 1..Len(s)
  BY FirstsAre
<1>3. h \in S
  <2>1. h \in 1..Len(s) /\ h \in h..d - 1
    BY <1>1
  <2> QED
    BY <1>1, <2>1, FirstsAre
<1>4. \A j \in i + 1..e - 1 : j \notin S
  <2>1. \A j \in i + 1..e - 1 : j \in 1..Len(s) /\ j # 1 /\ ~isspace(s[j - 1])
    <3>1. \A j \in i + 1..e - 1 : j \in 1..Len(s) /\ j # 1 /\ j - 1 \in i..e - 1
      BY <1>1
    <3> QED
      BY <1>1, <3>1
  <2> QED
    BY <2>1, FirstsAre
<1>5. \A j \in e..h - 1 : j \notin S
  <2>1. \A j \in e..h - 1 : j \in (e - 1) + 1..h - 1 /\ j \in 1..Len(s)
    BY <1>1
  <2>2. \A j \in e..h - 1 : isspace(s[j])
    BY <2>1 DEF Empty
  <2> QED
    BY <2>1, <2>2, FirstsAre
<1> HIDE DEF S
<1>6. Follows(S, i, h, h)
  <2>1. \A j \in i + 1..h : (j \in i + 1..e - 1 /\ ~(j >= h))
                            \/ (j \in e..h - 1 /\ ~(j >= h)) \/ (j = h /\ j >= h)
    BY <1>1
  <2> QED
    BY <1>3, <1>4, <1>5, <2>1 DEF Follows
<1>7. Rank(S, h) = Rank(S, i) + ((h - h) + 1)
  <2> DEFINE m == Len(s)
  <2>1. /\ m \in Nat /\ S \subseteq 1..m /\ i \in 0..m
        /\ h \in i + 1..m /\ h \in h..m
    BY <1>1, <1>2
  <2> HIDE DEF m
  <2> QED
    BY <1>6, <2>1, RankOn
<1>8. (h - h) + 1 = 1
  BY <1>1
<1> QED
  BY <1>3, <1>7, <1>8 DEF S

\* A word that nothing follows.
LEMMA LastWord ==
    ASSUME NEW s \in Seq(Char), NEW i, NEW e, WordAt(s, i, e),
           Empty(s, e - 1, Len(s))
    PROVE  Cardinality(Firsts(s)) = Rank(Firsts(s), i)
<1> DEFINE S == Firsts(s)
<1>1. /\ Len(s) \in Nat /\ i \in 1..Len(s) /\ e \in i + 1..Len(s) + 1
      /\ (\A j \in i..e - 1 : ~isspace(s[j]))
  BY LenProperties DEF WordAt
<1>2. S \subseteq 1..Len(s)
  BY FirstsAre
<1>3. ASSUME NEW j \in i + 1..Len(s) PROVE j \notin S
  <2>1. j \in 1..Len(s) /\ j # 1
    BY <1>1
  <2>2. CASE j <= e - 1
    <3>1. j - 1 \in i..e - 1
      BY <1>1, <2>2
    <3> QED
      BY <1>1, <2>1, <3>1, FirstsAre
  <2>3. CASE ~(j <= e - 1)
    <3>1. j \in (e - 1) + 1..Len(s)
      BY <1>1, <2>3
    <3>2. isspace(s[j])
      BY <3>1 DEF Empty
    <3> QED
      BY <2>1, <3>2, FirstsAre
  <2> QED
    BY <2>2, <2>3
<1> HIDE DEF S
<1>4. Rank(S, Len(s)) = Rank(S, i)
  <2>1. Skips(S, i, Len(s)) /\ i \in 0..Len(s) /\ Len(s) \in i..Len(s)
    BY <1>1, <1>3 DEF Skips
  <2> QED
    BY <1>1, <1>2, <2>1, RankStays
<1>5. S \cap 1..Len(s) = S
  BY <1>2
<1> QED
  BY <1>4, <1>5 DEF S, Rank

\* A word by itself.
Plain(v) ==
    v \in Seq(Char) /\ Len(v) # 0 /\ \A j \in 1..Len(v) : ~isspace(v[j])

\* A tidied line with one word, and one that begins with two.
One(J, v) ==
    /\ Plain(v) /\ Len(J) = Len(v)
    /\ \A j \in 1..Len(v) : J[j] = v[j]

Two(J, v, w) ==
    /\ Plain(v) /\ Plain(w)
    /\ (Len(v) + 1) + Len(w) <= Len(J)
    /\ \A j \in 1..Len(v) : J[j] = v[j]
    /\ J[Len(v) + 1] = Blank
    /\ \A j \in 1..Len(w) : J[(Len(v) + 1) + j] = w[j]
    /\ (Len(v) + 1) + Len(w) < Len(J)
         => J[((Len(v) + 1) + Len(w)) + 1] = Blank

\* What a line and the line as it is tidied have in common.
Alike(J, W) ==
    \/ Len(J) = 0 /\ Len(W) = 0
    \/ \E v : One(J, v) /\ Len(W) = 1
    \/ \E v, w : Two(J, v, w) /\ Len(W) >= 2 /\ W[1] = v /\ W[2] = w

\* The tidied line begins with the words of the line: none, one alone, or two.
LEMMA LineAlike ==
    ASSUME NEW s \in Seq(Char)
    PROVE  Alike(Joined(s), Words(s))
<1> DEFINE J == Joined(s)
           W == Words(s)
<1>1. Len(s) \in Nat /\ J \in Seq(Char) /\ Len(J) \in Nat
  BY JoinedText, LenProperties
<1>2. CASE Empty(s, 0, Len(s))
  <2>1. Len(J) = 0
    BY <1>2, NoWordJoined, EmptySeq
  <2>2. Firsts(s) = {}
    <3>1. \A j \in 1..Len(s) : j \notin Firsts(s)
      BY <1>2, FirstsAre DEF Empty
    <3> QED
      BY <3>1, FirstsAre
  <2>3. Len(W) = 0
    BY <2>2, WordsAt, FS_EmptySet
  <2> QED
    BY <2>1, <2>3 DEF Alike
<1>3. CASE ~Empty(s, 0, Len(s))
  <2>a. PICK i \in 0 + 1..Len(s) : \E e \in i + 1..Len(s) + 1 :
               WordAt(s, i, e) /\ Empty(s, 0, i - 1)
    <3>1. 0 \in 0..Len(s)
      BY <1>1
    <3> QED
      BY <1>3, <3>1, NextWord
  <2>1. PICK e \in i + 1..Len(s) + 1 : WordAt(s, i, e) /\ Empty(s, 0, i - 1)
    BY <2>a
  <2> DEFINE v == Chars(s, i, e)
             r == e - i
  <2>2. /\ Plain(v) /\ Len(v) = r /\ r \in Nat \ {0}
        /\ RunFrom(s, {Newline, Blank}, i) = v
        /\ \A j \in 1..r : v[j] = s[(i - 1) + j]
    <3>1. /\ v \in Seq(Char) /\ Len(v) = r /\ r \in Nat \ {0}
          /\ \A j \in 1..r : v[j] = s[(i - 1) + j] /\ ~isspace(v[j])
          /\ RunFrom(s, {Newline, Blank}, i) = v
      BY <2>1, WordIs
    <3> HIDE DEF v, r
    <3> QED
      BY <3>1 DEF Plain
  <2>3. Rank(Kept(s), e - 1) = r
        /\ \A j \in 1..r : j \in 1..Len(J) /\ J[j] = s[(i - 1) + j]
    BY <2>1, FirstJoined
  <2>4. i \in Firsts(s) /\ Rank(Firsts(s), i) = 1
    BY <2>1, FirstWord
  <2> HIDE DEF J, W, v, r
  <2>5. \A j \in 1..Len(v) : J[j] = v[j]
    BY <2>2, <2>3
  <2>6. 1 \in 1..Len(W) /\ W[1] = v
    <3>1. Rank(Firsts(s), i) \in 1..Len(Words(s))
          /\ Words(s)[Rank(Firsts(s), i)] = RunFrom(s, {Newline, Blank}, i)
      BY <2>4, WordsAt
    <3> QED
      BY <2>2, <2>4, <3>1 DEF W
  <2>7. CASE Empty(s, e - 1, Len(s))
    <3>1. Len(J) = r
      BY <2>1, <2>3, <2>7, LastJoined DEF J
    <3>2. Len(W) = 1
      BY <2>1, <2>4, <2>7, LastWord, WordsAt DEF W
    <3>3. One(J, v)
      BY <2>2, <2>5, <3>1 DEF One
    <3> QED
      BY <3>2, <3>3 DEF Alike, J, W
  <2>8. CASE ~Empty(s, e - 1, Len(s))
    <3>1. PICK h \in e + 1..Len(s) : \E d \in h + 1..Len(s) + 1 :
                 WordAt(s, h, d) /\ Empty(s, e - 1, h - 1)
      BY <2>1, <2>8, AfterWord
    <3>2. PICK d \in h + 1..Len(s) + 1 :
                 WordAt(s, h, d) /\ Empty(s, e - 1, h - 1)
      BY <3>1
    <3> DEFINE w == Chars(s, h, d)
               q == d - h
    <3>3. /\ Plain(w) /\ Len(w) = q /\ q \in Nat \ {0}
          /\ RunFrom(s, {Newline, Blank}, h) = w
          /\ \A j \in 1..q : w[j] = s[(h - 1) + j]
      <4>1. /\ w \in Seq(Char) /\ Len(w) = q /\ q \in Nat \ {0}
            /\ \A j \in 1..q : w[j] = s[(h - 1) + j] /\ ~isspace(w[j])
            /\ RunFrom(s, {Newline, Blank}, h) = w
        BY <3>2, WordIs
      <4> HIDE DEF w, q
      <4> QED
        BY <4>1 DEF Plain
    <3>4. /\ Rank(Kept(s), d - 1) = (r + 1) + q
          /\ r + 1 \in 1..Len(J) /\ J[r + 1] = Blank
          /\ \A j \in 1..q : /\ (r + 1) + j \in 1..Len(J)
                             /\ J[(r + 1) + j] = s[(h - 1) + j]
      <4>1. r \in Nat /\ r = Rank(Kept(s), e - 1)
        BY <2>2, <2>3
      <4>2. WordAt(s, i, e) /\ WordAt(s, h, d) /\ Empty(s, e - 1, h - 1)
        BY <2>1, <3>2
      <4>3. Continues(s, r, h, d)
        BY <3>1, <4>1, <4>2, NextJoined
      <4> QED
        BY <4>3 DEF J, q, Continues
    <3>5. h \in Firsts(s) /\ Rank(Firsts(s), h) = 2
      BY <2>1, <2>4, <3>1, <3>2, SecondWord
    <3> HIDE DEF w, q
    <3>6. 2 \in 1..Len(W) /\ W[2] = w
      <4>1. Rank(Firsts(s), h) \in 1..Len(Words(s))
            /\ Words(s)[Rank(Firsts(s), h)] = RunFrom(s, {Newline, Blank}, h)
        BY <3>5, WordsAt
      <4> QED
        BY <3>3, <3>5, <4>1 DEF W
    <3>7. (r + 1) + q <= Len(J)
      <4>1. q \in 1..q
        BY <3>3
      <4>2. (r + 1) + q \in 1..Len(J)
        BY <3>4, <4>1
      <4> QED
        BY <4>2
    <3>8. (r + 1) + q < Len(J) => J[((r + 1) + q) + 1] = Blank
      <4>1. (r + 1) + q \in Nat
        BY <2>2, <3>3
      <4> QED
        BY <3>2, <3>4, <4>1, BlankAfter DEF J
    <3>9. \A j \in 1..Len(w) : J[(r + 1) + j] = w[j]
      BY <3>3, <3>4
    <3>10. Two(J, v, w)
      BY <2>2, <2>5, <3>3, <3>4, <3>7, <3>8, <3>9 DEF Two
    <3>11. Len(W) >= 2
      BY <3>6, WordsAt DEF W
    <3> QED
      BY <2>6, <3>6, <3>10, <3>11 DEF Alike, J, W
  <2> QED
    BY <2>7, <2>8
<1> QED
  BY <1>2, <1>3

-----------------------------------------------------------------------------
(* strtol, and the entry of a user *)

\* White space comes before place a of x, and digits from there to place b.
Numeral(x, a, b) ==
    /\ a \in 1..Len(x) + 1 /\ b \in a..Len(x) + 1
    /\ \A j \in 1..a - 1 : isspace(x[j])
    /\ a <= Len(x) => ~isspace(x[a])
    /\ \A j \in a..b - 1 : x[j] \in DOMAIN Digits
    /\ b <= Len(x) => x[b] \notin DOMAIN Digits

\* strtol of a text with white space up to place a and digits up to place b.
LEMMA StrtolIs ==
    ASSUME NEW x \in Seq(Char), NEW a, NEW b, Numeral(x, a, b)
    PROVE  Strtol(x) = [malformed |-> b = a, value |-> Value(SubSeq(x, a, b - 1))]
<1> DEFINE n == Len(x)
           A == {i \in 1..n : ~isspace(x[i])} \cup {n + 1}
<1>1. /\ n \in Nat /\ a \in 1..n + 1 /\ b \in a..n + 1
      /\ (\A j \in 1..a - 1 : isspace(x[j]))
      /\ a <= n => ~isspace(x[a])
      /\ (\A j \in a..b - 1 : x[j] \in DOMAIN Digits)
      /\ b <= n => x[b] \notin DOMAIN Digits
  BY LenProperties DEF Numeral
<1>2. Min(A) = a
  <2>1. A \subseteq Nat /\ a \in A
    BY <1>1
  <2>2. \A i \in A : a <= i
    <3>1. \A i \in 1..n : i < a => i \in 1..a - 1
      BY <1>1
    <3>2. \A i \in A : ~(i < a)
      BY <1>1, <3>1
    <3> QED
      BY <2>1, <3>2
  <2> HIDE DEF A
  <2>3. Min(A) \in A /\ Min(A) <= a
    BY <2>1, MinIsLeast
  <2>4. a <= Min(A)
    BY <2>2, <2>3
  <2>5. Min(A) \in Nat /\ a \in Nat
    BY <2>1, <2>3
  <2> QED
    BY <2>3, <2>4, <2>5
<1> DEFINE B == {i \in a..n : x[i] \notin DOMAIN Digits} \cup {n + 1}
<1>3. Min(B) = b
  <2>1. B \subseteq Nat /\ b \in B
    BY <1>1
  <2>2. \A i \in B : b <= i
    <3>1. \A i \in a..n : i < b => i \in a..b - 1
      BY <1>1
    <3>2. \A i \in B : ~(i < b)
      BY <1>1, <3>1
    <3> QED
      BY <2>1, <3>2
  <2> HIDE DEF B
  <2>3. Min(B) \in B /\ Min(B) <= b
    BY <2>1, MinIsLeast
  <2>4. b <= Min(B)
    BY <2>2, <2>3
  <2>5. Min(B) \in Nat /\ b \in Nat
    BY <2>1, <2>3
  <2> QED
    BY <2>3, <2>4, <2>5
<1>4. Strtol(x) =
        LET start == Min(A)
            stop == Min({i \in start..n : x[i] \notin DOMAIN Digits} \cup {n + 1})
        IN [malformed |-> stop = start,
            value |-> Value(SubSeq(x, start, stop - 1))]
  BY DEF Strtol
<1> HIDE DEF A
<1>5. Strtol(x) = [malformed |-> Min(B) = a,
                   value |-> Value(SubSeq(x, a, Min(B) - 1))]
  BY <1>2, <1>4
<1> HIDE DEF B
<1> QED
  BY <1>3, <1>5

\* Where the digits at the beginning of a text end.
LEMMA DigitsEnd ==
    ASSUME NEW x \in Seq(Char)
    PROVE  \E b \in 1..Len(x) + 1 :
              /\ \A j \in 1..b - 1 : x[j] \in DOMAIN Digits
              /\ b <= Len(x) => x[b] \notin DOMAIN Digits
<1> DEFINE n == Len(x)
           B == {i \in 1..n : x[i] \notin DOMAIN Digits} \cup {n + 1}
<1>1. n \in Nat
  BY LenProperties
<1>2. PICK b \in B : \A i \in B : b <= i
  <2>1. B # {} /\ B \subseteq Nat
    BY <1>1
  <2> HIDE DEF B
  <2> QED
    BY <2>1, LeastElement
<1>3. b \in 1..n + 1 /\ (b <= n => x[b] \notin DOMAIN Digits)
  BY <1>1, <1>2
<1>4. ASSUME NEW j \in 1..b - 1 PROVE x[j] \in DOMAIN Digits
  <2>1. j \in 1..n /\ ~(b <= j)
    BY <1>1, <1>3
  <2> QED
    BY <1>2, <2>1
<1> QED
  BY <1>3, <1>4

\* strtol takes a word at once.
LEMMA StrtolWord ==
    ASSUME NEW w, Plain(w), NEW b \in 1..Len(w) + 1,
           \A j \in 1..b - 1 : w[j] \in DOMAIN Digits,
           b <= Len(w) => w[b] \notin DOMAIN Digits
    PROVE  Strtol(w) = [malformed |-> b = 1, value |-> Value(SubSeq(w, 1, b - 1))]
<1>1. w \in Seq(Char) /\ Len(w) \in Nat /\ Len(w) # 0
      /\ ~isspace(w[1])
  <2>1. w \in Seq(Char) /\ Len(w) \in Nat /\ Len(w) # 0
    BY LenProperties DEF Plain
  <2>2. 1 \in 1..Len(w)
    BY <2>1
  <2> QED
    BY <2>1, <2>2 DEF Plain
<1>2. 1 \in 1..Len(w) + 1 /\ \A j \in 1..1 - 1 : isspace(w[j])
  BY <1>1
<1>3. Numeral(w, 1, b)
  BY <1>1, <1>2 DEF Numeral
<1> QED
  BY <1>1, <1>3, StrtolIs

\* And it takes the second word behind the first one and the blank.
LEMMA StrtolBehind ==
    ASSUME NEW J \in Seq(Char), NEW v, NEW w, Two(J, v, w)
    PROVE  /\ Strtol(Drop(J, Len(v))) = Strtol(w)
           /\ ~Strtol(w).malformed <=> w[1] \in DOMAIN Digits
<1> DEFINE l == Len(v)
           q == Len(w)
           D == Drop(J, l)
<1>1. /\ w \in Seq(Char) /\ l \in Nat /\ q \in Nat \ {0} /\ Len(J) \in Nat
      /\ (l + 1) + q <= Len(J)
      /\ J[l + 1] = Blank
      /\ (\A j \in 1..q : J[(l + 1) + j] = w[j] /\ ~isspace(w[j]))
      /\ (l + 1) + q < Len(J) => J[((l + 1) + q) + 1] = Blank
  BY LenProperties DEF Two, Plain
<1>2. PICK b \in 1..q + 1 : /\ \A j \in 1..b - 1 : w[j] \in DOMAIN Digits
                            /\ b <= q => w[b] \notin DOMAIN Digits
  BY <1>1, DigitsEnd
<1>3. Strtol(w) = [malformed |-> b = 1, value |-> Value(SubSeq(w, 1, b - 1))]
  BY <1>2, StrtolWord DEF Two
<1>4. D \in Seq(Char) /\ Len(D) = Len(J) - l
      /\ \A i \in 1..Len(J) - l : D[i] = J[l + i]
  <2>1. l \in 0..Len(J)
    BY <1>1
  <2> QED
    BY <2>1, OtherChars
<1> HIDE DEF l, q, D
<1>5. D[1] = Blank
  <2>1. 1 \in 1..Len(J) - l
    BY <1>1
  <2> QED
    BY <1>1, <1>4, <2>1
<1>6. ASSUME NEW j \in 1..q PROVE D[j + 1] = w[j]
  <2>1. j + 1 \in 1..Len(J) - l /\ l + (j + 1) = (l + 1) + j
    BY <1>1
  <2> QED
    BY <1>1, <1>4, <2>1
<1>7. q + 2 <= Len(D) => D[q + 2] = Blank
  <2> SUFFICES ASSUME q + 2 <= Len(D) PROVE D[q + 2] = Blank
    OBVIOUS
  <2>1. /\ q + 2 \in 1..Len(J) - l /\ l + (q + 2) = ((l + 1) + q) + 1
        /\ (l + 1) + q < Len(J)
    BY <1>1, <1>4
  <2> QED
    BY <1>1, <1>4, <2>1
<1>8. Blank \notin DOMAIN Digits /\ isspace(Blank)
  BY LinesConstants DEF isspace
<1>9. Strtol(D) = [malformed |-> b + 1 = 2, value |-> Value(SubSeq(D, 2, (b + 1) - 1))]
  <2>1. 2 \in 1..Len(D) + 1 /\ b + 1 \in 2..Len(D) + 1
    BY <1>1, <1>4, SMTT(30)
  <2>2. \A j \in 1..2 - 1 : isspace(D[j])
    <3>1. \A j \in 1..2 - 1 : j = 1
      OBVIOUS
    <3> QED
      BY <1>5, <1>8, <3>1
  <2>3. ~isspace(D[2])
    <3>1. 1 \in 1..q /\ 1 + 1 = 2
      BY <1>1
    <3> QED
      BY <1>1, <1>6, <3>1
  <2>4. ASSUME NEW j \in 2..(b + 1) - 1 PROVE D[j] \in DOMAIN Digits
    <3>1. j - 1 \in 1..q /\ j - 1 \in 1..b - 1 /\ (j - 1) + 1 = j
      BY <1>1
    <3> QED
      BY <1>2, <1>6, <3>1
  <2>5. ASSUME b + 1 <= Len(D) PROVE D[b + 1] \notin DOMAIN Digits
    <3>1. CASE b <= q
      BY <1>2, <1>6, <3>1
    <3>2. CASE ~(b <= q)
      <4>1. b + 1 = q + 2
        BY <1>1, <3>2
      <4> QED
        BY <1>7, <1>8, <2>5, <4>1
    <3> QED
      BY <3>1, <3>2
  <2>6. Numeral(D, 2, b + 1)
    BY <2>1, <2>2, <2>3, <2>4, <2>5 DEF Numeral
  <2> QED
    BY <1>4, <2>6, StrtolIs
<1>10. SubSeq(D, 2, (b + 1) - 1) = SubSeq(w, 1, b - 1)
  <2> DEFINE x == SubSeq(D, 2, (b + 1) - 1)
             y == SubSeq(w, 1, b - 1)
  <2>1. /\ 2 \in 1..Len(D) /\ b + 1 \in 2..Len(D) + 1
        /\ 1 \in 1..Len(w) /\ b \in 1..Len(w) + 1
    BY <1>1, <1>4 DEF q
  <2>2. /\ x \in Seq(Char) /\ Len(x) = (b + 1) - 2
        /\ \A h \in 1..(b + 1) - 2 : x[h] = D[(2 - 1) + h]
    BY <1>4, <2>1, CharsFrom
  <2>3. /\ y \in Seq(Char) /\ Len(y) = b - 1
        /\ \A h \in 1..b - 1 : y[h] = w[(1 - 1) + h]
    BY <1>1, <2>1, CharsFrom
  <2> HIDE DEF x, y
  <2>4. Len(x) = Len(y)
    BY <2>2, <2>3
  <2>5. ASSUME NEW h \in 1..Len(x) PROVE x[h] = y[h]
    <3>1. /\ h \in 1..(b + 1) - 2 /\ h \in 1..b - 1 /\ h \in 1..q
          /\ (2 - 1) + h = h + 1 /\ (1 - 1) + h = h
      BY <1>1, <2>2
    <3> QED
      BY <1>6, <2>2, <2>3, <3>1
  <2>6. x = y
    BY <2>2, <2>3, <2>4, <2>5, SeqEqual
  <2> QED
    BY <2>6 DEF x, y
<1>11. Strtol(D) = Strtol(w)
  <2>1. (b + 1 = 2) = (b = 1)
    OBVIOUS
  <2> QED
    BY <1>3, <1>9, <1>10, <2>1, Zenon
<1>12. ~Strtol(w).malformed <=> w[1] \in DOMAIN Digits
  <2>1. Strtol(w).malformed = (b = 1)
    BY <1>3
  <2>2. b = 1 => w[1] \notin DOMAIN Digits
    BY <1>1, <1>2
  <2>3. b # 1 => 1 \in 1..b - 1
    OBVIOUS
  <2> QED
    BY <1>2, <2>1, <2>2, <2>3
<1> QED
  BY <1>11, <1>12 DEF D, l

\* The name in Names ends where the first word does.
LEMMA NameTwo ==
    ASSUME NEW J \in Seq(Char), NEW v, NEW w, Two(J, v, w), NEW name, Plain(name)
    PROVE  Names(J, name) <=> name = v
<1> DEFINE l == Len(v)
           k == Len(name)
<1>1. /\ v \in Seq(Char) /\ name \in Seq(Char) /\ l \in Nat /\ k \in Nat
      /\ Len(J) \in Nat /\ Len(w) \in Nat /\ (l + 1) + Len(w) <= Len(J)
      /\ (\A j \in 1..l : J[j] = v[j] /\ ~isspace(v[j]))
      /\ (\A j \in 1..k : ~isspace(name[j]))
      /\ J[l + 1] = Blank
  BY LenProperties DEF Two, Plain
<1>2. isspace(Blank)
  BY DEF isspace
<1>3. Names(J, name) <=> /\ k < Len(J) /\ \A j \in 1..k : name[j] = J[j]
                         /\ isspace(J[k + 1])
  <2>1. IsPrefix(name, J) <=> k <= Len(J) /\ \A j \in 1..k : name[j] = J[j]
    <3>1. name \in Seq(Char) /\ J \in Seq(Char)
      BY <1>1
    <3> QED
      BY <3>1, PrefixIs
  <2>2. k < Len(J) => k <= Len(J)
    BY <1>1
  <2> QED
    BY <2>1, <2>2 DEF Names
<1> HIDE DEF l, k
<1>4. ASSUME Names(J, name) PROVE name = v
  <2>1. ~(k < l)
    <3> SUFFICES ASSUME k < l PROVE FALSE
      OBVIOUS
    <3>1. k + 1 \in 1..l
      BY <1>1
    <3> QED
      BY <1>1, <1>3, <1>4, <3>1
  <2>2. ~(l < k)
    <3> SUFFICES ASSUME l < k PROVE FALSE
      OBVIOUS
    <3>1. l + 1 \in 1..k
      BY <1>1
    <3> QED
      BY <1>1, <1>2, <1>3, <1>4, <3>1
  <2>3. k = l
    BY <1>1, <2>1, <2>2
  <2>4. \A j \in 1..k : name[j] = v[j]
    BY <1>1, <1>3, <1>4, <2>3
  <2> QED
    BY <1>1, <2>3, <2>4, SeqEqual DEF k, l
<1>5. ASSUME name = v PROVE Names(J, name)
  <2>1. k = l /\ k < Len(J)
    BY <1>1, <1>5 DEF k, l
  <2> QED
    BY <1>1, <1>2, <1>3, <1>5, <2>1
<1> QED
  BY <1>4, <1>5

\* A line of one word names nobody, nor does an empty one.
LEMMA NameOne ==
    ASSUME NEW J \in Seq(Char), NEW name \in Seq(Char),
           Len(J) = 0 \/ \E v : One(J, v)
    PROVE  ~Names(J, name)
<1>1. Len(J) \in Nat /\ Len(name) \in Nat
  BY LenProperties
<1> SUFFICES ASSUME Names(J, name) PROVE FALSE
  OBVIOUS
<1>2. Len(name) < Len(J) /\ isspace(J[Len(name) + 1])
  BY DEF Names
<1>3. PICK v : One(J, v)
  BY <1>1, <1>2
<1>4. Len(name) + 1 \in 1..Len(v)
  BY <1>1, <1>2, <1>3 DEF One
<1> QED
  BY <1>2, <1>3, <1>4 DEF One, Plain

\* So what the loop takes for the entry of a user in the tidied line is an
\* entry in the line, and the number is the same.
LEMMA Matches ==
    ASSUME NEW s \in Seq(Char), NEW name, Plain(name)
    PROVE  /\ Hit(Joined(s), name) <=> Entry(s, name)
           /\ Entry(s, name) => NumberIn(Joined(s), name).value
                                    = Strtol(Words(s)[2]).value
<1> DEFINE J == Joined(s)
           W == Words(s)
<1>1. J \in Seq(Char) /\ name \in Seq(Char)
  BY JoinedText DEF Plain
<1>2. Alike(J, W)
  BY LineAlike
<1> HIDE DEF J, W
<1>3. CASE (Len(J) = 0 /\ Len(W) = 0) \/ \E v : One(J, v) /\ Len(W) = 1
  <2>1. ~Names(J, name)
    BY <1>1, <1>3, NameOne
  <2>2. ~(Len(W) >= 2)
    <3>1. Len(W) = 0 \/ Len(W) = 1
      BY <1>3
    <3>2. ~(0 >= 2) /\ ~(1 >= 2)
      OBVIOUS
    <3> QED
      BY <3>1, <3>2, Zenon
  <2> QED
    BY <2>1, <2>2 DEF Hit, Entry, J, W
<1>4. CASE \E v, w : Two(J, v, w) /\ Len(W) >= 2 /\ W[1] = v /\ W[2] = w
  <2>1. PICK v, w : Two(J, v, w) /\ Len(W) >= 2 /\ W[1] = v /\ W[2] = w
    BY <1>4
  <2>2. Names(J, name) <=> name = v
    BY <1>1, <2>1, NameTwo
  <2>3. /\ Strtol(Drop(J, Len(v))) = Strtol(w)
        /\ ~Strtol(w).malformed <=> w[1] \in DOMAIN Digits
    BY <1>1, <2>1, StrtolBehind
  <2>4. name = v => NumberIn(J, name) = Strtol(w)
    BY <2>3 DEF NumberIn
  <2>5. Hit(J, name) <=> name = v /\ w[1] \in DOMAIN Digits
    BY <2>2, <2>3, <2>4 DEF Hit
  <2>6. Entry(s, name) <=> v = name /\ w[1] \in DOMAIN Digits
    BY <2>1 DEF Entry, W
  <2> QED
    BY <2>1, <2>4, <2>5, <2>6 DEF J, W
<1> QED
  BY <1>2, <1>3, <1>4 DEF Alike

\* A line with no characters is no entry.
LEMMA NoEntry ==
    ASSUME NEW name, Plain(name) PROVE ~Hit(<<>>, name)
<1>1. <<>> \in Seq(Char) /\ Len(<<>>) = 0
  BY EmptySeq
<1>2. ~Names(<<>>, name)
  BY <1>1, NameOne DEF Plain
<1> QED
  BY <1>2 DEF Hit

-----------------------------------------------------------------------------
(* The search in users.txt: what it finds *)

\* Where the entries of a name begin.
EntriesOf(t, name) ==
    {i \in Begins(t, {Newline}) : Entry(RunFrom(t, {Newline}, i), name)}

\* What the first of these places says, if there is one behind place c.
SaidBehind(t, name, c) ==
    LET H == EntriesOf(t, name) \cap c + 1..Len(t) IN
    IF H = {} THEN "AUTH_UN"
    ELSE Verdict(Strtol(Words(RunFrom(t, {Newline}, Min(H)))[2]).value)

\* Lines begin at places of the text, and entries at beginnings of lines.
LEMMA BeginsWithin ==
    ASSUME NEW t, NEW name
    PROVE  Begins(t, {Newline}) \subseteq 1..Len(t)
           /\ EntriesOf(t, name) \subseteq Begins(t, {Newline})
BY DEF Begins, EntriesOf

\* One turn of the loop, from the beginning of a line: it decides by this
\* line, or all that is to be found is behind it.
LEMMA LineDecides ==
    ASSUME NEW t \in Seq(Char), Fit(t, MAX_UTXT_LINEBUF_LEN),
           NEW name, Plain(name), NEW c \in 0..Len(t), c < Len(t),
           c = 0 \/ t[c] = Newline, NEW d, d = c + Len(PieceAt(t, c))
    PROVE  /\ d \in c + 1..Len(t) /\ (d = Len(t) \/ t[d] = Newline)
           /\ IF Hit(BufferAt(t, c), name)
              THEN SaidBehind(t, name, c)
                       = Verdict(NumberIn(BufferAt(t, c), name).value)
              ELSE SaidBehind(t, name, c) = SaidBehind(t, name, d)
<1> DEFINE out == PieceAt(t, c)
           u == Drop(t, c)
           E == EntriesOf(t, name)
           B == Begins(t, {Newline})
           run == RunFrom(t, {Newline}, c + 1)
<1>1. /\ Piece(u, out, MAX_UTXT_LINEBUF_LEN) /\ d \in c + 1..Len(t)
      /\ u \in Seq(Char) /\ Len(u) = Len(t) - c
      /\ \A i \in 1..Len(u) : u[i] = t[c + i]
  BY PieceTaken, OtherChars
<1>2. out \in Seq(Char) /\ c \in Nat /\ Len(t) \in Nat
      /\ MAX_UTXT_LINEBUF_LEN \in Nat \ {0, 1}
  BY <1>1, LenProperties, LinesConstants DEF Piece
<1>3. LineRead(t, c, out, MAX_UTXT_LINEBUF_LEN)
  <2> HIDE DEF out, u
  <2> QED
    BY <1>1, <1>2, ReadWhole
<1>4. BufferAt(t, c) = Joined(out)
  BY <1>2, SanitisedIsJoined DEF BufferAt
<1>5. d = Len(t) \/ t[d] = Newline
  BY <1>3 DEF LineRead
<1>6. \A i \in B : i \in c + 1..d => i = c + 1
  BY <1>3 DEF LineRead
<1>7. c + 1 \in B => run \in Seq(Char) /\ BufferAt(t, c) = Joined(run)
  BY <1>3, <1>4 DEF LineRead
<1>8. c + 1 \notin B => BufferAt(t, c) = <<>>
  BY <1>3, <1>4 DEF LineRead
<1>9. E \subseteq B /\ B \subseteq 1..Len(t)
  BY BeginsWithin
<1>10. c + 1 \in B => (c + 1 \in E <=> Entry(run, name))
  BY DEF EntriesOf
<1> HIDE DEF out, u, E, B, run
<1>11. CASE Hit(BufferAt(t, c), name)
  <2>1. c + 1 \in B
    BY <1>8, <1>11, NoEntry
  <2>2. Entry(run, name)
    BY <1>7, <1>11, <2>1, Matches
  <2>3. NumberIn(BufferAt(t, c), name).value = Strtol(Words(run)[2]).value
    BY <1>7, <2>1, <2>2, Matches
  <2> DEFINE H == E \cap c + 1..Len(t)
  <2>4. c + 1 \in H
    BY <1>2, <1>9, <1>10, <2>1, <2>2
  <2>5. Min(H) = c + 1
    <3>1. H \subseteq Nat /\ \A i \in H : c + 1 <= i
      BY <1>2
    <3> HIDE DEF H
    <3>2. Min(H) \in H /\ Min(H) <= c + 1
      BY <2>4, <3>1, MinIsLeast
    <3>3. Min(H) \in Nat /\ c + 1 <= Min(H)
      BY <3>1, <3>2
    <3> QED
      BY <1>2, <3>2, <3>3
  <2> HIDE DEF H
  <2>6. SaidBehind(t, name, c) = Verdict(Strtol(Words(run)[2]).value)
    BY <2>4, <2>5 DEF SaidBehind, H, E, run
  <2> QED
    BY <1>1, <1>5, <1>11, <2>3, <2>6
<1>12. CASE ~Hit(BufferAt(t, c), name)
  <2>1. c + 1 \notin E
    BY <1>7, <1>9, <1>10, <1>12, Matches
  <2>2. E \cap c + 1..Len(t) = E \cap d + 1..Len(t)
    <3>1. ASSUME NEW i \in E
          PROVE  i \in c + 1..Len(t) <=> i \in d + 1..Len(t)
      <4>1. i \in 1..Len(t) /\ i \notin c + 1..d
        BY <1>6, <1>9, <2>1
      <4> QED
        BY <1>1, <1>2, <4>1
    <3> QED
      BY <3>1
  <2>3. SaidBehind(t, name, c) = SaidBehind(t, name, d)
    BY <2>2 DEF SaidBehind, E
  <2> QED
    BY <1>1, <1>5, <1>12, <2>3
<1> QED
  BY <1>11, <1>12

\* From the beginning of each line the loop answers what the first entry says
\* from there on.
LEMMA SearchedIs ==
    ASSUME NEW t \in Seq(Char), Fit(t, MAX_UTXT_LINEBUF_LEN),
           NEW name, Plain(name), NEW f, Searched(f, name, t)
    PROVE  f[0] = SaidBehind(t, name, 0)
<1> DEFINE n == Len(t)
           Right(c) == c = n \/ c = 0 \/ t[c] = Newline
                         => f[c] = SaidBehind(t, name, c)
           Bad == {k \in 0..n : ~Right(n - k)}
<1>1. n \in Nat
  BY LenProperties
<1>2. \A c \in 0..n :
         f[c] = IF Drop(t, c) = <<>> THEN "AUTH_UN"
                ELSE IF Hit(BufferAt(t, c), name)
                THEN Verdict(NumberIn(BufferAt(t, c), name).value)
                ELSE f[c + Len(PieceAt(t, c))]
  BY DEF Searched
<1>3. Right(n)
  <2>1. Drop(t, n) = <<>>
    <3>1. n \in 0..n
      BY <1>1
    <3> QED
      BY <3>1, PieceTaken
  <2>2. f[n] = "AUTH_UN"
    BY <1>1, <1>2, <2>1
  <2>3. SaidBehind(t, name, n) = "AUTH_UN"
    <3>1. EntriesOf(t, name) \cap n + 1..n = {}
      BY <1>1
    <3> QED
      BY <3>1 DEF SaidBehind
  <2> QED
    BY <2>2, <2>3
<1>4. ASSUME NEW c \in 0..n, c # n, \A d \in c + 1..n : Right(d)
      PROVE  Right(c)
  <2> SUFFICES ASSUME c = 0 \/ t[c] = Newline
               PROVE  f[c] = SaidBehind(t, name, c)
    BY <1>4
  <2> DEFINE d == c + Len(PieceAt(t, c))
  <2>1. c < n /\ Drop(t, c) # <<>>
    <3>1. c < n
      BY <1>1, <1>4
    <3> QED
      BY <1>4, <3>1, PieceTaken
  <2>2. /\ d \in c + 1..n /\ (d = n \/ t[d] = Newline)
        /\ IF Hit(BufferAt(t, c), name)
           THEN SaidBehind(t, name, c)
                    = Verdict(NumberIn(BufferAt(t, c), name).value)
           ELSE SaidBehind(t, name, c) = SaidBehind(t, name, d)
    BY <2>1, LineDecides
  <2>3. f[d] = SaidBehind(t, name, d)
    BY <1>4, <2>2
  <2>4. f[c] = IF Hit(BufferAt(t, c), name)
               THEN Verdict(NumberIn(BufferAt(t, c), name).value)
               ELSE f[d]
    BY <1>2, <2>1
  <2> HIDE DEF d
  <2> QED
    BY <2>2, <2>3, <2>4
<1> HIDE DEF Right
<1>5. Bad = {}
  <2> SUFFICES ASSUME Bad # {} PROVE FALSE
    OBVIOUS
  <2>1. PICK k \in Bad : \A j \in Bad : k <= j
    <3>1. Bad \subseteq Nat
      OBVIOUS
    <3> HIDE DEF Bad
    <3> QED
      BY <3>1, LeastElement
  <2>2. k \in 0..n /\ ~Right(n - k)
    BY <2>1
  <2>3. k # 0
    <3>1. n - 0 = n
      BY <1>1
    <3> QED
      BY <1>3, <2>2, <3>1
  <2>4. n - k \in 0..n /\ n - k # n
    BY <1>1, <2>2, <2>3
  <2>5. ASSUME NEW d \in (n - k) + 1..n PROVE Right(d)
    <3>1. n - d \in 0..n /\ ~(k <= n - d) /\ n - (n - d) = d
      BY <1>1, <2>2
    <3>2. n - d \notin Bad
      BY <2>1, <3>1
    <3> QED
      BY <3>1, <3>2
  <2> QED
    BY <1>4, <2>2, <2>4, <2>5
<1>6. Right(n - n) /\ n - n = 0
  <2>1. n \in 0..n /\ n - n = 0
    BY <1>1
  <2> QED
    BY <1>5, <2>1
<1> QED
  BY <1>6 DEF Right

\* The answer for a name, by the numbers of the lines.
LEMMA BalanceIs ==
    ASSUME NEW t \in Seq(Char), Fit(t, MAX_UTXT_LINEBUF_LEN),
           NEW name, Plain(name), NEW lines, lines = Runs(t, {Newline}),
           NEW hits, hits = {n \in DOMAIN lines : Entry(lines[n], name)}
    PROVE  usertxt_get_balance(name, t)
               = IF hits = {} THEN "AUTH_UN"
                 ELSE Verdict(Strtol(Words(lines[Min(hits)])[2]).value)
<1> DEFINE B == Begins(t, {Newline})
           R == [i \in 1..Len(t) |-> RunFrom(t, {Newline}, i)]
           H == EntriesOf(t, name)
<1>1. B \subseteq 1..Len(t) /\ H \subseteq B /\ Len(t) \in Nat
  BY BeginsWithin, LenProperties
<1>2. usertxt_get_balance(name, t) = SaidBehind(t, name, 0)
  BY SearchIs, SearchedIs
<1>3. SaidBehind(t, name, 0)
         = IF H = {} THEN "AUTH_UN"
           ELSE Verdict(Strtol(Words(RunFrom(t, {Newline}, Min(H)))[2]).value)
  <2>1. H \cap 0 + 1..Len(t) = H
    <3>1. 0 + 1..Len(t) = 1..Len(t)
      OBVIOUS
    <3> HIDE DEF H, B
    <3> QED
      BY <1>1, <3>1
  <2> QED
    BY <2>1 DEF SaidBehind
<1>4. \A i \in B : R[i] = RunFrom(t, {Newline}, i)
  BY <1>1
<1>5. \A i \in B : i \in H <=> Entry(R[i], name)
  BY <1>4 DEF EntriesOf
<1>6. lines = Picked(R, B)
  BY DEF Runs
<1> HIDE DEF B, R, H
<1>7. DOMAIN lines = 1..Cardinality(B)
      /\ \A m \in 1..Cardinality(B) : lines[m] = R[Nth(B, m)]
  BY <1>6 DEF Picked
<1>8. ASSUME NEW m \in hits
      PROVE  m \in 1..Cardinality(B) /\ Nth(B, m) \in H
             /\ Cardinality(B \cap 1..Nth(B, m)) = m
  <2>1. m \in 1..Cardinality(B) /\ Entry(lines[m], name)
    BY <1>7
  <2>2. Nth(B, m) \in B /\ Cardinality(B \cap 1..Nth(B, m)) = m
    BY <1>1, <2>1, NthMember
  <2> QED
    BY <1>5, <1>7, <2>1, <2>2
<1>9. ASSUME NEW h \in H
      PROVE  /\ Rank(B, h) \in hits /\ lines[Rank(B, h)] = R[h]
  <2>1. /\ IsFiniteSet(B \cap 1..h) /\ Cardinality(B \cap 1..h) \in Nat
        /\ Cardinality(B \cap 1..h) <= Cardinality(B)
        /\ Cardinality(B) \in Nat
    BY <1>1, Size
  <2>2. Cardinality(B \cap 1..h) # 0
    <3>1. h \in B \cap 1..h
      BY <1>1
    <3> QED
      BY <2>1, <3>1, FS_EmptySet
  <2>3. Rank(B, h) \in 1..Cardinality(B)
    BY <2>1, <2>2 DEF Rank
  <2>4. Nth(B, Rank(B, h)) = h
    BY <1>1, NthIs DEF Rank
  <2>5. lines[Rank(B, h)] = R[h]
    BY <1>7, <2>3, <2>4
  <2> QED
    BY <1>1, <1>5, <1>7, <2>3, <2>5
<1>10. CASE H = {}
  <2>1. hits = {}
    BY <1>8, <1>10
  <2> QED
    BY <1>2, <1>3, <1>10, <2>1
<1>11. CASE H # {}
  <2> DEFINE h == Min(H)
  <2>1. h \in H /\ \A i \in H : h <= i
    <3>1. H \subseteq Nat
      BY <1>1
    <3> QED
      BY <1>11, <3>1, MinIsLeast
  <2> HIDE DEF h
  <2>2. Rank(B, h) \in hits /\ lines[Rank(B, h)] = R[h]
    BY <1>9, <2>1
  <2>3. ASSUME NEW m \in hits PROVE Rank(B, h) <= m
    <3>1. /\ Nth(B, m) \in H /\ Cardinality(B \cap 1..Nth(B, m)) = m
      BY <1>8
    <3>2. h <= Nth(B, m) /\ h \in Nat /\ Nth(B, m) \in Nat
      <4>1. \A i \in H : i \in Nat
        BY <1>1
      <4> QED
        BY <2>1, <3>1, <4>1
    <3>3. B \cap 1..h \in SUBSET (B \cap 1..Nth(B, m))
      BY <3>2
    <3>4. Cardinality(B \cap 1..h) <= Cardinality(B \cap 1..Nth(B, m))
      <4>1. B \cap 1..Nth(B, m) \subseteq 1..Len(t)
        BY <1>1
      <4> QED
        BY <1>1, <3>3, <4>1, Size
    <3> QED
      BY <3>1, <3>4 DEF Rank
  <2>4. Min(hits) = Rank(B, h)
    <3>1. hits \subseteq Nat
      BY <1>8
    <3>2. Min(hits) \in hits /\ Min(hits) <= Rank(B, h)
      BY <2>2, <3>1, MinIsLeast
    <3>3. Rank(B, h) <= Min(hits)
      BY <2>3, <3>2
    <3>4. Min(hits) \in Nat /\ Rank(B, h) \in Nat
      BY <2>2, <3>1, <3>2
    <3> QED
      BY <3>2, <3>3, <3>4
  <2>5. R[h] = RunFrom(t, {Newline}, h) /\ hits # {}
    BY <1>1, <1>4, <2>1, <2>2
  <2> QED
    BY <1>2, <1>3, <1>11, <2>2, <2>4, <2>5 DEF h
<1> QED
  BY <1>10, <1>11

\* What BalanceExact says of one name.
FoundExactly(t, name) ==
    LET lines == Runs(t, {Newline})
        hits == {n \in DOMAIN lines : Entry(lines[n], name)}
        answer == usertxt_get_balance(name, t)
    IN IF hits = {} THEN answer = "AUTH_UN"
       ELSE answer = (IF Strtol(Words(lines[Min(hits)])[2]).value > 0
                      THEN "AUTH_OK" ELSE "AUTH_NO")

\* usertxt_get_balance answers of every user, whatever the length of the name,
\* what the first entry for that name says, if the lines of users.txt fit its
\* buffer and no number in it has a sign.
THEOREM BalanceFound ==
    ASSUME NEW t \in Seq(Char), Fit(t, MAX_UTXT_LINEBUF_LEN),
           NEW name, Plain(name)
    PROVE  FoundExactly(t, name)
<1> DEFINE lines == Runs(t, {Newline})
           hits == {n \in DOMAIN lines : Entry(lines[n], name)}
<1>1. /\ lines = Runs(t, {Newline})
      /\ hits = {n \in DOMAIN lines : Entry(lines[n], name)}
  OBVIOUS
<1> HIDE DEF lines, hits
<1>2. usertxt_get_balance(name, t)
          = IF hits = {} THEN "AUTH_UN"
            ELSE Verdict(Strtol(Words(lines[Min(hits)])[2]).value)
  BY <1>1, BalanceIs, ZenonT(60)
<1>3. IF hits = {} THEN usertxt_get_balance(name, t) = "AUTH_UN"
      ELSE usertxt_get_balance(name, t)
               = (IF Strtol(Words(lines[Min(hits)])[2]).value > 0
                  THEN "AUTH_OK" ELSE "AUTH_NO")
  BY <1>2 DEF Verdict
<1> QED
  BY <1>3 DEF FoundExactly, lines, hits

\* usertxt_get_balance finds a user by the whole of the name, in the first
\* entry for it, whatever else users.txt holds, if the lines fit and no number
\* has a sign.
THEOREM BalanceAlwaysExact == Spec => []BalanceExact
<1>1. IInv => BalanceExact
  <2> SUFFICES ASSUME IInv PROVE BalanceExact
    OBVIOUS
  <2>1. text \in Seq(Char)
    BY LinesConstants DEF IInv, Forms
  <2>2. ASSUME Fit(text, MAX_UTXT_LINEBUF_LEN),
               NEW name \in {<<c>> : c \in Char}
                              \cup {<<c, d>> : c, d \in Char},
               \A i \in DOMAIN name : ~isspace(name[i])
        PROVE  FoundExactly(text, name)
    <3>1. name \in Seq(Char) /\ Len(name) # 0
      <4>1. CASE name \in {<<c>> : c \in Char}
        <5>1. PICK c \in Char : name = <<c>>
          BY <4>1
        <5> QED
          BY <5>1
      <4>2. CASE name \in {<<c, d>> : c, d \in Char}
        <5>1. PICK c \in Char, d \in Char : name = <<c, d>>
          BY <4>2
        <5> QED
          BY <5>1
      <4> QED
        BY <2>2, <4>1, <4>2
    <3>2. DOMAIN name = 1..Len(name)
      BY <3>1, LenProperties
    <3>3. Plain(name)
      BY <2>2, <3>1, <3>2 DEF Plain
    <3> QED
      BY <2>1, <2>2, <3>3, BalanceFound
  <2> DEFINE Sought == {<<c>> : c \in Char} \cup {<<c, d>> : c, d \in Char}
  <2>3. Fit(text, MAX_UTXT_LINEBUF_LEN) =>
          \A name \in Sought :
            (\A i \in DOMAIN name : ~isspace(name[i])) => FoundExactly(text, name)
    BY <2>2
  <2> HIDE DEF Sought
  <2>4. SUFFICES ASSUME Fit(text, MAX_UTXT_LINEBUF_LEN), NEW name \in Sought,
                        \A i \in DOMAIN name : ~isspace(name[i])
                 PROVE  LET lines == Runs(text, {Newline})
                            hits == {n \in DOMAIN lines : Entry(lines[n], name)}
                            answer == usertxt_get_balance(name, text)
                        IN IF hits = {} THEN answer = "AUTH_UN"
                           ELSE answer = (IF Strtol(Words(lines[Min(hits)])[2]).value > 0
                                          THEN "AUTH_OK" ELSE "AUTH_NO")
    BY DEF BalanceExact, Sought
  <2> QED
    BY <2>3, <2>4 DEF FoundExactly
<1> QED
  BY <1>1, Invariance, PTL
=============================================================================
