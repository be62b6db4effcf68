-------------------------- MODULE MatchQueueProofs --------------------------
(***************************************************************************)
(* Lemmas about the sections of MatchQueue, for the proofs of the two      *)
(* modules built from them, and what follows from the contract alone, for  *)
(* whatever implements it.                                                 *)
(***************************************************************************)
EXTENDS MatchQueue, SequenceTheorems, FiniteSetTheorems, TLAPS

-----------------------------------------------------------------------------
(* Queues. *)

\* The elements of a sequence are those of its set.
LEMMA RangeType ==
  ASSUME NEW S, NEW s \in Seq(S)
  PROVE  /\ Range(s) = {s[i] : i \in 1..Len(s)}
         /\ Range(s) \subseteq S
  BY LenProperties DEF Range

\* Adding a player at the end of a queue.
LEMMA AppendRange ==
  ASSUME NEW S, NEW s \in Seq(S), NEW x \in S
  PROVE  /\ Append(s, x) \in Seq(S)
         /\ Range(Append(s, x)) = Range(s) \cup {x}
  <1>1. /\ Append(s, x) \in Seq(S)
        /\ Len(Append(s, x)) = Len(s) + 1
        /\ \A i \in 1..Len(s) : Append(s, x)[i] = s[i]
        /\ Append(s, x)[Len(s) + 1] = x
        /\ Len(s) \in Nat
    BY LenProperties
  <1>2. /\ Range(Append(s, x)) = {Append(s, x)[i] : i \in 1..(Len(s) + 1)}
        /\ Range(s) = {s[i] : i \in 1..Len(s)}
    BY <1>1, RangeType
  <1>3. 1..(Len(s) + 1) = 1..Len(s) \cup {Len(s) + 1}
    BY <1>1
  <1> QED
    BY <1>1, <1>2, <1>3

\* Joining two queues, as Requeue does.
LEMMA ConcatRange ==
  ASSUME NEW S, NEW s \in Seq(S), NEW t \in Seq(S)
  PROVE  /\ s \o t \in Seq(S)
         /\ Range(s \o t) = Range(s) \cup Range(t)
  <1>1. /\ s \o t \in Seq(S)
        /\ Len(s \o t) = Len(s) + Len(t)
        /\ \A i \in 1..(Len(s) + Len(t)) :
             (s \o t)[i] = IF i <= Len(s) THEN s[i] ELSE t[i - Len(s)]
        /\ Len(s) \in Nat
        /\ Len(t) \in Nat
    BY ConcatProperties, LenProperties
  <1>2. /\ Range(s \o t) = {(s \o t)[i] : i \in 1..(Len(s) + Len(t))}
        /\ Range(s) = {s[i] : i \in 1..Len(s)}
        /\ Range(t) = {t[i] : i \in 1..Len(t)}
    BY <1>1, RangeType
  <1>3. ASSUME NEW x \in Range(s \o t)
        PROVE  x \in Range(s) \cup Range(t)
    <2>1. PICK i \in 1..(Len(s) + Len(t)) : x = (s \o t)[i]
      BY <1>2
    <2>2. CASE i <= Len(s)
      BY <1>1, <1>2, <2>1, <2>2
    <2>3. CASE ~(i <= Len(s))
      <3>1. i - Len(s) \in 1..Len(t) /\ x = t[i - Len(s)]
        BY <1>1, <2>1, <2>3
      <3> QED
        BY <1>2, <3>1
    <2> QED
      BY <2>2, <2>3
  <1>4. ASSUME NEW i \in 1..Len(s)
        PROVE  s[i] \in Range(s \o t)
    <2>1. i \in 1..(Len(s) + Len(t)) /\ (s \o t)[i] = s[i]
      BY <1>1
    <2> QED
      BY <1>2, <2>1
  <1>5. ASSUME NEW i \in 1..Len(t)
        PROVE  t[i] \in Range(s \o t)
    <2>1. /\ i + Len(s) \in 1..(Len(s) + Len(t))
          /\ (s \o t)[i + Len(s)] = t[i]
      BY <1>1
    <2> QED
      BY <1>2, <2>1
  <1> QED
    BY <1>1, <1>2, <1>3, <1>4, <1>5

\* Cutting a queue in two loses nobody, and neither part grows.
LEMMA CutRange ==
  ASSUME NEW S, NEW s \in Seq(S), NEW n \in 0..Len(s)
  PROVE  LET front == SubSeq(s, 1, n)
             back  == SubSeq(s, n + 1, Len(s))
         IN  /\ front \in Seq(S) /\ Len(front) = n
             /\ back \in Seq(S) /\ Len(back) = Len(s) - n
             /\ Range(s) = Range(front) \cup Range(back)
  <1> DEFINE front == SubSeq(s, 1, n)
             back  == SubSeq(s, n + 1, Len(s))
  <1>1. Len(s) \in Nat /\ n \in Nat /\ \A i \in 1..Len(s) : s[i] \in S
    BY LenProperties, ElementOfSeq
  <1>2. /\ front \in Seq(S)
        /\ Len(front) = n
    BY <1>1, SubSeqProperties
  <1>3. /\ back \in Seq(S)
        /\ Len(back) = Len(s) - n
    BY <1>1, SubSeqProperties
  <1>4. front \o back = s
    <2>1. /\ 1 \in 1..(Len(s) + 1)
          /\ n \in (1 - 1)..Len(s)
          /\ Len(s) \in n..Len(s)
      BY <1>1
    <2>2. front \o back = SubSeq(s, 1, Len(s))
      BY <2>1, ConcatAdjacentSubSeq
    <2> QED
      BY <2>2, SubSeqFull
  <1>5. Range(s) = Range(front) \cup Range(back)
    BY <1>2, <1>3, <1>4, ConcatRange
  <1> QED
    BY <1>2, <1>3, <1>5

\* Taking one entry out of a queue takes nobody else out.
LEMMA RemoveAtRange ==
  ASSUME NEW S, NEW s \in Seq(S), NEW i \in 1..Len(s)
  PROVE  /\ RemoveAt(s, i) \in Seq(S)
         /\ Range(s) \subseteq Range(RemoveAt(s, i)) \cup {s[i]}
  <1> DEFINE front == SubSeq(s, 1, i - 1)
             back  == SubSeq(s, i + 1, Len(s))
  <1>1. Len(s) \in Nat /\ \A j \in 1..Len(s) : s[j] \in S
    BY LenProperties, ElementOfSeq
  <1>2. /\ front \in Seq(S)
        /\ Len(front) = i - 1
        /\ \A j \in 1..(i - 1) : front[j] = s[j]
    BY <1>1, SubSeqProperties
  <1>3. /\ back \in Seq(S)
        /\ Len(back) = Len(s) - i
        /\ \A j \in 1..(Len(s) - i) : back[j] = s[j + i]
    BY <1>1, SubSeqProperties
  <1>4. /\ RemoveAt(s, i) \in Seq(S)
        /\ Range(RemoveAt(s, i)) = Range(front) \cup Range(back)
    BY <1>2, <1>3, ConcatRange DEF RemoveAt
  <1> HIDE DEF front, back
  <1>5. ASSUME NEW j \in 1..Len(s), j # i
        PROVE  s[j] \in Range(front) \cup Range(back)
    <2>0. /\ Range(front) = {front[k] : k \in 1..Len(front)}
          /\ Range(back) = {back[k] : k \in 1..Len(back)}
      BY <1>2, <1>3, RangeType
    <2>1. CASE j < i
      <3>1. j \in 1..Len(front) /\ front[j] = s[j]
        BY <1>1, <1>2, <2>1
      <3> QED
        BY <2>0, <3>1
    <2>2. CASE j > i
      <3>1. j - i \in 1..Len(back) /\ back[j - i] = s[j]
        BY <1>1, <1>3, <2>2
      <3> QED
        BY <2>0, <3>1
    <2> QED
      BY <1>5, <2>1, <2>2
  <1> QED
    BY <1>4, <1>5, RangeType

\* What is left of a queue without its entry i.
LEMMA RemoveAtElements ==
  ASSUME NEW S, NEW s \in Seq(S), NEW i \in 1..Len(s)
  PROVE  LET cut == RemoveAt(s, i)
         IN  /\ cut \in Seq(S)
             /\ Len(cut) = Len(s) - 1
             /\ \A j \in 1..(Len(s) - 1) :
                  cut[j] = IF j < i THEN s[j] ELSE s[j + 1]
  <1> DEFINE front == SubSeq(s, 1, i - 1)
             back  == SubSeq(s, i + 1, Len(s))
  <1>1. Len(s) \in Nat /\ \A j \in 1..Len(s) : s[j] \in S
    BY LenProperties, ElementOfSeq
  <1>2. /\ front \in Seq(S) /\ Len(front) = i - 1
        /\ \A j \in 1..(i - 1) : front[j] = s[j]
    BY <1>1, SubSeqProperties
  <1>3. /\ back \in Seq(S) /\ Len(back) = Len(s) - i
        /\ \A j \in 1..(Len(s) - i) : back[j] = s[j + i]
    BY <1>1, SubSeqProperties
  <1>4. RemoveAt(s, i) = front \o back
    BY DEF RemoveAt
  <1> HIDE DEF front, back
  <1>5. /\ front \o back \in Seq(S)
        /\ Len(front \o back) = Len(front) + Len(back)
        /\ \A j \in 1..(Len(front) + Len(back)) : (front \o back)[j] =
             IF j <= Len(front) THEN front[j] ELSE back[j - Len(front)]
    BY <1>2, <1>3, ConcatProperties
  <1>6. ASSUME NEW j \in 1..(Len(s) - 1)
        PROVE  (front \o back)[j] = IF j < i THEN s[j] ELSE s[j + 1]
    <2>1. CASE j < i
      BY <1>1, <1>2, <1>3, <1>5, <2>1
    <2>2. CASE ~(j < i)
      <3>1. /\ j - (i - 1) \in 1..(Len(s) - i)
            /\ ~(j <= Len(front))
            /\ j \in 1..(Len(front) + Len(back))
            /\ (j - (i - 1)) + i = j + 1
        BY <1>1, <1>2, <1>3, <2>2
      <3> QED
        BY <1>2, <1>3, <1>5, <2>2, <3>1
    <2> QED
      BY <2>1, <2>2
  <1>7. Len(front) + Len(back) = Len(s) - 1
    BY <1>1, <1>2, <1>3
  <1> QED
    BY <1>4, <1>5, <1>6, <1>7

-----------------------------------------------------------------------------
(* Queues in which nobody stands twice. *)

\* A sequence without repetitions, by its indices.
LEMMA DistinctElements ==
  ASSUME NEW S, NEW s \in Seq(S)
  PROVE  IsInjective(s) <=>
           \A i, j \in 1..Len(s) : s[i] = s[j] => i = j
  BY LenProperties DEF IsInjective

\* A newcomer at the end.
LEMMA AppendDistinct ==
  ASSUME NEW S, NEW s \in Seq(S), NEW x \in S,
         IsInjective(s), x \notin Range(s)
  PROVE  IsInjective(Append(s, x))
  <1>1. /\ Append(s, x) \in Seq(S)
        /\ Len(Append(s, x)) = Len(s) + 1
        /\ \A i \in 1..Len(s) : Append(s, x)[i] = s[i]
        /\ Append(s, x)[Len(s) + 1] = x
        /\ Len(s) \in Nat
    BY LenProperties
  <1>2. \A i \in 1..Len(s) : s[i] # x
    BY RangeType
  <1>3. \A i \in 1..(Len(s) + 1) : i \in 1..Len(s) \/ i = Len(s) + 1
    BY <1>1
  <1> DEFINE new == Append(s, x)
  <1> HIDE DEF new
  <1>4. ASSUME NEW i \in 1..(Len(s) + 1), NEW j \in 1..(Len(s) + 1),
               new[i] = new[j]
        PROVE  i = j
    <2>1. \A k, l \in 1..Len(s) : s[k] = s[l] => k = l
      BY DistinctElements
    <2> QED
      BY <1>1, <1>2, <1>3, <1>4, <2>1 DEF new
  <1>5. new \in Seq(S) /\ Len(new) = Len(s) + 1
    BY <1>1 DEF new
  <1>6. IsInjective(new)
    BY <1>4, <1>5, DistinctElements
  <1> QED
    BY <1>6 DEF new

\* Two queues that share nobody, one behind the other.
LEMMA ConcatDistinct ==
  ASSUME NEW S, NEW s \in Seq(S), NEW t \in Seq(S),
         IsInjective(s), IsInjective(t), Range(s) \cap Range(t) = {}
  PROVE  IsInjective(s \o t)
  <1>1. /\ s \o t \in Seq(S)
        /\ Len(s \o t) = Len(s) + Len(t)
        /\ \A i \in 1..(Len(s) + Len(t)) :
             (s \o t)[i] = IF i <= Len(s) THEN s[i] ELSE t[i - Len(s)]
        /\ Len(s) \in Nat
        /\ Len(t) \in Nat
    BY ConcatProperties, LenProperties
  <1>2. \A i \in 1..Len(s), j \in 1..Len(t) : s[i] # t[j]
    BY RangeType
  <1>3. ASSUME NEW i \in 1..(Len(s) + Len(t)), NEW j \in 1..(Len(s) + Len(t)),
               (s \o t)[i] = (s \o t)[j]
        PROVE  i = j
    <2>1. CASE i <= Len(s) /\ j <= Len(s)
      BY <1>1, <1>3, <2>1, DistinctElements
    <2>2. CASE ~(i <= Len(s)) /\ ~(j <= Len(s))
      <3>1. /\ i - Len(s) \in 1..Len(t) /\ j - Len(s) \in 1..Len(t)
            /\ t[i - Len(s)] = t[j - Len(s)]
        BY <1>1, <1>3, <2>2
      <3>2. i - Len(s) = j - Len(s)
        BY <3>1, DistinctElements
      <3> QED
        BY <1>1, <3>2
    <2>3. CASE i <= Len(s) /\ ~(j <= Len(s))
      <3>1. i \in 1..Len(s) /\ j - Len(s) \in 1..Len(t)
        BY <1>1, <2>3
      <3> QED
        BY <1>1, <1>2, <1>3, <2>3, <3>1
    <2>4. CASE ~(i <= Len(s)) /\ j <= Len(s)
      <3>1. j \in 1..Len(s) /\ i - Len(s) \in 1..Len(t)
        BY <1>1, <2>4
      <3> QED
        BY <1>1, <1>2, <1>3, <2>4, <3>1
    <2> QED
      BY <2>1, <2>2, <2>3, <2>4
  <1> QED
    BY <1>1, <1>3, DistinctElements

\* The two parts of a queue share nobody.
LEMMA CutDistinct ==
  ASSUME NEW S, NEW s \in Seq(S), NEW n \in 0..Len(s), IsInjective(s)
  PROVE  LET front == SubSeq(s, 1, n)
             back  == SubSeq(s, n + 1, Len(s))
         IN  /\ IsInjective(front) /\ IsInjective(back)
             /\ Range(front) \cap Range(back) = {}
             /\ Range(front) \cup Range(back) \subseteq Range(s)
  <1> DEFINE front == SubSeq(s, 1, n)
             back  == SubSeq(s, n + 1, Len(s))
  <1>1. Len(s) \in Nat /\ n \in Nat /\ \A i \in 1..Len(s) : s[i] \in S
    BY LenProperties, ElementOfSeq
  <1>2. /\ front \in Seq(S) /\ Len(front) = n
        /\ \A i \in 1..n : front[i] = s[i]
    BY <1>1, SubSeqProperties
  <1>3. /\ back \in Seq(S) /\ Len(back) = Len(s) - n
        /\ \A i \in 1..(Len(s) - n) : back[i] = s[i + n]
    BY <1>1, SubSeqProperties
  <1> HIDE DEF front, back
  <1>4. /\ \A i \in 1..n : i \in 1..Len(s)
        /\ \A i \in 1..(Len(s) - n) : i + n \in 1..Len(s)
    BY <1>1
  <1>5. IsInjective(front)
    BY <1>2, <1>4, DistinctElements
  <1>6. IsInjective(back)
    <2>1. ASSUME NEW i \in 1..(Len(s) - n), NEW j \in 1..(Len(s) - n),
                 back[i] = back[j]
          PROVE  i = j
      <3>0. /\ i + n \in 1..Len(s) /\ j + n \in 1..Len(s)
            /\ s[i + n] = s[j + n]
        BY <1>3, <1>4, <2>1
      <3>1. i + n = j + n
        BY <3>0, DistinctElements
      <3> QED
        BY <1>1, <3>1
    <2> QED
      BY <1>3, <2>1, DistinctElements
  <1>7. ASSUME NEW i \in 1..n, NEW j \in 1..(Len(s) - n), front[i] = back[j]
        PROVE  FALSE
    <2>0. /\ i \in 1..Len(s) /\ j + n \in 1..Len(s)
          /\ s[i] = s[j + n]
      BY <1>2, <1>3, <1>4, <1>7
    <2>1. i = j + n
      BY <2>0, DistinctElements
    <2> QED
      BY <1>1, <2>1
  <1>8. /\ Range(front) = {front[i] : i \in 1..n}
        /\ Range(back) = {back[i] : i \in 1..(Len(s) - n)}
        /\ Range(s) = {s[i] : i \in 1..Len(s)}
    BY <1>2, <1>3, RangeType
  <1>9. Range(front) \cap Range(back) = {}
    BY <1>7, <1>8
  <1>10. Range(front) \cup Range(back) \subseteq Range(s)
    BY <1>2, <1>3, <1>4, <1>8
  <1> QED
    BY <1>5, <1>6, <1>9, <1>10 DEF front, back

\* A queue without one of its entries.
LEMMA RemoveAtDistinct ==
  ASSUME NEW S, NEW s \in Seq(S), NEW i \in 1..Len(s), IsInjective(s)
  PROVE  /\ IsInjective(RemoveAt(s, i))
         /\ Range(RemoveAt(s, i)) \subseteq Range(s)
  <1> DEFINE cut == RemoveAt(s, i)
             Old(j) == IF j < i THEN j ELSE j + 1
  <1>1. /\ cut \in Seq(S) /\ Len(cut) = Len(s) - 1 /\ Len(s) \in Nat
        /\ \A j \in 1..(Len(s) - 1) : cut[j] = s[Old(j)]
    BY RemoveAtElements, LenProperties
  <1>2. /\ \A j \in 1..(Len(s) - 1) : Old(j) \in 1..Len(s)
        /\ \A j, k \in 1..(Len(s) - 1) : Old(j) = Old(k) => j = k
    BY <1>1
  <1> HIDE DEF cut, Old
  <1>3. IsInjective(cut)
    <2>1. \A k, l \in 1..Len(s) : s[k] = s[l] => k = l
      BY DistinctElements
    <2>2. \A j, k \in 1..Len(cut) : cut[j] = cut[k] => j = k
      BY <1>1, <1>2, <2>1
    <2> QED
      BY <1>1, <2>2, DistinctElements
  <1>4. Range(cut) \subseteq Range(s)
    BY <1>1, <1>2, RangeType
  <1> QED
    BY <1>3, <1>4 DEF cut

-----------------------------------------------------------------------------
(* Whom the matchmaker knows. *)

LineOK == waiting \in Seq(Players) /\ taken \in Seq(Players)

Known == Range(waiting) \cup Range(taken) \cup DOMAIN matched

\* Join makes a player known, and forgets nobody.
LEMMA JoinKnown ==
  ASSUME LineOK, NEW p \in Players, Join(p)
  PROVE  LineOK' /\ Known \subseteq Known' /\ p \in Known'
  BY AppendRange DEF LineOK, Known, Join, matches

\* Leave forgets nobody but the player who leaves.
LEMMA LeaveKnown ==
  ASSUME LineOK, NEW p \in Players, Leave(p)
  PROVE  LineOK' /\ Known \subseteq Known' \cup {p}
  <1>1. /\ waiting' \in Seq(Players)
        /\ Range(waiting) \subseteq Range(waiting') \cup {p}
    <2>1. CASE UNCHANGED waiting
      BY <2>1 DEF LineOK
    <2>2. ASSUME NEW i \in DOMAIN waiting,
                 waiting[i] = p, waiting' = RemoveAt(waiting, i)
          PROVE  /\ waiting' \in Seq(Players)
                 /\ Range(waiting) \subseteq Range(waiting') \cup {p}
      BY <2>2, LenProperties, RemoveAtRange DEF LineOK
    <2> QED
      BY <2>1, <2>2 DEF Leave
  <1> QED
    BY <1>1 DEF LineOK, Known, Leave, matches

\* Whoever a pass takes out of the queue is in its hands.
LEMMA TakeKnown ==
  ASSUME LineOK, taken = <<>>, Take
  PROVE  LineOK' /\ Len(taken') = MinPlayersPerMatch /\ Known \subseteq Known'
  <1>1. MinPlayersPerMatch \in 0..Len(waiting) /\ waiting \in Seq(Players)
    BY PassAssumption, LenProperties DEF LineOK, Take, TakeFirst
  <1>2. /\ taken' \in Seq(Players) /\ Len(taken') = MinPlayersPerMatch
        /\ waiting' \in Seq(Players)
        /\ Range(waiting) = Range(taken') \cup Range(waiting')
    BY <1>1, CutRange DEF Take, TakeFirst
  <1>3. Range(taken) = {}
    BY DEF Range
  <1> QED
    BY <1>2, <1>3 DEF LineOK, Known, Take, TakeFirst, matches

\* Those in the hands of a pass that fails are back in the queue.
LEMMA RequeueKnown ==
  ASSUME LineOK, Requeue
  PROVE  LineOK' /\ Known \subseteq Known'
  BY ConcatRange DEF LineOK, Known, Requeue, PassIsOver, matches

\* Those in the hands of a pass that succeeds are matched.
LEMMA RecordKnown ==
  ASSUME LineOK, NEW h, Record(h)
  PROVE  LineOK' /\ Known \subseteq Known'
  BY DEF LineOK, Known, Record, PassIsOver

-----------------------------------------------------------------------------
(* The contract.  Its invariant: the line is one of players, and a match    *)
(* that an instance has created has been announced.                         *)

CInv ==
  /\ LineOK
  /\ DOMAIN matched \subseteq Players
  /\ rosters \in Seq(Seq(Players))
  /\ hosted \subseteq Announced
  /\ MatchedIsHosted
  /\ PlayersMeet

LEMMA InitCInv == QueueInit => CInv
  BY DEF QueueInit, CInv, LineOK, MatchedIsHosted, PlayersMeet

\* What is known of the matches outlasts a step that creates at most new IDs
\* and hostings.
LEMMA SameMatched ==
  ASSUME CInv, matched' = matched, hosted \subseteq hosted',
         MatchIDs \subseteq MatchIDs',
         \A i \in MatchIDs : rosters'[i] = rosters[i]
  PROVE  MatchedIsHosted' /\ PlayersMeet'
  BY DEF CInv, MatchedIsHosted, PlayersMeet

\* Requests to join and to leave touch the queue only.
LEMMA JoinLeaveCInv ==
  ASSUME CInv, NEW p \in Players, Join(p) \/ Leave(p)
  PROVE  CInv'
  <1>1. LineOK'
    BY JoinKnown, LeaveKnown DEF CInv
  <1>2. UNCHANGED matches
    BY DEF Join, Leave
  <1> QED
    BY <1>1, <1>2, SameMatched DEF CInv, matches, MatchIDs, Announced

\* A pass begins or fails; the matches stay.
LEMMA BeginRequeueCInv ==
  ASSUME CInv, Begin \/ Requeue
  PROVE  CInv'
  <1>1. LineOK'
    BY TakeKnown, RequeueKnown DEF CInv, Begin
  <1>2. UNCHANGED matches
    BY DEF Begin, Take, TakeFirst, Requeue
  <1> QED
    BY <1>1, <1>2, SameMatched DEF CInv, matches, MatchIDs, Announced

\* A fresh ID disturbs no match before it.
LEMMA GenerateCInv == ASSUME CInv, Generate PROVE CInv'
  <1>1. /\ rosters' = Append(rosters, taken)
        /\ rosters \in Seq(Seq(Players)) /\ taken \in Seq(Players)
        /\ UNCHANGED <<waiting, taken, matched, hosted>>
    BY DEF CInv, LineOK, Generate, line
  <1>2. /\ rosters' \in Seq(Seq(Players))
        /\ Len(rosters) \in Nat /\ Len(rosters') = Len(rosters) + 1
        /\ \A i \in MatchIDs : rosters'[i] = rosters[i]
    BY <1>1, LenProperties DEF MatchIDs
  <1>3. MatchIDs \subseteq MatchIDs'
    BY <1>2 DEF MatchIDs
  <1>4. MatchedIsHosted' /\ PlayersMeet'
    BY <1>1, <1>2, <1>3, SameMatched
  <1> QED
    BY <1>1, <1>2, <1>3, <1>4 DEF CInv, LineOK, Announced

\* An instance creates a match that has been announced.
LEMMA HostCInv == ASSUME CInv, NEW h \in Announced, Host(h) PROVE CInv'
  <1>1. /\ hosted' = hosted \cup {h}
        /\ UNCHANGED <<waiting, taken, matched, rosters>>
    BY DEF Host, line
  <1> QED
    BY <1>1, SameMatched DEF CInv, LineOK, Announced, MatchIDs

\* The newest match is recorded: nobody is at another instance for it.
LEMMA ConcludeCInv == ASSUME CInv, NEW h \in hosted, Conclude(h) PROVE CInv'
  <1>1. /\ DOMAIN matched' = DOMAIN matched \cup Range(taken)
        /\ \A p \in Range(taken) : matched'[p] = h
        /\ \A p \in DOMAIN matched \ Range(taken) : matched'[p] = matched[p]
        /\ UNCHANGED <<rosters, hosted>>
    BY DEF Conclude, Record
  <1>2. h.match \in MatchIDs /\ rosters[h.match] = taken
    BY DEF CInv, Announced, Conclude
  <1>3. LineOK' /\ Range(taken) \subseteq Players
    BY RecordKnown, RangeType DEF CInv, LineOK, Conclude
  <1>4. MatchedIsHosted'
    BY <1>1, <1>2 DEF CInv, MatchedIsHosted, MatchIDs
  <1>5. PlayersMeet'
    <2>1. \A p \in DOMAIN matched : matched[p].match # h.match
      BY DEF Conclude
    <2> QED
      BY <1>1, <2>1 DEF CInv, PlayersMeet
  <1> QED
    BY <1>1, <1>3, <1>4, <1>5 DEF CInv, Announced, MatchIDs

LEMMA NextCInv == CInv /\ [QueueNext]_contract => CInv'
  <1> SUFFICES ASSUME CInv, [QueueNext]_contract PROVE CInv'
    OBVIOUS
  <1>1. CASE UNCHANGED contract
    BY <1>1 DEF contract, line, matches, CInv, LineOK, Announced, MatchIDs,
       MatchedIsHosted, PlayersMeet
  <1> QED
    BY <1>1, JoinLeaveCInv, BeginRequeueCInv, GenerateCInv, HostCInv,
       ConcludeCInv DEF QueueNext

\* Whatever keeps the contract sends players only to matches that exist and
\* list them: tryFormMatch, and the matchmaker that the pages talk to.
THEOREM ContractHostsMatches == QueueContract => []MatchedIsHosted
  <1>1. CInv => MatchedIsHosted
    BY DEF CInv
  <1> QED
    BY <1>1, InitCInv, NextCInv, PTL DEF QueueContract

\* Whatever keeps the contract brings the players of a match to one instance,
\* however many instances were tried for it.
THEOREM ContractLetsPlayersMeet == QueueContract => []PlayersMeet
  <1>1. CInv => PlayersMeet
    BY DEF CInv
  <1> QED
    BY <1>1, InitCInv, NextCInv, PTL DEF QueueContract

-----------------------------------------------------------------------------
(* The contract without a POST of players in the hands of a pass. *)

Rejoins == \A p \in Range(taken) : Join(p) => UNCHANGED waiting

LEMMA InitOnePlace == QueueInit => OnePlace
  BY DEF QueueInit, OnePlace, IsInjective, Range

\* A newcomer is in nobody's hands.
LEMMA JoinOnePlace ==
  ASSUME CInv, OnePlace, Rejoins, NEW p \in Players, Join(p)
  PROVE  OnePlace'
  <1>1. UNCHANGED <<taken, matched>>
    BY DEF Join, matches
  <1>2. CASE UNCHANGED waiting
    BY <1>1, <1>2 DEF OnePlace
  <1>3. CASE waiting' # waiting
    <2>1. /\ waiting' = Append(waiting, p)
          /\ p \notin DOMAIN matched /\ p \notin Range(waiting)
      BY <1>3 DEF Join
    <2>2. p \notin Range(taken)
      BY <1>3 DEF Rejoins
    <2>3. /\ IsInjective(waiting')
          /\ Range(waiting') = Range(waiting) \cup {p}
      BY <2>1, AppendRange, AppendDistinct DEF CInv, LineOK, OnePlace
    <2> QED
      BY <1>1, <2>1, <2>2, <2>3 DEF OnePlace
  <1> QED
    BY <1>2, <1>3

LEMMA LeaveOnePlace ==
  ASSUME CInv, OnePlace, NEW p \in Players, Leave(p)
  PROVE  OnePlace'
  <1>1. UNCHANGED <<taken, matched>>
    BY DEF Leave, matches
  <1>2. CASE UNCHANGED waiting
    BY <1>1, <1>2 DEF OnePlace
  <1>3. ASSUME NEW i \in DOMAIN waiting, waiting' = RemoveAt(waiting, i)
        PROVE  OnePlace'
    <2>1. i \in 1..Len(waiting) /\ waiting \in Seq(Players)
      BY LenProperties DEF CInv, LineOK
    <2>2. IsInjective(waiting') /\ Range(waiting') \subseteq Range(waiting)
      BY <1>3, <2>1, RemoveAtDistinct DEF OnePlace
    <2> QED
      BY <1>1, <2>2 DEF OnePlace
  <1> QED
    BY <1>2, <1>3 DEF Leave

\* A pass moves players from the queue into its hands.
LEMMA BeginOnePlace == ASSUME CInv, OnePlace, Begin PROVE OnePlace'
  <1>1. /\ MinPlayersPerMatch \in 0..Len(waiting) /\ waiting \in Seq(Players)
        /\ taken' = SubSeq(waiting, 1, MinPlayersPerMatch)
        /\ waiting' = SubSeq(waiting, MinPlayersPerMatch + 1, Len(waiting))
        /\ UNCHANGED matched
    BY PassAssumption, LenProperties
    DEF CInv, LineOK, Begin, Take, TakeFirst, matches
  <1>2. /\ IsInjective(taken') /\ IsInjective(waiting')
        /\ Range(taken') \cap Range(waiting') = {}
        /\ Range(taken') \cup Range(waiting') \subseteq Range(waiting)
    BY <1>1, CutDistinct DEF OnePlace
  <1> QED
    BY <1>1, <1>2 DEF OnePlace

\* And moves them back when it fails.
LEMMA RequeueOnePlace == ASSUME CInv, OnePlace, Requeue PROVE OnePlace'
  <1>1. waiting' = taken \o waiting /\ taken' = <<>> /\ UNCHANGED matched
    BY DEF Requeue, PassIsOver, matches
  <1>2. /\ IsInjective(waiting')
        /\ Range(waiting') = Range(taken) \cup Range(waiting)
    BY <1>1, ConcatRange, ConcatDistinct DEF CInv, LineOK, OnePlace
  <1>3. Range(taken') = {} /\ IsInjective(taken')
    BY <1>1 DEF Range, IsInjective
  <1> QED
    BY <1>1, <1>2, <1>3 DEF OnePlace

\* Or to the matched ones when it succeeds.
LEMMA RecordOnePlace ==
  ASSUME OnePlace, NEW h, Record(h)
  PROVE  /\ OnePlace'
         /\ \A p \in DOMAIN matched :
              p \in DOMAIN matched' /\ matched'[p] = matched[p]
  <1>1. /\ waiting' = waiting /\ taken' = <<>>
        /\ DOMAIN matched' = DOMAIN matched \cup Range(taken)
        /\ \A p \in DOMAIN matched \ Range(taken) : matched'[p] = matched[p]
    BY DEF Record, PassIsOver
  <1>2. Range(taken') = {} /\ IsInjective(taken')
    BY <1>1 DEF Range, IsInjective
  <1> QED
    BY <1>1, <1>2 DEF OnePlace

LEMMA NextOnePlace ==
  ASSUME CInv, OnePlace, [QueueNext]_contract, [Rejoins]_contract
  PROVE  /\ OnePlace'
         /\ [\A p \in DOMAIN matched :
               p \in DOMAIN matched' /\ matched'[p] = matched[p]]_contract
  <1> DEFINE Kept == \A p \in DOMAIN matched :
                       p \in DOMAIN matched' /\ matched'[p] = matched[p]
  <1>1. CASE UNCHANGED contract
    BY <1>1 DEF contract, line, matches, OnePlace
  <1>2. CASE QueueNext /\ Rejoins
    <2>1. ASSUME UNCHANGED matched PROVE Kept
      BY <2>1
    <2>2. ASSUME NEW p \in Players, Join(p) \/ Leave(p)
          PROVE  OnePlace' /\ Kept
      BY <1>2, <2>1, <2>2, JoinOnePlace, LeaveOnePlace
      DEF Join, Leave, matches
    <2>3. CASE Begin \/ Requeue
      BY <2>1, <2>3, BeginOnePlace, RequeueOnePlace
      DEF Begin, Take, TakeFirst, Requeue, matches
    <2>4. CASE Generate \/ \E h \in Announced : Host(h)
      BY <2>1, <2>4 DEF Generate, Host, line, OnePlace
    <2>5. ASSUME NEW h \in hosted, Conclude(h)
          PROVE  OnePlace' /\ Kept
      BY <2>5, RecordOnePlace DEF Conclude
    <2> QED
      BY <1>2, <2>2, <2>3, <2>4, <2>5 DEF QueueNext
  <1> QED
    BY <1>1, <1>2

LEMMA OnePlaceInvariance == QueueContract /\ NoRejoin => [](CInv /\ OnePlace)
  BY InitCInv, NextCInv, InitOnePlace, NextOnePlace, PTL
  DEF QueueContract, NoRejoin, Rejoins

\* A POST while a pass holds the player is the only way anybody comes to stand
\* in two places: in the queue twice, or both in the queue and in a match.
THEOREM OnePlaceWithoutRejoin == QueueContract /\ NoRejoin => []OnePlace
  BY OnePlaceInvariance, PTL

\* And the only way a player who has a match is given another.
THEOREM ForGoodWithoutRejoin == QueueContract /\ NoRejoin => MatchIsForGood
  BY OnePlaceInvariance, NextOnePlace, PTL
  DEF QueueContract, NoRejoin, Rejoins, MatchIsForGood

=============================================================================
