--------------------------- MODULE RoundLoop_proofs ---------------------------
(***************************************************************************)
(* Proofs about RoundLoop, for every budget, plan, number of calls and     *)
(* amount of guidance: requests are well formed, notices last until they   *)
(* are read, guidance is kept in order, the budget follows progress, the   *)
(* plan follows the tools, and overtaken text leaves the answer.  The last *)
(* part shows that what is left of a run becomes less with every step.     *)
(***************************************************************************)
EXTENDS RoundLoop, FunctionTheorems, FiniteSetTheorems, WellFoundedInduction, TLAPS

-----------------------------------------------------------------------------
(* Picking elements of a sequence. *)

Rank(K, i) == Cardinality({j \in K : j <= i})

\* A non-empty set of numbers has a least element.
LEMMA LeastNumber ==
    ASSUME NEW S, S \subseteq Nat, S # {}
    PROVE  \E m \in S : \A n \in S : m <= n
<1>1. IsWellFoundedOn(OpToRel(<, Nat), Nat)
  BY NatLessThanWellFounded
<1>2. PICK m \in S : \A t \in S : <<t, m>> \notin OpToRel(<, Nat)
  BY <1>1, WFMin
<1>3. m \in Nat /\ \A t \in S : t \in Nat
  OBVIOUS
<1>4. \A t \in S : ~(t < m)
  BY <1>2, <1>3 DEF OpToRel
<1>5. QED
  BY <1>3, <1>4

\* The elements of a finite set of numbers are ranked 1, 2, ... without gaps.
LEMMA RankFacts ==
    ASSUME NEW K, K \subseteq Nat, IsFiniteSet(K)
    PROVE  /\ Cardinality(K) \in Nat
           /\ \A i \in K : Rank(K, i) \in 1..Cardinality(K)
           /\ \A i, j \in K : i < j => Rank(K, i) < Rank(K, j)
           /\ \A n \in 1..Cardinality(K) : \E i \in K : Rank(K, i) = n
<1> DEFINE UpTo(i) == {j \in K : j <= i}
           size == Cardinality(K)
<1>1. size \in Nat
  BY FS_CardinalityType
<1>2. ASSUME NEW i \in K
      PROVE  IsFiniteSet(UpTo(i)) /\ Rank(K, i) \in 1..size
  <2>1. UpTo(i) \in SUBSET K /\ i \in UpTo(i)
    OBVIOUS
  <2>2. IsFiniteSet(UpTo(i)) /\ Cardinality(UpTo(i)) <= size
    BY <2>1, FS_Subset
  <2>3. Cardinality(UpTo(i)) \in Nat /\ Cardinality(UpTo(i)) # 0
    BY <2>1, <2>2, FS_CardinalityType, FS_EmptySet
  <2>4. QED
    BY <1>1, <2>2, <2>3 DEF Rank
<1>3. ASSUME NEW i \in K, NEW j \in K, i < j
      PROVE  Rank(K, i) < Rank(K, j)
  <2>1. UpTo(i) \in SUBSET UpTo(j) /\ j \in UpTo(j) /\ j \notin UpTo(i)
    <3>1. i \in Nat /\ j \in Nat /\ \A k \in K : k \in Nat
      OBVIOUS
    <3>2. \A k \in K : k <= i => k <= j
      BY <1>3, <3>1
    <3>3. \A k \in UpTo(i) : k \in UpTo(j)
      BY <3>2
    <3>4. j \in UpTo(j) /\ j \notin UpTo(i)
      BY <1>3, <3>1
    <3>5. QED
      BY <3>3, <3>4
  <2>2. Cardinality(UpTo(i)) <= Cardinality(UpTo(j)) /\ Cardinality(UpTo(i)) # Cardinality(UpTo(j))
    BY <1>2, <2>1, FS_Subset
  <2>3. QED
    BY <1>1, <1>2, <2>2 DEF Rank
<1> HIDE DEF UpTo
<1>a. \A i \in K : Rank(K, i) \in 1..size /\ Rank(K, i) \in Nat
  BY <1>1, <1>2
<1> DEFINE rank == [i \in K |-> Rank(K, i)]
<1>4. rank \in [K -> 1..size]
  BY <1>2
<1>5. rank \in Injection(K, 1..size)
  <2>1. ASSUME NEW i \in K, NEW j \in K, rank[i] = rank[j]
        PROVE  i = j
    <3>1. i \in Nat /\ j \in Nat /\ Rank(K, i) = Rank(K, j)
      BY <2>1
    <3>2. Rank(K, i) \in Nat /\ Rank(K, j) \in Nat
      BY <1>a
    <3>3. CASE i < j
      BY <1>3, <3>1, <3>2, <3>3
    <3>4. CASE j < i
      BY <1>3, <3>1, <3>2, <3>4
    <3>5. QED
      BY <3>1, <3>3, <3>4
  <2> HIDE DEF rank
  <2>2. QED
    BY <1>4, <2>1 DEF Injection, IsInjective
<1>6. IsFiniteSet(1..size) /\ Cardinality(1..size) = size
  BY <1>1, FS_Interval
<1>7. rank \in Surjection(K, 1..size)
  BY <1>5, <1>6, FS_Injection
<1>8. \A n \in 1..size : \E i \in K : Rank(K, i) = n
  <2>1. \A n \in 1..size : \E i \in K : rank[i] = n
    <3> HIDE DEF rank
    <3>1. QED
      BY <1>7 DEF Surjection
  <2>2. QED
    BY <2>1
<1>9. QED
  BY <1>1, <1>2, <1>3, <1>8

\* What is picked of a sequence are its elements at the given positions, each
\* once and in their order.
LEMMA PickedFacts ==
    ASSUME NEW S, NEW s \in Seq(S), NEW K \in SUBSET DOMAIN s
    PROVE  \E f \in [DOMAIN Picked(s, K) -> K] :
              /\ Picked(s, K) \in Seq(S)
              /\ \A n \in DOMAIN Picked(s, K) : Picked(s, K)[n] = s[f[n]]
              /\ \A m, n \in DOMAIN Picked(s, K) : m < n => f[m] < f[n]
              /\ \A i \in K : \E n \in DOMAIN Picked(s, K) : f[n] = i
<1>1. K \subseteq Nat /\ IsFiniteSet(K)
  <2>1. DOMAIN s = 1..Len(s) /\ Len(s) \in Nat
    OBVIOUS
  <2>2. IsFiniteSet(1..Len(s))
    BY <2>1, FS_Interval
  <2>3. QED
    BY <2>1, <2>2, FS_Subset
<1> DEFINE size == Cardinality(K)
           p == Picked(s, K)
           f == [n \in 1..size |-> CHOOSE i \in K : Rank(K, i) = n]
<1>2. /\ size \in Nat
      /\ \A i \in K : Rank(K, i) \in 1..size
      /\ \A i, j \in K : i < j => Rank(K, i) < Rank(K, j)
      /\ \A n \in 1..size : \E i \in K : Rank(K, i) = n
  BY <1>1, RankFacts
<1>3. \A n \in 1..size : f[n] \in K /\ Rank(K, f[n]) = n
  BY <1>2
<1>4. p = [n \in 1..size |-> s[f[n]]]
  BY DEF Picked, Rank
<1>5. f \in [1..size -> K]
  BY <1>3
<1> HIDE DEF f, p
<1>6. DOMAIN p = 1..size
  BY <1>4
<1>7. p \in Seq(S)
  <2>1. p \in [1..size -> S]
    BY <1>3, <1>4
  <2>2. QED
    BY <1>2, <2>1
<1>8. \A n \in DOMAIN p : p[n] = s[f[n]]
  BY <1>4, <1>6
<1>9. \A m, n \in DOMAIN p : m < n => f[m] < f[n]
  <2>1. SUFFICES ASSUME NEW m \in 1..size, NEW n \in 1..size, m < n, ~(f[m] < f[n])
                 PROVE  FALSE
    BY <1>6
  <2>2. f[m] \in K /\ f[n] \in K /\ f[m] \in Nat /\ f[n] \in Nat
    BY <1>1, <1>3
  <2>3. f[n] < f[m] \/ f[n] = f[m]
    BY <2>1, <2>2
  <2>4. n < m \/ n = m
    BY <1>2, <1>3, <2>2, <2>3
  <2>5. QED
    BY <1>2, <2>1, <2>4
<1>10. \A i \in K : \E n \in DOMAIN p : f[n] = i
  <2>1. TAKE i \in K
  <2>2. Rank(K, i) \in 1..size /\ f[Rank(K, i)] \in K /\ Rank(K, f[Rank(K, i)]) = Rank(K, i)
    BY <1>2, <1>3
  <2>3. f[Rank(K, i)] \in Nat /\ i \in Nat
    BY <1>1, <2>2
  <2>4. f[Rank(K, i)] = i
    BY <1>2, <2>2, <2>3
  <2>5. QED
    BY <1>6, <2>2, <2>4
<1>11. QED
  BY <1>5, <1>6, <1>7, <1>8, <1>9, <1>10 DEF p

-----------------------------------------------------------------------------
(* The inductive invariant, part by part. *)

\* Where the executor is says what the loop's variables may be: a second timeout
\* in a row has ended the run, a tool at work has a call without an answer, an
\* outcome is there when the loop has been left, and the round that is under way
\* has neither brought progress nor broken off.
ControlInv ==
    /\ pc = "over" \/ timeouts < 2
    /\ pc = "tool" => Len(batch.done) < Len(batch.calls)
    /\ outcome = "none" <=> pc \notin {"finalize", "over"}
    /\ outcome \in {"aborted", "failed"} => pc = "over"
    /\ pc \in {"judging", "model", "late", "batch", "tool"} => round >= 1
    /\ pc \in {"judging", "model", "late", "batch", "tool"} => round \notin gained \cup broken

\* A round with progress has extended the budget when the loop comes to its head.
BudgetInv ==
    /\ BudgetFollowsProgress
    /\ pc = "head" /\ round \in gained => round < limit \/ limit = HardLimit

\* The notices in the messages are those that the executor remembers as transient.
NoticeInv ==
    /\ NoticesLastUntilRead
    /\ transient = NoticesIn(messages)

GuidanceIn(ms) == {m.n : m \in {ms[i] : i \in {j \in DOMAIN ms : ms[j].kind = "guidance"}}}

\* Guidance comes in the order in which it was given.
Ordered(ms) ==
    \A i, j \in DOMAIN ms :
        i < j /\ ms[i].kind = "guidance" /\ ms[j].kind = "guidance" => ms[i].n < ms[j].n

Increasing(s) == \A i, j \in DOMAIN s : i < j => s[i] < s[j]

\* Guidance in the messages comes before what is being judged, and that before
\* what is in the queue; the queue holds the latest items without a gap, and
\* something is being judged only where the executor waits for the judgement.
GuidanceInv ==
    /\ Ordered(messages) /\ Increasing(taken)
    /\ \A g \in GuidanceIn(messages) :
          /\ g \in 1..guided
          /\ \A k \in DOMAIN taken : g < taken[k]
          /\ \A k \in DOMAIN queue : g < queue[k]
    /\ \A i \in DOMAIN taken, k \in DOMAIN queue : taken[i] < queue[k]
    /\ pc \notin {"judging", "late"} => taken = <<>>
    /\ Len(queue) <= QueueLimit
    /\ \A k \in DOMAIN queue : queue[k] = guided - Len(queue) + k
    /\ \A g \in 1..guided :
          \/ g \in GuidanceIn(messages)
          \/ \E k \in DOMAIN taken : taken[k] = g
          \/ \E k \in DOMAIN queue : queue[k] = g
          \/ guided - g >= QueueLimit

\* Text in the answer is of rounds that broke off, but for the last piece, which
\* may be of the round that is about to be discarded or to end the run.
AnswerInv ==
    \A i \in DOMAIN answer :
        \/ answer[i] \in broken
        \/ answer[i] = round /\ i = Len(answer) /\ pc \in {"late", "finalize", "over"}

\* Every call is followed at once by its answers, and there are no others.
WellAnswered(ms) ==
    /\ \A i \in DOMAIN ms : ms[i].kind = "calls" =>
          \A k \in 1..ms[i].n : i + k \in DOMAIN ms /\ ms[i + k] = [kind |-> "tool", n |-> k]
    /\ \A j \in DOMAIN ms : ms[j].kind = "tool" =>
          \E i \in DOMAIN ms :
              ms[i].kind = "calls" /\ j = i + ms[j].n /\ ms[j].n <= ms[i].n

Front(ms) == SubSeq(ms, 1, Len(ms) - 1)

\* Between rounds all calls are answered; while a batch is executed all but its own
\* are, which are the last message.
CallsInv ==
    /\ pc \in {"head", "judging", "model", "late"} => WellAnswered(messages)
    /\ pc \in {"batch", "tool"} =>
          /\ messages # <<>>
          /\ messages[Len(messages)] = [kind |-> "calls", n |-> Len(batch.calls)]
          /\ WellAnswered(Front(messages))

IInv == TypeOK /\ ControlInv /\ BudgetInv /\ NoticeInv /\ GuidanceInv /\ AnswerInv
          /\ CallsInv /\ PlanFollowsTools

-----------------------------------------------------------------------------
(* What the operators on messages return. *)

LEMMA ConstantFacts == HardLimit \in Nat /\ MaxRounds <= HardLimit /\ Plan \in [Steps -> Tools]
<1>1. HardLimit \in Nat /\ MaxRounds <= HardLimit
  <2>1. \A m, n \in Nat \ {0} : m * n \in Nat /\ m <= m * n
    OBVIOUS
  <2>2. QED
    BY <2>1, BudgetAssumption DEF HardLimit
<1>2. QED
  BY <1>1, PlanAssumption DEF Steps

LEMMA ConcatFacts ==
    ASSUME NEW S, NEW s \in Seq(S), NEW t \in Seq(S)
    PROVE  /\ s \o t \in Seq(S) /\ Len(s \o t) = Len(s) + Len(t)
           /\ DOMAIN (s \o t) = 1..(Len(s) + Len(t))
           /\ \A i \in 1..Len(s) : (s \o t)[i] = s[i]
           /\ \A i \in 1..Len(t) : (s \o t)[Len(s) + i] = t[i]
OBVIOUS

LEMMA ConcatMessages ==
    ASSUME NEW s \in Seq(Messages), NEW t \in Seq(Messages)
    PROVE  /\ s \o t \in Seq(Messages) /\ Len(s \o t) = Len(s) + Len(t)
           /\ \A i \in 1..Len(s) : (s \o t)[i] = s[i]
           /\ \A i \in 1..Len(t) : (s \o t)[Len(s) + i] = t[i]
BY ConcatFacts

\* Where a concatenation has its elements.
LEMMA ConcatPositions ==
    ASSUME NEW S, NEW s \in Seq(S), NEW t \in Seq(S)
    PROVE  /\ \A i \in DOMAIN s : i \in DOMAIN (s \o t) /\ (s \o t)[i] = s[i]
           /\ \A i \in DOMAIN t : Len(s) + i \in DOMAIN (s \o t) /\ (s \o t)[Len(s) + i] = t[i]
           /\ \A i \in DOMAIN (s \o t) : i \in DOMAIN s \/ \E j \in DOMAIN t : i = Len(s) + j
<1> DEFINE c == s \o t
<1>1. /\ DOMAIN c = 1..(Len(s) + Len(t))
      /\ \A i \in 1..Len(s) : c[i] = s[i]
      /\ \A i \in 1..Len(t) : c[Len(s) + i] = t[i]
  BY ConcatFacts
<1>2. DOMAIN s = 1..Len(s) /\ DOMAIN t = 1..Len(t) /\ Len(s) \in Nat /\ Len(t) \in Nat
  OBVIOUS
<1> HIDE DEF c
<1>3. \A i \in DOMAIN s : i \in DOMAIN c /\ c[i] = s[i]
  BY <1>1, <1>2
<1>4. \A i \in DOMAIN t : Len(s) + i \in DOMAIN c /\ c[Len(s) + i] = t[i]
  BY <1>1, <1>2
<1>5. \A i \in DOMAIN c : i \in DOMAIN s \/ \E j \in DOMAIN t : i = Len(s) + j
  <2>1. TAKE i \in DOMAIN c
  <2>2. i \in Nat /\ 1 <= i /\ i <= Len(s) + Len(t)
    BY <1>1, <1>2
  <2>3. CASE i <= Len(s)
    BY <1>2, <2>2, <2>3
  <2>4. CASE ~(i <= Len(s))
    <3>1. i - Len(s) \in 1..Len(t) /\ i = Len(s) + (i - Len(s))
      BY <1>2, <2>2, <2>4
    <3>2. QED
      BY <1>2, <3>1
  <2>5. QED
    BY <2>3, <2>4
<1>6. QED
  BY <1>3, <1>4, <1>5 DEF c

LEMMA AppendFacts ==
    ASSUME NEW S, NEW s \in Seq(S), NEW e \in S
    PROVE  /\ Append(s, e) \in Seq(S) /\ Len(Append(s, e)) = Len(s) + 1
           /\ DOMAIN Append(s, e) = 1..(Len(s) + 1)
           /\ \A i \in 1..Len(s) : Append(s, e)[i] = s[i]
           /\ Append(s, e)[Len(s) + 1] = e
OBVIOUS

\* A sequence without its first elements, and one without its last.
LEMMA SuffixFacts ==
    ASSUME NEW S, NEW s \in Seq(S), NEW d \in 0..Len(s)
    PROVE  /\ SubSeq(s, d + 1, Len(s)) \in Seq(S)
           /\ Len(SubSeq(s, d + 1, Len(s))) = Len(s) - d
           /\ \A k \in 1..(Len(s) - d) : SubSeq(s, d + 1, Len(s))[k] = s[d + k]
OBVIOUS

LEMMA FrontFacts ==
    ASSUME NEW S, NEW s \in Seq(S), s # <<>>
    PROVE  /\ SubSeq(s, 1, Len(s) - 1) \in Seq(S)
           /\ Len(SubSeq(s, 1, Len(s) - 1)) = Len(s) - 1
           /\ \A k \in 1..(Len(s) - 1) : SubSeq(s, 1, Len(s) - 1)[k] = s[k]
<1>1. Len(s) \in Nat /\ Len(s) # 0
  OBVIOUS
<1>2. Len(s) - 1 \in 0..Len(s)
  BY <1>1
<1>3. \A n \in 0..Len(s) : SubSeq(s, 1, n) \in Seq(S) /\ Len(SubSeq(s, 1, n)) = n
                             /\ \A k \in 1..n : SubSeq(s, 1, n)[k] = s[k]
  OBVIOUS
<1>4. QED
  BY <1>2, <1>3

\* The last n items are a suffix, of n items if there are as many.
LEMMA LastFacts ==
    ASSUME NEW S, NEW s \in Seq(S), NEW n \in Nat
    PROVE  \E d \in 0..Len(s) :
              /\ d = IF Len(s) > n THEN Len(s) - n ELSE 0
              /\ Last(s, n) = SubSeq(s, d + 1, Len(s))
<1>1. CASE Len(s) > n
  <2>1. Len(s) - n \in 0..Len(s)
    BY <1>1
  <2>2. QED
    BY <1>1, <2>1 DEF Last
<1>2. CASE ~(Len(s) > n)
  BY <1>2 DEF Last
<1>3. QED
  BY <1>1, <1>2

LEMMA NoticesType ==
    ASSUME NEW k \in Nat, notices \in Nat
    PROVE  /\ Notices(k) \in Seq(Messages) /\ Len(Notices(k)) = k
           /\ \A i \in 1..k : Notices(k)[i] = [kind |-> "notice", n |-> notices + i]
<1>1. Notices(k) \in [1..k -> Messages]
  BY DEF Notices, Messages, Kinds
<1>2. QED
  BY <1>1 DEF Notices

LEMMA AnsweredType ==
    ASSUME TypeOK
    PROVE  /\ Answered \in Seq(Messages)
           /\ Len(Answered) = Len(batch.done) + batch.advice
           /\ \A i \in 1..Len(batch.done) : Answered[i] = [kind |-> "tool", n |-> i]
           /\ \A i \in 1..batch.advice :
                 Answered[Len(batch.done) + i] = [kind |-> "notice", n |-> notices + i]
<1> DEFINE tools == [i \in DOMAIN batch.done |-> [kind |-> "tool", n |-> i]]
<1>1. /\ batch.done \in Seq(Events) /\ batch.advice \in Nat /\ notices \in Nat
      /\ DOMAIN batch.done = 1..Len(batch.done) /\ Len(batch.done) \in Nat
  BY DEF TypeOK
<1>2. tools \in [1..Len(batch.done) -> Messages]
  BY <1>1 DEF Messages, Kinds
<1>3. tools \in Seq(Messages) /\ Len(tools) = Len(batch.done)
  BY <1>1, <1>2
<1>4. \A i \in 1..Len(batch.done) : tools[i] = [kind |-> "tool", n |-> i]
  BY <1>1
<1>5. Answered = tools \o Notices(batch.advice)
  BY DEF Answered
<1> HIDE DEF tools
<1>6. Notices(batch.advice) \in Seq(Messages) /\ Len(Notices(batch.advice)) = batch.advice
  BY <1>1, NoticesType
<1>7. /\ Answered \in Seq(Messages)
      /\ Len(Answered) = Len(tools) + Len(Notices(batch.advice))
      /\ \A i \in 1..Len(tools) : Answered[i] = tools[i]
      /\ \A i \in 1..Len(Notices(batch.advice)) :
            Answered[Len(tools) + i] = Notices(batch.advice)[i]
  BY SMTT(40), <1>3, <1>5, <1>6, ConcatFacts
<1>8. \A i \in 1..batch.advice :
         Notices(batch.advice)[i] = [kind |-> "notice", n |-> notices + i]
  BY <1>1, NoticesType
<1>9. QED
  BY <1>3, <1>4, <1>6, <1>7, <1>8

LEMMA ReorientedType ==
    ASSUME TypeOK
    PROVE  /\ Reoriented \in Seq(Messages)
           /\ Len(Reoriented) = Len(taken) + 2
           /\ Reoriented[1].kind = "contract" /\ Reoriented[2].kind = "orientation"
           /\ \A k \in 1..Len(taken) : Reoriented[k + 2] = [kind |-> "guidance", n |-> taken[k]]
<1> DEFINE head == <<[kind |-> "contract", n |-> 0], [kind |-> "orientation", n |-> 0]>>
           tail == [i \in DOMAIN taken |-> [kind |-> "guidance", n |-> taken[i]]]
<1>1. taken \in Seq(1..guided) /\ DOMAIN taken = 1..Len(taken) /\ Len(taken) \in Nat
  BY DEF TypeOK
<1>2. \A i \in 1..Len(taken) : taken[i] \in Nat
  BY SMTT(40), QueueAssumption DEF TypeOK
<1>3. tail \in [1..Len(taken) -> Messages]
  BY <1>1, <1>2 DEF Messages, Kinds
<1>4. tail \in Seq(Messages) /\ Len(tail) = Len(taken)
  BY <1>1, <1>3
<1>5. head \in Seq(Messages) /\ Len(head) = 2
      /\ head[1].kind = "contract" /\ head[2].kind = "orientation"
  BY DEF Messages, Kinds
<1>6. \A k \in 1..Len(taken) : tail[k] = [kind |-> "guidance", n |-> taken[k]]
  BY <1>1
<1>7. Reoriented = head \o tail
  BY DEF Reoriented
<1> HIDE DEF head, tail
<1>a. /\ head \o tail \in Seq(Messages) /\ Len(head \o tail) = Len(head) + Len(tail)
      /\ \A i \in 1..Len(head) : (head \o tail)[i] = head[i]
      /\ \A k \in 1..Len(tail) : (head \o tail)[Len(head) + k] = tail[k]
  BY <1>4, <1>5, ConcatMessages
<1>8. /\ head \o tail \in Seq(Messages) /\ Len(head \o tail) = 2 + Len(taken)
      /\ \A i \in 1..2 : (head \o tail)[i] = head[i]
      /\ \A k \in 1..Len(taken) : (head \o tail)[2 + k] = tail[k]
  BY <1>4, <1>5, <1>a
<1>9. \A k \in 1..Len(taken) : k + 2 = 2 + k
  BY <1>1
<1>10. QED
  BY SMTT(40), <1>1, <1>5, <1>6, <1>7, <1>8, <1>9

LEMMA PickedMessages ==
    ASSUME NEW s \in Seq(Messages), NEW K \in SUBSET DOMAIN s
    PROVE  \E f \in [DOMAIN Picked(s, K) -> K] :
              /\ Picked(s, K) \in Seq(Messages)
              /\ \A n \in DOMAIN Picked(s, K) : Picked(s, K)[n] = s[f[n]]
              /\ \A m, n \in DOMAIN Picked(s, K) : m < n => f[m] < f[n]
              /\ \A i \in K : \E n \in DOMAIN Picked(s, K) : f[n] = i
BY PickedFacts

LEMMA PickedType ==
    ASSUME NEW s \in Seq(Messages), NEW K \in SUBSET DOMAIN s
    PROVE  Picked(s, K) \in Seq(Messages)
BY PickedFacts

LEMMA ConsumedType ==
    ASSUME TypeOK
    PROVE  Consumed \in Seq(Messages)
BY PickedType DEF Consumed, TypeOK

LEMMA WithoutPackType ==
    ASSUME NEW ms \in Seq(Messages)
    PROVE  WithoutPack(ms) \in Seq(Messages)
BY PickedType DEF WithoutPack

-----------------------------------------------------------------------------
(* Types and control. *)

TypeInv == TypeOK /\ ControlInv

LEMMA InitType == Init => TypeInv
<1>1. Init => TypeOK
  BY ConstantFacts, BudgetAssumption, QueueAssumption
     DEF Init, TypeOK, NoBatch, Messages, Events, Calls, Steps
<1>2. Init => ControlInv
  BY BudgetAssumption DEF Init, ControlInv, NoBatch
<1>3. QED
  BY <1>1, <1>2 DEF TypeInv

LEMMA GuideType == ASSUME TypeInv, Guide PROVE TypeInv'
<1>1. queue' \in Seq(1..guided') /\ guided' \in 0..MaxGuidance
  <2>1. /\ queue \in Seq(1..guided) /\ guided \in 0..MaxGuidance /\ guided < MaxGuidance
        /\ guided' = guided + 1 /\ queue' = Last(Append(queue, guided + 1), QueueLimit)
    BY DEF TypeInv, TypeOK, Guide
  <2>2. Append(queue, guided + 1) \in Seq(1..guided')
    <3>1. queue \in Seq(1..guided') /\ guided + 1 \in 1..guided'
      BY <2>1, QueueAssumption
    <3>2. QED
      BY <3>1
  <2>3. QueueLimit \in Nat
    BY QueueAssumption
  <2>4. PICK d \in 0..Len(Append(queue, guided + 1)) :
           queue' = SubSeq(Append(queue, guided + 1), d + 1, Len(Append(queue, guided + 1)))
    BY <2>1, <2>2, <2>3, LastFacts
  <2>5. queue' \in Seq(1..guided')
    BY <2>2, <2>4, SuffixFacts
  <2>6. guided' \in 0..MaxGuidance
    BY <2>1, QueueAssumption
  <2>7. QED
    BY <2>5, <2>6
<1>2. taken \in Seq(1..guided')
  BY SMTT(40), QueueAssumption DEF TypeInv, TypeOK, Guide
<1>3. TypeOK'
  BY ZenonT(40), <1>1, <1>2 DEF TypeInv, TypeOK, Guide, budgetVars, noticeVars, toolVars
<1>4. ControlInv'
  BY DEF TypeInv, ControlInv, Guide, budgetVars, noticeVars, toolVars
<1>5. QED
  BY <1>3, <1>4 DEF TypeInv

LEMMA StartRoundType == ASSUME TypeInv, StartRound PROVE TypeInv'
<1>1. TypeOK'
  <2>1. /\ round \in Nat /\ limit \in Nat /\ round < limit /\ round' = round + 1
        /\ limit' = limit /\ limit \in MaxRounds..HardLimit
    BY ConstantFacts, BudgetAssumption DEF TypeInv, TypeOK, StartRound, MayStart
  <2>2. round' \in 0..limit' /\ limit' \in MaxRounds..HardLimit
    BY <2>1
  <2>3. \A i \in 1..round : i \in 1..round'
    BY <2>1
  <2>4. answer' \in Seq(1..round') /\ broken' \subseteq 1..round' /\ gained' \subseteq 1..round'
    <3>1. /\ answer \in Seq(1..round) /\ broken \subseteq 1..round /\ gained \subseteq 1..round
          /\ answer' = answer /\ broken' = broken /\ gained' = gained
      BY DEF TypeInv, TypeOK, StartRound
    <3>2. 1..round \subseteq 1..round'
      BY <2>3
    <3>3. Seq(1..round) \subseteq Seq(1..round')
      BY <2>1
    <3>4. QED
      BY <3>1, <3>2, <3>3
  <2>5. /\ queue' \in Seq(1..guided') /\ taken' \in Seq(1..guided')
        /\ guided' \in 0..MaxGuidance
    <3>1. /\ queue \in Seq(1..guided) /\ guided \in 0..MaxGuidance
          /\ queue' = <<>> /\ taken' = queue /\ guided' = guided
      BY DEF TypeInv, TypeOK, StartRound, Pop
    <3>2. QED
      BY <3>1
  <2>6. pc' \in {"model", "judging"}
    BY DEF StartRound
  <2>7. QED
    BY <2>2, <2>4, <2>5, <2>6 DEF TypeInv, TypeOK, StartRound, noticeVars, toolVars
<1>2. ControlInv'
  BY DEF TypeInv, TypeOK, ControlInv, StartRound, Pop, noticeVars, toolVars
<1>3. QED
  BY <1>1, <1>2 DEF TypeInv

LEMMA ExhaustedType == ASSUME TypeInv, Exhausted PROVE TypeInv'
<1>1. TypeOK'
  BY DEF TypeInv, TypeOK, Exhausted, budgetVars, noticeVars, guidanceVars, toolVars
<1>2. ControlInv'
  BY DEF TypeInv, ControlInv, Exhausted, budgetVars, noticeVars, guidanceVars, toolVars
<1>3. QED
  BY <1>1, <1>2 DEF TypeInv

LEMMA JudgedType == ASSUME TypeInv, Judged PROVE TypeInv'
<1>1. messages' \in Seq(Messages)
  BY ReorientedType, ConcatFacts DEF TypeInv, TypeOK, Judged
<1>2. answer' \in Seq(1..round')
  <2>1. answer \in Seq(1..round) /\ round' = round
    BY DEF TypeInv, TypeOK, Judged, budgetVars
  <2>2. Discarded \in Seq(1..round)
    BY <2>1, FrontFacts DEF Discarded
  <2>3. QED
    BY <2>1, <2>2 DEF Judged
<1>3. plan' \in [Steps -> {"pending", "running", "completed", "failed", "skipped"}]
  BY DEF TypeInv, TypeOK, Judged, Interrupted, Running
<1>4. TypeOK'
  BY SMTT(40), <1>1, <1>2, <1>3 DEF TypeInv, TypeOK, Judged, budgetVars, noticeVars
<1>5. ControlInv'
  BY DEF TypeInv, ControlInv, Judged, budgetVars, noticeVars
<1>6. QED
  BY <1>4, <1>5 DEF TypeInv

\* What a round streams is of this round, and ends a series of timeouts or not.
LEMMA StreamsType ==
    ASSUME TypeInv, pc = "model", UNCHANGED round, NEW what, Streams(what)
    PROVE  answer' \in Seq(1..round') /\ timeouts' \in 0..2 /\ timeouts' < 2
<1>1. round \in 1..round /\ answer \in Seq(1..round) /\ round' = round
  <2>1. round \in Nat /\ round >= 1
    BY ConstantFacts, BudgetAssumption DEF TypeInv, TypeOK, ControlInv
  <2>2. QED
    BY <2>1 DEF TypeInv, TypeOK
<1>2. Append(answer, round) \in Seq(1..round)
  BY <1>1, AppendFacts
<1>3. answer' \in Seq(1..round')
  BY <1>1, <1>2 DEF Streams
<1>4. QED
  BY <1>3 DEF TypeInv, TypeOK, ControlInv, Streams

LEMMA ModelFailsType == ASSUME TypeInv, ModelFails PROVE TypeInv'
<1>1. answer' \in Seq(1..round') /\ timeouts' \in 0..2 /\ timeouts' < 2
  BY StreamsType DEF ModelFails, budgetVars
<1>2. TypeOK'
  BY SMTT(40), <1>1 DEF TypeInv, TypeOK, ControlInv, ModelFails, GivesUp, budgetVars, noticeVars,
              guidanceVars, toolVars
<1>3. ControlInv'
  BY <1>1 DEF TypeInv, ControlInv, ModelFails, GivesUp, budgetVars, noticeVars, guidanceVars,
              toolVars
<1>4. QED
  BY <1>2, <1>3 DEF TypeInv

LEMMA IdleTimeoutType == ASSUME TypeInv, IdleTimeout PROVE TypeInv'
<1>1. answer' \in Seq(1..round') /\ timeouts' \in 0..2
  <2>1. round \in 1..round /\ answer \in Seq(1..round) /\ round' = round
    <3>1. round \in Nat /\ round >= 1
      BY ConstantFacts, BudgetAssumption DEF TypeInv, TypeOK, ControlInv, IdleTimeout
    <3>2. QED
      BY <3>1 DEF TypeInv, TypeOK, IdleTimeout, budgetVars
  <2>2. Append(answer, round) \in Seq(1..round)
    BY <2>1, AppendFacts
  <2>3. answer' = Append(answer, round) \/ answer' = answer
    BY DEF IdleTimeout
  <2>4. answer' \in Seq(1..round')
    BY <2>1, <2>2, <2>3
  <2>5. timeouts' \in 0..2
    BY DEF TypeInv, TypeOK, ControlInv, IdleTimeout
  <2>6. QED
    BY <2>4, <2>5
<1>a. round \in 1..round /\ broken' \subseteq 1..round'
  <2>1. round \in Nat /\ round >= 1
    BY ConstantFacts, BudgetAssumption DEF TypeInv, TypeOK, ControlInv, IdleTimeout
  <2>2. QED
    BY SMTT(40), <2>1 DEF TypeInv, TypeOK, IdleTimeout, budgetVars
<1>2. TypeOK'
  BY <1>1, <1>a DEF TypeInv, TypeOK, ControlInv, IdleTimeout, budgetVars, noticeVars, guidanceVars,
              toolVars
<1>3. ControlInv'
  BY <1>1 DEF TypeInv, ControlInv, IdleTimeout, budgetVars, noticeVars, guidanceVars, toolVars
<1>4. QED
  BY <1>2, <1>3 DEF TypeInv

\* A usable response: what was shown of notices is read, and the messages are typed.
LEMMA ConsumeType ==
    ASSUME TypeInv, NoticesLastUntilRead
    PROVE  Consumed \in Seq(Messages) /\ read \cup NoticesIn(messages) \subseteq 1..notices
<1>1. Consumed \in Seq(Messages)
  BY ConsumedType DEF TypeInv
<1>2. read \subseteq 1..notices /\ NoticesIn(messages) \subseteq 1..notices
  BY DEF TypeInv, TypeOK, NoticesLastUntilRead
<1>3. QED
  BY <1>1, <1>2

LEMMA OvertakenType == ASSUME TypeInv, NoticesLastUntilRead, Overtaken PROVE TypeInv'
<1>1. answer' \in Seq(1..round') /\ timeouts' \in 0..2 /\ timeouts' < 2
  BY StreamsType DEF Overtaken, budgetVars
<1>2. messages' \in Seq(Messages) /\ read' \subseteq 1..notices' /\ transient' = {}
  BY ConsumeType DEF Overtaken, Consume
<1>3. queue' \in Seq(1..guided') /\ taken' \in Seq(1..guided')
  BY DEF TypeInv, TypeOK, Overtaken, Pop
<1>4. TypeOK'
  BY <1>1, <1>2, <1>3 DEF TypeInv, TypeOK, Overtaken, Consume, Pop, budgetVars, toolVars
<1>5. ControlInv'
  BY <1>1 DEF TypeInv, ControlInv, Overtaken, Consume, Pop, budgetVars, toolVars
<1>6. QED
  BY <1>4, <1>5 DEF TypeInv

LEMMA AnswersType == ASSUME TypeInv, NoticesLastUntilRead, Answers PROVE TypeInv'
<1>1. answer' \in Seq(1..round') /\ timeouts' \in 0..2 /\ timeouts' < 2
  BY StreamsType DEF Answers, budgetVars
<1>2. messages' \in Seq(Messages) /\ read' \subseteq 1..notices' /\ transient' = {}
  BY ConsumeType DEF Answers, Consume
<1>3. TypeOK'
  BY <1>1, <1>2 DEF TypeInv, TypeOK, Answers, Consume, budgetVars, guidanceVars, toolVars
<1>4. ControlInv'
  BY <1>1 DEF TypeInv, ControlInv, Answers, Consume, budgetVars, guidanceVars, toolVars
<1>5. QED
  BY <1>3, <1>4 DEF TypeInv

LEMMA MalformedType == ASSUME TypeInv, NoticesLastUntilRead, Malformed PROVE TypeInv'
<1>1. notices \in Nat /\ notices' = notices + 1
  BY DEF TypeInv, TypeOK, Malformed
<1>2. messages' \in Seq(Messages)
  <2>1. [kind |-> "notice", n |-> notices + 1] \in Messages
    BY <1>1 DEF Messages, Kinds
  <2>2. QED
    BY <2>1, ConsumeType, AppendFacts DEF Malformed
<1>3. read' \subseteq 1..notices' /\ transient' \subseteq 1..notices'
  <2>1. read' \subseteq 1..notices
    BY ConsumeType DEF Malformed
  <2>2. QED
    BY <1>1, <2>1 DEF Malformed
<1>4. TypeOK'
  BY SMTT(40), <1>1, <1>2, <1>3 DEF TypeInv, TypeOK, Malformed, budgetVars, guidanceVars, toolVars
<1>5. ControlInv'
  BY DEF TypeInv, ControlInv, Malformed, budgetVars, guidanceVars, toolVars
<1>6. QED
  BY <1>4, <1>5 DEF TypeInv

LEMMA NoBatchFacts ==
    /\ NoBatch \in [calls : Seq(Calls), truncated : BOOLEAN, done : Seq(Events),
                    advice : Nat, step : Steps \cup {0}]
    /\ NoBatch.calls = <<>> /\ NoBatch.done = <<>> /\ NoBatch.advice = 0 /\ NoBatch.step = 0
BY DEF NoBatch

LEMMA CallsToolsType == ASSUME TypeInv, NoticesLastUntilRead, CallsTools PROVE TypeInv'
<1>1. PICK n \in 1..(MaxCalls - Len(events)) : \E calls \in [1..n -> Calls], truncated \in BOOLEAN :
          /\ batch' = [NoBatch EXCEPT !.calls = calls, !.truncated = truncated]
          /\ read' = read \cup NoticesIn(messages)
          /\ messages' = Append(Consumed, [kind |-> "calls", n |-> n])
  BY DEF CallsTools
<1>2. PICK calls \in [1..n -> Calls], truncated \in BOOLEAN :
          /\ batch' = [NoBatch EXCEPT !.calls = calls, !.truncated = truncated]
          /\ read' = read \cup NoticesIn(messages)
          /\ messages' = Append(Consumed, [kind |-> "calls", n |-> n])
  BY <1>1
<1>3. n \in Nat
  BY CallsAssumption DEF TypeInv, TypeOK
<1>4. messages' \in Seq(Messages)
  <2>1. [kind |-> "calls", n |-> n] \in Messages
    BY <1>3 DEF Messages, Kinds
  <2>2. QED
    BY <1>2, <2>1, ConsumeType, AppendFacts
<1>5. /\ batch' \in [calls : Seq(Calls), truncated : BOOLEAN, done : Seq(Events),
                     advice : Nat, step : Steps \cup {0}]
      /\ Len(batch'.done) <= Len(batch'.calls)
  <2>1. calls \in Seq(Calls) /\ Len(calls) \in Nat
    BY <1>3
  <2>2. /\ batch' = [calls |-> calls, truncated |-> truncated, done |-> <<>>, advice |-> 0,
                     step |-> 0]
    <3>1. batch' = [calls |-> calls, truncated |-> truncated, done |-> NoBatch.done,
                    advice |-> NoBatch.advice, step |-> NoBatch.step]
      BY <1>2, NoBatchFacts
    <3>2. QED
      BY <3>1, NoBatchFacts
  <2>3. <<>> \in Seq(Events) /\ Len(<<>>) = 0
    OBVIOUS
  <2>4. QED
    BY <2>1, <2>2, <2>3
<1>6. read' \subseteq 1..notices' /\ transient' \subseteq 1..notices'
  BY <1>2, ConsumeType DEF CallsTools
<1>7. TypeOK'
  <2>1. /\ pc' = "batch" /\ timeouts' = 0
        /\ UNCHANGED <<round, limit, gained, retries, strict, notices, queue, taken, guided,
                       events, plan, state, answer, outcome, broken>>
    BY DEF CallsTools, budgetVars, guidanceVars
  <2>2. TypeOK
    BY DEF TypeInv
  <2>3. timeouts' \in 0..2 /\ retries' \in 0..1 /\ round' \in 0..limit' /\ limit' \in MaxRounds..HardLimit
    BY <2>1, <2>2 DEF TypeOK
  <2>4. messages' \in Seq(Messages) /\ notices' \in Nat
    BY <1>4, <2>1, <2>2 DEF TypeOK
  <2>5. transient' \subseteq 1..notices' /\ read' \subseteq 1..notices'
    BY <1>6
  <2>6. events' \in Seq(Events) /\ queue' \in Seq(1..guided') /\ taken' \in Seq(1..guided') /\ guided' \in 0..MaxGuidance
    BY <2>1, <2>2 DEF TypeOK
  <2>7. plan' \in [Steps -> {"pending", "running", "completed", "failed", "skipped"}]
    BY <2>1, <2>2 DEF TypeOK
  <2>8. state' \in [repair : BOOLEAN, seen : SUBSET Calls, reads : Nat, summed : BOOLEAN]
    BY <2>1, <2>2 DEF TypeOK
  <2>9. answer' \in Seq(1..round') /\ broken' \subseteq 1..round' /\ gained' \subseteq 1..round'
    BY <2>1, <2>2 DEF TypeOK
  <2>10. QED
    BY <1>5, <2>1, <2>2, <2>3, <2>4, <2>5, <2>6, <2>7, <2>8, <2>9 DEF TypeOK
<1>8. ControlInv'
  BY DEF TypeInv, ControlInv, CallsTools, budgetVars, guidanceVars
<1>9. QED
  BY <1>7, <1>8 DEF TypeInv

\* A call that is done: one more of the batch has its event.
LEMMA DoneType ==
    ASSUME TypeOK, Len(batch.done) < Len(batch.calls),
           NEW status \in Statuses, NEW advised, Done(status, advised)
    PROVE  /\ batch' \in [calls : Seq(Calls), truncated : BOOLEAN, done : Seq(Events),
                          advice : Nat, step : Steps \cup {0}]
           /\ batch'.calls = batch.calls /\ batch'.step = 0
           /\ Len(batch'.done) = Len(batch.done) + 1
           /\ Call \in Calls
<1>1. /\ batch \in [calls : Seq(Calls), truncated : BOOLEAN, done : Seq(Events),
                    advice : Nat, step : Steps \cup {0}]
      /\ Len(batch.done) \in Nat /\ Len(batch.calls) \in Nat
  BY DEF TypeOK
<1>2. Call \in Calls
  BY <1>1 DEF Call
<1>3. [call |-> Call, status |-> status] \in Events
  BY <1>2 DEF Events
<1> DEFINE done == Append(batch.done, [call |-> Call, status |-> status])
           advice == IF advised THEN batch.advice + 1 ELSE batch.advice
<1>4. done \in Seq(Events) /\ Len(done) = Len(batch.done) + 1
  BY <1>1, <1>3, AppendFacts
<1>5. advice \in Nat
  BY <1>1
<1>6. batch' = [calls |-> batch.calls, truncated |-> batch.truncated, done |-> done,
                advice |-> advice, step |-> 0]
  BY <1>1 DEF Done
<1> HIDE DEF done, advice
<1>7. QED
  BY <1>1, <1>2, <1>4, <1>5, <1>6

LEMMA SkipCallType == ASSUME TypeInv, SkipCall PROVE TypeInv'
<1>1. TypeOK /\ Len(batch.done) < Len(batch.calls) /\ "failure" \in Statuses
  BY DEF TypeInv, SkipCall, Statuses
<1>2. /\ batch' \in [calls : Seq(Calls), truncated : BOOLEAN, done : Seq(Events),
                     advice : Nat, step : Steps \cup {0}]
      /\ Len(batch'.done) <= Len(batch'.calls)
  <2>1. Done("failure", Call.tool = "write")
    BY DEF SkipCall
  <2>2. batch'.calls = batch.calls /\ Len(batch'.done) = Len(batch.done) + 1
    BY <1>1, <2>1, DoneType
  <2>3. Len(batch.done) \in Nat /\ Len(batch.calls) \in Nat
    BY DEF TypeInv, TypeOK
  <2>4. QED
    BY <1>1, <2>1, <2>2, <2>3, DoneType
<1>3. state' \in [repair : BOOLEAN, seen : SUBSET Calls, reads : Nat, summed : BOOLEAN]
  BY DEF TypeInv, TypeOK, SkipCall
<1>4. TypeOK'
  BY <1>2, <1>3 DEF TypeInv, TypeOK, SkipCall, budgetVars, noticeVars, guidanceVars
<1>5. ControlInv'
  BY DEF TypeInv, ControlInv, SkipCall, budgetVars, noticeVars, guidanceVars
<1>6. QED
  BY <1>4, <1>5 DEF TypeInv

\* A step that fits a tool is a pending one of the plan.
LEMMA MatchingFacts ==
    ASSUME TypeOK, NEW tool
    PROVE  Matching(tool) = 0 \/ (Matching(tool) \in Steps /\ plan[Matching(tool)] = "pending")
<1> DEFINE fits == {s \in Steps : plan[s] = "pending" /\ Plan[s] = tool}
<1>1. fits \subseteq Nat
  <2>1. Steps = 1..Len(Plan) /\ Len(Plan) \in Nat
    BY PlanAssumption DEF Steps
  <2>2. QED
    BY <2>1
<1>2. CASE fits = {}
  BY <1>2 DEF Matching
<1>3. CASE fits # {}
  <2>3. \E s \in fits : \A t \in fits : s <= t
    BY <1>1, <1>3, LeastNumber
  <2>4. Matching(tool) = CHOOSE s \in fits : \A t \in fits : s <= t
    BY <1>3 DEF Matching
  <2>5. Matching(tool) \in fits
    <3> HIDE DEF fits
    <3>1. QED
      BY <2>3, <2>4
  <2>6. QED
    BY <2>5
<1>4. QED
  BY <1>2, <1>3

LEMMA StartCallType == ASSUME TypeInv, StartCall PROVE TypeInv'
<1> DEFINE s == Matching(Call.tool)
<1>1. s = 0 \/ s \in Steps
  BY MatchingFacts DEF TypeInv
<1> HIDE DEF s
<1>2. plan' = (IF s = 0 THEN plan ELSE [plan EXCEPT ![s] = "running"])
      /\ batch' = [batch EXCEPT !.step = s]
  BY DEF StartCall, s
<1>3. plan' \in [Steps -> {"pending", "running", "completed", "failed", "skipped"}]
  BY <1>1, <1>2 DEF TypeInv, TypeOK
<1>4. /\ batch' \in [calls : Seq(Calls), truncated : BOOLEAN, done : Seq(Events),
                     advice : Nat, step : Steps \cup {0}]
      /\ batch'.done = batch.done /\ batch'.calls = batch.calls
  BY <1>1, <1>2 DEF TypeInv, TypeOK
<1>5. TypeOK'
  BY <1>3, <1>4 DEF TypeInv, TypeOK, StartCall, budgetVars, noticeVars, guidanceVars
<1>6. ControlInv'
  BY <1>4 DEF TypeInv, ControlInv, StartCall, budgetVars, noticeVars, guidanceVars
<1>7. QED
  BY <1>5, <1>6 DEF TypeInv

LEMMA EndCallType == ASSUME TypeInv, EndCall PROVE TypeInv'
<1>1. TypeOK /\ Len(batch.done) < Len(batch.calls)
  BY DEF TypeInv, ControlInv, EndCall
<1>2. PICK status \in Statuses, repairable \in BOOLEAN :
          LET write == Call.tool = "write"
              fresh == ~write /\ ~state.repair
              again == fresh /\ Call \in state.seen
          IN  /\ Done(status, repairable \/ (again /\ status = "success"))
              /\ state' = [repair |-> IF repairable THEN TRUE
                                      ELSE state.repair /\ ~(write /\ status = "success"),
                           seen   |-> IF fresh /\ status = "success"
                                      THEN state.seen \cup {Call} ELSE state.seen,
                           reads  |-> IF ~write /\ status = "success"
                                      THEN state.reads + 1 ELSE state.reads,
                           summed |-> state.summed]
              /\ plan' = IF batch.step = 0 THEN plan
                         ELSE [plan EXCEPT ![batch.step] =
                                  IF status = "success" THEN "completed" ELSE "failed"]
  BY DEF EndCall
<1>3. PICK advised : Done(status, advised)
  BY <1>2
<1>4. /\ batch' \in [calls : Seq(Calls), truncated : BOOLEAN, done : Seq(Events),
                     advice : Nat, step : Steps \cup {0}]
      /\ Len(batch'.done) <= Len(batch'.calls)
      /\ Call \in Calls
  <2>1. /\ batch' \in [calls : Seq(Calls), truncated : BOOLEAN, done : Seq(Events),
                       advice : Nat, step : Steps \cup {0}]
        /\ batch'.calls = batch.calls /\ Len(batch'.done) = Len(batch.done) + 1
        /\ Call \in Calls
    BY <1>1, <1>3, DoneType
  <2>2. Len(batch.done) \in Nat /\ Len(batch.calls) \in Nat
    BY <1>1 DEF TypeOK
  <2>3. QED
    BY <1>1, <2>1, <2>2
<1>5. state' \in [repair : BOOLEAN, seen : SUBSET Calls, reads : Nat, summed : BOOLEAN]
  <2> DEFINE write == Call.tool = "write"
             fresh == ~write /\ ~state.repair
             repair == IF repairable THEN TRUE ELSE state.repair /\ ~(write /\ status = "success")
             seen == IF fresh /\ status = "success" THEN state.seen \cup {Call} ELSE state.seen
             reads == IF ~write /\ status = "success" THEN state.reads + 1 ELSE state.reads
  <2>1. state' = [repair |-> repair, seen |-> seen, reads |-> reads, summed |-> state.summed]
    BY <1>2
  <2>2. state \in [repair : BOOLEAN, seen : SUBSET Calls, reads : Nat, summed : BOOLEAN]
    BY <1>1 DEF TypeOK
  <2>3. repair \in BOOLEAN
    BY <2>2
  <2>4. seen \in SUBSET Calls /\ reads \in Nat /\ state.summed \in BOOLEAN
    BY <1>4, <2>2
  <2> HIDE DEF repair, seen, reads
  <2>5. QED
    BY <2>1, <2>3, <2>4
<1>6. plan' \in [Steps -> {"pending", "running", "completed", "failed", "skipped"}]
  BY <1>1, <1>2 DEF TypeOK
<1>7. TypeOK'
  BY <1>1, <1>4, <1>5, <1>6 DEF TypeOK, EndCall, budgetVars, noticeVars, guidanceVars
<1>8. ControlInv'
  BY DEF TypeInv, ControlInv, EndCall, budgetVars, noticeVars, guidanceVars
<1>9. QED
  BY <1>7, <1>8 DEF TypeInv

LEMMA CallRaisesType == ASSUME TypeInv, CallRaises PROVE TypeInv'
<1>1. TypeOK'
  BY DEF TypeInv, TypeOK, CallRaises, budgetVars, noticeVars, guidanceVars, toolVars
<1>2. ControlInv'
  BY DEF TypeInv, ControlInv, CallRaises, budgetVars, noticeVars, guidanceVars, toolVars
<1>3. QED
  BY <1>1, <1>2 DEF TypeInv

LEMMA FinalizeType == ASSUME TypeInv, Finalize PROVE TypeInv'
<1>1. plan' \in [Steps -> {"pending", "running", "completed", "failed", "skipped"}]
  BY DEF TypeInv, TypeOK, Finalize, Settled
<1>2. TypeOK'
  BY <1>1 DEF TypeInv, TypeOK, Finalize, budgetVars, noticeVars, guidanceVars
<1>3. ControlInv'
  BY DEF TypeInv, ControlInv, Finalize, budgetVars, noticeVars, guidanceVars
<1>4. QED
  BY <1>2, <1>3 DEF TypeInv

\* The end of a batch: how many notices it makes, and where they are put.
LEMMA EndBatchFacts ==
    ASSUME TypeOK, EndBatch
    PROVE  \E more \in Nat, extra \in Seq(Messages) :
              /\ batch.advice <= more
              /\ Len(extra) = more - batch.advice
              /\ \A k \in 1..Len(extra) :
                    extra[k] = [kind |-> "notice", n |-> notices + (batch.advice + k)]
              /\ messages' = WithoutPack(messages \o Answered)
                                \o <<[kind |-> "pack", n |-> 0]>> \o extra
              /\ transient' = transient \cup (notices + 1)..(notices + more)
              /\ notices' = notices + more
<1> DEFINE repeated == Repeated(events')
           sums == /\ ~repeated /\ strict /\ ~state.summed
                   /\ state.reads >= ReadsToSum
           more == batch.advice + IF repeated \/ sums THEN 1 ELSE 0
           extra == SubSeq(Notices(more), batch.advice + 1, more)
<1>1. /\ messages' = WithoutPack(messages \o Answered) \o <<[kind |-> "pack", n |-> 0]>> \o extra
      /\ transient' = transient \cup (notices + 1)..(notices + more)
      /\ notices' = notices + more
  BY DEF EndBatch
<1>2. batch.advice \in Nat /\ notices \in Nat
  BY DEF TypeOK
<1>3. more \in Nat /\ batch.advice <= more
  BY <1>2
<1> HIDE DEF more
<1>4. /\ Notices(more) \in Seq(Messages) /\ Len(Notices(more)) = more
      /\ \A i \in 1..more : Notices(more)[i] = [kind |-> "notice", n |-> notices + i]
  BY <1>2, <1>3, NoticesType
<1>5. batch.advice \in 0..Len(Notices(more))
  BY <1>2, <1>3, <1>4
<1>a. extra = SubSeq(Notices(more), batch.advice + 1, Len(Notices(more)))
  BY <1>4
<1>6. /\ extra \in Seq(Messages) /\ Len(extra) = Len(Notices(more)) - batch.advice
      /\ \A k \in 1..(Len(Notices(more)) - batch.advice) :
            extra[k] = Notices(more)[batch.advice + k]
  BY SMTT(40), <1>4, <1>5, <1>a, SuffixFacts
<1>7. Len(extra) = more - batch.advice
  BY <1>4, <1>6
<1>8. \A k \in 1..Len(extra) :
         extra[k] = [kind |-> "notice", n |-> notices + (batch.advice + k)]
  <2>1. \A k \in 1..Len(extra) : batch.advice + k \in 1..more
    BY <1>2, <1>3, <1>7
  <2>2. \A k \in 1..Len(extra) : extra[k] = Notices(more)[batch.advice + k]
    BY <1>4, <1>6
  <2>3. QED
    BY <1>4, <2>1, <2>2
<1> HIDE DEF extra
<1>9. QED
  BY <1>1, <1>3, <1>6, <1>7, <1>8

\* The budget is only extended, and not past the hard limit.
LEMMA ExtendedFacts ==
    ASSUME TypeOK, NEW es
    PROVE  Extended(es) \in Nat /\ limit <= Extended(es) /\ Extended(es) <= HardLimit
<1>1. limit \in Nat /\ limit <= HardLimit /\ HardLimit \in Nat /\ Increment \in Nat
  BY ConstantFacts, BudgetAssumption DEF TypeOK
<1>2. \/ Extended(es) = limit
      \/ Extended(es) = HardLimit
      \/ Extended(es) = limit + Increment /\ limit + Increment < HardLimit
  BY DEF Extended
<1>3. QED
  BY <1>1, <1>2

LEMMA EndBatchType == ASSUME TypeInv, EndBatch PROVE TypeInv'
<1>1. TypeOK
  BY DEF TypeInv
<1>2. PICK more \in Nat, extra \in Seq(Messages) :
         /\ messages' = WithoutPack(messages \o Answered)
                           \o <<[kind |-> "pack", n |-> 0]>> \o extra
         /\ transient' = transient \cup (notices + 1)..(notices + more)
         /\ notices' = notices + more
  BY <1>1, EndBatchFacts
<1>3. messages' \in Seq(Messages)
  <2>1. messages \o Answered \in Seq(Messages)
    BY <1>1, AnsweredType, ConcatFacts DEF TypeOK
  <2>2. WithoutPack(messages \o Answered) \in Seq(Messages)
    BY <2>1, WithoutPackType
  <2>3. <<[kind |-> "pack", n |-> 0]>> \in Seq(Messages)
    BY DEF Messages, Kinds
  <2>4. WithoutPack(messages \o Answered) \o <<[kind |-> "pack", n |-> 0]>> \in Seq(Messages)
    BY <2>2, <2>3, ConcatFacts
  <2>5. QED
    BY <1>2, <2>4, ConcatFacts
<1>4. events' \in Seq(Events) /\ batch' = NoBatch
  <2>1. events \in Seq(Events) /\ batch.done \in Seq(Events)
    BY <1>1 DEF TypeOK
  <2>2. QED
    BY <2>1, ConcatFacts DEF EndBatch
<1>5. limit' \in MaxRounds..HardLimit /\ round' \in 0..limit'
  <2>1. limit' = Extended(batch.done) /\ round' = round
    BY DEF EndBatch
  <2>2. limit' \in Nat /\ limit <= limit' /\ limit' <= HardLimit
    BY <1>1, <2>1, ExtendedFacts
  <2>3. limit \in Nat /\ MaxRounds \in Nat /\ HardLimit \in Nat /\ MaxRounds <= limit
        /\ round \in Nat /\ round <= limit
    BY <1>1, ConstantFacts, BudgetAssumption DEF TypeOK
  <2>4. QED
    BY <2>1, <2>2, <2>3
<1>6. gained' \subseteq 1..round' /\ broken' \subseteq 1..round'
  <2>1. round \in 1..round
    <3>1. round \in Nat /\ round >= 1
      BY <1>1, ConstantFacts, BudgetAssumption DEF TypeInv, TypeOK, ControlInv, EndBatch
    <3>2. QED
      BY <3>1
  <2>2. gained \subseteq 1..round /\ broken \subseteq 1..round
    BY <1>1 DEF TypeOK
  <2>3. QED
    BY <2>1, <2>2 DEF EndBatch
<1>7. notices' \in Nat /\ transient' \subseteq 1..notices' /\ read' \subseteq 1..notices'
  <2>1. notices \in Nat /\ transient \subseteq 1..notices /\ read \subseteq 1..notices
    BY <1>1 DEF TypeOK
  <2>2. read' = read
    BY DEF EndBatch
  <2>3. QED
    BY <1>2, <2>1, <2>2
<1>8. state' \in [repair : BOOLEAN, seen : SUBSET Calls, reads : Nat, summed : BOOLEAN]
  <2>1. PICK summed \in BOOLEAN : state' = [state EXCEPT !.summed = summed]
    BY DEF EndBatch
  <2>2. QED
    BY <1>1, <2>1 DEF TypeOK
<1>9. /\ batch' \in [calls : Seq(Calls), truncated : BOOLEAN, done : Seq(Events),
                     advice : Nat, step : Steps \cup {0}]
      /\ Len(batch'.done) <= Len(batch'.calls)
  BY <1>4, NoBatchFacts
<1>10. /\ pc' = "head"
       /\ UNCHANGED <<timeouts, retries, strict, queue, taken, guided, plan, answer, outcome>>
       /\ round' = round
  BY DEF EndBatch, guidanceVars
<1>11. TypeOK'
  <2>1. timeouts' \in 0..2 /\ retries' \in 0..1 /\ strict' \in BOOLEAN
        /\ outcome' \in {"none", "answered", "model_error", "max_rounds", "aborted", "failed"}
    BY <1>1, <1>10 DEF TypeOK
  <2>2. queue' \in Seq(1..guided') /\ taken' \in Seq(1..guided') /\ guided' \in 0..MaxGuidance
        /\ answer' \in Seq(1..round')
    BY <1>1, <1>10 DEF TypeOK
  <2>3. plan' \in [Steps -> {"pending", "running", "completed", "failed", "skipped"}]
    BY <1>1, <1>10 DEF TypeOK
  <2>4. QED
    BY <1>3, <1>4, <1>5, <1>6, <1>7, <1>8, <1>9, <1>10, <2>1, <2>2, <2>3 DEF TypeOK
<1>12. ControlInv'
  BY <1>10 DEF TypeInv, ControlInv, EndBatch
<1>13. QED
  BY <1>11, <1>12 DEF TypeInv

LEMMA UnchangedType == ASSUME TypeInv, UNCHANGED vars PROVE TypeInv'
BY SMTT(40) DEF TypeInv, TypeOK, ControlInv, vars, budgetVars, noticeVars, guidanceVars, toolVars

LEMMA NextType == ASSUME TypeInv, NoticesLastUntilRead, [Next]_vars PROVE TypeInv'
BY GuideType, StartRoundType, ExhaustedType, JudgedType, ModelFailsType, IdleTimeoutType,
   OvertakenType, AnswersType, MalformedType, CallsToolsType, SkipCallType, StartCallType,
   EndCallType, CallRaisesType, EndBatchType, FinalizeType, UnchangedType DEF Next, Step

-----------------------------------------------------------------------------
(* Notices. *)

LEMMA NoticesInFacts ==
    ASSUME NEW ms, NEW n
    PROVE  n \in NoticesIn(ms) <=> \E i \in DOMAIN ms : ms[i].kind = "notice" /\ ms[i].n = n
BY DEF NoticesIn

LEMMA NoticesInConcat ==
    ASSUME NEW s \in Seq(Messages), NEW t \in Seq(Messages)
    PROVE  NoticesIn(s \o t) = NoticesIn(s) \cup NoticesIn(t)
<1> DEFINE c == s \o t
<1>1. /\ \A i \in DOMAIN s : i \in DOMAIN c /\ c[i] = s[i]
      /\ \A i \in DOMAIN t : Len(s) + i \in DOMAIN c /\ c[Len(s) + i] = t[i]
      /\ \A i \in DOMAIN c : i \in DOMAIN s \/ \E j \in DOMAIN t : i = Len(s) + j
  BY ConcatPositions
<1> HIDE DEF c
<1>2. ASSUME NEW n
      PROVE  n \in NoticesIn(c) <=> n \in NoticesIn(s) \/ n \in NoticesIn(t)
  <2>1. ASSUME n \in NoticesIn(c) PROVE n \in NoticesIn(s) \/ n \in NoticesIn(t)
    <3>1. PICK i \in DOMAIN c : c[i].kind = "notice" /\ c[i].n = n
      BY <2>1, NoticesInFacts
    <3>2. QED
      BY <1>1, <3>1, NoticesInFacts
  <2>2. ASSUME n \in NoticesIn(s) PROVE n \in NoticesIn(c)
    BY <1>1, <2>2, NoticesInFacts
  <2>3. ASSUME n \in NoticesIn(t) PROVE n \in NoticesIn(c)
    BY <1>1, <2>3, NoticesInFacts
  <2>4. QED
    BY <2>1, <2>2, <2>3
<1>3. NoticesIn(c) = NoticesIn(s) \cup NoticesIn(t)
  BY <1>2
<1>4. QED
  BY <1>3 DEF c

\* Picking all notices, or more, keeps them.
LEMMA NoticesInPicked ==
    ASSUME NEW s \in Seq(Messages), NEW K \in SUBSET DOMAIN s
    PROVE  \A n : n \in NoticesIn(Picked(s, K)) <=>
                      \E i \in K : s[i].kind = "notice" /\ s[i].n = n
<1>1. PICK f \in [DOMAIN Picked(s, K) -> K] :
         /\ \A n \in DOMAIN Picked(s, K) : Picked(s, K)[n] = s[f[n]]
         /\ \A i \in K : \E n \in DOMAIN Picked(s, K) : f[n] = i
  BY SMTT(40), PickedFacts
<1> DEFINE p == Picked(s, K)
<1> HIDE DEF p
<1>2. /\ \A n \in DOMAIN p : f[n] \in K /\ p[n] = s[f[n]]
      /\ \A i \in K : \E n \in DOMAIN p : f[n] = i
  BY <1>1 DEF p
<1>3. \A n : n \in NoticesIn(p) <=> \E i \in K : s[i].kind = "notice" /\ s[i].n = n
  <2>1. TAKE n
  <2>2. ASSUME n \in NoticesIn(p) PROVE \E i \in K : s[i].kind = "notice" /\ s[i].n = n
    <3>1. PICK k \in DOMAIN p : p[k].kind = "notice" /\ p[k].n = n
      BY <2>2, NoticesInFacts
    <3>2. QED
      BY <1>2, <3>1
  <2>3. ASSUME NEW i \in K, s[i].kind = "notice", s[i].n = n PROVE n \in NoticesIn(p)
    <3>1. PICK k \in DOMAIN p : f[k] = i
      BY <1>2
    <3>2. p[k] = s[i]
      BY <1>2, <3>1
    <3>3. QED
      BY <2>3, <3>1, <3>2, NoticesInFacts
  <2>4. QED
    BY <2>2, <2>3
<1>4. QED
  BY <1>3 DEF p

LEMMA NoticesInConsumed ==
    ASSUME TypeOK, transient = NoticesIn(messages)
    PROVE  NoticesIn(Consumed) = {}
<1> DEFINE K == {i \in DOMAIN messages :
                    messages[i].kind # "notice" \/ messages[i].n \notin transient}
<1>1. messages \in Seq(Messages) /\ K \in SUBSET DOMAIN messages
  BY DEF TypeOK
<1>2. \A n : n \in NoticesIn(Consumed) <=>
                \E i \in K : messages[i].kind = "notice" /\ messages[i].n = n
  BY <1>1, NoticesInPicked DEF Consumed
<1>3. ASSUME NEW i \in K, messages[i].kind = "notice" PROVE FALSE
  <2>1. messages[i].n \in NoticesIn(messages)
    BY <1>3, NoticesInFacts
  <2>2. QED
    BY <1>3, <2>1
<1>4. QED
  BY <1>2, <1>3

LEMMA NoticesInWithoutPack ==
    ASSUME NEW ms \in Seq(Messages)
    PROVE  NoticesIn(WithoutPack(ms)) = NoticesIn(ms)
<1> DEFINE K == {i \in DOMAIN ms : ms[i].kind # "pack"}
<1>1. \A n : n \in NoticesIn(WithoutPack(ms)) <=>
                \E i \in K : ms[i].kind = "notice" /\ ms[i].n = n
  BY NoticesInPicked DEF WithoutPack
<1>2. \A n : n \in NoticesIn(ms) <=> \E i \in K : ms[i].kind = "notice" /\ ms[i].n = n
  BY NoticesInFacts
<1>3. QED
  BY <1>1, <1>2

LEMMA NoticesInAppend ==
    ASSUME NEW s \in Seq(Messages), NEW m \in Messages
    PROVE  NoticesIn(Append(s, m)) = NoticesIn(s) \cup (IF m.kind = "notice" THEN {m.n} ELSE {})
<1>1. Append(s, m) = s \o <<m>> /\ <<m>> \in Seq(Messages)
  OBVIOUS
<1>2. NoticesIn(<<m>>) = (IF m.kind = "notice" THEN {m.n} ELSE {})
  <2>1. DOMAIN <<m>> = {1} /\ <<m>>[1] = m
    OBVIOUS
  <2>2. \A n : n \in NoticesIn(<<m>>) <=> m.kind = "notice" /\ m.n = n
    BY <2>1, NoticesInFacts
  <2>3. QED
    BY <2>2
<1>3. QED
  BY ZenonT(40), <1>1, <1>2, NoticesInConcat

LEMMA NoticesInReoriented == ASSUME TypeOK PROVE NoticesIn(Reoriented) = {}
<1>1. /\ Reoriented \in Seq(Messages) /\ Len(Reoriented) = Len(taken) + 2
      /\ Reoriented[1].kind = "contract" /\ Reoriented[2].kind = "orientation"
      /\ \A k \in 1..Len(taken) : Reoriented[k + 2] = [kind |-> "guidance", n |-> taken[k]]
  BY ReorientedType
<1>2. taken \in Seq(1..guided) /\ Len(taken) \in Nat
  BY DEF TypeOK
<1>3. ASSUME NEW i \in DOMAIN Reoriented PROVE Reoriented[i].kind # "notice"
  <2>1. i \in Nat /\ 1 <= i /\ i <= Len(taken) + 2
    BY <1>1, <1>2
  <2>2. CASE i = 1 \/ i = 2
    BY <1>1, <2>2
  <2>3. CASE i > 2
    <3>1. i - 2 \in 1..Len(taken) /\ i = (i - 2) + 2
      BY <1>2, <2>1, <2>3
    <3>2. Reoriented[i] = [kind |-> "guidance", n |-> taken[i - 2]]
      BY <1>1, <3>1
    <3>3. QED
      BY <3>2
  <2>4. QED
    BY <2>1, <2>2, <2>3
<1>4. QED
  BY <1>3, NoticesInFacts

LEMMA NoticesInAnswered ==
    ASSUME TypeOK
    PROVE  NoticesIn(Answered) = (notices + 1)..(notices + batch.advice)
<1>1. /\ Answered \in Seq(Messages) /\ Len(Answered) = Len(batch.done) + batch.advice
      /\ \A i \in 1..Len(batch.done) : Answered[i] = [kind |-> "tool", n |-> i]
      /\ \A i \in 1..batch.advice :
            Answered[Len(batch.done) + i] = [kind |-> "notice", n |-> notices + i]
  BY AnsweredType
<1>2. Len(batch.done) \in Nat /\ batch.advice \in Nat /\ notices \in Nat
  BY DEF TypeOK
<1>3. ASSUME NEW n, n \in NoticesIn(Answered)
      PROVE  n \in (notices + 1)..(notices + batch.advice)
  <2>1. PICK i \in DOMAIN Answered : Answered[i].kind = "notice" /\ Answered[i].n = n
    BY <1>3, NoticesInFacts
  <2>2. i \in Nat /\ 1 <= i /\ i <= Len(batch.done) + batch.advice
    BY <1>1, <1>2
  <2>3. ~(i <= Len(batch.done))
    <3>1. SUFFICES ASSUME i <= Len(batch.done) PROVE FALSE
      OBVIOUS
    <3>2. i \in 1..Len(batch.done)
      BY <1>2, <2>2, <3>1
    <3>3. Answered[i] = [kind |-> "tool", n |-> i]
      BY <1>1, <3>2
    <3>4. QED
      BY <2>1, <3>3
  <2>4. i - Len(batch.done) \in 1..batch.advice /\ i = Len(batch.done) + (i - Len(batch.done))
    BY <1>2, <2>2, <2>3
  <2>5. n = notices + (i - Len(batch.done))
    <3>1. Answered[i] = [kind |-> "notice", n |-> notices + (i - Len(batch.done))]
      BY <1>1, <2>4
    <3>2. QED
      BY <2>1, <3>1
  <2>6. QED
    BY <1>2, <2>4, <2>5
<1>4. ASSUME NEW n \in (notices + 1)..(notices + batch.advice)
      PROVE  n \in NoticesIn(Answered)
  <2>1. n - notices \in 1..batch.advice /\ n = notices + (n - notices)
    BY <1>2
  <2>2. Answered[Len(batch.done) + (n - notices)] = [kind |-> "notice", n |-> n]
    BY <1>1, <2>1
  <2>3. Len(batch.done) + (n - notices) \in DOMAIN Answered
    <3>1. \A k \in 1..batch.advice : Len(batch.done) + k \in 1..(Len(batch.done) + batch.advice)
      BY <1>2
    <3>2. QED
      BY <1>1, <2>1, <3>1
  <2>4. QED
    BY <2>2, <2>3, NoticesInFacts
<1>5. QED
  BY <1>3, <1>4

LEMMA InitNotice == Init => NoticeInv
<1>1. ASSUME Init PROVE NoticesIn(messages) = {}
  <2>1. messages = <<>>
    BY <1>1 DEF Init
  <2>2. DOMAIN <<>> = {}
    OBVIOUS
  <2>3. QED
    BY <2>1, <2>2 DEF NoticesIn
<1>2. QED
  BY <1>1 DEF Init, NoticeInv, NoticesLastUntilRead

LEMMA NextNotice == ASSUME TypeInv, NoticeInv, [Next]_vars PROVE NoticeInv'
<1> USE DEF NoticeInv, NoticesLastUntilRead
<1>1. TypeOK /\ messages \in Seq(Messages) /\ notices \in Nat /\ read \subseteq 1..notices
  BY DEF TypeInv, TypeOK
<1>2. NoticesIn(Consumed) = {} /\ Consumed \in Seq(Messages)
  BY <1>1, NoticesInConsumed, ConsumedType
<1>3. (1..notices) \ (read \cup NoticesIn(messages)) = {}
  OBVIOUS
<1>4. CASE Overtaken \/ Answers
  <2>1. messages' = Consumed /\ transient' = {} /\ notices' = notices
        /\ read' = read \cup NoticesIn(messages)
    BY <1>4 DEF Overtaken, Answers, Consume
  <2>2. QED
    BY <1>2, <1>3, <2>1
<1>5. CASE Malformed
  <2> DEFINE m == [kind |-> "notice", n |-> notices + 1]
  <2>1. messages' = Append(Consumed, m) /\ transient' = {notices + 1} /\ notices' = notices + 1
        /\ read' = read \cup NoticesIn(messages)
    BY <1>5 DEF Malformed
  <2>2. m \in Messages /\ m.kind = "notice" /\ m.n = notices + 1
    BY <1>1 DEF Messages, Kinds
  <2> HIDE DEF m
  <2>3. NoticesIn(messages') = {notices + 1}
    BY <1>2, <2>1, <2>2, NoticesInAppend
  <2>4. (1..(notices + 1)) \ (read \cup NoticesIn(messages)) = {notices + 1}
    <3>1. 1..(notices + 1) = (1..notices) \cup {notices + 1} /\ notices + 1 \notin 1..notices
      BY <1>1
    <3>2. NoticesIn(messages) \subseteq 1..notices
      OBVIOUS
    <3>3. QED
      BY <1>1, <1>3, <3>1, <3>2
  <2>5. QED
    BY <2>1, <2>3, <2>4
<1>6. CASE CallsTools
  <2>1. PICK n \in 1..(MaxCalls - Len(events)) :
           /\ messages' = Append(Consumed, [kind |-> "calls", n |-> n])
           /\ read' = read \cup NoticesIn(messages)
    BY <1>6 DEF CallsTools
  <2> DEFINE m == [kind |-> "calls", n |-> n]
  <2>2. m \in Messages /\ m.kind = "calls"
    <3>1. n \in Nat
      BY <1>1, CallsAssumption DEF TypeOK
    <3>2. QED
      BY <3>1 DEF Messages, Kinds
  <2>3. messages' = Append(Consumed, m)
    BY <2>1
  <2> HIDE DEF m
  <2>4. NoticesIn(messages') = {}
    BY <1>2, <2>2, <2>3, NoticesInAppend
  <2>5. transient' = {} /\ notices' = notices
    BY <1>6 DEF CallsTools
  <2>6. QED
    BY <1>3, <2>1, <2>4, <2>5
<1>7. CASE Judged
  <2>1. messages' = messages \o Reoriented /\ UNCHANGED <<transient, notices, read>>
    BY <1>7 DEF Judged, noticeVars
  <2>2. NoticesIn(messages') = NoticesIn(messages)
    BY <1>1, <2>1, ReorientedType, NoticesInReoriented, NoticesInConcat
  <2>3. QED
    BY <2>1, <2>2
<1>8. CASE EndBatch
  <2>1. PICK more \in Nat, extra \in Seq(Messages) :
           /\ batch.advice <= more
           /\ Len(extra) = more - batch.advice
           /\ \A k \in 1..Len(extra) :
                 extra[k] = [kind |-> "notice", n |-> notices + (batch.advice + k)]
           /\ messages' = WithoutPack(messages \o Answered)
                             \o <<[kind |-> "pack", n |-> 0]>> \o extra
           /\ transient' = transient \cup (notices + 1)..(notices + more)
           /\ notices' = notices + more
    BY <1>1, <1>8, EndBatchFacts
  <2>2. batch.advice \in Nat /\ read' = read
    BY <1>1, <1>8 DEF TypeOK, EndBatch
  <2>3. NoticesIn(extra) = (notices + batch.advice + 1)..(notices + more)
    <3>1. ASSUME NEW n, n \in NoticesIn(extra)
          PROVE  n \in (notices + batch.advice + 1)..(notices + more)
      <4>1. PICK k \in DOMAIN extra : extra[k].n = n
        BY <3>1, NoticesInFacts
      <4>2. k \in 1..Len(extra)
        OBVIOUS
      <4>3. n = notices + (batch.advice + k)
        <5>1. extra[k] = [kind |-> "notice", n |-> notices + (batch.advice + k)]
          BY <2>1, <4>2
        <5>2. QED
          BY <4>1, <5>1
      <4>4. k \in Nat /\ 1 <= k /\ batch.advice + k <= more
        <5>1. Len(extra) \in Nat /\ Len(extra) + batch.advice = more
          BY <2>1, <2>2
        <5>2. QED
          BY <2>1, <2>2, <4>2, <5>1
      <4>5. QED
        BY SMTT(40), <1>1, <2>1, <2>2, <4>3, <4>4
    <3>2. ASSUME NEW n \in (notices + batch.advice + 1)..(notices + more)
          PROVE  n \in NoticesIn(extra)
      <4>1. /\ n - notices - batch.advice \in 1..Len(extra)
            /\ n = notices + (batch.advice + (n - notices - batch.advice))
        BY SMTT(40), <1>1, <2>1, <2>2
      <4>2. extra[n - notices - batch.advice] = [kind |-> "notice", n |-> n]
        BY <2>1, <4>1
      <4>3. n - notices - batch.advice \in DOMAIN extra
        BY <4>1
      <4>4. QED
        BY <4>2, <4>3, NoticesInFacts
    <3>3. QED
      BY <3>1, <3>2
  <2>4. NoticesIn(messages \o Answered)
          = NoticesIn(messages) \cup (notices + 1)..(notices + batch.advice)
        /\ messages \o Answered \in Seq(Messages)
    <3>1. Answered \in Seq(Messages)
      BY <1>1, AnsweredType
    <3>2. NoticesIn(Answered) = (notices + 1)..(notices + batch.advice)
      BY <1>1, NoticesInAnswered
    <3>3. messages \o Answered \in Seq(Messages)
      BY <1>1, <3>1, ConcatFacts
    <3>4. NoticesIn(messages \o Answered) = NoticesIn(messages) \cup NoticesIn(Answered)
      BY <1>1, <3>1, NoticesInConcat
    <3>5. QED
      BY <3>2, <3>3, <3>4
  <2> DEFINE kept == WithoutPack(messages \o Answered)
             pack == [kind |-> "pack", n |-> 0]
  <2>5. kept \in Seq(Messages) /\ NoticesIn(kept) = NoticesIn(messages \o Answered)
    BY <2>4, WithoutPackType, NoticesInWithoutPack
  <2>6. pack \in Messages /\ pack.kind = "pack"
    BY DEF Messages, Kinds
  <2>7. messages' = kept \o <<pack>> \o extra
    BY <2>1
  <2> HIDE DEF kept, pack
  <2>8. kept \o <<pack>> = Append(kept, pack) /\ kept \o <<pack>> \in Seq(Messages)
    BY <2>5, <2>6
  <2>9. NoticesIn(messages') = NoticesIn(kept) \cup NoticesIn(extra)
    <3>1. NoticesIn(Append(kept, pack)) = NoticesIn(kept)
      BY <2>5, <2>6, NoticesInAppend
    <3>2. NoticesIn((kept \o <<pack>>) \o extra) = NoticesIn(kept \o <<pack>>) \cup NoticesIn(extra)
      BY <2>8, NoticesInConcat
    <3>3. QED
      BY <2>7, <2>8, <3>1, <3>2
  <2>10. NoticesIn(messages') = NoticesIn(messages) \cup (notices + 1)..(notices + more)
    <3>1. (notices + 1)..(notices + batch.advice) \cup (notices + batch.advice + 1)..(notices + more)
             = (notices + 1)..(notices + more)
      BY SMTT(40), <1>1, <2>1, <2>2
    <3>2. QED
      BY <2>3, <2>4, <2>5, <2>9, <3>1
  <2>11. ((1..notices) \ read) \cup (notices + 1)..(notices + more)
            = (1..(notices + more)) \ read
    <3>1. 1..(notices + more) = 1..notices \cup (notices + 1)..(notices + more)
      BY <1>1, <2>1
    <3>2. read \cap (notices + 1)..(notices + more) = {}
      BY <1>1, <2>1
    <3>3. QED
      BY <3>1, <3>2
  <2>12. QED
    BY <2>1, <2>2, <2>10, <2>11
<1>9. CASE UNCHANGED <<messages, notices, transient, read>>
  BY <1>9
<1>10. QED
  <2>1. Next => \/ Overtaken \/ Answers \/ Malformed \/ CallsTools \/ Judged \/ EndBatch
                \/ UNCHANGED <<messages, notices, transient, read>>
    BY DEF Next, Step, Guide, StartRound, Exhausted, ModelFails, IdleTimeout, SkipCall,
           StartCall, EndCall, CallRaises, Finalize, noticeVars
  <2>2. UNCHANGED vars => UNCHANGED <<messages, notices, transient, read>>
    BY DEF vars, noticeVars
  <2>3. QED
    BY <1>4, <1>5, <1>6, <1>7, <1>8, <1>9, <2>1, <2>2

-----------------------------------------------------------------------------
(* The budget. *)

LEMMA InitBudget == Init => BudgetInv
<1>1. ASSUME Init PROVE limit = MaxRounds /\ gained = {} /\ outcome = "none" /\ round = 0
  BY <1>1 DEF Init
<1>2. ASSUME Init PROVE limit <= MaxRounds + Increment * Cardinality(gained)
  <2>1. Cardinality(gained) = 0 /\ Increment * 0 = 0 /\ MaxRounds <= MaxRounds + 0
    BY <1>1, <1>2, FS_EmptySet, BudgetAssumption
  <2>2. QED
    BY <1>1, <1>2, <2>1
<1>3. QED
  BY <1>1, <1>2 DEF BudgetInv, BudgetFollowsProgress

LEMMA NextBudget == ASSUME TypeInv, BudgetInv, [Next]_vars PROVE BudgetInv'
<1>1. /\ round \in Nat /\ limit \in Nat /\ HardLimit \in Nat /\ Increment \in Nat
      /\ Increment >= 1 /\ MaxRounds \in Nat /\ round <= limit /\ limit <= HardLimit
      /\ gained \subseteq 1..round
  BY ConstantFacts, BudgetAssumption DEF TypeInv, TypeOK
<1>2. IsFiniteSet(gained) /\ Cardinality(gained) \in Nat
  <2>1. IsFiniteSet(1..round)
    BY <1>1, FS_Interval
  <2>2. QED
    BY <1>1, <2>1, FS_Subset, FS_CardinalityType
<1>3. CASE Exhausted
  <2>1. round = limit
    BY <1>1, <1>3 DEF Exhausted, Spent, MayStart
  <2>2. pc = "head" /\ pc' = "finalize" /\ UNCHANGED <<round, limit, gained>>
    BY <1>3 DEF Exhausted, budgetVars
  <2>3. limit = HardLimit \/ round \notin gained
    BY <1>1, <2>1, <2>2 DEF BudgetInv
  <2>4. QED
    BY <2>1, <2>2, <2>3 DEF BudgetInv, BudgetFollowsProgress
<1>4. CASE EndBatch
  <2>1. /\ pc = "batch" /\ pc' = "head" /\ round' = round /\ outcome' = outcome
        /\ limit' = Extended(batch.done)
        /\ gained' = IF ProgressObserved(batch.done) THEN gained \cup {round} ELSE gained
    BY <1>4 DEF EndBatch
  <2>2. outcome' # "max_rounds" /\ round \notin gained
    BY <2>1 DEF TypeInv, ControlInv
  <2>3. CASE ProgressObserved(batch.done)
    <3>1. gained' = gained \cup {round} /\ Cardinality(gained') = Cardinality(gained) + 1
      BY <1>2, <2>1, <2>2, <2>3, FS_AddElement
    <3>2. /\ limit' <= limit + Increment
          /\ round < limit' \/ limit' = HardLimit
      BY <1>1, <2>1, <2>3 DEF Extended
    <3>3. limit' \in Nat
      BY <1>1, <2>1 DEF Extended
    <3>4. \A i, c \in Nat : i * (c + 1) = i * c + i /\ i * c \in Nat
      OBVIOUS
    <3>5. limit' <= MaxRounds + Increment * Cardinality(gained')
      <4>1. limit <= MaxRounds + Increment * Cardinality(gained)
        BY DEF BudgetInv, BudgetFollowsProgress
      <4>2. Increment * Cardinality(gained') = Increment * Cardinality(gained) + Increment
            /\ Increment * Cardinality(gained) \in Nat
        BY <1>1, <1>2, <3>1, <3>4
      <4> DEFINE owed == Increment * Cardinality(gained)
                 owes == Increment * Cardinality(gained')
      <4> HIDE DEF owed, owes
      <4>3. limit <= MaxRounds + owed /\ owes = owed + Increment /\ owed \in Nat
        BY <4>1, <4>2 DEF owed, owes
      <4>4. limit' <= MaxRounds + owes
        BY <1>1, <3>2, <3>3, <4>3
      <4>5. QED
        BY <4>4 DEF owes
    <3>6. QED
      BY <2>1, <2>2, <3>2, <3>5 DEF BudgetInv, BudgetFollowsProgress
  <2>4. CASE ~ProgressObserved(batch.done)
    <3>1. gained' = gained /\ limit' = limit
      BY <2>1, <2>4 DEF Extended
    <3>2. QED
      BY <2>1, <2>2, <3>1 DEF BudgetInv, BudgetFollowsProgress
  <2>5. QED
    BY <2>3, <2>4
<1>5. CASE StartRound
  BY <1>5 DEF StartRound, TypeInv, ControlInv, BudgetInv, BudgetFollowsProgress
<1>6. CASE Judged \/ IdleTimeout \/ Malformed
  <2>1. /\ UNCHANGED <<round, limit, gained>> /\ round \notin gained
        /\ outcome' # "max_rounds"
    BY <1>6 DEF Judged, IdleTimeout, Malformed, TypeInv, ControlInv, budgetVars
  <2>2. QED
    BY <2>1 DEF BudgetInv, BudgetFollowsProgress
<1>7. CASE /\ UNCHANGED <<round, limit, gained>>
           /\ outcome' = outcome \/ outcome' # "max_rounds"
           /\ pc' = pc \/ pc' # "head"
  BY <1>7 DEF BudgetInv, BudgetFollowsProgress
<1>8. QED
  <2>1. ModelFails \/ Overtaken \/ Answers \/ CallsTools \/ SkipCall \/ StartCall
        \/ EndCall \/ CallRaises \/ Finalize \/ Guide =>
           /\ UNCHANGED <<round, limit, gained>>
           /\ outcome' = outcome \/ outcome' # "max_rounds"
           /\ pc' = pc \/ pc' # "head"
    BY DEF ModelFails, GivesUp, Overtaken, Answers, CallsTools, SkipCall, StartCall, EndCall,
           CallRaises, Finalize, Guide, budgetVars
  <2>2. UNCHANGED vars => UNCHANGED <<round, limit, gained>> /\ outcome' = outcome /\ pc' = pc
    BY DEF vars, budgetVars
  <2>3. QED
    BY <1>3, <1>4, <1>5, <1>6, <1>7, <2>1, <2>2 DEF Next, Step

-----------------------------------------------------------------------------
(* The text of the answer, and the plan. *)

LEMMA InitAnswer == Init => AnswerInv
<1>1. DOMAIN <<>> = {}
  OBVIOUS
<1>2. QED
  BY <1>1 DEF Init, AnswerInv

\* A round's text comes last: all else is of rounds that broke off.
LEMMA AppendedAnswer ==
    ASSUME TypeInv, AnswerInv, pc = "model", UNCHANGED round, NEW what, Streams(what)
    PROVE  \A i \in DOMAIN answer' : \/ answer'[i] \in broken
                                     \/ answer'[i] = round' /\ i = Len(answer')
<1>1. answer \in Seq(1..round) /\ round' = round /\ \A i \in DOMAIN answer : answer[i] \in broken
  BY DEF TypeInv, TypeOK, AnswerInv
<1>2. answer' = Append(answer, round) \/ answer' = answer
  BY DEF Streams
<1>3. CASE answer' = answer
  BY <1>1, <1>3
<1>4. CASE answer' = Append(answer, round)
  <2>1. round \in 1..round
    <3>1. round \in Nat /\ round >= 1
      BY ConstantFacts, BudgetAssumption DEF TypeInv, TypeOK, ControlInv
    <3>2. QED
      BY <3>1
  <2>2. /\ DOMAIN answer' = 1..(Len(answer) + 1) /\ Len(answer') = Len(answer) + 1
        /\ \A i \in 1..Len(answer) : answer'[i] = answer[i]
        /\ answer'[Len(answer) + 1] = round
    BY <1>1, <1>4, <2>1, AppendFacts
  <2>3. Len(answer) \in Nat /\ DOMAIN answer = 1..Len(answer)
    BY <1>1
  <2>4. ASSUME NEW i \in 1..(Len(answer) + 1)
        PROVE  i \in 1..Len(answer) \/ i = Len(answer) + 1
    BY <2>3
  <2>5. QED
    BY <1>1, <2>2, <2>3, <2>4
<1>5. QED
  BY <1>2, <1>3, <1>4

LEMMA NextAnswer == ASSUME TypeInv, AnswerInv, [Next]_vars PROVE AnswerInv'
<1>1. answer \in Seq(1..round) /\ round \in Nat
  BY ConstantFacts, BudgetAssumption DEF TypeInv, TypeOK
<1>2. CASE ModelFails
  <2>1. PICK what \in Streamed : Streams(what)
    BY <1>2 DEF ModelFails
  <2>2. pc = "model" /\ UNCHANGED round /\ broken' = broken \cup {round}
    BY <1>2 DEF ModelFails, budgetVars
  <2>3. \A i \in DOMAIN answer' : answer'[i] \in broken \/ answer'[i] = round'
    BY <2>1, <2>2, AppendedAnswer
  <2>4. QED
    BY <2>2, <2>3 DEF AnswerInv
<1>3. CASE IdleTimeout
  <2>1. PICK what \in Streamed : answer' = IF what = "text" THEN Append(answer, round) ELSE answer
    BY <1>3 DEF IdleTimeout
  <2>2. pc = "model" /\ UNCHANGED round /\ broken' = broken \cup {round}
    BY <1>3 DEF IdleTimeout, budgetVars
  <2>3. \A i \in DOMAIN answer : answer[i] \in broken
    BY <2>2 DEF AnswerInv
  <2>4. \A i \in DOMAIN answer' : answer'[i] \in broken \/ answer'[i] = round
    <3>1. CASE answer' = answer
      BY <2>3, <3>1
    <3>2. CASE answer' = Append(answer, round)
      <4>1. round \in 1..round
        <5>1. round >= 1
          BY <2>2 DEF TypeInv, ControlInv
        <5>2. QED
          BY <1>1, <5>1
      <4>2. /\ DOMAIN answer' = 1..(Len(answer) + 1)
            /\ \A i \in 1..Len(answer) : answer'[i] = answer[i]
            /\ answer'[Len(answer) + 1] = round
        BY <1>1, <3>2, <4>1, AppendFacts
      <4>3. Len(answer) \in Nat /\ DOMAIN answer = 1..Len(answer)
        BY <1>1
      <4>4. ASSUME NEW i \in 1..(Len(answer) + 1)
            PROVE  i \in 1..Len(answer) \/ i = Len(answer) + 1
        BY <4>3
      <4>5. QED
        BY <2>3, <4>2, <4>3, <4>4
    <3>3. QED
      BY <2>1, <3>1, <3>2
  <2>5. QED
    BY <2>2, <2>4 DEF AnswerInv
<1>4. CASE Overtaken \/ Answers
  <2>1. PICK what \in Streamed : Streams(what)
    BY <1>4 DEF Overtaken, Answers
  <2>2. pc = "model" /\ UNCHANGED <<round, broken>> /\ pc' \in {"late", "finalize"}
    BY <1>4 DEF Overtaken, Answers, budgetVars
  <2>3. \A i \in DOMAIN answer' : \/ answer'[i] \in broken
                                  \/ answer'[i] = round' /\ i = Len(answer')
    BY <2>1, <2>2, AppendedAnswer
  <2>4. QED
    BY <2>2, <2>3 DEF AnswerInv
<1>5. CASE Judged
  <2>1. UNCHANGED <<round, broken>>
    BY <1>5 DEF Judged, budgetVars
  <2>2. CASE pc = "judging"
    <3>1. answer' = answer /\ \A i \in DOMAIN answer : answer[i] \in broken
      BY <1>5, <2>2 DEF Judged, AnswerInv
    <3>2. QED
      BY <2>1, <3>1 DEF AnswerInv
  <2>3. CASE pc = "late" /\ answer # <<>> /\ answer[Len(answer)] = round
    <3>1. answer' = SubSeq(answer, 1, Len(answer) - 1)
      BY <1>5, <2>3 DEF Judged, Discarded
    <3>2. /\ answer' \in Seq(1..round) /\ Len(answer') = Len(answer) - 1
          /\ \A k \in 1..(Len(answer) - 1) : answer'[k] = answer[k]
      BY <1>1, <2>3, <3>1, FrontFacts
    <3>3. ASSUME NEW i \in DOMAIN answer'
          PROVE  i \in DOMAIN answer /\ i # Len(answer) /\ answer'[i] = answer[i]
      <4>1. DOMAIN answer' = 1..(Len(answer) - 1) /\ DOMAIN answer = 1..Len(answer)
            /\ Len(answer) \in Nat
        BY <1>1, <3>2
      <4>2. i \in 1..(Len(answer) - 1)
        BY <4>1
      <4>3. i \in 1..Len(answer) /\ i # Len(answer)
        BY <4>1, <4>2
      <4>4. QED
        BY <3>2, <4>1, <4>2, <4>3
    <3>4. QED
      BY <2>1, <3>3 DEF AnswerInv
  <2>4. CASE pc = "late" /\ ~(answer # <<>> /\ answer[Len(answer)] = round)
    <3>1. answer' = answer
      BY <1>5, <2>4 DEF Judged, Discarded
    <3>2. ASSUME NEW i \in DOMAIN answer PROVE answer[i] \in broken
      <4>1. answer # <<>>
        BY <1>1
      <4>2. QED
        BY <2>4, <4>1 DEF AnswerInv
    <3>3. QED
      BY <2>1, <3>1, <3>2 DEF AnswerInv
  <2>5. QED
    BY <1>5, <2>2, <2>3, <2>4 DEF Judged
<1>6. CASE StartRound
  <2>1. pc = "head" /\ UNCHANGED <<answer, broken>>
    BY <1>6 DEF StartRound
  <2>2. QED
    BY <2>1 DEF AnswerInv
<1>7. CASE /\ UNCHANGED <<answer, broken, round>>
           /\ pc \in {"late", "finalize", "over"} => pc' \in {"late", "finalize", "over"}
  BY <1>7 DEF AnswerInv
<1>8. QED
  <2>1. Exhausted \/ Malformed \/ CallsTools \/ SkipCall \/ StartCall
        \/ EndCall \/ CallRaises \/ EndBatch \/ Finalize \/ Guide =>
           /\ UNCHANGED <<answer, broken, round>>
           /\ pc \in {"late", "finalize", "over"} => pc' \in {"late", "finalize", "over"}
    BY DEF Exhausted, Malformed, CallsTools, SkipCall, StartCall, EndCall,
           CallRaises, EndBatch, Finalize, Guide, budgetVars
  <2>2. UNCHANGED vars => UNCHANGED <<answer, broken, round>> /\ pc' = pc
    BY DEF vars, budgetVars
  <2>3. QED
    BY SMTT(40), <1>2, <1>3, <1>4, <1>5, <1>6, <1>7, <2>1, <2>2 DEF Next, Step

StepStatuses == {"pending", "running", "completed", "failed", "skipped"}

LEMMA InitPlan == Init => PlanFollowsTools
BY DEF Init, PlanFollowsTools, Running, NoBatch

\* Outside of tool calls no step runs.
LEMMA NoneRunning ==
    ASSUME ControlInv, PlanFollowsTools, pc \notin {"tool", "over"}
    PROVE  Running = {} /\ batch.step = 0
BY DEF ControlInv, PlanFollowsTools

LEMMA NextPlan ==
    ASSUME TypeInv, PlanFollowsTools, [Next]_vars
    PROVE  PlanFollowsTools'
<1>1. TypeOK /\ ControlInv
  BY DEF TypeInv
<1>2. CASE StartCall
  <2> DEFINE s == Matching(Call.tool)
  <2>1. s = 0 \/ s \in Steps
    BY <1>1, MatchingFacts
  <2> HIDE DEF s
  <2>2. plan' = (IF s = 0 THEN plan ELSE [plan EXCEPT ![s] = "running"])
        /\ batch' = [batch EXCEPT !.step = s]
    BY <1>2 DEF StartCall, s
  <2>3. Running = {} /\ pc' = "tool" /\ plan \in [Steps -> StepStatuses] /\ batch'.step = s
        /\ outcome' = outcome
    <3>1. Running = {} /\ pc' = "tool"
      BY <1>1, <1>2, NoneRunning DEF StartCall
    <3>2. plan \in [Steps -> StepStatuses]
      BY <1>1 DEF TypeOK, StepStatuses
    <3>3. batch'.step = s /\ outcome' = outcome
      BY <1>1, <1>2, <2>2 DEF TypeOK, StartCall
    <3>4. QED
      BY <3>1, <3>2, <3>3
  <2>4. 0 \notin Steps
    BY PlanAssumption DEF Steps
  <2>5. Running' = {s} \ {0}
    <3>1. CASE s = 0
      BY <2>2, <2>3, <3>1 DEF Running
    <3>2. CASE s \in Steps
      BY <2>2, <2>3, <2>4, <3>2 DEF Running
    <3>3. QED
      BY <2>1, <3>1, <3>2
  <2>6. QED
    BY <2>3, <2>5 DEF PlanFollowsTools
<1>3. CASE EndCall
  <2>1. batch'.step = 0 /\ pc' = "batch" /\ outcome' = outcome
    <3>1. PICK status \in Statuses : \E advised : Done(status, advised)
      BY <1>3 DEF EndCall
    <3>2. Len(batch.done) < Len(batch.calls)
      BY <1>1, <1>3 DEF ControlInv, EndCall
    <3>3. batch'.step = 0
      BY <1>1, <3>1, <3>2, DoneType
    <3>4. QED
      BY <1>3, <3>3 DEF EndCall
  <2>2. Running = {batch.step} \ {0}
    BY <1>1, <1>3 DEF PlanFollowsTools, ControlInv, EndCall
  <2>3. PICK new \in {"completed", "failed"} :
           plan' = IF batch.step = 0 THEN plan ELSE [plan EXCEPT ![batch.step] = new]
    BY <1>3 DEF EndCall
  <2>4. plan \in [Steps -> StepStatuses] /\ batch.step \in Steps \cup {0}
    BY <1>1 DEF TypeOK, StepStatuses
  <2>5. Running' = {}
    <3>1. CASE batch.step = 0
      BY <2>2, <2>3, <3>1 DEF Running
    <3>2. CASE batch.step # 0
      BY <2>2, <2>3, <2>4, <3>2 DEF Running
    <3>3. QED
      BY <3>1, <3>2
  <2>6. QED
    BY <2>1, <2>5 DEF PlanFollowsTools
<1>4. CASE SkipCall
  <2>1. batch'.step = 0 /\ pc' = "batch" /\ UNCHANGED <<plan, outcome>>
    <3>1. Done("failure", Call.tool = "write") /\ Len(batch.done) < Len(batch.calls)
          /\ "failure" \in Statuses
      BY <1>4 DEF SkipCall, Statuses
    <3>2. batch'.step = 0
      BY <1>1, <3>1, DoneType
    <3>3. QED
      BY <1>4, <3>2 DEF SkipCall
  <2>2. Running' = {}
    BY <1>1, <1>4, <2>1, NoneRunning DEF Running, SkipCall
  <2>3. QED
    BY <2>1, <2>2 DEF PlanFollowsTools
<1>5. CASE EndBatch \/ CallsTools
  <2>1. batch'.step = 0
    <3>1. CASE EndBatch
      BY <3>1, NoBatchFacts DEF EndBatch
    <3>2. CASE CallsTools
      <4>1. PICK n \in 1..(MaxCalls - Len(events)) :
               \E calls \in [1..n -> Calls], truncated \in BOOLEAN :
                  batch' = [NoBatch EXCEPT !.calls = calls, !.truncated = truncated]
        BY ZenonT(40), <3>2 DEF CallsTools
      <4>2. QED
        BY <4>1, NoBatchFacts
    <3>3. QED
      BY <1>5, <3>1, <3>2
  <2>2. pc \notin {"tool", "over"} /\ pc' \notin {"tool", "over"} /\ UNCHANGED <<plan, outcome>>
    BY <1>5 DEF EndBatch, CallsTools
  <2>3. Running' = {}
    BY <1>1, <2>2, NoneRunning DEF Running
  <2>4. QED
    BY <2>1, <2>2, <2>3 DEF PlanFollowsTools
<1>6. CASE Judged
  <2>1. Running = {} /\ batch.step = 0 /\ batch' = batch /\ pc' \in {"model", "head"}
    BY <1>1, <1>6, NoneRunning DEF Judged
  <2>2. plan' = plan
    <3>1. plan' = [s \in Steps |-> plan[s]]
      BY <1>6, <2>1 DEF Judged, Interrupted
    <3>2. plan \in [Steps -> StepStatuses]
      BY <1>1 DEF TypeOK, StepStatuses
    <3>3. QED
      BY <3>1, <3>2
  <2>3. Running' = {}
    BY <2>1, <2>2 DEF Running
  <2>4. QED
    BY <2>1, <2>3 DEF PlanFollowsTools
<1>7. CASE Finalize
  <2>1. Running = {} /\ batch.step = 0 /\ batch' = batch /\ pc' = "over"
    BY <1>1, <1>7, NoneRunning DEF Finalize
  <2>2. \A s \in Steps : plan'[s] \notin {"pending", "running"}
    BY <1>7 DEF Finalize, Settled
  <2>3. QED
    BY <2>1, <2>2 DEF PlanFollowsTools, Running
<1>8. CASE CallRaises
  BY <1>8 DEF CallRaises, PlanFollowsTools
<1>9. CASE /\ UNCHANGED <<plan, batch>> /\ pc \notin {"tool", "over"} /\ pc' # "tool"
           /\ pc' = "over" => outcome' \in {"aborted", "failed"}
  <2>1. Running' = {} /\ batch'.step = 0
    BY <1>1, <1>9, NoneRunning DEF Running
  <2>2. QED
    BY <1>9, <2>1 DEF PlanFollowsTools
<1>10. CASE UNCHANGED <<plan, batch, pc, outcome>>
  BY <1>10 DEF PlanFollowsTools, Running
<1>11. QED
  <2>1. StartRound \/ Exhausted \/ ModelFails \/ IdleTimeout \/ Overtaken \/ Answers \/ Malformed =>
           /\ UNCHANGED <<plan, batch>> /\ pc \notin {"tool", "over"} /\ pc' # "tool"
           /\ pc' = "over" => outcome' \in {"aborted", "failed"}
    BY DEF StartRound, Exhausted, ModelFails, GivesUp, IdleTimeout, Overtaken, Answers,
           Malformed, toolVars
  <2>2. Guide \/ UNCHANGED vars => UNCHANGED <<plan, batch, pc, outcome>>
    BY DEF Guide, vars, toolVars
  <2>3. QED
    BY <1>2, <1>3, <1>4, <1>5, <1>6, <1>7, <1>8, <1>9, <1>10, <2>1, <2>2 DEF Next, Step

-----------------------------------------------------------------------------
(* Calls and their answers. *)

\* Messages that are neither calls nor answers may follow.
LEMMA WellAnsweredConcat ==
    ASSUME NEW ms \in Seq(Messages), NEW t \in Seq(Messages), WellAnswered(ms),
           \A i \in DOMAIN t : t[i].kind \notin {"calls", "tool"}
    PROVE  WellAnswered(ms \o t)
<1> DEFINE c == ms \o t
<1>1. /\ \A i \in DOMAIN ms : i \in DOMAIN c /\ c[i] = ms[i]
      /\ \A i \in DOMAIN t : c[Len(ms) + i] = t[i]
      /\ \A i \in DOMAIN c : i \in DOMAIN ms \/ \E j \in DOMAIN t : i = Len(ms) + j
  BY ConcatPositions
<1> HIDE DEF c
<1>2. ASSUME NEW i \in DOMAIN c, c[i].kind \in {"calls", "tool"}
      PROVE  i \in DOMAIN ms /\ c[i] = ms[i]
  BY <1>1, <1>2
<1>3. ASSUME NEW i \in DOMAIN c, c[i].kind = "calls", NEW k \in 1..c[i].n
      PROVE  i + k \in DOMAIN c /\ c[i + k] = [kind |-> "tool", n |-> k]
  <2>1. i + k \in DOMAIN ms /\ ms[i + k] = [kind |-> "tool", n |-> k]
    BY <1>2, <1>3 DEF WellAnswered
  <2>2. QED
    BY <1>1, <2>1
<1>4. ASSUME NEW j \in DOMAIN c, c[j].kind = "tool"
      PROVE  \E i \in DOMAIN c : c[i].kind = "calls" /\ j = i + c[j].n /\ c[j].n <= c[i].n
  <2>1. j \in DOMAIN ms /\ c[j] = ms[j]
    BY <1>2, <1>4
  <2>2. PICK i \in DOMAIN ms : ms[i].kind = "calls" /\ j = i + ms[j].n /\ ms[j].n <= ms[i].n
    BY <1>4, <2>1 DEF WellAnswered
  <2>3. i \in DOMAIN c /\ c[i] = ms[i]
    BY <1>1, <2>2
  <2>4. QED
    BY <2>1, <2>2, <2>3
<1>5. WellAnswered(c)
  BY <1>3, <1>4 DEF WellAnswered
<1>6. QED
  BY <1>5 DEF c

\* Calls with all their answers may follow, and then what is neither.
LEMMA WellAnsweredBatch ==
    ASSUME NEW ms \in Seq(Messages), NEW t \in Seq(Messages), WellAnswered(ms),
           NEW n \in Nat, n <= Len(t),
           \A i \in 1..n : t[i] = [kind |-> "tool", n |-> i],
           \A i \in DOMAIN t : i > n => t[i].kind \notin {"calls", "tool"}
    PROVE  WellAnswered(Append(ms, [kind |-> "calls", n |-> n]) \o t)
<1> DEFINE m == [kind |-> "calls", n |-> n]
           h == Append(ms, m)
           c == h \o t
           at == Len(ms) + 1
<1>1. m \in Messages /\ m.kind = "calls" /\ m.n = n
  BY DEF Messages, Kinds
<1>2. Len(ms) \in Nat /\ DOMAIN ms = 1..Len(ms) /\ Len(t) \in Nat /\ DOMAIN t = 1..Len(t)
  OBVIOUS
<1> HIDE DEF m
<1>3. /\ h \in Seq(Messages) /\ Len(h) = at /\ DOMAIN h = 1..at
      /\ \A i \in 1..Len(ms) : h[i] = ms[i]
      /\ h[at] = m
  BY <1>1, AppendFacts
<1> HIDE DEF h
<1>4. /\ \A i \in DOMAIN h : i \in DOMAIN c /\ c[i] = h[i]
      /\ \A i \in DOMAIN t : Len(h) + i \in DOMAIN c /\ c[Len(h) + i] = t[i]
      /\ \A i \in DOMAIN c : i \in DOMAIN h \/ \E j \in DOMAIN t : i = Len(h) + j
  BY <1>3, ConcatPositions
<1> HIDE DEF c
<1>5. /\ \A i \in DOMAIN ms : i \in DOMAIN c /\ c[i] = ms[i]
      /\ at \in DOMAIN c /\ c[at] = m
      /\ \A i \in DOMAIN t : at + i \in DOMAIN c /\ c[at + i] = t[i]
  <2>1. \A i \in 1..Len(ms) : i \in 1..at
    BY <1>2
  <2>2. at \in 1..at
    BY <1>2
  <2>3. QED
    BY <1>2, <1>3, <1>4, <2>1, <2>2
<1>6. \A i \in DOMAIN c : i \in DOMAIN ms \/ i = at \/ \E j \in DOMAIN t : i = at + j
  <2>1. \A i \in 1..at : i \in 1..Len(ms) \/ i = at
    BY <1>2
  <2>2. QED
    BY <1>2, <1>3, <1>4, <2>1
<1>7. ASSUME NEW i \in DOMAIN c, c[i].kind = "calls", NEW k \in 1..c[i].n
      PROVE  i + k \in DOMAIN c /\ c[i + k] = [kind |-> "tool", n |-> k]
  <2>1. CASE i \in DOMAIN ms
    <3>1. i + k \in DOMAIN ms /\ ms[i + k] = [kind |-> "tool", n |-> k]
      BY <1>5, <1>7, <2>1 DEF WellAnswered
    <3>2. QED
      BY <1>5, <3>1
  <2>2. CASE i = at
    <3>1. k \in 1..n
      BY <1>1, <1>5, <1>7, <2>2
    <3>2. k \in DOMAIN t
      BY <1>2, <3>1
    <3>3. QED
      BY <1>5, <2>2, <3>1, <3>2
  <2>3. CASE \E j \in DOMAIN t : i = at + j
    <3>1. PICK j \in DOMAIN t : i = at + j
      BY <2>3
    <3>2. t[j].kind = "calls"
      BY <1>5, <1>7, <3>1
    <3>3. CASE j \in 1..n
      <4>1. t[j] = [kind |-> "tool", n |-> j]
        BY <3>3
      <4>2. QED
        BY <3>2, <4>1
    <3>4. CASE j > n
      BY <3>2, <3>4
    <3>5. QED
      BY <1>2, <3>3, <3>4
  <2>4. QED
    BY <1>6, <2>1, <2>2, <2>3
<1>8. ASSUME NEW j \in DOMAIN c, c[j].kind = "tool"
      PROVE  \E i \in DOMAIN c : c[i].kind = "calls" /\ j = i + c[j].n /\ c[j].n <= c[i].n
  <2>1. CASE j \in DOMAIN ms
    <3>1. c[j] = ms[j]
      BY <1>5, <2>1
    <3>2. PICK i \in DOMAIN ms : ms[i].kind = "calls" /\ j = i + ms[j].n /\ ms[j].n <= ms[i].n
      BY <1>8, <2>1, <3>1 DEF WellAnswered
    <3>3. i \in DOMAIN c /\ c[i] = ms[i]
      BY <1>5, <3>2
    <3>4. QED
      BY <3>1, <3>2, <3>3
  <2>2. CASE j = at
    BY <1>1, <1>5, <1>8, <2>2
  <2>3. CASE \E i \in DOMAIN t : j = at + i
    <3>1. PICK i \in DOMAIN t : j = at + i
      BY <2>3
    <3>2. c[j] = t[i]
      BY <1>5, <3>1
    <3>3. i \in 1..n
      <4>1. ~(i > n)
        BY <1>8, <3>2
      <4>2. i \in 1..Len(t)
        BY <1>2
      <4>3. QED
        BY <1>2, <4>1, <4>2
    <3>a. t[i] = [kind |-> "tool", n |-> i]
      BY <3>3
    <3>4. i <= n
      BY <3>3
    <3>5. c[j].n = i
      BY <3>2, <3>a
    <3>6. QED
      BY <1>1, <1>5, <3>1, <3>4, <3>5
  <2>4. QED
    BY <1>6, <2>1, <2>2, <2>3
<1>9. WellAnswered(c)
  BY <1>7, <1>8 DEF WellAnswered
<1>10. QED
  BY <1>9 DEF c, h, m

\* Messages that are neither calls nor answers may be dropped: what is picked
\* keeps the answers right after their calls.
LEMMA WellAnsweredPicked ==
    ASSUME NEW s \in Seq(Messages), NEW K \in SUBSET DOMAIN s, WellAnswered(s),
           \A i \in DOMAIN s : s[i].kind \in {"calls", "tool"} => i \in K
    PROVE  WellAnswered(Picked(s, K))
<1> DEFINE p == Picked(s, K)
<1>1. PICK f \in [DOMAIN p -> K] :
         /\ p \in Seq(Messages)
         /\ \A n \in DOMAIN p : p[n] = s[f[n]]
         /\ \A m, n \in DOMAIN p : m < n => f[m] < f[n]
         /\ \A i \in K : \E n \in DOMAIN p : f[n] = i
  BY PickedFacts
<1> HIDE DEF p
<1>2. /\ DOMAIN p = 1..Len(p) /\ Len(p) \in Nat
      /\ DOMAIN s = 1..Len(s) /\ Len(s) \in Nat
      /\ \A n \in DOMAIN p : n \in Nat /\ f[n] \in K /\ f[n] \in DOMAIN s /\ f[n] \in Nat
  <2>1. DOMAIN p = 1..Len(p) /\ Len(p) \in Nat /\ DOMAIN s = 1..Len(s) /\ Len(s) \in Nat
    BY <1>1
  <2>2. \A n \in DOMAIN p : f[n] \in K
    BY <1>1
  <2>3. QED
    BY <2>1, <2>2
<1>a. \A i \in DOMAIN s : s[i].n \in Nat
  <2>1. \A i \in DOMAIN s : s[i] \in Messages
    OBVIOUS
  <2>2. QED
    BY <2>1 DEF Messages
<1>b. \A m, n \in DOMAIN p : f[m] = f[n] => m = n
  <2>1. TAKE m, n \in DOMAIN p
  <2>2. m < n \/ m = n \/ n < m
    BY <1>2
  <2>3. QED
    BY <1>1, <1>2, <2>2
<1>3. ASSUME NEW n \in DOMAIN p, p[n].kind = "calls"
      PROVE  \A k \in 0..p[n].n : n + k \in DOMAIN p /\ f[n + k] = f[n] + k
  <2> DEFINE Bad == {k \in 0..p[n].n : ~(n + k \in DOMAIN p /\ f[n + k] = f[n] + k)}
  <2>1. SUFFICES ASSUME Bad # {} PROVE FALSE
    OBVIOUS
  <2>2. p[n] = s[f[n]] /\ p[n].n \in Nat
    BY <1>1, <1>2, <1>a
  <2>3. Bad \subseteq Nat
    BY <2>2
  <2>4. PICK k \in Bad : \A t \in Bad : k <= t
    BY <2>1, <2>3, LeastNumber
  <2>5. n \in Nat /\ f[n] \in Nat /\ k \in Nat /\ k <= p[n].n
    BY <1>2, <2>2
  <2>6. k # 0
    <3>1. n + 0 = n /\ f[n] + 0 = f[n]
      BY <2>5
    <3>2. 0 \notin Bad
      BY <3>1
    <3>3. QED
      BY <3>2
  <2>7. k - 1 \in 0..p[n].n /\ k - 1 \notin Bad
    BY <2>2, <2>4, <2>5, <2>6
  <2>8. n + (k - 1) \in DOMAIN p /\ f[n + (k - 1)] = f[n] + (k - 1)
    BY <2>7
  <2>9. f[n] + k \in DOMAIN s /\ s[f[n] + k].kind = "tool"
    <3>1. k \in 1..s[f[n]].n
      BY <2>2, <2>5, <2>6
    <3>2. f[n] \in DOMAIN s /\ s[f[n]].kind = "calls"
      BY <1>2, <1>3, <2>2
    <3>3. f[n] + k \in DOMAIN s /\ s[f[n] + k] = [kind |-> "tool", n |-> k]
      BY <3>1, <3>2 DEF WellAnswered
    <3>4. QED
      BY <3>3
  <2>10. PICK m \in DOMAIN p : f[m] = f[n] + k
    BY <1>1, <2>9
  <2> DEFINE q == n + (k - 1)
  <2>11. q \in DOMAIN p /\ q \in Nat /\ f[q] = f[n] + (k - 1) /\ n + k = q + 1
         /\ f[m] = f[q] + 1 /\ f[q] \in Nat
    <3>1. q \in DOMAIN p /\ f[q] = f[n] + (k - 1)
      BY <2>8
    <3>2. q \in Nat /\ f[q] \in Nat
      BY <1>2, <3>1
    <3>3. n + k = q + 1
      BY <2>5
    <3>4. f[m] = f[q] + 1
      BY <2>5, <2>10, <3>1
    <3>5. QED
      BY <3>1, <3>2, <3>3, <3>4
  <2> HIDE DEF q
  <2>12. q < m
    <3>1. ~(m < q)
      <4>1. m < q => f[m] < f[q]
        BY <1>1, <2>11
      <4>2. QED
        BY <2>11, <4>1
    <3>2. m # q
      BY <2>11
    <3>3. QED
      BY <1>2, <2>11, <3>1, <3>2
  <2>13. q + 1 \in DOMAIN p
    BY <1>2, <2>11, <2>12
  <2>14. m = q + 1
    <3>1. SUFFICES ASSUME q + 1 < m PROVE FALSE
      BY <1>2, <2>11, <2>12
    <3>2. q < q + 1
      BY <2>11
    <3>3. f[q] < f[q + 1] /\ f[q + 1] < f[m] /\ f[q + 1] \in Nat
      BY <1>1, <1>2, <2>11, <2>13, <3>1, <3>2
    <3>4. QED
      BY <2>11, <3>3
  <2>15. n + k \in DOMAIN p /\ f[n + k] = f[n] + k
    BY <2>10, <2>11, <2>13, <2>14
  <2>16. QED
    BY <2>15
<1>4. ASSUME NEW n \in DOMAIN p, p[n].kind = "calls", NEW k \in 1..p[n].n
      PROVE  n + k \in DOMAIN p /\ p[n + k] = [kind |-> "tool", n |-> k]
  <2>1. p[n] = s[f[n]] /\ f[n] \in DOMAIN s /\ p[n].n \in Nat
    BY <1>1, <1>2, <1>a
  <2>2. n + k \in DOMAIN p /\ f[n + k] = f[n] + k
    BY <1>3, <1>4, <2>1
  <2>3. s[f[n] + k] = [kind |-> "tool", n |-> k]
    BY <1>4, <2>1 DEF WellAnswered
  <2>4. QED
    BY <1>1, <2>2, <2>3
<1>5. ASSUME NEW j \in DOMAIN p, p[j].kind = "tool"
      PROVE  \E i \in DOMAIN p : p[i].kind = "calls" /\ j = i + p[j].n /\ p[j].n <= p[i].n
  <2>1. p[j] = s[f[j]] /\ f[j] \in DOMAIN s
    BY <1>1, <1>2
  <2>2. PICK i \in DOMAIN s :
           s[i].kind = "calls" /\ f[j] = i + s[f[j]].n /\ s[f[j]].n <= s[i].n
    BY <1>5, <2>1 DEF WellAnswered
  <2>3. PICK m \in DOMAIN p : f[m] = i
    BY <1>1, <2>2
  <2>4. p[m] = s[i]
    BY <1>1, <2>3
  <2>5. p[j].n \in Nat /\ p[m].n \in Nat /\ p[j].n <= p[m].n
    BY <1>a, <2>1, <2>2, <2>4
  <2>6. m + p[j].n \in DOMAIN p /\ f[m + p[j].n] = f[m] + p[j].n
    BY <1>3, <2>2, <2>4, <2>5
  <2>7. f[m + p[j].n] = f[j]
    BY <2>1, <2>2, <2>3, <2>6
  <2>8. j = m + p[j].n
    BY <1>b, <2>6, <2>7
  <2>9. QED
    BY <2>2, <2>4, <2>5, <2>8
<1>6. WellAnswered(p)
  BY <1>4, <1>5 DEF WellAnswered
<1>7. QED
  BY <1>6 DEF p

LEMMA WellAnsweredConsumed ==
    ASSUME TypeOK, WellAnswered(messages)
    PROVE  Consumed \in Seq(Messages) /\ WellAnswered(Consumed)
<1> DEFINE K == {i \in DOMAIN messages :
                    messages[i].kind # "notice" \/ messages[i].n \notin transient}
<1>1. messages \in Seq(Messages) /\ K \in SUBSET DOMAIN messages
      /\ \A i \in DOMAIN messages : messages[i].kind \in {"calls", "tool"} => i \in K
  BY DEF TypeOK
<1>2. WellAnswered(Picked(messages, K))
  <2> HIDE DEF K
  <2>1. QED
    BY <1>1, WellAnsweredPicked
<1>3. QED
  BY <1>2, ConsumedType DEF Consumed

LEMMA WellAnsweredWithoutPack ==
    ASSUME NEW ms \in Seq(Messages), WellAnswered(ms)
    PROVE  WellAnswered(WithoutPack(ms))
<1> DEFINE K == {i \in DOMAIN ms : ms[i].kind # "pack"}
<1>1. K \in SUBSET DOMAIN ms
      /\ \A i \in DOMAIN ms : ms[i].kind \in {"calls", "tool"} => i \in K
  OBVIOUS
<1>2. WellAnswered(Picked(ms, K))
  <2> HIDE DEF K
  <2>1. QED
    BY <1>1, WellAnsweredPicked
<1>3. QED
  BY <1>2 DEF WithoutPack

LEMMA WellAnsweredAppend ==
    ASSUME NEW ms \in Seq(Messages), WellAnswered(ms),
           NEW m \in Messages, m.kind \notin {"calls", "tool"}
    PROVE  Append(ms, m) \in Seq(Messages) /\ WellAnswered(Append(ms, m))
<1>1. Append(ms, m) = ms \o <<m>> /\ <<m>> \in Seq(Messages) /\ Append(ms, m) \in Seq(Messages)
  OBVIOUS
<1>2. \A i \in DOMAIN <<m>> : <<m>>[i].kind \notin {"calls", "tool"}
  <2>1. DOMAIN <<m>> = {1} /\ <<m>>[1] = m
    OBVIOUS
  <2>2. QED
    BY <2>1
<1>3. QED
  BY <1>1, <1>2, WellAnsweredConcat

LEMMA FrontAppend ==
    ASSUME NEW s \in Seq(Messages), NEW m \in Messages
    PROVE  /\ Front(Append(s, m)) = s /\ Append(s, m) # <<>>
           /\ Append(s, m)[Len(Append(s, m))] = m
BY DEF Front

LEMMA AppendFront ==
    ASSUME NEW s \in Seq(Messages), s # <<>>
    PROVE  Front(s) \in Seq(Messages) /\ s = Append(Front(s), s[Len(s)])
BY DEF Front

LEMMA InitCalls == Init => CallsInv
<1>1. DOMAIN <<>> = {}
  OBVIOUS
<1>2. QED
  BY <1>1 DEF Init, CallsInv, WellAnswered

LEMMA NextCalls == ASSUME TypeInv, CallsInv, [Next]_vars PROVE CallsInv'
<1>1. TypeOK /\ messages \in Seq(Messages)
  BY DEF TypeInv, TypeOK
<1>2. CASE Judged
  <2>1. WellAnswered(messages) /\ messages' = messages \o Reoriented
        /\ pc' \notin {"batch", "tool"}
    BY <1>2 DEF Judged, CallsInv
  <2>2. Reoriented \in Seq(Messages)
    BY <1>1, ReorientedType
  <2>3. ASSUME NEW i \in DOMAIN Reoriented
        PROVE  Reoriented[i].kind \notin {"calls", "tool"}
    <3>1. /\ Len(Reoriented) = Len(taken) + 2
          /\ Reoriented[1].kind = "contract" /\ Reoriented[2].kind = "orientation"
          /\ \A k \in 1..Len(taken) : Reoriented[k + 2] = [kind |-> "guidance", n |-> taken[k]]
      BY <1>1, ReorientedType
    <3>2. taken \in Seq(1..guided) /\ Len(taken) \in Nat
      BY <1>1 DEF TypeOK
    <3>3. i \in Nat /\ 1 <= i /\ i <= Len(taken) + 2
      BY <2>2, <3>1, <3>2
    <3>4. CASE i = 1 \/ i = 2
      BY <3>1, <3>4
    <3>5. CASE i > 2
      <4>1. i - 2 \in 1..Len(taken) /\ i = (i - 2) + 2
        BY <3>2, <3>3, <3>5
      <4>2. Reoriented[i] = [kind |-> "guidance", n |-> taken[i - 2]]
        BY <3>1, <4>1
      <4>3. QED
        BY <4>2
    <3>6. QED
      BY <3>3, <3>4, <3>5
  <2>4. WellAnswered(messages')
    BY <1>1, <2>1, <2>2, <2>3, WellAnsweredConcat
  <2>5. QED
    BY <2>1, <2>4 DEF CallsInv
<1>3. CASE Overtaken \/ Answers
  <2>1. WellAnswered(messages) /\ messages' = Consumed /\ pc' \notin {"batch", "tool"}
    BY <1>3 DEF Overtaken, Answers, Consume, CallsInv
  <2>2. WellAnswered(messages')
    BY <1>1, <2>1, WellAnsweredConsumed
  <2>3. QED
    BY <2>1, <2>2 DEF CallsInv
<1>4. CASE Malformed
  <2> DEFINE m == [kind |-> "notice", n |-> notices + 1]
  <2>1. WellAnswered(messages) /\ messages' = Append(Consumed, m) /\ pc' \notin {"batch", "tool"}
    BY <1>4 DEF Malformed, CallsInv
  <2>2. m \in Messages /\ m.kind = "notice"
    BY <1>1 DEF TypeOK, Messages, Kinds
  <2> HIDE DEF m
  <2>3. WellAnswered(messages')
    BY <1>1, <2>1, <2>2, WellAnsweredConsumed, WellAnsweredAppend
  <2>4. QED
    BY <2>1, <2>3 DEF CallsInv
<1>5. CASE CallsTools
  <2>1. WellAnswered(messages) /\ pc' = "batch"
    BY <1>5 DEF CallsTools, CallsInv
  <2>2. PICK n \in 1..(MaxCalls - Len(events)) :
           \E calls \in [1..n -> Calls], truncated \in BOOLEAN :
              /\ batch' = [NoBatch EXCEPT !.calls = calls, !.truncated = truncated]
              /\ messages' = Append(Consumed, [kind |-> "calls", n |-> n])
    BY <1>5 DEF CallsTools
  <2>3. n \in Nat
    BY <1>1, CallsAssumption DEF TypeOK
  <2>4. Len(batch'.calls) = n
    <3>1. PICK calls \in [1..n -> Calls], truncated \in BOOLEAN :
              batch' = [NoBatch EXCEPT !.calls = calls, !.truncated = truncated]
      BY <2>2
    <3>2. batch'.calls = calls
      BY <3>1, NoBatchFacts
    <3>3. QED
      BY <2>3, <3>2
  <2> DEFINE m == [kind |-> "calls", n |-> n]
  <2>5. m \in Messages /\ messages' = Append(Consumed, m) /\ m = [kind |-> "calls", n |-> n]
    BY <2>2, <2>3 DEF Messages, Kinds
  <2> HIDE DEF m
  <2>6. Consumed \in Seq(Messages) /\ WellAnswered(Consumed)
    BY <1>1, <2>1, WellAnsweredConsumed
  <2>7. /\ Front(messages') = Consumed /\ messages' # <<>>
        /\ messages'[Len(messages')] = m
    BY <2>5, <2>6, FrontAppend
  <2>8. WellAnswered(Front(messages'))
    BY <2>6, <2>7
  <2>9. QED
    BY <2>1, <2>4, <2>5, <2>7, <2>8 DEF CallsInv
<1>6. CASE EndBatch
  <2>1. /\ messages # <<>>
        /\ messages[Len(messages)] = [kind |-> "calls", n |-> Len(batch.calls)]
        /\ WellAnswered(Front(messages))
        /\ Len(batch.done) = Len(batch.calls) /\ pc' = "head"
    BY <1>6 DEF EndBatch, CallsInv
  <2> DEFINE n == Len(batch.done)
  <2>2. /\ Answered \in Seq(Messages) /\ Len(Answered) = n + batch.advice
        /\ \A i \in 1..n : Answered[i] = [kind |-> "tool", n |-> i]
        /\ \A i \in 1..batch.advice :
              Answered[n + i] = [kind |-> "notice", n |-> notices + i]
    BY <1>1, AnsweredType
  <2>3. n \in Nat /\ batch.advice \in Nat
    BY <1>1 DEF TypeOK
  <2>4. messages = Append(Front(messages), [kind |-> "calls", n |-> n])
        /\ Front(messages) \in Seq(Messages)
    BY <1>1, <2>1, AppendFront
  <2> HIDE DEF n
  <2>5. ASSUME NEW i \in DOMAIN Answered, i > n
        PROVE  Answered[i].kind \notin {"calls", "tool"}
    <3>1. i \in Nat /\ i <= n + batch.advice
      BY <2>2, <2>3
    <3>2. i - n \in 1..batch.advice /\ i = n + (i - n)
      BY <2>3, <2>5, <3>1
    <3>3. Answered[i] = [kind |-> "notice", n |-> notices + (i - n)]
      BY <2>2, <3>2
    <3>4. QED
      BY <3>3
  <2>6. n <= Len(Answered)
    BY <2>2, <2>3
  <2>7. WellAnswered(Append(Front(messages), [kind |-> "calls", n |-> n]) \o Answered)
    BY <2>1, <2>2, <2>3, <2>4, <2>5, <2>6, WellAnsweredBatch
  <2>8. WellAnswered(messages \o Answered) /\ messages \o Answered \in Seq(Messages)
    <3>1. messages \o Answered \in Seq(Messages)
      BY <1>1, <2>2, ConcatFacts
    <3>2. QED
      BY <2>4, <2>7, <3>1
  <2> DEFINE kept == WithoutPack(messages \o Answered)
             pack == [kind |-> "pack", n |-> 0]
  <2>9. kept \in Seq(Messages) /\ WellAnswered(kept)
    BY <2>8, WithoutPackType, WellAnsweredWithoutPack
  <2>10. pack \in Messages /\ pack.kind = "pack"
    BY DEF Messages, Kinds
  <2>11. PICK more \in Nat, extra \in Seq(Messages) :
            /\ \A k \in 1..Len(extra) :
                  extra[k] = [kind |-> "notice", n |-> notices + (batch.advice + k)]
            /\ messages' = kept \o <<pack>> \o extra
    BY <1>1, <1>6, EndBatchFacts
  <2> HIDE DEF kept, pack
  <2>12. kept \o <<pack>> = Append(kept, pack)
    BY <2>9, <2>10
  <2>13. Append(kept, pack) \in Seq(Messages) /\ WellAnswered(Append(kept, pack))
    BY <2>9, <2>10, WellAnsweredAppend
  <2>14. \A k \in DOMAIN extra : extra[k].kind \notin {"calls", "tool"}
    <3>1. TAKE k \in DOMAIN extra
    <3>2. k \in 1..Len(extra)
      OBVIOUS
    <3>3. extra[k] = [kind |-> "notice", n |-> notices + (batch.advice + k)]
      BY <2>11, <3>2
    <3>4. QED
      BY <3>3
  <2>15. WellAnswered(Append(kept, pack) \o extra)
    BY <2>13, <2>14, WellAnsweredConcat
  <2>16. WellAnswered(messages')
    BY <2>11, <2>12, <2>15
  <2>17. QED
    BY <2>1, <2>16 DEF CallsInv
<1>7. CASE SkipCall \/ StartCall \/ EndCall
  <2>1. messages' = messages /\ pc \in {"batch", "tool"} /\ pc' \in {"batch", "tool"}
    BY <1>7 DEF SkipCall, StartCall, EndCall
  <2>2. batch'.calls = batch.calls
    <3>1. CASE SkipCall
      BY <1>1, <3>1, DoneType DEF SkipCall, Statuses
    <3>2. CASE StartCall
      BY <1>1, <3>2 DEF StartCall, TypeOK
    <3>3. CASE EndCall
      <4>1. PICK status \in Statuses : \E advised : Done(status, advised)
        BY <3>3 DEF EndCall
      <4>2. Len(batch.done) < Len(batch.calls)
        BY <3>3 DEF TypeInv, ControlInv, EndCall
      <4>3. QED
        BY <1>1, <4>1, <4>2, DoneType
    <3>4. QED
      BY <1>7, <3>1, <3>2, <3>3
  <2>3. QED
    BY <2>1, <2>2 DEF CallsInv
<1>8. CASE /\ messages' = messages
           /\ pc' \in {"head", "judging", "model", "late"}
                 => pc \in {"head", "judging", "model", "late"}
           /\ pc' \in {"batch", "tool"} => pc' = pc /\ batch' = batch
  BY <1>8 DEF CallsInv
<1>9. QED
  <2>1. StartRound \/ Exhausted \/ ModelFails \/ IdleTimeout \/ CallRaises \/ Finalize \/ Guide =>
           /\ messages' = messages
           /\ pc' \in {"head", "judging", "model", "late"}
                 => pc \in {"head", "judging", "model", "late"}
           /\ pc' \in {"batch", "tool"} => pc' = pc /\ batch' = batch
    BY DEF StartRound, Exhausted, ModelFails, GivesUp, IdleTimeout, CallRaises, Finalize, Guide,
           toolVars
  <2>2. UNCHANGED vars => messages' = messages /\ pc' = pc /\ batch' = batch
    BY DEF vars, toolVars
  <2>3. QED
    BY <1>2, <1>3, <1>4, <1>5, <1>6, <1>7, <1>8, <2>1, <2>2 DEF Next, Step

-----------------------------------------------------------------------------
(* Guidance. *)

LEMMA GuidanceInFacts ==
    ASSUME NEW ms, NEW n
    PROVE  n \in GuidanceIn(ms) <=> \E i \in DOMAIN ms : ms[i].kind = "guidance" /\ ms[i].n = n
BY DEF GuidanceIn

LEMMA GuidanceInConcat ==
    ASSUME NEW s \in Seq(Messages), NEW t \in Seq(Messages)
    PROVE  GuidanceIn(s \o t) = GuidanceIn(s) \cup GuidanceIn(t)
<1> DEFINE c == s \o t
<1>1. /\ \A i \in DOMAIN s : i \in DOMAIN c /\ c[i] = s[i]
      /\ \A i \in DOMAIN t : Len(s) + i \in DOMAIN c /\ c[Len(s) + i] = t[i]
      /\ \A i \in DOMAIN c : i \in DOMAIN s \/ \E j \in DOMAIN t : i = Len(s) + j
  BY ConcatPositions
<1> HIDE DEF c
<1>2. ASSUME NEW n
      PROVE  n \in GuidanceIn(c) <=> n \in GuidanceIn(s) \/ n \in GuidanceIn(t)
  <2>1. ASSUME n \in GuidanceIn(c) PROVE n \in GuidanceIn(s) \/ n \in GuidanceIn(t)
    <3>1. PICK i \in DOMAIN c : c[i].kind = "guidance" /\ c[i].n = n
      BY <2>1, GuidanceInFacts
    <3>2. QED
      BY <1>1, <3>1, GuidanceInFacts
  <2>2. ASSUME n \in GuidanceIn(s) PROVE n \in GuidanceIn(c)
    BY <1>1, <2>2, GuidanceInFacts
  <2>3. ASSUME n \in GuidanceIn(t) PROVE n \in GuidanceIn(c)
    BY <1>1, <2>3, GuidanceInFacts
  <2>4. QED
    BY <2>1, <2>2, <2>3
<1>3. GuidanceIn(c) = GuidanceIn(s) \cup GuidanceIn(t)
  BY <1>2
<1>4. QED
  BY <1>3 DEF c

LEMMA OrderedConcat ==
    ASSUME NEW s \in Seq(Messages), NEW t \in Seq(Messages), Ordered(s), Ordered(t),
           \A m \in GuidanceIn(s), n \in GuidanceIn(t) : m < n
    PROVE  Ordered(s \o t)
<1> DEFINE c == s \o t
<1>1. /\ \A i \in DOMAIN s : i \in DOMAIN c /\ c[i] = s[i]
      /\ \A i \in DOMAIN t : Len(s) + i \in DOMAIN c /\ c[Len(s) + i] = t[i]
      /\ \A i \in DOMAIN c : i \in DOMAIN s \/ \E j \in DOMAIN t : i = Len(s) + j
  BY ConcatPositions
<1>2. DOMAIN s = 1..Len(s) /\ DOMAIN t = 1..Len(t) /\ Len(s) \in Nat /\ Len(t) \in Nat
  OBVIOUS
<1> HIDE DEF c
<1>3. ASSUME NEW i \in DOMAIN c, NEW j \in DOMAIN c, i < j,
             c[i].kind = "guidance", c[j].kind = "guidance"
      PROVE  c[i].n < c[j].n
  <2>1. CASE i \in DOMAIN s /\ j \in DOMAIN s
    BY <1>1, <1>3, <2>1 DEF Ordered
  <2>2. CASE i \in DOMAIN s /\ \E k \in DOMAIN t : j = Len(s) + k
    <3>1. PICK k \in DOMAIN t : j = Len(s) + k
      BY <2>2
    <3>2. c[i] = s[i] /\ c[j] = t[k]
      BY <1>1, <2>2, <3>1
    <3>3. c[i].n \in GuidanceIn(s) /\ c[j].n \in GuidanceIn(t)
      BY <1>3, <2>2, <3>2, GuidanceInFacts
    <3>4. QED
      BY <3>3
  <2>3. CASE (\E k \in DOMAIN t : i = Len(s) + k) /\ j \in DOMAIN s
    BY <1>2, <1>3, <2>3
  <2>4. CASE (\E k \in DOMAIN t : i = Len(s) + k) /\ (\E k \in DOMAIN t : j = Len(s) + k)
    <3>1. PICK k \in DOMAIN t, l \in DOMAIN t : i = Len(s) + k /\ j = Len(s) + l
      BY <2>4
    <3>2. k < l
      BY <1>2, <1>3, <3>1
    <3>3. c[i] = t[k] /\ c[j] = t[l]
      BY <1>1, <3>1
    <3>4. QED
      BY <1>3, <3>2, <3>3 DEF Ordered
  <2>5. QED
    BY <1>1, <2>1, <2>2, <2>3, <2>4
<1>4. Ordered(c)
  BY <1>3 DEF Ordered
<1>5. QED
  BY <1>4 DEF c

\* What is not guidance may be added and dropped.
LEMMA GuidancePicked ==
    ASSUME NEW s \in Seq(Messages), NEW K \in SUBSET DOMAIN s,
           \A i \in DOMAIN s : s[i].kind = "guidance" => i \in K
    PROVE  /\ GuidanceIn(Picked(s, K)) = GuidanceIn(s)
           /\ Ordered(s) => Ordered(Picked(s, K))
<1> DEFINE p == Picked(s, K)
<1>1. PICK f \in [DOMAIN p -> K] :
         /\ p \in Seq(Messages)
         /\ \A n \in DOMAIN p : p[n] = s[f[n]]
         /\ \A m, n \in DOMAIN p : m < n => f[m] < f[n]
         /\ \A i \in K : \E n \in DOMAIN p : f[n] = i
  BY SMTT(40), PickedFacts
<1> HIDE DEF p
<1>2. \A n \in DOMAIN p : f[n] \in DOMAIN s
  BY <1>1
<1>3. ASSUME NEW n, n \in GuidanceIn(p) PROVE n \in GuidanceIn(s)
  <2>1. PICK k \in DOMAIN p : p[k].kind = "guidance" /\ p[k].n = n
    BY <1>3, GuidanceInFacts
  <2>2. f[k] \in DOMAIN s /\ s[f[k]] = p[k]
    BY <1>1, <1>2
  <2>3. QED
    BY <2>1, <2>2, GuidanceInFacts
<1>4. ASSUME NEW n, n \in GuidanceIn(s) PROVE n \in GuidanceIn(p)
  <2>1. PICK i \in DOMAIN s : s[i].kind = "guidance" /\ s[i].n = n
    BY <1>4, GuidanceInFacts
  <2>2. PICK k \in DOMAIN p : f[k] = i
    BY <1>1, <2>1
  <2>3. p[k] = s[i]
    BY <1>1, <2>2
  <2>4. QED
    BY <2>1, <2>2, <2>3, GuidanceInFacts
<1>5. ASSUME Ordered(s) PROVE Ordered(p)
  <2>1. SUFFICES ASSUME NEW m \in DOMAIN p, NEW n \in DOMAIN p, m < n,
                        p[m].kind = "guidance", p[n].kind = "guidance"
                 PROVE  p[m].n < p[n].n
    BY DEF Ordered
  <2>2. f[m] < f[n] /\ f[m] \in DOMAIN s /\ f[n] \in DOMAIN s /\ p[m] = s[f[m]] /\ p[n] = s[f[n]]
    BY <1>1, <1>2, <2>1
  <2>3. QED
    BY <1>5, <2>1, <2>2 DEF Ordered
<1>6. GuidanceIn(p) = GuidanceIn(s)
  BY <1>3, <1>4
<1>7. QED
  BY <1>5, <1>6 DEF p

LEMMA NoGuidance ==
    ASSUME NEW t, \A i \in DOMAIN t : t[i].kind # "guidance"
    PROVE  GuidanceIn(t) = {} /\ Ordered(t)
<1>1. GuidanceIn(t) = {}
  BY GuidanceInFacts
<1>2. QED
  BY <1>1 DEF Ordered

LEMMA GuidanceConcat ==
    ASSUME NEW s \in Seq(Messages), NEW t \in Seq(Messages),
           \A i \in DOMAIN t : t[i].kind # "guidance"
    PROVE  GuidanceIn(s \o t) = GuidanceIn(s) /\ (Ordered(s) => Ordered(s \o t))
<1>1. GuidanceIn(t) = {} /\ Ordered(t)
  BY NoGuidance
<1>2. GuidanceIn(s \o t) = GuidanceIn(s)
  <2>1. GuidanceIn(s \o t) = GuidanceIn(s) \cup GuidanceIn(t)
    BY GuidanceInConcat
  <2>2. QED
    BY <1>1, <2>1
<1>3. ASSUME Ordered(s) PROVE Ordered(s \o t)
  <2>1. \A m \in GuidanceIn(s), n \in GuidanceIn(t) : m < n
    BY <1>1
  <2>2. QED
    BY <1>1, <1>3, <2>1, OrderedConcat
<1>4. QED
  BY <1>2, <1>3

LEMMA GuidanceAppend ==
    ASSUME NEW s \in Seq(Messages), NEW m \in Messages, m.kind # "guidance"
    PROVE  GuidanceIn(Append(s, m)) = GuidanceIn(s) /\ (Ordered(s) => Ordered(Append(s, m)))
<1>1. Append(s, m) = s \o <<m>> /\ <<m>> \in Seq(Messages)
  OBVIOUS
<1>2. \A i \in DOMAIN <<m>> : <<m>>[i].kind # "guidance"
  <2>1. DOMAIN <<m>> = {1} /\ <<m>>[1] = m
    OBVIOUS
  <2>2. QED
    BY <2>1
<1>3. QED
  BY <1>1, <1>2, GuidanceConcat

LEMMA GuidanceConsumed ==
    ASSUME TypeOK
    PROVE  GuidanceIn(Consumed) = GuidanceIn(messages) /\ (Ordered(messages) => Ordered(Consumed))
<1> DEFINE K == {i \in DOMAIN messages :
                    messages[i].kind # "notice" \/ messages[i].n \notin transient}
<1>1. messages \in Seq(Messages) /\ K \in SUBSET DOMAIN messages
      /\ \A i \in DOMAIN messages : messages[i].kind = "guidance" => i \in K
  BY DEF TypeOK
<1>2. Consumed = Picked(messages, K)
  BY DEF Consumed
<1> HIDE DEF K
<1>3. QED
  BY <1>1, <1>2, GuidancePicked

LEMMA GuidanceWithoutPack ==
    ASSUME NEW ms \in Seq(Messages)
    PROVE  /\ GuidanceIn(WithoutPack(ms)) = GuidanceIn(ms)
           /\ Ordered(ms) => Ordered(WithoutPack(ms))
<1> DEFINE K == {i \in DOMAIN ms : ms[i].kind # "pack"}
<1>1. K \in SUBSET DOMAIN ms
      /\ \A i \in DOMAIN ms : ms[i].kind = "guidance" => i \in K
  OBVIOUS
<1>2. WithoutPack(ms) = Picked(ms, K)
  BY DEF WithoutPack
<1> HIDE DEF K
<1>3. QED
  BY <1>1, <1>2, GuidancePicked

LEMMA GuidanceReoriented ==
    ASSUME TypeOK
    PROVE  /\ \A n : n \in GuidanceIn(Reoriented) <=> \E k \in DOMAIN taken : taken[k] = n
           /\ Increasing(taken) => Ordered(Reoriented)
<1>1. /\ Reoriented \in Seq(Messages) /\ Len(Reoriented) = Len(taken) + 2
      /\ Reoriented[1].kind = "contract" /\ Reoriented[2].kind = "orientation"
      /\ \A k \in 1..Len(taken) : Reoriented[k + 2] = [kind |-> "guidance", n |-> taken[k]]
  BY ReorientedType
<1>2. taken \in Seq(1..guided) /\ Len(taken) \in Nat /\ DOMAIN taken = 1..Len(taken)
  BY DEF TypeOK
<1>3. ASSUME NEW i \in DOMAIN Reoriented, Reoriented[i].kind = "guidance"
      PROVE  /\ i \in Nat /\ i - 2 \in DOMAIN taken
             /\ Reoriented[i].n = taken[i - 2]
  <2>1. i \in Nat /\ 1 <= i /\ i <= Len(taken) + 2
    BY <1>1, <1>2
  <2>2. i > 2
    BY <1>1, <1>3, <2>1
  <2>3. i - 2 \in 1..Len(taken) /\ i = (i - 2) + 2
    BY <1>2, <2>1, <2>2
  <2>4. Reoriented[i] = [kind |-> "guidance", n |-> taken[i - 2]]
    BY <1>1, <2>3
  <2>5. QED
    BY <1>2, <2>1, <2>3, <2>4
<1>4. ASSUME NEW k \in DOMAIN taken
      PROVE  taken[k] \in GuidanceIn(Reoriented)
  <2>1. k + 2 \in DOMAIN Reoriented
    <3>1. k + 2 \in 1..(Len(taken) + 2)
      BY <1>2
    <3>2. QED
      BY <1>1, <3>1
  <2>2. Reoriented[k + 2] = [kind |-> "guidance", n |-> taken[k]]
    BY <1>1, <1>2
  <2>3. QED
    BY <2>1, <2>2, GuidanceInFacts
<1>5. ASSUME NEW n, n \in GuidanceIn(Reoriented) PROVE \E k \in DOMAIN taken : taken[k] = n
  <2>1. PICK i \in DOMAIN Reoriented : Reoriented[i].kind = "guidance" /\ Reoriented[i].n = n
    BY <1>5, GuidanceInFacts
  <2>2. QED
    BY <1>3, <2>1
<1>6. ASSUME Increasing(taken) PROVE Ordered(Reoriented)
  <2>1. SUFFICES ASSUME NEW i \in DOMAIN Reoriented, NEW j \in DOMAIN Reoriented, i < j,
                        Reoriented[i].kind = "guidance", Reoriented[j].kind = "guidance"
                 PROVE  Reoriented[i].n < Reoriented[j].n
    BY DEF Ordered
  <2>2. /\ i \in Nat /\ j \in Nat /\ i - 2 \in DOMAIN taken /\ j - 2 \in DOMAIN taken
        /\ Reoriented[i].n = taken[i - 2] /\ Reoriented[j].n = taken[j - 2]
    BY <1>3, <2>1
  <2>3. i - 2 < j - 2
    BY <2>1, <2>2
  <2>4. QED
    BY <1>6, <2>2, <2>3 DEF Increasing
<1>7. QED
  BY <1>4, <1>5, <1>6

LEMMA InitGuidance == Init => GuidanceInv
<1>1. ASSUME Init
      PROVE  messages = <<>> /\ taken = <<>> /\ queue = <<>> /\ guided = 0
  BY <1>1 DEF Init
<1>2. DOMAIN <<>> = {} /\ Len(<<>>) = 0
  OBVIOUS
<1>3. ASSUME Init PROVE GuidanceIn(messages) = {} /\ Ordered(messages)
  BY <1>1, <1>2, <1>3, NoGuidance
<1>4. QED
  BY <1>1, <1>2, <1>3, QueueAssumption DEF GuidanceInv, Increasing

\* New guidance comes last; a full queue loses its first item.
LEMMA GuideGuidance == ASSUME TypeOK, GuidanceInv, Guide PROVE GuidanceInv'
<1> DEFINE L == Len(queue)
           longer == Append(queue, guided + 1)
<1>1. /\ guided \in Nat /\ queue \in Seq(1..guided) /\ L \in Nat /\ DOMAIN queue = 1..L
      /\ QueueLimit \in Nat /\ QueueLimit >= 1 /\ L <= QueueLimit
      /\ taken \in Seq(1..guided)
  BY QueueAssumption DEF TypeOK, GuidanceInv
<1>2. /\ guided' = guided + 1 /\ queue' = Last(longer, QueueLimit)
      /\ UNCHANGED <<messages, taken, pc>>
  BY DEF Guide
<1>3. /\ longer \in Seq(Nat) /\ Len(longer) = L + 1
      /\ \A j \in 1..L : longer[j] = queue[j]
      /\ longer[L + 1] = guided + 1
  <2>1. queue \in Seq(Nat) /\ guided + 1 \in Nat
    BY <1>1
  <2>2. QED
    BY <2>1, AppendFacts
<1> HIDE DEF longer, L
<1>4. \A j \in 1..(L + 1) : longer[j] = guided - L + j
  <2>1. TAKE j \in 1..(L + 1)
  <2>2. CASE j \in 1..L
    BY <1>1, <1>3, <2>2 DEF GuidanceInv, L
  <2>3. CASE j = L + 1
    BY <1>1, <1>3, <2>3
  <2>4. QED
    BY <1>1, <2>2, <2>3
<1>5. PICK d \in 0..Len(longer) :
         /\ d = IF Len(longer) > QueueLimit THEN Len(longer) - QueueLimit ELSE 0
         /\ queue' = SubSeq(longer, d + 1, Len(longer))
  BY <1>1, <1>2, <1>3, LastFacts
<1>7. /\ d \in Nat /\ d <= 1 /\ L + 1 - d \in Nat /\ L + 1 - d >= 1 /\ L + 1 - d <= QueueLimit
      /\ d = 1 => L = QueueLimit
  <2>1. d = IF L + 1 > QueueLimit THEN L + 1 - QueueLimit ELSE 0
    BY <1>1, <1>3, <1>5
  <2>2. CASE L + 1 > QueueLimit
    <3>1. L = QueueLimit /\ d = 1
      BY <1>1, <2>1, <2>2
    <3>2. QED
      BY <1>1, <3>1
  <2>3. CASE ~(L + 1 > QueueLimit)
    BY <1>1, <2>1, <2>3
  <2>4. QED
    BY <2>2, <2>3
<1>6. /\ Len(queue') = L + 1 - d /\ DOMAIN queue' = 1..(L + 1 - d)
      /\ \A k \in 1..(L + 1 - d) : queue'[k] = longer[d + k]
  <2>1. /\ SubSeq(longer, d + 1, Len(longer)) \in Seq(Nat)
        /\ Len(SubSeq(longer, d + 1, Len(longer))) = Len(longer) - d
        /\ \A k \in 1..(Len(longer) - d) : SubSeq(longer, d + 1, Len(longer))[k] = longer[d + k]
    BY <1>3, SuffixFacts
  <2>2. queue' \in Seq(Nat) /\ Len(queue') = Len(longer) - d
        /\ \A k \in 1..(Len(longer) - d) : queue'[k] = longer[d + k]
    BY <1>5, <2>1
  <2>3. DOMAIN queue' = 1..Len(queue')
    BY <2>2
  <2>4. Len(longer) - d = L + 1 - d
    BY <1>1, <1>3, <1>7
  <2>5. QED
    BY <2>2, <2>3, <2>4
<1>8. \A k \in 1..(L + 1 - d) : d + k \in 1..(L + 1) /\ queue'[k] = guided - L + (d + k)
  <2>1. TAKE k \in 1..(L + 1 - d)
  <2>2. d + k \in 1..(L + 1)
    <3>1. k \in Nat /\ 1 <= k /\ k <= L + 1 - d
      BY <1>7
    <3>2. QED
      BY <1>1, <1>7, <3>1
  <2>3. QED
    BY <1>4, <1>6, <2>2
<1>9. \A k \in DOMAIN queue' : queue'[k] = guided' - Len(queue') + k
  <2>1. TAKE k \in DOMAIN queue'
  <2>2. k \in 1..(L + 1 - d) /\ k \in Nat
    BY <1>6, <1>7
  <2>3. queue'[k] = guided - L + (d + k)
    BY <1>8, <2>2
  <2>4. guided - L + (d + k) = guided + 1 - (L + 1 - d) + k
    <3>1. \A x, y, e, z \in Nat : x - y + (e + z) = x + 1 - (y + 1 - e) + z
      OBVIOUS
    <3>2. QED
      BY <1>1, <1>7, <2>2, <3>1
  <2>5. guided' = guided + 1 /\ Len(queue') = L + 1 - d
    BY <1>2, <1>6
  <2>6. QED
    BY <1>1, <1>7, <2>2, <2>3, <2>4, <2>5
<1>10. Len(queue') <= QueueLimit
  BY <1>6, <1>7
<1>11. ASSUME NEW k \in DOMAIN queue'
       PROVE  queue'[k] = guided + 1 \/ \E j \in DOMAIN queue : queue'[k] = queue[j]
  <2>1. k \in 1..(L + 1 - d) /\ k \in Nat
    BY <1>6, <1>7
  <2>2. d + k \in 1..(L + 1) /\ queue'[k] = longer[d + k]
    BY <1>6, <1>8, <2>1
  <2>3. d + k \in 1..L \/ d + k = L + 1
    <3>1. d + k \in Nat
      BY <1>7, <2>1
    <3>2. QED
      BY SMTT(40), <1>1, <2>2, <3>1
  <2>4. QED
    BY <1>1, <1>3, <2>2, <2>3
<1>12. ASSUME NEW g \in GuidanceIn(messages)
       PROVE  /\ g \in 1..guided'
              /\ \A k \in DOMAIN taken : g < taken[k]
              /\ \A k \in DOMAIN queue' : g < queue'[k]
  <2>1. /\ g \in 1..guided /\ \A k \in DOMAIN taken : g < taken[k]
        /\ \A k \in DOMAIN queue : g < queue[k]
    BY DEF GuidanceInv
  <2>2. g \in 1..guided' /\ g < guided + 1
    BY <1>1, <1>2, <2>1
  <2>3. QED
    BY <1>11, <2>1, <2>2
<1>13. \A i \in DOMAIN taken, k \in DOMAIN queue' : taken[i] < queue'[k]
  <2>1. TAKE i \in DOMAIN taken, k \in DOMAIN queue'
  <2>2. taken[i] < guided + 1
    <3>1. taken[i] \in 1..guided
      BY <1>1
    <3>2. QED
      BY <1>1, <3>1
  <2>3. \A j \in DOMAIN queue : taken[i] < queue[j]
    BY DEF GuidanceInv
  <2>4. QED
    BY <1>11, <2>2, <2>3
<1>14. ASSUME NEW g \in 1..guided'
       PROVE  \/ g \in GuidanceIn(messages)
              \/ \E k \in DOMAIN taken : taken[k] = g
              \/ \E k \in DOMAIN queue' : queue'[k] = g
              \/ guided' - g >= QueueLimit
  <2>1. CASE g = guided + 1
    <3>1. L + 1 - d \in 1..(L + 1 - d)
      BY <1>7
    <3>2. queue'[L + 1 - d] = guided - L + (d + (L + 1 - d))
      BY <1>8, <3>1
    <3>3. guided - L + (d + (L + 1 - d)) = guided + 1
      <4>1. \A x, y, e \in Nat : x - y + (e + (y + 1 - e)) = x + 1
        OBVIOUS
      <4>2. QED
        BY <1>1, <1>7, <4>1
    <3>4. QED
      BY <1>6, <2>1, <3>1, <3>2, <3>3
  <2>2. CASE g \in 1..guided
    <3>1. CASE \E k \in DOMAIN queue : queue[k] = g
      <4>1. PICK k \in DOMAIN queue : queue[k] = g
        BY <3>1
      <4>2. k \in Nat /\ 1 <= k /\ k <= L /\ g = guided - L + k
        BY <1>1, <4>1 DEF GuidanceInv, L
      <4>3. CASE d < k
        <5>1. k - d \in 1..(L + 1 - d) /\ d + (k - d) = k
          <6>1. k - d \in Nat /\ 1 <= k - d /\ k - d <= L + 1 - d
            BY SMTT(40), <1>1, <1>7, <4>2, <4>3
          <6>2. QED
            BY <1>1, <1>7, <4>2, <6>1
        <5>2. queue'[k - d] = guided - L + k
          BY <1>8, <5>1
        <5>3. QED
          BY <1>6, <4>2, <5>1, <5>2
      <4>4. CASE ~(d < k)
        <5>1. L = QueueLimit /\ k = 1
          BY <1>7, <4>2, <4>4
        <5>2. QED
          BY <1>1, <1>2, <4>2, <5>1
      <4>5. QED
        BY <4>3, <4>4
    <3>2. CASE guided - g >= QueueLimit
      BY <1>1, <1>2, <2>2, <3>2
    <3>3. QED
      BY <2>2, <3>1, <3>2 DEF GuidanceInv
  <2>3. QED
    BY <1>1, <1>2, <2>1, <2>2
<1>15. QED
  BY <1>2, <1>9, <1>10, <1>12, <1>13, <1>14 DEF GuidanceInv

\* The queue is popped where nothing is being judged; the messages keep their
\* guidance.
LEMMA PopGuidance ==
    ASSUME TypeOK, GuidanceInv, Pop, taken = <<>>,
           GuidanceIn(messages') = GuidanceIn(messages), Ordered(messages'),
           pc' \notin {"judging", "late"} => queue = <<>>
    PROVE  GuidanceInv'
<1>1. taken' = queue /\ queue' = <<>> /\ guided' = guided
  BY DEF Pop
<1>2. DOMAIN <<>> = {} /\ Len(<<>>) = 0
  OBVIOUS
<1>3. queue \in Seq(1..guided) /\ DOMAIN queue = 1..Len(queue) /\ guided \in Nat
      /\ Len(queue) \in Nat
  BY QueueAssumption DEF TypeOK
<1>4. Increasing(queue)
  <2>1. \A i, j \in 1..Len(queue) : i < j => guided - Len(queue) + i < guided - Len(queue) + j
    BY <1>3
  <2>2. \A k \in 1..Len(queue) : queue[k] = guided - Len(queue) + k
    BY <1>3 DEF GuidanceInv
  <2>3. QED
    BY <1>3, <2>1, <2>2 DEF Increasing
<1>5. Increasing(taken')
  BY <1>1, <1>4
<1>6. QED
  BY <1>1, <1>2, <1>5, QueueAssumption DEF GuidanceInv

\* What has been judged goes to the messages.
LEMMA JudgedGuidance == ASSUME TypeOK, GuidanceInv, Judged PROVE GuidanceInv'
<1>1. messages' = messages \o Reoriented /\ taken' = <<>> /\ UNCHANGED <<queue, guided>>
  BY DEF Judged
<1>2. DOMAIN <<>> = {}
  OBVIOUS
<1>3. /\ \A n : n \in GuidanceIn(Reoriented) <=> \E k \in DOMAIN taken : taken[k] = n
      /\ Ordered(Reoriented) /\ Reoriented \in Seq(Messages) /\ messages \in Seq(Messages)
  BY GuidanceReoriented, ReorientedType DEF GuidanceInv, TypeOK
<1>4. GuidanceIn(messages') = GuidanceIn(messages) \cup GuidanceIn(Reoriented)
  BY <1>1, <1>3, GuidanceInConcat
<1>5. Ordered(messages')
  <2>1. \A m \in GuidanceIn(messages), n \in GuidanceIn(Reoriented) : m < n
    BY <1>3 DEF GuidanceInv
  <2>2. QED
    BY <1>1, <1>3, <2>1, OrderedConcat DEF GuidanceInv
<1>6. \A g \in GuidanceIn(messages') : /\ g \in 1..guided
                                       /\ \A k \in DOMAIN queue : g < queue[k]
  <2>1. \A k \in DOMAIN taken : taken[k] \in 1..guided
    BY SMTT(40) DEF TypeOK
  <2>2. QED
    BY <1>3, <1>4, <2>1 DEF GuidanceInv
<1>7. \A g \in 1..guided : \/ g \in GuidanceIn(messages')
                           \/ \E k \in DOMAIN queue : queue[k] = g
                           \/ guided - g >= QueueLimit
  BY <1>3, <1>4 DEF GuidanceInv
<1>8. QED
  BY <1>1, <1>2, <1>5, <1>6, <1>7 DEF GuidanceInv, Increasing

LEMMA NextGuidance == ASSUME TypeInv, GuidanceInv, [Next]_vars PROVE GuidanceInv'
<1>1. TypeOK /\ messages \in Seq(Messages)
  BY DEF TypeInv, TypeOK
<1>2. GuidanceIn(Consumed) = GuidanceIn(messages) /\ Ordered(Consumed)
      /\ Consumed \in Seq(Messages)
  BY <1>1, GuidanceConsumed, ConsumedType DEF GuidanceInv
<1>3. CASE StartRound
  <2>1. taken = <<>> /\ messages' = messages
    BY <1>3 DEF StartRound, GuidanceInv
  <2>2. Pop /\ (pc' \notin {"judging", "late"} => queue = <<>>)
    BY <1>3 DEF StartRound
  <2>3. GuidanceIn(messages') = GuidanceIn(messages) /\ Ordered(messages')
    BY <2>1 DEF GuidanceInv
  <2>4. QED
    BY <1>1, <2>1, <2>2, <2>3, PopGuidance
<1>4. CASE Overtaken
  <2>1. taken = <<>> /\ messages' = Consumed /\ Pop /\ pc' = "late"
    BY <1>4 DEF Overtaken, Consume, GuidanceInv
  <2>2. GuidanceIn(messages') = GuidanceIn(messages) /\ Ordered(messages')
    BY <1>2, <2>1
  <2>3. QED
    BY <1>1, <2>1, <2>2, PopGuidance
<1>5. CASE /\ UNCHANGED <<queue, taken, guided>>
           /\ pc \notin {"judging", "late"} \/ pc' = pc
           /\ GuidanceIn(messages') = GuidanceIn(messages) /\ Ordered(messages')
  BY <1>5 DEF GuidanceInv
<1>6. CASE Answers
  <2>1. messages' = Consumed /\ pc = "model" /\ UNCHANGED <<queue, taken, guided>>
    BY <1>6 DEF Answers, Consume, guidanceVars
  <2>2. GuidanceIn(messages') = GuidanceIn(messages) /\ Ordered(messages')
    BY <1>2, <2>1
  <2>3. QED
    BY <1>5, <2>1, <2>2
<1>7. CASE Malformed
  <2> DEFINE m == [kind |-> "notice", n |-> notices + 1]
  <2>1. messages' = Append(Consumed, m) /\ pc = "model" /\ UNCHANGED <<queue, taken, guided>>
    BY <1>7 DEF Malformed, guidanceVars
  <2>2. m \in Messages /\ m.kind = "notice"
    BY <1>1 DEF TypeOK, Messages, Kinds
  <2> HIDE DEF m
  <2>3. GuidanceIn(messages') = GuidanceIn(messages) /\ Ordered(messages')
    BY <1>2, <2>1, <2>2, GuidanceAppend
  <2>4. QED
    BY <1>5, <2>1, <2>3
<1>8. CASE CallsTools
  <2>1. PICK n \in 1..(MaxCalls - Len(events)) :
           messages' = Append(Consumed, [kind |-> "calls", n |-> n])
    BY <1>8 DEF CallsTools
  <2> DEFINE m == [kind |-> "calls", n |-> n]
  <2>2. messages' = Append(Consumed, m) /\ m.kind = "calls"
    BY <2>1
  <2>3. m \in Messages
    <3>1. n \in Nat
      BY <1>1, CallsAssumption DEF TypeOK
    <3>2. QED
      BY <3>1 DEF Messages, Kinds
  <2> HIDE DEF m
  <2>4. pc = "model" /\ UNCHANGED <<queue, taken, guided>>
    BY <1>8 DEF CallsTools, guidanceVars
  <2>5. GuidanceIn(messages') = GuidanceIn(messages) /\ Ordered(messages')
    BY <1>2, <2>2, <2>3, GuidanceAppend
  <2>6. QED
    BY <1>5, <2>4, <2>5
<1>9. CASE EndBatch
  <2>1. /\ Answered \in Seq(Messages) /\ Len(Answered) = Len(batch.done) + batch.advice
        /\ \A i \in 1..Len(batch.done) : Answered[i] = [kind |-> "tool", n |-> i]
        /\ \A i \in 1..batch.advice :
              Answered[Len(batch.done) + i] = [kind |-> "notice", n |-> notices + i]
    BY <1>1, AnsweredType
  <2>2. Len(batch.done) \in Nat /\ batch.advice \in Nat
    BY <1>1 DEF TypeOK
  <2>3. ASSUME NEW i \in DOMAIN Answered PROVE Answered[i].kind # "guidance"
    <3>1. i \in Nat /\ 1 <= i /\ i <= Len(batch.done) + batch.advice
      BY <2>1, <2>2
    <3>2. CASE i <= Len(batch.done)
      <4>1. i \in 1..Len(batch.done)
        BY <2>2, <3>1, <3>2
      <4>2. Answered[i] = [kind |-> "tool", n |-> i]
        BY <2>1, <4>1
      <4>3. QED
        BY <4>2
    <3>3. CASE ~(i <= Len(batch.done))
      <4>1. i - Len(batch.done) \in 1..batch.advice
            /\ i = Len(batch.done) + (i - Len(batch.done))
        BY <2>2, <3>1, <3>3
      <4>2. Answered[i] = [kind |-> "notice", n |-> notices + (i - Len(batch.done))]
        BY <2>1, <4>1
      <4>3. QED
        BY <4>2
    <3>4. QED
      BY <3>2, <3>3
  <2> DEFINE all == messages \o Answered
             kept == WithoutPack(all)
             pack == [kind |-> "pack", n |-> 0]
  <2>4. all \in Seq(Messages) /\ GuidanceIn(all) = GuidanceIn(messages) /\ Ordered(all)
    BY <1>1, <2>1, <2>3, ConcatFacts, GuidanceConcat DEF GuidanceInv
  <2>5. kept \in Seq(Messages) /\ GuidanceIn(kept) = GuidanceIn(messages) /\ Ordered(kept)
    <3> HIDE DEF all
    <3>1. QED
      BY <2>4, WithoutPackType, GuidanceWithoutPack
  <2>6. pack \in Messages /\ pack.kind = "pack"
    BY DEF Messages, Kinds
  <2>7. PICK more \in Nat, extra \in Seq(Messages) :
           /\ \A k \in 1..Len(extra) :
                 extra[k] = [kind |-> "notice", n |-> notices + (batch.advice + k)]
           /\ messages' = kept \o <<pack>> \o extra
    BY <1>1, <1>9, EndBatchFacts
  <2> HIDE DEF kept, pack
  <2>8. kept \o <<pack>> = Append(kept, pack) /\ Append(kept, pack) \in Seq(Messages)
    BY <2>5, <2>6
  <2>9. \A k \in DOMAIN extra : extra[k].kind # "guidance"
    <3>1. TAKE k \in DOMAIN extra
    <3>2. k \in 1..Len(extra)
      OBVIOUS
    <3>3. extra[k] = [kind |-> "notice", n |-> notices + (batch.advice + k)]
      BY <2>7, <3>2
    <3>4. QED
      BY <3>3
  <2>10. GuidanceIn(Append(kept, pack)) = GuidanceIn(messages) /\ Ordered(Append(kept, pack))
    BY <2>5, <2>6, GuidanceAppend
  <2>11. GuidanceIn(messages') = GuidanceIn(messages) /\ Ordered(messages')
    BY <2>7, <2>8, <2>9, <2>10, GuidanceConcat
  <2>12. pc = "batch" /\ UNCHANGED <<queue, taken, guided>>
    BY <1>9 DEF EndBatch, guidanceVars
  <2>13. QED
    BY <1>5, <2>11, <2>12
<1>10. CASE /\ UNCHANGED <<queue, taken, guided, messages>>
            /\ pc \notin {"judging", "late"} \/ pc' = pc
  BY <1>5, <1>10 DEF GuidanceInv
<1>11. QED
  <2>1. Exhausted \/ ModelFails \/ IdleTimeout \/ SkipCall \/ StartCall \/ EndCall
        \/ CallRaises \/ Finalize =>
           /\ UNCHANGED <<queue, taken, guided, messages>>
           /\ pc \notin {"judging", "late"} \/ pc' = pc
    BY DEF Exhausted, ModelFails, GivesUp, IdleTimeout, SkipCall, StartCall, EndCall,
           CallRaises, Finalize, guidanceVars
  <2>2. UNCHANGED vars => UNCHANGED <<queue, taken, guided, messages>> /\ pc' = pc
    BY DEF vars, guidanceVars
  <2>3. QED
    BY <1>1, <1>3, <1>4, <1>6, <1>7, <1>8, <1>9, <1>10, <2>1, <2>2,
       GuideGuidance, JudgedGuidance DEF Next, Step

LEMMA IncreasingConcat ==
    ASSUME NEW s \in Seq(Nat), NEW t \in Seq(Nat), Increasing(s), Increasing(t),
           \A i \in DOMAIN s, j \in DOMAIN t : s[i] < t[j]
    PROVE  /\ s \o t \in Seq(Nat) /\ Increasing(s \o t)
           /\ \A i \in DOMAIN s : \E k \in DOMAIN (s \o t) : (s \o t)[k] = s[i]
           /\ \A j \in DOMAIN t : \E k \in DOMAIN (s \o t) : (s \o t)[k] = t[j]
           /\ \A k \in DOMAIN (s \o t) : \/ \E i \in DOMAIN s : (s \o t)[k] = s[i]
                                         \/ \E j \in DOMAIN t : (s \o t)[k] = t[j]
<1> DEFINE c == s \o t
<1>1. /\ \A i \in DOMAIN s : i \in DOMAIN c /\ c[i] = s[i]
      /\ \A i \in DOMAIN t : Len(s) + i \in DOMAIN c /\ c[Len(s) + i] = t[i]
      /\ \A i \in DOMAIN c : i \in DOMAIN s \/ \E j \in DOMAIN t : i = Len(s) + j
  BY SMTT(40), ConcatPositions
<1>2. /\ DOMAIN s = 1..Len(s) /\ DOMAIN t = 1..Len(t) /\ Len(s) \in Nat /\ Len(t) \in Nat
      /\ c \in Seq(Nat)
  OBVIOUS
<1> HIDE DEF c
<1>3. ASSUME NEW i \in DOMAIN c, NEW j \in DOMAIN c, i < j PROVE c[i] < c[j]
  <2>1. CASE i \in DOMAIN s /\ j \in DOMAIN s
    BY <1>1, <1>3, <2>1 DEF Increasing
  <2>2. CASE i \in DOMAIN s /\ \E k \in DOMAIN t : j = Len(s) + k
    BY <1>1, <2>2
  <2>3. CASE (\E k \in DOMAIN t : i = Len(s) + k) /\ j \in DOMAIN s
    BY <1>2, <1>3, <2>3
  <2>4. CASE (\E k \in DOMAIN t : i = Len(s) + k) /\ (\E k \in DOMAIN t : j = Len(s) + k)
    <3>1. PICK k \in DOMAIN t, l \in DOMAIN t : i = Len(s) + k /\ j = Len(s) + l
      BY <2>4
    <3>2. k < l
      BY <1>2, <1>3, <3>1
    <3>3. c[i] = t[k] /\ c[j] = t[l]
      BY <1>1, <3>1
    <3>4. QED
      BY <3>2, <3>3 DEF Increasing
  <2>5. QED
    BY <1>1, <2>1, <2>2, <2>3, <2>4
<1>4. Increasing(c)
  BY <1>3 DEF Increasing
<1>5. /\ \A i \in DOMAIN s : \E k \in DOMAIN c : c[k] = s[i]
      /\ \A j \in DOMAIN t : \E k \in DOMAIN c : c[k] = t[j]
      /\ \A k \in DOMAIN c : \/ \E i \in DOMAIN s : c[k] = s[i]
                             \/ \E j \in DOMAIN t : c[k] = t[j]
  BY <1>1
<1>6. QED
  BY <1>2, <1>4, <1>5 DEF c

\* The guidance among the messages, as numbers.
LEMMA GuidanceOfMessages ==
    ASSUME TypeOK, Ordered(messages),
           NEW p, p = [i \in DOMAIN Of("guidance", messages) |-> Of("guidance", messages)[i].n]
    PROVE  /\ p \in Seq(Nat) /\ Increasing(p)
           /\ \A g : g \in GuidanceIn(messages) <=> \E i \in DOMAIN p : p[i] = g
<1> DEFINE K == {i \in DOMAIN messages : messages[i].kind = "guidance"}
           o == Picked(messages, K)
<1>1. messages \in Seq(Messages) /\ K \in SUBSET DOMAIN messages
  BY DEF TypeOK
<1>2. Of("guidance", messages) = o
  BY DEF Of
<1>a. \A i \in K : i \in DOMAIN messages /\ messages[i].kind = "guidance"
  OBVIOUS
<1>b. \A g : g \in GuidanceIn(messages) <=> \E i \in K : messages[i].n = g
  BY GuidanceInFacts
<1> HIDE DEF K
<1>3. PICK f \in [DOMAIN o -> K] :
         /\ o \in Seq(Messages)
         /\ \A n \in DOMAIN o : o[n] = messages[f[n]]
         /\ \A m, n \in DOMAIN o : m < n => f[m] < f[n]
         /\ \A i \in K : \E n \in DOMAIN o : f[n] = i
  BY <1>1, PickedMessages
<1> HIDE DEF o
<1>4. DOMAIN o = 1..Len(o) /\ Len(o) \in Nat /\ \A n \in DOMAIN o : f[n] \in K /\ o[n] \in Messages
  BY <1>3
<1>5. DOMAIN p = DOMAIN o /\ \A n \in DOMAIN o : p[n] = o[n].n
  BY <1>2
<1>6. p \in Seq(Nat)
  <2>1. \A n \in DOMAIN o : o[n].n \in Nat
    BY <1>4 DEF Messages
  <2>2. p = [n \in 1..Len(o) |-> o[n].n]
    BY <1>2, <1>4
  <2>3. p \in [1..Len(o) -> Nat]
    BY <1>4, <2>1, <2>2
  <2>4. QED
    BY <1>4, <2>3
<1>7. Increasing(p)
  <2>1. SUFFICES ASSUME NEW m \in DOMAIN o, NEW n \in DOMAIN o, m < n PROVE p[m] < p[n]
    BY <1>5 DEF Increasing
  <2>2. /\ f[m] < f[n] /\ f[m] \in DOMAIN messages /\ f[n] \in DOMAIN messages
        /\ messages[f[m]].kind = "guidance" /\ messages[f[n]].kind = "guidance"
    BY <1>3, <1>4, <1>a, <2>1
  <2>3. messages[f[m]].n < messages[f[n]].n
    BY <2>2 DEF Ordered
  <2>4. QED
    BY <1>3, <1>5, <2>3
<1>c. \A n \in DOMAIN p : n \in DOMAIN o /\ f[n] \in K /\ p[n] = messages[f[n]].n
  BY <1>3, <1>4, <1>5
<1>d. \A i \in K : \E n \in DOMAIN p : f[n] = i
  BY <1>3, <1>5
<1>8. ASSUME NEW g PROVE g \in GuidanceIn(messages) <=> \E i \in DOMAIN p : p[i] = g
  <2>1. ASSUME NEW i \in K, messages[i].n = g PROVE \E n \in DOMAIN p : p[n] = g
    <3>1. PICK n \in DOMAIN p : f[n] = i
      BY <1>d, <2>1
    <3>2. p[n] = g
      BY <1>c, <2>1, <3>1
    <3>3. QED
      BY <3>2
  <2>2. ASSUME NEW n \in DOMAIN p, p[n] = g PROVE \E i \in K : messages[i].n = g
    BY <1>c, <2>2
  <2>3. QED
    BY <1>b, <2>1, <2>2
<1>9. QED
  BY <1>6, <1>7, <1>8

LEMMA GuidanceIsKeptLemma == ASSUME TypeOK, GuidanceInv PROVE GuidanceIsKept
<1> DEFINE p == [i \in DOMAIN Of("guidance", messages) |-> Of("guidance", messages)[i].n]
<1>1. Guidance = p \o taken \o queue
  BY DEF Guidance
<1>2. /\ p \in Seq(Nat) /\ Increasing(p)
      /\ \A g : g \in GuidanceIn(messages) <=> \E i \in DOMAIN p : p[i] = g
  <2>1. Ordered(messages)
    BY DEF GuidanceInv
  <2>2. QED
    BY <2>1, GuidanceOfMessages
<1> HIDE DEF p
<1>3. taken \in Seq(Nat) /\ queue \in Seq(Nat) /\ guided \in Nat
      /\ DOMAIN queue = 1..Len(queue) /\ Len(queue) \in Nat
  <2>1. taken \in Seq(1..guided) /\ queue \in Seq(1..guided) /\ guided \in Nat
    BY QueueAssumption DEF TypeOK
  <2>2. 1..guided \subseteq Nat
    BY <2>1
  <2>3. QED
    BY <2>1, <2>2
<1>4. Increasing(taken)
  BY DEF GuidanceInv
<1>5. Increasing(queue)
  <2>1. \A i, j \in 1..Len(queue) : i < j => guided - Len(queue) + i < guided - Len(queue) + j
    BY <1>3
  <2>2. \A k \in 1..Len(queue) : queue[k] = guided - Len(queue) + k
    BY <1>3 DEF GuidanceInv
  <2>3. QED
    BY <1>3, <2>1, <2>2 DEF Increasing
<1>6. \A i \in DOMAIN p : /\ p[i] \in GuidanceIn(messages)
                          /\ \A k \in DOMAIN taken : p[i] < taken[k]
                          /\ \A k \in DOMAIN queue : p[i] < queue[k]
  BY <1>2 DEF GuidanceInv
<1> DEFINE pt == p \o taken
<1>7. /\ pt \in Seq(Nat) /\ Increasing(pt)
      /\ \A i \in DOMAIN p : \E k \in DOMAIN pt : pt[k] = p[i]
      /\ \A j \in DOMAIN taken : \E k \in DOMAIN pt : pt[k] = taken[j]
      /\ \A k \in DOMAIN pt : \/ \E i \in DOMAIN p : pt[k] = p[i]
                              \/ \E j \in DOMAIN taken : pt[k] = taken[j]
  BY <1>2, <1>3, <1>4, <1>6, IncreasingConcat
<1>8. Guidance = pt \o queue
  BY <1>1
<1> HIDE DEF pt
<1>9. \A k \in DOMAIN pt, j \in DOMAIN queue : pt[k] < queue[j]
  <2>1. \A i \in DOMAIN taken, j \in DOMAIN queue : taken[i] < queue[j]
    BY DEF GuidanceInv
  <2>2. QED
    BY <1>6, <1>7, <2>1
<1>10. /\ Guidance \in Seq(Nat) /\ Increasing(Guidance)
       /\ \A i \in DOMAIN pt : \E k \in DOMAIN Guidance : Guidance[k] = pt[i]
       /\ \A j \in DOMAIN queue : \E k \in DOMAIN Guidance : Guidance[k] = queue[j]
  <2>1. /\ pt \o queue \in Seq(Nat) /\ Increasing(pt \o queue)
        /\ \A i \in DOMAIN pt : \E k \in DOMAIN (pt \o queue) : (pt \o queue)[k] = pt[i]
        /\ \A j \in DOMAIN queue : \E k \in DOMAIN (pt \o queue) : (pt \o queue)[k] = queue[j]
    BY <1>3, <1>5, <1>7, <1>9, IncreasingConcat
  <2>2. QED
    BY <1>8, <2>1
<1>11. ASSUME NEW g \in 1..guided
       PROVE  (\E i \in DOMAIN Guidance : Guidance[i] = g) \/ guided - g >= QueueLimit
  <2>1. CASE g \in GuidanceIn(messages)
    <3>1. PICK i \in DOMAIN p : p[i] = g
      BY <1>2, <2>1
    <3>2. PICK k \in DOMAIN pt : pt[k] = g
      BY <1>7, <3>1
    <3>3. QED
      BY <1>10, <3>2
  <2>2. CASE \E k \in DOMAIN taken : taken[k] = g
    <3>1. PICK j \in DOMAIN taken : taken[j] = g
      BY <2>2
    <3>2. PICK k \in DOMAIN pt : pt[k] = g
      BY <1>7, <3>1
    <3>3. QED
      BY <1>10, <3>2
  <2>3. CASE \E k \in DOMAIN queue : queue[k] = g
    BY <1>10, <2>3
  <2>4. QED
    BY <2>1, <2>2, <2>3 DEF GuidanceInv
<1>12. QED
  BY <1>10, <1>11 DEF GuidanceIsKept, Increasing

-----------------------------------------------------------------------------
(* The theorems. *)

LEMMA InitIInv == Init => IInv
<1>1. ASSUME Init PROVE IInv
  BY <1>1, InitType, InitBudget, InitNotice, InitGuidance, InitAnswer, InitCalls, InitPlan
     DEF IInv, TypeInv
<1>2. QED
  BY <1>1

LEMMA NextIInv == ASSUME IInv, [Next]_vars PROVE IInv'
<1>1. TypeInv /\ NoticesLastUntilRead
  BY DEF IInv, TypeInv, NoticeInv
<1>2. TypeInv'
  BY <1>1, NextType
<1>3. BudgetInv' /\ NoticeInv' /\ GuidanceInv'
  BY <1>1, NextBudget, NextNotice, NextGuidance DEF IInv
<1>4. AnswerInv' /\ CallsInv' /\ PlanFollowsTools'
  BY <1>1, NextAnswer, NextCalls, NextPlan DEF IInv
<1>5. QED
  BY <1>2, <1>3, <1>4 DEF IInv, TypeInv

\* In every state of every execution the inductive invariant holds: its parts are
\* what the steps of the loop rely on from one to the next.
THEOREM Invariant == Spec => []IInv
<1>1. Init => IInv
  BY InitIInv
<1>2. IInv /\ [Next]_vars => IInv'
  BY NextIInv
<1>3. QED
  BY <1>1, <1>2, PTL DEF Spec

\* The state of the loop has its type: the budget stays between its first value and
\* the hard limit, rounds are counted up to the budget.
THEOREM TypeCorrect == Spec => []TypeOK
<1>1. IInv => TypeOK
  BY DEF IInv
<1>2. QED
  BY <1>1, Invariant, PTL

\* Whenever the model is asked, every call in the request is followed at once by its
\* answers, whatever notices, guidance and packs came and went (append_round,
\* consume_from, ensure_context_pack).
THEOREM RequestsAreWellFormed == Spec => []CallsAreAnswered
<1>1. IInv => CallsAreAnswered
  BY DEF IInv, CallsInv, WellAnswered, CallsAreAnswered
<1>2. QED
  BY <1>1, Invariant, PTL

\* A notice is in the messages from its making until a usable response has come to a
\* request that showed it, and no longer (TransientModelContext).
THEOREM NoticesLast == Spec => []NoticesLastUntilRead
<1>1. IInv => NoticesLastUntilRead
  BY DEF IInv, NoticeInv
<1>2. QED
  BY <1>1, Invariant, PTL

\* Guidance reaches the model once and in the order in which it was given, all but
\* what a full queue has lost (add_user_guidance, pop_guidance).
THEOREM GuidanceKept == Spec => []GuidanceIsKept
<1>1. IInv => GuidanceIsKept
  BY GuidanceIsKeptLemma DEF IInv
<1>2. QED
  BY <1>1, Invariant, PTL

\* A run gives up for want of rounds only when its last round brought nothing or the
\* hard limit is reached, and has rounds beyond its first budget only for progress
\* (RunRoundBudget).
THEOREM BudgetJustified == Spec => []BudgetFollowsProgress
<1>1. IInv => BudgetFollowsProgress
  BY DEF IInv, BudgetInv
<1>2. QED
  BY <1>1, Invariant, PTL

\* A step of the plan runs exactly while the tool that began it does, and a run that
\* was finalized leaves no step open.
THEOREM PlanIsSettled == Spec => []PlanFollowsTools
<1>1. IInv => PlanFollowsTools
  BY DEF IInv
<1>2. QED
  BY <1>1, Invariant, PTL

\* The answer has text of the last round and of rounds that broke off, and none that
\* guidance has overtaken.
THEOREM AnswerIsOfLastRound == Spec => []AnswerIsLast
<1>1. IInv => AnswerIsLast
  BY DEF IInv, AnswerInv, AnswerIsLast
<1>2. QED
  BY <1>1, Invariant, PTL

-----------------------------------------------------------------------------
(* The loop runs out.                                                      *)

\* How much of a round is left, by what it is doing; its end comes after it.
StageOf == [judging |-> 5, model |-> 4, late |-> 3, batch |-> 3, tool |-> 3,
            head |-> 2, finalize |-> 1, over |-> 0]

\* How much of the calls of a response is left: two steps each, and the end.
CallsLeft ==
    LET n == Len(batch.calls) - Len(batch.done)
    IN  IF pc = "batch" THEN n + n + 1 ELSE IF pc = "tool" THEN n + n ELSE 0

\* What is left of a run: rounds up to the hard limit, then the stage of the round,
\* then the calls.
Left     == <<HardLimit - round, <<StageOf[pc], CallsLeft>>>>
Measures == Nat \X (Nat \X Nat)
Less     == OpToRel(<, Nat)
Order    == LexPairOrdering(Less, LexPairOrdering(Less, Less, Nat, Nat), Nat, Nat \X Nat)

LEMMA OrderFacts ==
    ASSUME NEW a \in Nat, NEW b \in Nat, NEW c \in Nat,
           NEW x \in Nat, NEW y \in Nat, NEW z \in Nat,
           a < x \/ (a = x /\ b < y) \/ (a = x /\ b = y /\ c < z)
    PROVE  <<<<a, <<b, c>>>>, <<x, <<y, z>>>>>> \in Order
<1> DEFINE Inner == LexPairOrdering(Less, Less, Nat, Nat)
<1>1. \A m, n \in Nat : m < n => <<m, n>> \in Less
  BY DEF Less, OpToRel
<1>2. b < y \/ (b = y /\ c < z) => <<<<b, c>>, <<y, z>>>> \in Inner
  BY <1>1 DEF LexPairOrdering
<1>3. <<a, x>> \in Less \/ (a = x /\ <<<<b, c>>, <<y, z>>>> \in Inner)
  BY <1>1, <1>2
<1> HIDE DEF Inner
<1>4. <<<<a, <<b, c>>>>, <<x, <<y, z>>>>>> \in LexPairOrdering(Less, Inner, Nat, Nat \X Nat)
  BY <1>3 DEF LexPairOrdering
<1>5. QED
  BY <1>4 DEF Order, Inner

\* The types that matter here.
LEMMA LeftType ==
    ASSUME TypeOK
    PROVE  /\ HardLimit - round \in Nat /\ round \in Nat /\ HardLimit \in Nat
           /\ StageOf[pc] \in Nat /\ CallsLeft \in Nat
           /\ Len(batch.calls) \in Nat /\ Len(batch.done) \in Nat
<1>1. HardLimit - round \in Nat /\ round \in Nat /\ HardLimit \in Nat
  <2>1. round \in 0..limit /\ limit \in MaxRounds..HardLimit /\ MaxRounds \in Nat
    BY BudgetAssumption DEF TypeOK
  <2>2. QED
    BY <2>1, ConstantFacts
<1>2. StageOf[pc] \in Nat
  BY SMTT(40) DEF TypeOK, StageOf
<1> DEFINE k == Len(batch.calls)
           d == Len(batch.done)
<1>3. batch.calls \in Seq(Calls) /\ batch.done \in Seq(Events) /\ d <= k
  BY DEF TypeOK
<1>4. k \in Nat /\ d \in Nat
  BY <1>3
<1>5. CallsLeft \in {(k - d) + (k - d) + 1, (k - d) + (k - d), 0}
  BY DEF CallsLeft
<1>6. d <= k
  BY <1>3
<1> HIDE DEF k, d
<1>7. CallsLeft \in Nat
  BY <1>4, <1>5, <1>6
<1>8. QED
  BY <1>1, <1>2, <1>4, <1>7 DEF k, d

\* The same, of every state: before a step and after it.
LeftTyped == HardLimit - round \in Nat /\ StageOf[pc] \in Nat /\ CallsLeft \in Nat

LEMMA LeftNow == TypeOK => LeftTyped
BY LeftType DEF LeftTyped

LEMMA LeftNext == TypeOK' => LeftTyped'
BY LeftNow, PTL

\* Each step of the executor makes less of what is left, though it may grow the
\* budget, add calls or be sent back by guidance.
LEMMA StepLess ==
    ASSUME TypeOK, TypeOK', Step
    PROVE  \/ HardLimit - round' < HardLimit - round
           \/ round' = round /\ StageOf[pc'] < StageOf[pc]
           \/ round' = round /\ StageOf[pc'] = StageOf[pc] /\ CallsLeft' < CallsLeft
<1>1. CASE StartRound
  <2>1. round' = round + 1
    BY <1>1 DEF StartRound
  <2>2. QED
    BY <2>1, LeftType
<1>2. CASE Exhausted
  BY <1>2 DEF Exhausted, StageOf, budgetVars
<1>3. CASE Judged
  BY <1>3 DEF Judged, StageOf, budgetVars
<1>4. CASE ModelFails
  BY <1>4 DEF ModelFails, GivesUp, StageOf, budgetVars
<1>5. CASE IdleTimeout
  BY <1>5 DEF IdleTimeout, StageOf, budgetVars
<1>6. CASE Overtaken
  BY <1>6 DEF Overtaken, StageOf, budgetVars
<1>7. CASE Answers
  BY <1>7 DEF Answers, StageOf, budgetVars
<1>8. CASE Malformed
  BY <1>8 DEF Malformed, StageOf, budgetVars
<1>9. CASE CallsTools
  BY <1>9 DEF CallsTools, StageOf, budgetVars
<1>10. CASE CallRaises
  BY <1>10 DEF CallRaises, StageOf, budgetVars
<1>11. CASE EndBatch
  BY <1>11 DEF EndBatch, StageOf
<1>12. CASE Finalize
  BY <1>12 DEF Finalize, StageOf, budgetVars
<1>13. CASE SkipCall \/ StartCall \/ EndCall
  <2> DEFINE k == Len(batch.calls)
             d == Len(batch.done)
  <2>1. k \in Nat /\ d \in Nat
    BY LeftType
  <2>2. round' = round /\ pc \in {"batch", "tool"} /\ pc' \in {"batch", "tool"}
    BY <1>13 DEF SkipCall, StartCall, EndCall, budgetVars
  <2>3. CASE SkipCall \/ EndCall
    <3>1. \E status \in Statuses, advised \in BOOLEAN : Done(status, advised)
      BY <2>3 DEF SkipCall, EndCall, Statuses
    <3>3. batch.done \in Seq(Events) /\ batch = [calls |-> batch.calls, truncated |-> batch.truncated,
             done |-> batch.done, advice |-> batch.advice, step |-> batch.step]
      BY DEF TypeOK
    <3>2. PICK e : batch'.done = Append(batch.done, e) /\ batch'.calls = batch.calls
      BY <3>1, <3>3 DEF Done
    <3>4. Len(batch'.done) = d + 1 /\ Len(batch'.calls) = k
      BY <3>2, <3>3
    <3>5. pc' = "batch"
      BY <2>3 DEF SkipCall, EndCall
    <3>6. CallsLeft' = (k - (d + 1)) + (k - (d + 1)) + 1
      BY <3>4, <3>5 DEF CallsLeft
    <3>7. CallsLeft \in {(k - d) + (k - d) + 1, (k - d) + (k - d)}
      BY <2>2 DEF CallsLeft
    <3> HIDE DEF k, d
    <3>8. CallsLeft' < CallsLeft
      BY <2>1, <3>6, <3>7
    <3>9. QED
      BY <2>2, <3>8 DEF StageOf
  <2>4. CASE StartCall
    <3>1. pc = "batch" /\ pc' = "tool"
      BY <2>4 DEF StartCall
    <3>2. batch'.calls = batch.calls /\ batch'.done = batch.done
      BY <2>4 DEF StartCall, TypeOK
    <3>3. CallsLeft = (k - d) + (k - d) + 1 /\ CallsLeft' = (k - d) + (k - d)
      BY <3>1, <3>2 DEF CallsLeft
    <3> HIDE DEF k, d
    <3>4. CallsLeft' < CallsLeft
      BY <2>1, <3>3
    <3>5. QED
      BY <2>2, <3>4 DEF StageOf
  <2>5. QED
    BY <1>13, <2>3, <2>4
<1>14. QED
  BY <1>1, <1>2, <1>3, <1>4, <1>5, <1>6, <1>7, <1>8, <1>9, <1>10, <1>11, <1>12, <1>13 DEF Step

\* The order has no infinite descent.
THEOREM NoEndlessDescent == IsWellFoundedOn(Order, Measures)
<1>1. IsWellFoundedOn(Less, Nat)
  BY NatLessThanWellFounded DEF Less
<1>2. IsWellFoundedOn(LexPairOrdering(Less, Less, Nat, Nat), Nat \X Nat)
  BY <1>1, WFLexPairOrdering
<1>3. QED
  BY <1>1, <1>2, WFLexPairOrdering DEF Order, Measures

\* A run cannot go on for ever: for any budget, extensions, calls and guidance, every
\* step of its executor descends in a well-founded order, and guidance, which may
\* come at any time, takes nothing back (RunRoundBudget, ConversationRunner.execute).
THEOREM RoundsRunOut ==
    Spec => [][/\ Step => <<Left', Left>> \in Order
               /\ ~Step => Left' = Left]_vars
<1>1. ASSUME IInv, IInv', [Next]_vars
      PROVE  (Step => <<Left', Left>> \in Order) /\ (~Step => Left' = Left)
  <2>1. TypeOK /\ TypeOK'
    BY <1>1 DEF IInv
  <2>2. /\ HardLimit - round \in Nat /\ StageOf[pc] \in Nat /\ CallsLeft \in Nat
        /\ HardLimit - round' \in Nat /\ StageOf[pc'] \in Nat /\ CallsLeft' \in Nat
    BY <2>1, LeftNow, LeftNext DEF LeftTyped
  <2>3. Step => <<Left', Left>> \in Order
    <3>1. SUFFICES ASSUME Step PROVE <<Left', Left>> \in Order
      OBVIOUS
    <3>2. \/ HardLimit - round' < HardLimit - round
          \/ /\ HardLimit - round' = HardLimit - round
             /\ StageOf[pc'] < StageOf[pc]
          \/ /\ HardLimit - round' = HardLimit - round
             /\ StageOf[pc'] = StageOf[pc] /\ CallsLeft' < CallsLeft
      BY <2>1, <3>1, StepLess
    <3>3. <<<<HardLimit - round', <<StageOf[pc'], CallsLeft'>>>>,
            <<HardLimit - round, <<StageOf[pc], CallsLeft>>>>>> \in Order
      BY <2>2, <3>2, OrderFacts
    <3>4. QED
      BY <3>3 DEF Left
  <2>4. ~Step => UNCHANGED <<pc, round, batch>>
    BY <1>1 DEF Next, Guide, vars, budgetVars, toolVars
  <2>5. ~Step => Left' = Left
    BY <2>4 DEF Left, CallsLeft
  <2>6. QED
    BY <2>3, <2>5
<1>2. QED
  BY <1>1, Invariant, PTL DEF Spec

=============================================================================
