------------------------- MODULE ContextWindow_proofs -------------------------
(***************************************************************************)
(* The summary a run goes on with stands for exactly the messages that its *)
(* window leaves out, for every window and every interleaving of runs,     *)
(* compressions by hand and restarts; what the list of messages looks like *)
(* plays no part there.  It does in the second result: the request a run works *)
(* on stays in what its model is shown, behind its boundary, because what can *)
(* still be put behind it is shorter than the window.                      *)
(***************************************************************************)
EXTENDS ContextWindow, FunctionTheorems, FiniteSetTheorems, TLAPS

\* What is stored is no summary, or one of the messages behind its digest.
StoredIsCoherent == stored.summary \in {{}, stored.source}

\* A compression that awaits its summary gives its writer all that its window
\* leaves out, directly or by the summary to be continued, and nothing else.
JobsAreExact ==
    /\ job = [a \in Who |-> job[a]]
    /\ \A a \in Who : Busy(a) =>
          /\ job[a].source = Durable(Older(job[a].built))
          /\ job[a].seed \cup job[a].new = job[a].source

SummaryInv == StoredIsCoherent /\ JobsAreExact /\ SummaryIsExact

\* A valid cached summary and the messages it has not been told of make up the
\* messages to be summarised.
LEMMA SeedAndNew ==
    ASSUME StoredIsCoherent, NEW source
    PROVE  Seed(source) \cup New(source) = source
<1>1. CASE Continues(source)
  <2>1. stored.summary = stored.source
    BY <1>1 DEF Continues, StoredIsCoherent
  <2>2. stored.source \subseteq source
    BY <1>1 DEF Continues
  <2>3. QED
    BY <1>1, <2>1, <2>2 DEF Seed, New
<1>2. CASE ~Continues(source)
  BY <1>2 DEF Seed, New
<1>3. QED
  BY <1>1, <1>2

\* A summary that is there is stored, and the run goes on with it.
LEMMA CompressedExact ==
    ASSUME SummaryIsExact, NEW a \in Who, NEW l, NEW source, NEW text,
           NEW form \in {"compressed", "blank"},
           Compressed(a, l, source, text, form),
           source = Durable(Older(l)),
           text = IF form = "blank" THEN {} ELSE source
    PROVE  StoredIsCoherent' /\ SummaryIsExact'
<1>1. stored' = [summary |-> text, source |-> source]
  BY DEF Compressed
<1>2. StoredIsCoherent'
  BY <1>1 DEF StoredIsCoherent
<1>3. CASE a = "run"
  <2>1. sent' = [built |-> l, form |-> form, summary |-> text]
    BY <1>3 DEF Compressed
  <2>2. sent'.built = l /\ sent'.form = form /\ sent'.summary = text
    BY <2>1
  <2>3. QED
    BY <1>2, <2>2 DEF SummaryIsExact
<1>4. CASE a # "run"
  BY <1>2, <1>4 DEF Compressed, SummaryIsExact
<1>5. QED
  BY <1>3, <1>4

LEMMA CompressExact ==
    ASSUME SummaryInv, NEW a \in Who, NEW l, Compress(a, l)
    PROVE  SummaryInv'
<1> DEFINE source == Durable(Older(l))
<1>1. Seed(source) \cup New(source) = source
  BY SeedAndNew DEF SummaryInv
<1>2. CASE New(source) = {}
  <2>1. Compressed(a, l, source, Seed(source), "compressed") /\ UNCHANGED job
    BY <1>2 DEF Compress
  <2>2. Seed(source) = source
    BY <1>1, <1>2
  <2>3. SummaryIsExact
    BY DEF SummaryInv
  <2> HIDE DEF source
  <2>4. source = Durable(Older(l))
    BY DEF source
  <2>5. StoredIsCoherent' /\ SummaryIsExact'
    BY <2>1, <2>2, <2>3, <2>4, CompressedExact
  <2>6. JobsAreExact'
    BY <2>1 DEF SummaryInv, JobsAreExact, Busy
  <2>7. QED
    BY <2>5, <2>6 DEF SummaryInv
<1>3. CASE New(source) # {}
  <2>1. /\ job' = [job EXCEPT ![a] = [built |-> l, seed |-> Seed(source),
                                      new |-> New(source), source |-> source]]
        /\ UNCHANGED <<stored, sent>>
    BY <1>3 DEF Compress
  <2>2. JobsAreExact'
    BY <1>1, <2>1 DEF SummaryInv, JobsAreExact, Busy
  <2>3. QED
    BY <2>1, <2>2 DEF SummaryInv, StoredIsCoherent, SummaryIsExact
<1>4. QED
  BY <1>2, <1>3

LEMMA SummarizedExact ==
    ASSUME SummaryInv, NEW a \in Who, Summarized(a)
    PROVE  SummaryInv'
<1> DEFINE j == job[a]
<1>1. j.source = Durable(Older(j.built)) /\ j.seed \cup j.new = j.source
  BY DEF SummaryInv, JobsAreExact, Summarized
<1>2. \/ Compressed(a, j.built, j.source, j.source, "compressed")
      \/ Compressed(a, j.built, j.source, {}, "blank")
  BY <1>1 DEF Summarized, Fallback
<1>3. SummaryIsExact
  BY DEF SummaryInv
<1>4. StoredIsCoherent' /\ SummaryIsExact'
  BY <1>1, <1>2, <1>3, CompressedExact
<1>5. JobsAreExact'
  BY DEF SummaryInv, JobsAreExact, Summarized, Busy
<1>6. QED
  BY <1>4, <1>5 DEF SummaryInv

\* A step that ends the run, keeps the store and drops jobs or leaves them alone.
LEMMA SettledExact ==
    ASSUME SummaryInv, stored' = stored, sent' \in {sent, NoRequest},
           job' \in {job, [job EXCEPT !["run"] = NoJob], [a \in Who |-> NoJob]}
    PROVE  SummaryInv'
<1>1. StoredIsCoherent' /\ SummaryIsExact'
  BY DEF SummaryInv, StoredIsCoherent, SummaryIsExact, NoRequest
<1>2. JobsAreExact'
  BY DEF SummaryInv, JobsAreExact, Busy
<1>3. QED
  BY <1>1, <1>2 DEF SummaryInv

LEMMA BeginExact ==
    ASSUME SummaryInv, NEW resumed \in BOOLEAN, Begin(resumed)
    PROVE  SummaryInv'
<1> DEFINE l == ModelMessages(conversation) \o (IF resumed THEN <<Recovery>> ELSE <<>>)
<1>1. sent' = [built |-> l, form |-> "listed", summary |-> {}] /\ UNCHANGED <<stored, job>>
  BY DEF Begin
<1> HIDE DEF l
<1>2. sent'.form = "listed" /\ sent'.summary = {}
  BY <1>1
<1>3. QED
  BY <1>1, <1>2 DEF SummaryInv, StoredIsCoherent, JobsAreExact, Busy, SummaryIsExact

LEMMA FitExact ==
    ASSUME SummaryInv, NEW long \in BOOLEAN, Fit(long)
    PROVE  SummaryInv'
<1>1. CASE long /\ Len(sent.built) > Keep
  <2>1. Compress("run", sent.built) /\ "run" \in Who
    BY <1>1 DEF Fit, Who
  <2>2. QED
    BY <2>1, CompressExact
<1>2. CASE ~(long /\ Len(sent.built) > Keep)
  <2>1. /\ sent' = [built |-> sent.built, form |-> "whole", summary |-> {}]
        /\ UNCHANGED <<stored, job>>
    BY <1>2 DEF Fit
  <2>2. sent'.form = "whole" /\ sent'.summary = {}
    BY <2>1
  <2>3. QED
    BY <2>1, <2>2 DEF SummaryInv, StoredIsCoherent, JobsAreExact, Busy, SummaryIsExact
<1>3. QED
  BY <1>1, <1>2

LEMMA InitExact == Init => SummaryInv
BY DEF Init, SummaryInv, StoredIsCoherent, JobsAreExact, Busy, SummaryIsExact, NoRequest

LEMMA NextExact == SummaryInv /\ [Next]_vars => SummaryInv'
<1> SUFFICES ASSUME SummaryInv, [Next]_vars
             PROVE  SummaryInv'
  OBVIOUS
<1>1. ASSUME NEW kind, Ask(kind) \/ Post(kind) \/ Reply(kind) \/ Guide
      PROVE  SummaryInv'
  BY <1>1, SettledExact DEF Ask, Post, Reply, Guide
<1>2. ASSUME NEW kind, Answer(kind)
      PROVE  SummaryInv'
  BY <1>2, SettledExact DEF Answer
<1>3. CASE End
  BY <1>3, SettledExact DEF End
<1>4. CASE Restart
  BY <1>4, SettledExact DEF Restart
<1>5. ASSUME NEW a \in Compressors, CompressNow(a)
      PROVE  SummaryInv'
  <2> DEFINE l == ModelMessages(conversation)
  <2>1. Compress(a, l) /\ a \in Who
    BY <1>5 DEF CompressNow, Who
  <2> HIDE DEF l
  <2>2. QED
    BY <2>1, CompressExact
<1>6. CASE UNCHANGED vars
  BY <1>6, SettledExact DEF vars
<1>7. QED
  BY <1>1, <1>2, <1>3, <1>4, <1>5, <1>6, BeginExact, FitExact, SummarizedExact
     DEF Next

\* Whatever the window, and however runs, compressions by hand, other requests
\* and restarts interleave, a run never goes on with a summary that has lost a
\* message, or that tells one again that its list has folded away or has in full.
THEOREM SummaryStaysExact == Spec => []SummaryIsExact
<1>1. SummaryInv => SummaryIsExact
  BY DEF SummaryInv
<1>2. QED
  BY <1>1, InitExact, NextExact, PTL DEF Spec

\* The summary kept with the conversation is always one of exactly the messages
\* behind the digest kept with it.
THEOREM StoreStaysCoherent == Spec => []StoredIsCoherent
<1>1. SummaryInv => StoredIsCoherent
  BY DEF SummaryInv
<1>2. QED
  BY <1>1, InitExact, NextExact, PTL DEF Spec
-----------------------------------------------------------------------------
(* The list: what it shows of the messages, and in which order. *)

Rank(K, i) == Cardinality({j \in K : j <= i})

\* The elements of a finite set of numbers are ranked 1, 2, ... without gaps.
LEMMA RankFacts ==
    ASSUME NEW K, K \subseteq Nat, IsFiniteSet(K)
    PROVE  /\ Cardinality(K) \in Nat
           /\ \A i \in K : Rank(K, i) \in 1..Cardinality(K)
           /\ \A i, j \in K : i < j => Rank(K, i) < Rank(K, j)
           /\ \A n \in 1..Cardinality(K) : \E i \in K : Rank(K, i) = n
<1> DEFINE UpTo(i) == {j \in K : j <= i}
           size == Cardinality(K)
<1>1. size \in Nat
  BY FS_CardinalityType
<1>2. ASSUME NEW i \in K
      PROVE  IsFiniteSet(UpTo(i)) /\ Rank(K, i) \in 1..size
  <2>1. UpTo(i) \in SUBSET K /\ i \in UpTo(i)
    OBVIOUS
  <2>2. IsFiniteSet(UpTo(i)) /\ Cardinality(UpTo(i)) <= size
    BY <2>1, FS_Subset
  <2>3. Cardinality(UpTo(i)) \in Nat /\ Cardinality(UpTo(i)) # 0
    BY <2>1, <2>2, FS_CardinalityType, FS_EmptySet
  <2>4. QED
    BY <1>1, <2>2, <2>3 DEF Rank
<1>3. ASSUME NEW i \in K, NEW j \in K, i < j
      PROVE  Rank(K, i) < Rank(K, j)
  <2>1. UpTo(i) \in SUBSET UpTo(j) /\ j \in UpTo(j) /\ j \notin UpTo(i)
    <3>1. i \in Nat /\ j \in Nat /\ \A k \in K : k \in Nat
      OBVIOUS
    <3>2. \A k \in K : k <= i => k <= j
      BY <1>3, <3>1
    <3>3. \A k \in UpTo(i) : k \in UpTo(j)
      BY <3>2
    <3>4. j \in UpTo(j) /\ j \notin UpTo(i)
      BY <1>3, <3>1
    <3>5. QED
      BY <3>3, <3>4
  <2>2. Cardinality(UpTo(i)) <= Cardinality(UpTo(j)) /\ Cardinality(UpTo(i)) # Cardinality(UpTo(j))
    BY <1>2, <2>1, FS_Subset
  <2>3. QED
    BY <1>1, <1>2, <2>2 DEF Rank
<1> HIDE DEF UpTo
<1>a. \A i \in K : Rank(K, i) \in 1..size /\ Rank(K, i) \in Nat
  BY <1>1, <1>2
<1> DEFINE rank == [i \in K |-> Rank(K, i)]
<1>4. rank \in [K -> 1..size]
  BY <1>2
<1>5. rank \in Injection(K, 1..size)
  <2>1. ASSUME NEW i \in K, NEW j \in K, rank[i] = rank[j]
        PROVE  i = j
    <3>1. i \in Nat /\ j \in Nat /\ Rank(K, i) = Rank(K, j)
      BY <2>1
    <3>2. Rank(K, i) \in Nat /\ Rank(K, j) \in Nat
      BY <1>a
    <3>3. CASE i < j
      BY <1>3, <3>1, <3>2, <3>3
    <3>4. CASE j < i
      BY <1>3, <3>1, <3>2, <3>4
    <3>5. QED
      BY <3>1, <3>3, <3>4
  <2> HIDE DEF rank
  <2>2. QED
    BY <1>4, <2>1 DEF Injection, IsInjective
<1>6. IsFiniteSet(1..size) /\ Cardinality(1..size) = size
  BY <1>1, FS_Interval
<1>7. rank \in Surjection(K, 1..size)
  BY <1>5, <1>6, FS_Injection
<1>8. \A n \in 1..size : \E i \in K : Rank(K, i) = n
  <2>1. \A n \in 1..size : \E i \in K : rank[i] = n
    <3> HIDE DEF rank
    <3>1. QED
      BY <1>7 DEF Surjection
  <2>2. QED
    BY <2>1
<1>9. QED
  BY <1>1, <1>2, <1>3, <1>8

Items == [kind : {"notice", "boundary", "marker", "recovery", "condensed", "exact"}, id : Nat]

Kinds == AllUserKinds \cup AllAnswerKinds \cup {"guidance"}

LEMMA LineFacts ==
    ASSUME NEW c, NEW i \in Nat
    PROVE  /\ Line(c, i) \in Items /\ Line(c, i) \notin {Notice, Boundary}
           /\ Line(c, i).id \in {0, i}
<1>0. Notice.kind = "notice" /\ Boundary.kind = "boundary"
  BY DEF Notice, Boundary, Item
<1>1. CASE i \in Folded(c)
  <2>1. Line(c, i) = [kind |-> "marker", id |-> 0]
    BY <1>1 DEF Line, Marker, Item
  <2>2. Line(c, i) \in Items /\ Line(c, i).kind = "marker" /\ Line(c, i).id = 0
    BY <2>1 DEF Items
  <2>3. QED
    BY <1>0, <2>2
<1>2. CASE i \notin Folded(c)
  <2>1. PICK kind \in {"condensed", "exact"} : Line(c, i) = [kind |-> kind, id |-> i]
    BY <1>2 DEF Line, Message
  <2>2. Line(c, i) \in Items /\ Line(c, i).kind = kind /\ Line(c, i).id = i
    BY <2>1 DEF Items
  <2>3. QED
    BY <1>0, <2>2
<1>3. QED
  BY <1>1, <1>2

\* There is one line for each of the messages, in their order.
LEMMA LinesFacts ==
    ASSUME NEW c, NEW K, K \subseteq Nat, IsFiniteSet(K)
    PROVE  /\ Lines(c, K) \in Seq(Items) /\ Len(Lines(c, K)) = Cardinality(K)
           /\ Cardinality(K) \in Nat
           /\ \A n \in 1..Cardinality(K) : \E i \in K : Rank(K, i) = n /\ Lines(c, K)[n] = Line(c, i)
<1> DEFINE size == Cardinality(K)
           at(n) == CHOOSE i \in K : Rank(K, i) = n
           lines == Lines(c, K)
<1>1. size \in Nat /\ \A n \in 1..size : \E i \in K : Rank(K, i) = n
  BY RankFacts
<1>2. \A n \in 1..size : at(n) \in K /\ Rank(K, at(n)) = n
  BY <1>1
<1>3. lines = [n \in 1..size |-> Line(c, at(n))]
  BY DEF Lines, Rank
<1> HIDE DEF at, lines
<1>4. \A n \in 1..size : lines[n] = Line(c, at(n)) /\ lines[n] \in Items
  BY <1>2, <1>3, LineFacts
<1>5. lines \in [1..size -> Items]
  BY <1>3, <1>4
<1>6. lines \in Seq(Items) /\ Len(lines) = size
  BY <1>1, <1>5
<1>7. QED
  BY <1>1, <1>2, <1>4, <1>6 DEF lines

\* The messages after k that are put before a model.
Later(c, k) == {j \in DOMAIN c : j > k /\ c[j] # "guidance"}

\* Nothing that is a request, or reports a task, comes after message k.
NoneLater(c, k) == \A j \in DOMAIN c : j > k => c[j] \notin AllUserKinds \cup {"task"}

LEMMA LatestRequest ==
    ASSUME NEW c \in Seq(Kinds), NEW k \in DOMAIN c, c[k] \in AllUserKinds, NoneLater(c, k)
    PROVE  /\ Current(c) = k /\ k \in Shown(c) /\ Line(c, k) = [kind |-> "exact", id |-> k]
<1>1. k \in Nat /\ k # 0 /\ \A j \in DOMAIN c : j \in Nat
  OBVIOUS
<1>2. Current(c) = k
  <2> DEFINE S == Users(c) \cup {0}
  <2>1. k \in S /\ \A j \in S : j \in Nat /\ k >= j
    <3>1. \A j \in Users(c) : j \in DOMAIN c /\ ~(j > k)
      BY DEF Users, NoneLater
    <3>2. k \in Users(c)
      BY DEF Users
    <3>3. \A j \in Users(c) : j \in Nat /\ k >= j
      BY <1>1, <3>1
    <3>4. QED
      BY <1>1, <3>2, <3>3
  <2> HIDE DEF S
  <2>2. \A x \in S : (\A y \in S : x >= y) => x = k
    BY <1>1, <2>1
  <2>3. Max(S) = k
    BY <2>1, <2>2 DEF Max
  <2>4. QED
    BY <2>3 DEF Current, Latest, S
<1>3. k \notin Folded(c)
  <2>1. k \notin Tasks(c)
    BY DEF Tasks, AllUserKinds
  <2>2. QED
    BY <1>2, <2>1 DEF Folded
<1>4. ~Noisy(c, k)
  BY <1>2 DEF Noisy, AllUserKinds
<1>5. c[k] # "guidance"
  BY DEF AllUserKinds
<1>6. k \in Shown(c)
  BY <1>3, <1>5 DEF Shown
<1>7. Line(c, k) = [kind |-> "exact", id |-> k]
  BY <1>3, <1>4 DEF Line, Message
<1>8. QED
  BY <1>2, <1>6, <1>7

LEMMA ShownFinite ==
    ASSUME NEW c \in Seq(Kinds), NEW K, K \subseteq Shown(c)
    PROVE  K \subseteq Nat /\ IsFiniteSet(K)
<1>1. DOMAIN c = 1..Len(c) /\ Len(c) \in Nat /\ K \subseteq DOMAIN c
  BY DEF Shown
<1>2. IsFiniteSet(1..Len(c))
  BY <1>1, FS_Interval
<1>3. QED
  BY <1>1, <1>2, FS_Subset

\* The list from its current request on: the request first, as it was written,
\* then what was said after it.
From(c, k) == Lines(c, {i \in Shown(c) : i >= k})

LEMMA TailFacts ==
    ASSUME NEW c \in Seq(Kinds), NEW k \in DOMAIN c, c[k] \in AllUserKinds, NoneLater(c, k),
           NEW t, t = From(c, k)
    PROVE  /\ t \in Seq(Items) /\ Len(t) \in Nat \ {0} /\ Len(t) <= Cardinality(Later(c, k)) + 1
           /\ Cardinality(Later(c, k)) \in Nat
           /\ t[1] = [kind |-> "exact", id |-> k]
           /\ \A n \in 2..Len(t) : t[n].id # 0 => t[n].id \in DOMAIN c /\ t[n].id > k
           /\ \A n \in 1..Len(t) : t[n] # Notice
<1> DEFINE K == {i \in Shown(c) : i >= k}
<1>1. k \in K /\ k \in Nat /\ Line(c, k) = [kind |-> "exact", id |-> k]
  BY LatestRequest
<1>2. K \subseteq Nat /\ IsFiniteSet(K)
  BY ShownFinite
<1>3. \A i \in K : i \in DOMAIN c /\ c[i] # "guidance" /\ i >= k
  BY DEF Shown
<1>4. t = Lines(c, K)
  BY DEF From
<1> HIDE DEF K
<1>5. /\ t \in Seq(Items) /\ Len(t) = Cardinality(K) /\ Cardinality(K) \in Nat
      /\ \A n \in 1..Cardinality(K) : \E i \in K : Rank(K, i) = n /\ t[n] = Line(c, i)
  <2>1. /\ Lines(c, K) \in Seq(Items) /\ Len(Lines(c, K)) = Cardinality(K)
        /\ Cardinality(K) \in Nat
        /\ \A n \in 1..Cardinality(K) :
              \E i \in K : Rank(K, i) = n /\ Lines(c, K)[n] = Line(c, i)
    BY <1>2, LinesFacts
  <2>2. QED
    BY <1>4, <2>1, Zenon
<1>6. /\ \A i \in K : Rank(K, i) \in 1..Cardinality(K)
      /\ \A i, j \in K : i < j => Rank(K, i) < Rank(K, j)
  BY <1>2, RankFacts
<1>7. Cardinality(K) # 0
  BY <1>1, <1>5, <1>6
<1>8. \A i \in K : Rank(K, i) = 1 <=> i = k
  <2>1. ASSUME NEW i \in K, i # k
        PROVE  Rank(K, i) # 1
    <3>1. i \in Nat /\ k < i
      BY <1>1, <1>2, <1>3, <2>1
    <3>2. Rank(K, k) < Rank(K, i) /\ Rank(K, k) \in 1..Cardinality(K) /\ Rank(K, i) \in 1..Cardinality(K)
      BY <1>1, <1>6, <3>1
    <3>3. QED
      BY <1>5, <3>2
  <2>2. \E i \in K : Rank(K, i) = 1
    BY <1>5, <1>7
  <2>3. QED
    BY <1>1, <2>1, <2>2
<1>9. t[1] = [kind |-> "exact", id |-> k]
  BY <1>1, <1>5, <1>7, <1>8
<1>10. ASSUME NEW n \in 2..Len(t), t[n].id # 0
       PROVE  t[n].id \in DOMAIN c /\ t[n].id > k
  <2>1. PICK i \in K : Rank(K, i) = n /\ t[n] = Line(c, i)
    BY <1>5
  <2>2. i \in Nat /\ i # k
    BY <1>2, <1>8, <2>1
  <2>3. t[n].id = i
    BY <1>10, <2>1, <2>2, LineFacts
  <2>4. QED
    BY <1>1, <1>3, <2>2, <2>3
<1>11. \A n \in 1..Len(t) : t[n] # Notice
  BY <1>2, <1>5, LineFacts
<1>12. /\ Cardinality(Later(c, k)) \in Nat
       /\ Cardinality(K) <= Cardinality(Later(c, k)) + 1
  <2>1. IsFiniteSet(Later(c, k)) /\ k \notin Later(c, k)
    <3>1. Later(c, k) \subseteq 1..Len(c) /\ IsFiniteSet(1..Len(c))
      <4>1. DOMAIN c = 1..Len(c) /\ Len(c) \in Nat
        OBVIOUS
      <4>2. IsFiniteSet(1..Len(c))
        BY <4>1, FS_Interval
      <4>3. QED
        BY <4>1, <4>2 DEF Later
    <3>2. QED
      BY <1>1, <3>1, FS_Subset DEF Later
  <2>2. /\ Cardinality(Later(c, k)) \in Nat
        /\ IsFiniteSet(Later(c, k) \cup {k})
        /\ Cardinality(Later(c, k) \cup {k}) = Cardinality(Later(c, k)) + 1
    BY <2>1, FS_CardinalityType, FS_AddElement
  <2>3. K \subseteq Later(c, k) \cup {k}
    <3>1. ASSUME NEW i \in K, i # k PROVE i \in Later(c, k)
      <4>1. i \in Nat /\ i > k
        BY <1>1, <1>2, <1>3, <3>1
      <4>2. QED
        BY <1>3, <4>1 DEF Later
    <3>2. QED
      BY <3>1
  <2>4. QED
    BY <2>2, <2>3, FS_Subset
<1>13. QED
  BY <1>5, <1>7, <1>9, <1>10, <1>11, <1>12
-----------------------------------------------------------------------------
(* The current request in the list. *)

\* Where the current request stands in a list: as it was written, followed by
\* later messages and by no more of them than requests that do not stream could add
\* meanwhile (and a recovery), and with the boundary before it if there is a notice.
StandsAt(l, i) ==
    /\ l[i] = [kind |-> "exact", id |-> request]
    /\ Len(l) - i <= MaxPosts + 1
    /\ \A j \in i + 1..Len(l) :
          l[j].id # 0 => l[j].id \in DOMAIN conversation /\ l[j].id > request
    /\ Notice \in Told(l) => i > 1 /\ l[i - 1] = Boundary

Stands(l) == l \in Seq(Items) /\ \E i \in DOMAIN l : StandsAt(l, i)

\* While a run is at work, the conversation's latest request is its own, and the
\* answers added behind it are of requests that were under way when it came.
RequestInv ==
    /\ conversation \in Seq(Kinds) /\ posted \in 0..MaxPosts
    /\ run # "idle" =>
          /\ request \in DOMAIN conversation /\ conversation[request] \in AllUserKinds
          /\ NoneLater(conversation, request)
          /\ Cardinality(Later(conversation, request)) + posted <= MaxPosts

\* The list that a run is to work with shows its request, and the compression that
\* it awaits is of this list.
ListInv ==
    /\ run \in {"listed", "compressing", "going"} => Stands(sent.built)
    /\ job = [a \in Who |-> job[a]]
    /\ Busy("run") => run = "compressing" /\ job["run"].built = sent.built

\* Lists one after the other.
LEMMA TwoLists ==
    ASSUME NEW s \in Seq(Items), NEW t \in Seq(Items)
    PROVE  /\ s \o t \in Seq(Items) /\ Len(s \o t) = Len(s) + Len(t)
           /\ \A i \in 1..Len(s) : (s \o t)[i] = s[i]
           /\ \A i \in 1..Len(t) : (s \o t)[Len(s) + i] = t[i]
           /\ \A x : x \in Told(s \o t) => x \in Told(s) \/ x \in Told(t)
<1> DEFINE c == s \o t
<1>1. Len(s) \in Nat /\ Len(t) \in Nat /\ c \in Seq(Items) /\ Len(c) = Len(s) + Len(t)
  OBVIOUS
<1>2. /\ \A i \in 1..Len(s) : c[i] = s[i]
      /\ \A i \in 1..Len(t) : c[Len(s) + i] = t[i]
  OBVIOUS
<1>3. ASSUME NEW i \in 1..Len(c)
      PROVE  c[i] \in Told(s) \/ c[i] \in Told(t)
  <2>1. CASE i \in 1..Len(s)
    BY <1>2, <2>1 DEF Told
  <2>2. CASE i \notin 1..Len(s)
    <3>1. i - Len(s) \in 1..Len(t) /\ Len(s) + (i - Len(s)) = i
      BY <1>1, <2>2
    <3>2. c[i] = t[i - Len(s)] /\ i - Len(s) \in DOMAIN t
      BY <1>2, <3>1
    <3>3. QED
      BY <3>2 DEF Told
  <2>3. QED
    BY <2>1, <2>2
<1>4. DOMAIN c = 1..Len(c)
  BY <1>1
<1> HIDE DEF c
<1>5. \A x : x \in Told(c) => x \in Told(s) \/ x \in Told(t)
  BY <1>3, <1>4 DEF Told
<1>6. QED
  BY <1>1, <1>2, <1>5 DEF c

\* A request in a list without a notice, or behind the boundary.
LEMMA ListStands ==
    ASSUME NEW head \in Seq(Items), NEW tail \in Seq(Items), Len(tail) # 0,
           tail[1] = [kind |-> "exact", id |-> request],
           Len(tail) <= MaxPosts + 2,
           \A n \in 2..Len(tail) :
               tail[n].id # 0 => tail[n].id \in DOMAIN conversation /\ tail[n].id > request,
           Notice \notin Told(tail),
           Notice \in Told(head) => Len(head) > 0 /\ head[Len(head)] = Boundary
    PROVE  Stands(head \o tail)
<1> DEFINE l == head \o tail
           i == Len(head) + 1
<1>1. /\ l \in Seq(Items) /\ Len(l) = Len(head) + Len(tail) /\ Len(head) \in Nat /\ Len(tail) \in Nat
      /\ \A k \in 1..Len(head) : l[k] = head[k]
      /\ \A k \in 1..Len(tail) : l[Len(head) + k] = tail[k]
      /\ \A x : x \in Told(l) => x \in Told(head) \/ x \in Told(tail)
  BY TwoLists
<1> HIDE DEF l
<1>2. i \in DOMAIN l /\ Len(l) - i <= MaxPosts + 1
  BY <1>1, BoundAssumption
<1>3. l[i] = [kind |-> "exact", id |-> request]
  <2>1. 1 \in 1..Len(tail)
    BY <1>1
  <2>2. QED
    BY <1>1, <2>1
<1>4. ASSUME NEW j \in i + 1..Len(l), l[j].id # 0
      PROVE  l[j].id \in DOMAIN conversation /\ l[j].id > request
  <2>1. j - Len(head) \in 2..Len(tail) /\ Len(head) + (j - Len(head)) = j
    BY <1>1
  <2>2. j - Len(head) \in 1..Len(tail)
    BY <1>1, <2>1
  <2>3. l[j] = tail[j - Len(head)]
    BY <1>1, <2>1, <2>2
  <2>4. QED
    BY <1>4, <2>1, <2>3
<1>5. Notice \in Told(l) => i > 1 /\ l[i - 1] = Boundary
  <2>1. SUFFICES ASSUME Notice \in Told(l) PROVE i > 1 /\ l[i - 1] = Boundary
    OBVIOUS
  <2>2. Len(head) > 0 /\ head[Len(head)] = Boundary
    BY <1>1, <2>1
  <2>3. i - 1 = Len(head) /\ Len(head) \in 1..Len(head) /\ i > 1
    BY <1>1, <2>2
  <2>4. QED
    BY <1>1, <2>2, <2>3
<1>6. StandsAt(l, i)
  BY <1>2, <1>3, <1>4, <1>5 DEF StandsAt
<1>7. QED
  BY <1>1, <1>2, <1>6 DEF Stands, l
LEMMA ItemFacts ==
    /\ Notice \in Items /\ Boundary \in Items /\ Recovery \in Items
    /\ Recovery.id = 0 /\ Recovery # Notice /\ Boundary # Notice
<1>1. Recovery.kind = "recovery" /\ Notice.kind = "notice" /\ Boundary.kind = "boundary"
  BY DEF Recovery, Notice, Boundary, Item
<1>2. QED
  BY <1>1 DEF Recovery, Notice, Boundary, Item, Items

\* The list that a run begins with shows its request, whatever was cleaned and
\* whatever other requests have added behind it.
LEMMA BeginStands ==
    ASSUME RequestInv, run # "idle", NEW resumed \in BOOLEAN
    PROVE  Stands(ModelMessages(conversation) \o (IF resumed THEN <<Recovery>> ELSE <<>>))
<1> DEFINE c == conversation
           notice == IF Changed(c) THEN <<Notice>> ELSE <<>>
           before == Lines(c, {i \in Shown(c) : i < Current(c)})
           boundary == IF Changed(c) /\ Current(c) # 0 THEN <<Boundary>> ELSE <<>>
           after == Lines(c, {i \in Shown(c) : i >= Current(c)})
           recovery == IF resumed THEN <<Recovery>> ELSE <<>>
           head == (notice \o before) \o boundary
           tail == after \o recovery
<1>1. /\ c \in Seq(Kinds) /\ request \in DOMAIN c /\ c[request] \in AllUserKinds
      /\ NoneLater(c, request) /\ Cardinality(Later(c, request)) + posted <= MaxPosts
      /\ posted \in Nat
  BY BoundAssumption DEF RequestInv
<1>2. Current(c) = request /\ request # 0
  BY <1>1, LatestRequest
<1>3. /\ after \in Seq(Items) /\ Len(after) \in Nat \ {0}
      /\ Len(after) <= Cardinality(Later(c, request)) + 1 /\ Cardinality(Later(c, request)) \in Nat
      /\ after[1] = [kind |-> "exact", id |-> request]
      /\ \A n \in 2..Len(after) : after[n].id # 0 => after[n].id \in DOMAIN c /\ after[n].id > request
      /\ \A n \in 1..Len(after) : after[n] # Notice
  <2>1. after = From(c, request)
    BY <1>2 DEF From
  <2> HIDE DEF after, c
  <2>2. QED
    BY <1>1, <2>1, TailFacts
<1>4. /\ notice \in Seq(Items) /\ boundary \in Seq(Items) /\ recovery \in Seq(Items)
      /\ recovery \in {<<>>, <<Recovery>>}
      /\ Len(recovery) \in 0..1 /\ \A n \in 1..Len(recovery) : recovery[n] = Recovery
      /\ Notice \in Told(notice) => Changed(c)
      /\ Changed(c) => Len(boundary) = 1 /\ boundary[1] = Boundary
      /\ Notice \notin Told(boundary) /\ Notice \notin Told(recovery)
  BY <1>2, ItemFacts DEF Told
<1>5. before \in Seq(Items) /\ Notice \notin Told(before)
  <2> DEFINE K == {i \in Shown(c) : i < Current(c)}
  <2>1. K \subseteq Nat /\ IsFiniteSet(K)
    BY <1>1, ShownFinite
  <2> HIDE DEF K
  <2>2. /\ Lines(c, K) \in Seq(Items) /\ Len(Lines(c, K)) = Cardinality(K)
        /\ \A n \in 1..Cardinality(K) : \E i \in K : Lines(c, K)[n] = Line(c, i)
    BY <2>1, LinesFacts
  <2>3. \A n \in 1..Len(Lines(c, K)) : Lines(c, K)[n] # Notice
    BY <2>1, <2>2, LineFacts
  <2>4. QED
    BY <2>2, <2>3 DEF Told, K
<1> HIDE DEF c, notice, before, boundary, after, recovery
<1>6. /\ head \in Seq(Items)
      /\ Notice \in Told(head) => Len(head) > 0 /\ head[Len(head)] = Boundary
  <2>1. /\ notice \o before \in Seq(Items) /\ Len(notice \o before) \in Nat
        /\ \A x : x \in Told(notice \o before) => x \in Told(notice) \/ x \in Told(before)
    BY <1>4, <1>5, TwoLists
  <2>2. /\ head \in Seq(Items) /\ Len(head) = Len(notice \o before) + Len(boundary)
        /\ \A i \in 1..Len(boundary) : head[Len(notice \o before) + i] = boundary[i]
        /\ \A x : x \in Told(head) => x \in Told(notice \o before) \/ x \in Told(boundary)
    BY ZenonT(40), <1>4, <2>1, TwoLists
  <2>3. Notice \in Told(head) => Len(boundary) = 1 /\ boundary[1] = Boundary
    BY <1>4, <1>5, <2>1, <2>2
  <2> HIDE DEF head
  <2>4. 1 \in 1..1 /\ Len(notice \o before) + 1 > 0
    BY <2>1
  <2>5. QED
    BY <2>2, <2>3, <2>4
<1>7. /\ tail \in Seq(Items) /\ Len(tail) = Len(after) + Len(recovery)
      /\ \A i \in 1..Len(after) : tail[i] = after[i]
      /\ \A i \in 1..Len(recovery) : tail[Len(after) + i] = recovery[i]
      /\ \A x : x \in Told(tail) => x \in Told(after) \/ x \in Told(recovery)
  BY <1>3, <1>4, TwoLists
<1>8. Notice \notin Told(tail)
  <2>1. Notice \notin Told(after)
    BY <1>3 DEF Told
  <2>2. QED
    BY <1>4, <1>7, <2>1
<1>9. \A n \in 2..Len(tail) : tail[n].id # 0 => tail[n].id \in DOMAIN c /\ tail[n].id > request
  <2>1. ASSUME NEW n \in 2..Len(tail), tail[n].id # 0
        PROVE  n \in 2..Len(after) /\ tail[n] = after[n]
    <3>1. CASE n \in 1..Len(after)
      BY <1>3, <1>7, <3>1
    <3>2. CASE n \notin 1..Len(after)
      <4>1. n - Len(after) \in 1..Len(recovery) /\ Len(after) + (n - Len(after)) = n
        BY <1>3, <1>4, <1>7, <3>2
      <4>2. tail[n] = Recovery
        BY <1>4, <1>7, <4>1
      <4>3. QED
        BY <2>1, <4>2, ItemFacts
    <3>3. QED
      BY <3>1, <3>2
  <2>2. QED
    BY <1>3, <2>1
<1>10. Len(tail) # 0 /\ Len(tail) <= MaxPosts + 2 /\ tail[1] = [kind |-> "exact", id |-> request]
  <2> HIDE DEF tail
  <2>1. 1 \in 1..Len(after)
    BY <1>3
  <2>2. tail[1] = [kind |-> "exact", id |-> request]
    BY <1>3, <1>7, <2>1
  <2>3. Len(tail) # 0 /\ Len(tail) <= MaxPosts + 2
    <3>1. \A m, q, a, b, d \in Nat :
             d + q <= m /\ a <= d + 1 /\ a # 0 /\ b <= 1 => a + b # 0 /\ a + b <= m + 2
      OBVIOUS
    <3>2. /\ MaxPosts \in Nat /\ posted \in Nat /\ Len(after) \in Nat /\ Len(recovery) \in Nat
          /\ Cardinality(Later(c, request)) \in Nat
      BY <1>1, <1>3, <1>4, BoundAssumption
    <3>3. /\ Cardinality(Later(c, request)) + posted <= MaxPosts
          /\ Len(after) <= Cardinality(Later(c, request)) + 1
          /\ Len(after) # 0 /\ Len(recovery) <= 1
      <4>1. Cardinality(Later(c, request)) + posted <= MaxPosts
        BY <1>1
      <4>2. Len(after) <= Cardinality(Later(c, request)) + 1 /\ Len(after) # 0
        BY <1>3
      <4>3. Len(recovery) <= 1
        BY <1>4
      <4>4. QED
        BY <4>1, <4>2, <4>3
    <3>4. QED
      BY <1>7, <3>1, <3>2, <3>3
  <2>4. QED
    BY <2>2, <2>3
<1> HIDE DEF head, tail
<1>11. Stands(head \o tail)
  BY <1>6, <1>7, <1>8, <1>9, <1>10, ListStands DEF c
<1>12. ModelMessages(conversation) \o (IF resumed THEN <<Recovery>> ELSE <<>>) = head \o tail
  <2>1. ModelMessages(conversation) = head \o after
    BY DEF ModelMessages, head, c, notice, before, boundary, after
  <2>2. head \in Seq(Items) /\ after \in Seq(Items) /\ recovery \in Seq(Items)
    BY <1>3, <1>4, <1>6
  <2>3. (head \o after) \o recovery = head \o (after \o recovery)
    BY <2>2
  <2>4. QED
    BY <2>1, <2>3 DEF tail, recovery
<1>13. QED
  BY <1>11, <1>12
LEMMA SuffixFacts ==
    ASSUME NEW l \in Seq(Items), NEW d \in Nat, NEW n \in Nat, d + n = Len(l)
    PROVE  /\ Len(SubSeq(l, d + 1, Len(l))) = n
           /\ DOMAIN SubSeq(l, d + 1, Len(l)) = 1..n
           /\ \A k \in 1..n : SubSeq(l, d + 1, Len(l))[k] = l[d + k]
<1> DEFINE w == SubSeq(l, d + 1, d + n)
<1>1. Len(l) \in Nat /\ d + 1 <= d + n + 1
  OBVIOUS
<1>2. Len(w) = (d + n) - (d + 1) + 1 /\ w \in Seq(Items)
  OBVIOUS
<1>3. \A k \in 1..n : w[k] = l[(d + 1) + k - 1]
  OBVIOUS
<1>4. \A k \in 1..n : (d + 1) + k - 1 = d + k
  OBVIOUS
<1> HIDE DEF w
<1>5. Len(w) = n /\ \A k \in 1..n : w[k] = l[d + k]
  BY <1>2, <1>3, <1>4
<1>6. QED
  BY <1>2, <1>5 DEF w

\* The window is long enough for the request, the boundary before it, and what may
\* stand behind it.
LEMMA RecentStands ==
    ASSUME Keep >= MaxPosts + 3, NEW l, Stands(l), NEW w \in {l, Recent(l)}
    PROVE  \E i \in DOMAIN w :
              /\ w[i] = [kind |-> "exact", id |-> request]
              /\ \A j \in i + 1..Len(w) :
                    w[j].id # 0 => w[j].id \in DOMAIN conversation /\ w[j].id > request
              /\ Notice \in Told(l) => i > 1 /\ w[i - 1] = Boundary
<1>1. /\ l \in Seq(Items) /\ Len(l) \in Nat /\ DOMAIN l = 1..Len(l)
      /\ Keep \in Nat /\ MaxPosts \in Nat
  BY KeepAssumption, BoundAssumption DEF Stands
<1>2. PICK i \in 1..Len(l) : StandsAt(l, i)
  BY <1>1 DEF Stands
<1>3. CASE w = l
  BY <1>1, <1>2, <1>3 DEF StandsAt
<1>4. CASE w # l
  <2> DEFINE d == Len(l) - Keep
  <2>1. d \in Nat /\ w = SubSeq(l, d + 1, Len(l))
    BY <1>1, <1>4 DEF Recent
  <2>2. d + Keep = Len(l)
    BY <1>1
  <2> HIDE DEF d
  <2>3. Len(w) = Keep /\ DOMAIN w = 1..Keep /\ \A k \in 1..Keep : w[k] = l[d + k]
    <3>1. l \in Seq(Items) /\ Keep \in Nat /\ d \in Nat
      BY <1>1, <2>1
    <3>2. QED
      BY <2>1, <2>2, <3>1, SuffixFacts
  <2>4. /\ i - d \in 1..Keep /\ d + (i - d) = i /\ i - d > 1
        /\ i - d - 1 \in 1..Keep /\ d + (i - d - 1) = i - 1
    <3>1. Len(l) - i <= MaxPosts + 1
      BY <1>2 DEF StandsAt
    <3>2. QED
      BY <1>1, <2>1, <2>2, <3>1
  <2>5. w[i - d] = l[i] /\ w[i - d - 1] = l[i - 1]
    BY <2>3, <2>4
  <2>6. ASSUME NEW j \in i - d + 1..Len(w)
        PROVE  j \in 1..Keep /\ d + j \in i + 1..Len(l) /\ w[j] = l[d + j]
    <3>1. j \in 1..Keep /\ d + j \in i + 1..Len(l)
      <4>1. i \in Nat /\ d \in Nat /\ i - d \in Nat /\ j \in Nat /\ j >= i - d + 1 /\ j <= Keep
        <5>1. i \in Nat /\ d \in Nat /\ i - d \in Nat /\ Len(w) = Keep /\ Keep \in Nat
          <6>1. i \in Nat /\ d \in Nat
            BY <1>1, <2>1
          <6>2. i - d \in Nat
            BY <1>1, <2>4
          <6>3. QED
            BY <1>1, <2>3, <6>1, <6>2
        <5>2. i - d + 1 \in Nat /\ j \in (i - d + 1)..Keep
          BY <2>6, <5>1
        <5>3. QED
          BY <5>1, <5>2
      <4>2. QED
        BY <1>1, <2>2, <4>1
    <3>2. QED
      BY <2>3, <3>1
  <2>7. QED
    BY <1>2, <2>3, <2>4, <2>5, <2>6 DEF StandsAt
<1>5. QED
  BY <1>3, <1>4

LEMMA StandsGoing ==
    ASSUME Keep >= MaxPosts + 3, RequestInv, ListInv
    PROVE  CurrentRequestStands
<1> SUFFICES ASSUME run = "going" PROVE CurrentRequestStands
  BY DEF CurrentRequestStands
<1>1. Stands(sent.built) /\ NoneLater(conversation, request)
  BY DEF RequestInv, ListInv
<1>2. SentList \in {sent.built, Recent(sent.built)}
  BY DEF SentList
<1>3. PICK i \in DOMAIN SentList :
         /\ SentList[i] = [kind |-> "exact", id |-> request]
         /\ \A j \in i + 1..Len(SentList) :
               SentList[j].id # 0 =>
                   SentList[j].id \in DOMAIN conversation /\ SentList[j].id > request
         /\ Notice \in Told(sent.built) => i > 1 /\ SentList[i - 1] = Boundary
  BY <1>1, <1>2, RecentStands
<1>4. \A k \in DOMAIN conversation : k > request => conversation[k] \notin AllUserKinds
  BY <1>1 DEF NoneLater
<1>5. QED
  BY <1>3, <1>4 DEF CurrentRequestStands

-----------------------------------------------------------------------------
(* Steps. *)

LEMMA AddFacts ==
    ASSUME conversation \in Seq(Kinds), NEW kind \in Kinds, Add(kind)
    PROVE  /\ conversation' \in Seq(Kinds) /\ DOMAIN conversation \subseteq DOMAIN conversation'
           /\ DOMAIN conversation' = DOMAIN conversation \cup {Len(conversation) + 1}
           /\ Len(conversation) + 1 \notin DOMAIN conversation
           /\ \A j \in DOMAIN conversation : conversation'[j] = conversation[j]
           /\ conversation'[Len(conversation) + 1] = kind
BY DEF Add

LEMMA LaterFinite ==
    ASSUME NEW c \in Seq(Kinds), NEW k
    PROVE  IsFiniteSet(Later(c, k)) /\ Cardinality(Later(c, k)) \in Nat
<1>1. DOMAIN c = 1..Len(c) /\ Len(c) \in Nat
  OBVIOUS
<1>2. IsFiniteSet(1..Len(c)) /\ Later(c, k) \subseteq 1..Len(c)
  BY <1>1, FS_Interval DEF Later
<1>3. QED
  BY <1>2, FS_Subset, FS_CardinalityType

\* A late answer or guidance is not a request, and at most one message more.
LEMMA AddLater ==
    ASSUME RequestInv, run # "idle", NEW kind \in Kinds \ (AllUserKinds \cup {"task"}), Add(kind)
    PROVE  /\ NoneLater(conversation', request)
           /\ kind = "guidance" => Later(conversation', request) = Later(conversation, request)
           /\ Cardinality(Later(conversation', request)) <= Cardinality(Later(conversation, request)) + 1
<1>1. /\ conversation \in Seq(Kinds) /\ NoneLater(conversation, request)
  BY DEF RequestInv
<1>2. /\ DOMAIN conversation' = DOMAIN conversation \cup {Len(conversation) + 1}
      /\ Len(conversation) + 1 \notin DOMAIN conversation
      /\ \A j \in DOMAIN conversation : conversation'[j] = conversation[j]
      /\ conversation'[Len(conversation) + 1] = kind
      /\ conversation' \in Seq(Kinds)
  BY <1>1, AddFacts
<1>3. NoneLater(conversation', request)
  BY <1>1, <1>2 DEF NoneLater
<1>4. Later(conversation', request) \subseteq Later(conversation, request) \cup {Len(conversation) + 1}
  BY <1>2 DEF Later
<1>5. kind = "guidance" => Later(conversation', request) = Later(conversation, request)
  BY <1>2 DEF Later
<1>6. Cardinality(Later(conversation', request)) <= Cardinality(Later(conversation, request)) + 1
  <2>1. /\ IsFiniteSet(Later(conversation, request)) /\ Cardinality(Later(conversation, request)) \in Nat
        /\ Cardinality(Later(conversation', request)) \in Nat
    BY <1>1, <1>2, LaterFinite
  <2> DEFINE L == Later(conversation, request)
             n == Len(conversation) + 1
  <2>2. n \notin L
    BY <1>2 DEF Later
  <2> HIDE DEF L, n
  <2>3. IsFiniteSet(L \cup {n}) /\ Cardinality(L \cup {n}) = Cardinality(L) + 1
    BY <2>1, <2>2, FS_AddElement DEF L
  <2>4. Cardinality(Later(conversation', request)) <= Cardinality(L \cup {n})
    BY <1>4, <2>3, FS_Subset DEF L, n
  <2>5. QED
    BY <2>3, <2>4 DEF L
<1>7. QED
  BY <1>3, <1>5, <1>6

LEMMA StandsKept ==
    ASSUME NEW l, Stands(l), request' = request, DOMAIN conversation \subseteq DOMAIN conversation'
    PROVE  Stands(l)'
BY DEF Stands, StandsAt

\* Nothing but the conversation moves, and maybe the number of those that await an answer.
LEMMA ListKept ==
    ASSUME ListInv, UNCHANGED <<run, request, sent, job>>,
           DOMAIN conversation \subseteq DOMAIN conversation'
    PROVE  ListInv'
<1>1. run \in {"listed", "compressing", "going"} => Stands(sent.built)'
  BY StandsKept DEF ListInv
<1>2. QED
  BY <1>1 DEF ListInv, Busy
StandInv == RequestInv /\ ListInv

\* The run is over: only the conversation must be what it is said to be.
LEMMA IdleStands ==
    ASSUME ListInv, conversation' \in Seq(Kinds), posted' \in 0..MaxPosts, run' = "idle",
           \/ job' \in {[job EXCEPT !["run"] = NoJob], [a \in Who |-> NoJob]}
           \/ job' = job /\ run = "going"
    PROVE  StandInv'
<1>1. job' = [a \in Who |-> job'[a]] /\ ~Busy("run")'
  BY DEF ListInv, Busy, Who
<1>2. RequestInv'
  BY DEF RequestInv
<1>3. ListInv'
  BY <1>1 DEF ListInv
<1>4. QED
  BY <1>2, <1>3 DEF StandInv

LEMMA AskStands ==
    ASSUME StandInv, NEW kind \in UserKinds, Ask(kind)
    PROVE  StandInv'
<1>1. conversation \in Seq(Kinds) /\ posted \in 0..MaxPosts /\ kind \in AllUserKinds /\ kind \in Kinds
  BY KindsAssumption DEF StandInv, RequestInv, Kinds
<1>2. /\ run' = "asked" /\ request' = Len(conversation) + 1 /\ Add(kind) /\ run = "idle"
      /\ UNCHANGED <<sent, job, posted>>
  BY DEF Ask
<1>3. /\ conversation' \in Seq(Kinds) /\ request' \in DOMAIN conversation'
      /\ conversation'[request'] = kind
  BY <1>1, <1>2, AddFacts
<1>4. \A j \in DOMAIN conversation' : ~(j > request')
  BY <1>1, <1>2 DEF Add
<1>5. NoneLater(conversation', request') /\ Later(conversation', request') = {}
  BY <1>4 DEF NoneLater, Later
<1>6. Cardinality(Later(conversation', request')) + posted' <= MaxPosts
  <2>1. Cardinality(Later(conversation', request')) = 0
    BY <1>5, FS_EmptySet
  <2>2. posted' \in Nat /\ posted' <= MaxPosts
    BY <1>1, <1>2, BoundAssumption
  <2>3. QED
    BY <2>1, <2>2
<1>7. RequestInv'
  BY <1>1, <1>2, <1>3, <1>5, <1>6 DEF RequestInv
<1>8. ListInv'
  BY <1>2 DEF StandInv, ListInv, Busy
<1>9. QED
  BY <1>7, <1>8 DEF StandInv

LEMMA BeginStandsStep ==
    ASSUME StandInv, NEW resumed \in BOOLEAN, Begin(resumed)
    PROVE  StandInv'
<1> DEFINE l == ModelMessages(conversation) \o (IF resumed THEN <<Recovery>> ELSE <<>>)
<1>1. /\ run = "asked" /\ sent' = [built |-> l, form |-> "listed", summary |-> {}]
      /\ run' = "listed" /\ UNCHANGED <<conversation, request, job, posted>>
  BY DEF Begin
<1>2. Stands(l)
  BY <1>1, BeginStands DEF StandInv
<1> HIDE DEF l
<1>3. sent'.built = l /\ request' = request /\ conversation' = conversation
  BY <1>1
<1>4. Stands(sent.built)'
  BY <1>2, <1>3 DEF Stands, StandsAt
<1>5. ListInv'
  BY <1>1, <1>4 DEF StandInv, ListInv, Busy
<1>6. RequestInv'
  BY <1>1 DEF StandInv, RequestInv
<1>7. QED
  BY <1>5, <1>6 DEF StandInv

\* A compression, whoever began it, leaves the list as it is.
LEMMA CompressedStands ==
    ASSUME StandInv, NEW a \in Who, NEW l, NEW source, NEW text, NEW form,
           Compressed(a, l, source, text, form),
           a = "run" => l = sent.built /\ run \in {"listed", "compressing"},
           UNCHANGED <<conversation, request, posted>>,
           job' = [job EXCEPT ![a] = NoJob] \/ (job' = job /\ (a = "run" => run = "listed"))
    PROVE  StandInv'
<1>1. sent'.built = sent.built /\ (IF a = "run" THEN run' = "going" ELSE run' = run)
  BY DEF Compressed
<1>2. RequestInv'
  BY <1>1 DEF StandInv, RequestInv
<1>3. run' \in {"listed", "compressing", "going"} => Stands(sent.built)'
  BY <1>1 DEF StandInv, ListInv, Stands, StandsAt
<1>4. job' = [b \in Who |-> job'[b]]
  BY DEF StandInv, ListInv
<1>5. Busy("run")' => a # "run" /\ job'["run"] = job["run"]
  BY DEF StandInv, ListInv, Busy, Who
<1>6. Busy("run")' => run' = "compressing" /\ job'["run"].built = sent'.built
  BY <1>1, <1>5 DEF StandInv, ListInv, Busy
<1>7. QED
  BY <1>2, <1>3, <1>4, <1>6 DEF StandInv, ListInv

LEMMA CompressStands ==
    ASSUME StandInv, NEW a \in Who, NEW l, Compress(a, l),
           a = "run" => l = sent.built /\ run = "listed",
           UNCHANGED <<conversation, request, posted>>
    PROVE  StandInv'
<1> DEFINE source == Durable(Older(l))
<1>1. CASE New(source) = {}
  <2>1. Compressed(a, l, source, Seed(source), "compressed") /\ UNCHANGED job
    BY <1>1 DEF Compress
  <2> HIDE DEF source
  <2>2. QED
    BY <2>1, CompressedStands
<1>2. CASE New(source) # {}
  <2>1. /\ job' = [job EXCEPT ![a] = [built |-> l, seed |-> Seed(source),
                                      new |-> New(source), source |-> source]]
        /\ run' = IF a = "run" THEN "compressing" ELSE run
        /\ sent' = sent
    BY <1>2 DEF Compress
  <2> HIDE DEF source
  <2>2. job' = [b \in Who |-> job'[b]]
    BY <2>1 DEF StandInv, ListInv
  <2>3. Busy("run")' => run' = "compressing" /\ job'["run"].built = sent'.built
    BY <2>1 DEF StandInv, ListInv, Busy, Who
  <2>4. run' \in {"listed", "compressing", "going"} => Stands(sent.built)'
    BY <2>1 DEF StandInv, ListInv, Stands, StandsAt
  <2>5. RequestInv'
    BY <2>1 DEF StandInv, RequestInv
  <2>6. QED
    BY <2>2, <2>3, <2>4, <2>5 DEF StandInv, ListInv
<1>3. QED
  BY <1>1, <1>2

LEMMA FitStands ==
    ASSUME StandInv, NEW long \in BOOLEAN, Fit(long)
    PROVE  StandInv'
<1>1. run = "listed" /\ UNCHANGED <<conversation, request, posted>> /\ "run" \in Who
  BY DEF Fit, Who
<1>2. CASE long /\ Len(sent.built) > Keep
  <2>1. Compress("run", sent.built)
    BY <1>2 DEF Fit
  <2>2. QED
    BY <1>1, <2>1, CompressStands
<1>3. CASE ~(long /\ Len(sent.built) > Keep)
  <2>1. sent'.built = sent.built /\ run' = "going" /\ job' = job
    BY <1>3 DEF Fit
  <2>2. Stands(sent.built)'
    BY <1>1, <2>1 DEF StandInv, ListInv, Stands, StandsAt
  <2>3. ListInv'
    BY <1>1, <2>1, <2>2 DEF StandInv, ListInv, Busy
  <2>4. RequestInv'
    BY <1>1, <2>1 DEF StandInv, RequestInv
  <2>5. QED
    BY <2>3, <2>4 DEF StandInv
<1>4. QED
  BY <1>2, <1>3

LEMMA SummarizedStands ==
    ASSUME StandInv, NEW a \in Who, Summarized(a)
    PROVE  StandInv'
<1>1. /\ job' = [job EXCEPT ![a] = NoJob] /\ UNCHANGED <<conversation, request, posted>>
      /\ a = "run" => job[a].built = sent.built /\ run = "compressing"
  BY DEF Summarized, StandInv, ListInv
<1>2. PICK text, form : Compressed(a, job[a].built, job[a].source, text, form)
  BY DEF Summarized
<1>3. PICK l : l = job[a].built
  OBVIOUS
<1>4. PICK source : source = job[a].source
  OBVIOUS
<1>5. Compressed(a, l, source, text, form)
  BY <1>2, <1>3, <1>4
<1>6. a = "run" => l = sent.built /\ run \in {"listed", "compressing"}
  BY <1>1, <1>3
<1>7. QED
  BY <1>1, <1>5, <1>6, CompressedStands

\* An answer to a request that came before, or guidance, is added while the run is
\* at work; or nothing is at work.
LEMMA AddStands ==
    ASSUME StandInv, NEW kind \in Kinds, Add(kind), UNCHANGED <<run, request, sent, job>>,
           posted' \in 0..MaxPosts,
           run # "idle" => /\ kind \notin AllUserKinds \cup {"task"}
                           /\ (kind = "guidance" /\ posted' = posted) \/ posted' = posted - 1
    PROVE  StandInv'
<1>1. /\ conversation \in Seq(Kinds) /\ posted \in 0..MaxPosts
      /\ run # "idle" =>
            /\ request \in DOMAIN conversation /\ conversation[request] \in AllUserKinds
            /\ Cardinality(Later(conversation, request)) + posted <= MaxPosts
  BY DEF StandInv, RequestInv
<1>2. /\ conversation' \in Seq(Kinds) /\ DOMAIN conversation \subseteq DOMAIN conversation'
      /\ \A j \in DOMAIN conversation : conversation'[j] = conversation[j]
  BY <1>1, AddFacts
<1>3. ListInv'
  BY <1>2, ListKept DEF StandInv
<1>4. ASSUME run # "idle"
      PROVE  /\ NoneLater(conversation', request)
             /\ Cardinality(Later(conversation', request)) + posted' <= MaxPosts
  <2>1. /\ NoneLater(conversation', request)
        /\ kind = "guidance" => Later(conversation', request) = Later(conversation, request)
        /\ Cardinality(Later(conversation', request)) <= Cardinality(Later(conversation, request)) + 1
    BY <1>4, AddLater DEF StandInv
  <2>2. /\ Cardinality(Later(conversation, request)) \in Nat
        /\ Cardinality(Later(conversation', request)) \in Nat
        /\ posted \in Nat /\ MaxPosts \in Nat
    BY <1>1, <1>2, LaterFinite, BoundAssumption
  <2>3. CASE kind = "guidance" /\ posted' = posted
    BY <1>1, <1>4, <2>1, <2>3
  <2>4. CASE posted' = posted - 1
    BY <1>1, <1>4, <2>1, <2>2, <2>4
  <2>5. QED
    BY <1>4, <2>1, <2>3, <2>4
<1>5. RequestInv'
  BY <1>1, <1>2, <1>4 DEF RequestInv
<1>6. QED
  BY <1>3, <1>5 DEF StandInv

LEMMA InitStands == Init => StandInv
BY BoundAssumption DEF Init, StandInv, RequestInv, ListInv, Busy, Who

LEMMA NextStands == StandInv /\ [Next]_vars => StandInv'
<1> SUFFICES ASSUME StandInv, [Next]_vars
             PROVE  StandInv'
  OBVIOUS
<1>1. conversation \in Seq(Kinds) /\ posted \in 0..MaxPosts /\ MaxPosts \in Nat
  BY BoundAssumption DEF StandInv, RequestInv
<1>2. UserKinds \subseteq Kinds /\ AnswerKinds \subseteq Kinds /\ "guidance" \in Kinds
  BY KindsAssumption DEF Kinds
<1>3. ASSUME NEW kind \in UserKinds, Post(kind)
      PROVE  StandInv'
  <2>1. /\ run = "idle" /\ posted < MaxPosts /\ posted' = posted + 1 /\ Add(kind)
        /\ UNCHANGED <<run, request, sent, job>>
    BY <1>3 DEF Post
  <2>2. posted' \in 0..MaxPosts
    BY <1>1, <2>1
  <2>3. QED
    BY <1>2, <2>1, <2>2, AddStands
<1>4. ASSUME NEW kind \in AnswerKinds \ {"task"}, Reply(kind)
      PROVE  StandInv'
  <2>1. /\ posted > 0 /\ posted' = posted - 1 /\ Add(kind)
        /\ UNCHANGED <<run, request, sent, job>>
    BY <1>4 DEF Reply
  <2>2. posted' \in 0..MaxPosts
    BY <1>1, <2>1
  <2>3. kind \notin AllUserKinds \cup {"task"}
    BY KindsAssumption DEF AllUserKinds, AllAnswerKinds
  <2>4. QED
    BY <1>2, <2>1, <2>2, <2>3, AddStands
<1>5. CASE Guide
  <2>1. Add("guidance") /\ UNCHANGED <<run, request, sent, job, posted>>
    BY <1>5 DEF Guide
  <2>2. QED
    BY <1>1, <1>2, <2>1, AddStands DEF AllUserKinds
<1>6. ASSUME NEW kind \in AnswerKinds, Answer(kind)
      PROVE  StandInv'
  <2>1. Add(kind) /\ run = "going" /\ run' = "idle" /\ UNCHANGED <<job, posted>>
    BY <1>6 DEF Answer
  <2>2. conversation' \in Seq(Kinds)
    BY <1>1, <1>2, <2>1, AddFacts
  <2>3. QED
    BY <1>1, <2>1, <2>2, IdleStands DEF StandInv
<1>7. CASE End
  BY <1>1, <1>7, IdleStands DEF End, StandInv
<1>8. CASE Restart
  BY <1>1, <1>8, IdleStands DEF Restart, StandInv
<1>9. ASSUME NEW a \in Compressors, CompressNow(a)
      PROVE  StandInv'
  <2> DEFINE l == ModelMessages(conversation)
  <2>1. Compress(a, l) /\ a \in Who /\ a # "run" /\ UNCHANGED <<conversation, request, posted>>
    BY <1>9, CompressorsAssumption DEF CompressNow, Who
  <2> HIDE DEF l
  <2>2. QED
    BY <2>1, CompressStands
<1>10. CASE UNCHANGED vars
  <2>1. RequestInv' /\ Stands(sent.built)' = Stands(sent.built)
    BY <1>10 DEF vars, StandInv, RequestInv, Stands, StandsAt
  <2>2. QED
    BY <1>10, <2>1 DEF vars, StandInv, ListInv, Busy
<1>11. QED
  BY <1>3, <1>4, <1>5, <1>6, <1>7, <1>8, <1>9, <1>10, AskStands, BeginStandsStep, FitStands,
     SummarizedStands DEF Next

\* The request a run works on is in what its model is shown, as it was written, as
\* the last request and behind the boundary, whatever was cleaned or summarised and
\* whatever other requests and users add meanwhile, if the window has room for the
\* answers that may be on their way when a run begins.
THEOREM RequestStays ==
    ASSUME Keep >= MaxPosts + 3
    PROVE  Spec => []CurrentRequestStands
<1>1. StandInv => CurrentRequestStands
  BY StandsGoing DEF StandInv
<1>2. QED
  BY <1>1, InitStands, NextStands, PTL DEF Spec
=============================================================================
