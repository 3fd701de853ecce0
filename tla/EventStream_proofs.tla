------------------------- MODULE EventStream_proofs -------------------------
(***************************************************************************)
(* Proofs about EventStream, for every number of handlers, every size of   *)
(* the queues and of the log, and every run of events.                     *)
(*                                                                         *)
(* SentInOrder is not inductive: what a client will read next comes from   *)
(* the log or from its queue.  OrderInv says that both are in order, that  *)
(* no id is ahead of the latest event, that what waits in a queue is later *)
(* than all that was sent, and that only subscribers have something there. *)
(* The second part is about the last event of a run (EndInv), the third    *)
(* about types and about the end that a watcher waits for (ClosingInv).    *)
(***************************************************************************)
EXTENDS EventStream, TLAPS

Increasing(q) == \A i, j \in 1..Len(q) : i < j => q[i] < q[j]

\* A sequence of ids of events that have been emitted, in order.
InOrder(q) == Increasing(q) /\ \A i \in 1..Len(q) : q[i] <= emitted

\* What waits in a queue is in order, and later than all that was sent.
Waiting(q, told) ==
    /\ \A i, j \in 1..Len(q) : i < j => q[i].id < q[j].id
    /\ \A i \in 1..Len(q) : q[i].id <= emitted
    /\ \A i \in 1..Len(told), j \in 1..Len(q) : told[i] < q[j].id

OrderInv ==
    /\ emitted \in Nat
    /\ log \in Seq(Nat) /\ InOrder(log)
    /\ where \in [Streams -> {"idle", "replaying", "waiting", "flushing", "gone"}]
    /\ sent \in [Streams -> Seq(Nat)]
    /\ queue \in [Streams -> Seq(Event)]
    /\ \A s \in Streams : /\ InOrder(sent[s]) /\ Waiting(queue[s], sent[s])
                          /\ Subscribed(s) \/ queue[s] = << >>

-----------------------------------------------------------------------------
(* Sequences. *)

LEMMA AppendIncreases ==
    ASSUME NEW q \in Seq(Nat), NEW x \in Nat, Increasing(q), \A i \in 1..Len(q) : q[i] < x
    PROVE  Increasing(Append(q, x)) /\ Append(q, x) \in Seq(Nat)
           /\ \A i \in 1..Len(Append(q, x)) : Append(q, x)[i] <= x
BY SMTT(40) DEF Increasing

\* A part of an increasing sequence increases.
LEMMA PartIncreases ==
    ASSUME NEW q \in Seq(Nat), Increasing(q), NEW m \in Nat \ {0}
    PROVE  /\ SubSeq(q, m, Len(q)) \in Seq(Nat)
           /\ Increasing(SubSeq(q, m, Len(q)))
           /\ \A i \in 1..Len(SubSeq(q, m, Len(q))) :
                 \E j \in 1..Len(q) : SubSeq(q, m, Len(q))[i] = q[j]
<1> DEFINE p == SubSeq(q, m, Len(q))
<1>1. CASE m > Len(q)
  <2>1. p = << >>
    BY <1>1
  <2> QED BY <2>1 DEF Increasing
<1>2. CASE m <= Len(q)
  <2>1. /\ p \in Seq(Nat) /\ Len(p) = Len(q) - m + 1
        /\ \A i \in 1..Len(p) : p[i] = q[m + i - 1] /\ m + i - 1 \in 1..Len(q)
    BY <1>2
  <2>2. Increasing(p)
    BY SMTT(40), <2>1 DEF Increasing
  <2> QED BY <2>1, <2>2
<1> QED BY <1>1, <1>2

LEMMA AppendOffered ==
    ASSUME NEW q \in Seq(Event), NEW e \in Event, NEW told \in Seq(Nat),
           \A i, j \in 1..Len(q) : i < j => q[i].id < q[j].id,
           \A i \in 1..Len(q) : q[i].id < e.id,
           \A i \in 1..Len(told) : told[i] < e.id,
           \A i \in 1..Len(told), j \in 1..Len(q) : told[i] < q[j].id
    PROVE  /\ Append(q, e) \in Seq(Event)
           /\ \A i, j \in 1..Len(Append(q, e)) : i < j => Append(q, e)[i].id < Append(q, e)[j].id
           /\ \A i \in 1..Len(Append(q, e)) : Append(q, e)[i].id <= e.id
           /\ \A i \in 1..Len(told), j \in 1..Len(Append(q, e)) : told[i] < Append(q, e)[j].id
<1> DEFINE p == Append(q, e)
<1>1. /\ p \in Seq(Event) /\ Len(q) \in Nat /\ Len(p) = Len(q) + 1 /\ p[Len(p)] = e
      /\ \A i \in 1..Len(q) : p[i] = q[i]
  OBVIOUS
<1>2. e.id \in Nat /\ \A i \in 1..Len(q) : q[i].id \in Nat
  <2>1. \A i \in 1..Len(q) : q[i] \in Event
    OBVIOUS
  <2> QED BY <2>1 DEF Event
<1> HIDE DEF p
<1>3. \A i, j \in 1..Len(p) : i < j => p[i].id < p[j].id
  <2> TAKE i, j \in 1..Len(p)
  <2> HAVE i < j
  <2>1. i \in 1..Len(q) /\ (j \in 1..Len(q) \/ j = Len(p))
    BY <1>1
  <2> QED BY <1>1, <2>1
<1>4. \A i \in 1..Len(p) : p[i].id <= e.id
  <2> TAKE i \in 1..Len(p)
  <2>1. i \in 1..Len(q) \/ i = Len(p)
    BY <1>1
  <2> QED BY SMTT(40), <1>1, <1>2, <2>1
<1>5. \A i \in 1..Len(told), j \in 1..Len(p) : told[i] < p[j].id
  <2> TAKE i \in 1..Len(told), j \in 1..Len(p)
  <2>1. j \in 1..Len(q) \/ j = Len(p)
    BY <1>1
  <2> QED BY <1>1, <2>1
<1> QED BY <1>1, <1>3, <1>4, <1>5 DEF p

\* A queue that is offered the latest event stays in order, full or not.
LEMMA OfferInOrder ==
    ASSUME NEW q \in Seq(Event), NEW e \in Event, NEW told \in Seq(Nat), LimitsAssumption,
           \A i, j \in 1..Len(q) : i < j => q[i].id < q[j].id,
           \A i \in 1..Len(q) : q[i].id < e.id,
           \A i \in 1..Len(told) : told[i] < e.id,
           \A i \in 1..Len(told), j \in 1..Len(q) : told[i] < q[j].id
    PROVE  /\ Offer(q, e) \in Seq(Event)
           /\ \A i, j \in 1..Len(Offer(q, e)) : i < j => Offer(q, e)[i].id < Offer(q, e)[j].id
           /\ \A i \in 1..Len(Offer(q, e)) : Offer(q, e)[i].id <= e.id
           /\ \A i \in 1..Len(told), j \in 1..Len(Offer(q, e)) : told[i] < Offer(q, e)[j].id
<1>1. CASE Len(q) < QueueSize
  <2>1. Offer(q, e) = Append(q, e)
    BY <1>1 DEF Offer
  <2> QED BY <2>1, AppendOffered
<1>2. CASE ~(Len(q) < QueueSize)
  <2> DEFINE t == Tail(q)
  <2>1. Offer(q, e) = Append(t, e)
    BY <1>2 DEF Offer
  <2>2. q # << >>
    BY <1>2, LimitsAssumption
  <2>3. /\ t \in Seq(Event) /\ Len(t) = Len(q) - 1
        /\ \A i \in 1..Len(t) : t[i] = q[i + 1] /\ i + 1 \in 1..Len(q)
    BY <2>2
  <2> HIDE DEF t
  <2>4. \A i \in 1..Len(t) : t[i].id < e.id
    BY <2>3
  <2>5. \A i, j \in 1..Len(t) : i < j => t[i].id < t[j].id
    <3> TAKE i, j \in 1..Len(t)
    <3> HAVE i < j
    <3>1. t[i] = q[i + 1] /\ t[j] = q[j + 1] /\ i + 1 \in 1..Len(q) /\ j + 1 \in 1..Len(q)
      BY <2>3
    <3> QED BY <3>1
  <2>6. \A i \in 1..Len(told), j \in 1..Len(t) : told[i] < t[j].id
    BY <2>3
  <2> QED BY <2>1, <2>3, <2>4, <2>5, <2>6, AppendOffered
<1> QED BY <1>1, <1>2

\* What a handler takes from its queue is later than all it has told, and
\* earlier than all that is left.
LEMMA TakeInOrder ==
    ASSUME NEW q \in Seq(Event), q # << >>, NEW told \in Seq(Nat),
           emitted \in Nat, InOrder(told), Waiting(q, told)
    PROVE  /\ Append(told, Head(q).id) \in Seq(Nat) /\ InOrder(Append(told, Head(q).id))
           /\ Tail(q) \in Seq(Event) /\ Waiting(Tail(q), Append(told, Head(q).id))
<1> DEFINE n == Append(told, q[1].id)
           t == Tail(q)
<1>1. q[1] \in Event /\ 1 \in 1..Len(q) /\ Head(q) = q[1]
  OBVIOUS
<1>2. q[1].id \in Nat /\ q[1].id <= emitted /\ \A i \in 1..Len(told) : told[i] < q[1].id
  BY <1>1 DEF Event, Waiting
<1>3. n \in Seq(Nat) /\ Increasing(n) /\ \A i \in 1..Len(n) : n[i] <= q[1].id
  BY <1>2, AppendIncreases DEF InOrder
<1>4. /\ t \in Seq(Event) /\ Len(t) = Len(q) - 1 /\ Len(q) \in Nat
      /\ \A i \in 1..Len(t) : t[i] = q[i + 1] /\ i + 1 \in 1..Len(q)
  OBVIOUS
<1>5. \A i \in 1..Len(n) : n[i] \in Nat
  BY <1>3
<1>6. \A i \in 1..Len(q) : q[i].id \in Nat
  <2>1. \A i \in 1..Len(q) : q[i] \in Event
    OBVIOUS
  <2> QED BY <2>1 DEF Event
<1> HIDE DEF n, t
<1>7. InOrder(n)
  <2> SUFFICES ASSUME NEW i \in 1..Len(n) PROVE n[i] <= emitted
    BY <1>3 DEF InOrder
  <2> QED BY <1>2, <1>3, <1>5
<1>8. Waiting(t, n)
  <2>1. \A i, j \in 1..Len(t) : i < j => t[i].id < t[j].id
    <3> TAKE i, j \in 1..Len(t)
    <3> HAVE i < j
    <3>1. t[i] = q[i + 1] /\ t[j] = q[j + 1] /\ i + 1 \in 1..Len(q) /\ j + 1 \in 1..Len(q)
      BY <1>4
    <3> QED BY <3>1 DEF Waiting
  <2>2. \A i \in 1..Len(t) : t[i].id <= emitted
    BY <1>4 DEF Waiting
  <2>3. \A i \in 1..Len(n), j \in 1..Len(t) : n[i] < t[j].id
    <3> TAKE i \in 1..Len(n), j \in 1..Len(t)
    <3>1. t[j] = q[j + 1] /\ j + 1 \in 1..Len(q) /\ 1 < j + 1
      BY <1>4
    <3>2. q[1].id < t[j].id
      BY <1>1, <3>1 DEF Waiting
    <3>3. t[j].id \in Nat
      BY <1>6, <3>1
    <3> QED BY SMTT(40), <1>2, <1>3, <1>5, <3>2, <3>3
  <2> QED BY <2>1, <2>2, <2>3 DEF Waiting
<1> QED BY <1>1, <1>3, <1>4, <1>7, <1>8 DEF n, t

-----------------------------------------------------------------------------
(* The steps. *)

LEMMA EmitInOrder ==
    ASSUME OrderInv, NEW kind \in Kinds, Emit(kind)
    PROVE  OrderInv'
<1> DEFINE id == emitted + 1
           e == [id |-> id, kind |-> kind]
<1>1. /\ emitted' = id /\ id \in Nat /\ emitted \in Nat
      /\ where' = where /\ sent' = sent /\ e \in Event /\ e.id = id
  BY DEF Emit, OrderInv, Event
<1>2. log' \in Seq(Nat) /\ InOrder(log)'
  <2>1. \A i \in 1..Len(log) : log[i] \in Nat /\ log[i] <= emitted
    BY DEF OrderInv, InOrder
  <2>2. CASE log' = log
    <3>1. \A i \in 1..Len(log) : log[i] <= id
      BY <2>1, <1>1
    <3> QED BY <2>2, <3>1, <1>1 DEF OrderInv, InOrder, Increasing
  <2>3. CASE log' = Kept(Append(log, id))
    <3> DEFINE a == Append(log, id)
    <3>1. a \in Seq(Nat) /\ Increasing(a) /\ \A i \in 1..Len(a) : a[i] <= id
      <4>1. \A i \in 1..Len(log) : log[i] < id
        BY <2>1, <1>1
      <4>2. log \in Seq(Nat) /\ Increasing(log)
        BY DEF OrderInv, InOrder
      <4> QED BY <4>1, <4>2, <1>1, AppendIncreases
    <3> HIDE DEF a
    <3>2. PICK m \in Nat \ {0} : Kept(a) = SubSeq(a, m, Len(a))
      <4>1. Len(a) \in Nat /\ KeepEvents \in Nat
        BY <3>1, LimitsAssumption
      <4>2. 1 + (IF Len(a) > KeepEvents THEN Len(a) - KeepEvents ELSE 0) \in Nat \ {0}
        BY <4>1
      <4> QED BY <4>2 DEF Kept
    <3>3. /\ Kept(a) \in Seq(Nat) /\ Increasing(Kept(a))
          /\ \A i \in 1..Len(Kept(a)) : \E j \in 1..Len(a) : Kept(a)[i] = a[j]
      BY <3>1, <3>2, PartIncreases
    <3>4. log' = Kept(a)
      BY <2>3 DEF a
    <3>5. \A i \in 1..Len(log') : log'[i] <= id
      BY <3>1, <3>3, <3>4
    <3> QED BY <3>3, <3>4, <3>5, <1>1 DEF InOrder, Increasing
  <2> QED BY <2>2, <2>3 DEF Emit
<1>3. ASSUME NEW s \in Streams
      PROVE  /\ queue'[s] \in Seq(Event) /\ InOrder(sent[s])' /\ Waiting(queue[s], sent[s])'
             /\ Subscribed(s)' \/ queue'[s] = << >>
  <2>1. /\ sent[s] \in Seq(Nat) /\ queue[s] \in Seq(Event)
        /\ InOrder(sent[s]) /\ Waiting(queue[s], sent[s]) /\ (Subscribed(s) \/ queue[s] = << >>)
    BY DEF OrderInv
  <2>2. \A i \in 1..Len(sent[s]) : sent[s][i] \in Nat
    BY <2>1
  <2>3. \A i \in 1..Len(queue[s]) : queue[s][i].id \in Nat
    <3>1. \A i \in 1..Len(queue[s]) : queue[s][i] \in Event
      BY <2>1
    <3> QED BY <3>1 DEF Event
  <2>4. /\ \A i \in 1..Len(sent[s]) : sent[s][i] < id
        /\ \A i \in 1..Len(queue[s]) : queue[s][i].id < id
    BY SMTT(40), <1>1, <2>1, <2>2, <2>3 DEF InOrder, Waiting
  <2>5. InOrder(sent[s])'
    BY <1>1, <2>1, <2>2, <2>4 DEF InOrder, Increasing
  <2>6. CASE Subscribed(s)
    <3>1. queue'[s] = Offer(queue[s], e)
      BY <2>6 DEF Emit
    <3>2. /\ Offer(queue[s], e) \in Seq(Event)
          /\ \A i, j \in 1..Len(Offer(queue[s], e)) :
                i < j => Offer(queue[s], e)[i].id < Offer(queue[s], e)[j].id
          /\ \A i \in 1..Len(Offer(queue[s], e)) : Offer(queue[s], e)[i].id <= e.id
          /\ \A i \in 1..Len(sent[s]), j \in 1..Len(Offer(queue[s], e)) :
                sent[s][i] < Offer(queue[s], e)[j].id
      <4> HIDE DEF e
      <4> QED BY <1>1, <2>1, <2>4, LimitsAssumption, OfferInOrder DEF Waiting
    <3>3. Waiting(queue[s], sent[s])'
      BY <1>1, <3>1, <3>2 DEF Waiting
    <3> QED BY <1>1, <2>5, <2>6, <3>1, <3>2, <3>3 DEF Subscribed
  <2>7. CASE ~Subscribed(s)
    <3>1. queue'[s] = << >>
      BY <2>1, <2>7 DEF Emit
    <3> QED BY <3>1, <2>5 DEF Waiting
  <2> QED BY <2>6, <2>7
<1>4. queue' \in [Streams -> Seq(Event)]
  <2>1. \A s \in Streams : queue'[s] \in Seq(Event)
    BY <1>3
  <2>2. queue' = [s \in Streams |-> queue'[s]]
    BY DEF Emit
  <2> QED BY <2>1, <2>2
<1> QED BY <1>1, <1>2, <1>3, <1>4 DEF OrderInv

\* A handler's step concerns its own queue and what it has sent.
LEMMA OthersInOrder ==
    ASSUME OrderInv, NEW s \in Streams, UNCHANGED runVars,
           NEW place \in {"idle", "replaying", "waiting", "flushing", "gone"},
           NEW q \in Seq(Event), NEW told \in Seq(Nat),
           where' = [where EXCEPT ![s] = place],
           queue' = [queue EXCEPT ![s] = q], sent' = [sent EXCEPT ![s] = told],
           InOrder(told), Waiting(q, told), place \in {"waiting", "flushing"} \/ q = << >>
    PROVE  OrderInv'
<1>1. /\ where' \in [Streams -> {"idle", "replaying", "waiting", "flushing", "gone"}]
      /\ sent' \in [Streams -> Seq(Nat)] /\ queue' \in [Streams -> Seq(Event)]
  BY DEF OrderInv
<1>2. emitted' = emitted /\ log' = log
  BY DEF runVars
<1>3. ASSUME NEW o \in Streams
      PROVE  InOrder(sent[o])' /\ Waiting(queue[o], sent[o])' /\ (Subscribed(o)' \/ queue'[o] = << >>)
  <2>1. CASE o = s
    <3>1. sent'[o] = told /\ queue'[o] = q /\ where'[o] = place
      BY <2>1 DEF OrderInv
    <3> QED BY <3>1, <1>2 DEF InOrder, Increasing, Waiting, Subscribed
  <2>2. CASE o # s
    <3>1. sent'[o] = sent[o] /\ queue'[o] = queue[o] /\ where'[o] = where[o]
      BY <2>2 DEF OrderInv
    <3>2. InOrder(sent[o]) /\ Waiting(queue[o], sent[o]) /\ (Subscribed(o) \/ queue[o] = << >>)
      BY DEF OrderInv
    <3> QED BY <3>1, <3>2, <1>2 DEF InOrder, Increasing, Waiting, Subscribed
  <2> QED BY <2>1, <2>2
<1>4. InOrder(log)'
  BY <1>2 DEF OrderInv, InOrder, Increasing
<1> QED BY <1>1, <1>2, <1>3, <1>4 DEF OrderInv

LEMMA OpenInOrder ==
    ASSUME OrderInv, NEW s \in Watchers, NEW cursor \in Nat, Open(s, cursor)
    PROVE  OrderInv'
<1> DEFINE told == SubSeq(log, cursor + 1, Len(log))
<1>1. s \in Streams /\ queue[s] = << >>
  BY DEF Streams, OrderInv, Open, Subscribed
<1>2. /\ told \in Seq(Nat) /\ Increasing(told)
      /\ \A i \in 1..Len(told) : \E j \in 1..Len(log) : told[i] = log[j]
  <2>1. log \in Seq(Nat) /\ Increasing(log) /\ cursor + 1 \in Nat \ {0}
    BY DEF OrderInv, InOrder
  <2> QED BY <2>1, PartIncreases
<1> HIDE DEF told
<1>3. InOrder(told)
  BY <1>2 DEF OrderInv, InOrder
<1>4. Waiting(<< >>, told) /\ << >> \in Seq(Event)
  BY DEF Waiting
<1>5. /\ where' = [where EXCEPT ![s] = "replaying"] /\ UNCHANGED runVars
      /\ queue' = queue /\ sent' = [sent EXCEPT ![s] = told]
  BY DEF Open, told
<1>6. queue' = [queue EXCEPT ![s] = << >>]
  BY <1>1, <1>5 DEF OrderInv
<1> QED BY <1>1, <1>2, <1>3, <1>4, <1>5, <1>6, OthersInOrder

LEMMA TakeKeepsOrder ==
    ASSUME OrderInv, NEW s \in Streams, Take(s)
    PROVE  OrderInv'
<1>1. /\ sent[s] \in Seq(Nat) /\ queue[s] \in Seq(Event) /\ queue[s] # << >>
      /\ InOrder(sent[s]) /\ Waiting(queue[s], sent[s]) /\ emitted \in Nat
  BY DEF OrderInv, Take
<1>2. /\ Append(sent[s], Head(queue[s]).id) \in Seq(Nat)
      /\ InOrder(Append(sent[s], Head(queue[s]).id))
      /\ Tail(queue[s]) \in Seq(Event)
      /\ Waiting(Tail(queue[s]), Append(sent[s], Head(queue[s]).id))
  BY <1>1, TakeInOrder
<1>3. /\ sent' = [sent EXCEPT ![s] = Append(sent[s], Head(queue[s]).id)]
      /\ queue' = [queue EXCEPT ![s] = Tail(queue[s])]
      /\ where' = [where EXCEPT ![s] = "flushing"] /\ UNCHANGED runVars
  BY DEF Take
<1> QED BY <1>2, <1>3, OthersInOrder

\* The other steps of a handler send nothing; a handler that leaves empties
\* its queue, and one that has been replaying had none.
LEMMA MoveInOrder ==
    ASSUME OrderInv, NEW s \in Streams,
           Replayed(s) \/ Flushed(s) \/ FollowerEnds(s) \/ WatcherFails(s)
    PROVE  OrderInv'
<1>1. PICK place \in {"waiting", "gone"} : where' = [where EXCEPT ![s] = place] /\
         (place = "waiting" => queue' = queue) /\
         (place = "gone" => queue' = queue \/ queue' = [queue EXCEPT ![s] = << >>]) /\
         (place = "gone" /\ queue' = queue => queue[s] = << >> \/ queue' = [queue EXCEPT ![s] = << >>])
  BY DEF Replayed, Flushed, FollowerEnds, WatcherFails, Leave, OrderInv, Subscribed
<1>2. sent' = sent /\ UNCHANGED runVars
  BY DEF Replayed, Flushed, FollowerEnds, WatcherFails
<1>3. /\ sent[s] \in Seq(Nat) /\ queue[s] \in Seq(Event)
      /\ InOrder(sent[s]) /\ Waiting(queue[s], sent[s])
      /\ sent = [sent EXCEPT ![s] = sent[s]] /\ queue = [queue EXCEPT ![s] = queue[s]]
  BY DEF OrderInv
<1>4. Waiting(<< >>, sent[s]) /\ << >> \in Seq(Event)
  BY DEF Waiting
<1>5. CASE place = "waiting"
  <2>1. queue' = [queue EXCEPT ![s] = queue[s]] /\ sent' = [sent EXCEPT ![s] = sent[s]]
    BY <1>1, <1>2, <1>3, <1>5
  <2> QED BY <1>1, <1>2, <1>3, <1>5, <2>1, OthersInOrder
<1>6. CASE place = "gone"
  <2>1. queue' = [queue EXCEPT ![s] = << >>] /\ sent' = [sent EXCEPT ![s] = sent[s]]
    BY <1>1, <1>2, <1>3, <1>6
  <2> QED BY <1>1, <1>2, <1>3, <1>4, <1>6, <2>1, OthersInOrder
<1> QED BY <1>5, <1>6

LEMMA NextInOrder == OrderInv /\ [Next]_vars => OrderInv'
<1> SUFFICES ASSUME OrderInv, [Next]_vars PROVE OrderInv'
  OBVIOUS
<1>1. ASSUME NEW kind \in Kinds, Progress(kind) \/ Close(kind) PROVE OrderInv'
  BY <1>1, EmitInOrder DEF Progress, Close
<1>2. ASSUME NEW s \in Streams, HandlerStep(s) PROVE OrderInv'
  BY <1>2, TakeKeepsOrder, MoveInOrder DEF HandlerStep
<1>3. ASSUME NEW s \in Streams, Disconnect(s) PROVE OrderInv'
  BY <1>3 DEF Disconnect, runVars, OrderInv, InOrder, Increasing, Waiting, Subscribed
<1>4. ASSUME NEW s \in Watchers, NEW cursor \in 0..KeepEvents, Open(s, cursor) PROVE OrderInv'
  BY <1>4, OpenInOrder, LimitsAssumption
<1>5. CASE UNCHANGED vars
  BY <1>5 DEF vars, OrderInv, InOrder, Increasing, Waiting, Subscribed
<1> QED BY <1>1, <1>2, <1>3, <1>4, <1>5 DEF Next, Kinds

LEMMA InitInOrder == Init => OrderInv
BY DEF Init, OrderInv, InOrder, Increasing, Waiting, Subscribed, Streams

\* No client is told an event twice or after a later one, for any number of
\* handlers, any size of queue and log, any cursor (emit, _broadcast and the two
\* stream handlers).
THEOREM ClientsReadInOrder == Spec => []SentInOrder
<1>1. OrderInv => SentInOrder
  BY DEF OrderInv, InOrder, Increasing, SentInOrder
<1> QED BY <1>1, InitInOrder, NextInOrder, PTL DEF Spec

-----------------------------------------------------------------------------
(* A follower is told how the run ended.                                   *)

Closing == {"done", "error"}

\* FollowerSeesTheEnd is not inductive: it says nothing of followers that still
\* read.  The latest event is the last in the queue of such a follower or, when that
\* is empty, the last it was told; and an event that closes the run has no event
\* after it, in the queue as in what is being flushed.
Hears(s) ==
    /\ where[s] \in {"waiting", "flushing", "gone"}
    /\ Subscribed(s) =>
         /\ queue[s] # << >> => queue[s][Len(queue[s])].id = emitted
         /\ queue[s] = << >> /\ emitted # 0 =>
               sent[s] # << >> /\ sent[s][Len(sent[s])] = emitted
         /\ \A i \in 1..Len(queue[s]) :
               queue[s][i].kind \in Closing => ~working /\ i = Len(queue[s])
    /\ where[s] = "flushing" /\ last[s] \in Closing => ~working /\ queue[s] = << >>
    /\ where[s] = "gone" /\ ~closed[s] =>
         ~working /\ sent[s] # << >> /\ sent[s][Len(sent[s])] = emitted

EndInv ==
    /\ last \in [Streams -> Kinds \cup {"none"}] /\ closed \in [Streams -> BOOLEAN]
    /\ ~working => emitted # 0
    /\ \A s \in Followers : Hears(s)

\* What is offered stands at the end of a queue, and before it only what was there.
LEMMA OfferEnds ==
    ASSUME NEW q \in Seq(Event), NEW e \in Event, LimitsAssumption
    PROVE  /\ Offer(q, e) \in Seq(Event) /\ Offer(q, e) # << >>
           /\ Offer(q, e)[Len(Offer(q, e))] = e
           /\ \A i \in 1..Len(Offer(q, e)) :
                 i = Len(Offer(q, e)) \/ \E j \in 1..Len(q) : Offer(q, e)[i] = q[j]
<1>1. ASSUME NEW t \in Seq(Event), \A i \in 1..Len(t) : \E j \in 1..Len(q) : t[i] = q[j],
             Offer(q, e) = Append(t, e)
      PROVE  /\ Offer(q, e) \in Seq(Event) /\ Offer(q, e) # << >>
             /\ Offer(q, e)[Len(Offer(q, e))] = e
             /\ \A i \in 1..Len(Offer(q, e)) :
                   i = Len(Offer(q, e)) \/ \E j \in 1..Len(q) : Offer(q, e)[i] = q[j]
  <2> DEFINE p == Append(t, e)
  <2>1. /\ p \in Seq(Event) /\ p # << >> /\ Len(t) \in Nat /\ Len(p) = Len(t) + 1
        /\ p[Len(p)] = e /\ \A i \in 1..Len(t) : p[i] = t[i]
    OBVIOUS
  <2>2. Offer(q, e) = p
    BY <1>1
  <2> HIDE DEF p
  <2>3. \A i \in 1..Len(p) : i = Len(p) \/ i \in 1..Len(t)
    BY <2>1
  <2> QED BY <1>1, <2>1, <2>2, <2>3
<1>2. CASE Len(q) < QueueSize
  BY <1>1, <1>2 DEF Offer
<1>3. CASE ~(Len(q) < QueueSize)
  <2>1. q # << >>
    BY <1>3, LimitsAssumption
  <2>2. /\ Tail(q) \in Seq(Event)
        /\ \A i \in 1..Len(Tail(q)) : Tail(q)[i] = q[i + 1] /\ i + 1 \in 1..Len(q)
    BY <2>1
  <2>3. Offer(q, e) = Append(Tail(q), e)
    BY <1>3 DEF Offer
  <2> QED BY <1>1, <2>2, <2>3
<1> QED BY <1>2, <1>3

\* What is told stands at the end, and what is left of a queue is all but its head.
LEMMA ToldLast ==
    ASSUME NEW told \in Seq(Nat), NEW x \in Nat
    PROVE  Append(told, x) # << >> /\ Append(told, x)[Len(Append(told, x))] = x
OBVIOUS

LEMMA HeadAndTail ==
    ASSUME NEW q \in Seq(Event), q # << >>
    PROVE  /\ Len(q) \in Nat \ {0} /\ Head(q) = q[1] /\ q[1] \in Event
           /\ Tail(q) \in Seq(Event) /\ Len(Tail(q)) = Len(q) - 1
           /\ \A i \in 1..Len(Tail(q)) : Tail(q)[i] = q[i + 1] /\ i + 1 \in 1..Len(q)
           /\ Len(q) = 1 => Tail(q) = << >>
           /\ Tail(q) # << >> => Len(Tail(q)) \in 1..Len(Tail(q))
<1>1. Len(q) \in Nat \ {0} /\ 1 \in 1..Len(q)
  OBVIOUS
<1>2. /\ Tail(q) \in Seq(Event) /\ Len(Tail(q)) = Len(q) - 1
      /\ \A i \in 1..Len(Tail(q)) : Tail(q)[i] = q[i + 1]
  OBVIOUS
<1>3. \A i \in 1..Len(Tail(q)) : i + 1 \in 1..Len(q)
  BY <1>1, <1>2
<1>4. Len(q) = 1 => Tail(q) = << >>
  <2> DEFINE t == Tail(q)
  <2>1. t \in Seq(Event) /\ Len(t) = Len(q) - 1
    BY <1>2
  <2> HIDE DEF t
  <2>2. Len(t) = 0 => t = << >>
    BY <2>1
  <2> QED BY <1>1, <2>1, <2>2 DEF t
<1>5. Tail(q) # << >> => Len(Tail(q)) \in 1..Len(Tail(q))
  <2> DEFINE t == Tail(q)
  <2>1. t \in Seq(Event)
    BY <1>2
  <2> HIDE DEF t
  <2>2. t # << >> => Len(t) \in 1..Len(t)
    BY <2>1
  <2> QED BY <2>2 DEF t
<1>6. Head(q) = q[1] /\ q[1] \in Event
  BY <1>1
<1> QED BY <1>1, <1>2, <1>3, <1>4, <1>5, <1>6

\* The run emits an event while its executor works; with the last it stops.
LEMMA EmitHeard ==
    ASSUME OrderInv, EndInv, working, NEW kind \in Kinds, Emit(kind),
           kind \in Closing => ~working'
    PROVE  EndInv'
<1> DEFINE e == [id |-> emitted + 1, kind |-> kind]
<1>1. /\ emitted' = emitted + 1 /\ emitted \in Nat
      /\ UNCHANGED <<where, last, sent, closed>>
      /\ e \in Event /\ e.id = emitted + 1 /\ e.kind = kind
  BY DEF Emit, OrderInv, Event
<1>2. ASSUME NEW s \in Followers
      PROVE  Hears(s)'
  <2>1. Hears(s) /\ s \in Streams /\ queue[s] \in Seq(Event)
    BY DEF EndInv, OrderInv, Streams
  <2>2. ASSUME Subscribed(s)
        PROVE  /\ queue'[s] # << >> /\ queue'[s][Len(queue'[s])].id = emitted'
               /\ \A i \in 1..Len(queue'[s]) :
                     queue'[s][i].kind \in Closing => ~working' /\ i = Len(queue'[s])
    <3>1. queue'[s] = Offer(queue[s], e)
      BY <2>1, <2>2 DEF Emit
    <3>2. \A j \in 1..Len(queue[s]) : queue[s][j].kind \notin Closing
      BY <2>1, <2>2 DEF Hears
    <3> HIDE DEF e
    <3>3. /\ Offer(queue[s], e) # << >> /\ Offer(queue[s], e)[Len(Offer(queue[s], e))] = e
          /\ \A i \in 1..Len(Offer(queue[s], e)) :
                \/ i = Len(Offer(queue[s], e))
                \/ \E j \in 1..Len(queue[s]) : Offer(queue[s], e)[i] = queue[s][j]
      BY <1>1, <2>1, LimitsAssumption, OfferEnds
    <3> QED BY <1>1, <3>1, <3>2, <3>3
  <2>3. Subscribed(s)' <=> Subscribed(s)
    BY <1>1 DEF Subscribed
  <2> QED BY <1>1, <2>1, <2>2, <2>3 DEF Hears
<1>3. emitted' # 0
  BY <1>1
<1> QED BY <1>1, <1>2, <1>3 DEF EndInv

\* The next event of the queue is told.
LEMMA TakeHeard ==
    ASSUME OrderInv, EndInv, NEW s \in Followers, Take(s)
    PROVE  Hears(s)'
<1> DEFINE q == queue[s]
           t == Tail(q)
<1>1. /\ s \in Streams /\ q \in Seq(Event) /\ q # << >> /\ sent[s] \in Seq(Nat)
      /\ emitted \in Nat /\ Hears(s) /\ Subscribed(s)
  BY DEF OrderInv, EndInv, Streams, Take, Subscribed
<1>2. /\ sent'[s] = Append(sent[s], Head(q).id) /\ queue'[s] = t
      /\ last'[s] = Head(q).kind /\ where'[s] = "flushing"
      /\ emitted' = emitted /\ working' = working
  BY <1>1 DEF Take, OrderInv, EndInv, runVars
<1>3. /\ Len(q) \in Nat \ {0} /\ Head(q) = q[1] /\ q[1] \in Event /\ t \in Seq(Event)
      /\ Len(t) = Len(q) - 1
      /\ \A i \in 1..Len(t) : t[i] = q[i + 1] /\ i + 1 \in 1..Len(q)
      /\ Len(q) = 1 => t = << >>
      /\ t # << >> => Len(t) \in 1..Len(t)
  <2> HIDE DEF q
  <2> QED BY <1>1, HeadAndTail DEF t
<1>4. /\ q[Len(q)].id = emitted
      /\ \A i \in 1..Len(q) : q[i].kind \in Closing => ~working /\ i = Len(q)
  BY <1>1 DEF Hears
<1>5. Head(q).id \in Nat
  BY <1>3 DEF Event
<1>6. sent'[s] # << >> /\ sent'[s][Len(sent'[s])] = Head(q).id
  BY <1>1, <1>2, <1>5, ToldLast
<1> HIDE DEF q, t
<1>7. t # << >> => t[Len(t)].id = emitted
  <2> SUFFICES ASSUME t # << >> PROVE t[Len(t)].id = emitted
    OBVIOUS
  <2>1. t[Len(t)] = q[Len(t) + 1] /\ Len(t) + 1 = Len(q)
    BY <1>3
  <2> QED BY <1>4, <2>1
<1>8. t = << >> => Head(q).id = emitted
  <2> SUFFICES ASSUME t = << >> PROVE q[1].id = emitted
    BY <1>3
  <2>1. Len(q) = 1
    BY <1>3
  <2> QED BY <1>4, <2>1
<1>9. \A i \in 1..Len(t) : t[i].kind \in Closing => ~working /\ i = Len(t)
  <2> TAKE i \in 1..Len(t)
  <2> HAVE t[i].kind \in Closing
  <2>1. i + 1 \in 1..Len(q) /\ q[i + 1].kind \in Closing
    BY <1>3
  <2>2. ~working /\ i + 1 = Len(q)
    BY <1>4, <2>1
  <2> QED BY <1>3, <2>2
<1>10. Head(q).kind \in Closing => ~working /\ t = << >>
  <2> SUFFICES ASSUME q[1].kind \in Closing PROVE ~working /\ t = << >>
    BY <1>3
  <2>1. ~working /\ 1 = Len(q)
    BY <1>3, <1>4
  <2> QED BY <1>3, <2>1
<1> QED BY <1>2, <1>6, <1>7, <1>8, <1>9, <1>10 DEF Hears

\* A handler's step concerns what that handler knows.
LEMMA HandlerHeard ==
    ASSUME OrderInv, EndInv, NEW s \in Streams, HandlerStep(s)
    PROVE  EndInv'
<1>1. emitted' = emitted /\ working' = working /\ closed' = closed
  BY DEF HandlerStep, Replayed, Take, Flushed, FollowerEnds, WatcherFails, runVars
<1>2. \A o \in Streams \ {s} : /\ where'[o] = where[o] /\ queue'[o] = queue[o]
                                /\ sent'[o] = sent[o] /\ last'[o] = last[o]
  BY DEF HandlerStep, Replayed, Take, Flushed, FollowerEnds, WatcherFails, Leave, OrderInv, EndInv
<1>3. \A o \in Followers \ {s} : Hears(o)'
  <2> TAKE o \in Followers \ {s}
  <2>1. Hears(o) /\ o \in Streams \ {s}
    BY DEF EndInv, Streams
  <2> QED BY <1>1, <1>2, <2>1 DEF Hears, Subscribed
<1>4. last' \in [Streams -> Kinds \cup {"none"}]
  <2>1. CASE Take(s)
    <3>1. Head(queue[s]) \in Event
      BY <2>1 DEF OrderInv, Take
    <3> QED BY <2>1, <3>1 DEF Take, EndInv, Event
  <2>2. CASE ~Take(s)
    BY <2>2 DEF HandlerStep, Replayed, Flushed, FollowerEnds, WatcherFails, EndInv
  <2> QED BY <2>1, <2>2
<1>5. ASSUME s \in Followers
      PROVE  Hears(s)'
  <2>1. Hears(s) /\ s \notin Watchers
    BY <1>5, StreamsAssumption DEF EndInv
  <2>2. CASE Take(s)
    BY <1>5, <2>2, TakeHeard
  <2>3. CASE Flushed(s)
    <3>1. where[s] = "flushing" /\ sent' = sent /\ last' = last
      BY <2>3 DEF Flushed
    <3>2. CASE Ends(s, last[s])
      <4>1. ~working /\ queue[s] = << >>
        BY <2>1, <3>1, <3>2 DEF Ends, Hears, Closing
      <4>2. sent[s] # << >> /\ sent[s][Len(sent[s])] = emitted
        BY <2>1, <3>1, <4>1 DEF EndInv, Hears, Subscribed
      <4>3. where'[s] = "gone"
        BY <2>3, <3>2 DEF Flushed, Leave, OrderInv
      <4> QED BY <1>1, <3>1, <4>1, <4>2, <4>3 DEF Hears, Subscribed
    <3>3. CASE ~Ends(s, last[s])
      <4>1. where'[s] = "waiting" /\ queue' = queue
        BY <2>3, <3>3 DEF Flushed, OrderInv
      <4> QED BY <1>1, <2>1, <3>1, <4>1 DEF Hears, Subscribed
    <3> QED BY <3>2, <3>3
  <2>4. CASE FollowerEnds(s)
    <3>1. where'[s] = "gone" /\ sent' = sent
      BY <2>4 DEF FollowerEnds, Leave, OrderInv
    <3>2. ~closed[s] => ~working /\ sent[s] # << >> /\ sent[s][Len(sent[s])] = emitted
      BY <2>1, <2>4 DEF FollowerEnds, EndInv, Hears, Subscribed
    <3> QED BY <1>1, <3>1, <3>2 DEF Hears, Subscribed
  <2> QED BY <2>1, <2>2, <2>3, <2>4 DEF HandlerStep, Replayed, WatcherFails, Hears
<1>6. \A o \in Followers : Hears(o)'
  BY <1>3, <1>5
<1> QED BY <1>1, <1>4, <1>6 DEF EndInv

LEMMA NextHeard == OrderInv /\ EndInv /\ [Next]_vars => EndInv'
<1> SUFFICES ASSUME OrderInv, EndInv, [Next]_vars PROVE EndInv'
  OBVIOUS
<1>1. ASSUME NEW kind \in {"token", "status", "retry"}, Progress(kind) PROVE EndInv'
  BY <1>1, EmitHeard DEF Progress, Kinds, Closing
<1>2. ASSUME NEW kind \in {"done", "error", "stopped"}, Close(kind) PROVE EndInv'
  BY <1>2, EmitHeard DEF Close, Kinds
<1>3. ASSUME NEW s \in Streams, Disconnect(s) PROVE EndInv'
  <2>1. /\ UNCHANGED <<emitted, working, where, last, queue, sent>>
        /\ \A o \in Streams : ~closed'[o] => ~closed[o]
        /\ closed' \in [Streams -> BOOLEAN]
    BY <1>3 DEF Disconnect, runVars, EndInv
  <2> QED BY <2>1 DEF EndInv, Hears, Subscribed, Streams
<1>4. ASSUME NEW s \in Watchers, NEW cursor \in 0..KeepEvents, Open(s, cursor) PROVE EndInv'
  <2>1. /\ UNCHANGED <<emitted, working, last, queue, closed>>
        /\ \A o \in Followers : where'[o] = where[o] /\ sent'[o] = sent[o]
    BY <1>4, StreamsAssumption DEF Open, runVars, OrderInv, Streams
  <2> QED BY <2>1 DEF EndInv, Hears, Subscribed
<1>5. CASE UNCHANGED vars
  BY <1>5 DEF vars, EndInv, Hears, Subscribed
<1> QED BY <1>1, <1>2, <1>3, <1>4, <1>5, HandlerHeard DEF Next

\* The handler that started a run tells a client that stays how the run ended,
\* however slow the client and however small the queue: a full queue drops its
\* oldest event, and nothing is emitted after the last one (_broadcast, and the
\* loop of the stream handler).
THEOREM FollowersHearTheEnd == Spec => []FollowerSeesTheEnd
<1>1. Init => EndInv
  BY DEF Init, EndInv, Hears, Subscribed, Streams
<1>2. EndInv => FollowerSeesTheEnd
  BY DEF EndInv, Hears, FollowerSeesTheEnd
<1> QED BY <1>1, <1>2, InitInOrder, NextInOrder, NextHeard, PTL DEF Spec

-----------------------------------------------------------------------------
(* Types and limits.                                                       *)

LEMMA OfferFits ==
    ASSUME NEW q \in Seq(Event), NEW e \in Event, LimitsAssumption, Len(q) <= QueueSize
    PROVE  Len(Offer(q, e)) <= QueueSize
<1>1. Len(q) \in Nat /\ QueueSize \in Nat \ {0}
  BY LimitsAssumption
<1>2. CASE Len(q) < QueueSize
  <2>1. Offer(q, e) = Append(q, e) /\ Len(Append(q, e)) = Len(q) + 1
    BY <1>2 DEF Offer
  <2> QED BY <1>1, <1>2, <2>1
<1>3. CASE ~(Len(q) < QueueSize)
  <2>1. q # << >>
    BY <1>1, <1>3
  <2>2. Tail(q) \in Seq(Event) /\ Len(Tail(q)) = Len(q) - 1
    BY <2>1, HeadAndTail
  <2>3. Offer(q, e) = Append(Tail(q), e) /\ Len(Append(Tail(q), e)) = Len(Tail(q)) + 1
    BY <1>3, <2>2 DEF Offer
  <2> QED BY <1>1, <2>2, <2>3
<1> QED BY <1>2, <1>3

LEMMA KeptFits ==
    ASSUME NEW q \in Seq(Nat), LimitsAssumption
    PROVE  Len(Kept(q)) <= KeepEvents
<1>1. Len(q) \in Nat /\ KeepEvents \in Nat
  BY LimitsAssumption
<1>2. CASE Len(q) > KeepEvents
  <2> DEFINE m == Len(q) - KeepEvents
  <2>1. m \in Nat /\ 1 + m \in 1..Len(q) + 1 /\ Kept(q) = SubSeq(q, 1 + m, Len(q))
    BY <1>1, <1>2 DEF Kept
  <2>2. Len(SubSeq(q, 1 + m, Len(q))) = Len(q) - (1 + m) + 1
    BY <1>1, <2>1
  <2> QED BY <1>1, <2>1, <2>2
<1>3. CASE ~(Len(q) > KeepEvents)
  <2>1. Kept(q) = SubSeq(q, 1, Len(q))
    BY <1>3 DEF Kept
  <2>2. Len(SubSeq(q, 1, Len(q))) = Len(q)
    BY <1>1
  <2> QED BY <1>1, <1>3, <2>1, <2>2
<1> QED BY <1>2, <1>3

LEMMA RecordedStatus ==
    ASSUME NEW s \in {"running", "success", "failure", "stopped"}, NEW kind \in DOMAIN RecordOf
    PROVE  RecordEvent(s, RecordOf[kind]) \in {"running", "success", "failure", "stopped"}
<1>1. RecordOf[kind] \in {StatusEvent("thinking"), StatusEvent("stopped"), RecoverableError,
                          TerminalError, DoneEvent("success")}
  BY DEF RecordOf
<1> QED BY <1>1 DEF RecordEvent, AfterStatus, StatusEvent, RecoverableError, TerminalError,
                   DoneEvent

\* The limits of what a step of the run adds to.
LEMMA EmitTypes ==
    ASSUME OrderInv, TypeOK, NEW kind \in Kinds, Emit(kind)
    PROVE  /\ status' \in {"running", "success", "failure", "stopped"}
           /\ Len(log') <= KeepEvents /\ seen' = seen
           /\ \A s \in Streams : Len(queue'[s]) <= QueueSize
<1>1. status' \in {"running", "success", "failure", "stopped"}
  BY RecordedStatus DEF Emit, TypeOK, Recorded
<1>2. Len(log') <= KeepEvents
  <2>1. Append(log, emitted + 1) \in Seq(Nat)
    BY DEF OrderInv
  <2> QED BY <2>1, KeptFits, LimitsAssumption DEF Emit, TypeOK
<1>3. ASSUME NEW s \in Streams
      PROVE  Len(queue'[s]) <= QueueSize
  <2>1. queue[s] \in Seq(Event) /\ Len(queue[s]) <= QueueSize
    BY DEF TypeOK
  <2>2. [id |-> emitted + 1, kind |-> kind] \in Event
    BY DEF OrderInv, Event
  <2>3. Len(Offer(queue[s], [id |-> emitted + 1, kind |-> kind])) <= QueueSize
    BY <2>1, <2>2, OfferFits, LimitsAssumption
  <2> QED BY <2>1, <2>3 DEF Emit
<1>4. seen' = seen
  BY DEF Emit
<1> QED BY <1>1, <1>2, <1>3, <1>4

LEMMA HandlerFits ==
    ASSUME OrderInv, TypeOK, NEW s \in Streams, HandlerStep(s)
    PROVE  UNCHANGED <<runVars, seen>> /\ \A o \in Streams : Len(queue'[o]) <= QueueSize
<1>1. UNCHANGED <<runVars, seen>>
  BY DEF HandlerStep, Replayed, Take, Flushed, FollowerEnds, WatcherFails
<1>2. \/ queue' = queue \/ queue' = [queue EXCEPT ![s] = << >>]
      \/ queue[s] # << >> /\ queue' = [queue EXCEPT ![s] = Tail(queue[s])]
  BY DEF HandlerStep, Replayed, Take, Flushed, FollowerEnds, WatcherFails, Leave
<1>3. ASSUME NEW o \in Streams
      PROVE  Len(queue'[o]) <= QueueSize
  <2>1. queue[o] \in Seq(Event) /\ Len(queue[o]) <= QueueSize /\ QueueSize \in Nat
    BY LimitsAssumption DEF TypeOK
  <2>2. \/ queue'[o] = queue[o] \/ queue'[o] = << >>
        \/ queue[o] # << >> /\ queue'[o] = Tail(queue[o])
    BY <1>2 DEF TypeOK
  <2>3. CASE queue'[o] = queue[o]
    BY <2>1, <2>3
  <2>4. CASE queue'[o] = << >>
    <3>1. Len(<< >>) = 0
      OBVIOUS
    <3> QED BY <2>1, <2>4, <3>1
  <2>5. CASE queue[o] # << >> /\ queue'[o] = Tail(queue[o])
    <3>1. Len(Tail(queue[o])) = Len(queue[o]) - 1 /\ Len(queue[o]) \in Nat
      BY <2>1, <2>5, HeadAndTail
    <3> QED BY <2>1, <2>5, <3>1
  <2> QED BY <2>2, <2>3, <2>4, <2>5
<1> QED BY <1>1, <1>3

LEMMA NextTypes == OrderInv /\ EndInv /\ TypeOK /\ [Next]_vars => TypeOK'
<1> SUFFICES ASSUME OrderInv, EndInv, TypeOK, [Next]_vars PROVE TypeOK'
  OBVIOUS
<1>1. /\ emitted' \in Nat /\ log' \in Seq(Nat) /\ sent' \in [Streams -> Seq(Nat)]
      /\ where' \in [Streams -> {"idle", "replaying", "waiting", "flushing", "gone"}]
      /\ queue' \in [Streams -> Seq(Event)]
      /\ last' \in [Streams -> Kinds \cup {"none"}] /\ closed' \in [Streams -> BOOLEAN]
  BY NextInOrder, NextHeard DEF OrderInv, EndInv
<1> DEFINE Rest == /\ status \in {"running", "success", "failure", "stopped"}
                   /\ working \in BOOLEAN
                   /\ emitted <= MaxEvents /\ Len(log) <= KeepEvents
                   /\ seen \in [Streams -> {"running", "success", "failure", "stopped"}]
                   /\ \A s \in Streams : Len(queue[s]) <= QueueSize
<1>2. /\ status \in {"running", "success", "failure", "stopped"} /\ working \in BOOLEAN
      /\ emitted \in Nat /\ emitted <= MaxEvents /\ MaxEvents \in Nat
      /\ Len(log) <= KeepEvents
      /\ seen \in [Streams -> {"running", "success", "failure", "stopped"}]
      /\ \A s \in Streams : Len(queue[s]) <= QueueSize
  BY LimitsAssumption DEF TypeOK
<1>3. ASSUME NEW kind \in Kinds, Progress(kind) \/ Close(kind)
      PROVE  Rest'
  <2>1. /\ emitted + 1 < MaxEvents \/ emitted < MaxEvents
        /\ working' \in BOOLEAN /\ Emit(kind)
    BY <1>2, <1>3 DEF Progress, Close
  <2>2. emitted' <= MaxEvents
    <3>1. emitted' = emitted + 1
      BY <2>1 DEF Emit
    <3> QED BY <1>2, <2>1, <3>1
  <2> QED BY <1>2, <2>1, <2>2, EmitTypes
<1>4. ASSUME NEW s \in Streams, HandlerStep(s)
      PROVE  Rest'
  BY <1>2, <1>4, HandlerFits DEF runVars
<1>5. ASSUME NEW s \in Streams, Disconnect(s)
      PROVE  Rest'
  BY <1>2, <1>5 DEF Disconnect, runVars
<1>6. ASSUME NEW s \in Watchers, NEW cursor \in 0..KeepEvents, Open(s, cursor)
      PROVE  Rest'
  BY <1>2, <1>6 DEF Open, runVars
<1>7. ASSUME UNCHANGED vars
      PROVE  Rest'
  BY <1>2, <1>7 DEF vars
<1> HIDE DEF Rest
<1>8. Rest'
  BY <1>3, <1>4, <1>5, <1>6, <1>7 DEF Next, Kinds
<1>9. emitted' \in 0..MaxEvents
  <2>1. emitted' <= MaxEvents
    BY <1>8 DEF Rest
  <2> QED BY <1>1, <1>2, <2>1
<1> QED BY <1>1, <1>8, <1>9 DEF Rest, TypeOK

\* The type invariant, with the limits of the log and of every queue, for any limits.
THEOREM TypeCorrect == Spec => []TypeOK
<1>1. Init => EndInv
  BY DEF Init, EndInv, Hears, Subscribed, Streams
<1>2. Init => TypeOK
  BY LimitsAssumption DEF Init, TypeOK, Streams
<1> QED BY <1>1, <1>2, InitInOrder, NextInOrder, NextHeard, NextTypes, PTL DEF Spec

-----------------------------------------------------------------------------
(* A watcher is not left waiting for an end that it was told of.           *)

\* The end waits for the handler, as the last event of its queue or as the one it is
\* flushing.
EndIsDue(s) ==
    /\ Subscribed(s)
    /\ \/ queue[s] # << >> /\ queue[s][Len(queue[s])].kind \in Closing
       \/ where[s] = "flushing" /\ last[s] \in Closing

\* An event that closes the run is the last of the executor.
ClosingInv ==
    \A s \in Streams : /\ \A i \in 1..Len(queue[s]) : queue[s][i].kind \in Closing => ~working
                       /\ last[s] \in Closing => ~working

LEMMA NextClosing == OrderInv /\ EndInv /\ ClosingInv /\ [Next]_vars => ClosingInv'
<1> SUFFICES ASSUME OrderInv, EndInv, ClosingInv, [Next]_vars, NEW s \in Streams
             PROVE  /\ \A i \in 1..Len(queue'[s]) : queue'[s][i].kind \in Closing => ~working'
                    /\ last'[s] \in Closing => ~working'
  BY DEF ClosingInv
<1>1. /\ queue[s] \in Seq(Event) /\ s \in DOMAIN last /\ s \in DOMAIN queue
      /\ \A i \in 1..Len(queue[s]) : queue[s][i].kind \in Closing => ~working
      /\ last[s] \in Closing => ~working
  BY DEF OrderInv, EndInv, ClosingInv
<1>2. ASSUME NEW kind \in {"token", "status", "retry"}, Progress(kind)
      PROVE  /\ \A i \in 1..Len(queue'[s]) : queue'[s][i].kind \in Closing => ~working'
             /\ last'[s] \in Closing => ~working'
  <2> DEFINE e == [id |-> emitted + 1, kind |-> kind]
  <2>1. e \in Event /\ e.kind \notin Closing
    BY DEF OrderInv, Event, Kinds, Closing
  <2>2. last' = last /\ working' = working /\ queue'[s] \in {queue[s], Offer(queue[s], e)}
    BY <1>2 DEF Progress, Emit
  <2> HIDE DEF e
  <2>3. CASE queue'[s] = queue[s]
    BY <1>1, <2>2, <2>3
  <2>4. CASE queue'[s] = Offer(queue[s], e)
    <3>1. ASSUME NEW i \in 1..Len(queue'[s]), queue'[s][i].kind \in Closing
          PROVE  ~working'
      <4>1. /\ Offer(queue[s], e)[Len(Offer(queue[s], e))] = e
            /\ \A k \in 1..Len(Offer(queue[s], e)) :
                  \/ k = Len(Offer(queue[s], e))
                  \/ \E j \in 1..Len(queue[s]) : Offer(queue[s], e)[k] = queue[s][j]
        BY <1>1, <2>1, LimitsAssumption, OfferEnds
      <4>2. \E j \in 1..Len(queue[s]) : queue'[s][i] = queue[s][j]
        BY <2>1, <2>4, <3>1, <4>1, Zenon
      <4> QED BY <1>1, <2>2, <3>1, <4>2
    <3> QED BY <1>1, <2>2, <3>1
  <2> QED BY <2>2, <2>3, <2>4
<1>3. ASSUME NEW kind \in Kinds, Close(kind)
      PROVE  ~working'
  BY <1>3 DEF Close
<1>4. ASSUME NEW t \in Streams, HandlerStep(t)
      PROVE  /\ \A i \in 1..Len(queue'[s]) : queue'[s][i].kind \in Closing => ~working'
             /\ last'[s] \in Closing => ~working'
  <2>1. working' = working
    BY <1>4 DEF HandlerStep, Replayed, Take, Flushed, FollowerEnds, WatcherFails, runVars
  <2>2. CASE Take(t) /\ t = s
    <3>1. queue[s] # << >> /\ queue'[s] = Tail(queue[s]) /\ last'[s] = Head(queue[s]).kind
      BY <1>1, <2>2 DEF Take
    <3>2. /\ Head(queue[s]) = queue[s][1] /\ 1 \in 1..Len(queue[s])
          /\ \A i \in 1..Len(Tail(queue[s])) :
                Tail(queue[s])[i] = queue[s][i + 1] /\ i + 1 \in 1..Len(queue[s])
      BY <1>1, <3>1, HeadAndTail
    <3> QED BY <1>1, <2>1, <3>1, <3>2
  <2>3. CASE ~(Take(t) /\ t = s)
    <3>1. last'[s] = last[s] /\ queue'[s] \in {queue[s], << >>}
      BY <1>1, <1>4, <2>3 DEF HandlerStep, Replayed, Take, Flushed, FollowerEnds, WatcherFails, Leave
    <3>2. Len(<< >>) = 0 /\ 1..0 = {}
      OBVIOUS
    <3> QED BY <1>1, <2>1, <3>1, <3>2
  <2> QED BY <2>2, <2>3
<1>5. CASE UNCHANGED <<queue, last, working>>
  BY <1>1, <1>5
<1>6. ASSUME NEW t \in Streams, Disconnect(t)
      PROVE  UNCHANGED <<queue, last, working>>
  BY <1>6 DEF Disconnect, runVars
<1>7. ASSUME NEW t \in Watchers, NEW cursor \in 0..KeepEvents, Open(t, cursor)
      PROVE  UNCHANGED <<queue, last, working>>
  BY <1>7 DEF Open, runVars
<1>8. UNCHANGED vars => UNCHANGED <<queue, last, working>>
  BY DEF vars
<1> QED BY <1>2, <1>3, <1>4, <1>5, <1>6, <1>7, <1>8 DEF Next, Kinds

\* The end reaches the queue of a subscriber ...
LEMMA CloseIsDue ==
    ASSUME OrderInv, NEW s \in Streams, Subscribed(s), NEW kind \in Closing, Close(kind)
    PROVE  EndIsDue(s)'
<1> DEFINE e == [id |-> emitted + 1, kind |-> kind]
<1>1. e \in Event /\ e.kind \in Closing
  BY DEF OrderInv, Event, Kinds, Closing
<1>2. queue'[s] = Offer(queue[s], e) /\ where' = where /\ queue[s] \in Seq(Event)
  BY DEF Close, Emit, OrderInv
<1> HIDE DEF e
<1>3. queue'[s] # << >> /\ queue'[s][Len(queue'[s])] = e
  BY ZenonT(40), <1>1, <1>2, LimitsAssumption, OfferEnds
<1> QED BY <1>1, <1>2, <1>3 DEF EndIsDue, Subscribed

\* ... and stays there until the handler has ended.
LEMMA DueStays ==
    ASSUME OrderInv, EndInv, ClosingInv, [Next]_vars, NEW s \in Watchers, EndIsDue(s)
    PROVE  EndIsDue(s)' \/ where'[s] = "gone"
<1>1. /\ s \in Streams /\ queue[s] \in Seq(Event)
      /\ s \in DOMAIN where /\ s \in DOMAIN last /\ s \in DOMAIN queue
  BY DEF OrderInv, EndInv, Streams
<1>2. ~working
  <2>1. CASE queue[s] # << >> /\ queue[s][Len(queue[s])].kind \in Closing
    <3>1. Len(queue[s]) \in 1..Len(queue[s])
      BY <1>1, <2>1, HeadAndTail
    <3> QED BY <1>1, <2>1, <3>1 DEF ClosingInv
  <2>2. CASE last[s] \in Closing
    BY <1>1, <2>2 DEF ClosingInv
  <2> QED BY <2>1, <2>2 DEF EndIsDue
<1>3. CASE queue'[s] = queue[s] /\ where'[s] = where[s] /\ last'[s] = last[s]
  BY <1>3 DEF EndIsDue, Subscribed
<1>4. ASSUME NEW t \in Streams, HandlerStep(t)
      PROVE  EndIsDue(s)' \/ where'[s] = "gone"
  <2>1. CASE t # s
    <3>1. queue'[s] = queue[s] /\ where'[s] = where[s] /\ last'[s] = last[s]
      BY <1>1, <1>4, <2>1
         DEF HandlerStep, Replayed, Take, Flushed, FollowerEnds, WatcherFails, Leave
    <3> QED BY <1>3, <3>1
  <2>2. CASE t = s /\ Take(s)
    <3>1. /\ where[s] = "waiting" /\ queue[s] # << >> /\ where'[s] = "flushing"
          /\ queue'[s] = Tail(queue[s]) /\ last'[s] = Head(queue[s]).kind
      BY <1>1, <2>2 DEF Take
    <3>2. queue[s][Len(queue[s])].kind \in Closing
      BY <3>1 DEF EndIsDue
    <3>3. /\ Len(queue[s]) \in Nat \ {0} /\ Head(queue[s]) = queue[s][1]
          /\ Len(Tail(queue[s])) = Len(queue[s]) - 1
          /\ \A i \in 1..Len(Tail(queue[s])) : Tail(queue[s])[i] = queue[s][i + 1]
          /\ Tail(queue[s]) # << >> => Len(Tail(queue[s])) \in 1..Len(Tail(queue[s]))
      BY <1>1, <3>1, HeadAndTail
    <3>4. CASE Tail(queue[s]) = << >>
      <4>1. Len(<< >>) = 0
        OBVIOUS
      <4>2. Len(queue[s]) = 1
        <5>1. Len(Tail(queue[s])) = 0
          BY <3>4, <4>1, Zenon
        <5> QED BY <3>3, <5>1
      <4>3. last'[s] \in Closing
        BY <3>1, <3>2, <3>3, <4>2
      <4> QED BY <3>1, <4>3 DEF EndIsDue, Subscribed
    <3>5. CASE Tail(queue[s]) # << >>
      <4>1. /\ Len(Tail(queue[s])) \in 1..Len(Tail(queue[s]))
            /\ Len(Tail(queue[s])) + 1 = Len(queue[s])
        BY <3>3, <3>5
      <4>2. Tail(queue[s])[Len(Tail(queue[s]))].kind \in Closing
        BY <3>2, <3>3, <4>1
      <4> QED BY <3>1, <3>5, <4>2 DEF EndIsDue, Subscribed
    <3> QED BY <3>4, <3>5
  <2>3. CASE t = s /\ Flushed(s)
    <3>1. CASE Ends(s, last[s])
      BY <1>1, <2>3, <3>1 DEF Flushed, Leave
    <3>2. CASE ~Ends(s, last[s])
      <4>1. /\ last[s] \notin Closing /\ where'[s] = "waiting" /\ queue'[s] = queue[s]
        BY <1>1, <2>3, <3>2 DEF Flushed, Ends, Closing
      <4> QED BY <4>1 DEF EndIsDue, Subscribed
    <3> QED BY <3>1, <3>2
  <2>4. CASE t = s /\ (FollowerEnds(s) \/ WatcherFails(s))
    BY <1>1, <2>4 DEF FollowerEnds, WatcherFails, Leave
  <2>5. ~Replayed(s)
    BY DEF Replayed, EndIsDue, Subscribed
  <2> QED BY <1>4, <2>1, <2>2, <2>3, <2>4, <2>5 DEF HandlerStep
<1>5. ASSUME NEW t \in Watchers, NEW cursor \in 0..KeepEvents, Open(t, cursor)
      PROVE  queue'[s] = queue[s] /\ where'[s] = where[s] /\ last'[s] = last[s]
  <2>1. t # s
    BY <1>5 DEF Open, EndIsDue, Subscribed
  <2> QED BY <1>1, <1>5, <2>1 DEF Open
<1>6. ASSUME NEW t \in Streams, Disconnect(t)
      PROVE  UNCHANGED <<queue, where, last>>
  BY <1>6 DEF Disconnect
<1>7. ASSUME NEW kind \in Kinds, Progress(kind) \/ Close(kind)
      PROVE  FALSE
  BY <1>2, <1>7 DEF Progress, Close
<1>8. CASE UNCHANGED vars
  BY <1>3, <1>8 DEF vars
<1> QED BY <1>3, <1>4, <1>5, <1>6, <1>7, <1>8 DEF Next, Kinds

\* A watcher that is subscribed when the run completes or fails has the end in its
\* queue, and keeps it, whatever the queue loses, until it has flushed it and left or
\* its client has gone: it does not wait for an end that has passed (_broadcast and
\* the handler of /runs/{id}/events/stream).
THEOREM EndReachesWatchers ==
    Spec => [][\A s \in Watchers :
                  /\ (\E kind \in Closing : Close(kind)) /\ Subscribed(s) => EndIsDue(s)'
                  /\ EndIsDue(s) => EndIsDue(s)' \/ where'[s] = "gone"]_vars
<1>1. Init => EndInv
  BY DEF Init, EndInv, Hears, Subscribed, Streams
<1>2. Init => ClosingInv
  BY DEF Init, ClosingInv, Closing
<1>3. OrderInv /\ EndInv /\ ClosingInv /\ [Next]_vars =>
         \A s \in Watchers :
            /\ (\E kind \in Closing : Close(kind)) /\ Subscribed(s) => EndIsDue(s)'
            /\ EndIsDue(s) => EndIsDue(s)' \/ where'[s] = "gone"
  BY CloseIsDue, DueStays DEF Streams
<1> QED
  BY <1>1, <1>2, <1>3, InitInOrder, NextInOrder, NextHeard, NextClosing, PTL DEF Spec
=============================================================================
