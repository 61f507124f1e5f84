--------------------------- MODULE ConsoleProofs ---------------------------
(***************************************************************************)
(* That the lines of a log are emitted whole, in order and each once, that *)
(* a subscriber's queue always holds the newest events, and the types both *)
(* rest on: for any number of browsers, any bound of the queue and any     *)
(* log.                                                                    *)
(***************************************************************************)
EXTENDS ConsoleProperties, SequenceTheorems, FunctionTheorems,
        FiniteSetTheorems, TLAPS

\* What is taken was published, and without a subscription nothing waits.
Counts ==
  /\ published \in Nat
  /\ watching \subseteq Browsers
  /\ taken \in [Browsers -> Nat]
  /\ \A b \in Browsers : taken[b] <= published
  /\ DOMAIN queue = Browsers
  /\ \A b \in Browsers : b \notin watching => queue[b] = <<>>

IInv == Counts /\ BacklogIsLatest

-----------------------------------------------------------------------------
(* Queues that hold the newest events *)

LEMMA NewestType ==
  ASSUME NEW n \in Nat, NEW m \in Nat, n <= m
  PROVE  /\ Newest(n, m) \in Seq(Nat)
         /\ Len(Newest(n, m)) = n
         /\ \A i \in 1..n : Newest(n, m)[i] = m - n + i
<1>1. \A i \in 1..n : m - n + i \in Nat
  OBVIOUS
<1>2. Newest(n, m) \in [1..n -> Nat]
  BY <1>1 DEF Newest
<1> QED BY <1>2 DEF Newest

LEMMA NewestAppend ==
  ASSUME NEW n \in Nat, NEW m \in Nat, n <= m
  PROVE  Append(Newest(n, m), m + 1) = Newest(n + 1, m + 1)
<1>1. /\ Newest(n, m) \in Seq(Nat) /\ Len(Newest(n, m)) = n
      /\ \A i \in 1..n : Newest(n, m)[i] = m - n + i
  BY NewestType
<1>2. PICK q \in Seq(Nat) :
        /\ q = Append(Newest(n, m), m + 1) /\ Len(q) = n + 1
        /\ \A i \in 1..n : q[i] = Newest(n, m)[i]
        /\ q[n + 1] = m + 1
  <2> DEFINE s == Newest(n, m)
             e == m + 1
  <2>1. s \in Seq(Nat) /\ Len(s) = n /\ e \in Nat
    BY <1>1
  <2> HIDE DEF s, e
  <2>2. /\ Append(s, e) \in Seq(Nat) /\ Len(Append(s, e)) = n + 1
        /\ \A i \in 1..n : Append(s, e)[i] = s[i]
        /\ Append(s, e)[n + 1] = e
    BY <2>1, AppendProperties
  <2> QED BY <2>2 DEF s, e
<1>3. PICK t \in Seq(Nat) :
        /\ t = Newest(n + 1, m + 1) /\ Len(t) = n + 1
        /\ \A i \in 1..(n + 1) : t[i] = (m + 1) - (n + 1) + i
  <2>1. n + 1 \in Nat /\ m + 1 \in Nat /\ n + 1 <= m + 1
    OBVIOUS
  <2> QED BY <2>1, NewestType
<1>4. ASSUME NEW i \in 1..(n + 1)
      PROVE  q[i] = t[i]
  <2>1. CASE i = n + 1
    BY <1>2, <1>3, <2>1
  <2>2. CASE i \in 1..n
    BY <1>1, <1>2, <1>3, <2>2
  <2>3. i = n + 1 \/ i \in 1..n
    OBVIOUS
  <2> QED BY <2>1, <2>2, <2>3
<1> QED BY <1>2, <1>3, <1>4, SeqEqual

LEMMA NewestTail ==
  ASSUME NEW n \in Nat \ {0}, NEW m \in Nat, n <= m
  PROVE  /\ Head(Newest(n, m)) = m - n + 1
         /\ Tail(Newest(n, m)) = Newest(n - 1, m)
<1>1. PICK s \in Seq(Nat) :
        /\ s = Newest(n, m) /\ Len(s) = n
        /\ \A i \in 1..n : s[i] = m - n + i
  BY NewestType
<1>2. s # <<>> /\ Head(s) = s[1]
  <2>1. Len(s) # 0
    BY <1>1
  <2> QED BY <2>1
<1>3. PICK q \in Seq(Nat) :
        /\ q = Tail(s) /\ Len(q) = n - 1
        /\ \A i \in 1..(n - 1) : q[i] = s[i + 1]
  <2>1. /\ Tail(s) \in Seq(Nat) /\ Len(Tail(s)) = Len(s) - 1
        /\ \A i \in 1..Len(Tail(s)) : Tail(s)[i] = s[i + 1]
    BY <1>2, HeadTailProperties
  <2>2. PICK q \in Seq(Nat) : q = Tail(s)
    BY <2>1
  <2>3. Len(q) = n - 1 /\ \A i \in 1..(n - 1) : q[i] = s[i + 1]
    BY <1>1, <2>1, <2>2
  <2> QED BY <2>2, <2>3
<1>4. PICK t \in Seq(Nat) :
        /\ t = Newest(n - 1, m) /\ Len(t) = n - 1
        /\ \A i \in 1..(n - 1) : t[i] = m - (n - 1) + i
  <2>1. PICK k \in Nat : k = n - 1 /\ k <= m
    OBVIOUS
  <2>2. /\ Newest(k, m) \in Seq(Nat) /\ Len(Newest(k, m)) = k
        /\ \A i \in 1..k : Newest(k, m)[i] = m - k + i
    BY <2>1, NewestType
  <2> QED BY <2>1, <2>2
<1>5. ASSUME NEW i \in 1..(n - 1)
      PROVE  q[i] = t[i]
  <2>1. i + 1 \in 1..n
    OBVIOUS
  <2> QED BY <1>1, <1>3, <1>4, <2>1
<1>6. q = t
  BY <1>3, <1>4, <1>5, SeqEqual
<1> QED BY <1>1, <1>2, <1>3, <1>4, <1>6

\* The sink turns a queue of the newest events into one of the newest.
LEMMA PushKeepsNewest ==
  ASSUME NEW k \in Nat, NEW m \in Nat, m = published, k <= m,
         NEW p \in Nat, p = m + 1
  PROVE  Push(Newest(Lower(m - k, QueueMax), m))
           = Newest(Lower(p - k, QueueMax), p)
<1> DEFINE n == Lower(m - k, QueueMax)
<1>0. QueueMax \in Nat \ {0}
  BY QueueAssumption
<1>1. n \in Nat /\ n <= m /\ n <= QueueMax
  BY <1>0 DEF Lower
<1>2. Len(Newest(n, m)) = n
  BY <1>1, NewestType
<1>3. CASE n = QueueMax
  <2>1. Tail(Newest(n, m)) = Newest(n - 1, m)
    BY <1>0, <1>1, <1>3, NewestTail
  <2>2. Append(Newest(n - 1, m), m + 1) = Newest(n, p)
    <3>1. PICK j \in Nat : j = n - 1 /\ j <= m /\ j + 1 = n
      BY <1>0, <1>1, <1>3
    <3> HIDE DEF n
    <3>2. Append(Newest(j, m), m + 1) = Newest(j + 1, m + 1)
      BY <3>1, NewestAppend
    <3> QED BY <3>1, <3>2
  <2>3. Lower(p - k, QueueMax) = n
    BY <1>0, <1>3 DEF Lower
  <2> QED BY <1>2, <1>3, <2>1, <2>2, <2>3 DEF Push
<1>4. CASE n # QueueMax
  <2>1. Lower(p - k, QueueMax) = n + 1
    BY <1>0, <1>4 DEF Lower
  <2>2. Append(Newest(n, m), m + 1) = Newest(n + 1, p)
    BY <1>1, NewestAppend
  <2> QED BY <1>2, <1>4, <2>1, <2>2 DEF Push
<1> QED BY <1>3, <1>4

-----------------------------------------------------------------------------
(* The inductive invariant *)

LEMMA InitBacklog == Init => IInv
BY DEF Init, IInv, Counts, BacklogIsLatest

LEMMA PumpsBacklog ==
  ASSUME IInv, NEW c \in Sockets, Pumps(c)
  PROVE  IInv'
<1>1. CASE UNCHANGED <<published, queue>>
  BY <1>1 DEF IInv, Counts, BacklogIsLatest, Pumps
<1>2. CASE /\ published' = published + 1
           /\ queue' = [b \in Browsers |->
                          IF b \in watching THEN Push(queue[b]) ELSE queue[b]]
  <2>1. UNCHANGED <<watching, taken>>
    BY DEF Pumps
  <2>2. Counts'
    BY <1>2, <2>1 DEF IInv, Counts
  <2>3. ASSUME NEW b \in watching'
        PROVE  queue'[b] = Newest(Lower(published' - taken'[b], QueueMax),
                                  published')
    <3>1. /\ b \in watching /\ b \in Browsers
          /\ queue'[b] = Push(queue[b]) /\ taken'[b] = taken[b]
      BY <1>2, <2>1 DEF IInv, Counts
    <3>2. queue[b] = Newest(Lower(published - taken[b], QueueMax), published)
      BY <3>1 DEF IInv, BacklogIsLatest
    <3>3. published \in Nat /\ taken[b] \in Nat /\ taken[b] <= published
      BY <3>1 DEF IInv, Counts
    <3>4. PICK p \in Nat : p = published' /\ p = published + 1
      BY <1>2, <3>3
    <3>5. PICK k \in Nat : k = taken'[b] /\ k = taken[b]
      BY <3>1, <3>3
    <3>6. Push(Newest(Lower(published - k, QueueMax), published))
            = Newest(Lower(p - k, QueueMax), p)
      BY <3>3, <3>4, <3>5, PushKeepsNewest
    <3>7. Push(queue[b]) = Newest(Lower(p - k, QueueMax), p)
      BY <3>2, <3>5, <3>6, Zenon
    <3> QED BY <3>1, <3>4, <3>5, <3>7, Zenon
  <2>5. BacklogIsLatest'
    BY <2>3 DEF BacklogIsLatest
  <2> QED BY <2>2, <2>5 DEF IInv
<1> QED BY <1>1, <1>2 DEF Pumps

LEMMA OpensBacklog ==
  ASSUME IInv, NEW b \in Browsers, Opens(b)
  PROVE  IInv'
<1>0. QueueMax \in Nat \ {0}
  BY QueueAssumption
<1>1. /\ watching' = watching \cup {b} /\ b \notin watching
      /\ taken' = [taken EXCEPT ![b] = published]
      /\ UNCHANGED <<published, queue>>
  BY DEF Opens, hub
<1>2. Counts'
  BY <1>1 DEF IInv, Counts
<1>3. queue[b] = <<>> /\ published - published = 0
  BY <1>1 DEF IInv, Counts
<1>4. Newest(Lower(published - published, QueueMax), published) = <<>>
  BY <1>0, <1>3 DEF Lower, Newest
<1>5. ASSUME NEW a \in watching', a # b
      PROVE  taken'[a] = taken[a]
  BY <1>1, <1>5 DEF IInv, Counts
<1>6. taken'[b] = published
  BY <1>1 DEF IInv, Counts
<1> QED BY <1>1, <1>2, <1>3, <1>4, <1>5, <1>6 DEF IInv, BacklogIsLatest

LEMMA LeavesBacklog ==
  ASSUME IInv, NEW b \in Browsers, Leaves(b)
  PROVE  IInv'
<1>1. /\ watching' = watching \ {b}
      /\ queue' = [queue EXCEPT ![b] = <<>>]
      /\ UNCHANGED <<published, taken>>
  BY DEF Leaves, hub
<1> QED BY <1>1 DEF IInv, Counts, BacklogIsLatest

LEMMA TakesBacklog ==
  ASSUME IInv, NEW b \in Browsers, Takes(b)
  PROVE  IInv'
<1>0. QueueMax \in Nat \ {0}
  BY QueueAssumption
<1>1. /\ b \in watching /\ queue[b] # <<>>
      /\ taken' = [taken EXCEPT ![b] = Head(queue[b])]
      /\ queue' = [queue EXCEPT ![b] = Tail(queue[b])]
      /\ UNCHANGED <<watching, published>>
  BY DEF Takes, hub
<1> DEFINE n == Lower(published - taken[b], QueueMax)
<1>2. /\ published \in Nat /\ taken[b] \in Nat /\ taken[b] <= published
      /\ queue[b] = Newest(n, published)
  BY <1>1 DEF IInv, Counts, BacklogIsLatest
<1>3. n \in Nat /\ n <= published /\ n <= QueueMax
  BY <1>0, <1>2 DEF Lower
<1>4. n # 0
  BY <1>1, <1>2 DEF Newest
<1>5. /\ Head(queue[b]) = published - n + 1
      /\ Tail(queue[b]) = Newest(n - 1, published)
  <2> HIDE DEF n
  <2> QED BY <1>2, <1>3, <1>4, NewestTail
<1>6. taken'[b] = published - n + 1 /\ queue'[b] = Newest(n - 1, published)
  BY <1>1, <1>5 DEF IInv, Counts
<1>7. Lower(published - (published - n + 1), QueueMax) = n - 1
  <2> HIDE DEF n
  <2> QED BY <1>0, <1>2, <1>3, <1>4 DEF Lower
<1>8. Counts'
  <2>1. published - n + 1 \in Nat /\ published - n + 1 <= published
    <3> HIDE DEF n
    <3> QED BY <1>2, <1>3, <1>4
  <2>2. taken' = [taken EXCEPT ![b] = published - n + 1]
    BY <1>1, <1>5
  <2> HIDE DEF n
  <2> QED BY <1>1, <2>1, <2>2 DEF IInv, Counts
<1>9. ASSUME NEW a \in watching, a # b
      PROVE  taken'[a] = taken[a] /\ queue'[a] = queue[a]
  BY <1>1, <1>9 DEF IInv, Counts
<1> HIDE DEF n
<1> QED BY <1>1, <1>6, <1>7, <1>8, <1>9 DEF IInv, BacklogIsLatest

LEMMA NextBacklog == IInv /\ [Next]_vars => IInv'
<1> SUFFICES ASSUME IInv, [Next]_vars
             PROVE  IInv'
  OBVIOUS
<1>1. CASE UNCHANGED <<published, watching, taken, queue>>
  BY <1>1 DEF IInv, Counts, BacklogIsLatest
<1>2. CASE Server
  BY <1>1, <1>2 DEF Server, ServerWrites, LogGoes, LogAppears, LogTruncated,
                    hub, browser
<1>3. CASE Tailing
  BY <1>1, <1>3 DEF Tailing, TailStarts, TailCancelled, Stats, Reads, OpenFails,
                    Emits, hub, browser
<1>4. CASE Link
  <2>1. CASE LinkDrops \/ Redials \/ PumpEnds
    BY <1>1, <2>1 DEF LinkDrops, Redials, PumpEnds, hub, browser
  <2> QED BY <1>4, <2>1, PumpsBacklog DEF Link
<1>5. CASE Undeclared
  BY <1>1, <1>5 DEF Undeclared, browser
<1>6. CASE Viewing
  <2>1. ASSUME NEW b \in Browsers, Sends(b)
        PROVE  IInv'
    BY <1>1, <2>1 DEF Sends, hub
  <2> QED BY <1>6, <2>1, OpensBacklog, LeavesBacklog, TakesBacklog DEF Viewing
<1>7. CASE UNCHANGED vars
  BY <1>1, <1>7 DEF vars, hub, browser
<1> QED BY <1>2, <1>3, <1>4, <1>5, <1>6, <1>7 DEF Next

\* A subscriber that falls behind loses its oldest events, never a newer one
\* and never their order, whatever the agent, the sockets and the browsers do.
THEOREM BacklogLatest == Spec => []BacklogIsLatest
<1>1. IInv => BacklogIsLatest
  BY DEF IInv
<1> QED BY InitBacklog, NextBacklog, <1>1, PTL DEF Spec
-----------------------------------------------------------------------------
(* How a text is split *)

\* A text that begins after p halves of some files, without a gap.
Consecutive(text, p) ==
  /\ text \in Seq(Halves)
  /\ \A i \in 1..Len(text) : text[i].k = p + i

\* Where its n-th line ends, and how many lines have ended at i.
EndAt(p, n)   == 2 * (p \div 2 + n) - p
LinesBy(p, i) == (p + i) \div 2 - p \div 2

\* Where its n-th line begins.
BeginAt(p, n) == IF n = 1 THEN 1 ELSE EndAt(p, n - 1) + 1

LEMMA EndsAre ==
  ASSUME NEW p \in Nat, NEW text, Consecutive(text, p)
  PROVE  Ends(text) = {i \in 1..Len(text) : (p + i) % 2 = 0}
BY DEF Consecutive, Ends, EndsLine

\* A text has as many ends up to i as there are even numbers in between.
LEMMA RankOfEnd ==
  ASSUME NEW p \in Nat, NEW text, Consecutive(text, p),
         NEW i \in 0..Len(text)
  PROVE  /\ LinesBy(p, i) \in Nat
         /\ Cardinality({j \in Ends(text) : j <= i}) = LinesBy(p, i)
<1> DEFINE m == LinesBy(p, i)
           E == {j \in Ends(text) : j <= i}
           f == [n \in 1..m |-> EndAt(p, n)]
<1>0. Len(text) \in Nat
  BY DEF Consecutive
<1>1. m \in Nat
  BY <1>0 DEF LinesBy
<1>2. E = {j \in 1..i : (p + j) % 2 = 0}
  BY <1>0, EndsAre
<1>3. ASSUME NEW n \in 1..m
      PROVE  EndAt(p, n) \in E
  BY <1>0, <1>1, <1>2 DEF LinesBy, EndAt
<1>4. ASSUME NEW j \in E
      PROVE  \E n \in 1..m : EndAt(p, n) = j
  <2>1. j \in 1..i /\ (p + j) % 2 = 0
    BY <1>2
  <2>2. /\ LinesBy(p, j) \in 1..m
        /\ EndAt(p, LinesBy(p, j)) = j
    BY <1>0, <2>1 DEF LinesBy, EndAt
  <2> QED BY <2>2
<1>5. f \in [1..m -> E] /\ \A n \in 1..m : f[n] = EndAt(p, n)
  BY <1>3
<1>6. \A a, b \in 1..m : f[a] = f[b] => a = b
  BY <1>1, <1>5 DEF EndAt
<1>7. \A j \in E : \E n \in 1..m : f[n] = j
  BY <1>4, <1>5
<1> HIDE DEF m, E, f
<1>8. f \in Bijection(1..m, E)
  BY <1>5, <1>6, <1>7, Fun_IsBij
<1>9. IsFiniteSet(1..m) /\ Cardinality(1..m) = m
  BY <1>1, FS_Interval
<1> QED BY <1>1, <1>8, <1>9, FS_Bijection DEF ExistsBijection, m, E

LEMMA NthEndIs ==
  ASSUME NEW p \in Nat, NEW text, Consecutive(text, p),
         NEW n \in 1..LinesBy(p, Len(text))
  PROVE  /\ EndAt(p, n) \in 1..Len(text)
         /\ NthEnd(text, n) = EndAt(p, n)
<1>0. Len(text) \in Nat
  BY DEF Consecutive
<1>1. EndAt(p, n) \in 1..Len(text) /\ (p + EndAt(p, n)) % 2 = 0
  BY <1>0 DEF LinesBy, EndAt
<1>2. EndAt(p, n) \in Ends(text)
  BY <1>1, EndsAre
<1>3. LinesBy(p, EndAt(p, n)) = n
  BY <1>0, <1>1 DEF LinesBy, EndAt
<1>4. Cardinality({j \in Ends(text) : j <= EndAt(p, n)}) = n
  BY <1>0, <1>1, <1>3, RankOfEnd
<1>5. ASSUME NEW i \in Ends(text),
             Cardinality({j \in Ends(text) : j <= i}) = n
      PROVE  i = EndAt(p, n)
  <2>1. i \in 1..Len(text) /\ (p + i) % 2 = 0
    BY EndsAre
  <2>2. i \in 0..Len(text)
    BY <1>0, <2>1
  <2>3. LinesBy(p, i) = n
    BY <1>5, <2>2, RankOfEnd
  <2> QED BY <1>0, <2>1, <2>3 DEF LinesBy, EndAt
<1>6. n # 0
  OBVIOUS
<1> QED BY <1>1, <1>2, <1>4, <1>5, <1>6 DEF NthEnd

\* The lines of a text, and what is kept, as stretches of it.
LEMMA SplitIs ==
  ASSUME NEW p \in Nat, NEW text, Consecutive(text, p),
         NEW m, m = LinesBy(p, Len(text))
  PROVE  /\ m \in Nat
         /\ Ends(text) = {} <=> m = 0
         /\ DOMAIN Split(text) = 1..m
         /\ \A n \in 1..m :
              Split(text)[n] = SubSeq(text, BeginAt(p, n), EndAt(p, n))
         /\ Rest(text) = SubSeq(text, BeginAt(p, m + 1), Len(text))
<1>0. Len(text) \in Nat
  BY DEF Consecutive
<1>1. {j \in Ends(text) : j <= Len(text)} = Ends(text)
  BY <1>0, EndsAre
<1>2. m \in Nat /\ Cardinality(Ends(text)) = m
  BY <1>0, <1>1, RankOfEnd
<1>3. Ends(text) = {} <=> m = 0
  <2>1. IsFiniteSet(1..Len(text)) /\ Ends(text) \subseteq 1..Len(text)
    BY <1>0, FS_Interval, EndsAre
  <2>2. IsFiniteSet(Ends(text))
    BY <2>1, FS_Subset
  <2> QED BY <1>2, <2>2, FS_EmptySet
<1>4. ASSUME NEW n \in 0..m
      PROVE  NthEnd(text, n) + 1 = BeginAt(p, n + 1)
  <2>1. CASE n = 0
    BY <2>1 DEF NthEnd, BeginAt
  <2>2. CASE n # 0
    <3>1. n \in 1..m /\ (n + 1) - 1 = n /\ n + 1 # 1
      BY <1>2, <2>2
    <3> QED BY <3>1, NthEndIs DEF BeginAt
  <2> QED BY <2>1, <2>2
<1>5. ASSUME NEW n \in 1..m
      PROVE  Split(text)[n] = SubSeq(text, BeginAt(p, n), EndAt(p, n))
  <2>1. n - 1 \in 0..m /\ (n - 1) + 1 = n
    BY <1>2
  <2>2. NthEnd(text, n - 1) + 1 = BeginAt(p, n)
    BY <1>4, <2>1
  <2> QED BY <1>2, <2>2, NthEndIs DEF Split
<1>6. Rest(text) = SubSeq(text, BeginAt(p, m + 1), Len(text))
  <2>1. m \in 0..m
    BY <1>2
  <2>2. NthEnd(text, m) + 1 = BeginAt(p, m + 1)
    BY <1>4, <2>1
  <2> QED BY <1>2, <2>2 DEF Rest
<1> QED BY <1>2, <1>3, <1>5, <1>6 DEF Split

\* The last half of a line, the one with the newline.
LastHalf(text) == text[Len(text)]

\* Two halves make a line, but for the first of a text that begins in mid-line.
LineAt(line, text, p, n, e) ==
  /\ e \in 1..Len(text)
  /\ line \in Seq(Halves) /\ line # <<>>
  /\ LastHalf(line) = text[e] /\ text[e] \in Halves
  /\ text[e].k = 2 * (p \div 2 + n)
  /\ \/ e - 1 \in 1..Len(text) /\ line = <<text[e - 1], text[e]>>
     \/ n = 1 /\ e = 1 /\ p % 2 = 1 /\ line = <<text[e]>>

LEMMA LineIs ==
  ASSUME NEW p \in Nat, NEW text, Consecutive(text, p),
         NEW n \in 1..LinesBy(p, Len(text)), NEW e, e = EndAt(p, n)
  PROVE  LineAt(Split(text)[n], text, p, n, e)
<1> DEFINE b == BeginAt(p, n)
           s == Split(text)[n]
<1>0. Len(text) \in Nat /\ \A i \in 1..Len(text) : text[i] \in Halves
  BY DEF Consecutive
<1>1. e \in 1..Len(text)
  BY NthEndIs
<1>2. s = SubSeq(text, b, e)
  BY SplitIs
<1>3. \/ b = e - 1 /\ b >= 1
      \/ b = 1 /\ e = 1 /\ n = 1 /\ p % 2 = 1
  BY <1>0, <1>1 DEF BeginAt, EndAt
<1>4. text[e].k = 2 * (p \div 2 + n)
  <2>1. text[e].k = p + e
    BY <1>1 DEF Consecutive
  <2> QED BY <2>1, <1>1 DEF EndAt
<1> HIDE DEF b, s
<1>5. b \in Int /\ e \in Int /\ \A i \in b..e : text[i] \in Halves
  BY <1>0, <1>1, <1>3
<1>6. /\ s \in Seq(Halves)
      /\ Len(s) = IF b <= e THEN e - b + 1 ELSE 0
      /\ \A i \in 1..e - b + 1 : s[i] = text[b + i - 1]
  BY <1>2, <1>5, SubSeqProperties
<1>7. CASE b = e - 1 /\ b >= 1
  <2>0. /\ e - b + 1 = 2 /\ b + 1 - 1 = e - 1 /\ b + 2 - 1 = e
        /\ e - 1 \in 1..Len(text)
    BY <1>0, <1>1, <1>7
  <2>1. Len(s) = 2 /\ s[1] = text[e - 1] /\ s[2] = text[e]
    <3>1. \A i \in 1..2 : s[i] = text[b + i - 1]
      BY <1>6, <2>0
    <3>2. Len(s) = 2
      BY <1>0, <1>1, <1>6, <1>7
    <3>3. s[1] = text[b + 1 - 1] /\ s[2] = text[b + 2 - 1]
      BY <3>1
    <3> QED BY <2>0, <3>2, <3>3
  <2>2. s = <<text[e - 1], text[e]>>
    BY <1>6, <2>1
  <2>3. s # <<>> /\ LastHalf(s) = text[e]
    <3>1. Len(s) # 0
      BY <2>1
    <3>2. s # <<>>
      BY <3>1
    <3>3. LastHalf(s) = s[2]
      BY <2>1 DEF LastHalf
    <3> QED BY <2>1, <3>2, <3>3
  <2> QED BY <1>0, <1>1, <1>4, <1>6, <2>0, <2>2, <2>3 DEF s, LineAt
<1>8. CASE b = 1 /\ e = 1 /\ n = 1 /\ p % 2 = 1
  <2>1. Len(s) = 1 /\ s[1] = text[e]
    BY <1>6, <1>8
  <2>2. s = <<text[e]>>
    BY <1>6, <2>1
  <2>3. s # <<>> /\ LastHalf(s) = text[e]
    BY <2>1 DEF LastHalf
  <2> QED BY <1>0, <1>1, <1>4, <1>6, <1>8, <2>2, <2>3 DEF s, LineAt
<1> QED BY <1>3, <1>7, <1>8

\* What is kept of a text is nothing or the half after its last newline.
LEMMA RestIs ==
  ASSUME NEW p \in Nat, NEW text, Consecutive(text, p),
         NEW n, n = Len(text)
  PROVE  \/ /\ Rest(text) = <<>>
            /\ n = 0 \/ (p + n) % 2 = 0
         \/ /\ n \in Nat \ {0} /\ (p + n) % 2 = 1
            /\ text[n] \in Halves /\ text[n].k = p + n
            /\ Rest(text) = <<text[n]>>
<1> DEFINE m == LinesBy(p, n)
           b == BeginAt(p, m + 1)
           r == Rest(text)
<1>0. n \in Nat /\ \A i \in 1..n : text[i] \in Halves
  BY DEF Consecutive
<1>1. r = SubSeq(text, b, n) /\ m \in Nat
  BY SplitIs
<1>2. \/ b = n + 1 /\ (n = 0 \/ (p + n) % 2 = 0)
      \/ b = n /\ n # 0 /\ (p + n) % 2 = 1
  BY <1>0 DEF BeginAt, EndAt, LinesBy
<1> HIDE DEF m, b, r
<1>3. CASE b = n + 1 /\ (n = 0 \/ (p + n) % 2 = 0)
  <2>1. r = <<>>
    BY <1>0, <1>1, <1>3, SubSeqEmpty
  <2> QED BY <1>3, <2>1 DEF r
<1>4. CASE b = n /\ n # 0 /\ (p + n) % 2 = 1
  <2>1. /\ r \in Seq(Halves) /\ Len(r) = 1
        /\ r[1] = text[n]
    <3>1. n \in 1..n /\ \A i \in n..n : text[i] \in Halves
      BY <1>0, <1>4
    <3>2. /\ r \in Seq(Halves)
          /\ Len(r) = IF b <= n THEN n - b + 1 ELSE 0
          /\ \A i \in 1..n - b + 1 : r[i] = text[b + i - 1]
      BY <1>0, <1>1, <1>4, <3>1, SubSeqProperties
    <3> QED BY <1>0, <1>4, <3>2
  <2>2. r = <<text[n]>>
    BY <2>1
  <2>3. text[n] \in Halves /\ text[n].k = p + n
    BY <1>0, <1>4 DEF Consecutive
  <2> QED BY <1>0, <1>4, <2>2, <2>3 DEF r
<1> QED BY <1>2, <1>3, <1>4

-----------------------------------------------------------------------------
(* Type correctness *)

LEMMA LogType ==
  ASSUME LogOK, [Next]_vars
  PROVE  LogOK'
<1>1. CASE ServerWrites
  <2>1. PICK n \in 0..MaxHalves : n = log.size + 1
    BY <1>1, BoundAssumption DEF ServerWrites, LogOK
  <2>2. log' = [log EXCEPT !.size = n]
    BY <1>1, <2>1 DEF ServerWrites
  <2> QED BY <2>2 DEF LogOK
<1>2. CASE LogGoes
  BY <1>2 DEF LogGoes, LogOK
<1>3. CASE LogAppears
  BY <1>3, BoundAssumption DEF LogAppears, LogOK
<1>4. CASE LogTruncated
  <2>1. PICK g \in 0..MaxFiles : g = log.gen + 1
    BY <1>4, BoundAssumption DEF LogTruncated, LogOK
  <2>2. log' = [log EXCEPT !.gen = g, !.size = 0]
    BY <1>4, <2>1 DEF LogTruncated
  <2>3. 0 \in 0..MaxHalves
    BY BoundAssumption
  <2> QED BY <2>2, <2>3 DEF LogOK
<1>5. CASE UNCHANGED file
  BY <1>5 DEF file, LogOK
<1>6. CASE Tailing
  BY <1>5, <1>6 DEF Tailing, TailStarts, TailCancelled, Stats, Reads,
                    OpenFails, Emits
<1>7. CASE Link
  BY <1>5, <1>7 DEF Link, LinkDrops, Redials, PumpEnds, Pumps
<1>8. CASE Undeclared \/ Viewing
  BY <1>5, <1>8 DEF Undeclared, Viewing, Opens, Leaves, Takes, Sends
<1> QED BY <1>1, <1>2, <1>3, <1>4, <1>5, <1>6, <1>7, <1>8
        DEF Next, Server, vars

\* A queue stays one of published events, and the sink drops one for one.
LEMMA PushType ==
  ASSUME NEW n \in Nat, n = published, NEW q \in Seq(1..n)
  PROVE  Push(q) \in Seq(1..(n + 1))
<1>1. q \in Seq(1..(n + 1)) /\ n + 1 \in 1..(n + 1)
  <2>1. 1..n \subseteq 1..(n + 1)
    OBVIOUS
  <2> QED BY <2>1, SeqMonotonic
<1>2. CASE Len(q) = QueueMax
  <2>1. q # <<>>
    BY <1>2, QueueAssumption
  <2>2. Tail(q) \in Seq(1..(n + 1))
    BY <1>1, <2>1, HeadTailProperties
  <2> QED BY <1>1, <1>2, <2>2, AppendProperties DEF Push
<1>3. CASE Len(q) # QueueMax
  BY <1>1, <1>3, AppendProperties DEF Push
<1> QED BY <1>2, <1>3

LEMMA PumpsType ==
  ASSUME WayOK, NEW c \in Sockets, Pumps(c)
  PROVE  WayOK'
<1>1. /\ wire' \in [Sockets -> Nat]
      /\ UNCHANGED <<declared, socket, up, pumping, visits, watching,
                     inflight, taken>>
  BY DEF Pumps, WayOK
<1>2. CASE UNCHANGED <<owned, published, queue>>
  BY <1>1, <1>2 DEF WayOK
<1>3. CASE /\ owned' = owned \cup {c}
           /\ published' = published + 1
           /\ queue' = [b \in Browsers |->
                          IF b \in watching THEN Push(queue[b]) ELSE queue[b]]
  <2>1. PICK n \in Nat : n = published
    BY DEF WayOK
  <2>2. published' = n + 1 /\ n + 1 \in Nat
    BY <1>3, <2>1
  <2>3. ASSUME NEW b \in Browsers
        PROVE  /\ Push(queue[b]) \in Seq(1..(n + 1))
               /\ queue[b] \in Seq(1..(n + 1))
    <3>1. queue[b] \in Seq(1..n)
      BY <2>1 DEF WayOK
    <3>2. 1..n \subseteq 1..(n + 1)
      OBVIOUS
    <3> QED BY <2>1, <3>1, <3>2, PushType, SeqMonotonic
  <2>4. queue' \in [Browsers -> Seq(1..published')]
    <3>1. queue' \in [Browsers -> Seq(1..(n + 1))]
      BY <1>3, <2>3
    <3> QED BY <2>2, <3>1, Zenon
  <2>5. /\ inflight' \in [Browsers -> 0..published']
        /\ taken' \in [Browsers -> 0..published']
    BY <1>1, <2>1, <2>2 DEF WayOK
  <2>6. owned' \subseteq Sockets
    BY <1>3 DEF WayOK
  <2> QED BY <1>1, <2>2, <2>4, <2>5, <2>6 DEF WayOK
<1> QED BY <1>2, <1>3 DEF Pumps

LEMMA ViewingType ==
  ASSUME WayOK, NEW b \in Browsers,
         Opens(b) \/ Leaves(b) \/ Takes(b) \/ Sends(b)
  PROVE  WayOK'
<1>0. published \in Nat
  BY DEF WayOK
<1>1. CASE Opens(b)
  BY <1>0, <1>1, BoundAssumption DEF Opens, WayOK, link, hub
<1>2. CASE Leaves(b)
  BY <1>0, <1>2 DEF Leaves, WayOK, link, hub
<1>3. CASE Takes(b)
  <2>1. PICK s \in Seq(1..published) : s = queue[b] /\ s # <<>>
    BY <1>3 DEF Takes, WayOK
  <2>2. Head(s) \in 1..published /\ Tail(s) \in Seq(1..published)
    BY <2>1, HeadTailProperties
  <2>3. Head(s) \in 0..published
    BY <1>0, <2>2
  <2>4. /\ inflight' = [inflight EXCEPT ![b] = Head(s)]
        /\ taken' = [taken EXCEPT ![b] = Head(s)]
        /\ queue' = [queue EXCEPT ![b] = Tail(s)]
        /\ UNCHANGED <<visits, watching, link, hub>>
    BY <1>3, <2>1 DEF Takes
  <2> QED BY <2>2, <2>3, <2>4 DEF WayOK, link, hub
<1>4. CASE Sends(b)
  BY <1>0, <1>4 DEF Sends, WayOK, link, hub
<1> QED BY <1>1, <1>2, <1>3, <1>4

LEMMA WayType ==
  ASSUME WayOK, [Next]_vars
  PROVE  WayOK'
<1>1. CASE UNCHANGED <<link, hub, browser>>
  BY <1>1 DEF WayOK, link, hub, browser
<1>2. CASE Server
  BY <1>1, <1>2 DEF Server, ServerWrites, LogGoes, LogAppears, LogTruncated
<1>3. CASE \/ TailStarts \/ TailCancelled \/ Stats \/ Reads \/ OpenFails
  BY <1>1, <1>3 DEF TailStarts, TailCancelled, Stats, Reads, OpenFails
<1>4. CASE Emits
  <2>1. wire' \in [Sockets -> Nat]
    BY <1>4 DEF Emits, WayOK
  <2> QED BY <1>4, <2>1 DEF Emits, WayOK, hub, browser
<1>5. CASE LinkDrops
  <2>1. wire' \in [Sockets -> Nat]
    BY <1>5 DEF LinkDrops, WayOK
  <2>2. up' \in BOOLEAN
    BY <1>5 DEF LinkDrops
  <2> QED BY <1>5, <2>1, <2>2 DEF LinkDrops, WayOK, hub, browser
<1>6. CASE Redials
  <2>1. socket' \in Sockets /\ pumping' \subseteq Sockets
    BY <1>6, BoundAssumption DEF Redials, WayOK, Sockets
  <2>2. up' \in BOOLEAN
    BY <1>6 DEF Redials
  <2> QED BY <1>6, <2>1, <2>2 DEF Redials, WayOK, hub, browser
<1>7. CASE PumpEnds
  <2>1. wire' \in [Sockets -> Nat] /\ pumping' \subseteq Sockets
    BY <1>7 DEF PumpEnds, WayOK
  <2> QED BY <1>7, <2>1 DEF PumpEnds, WayOK, hub, browser
<1>8. CASE Undeclared
  <2>1. declared' \in BOOLEAN
    BY <1>8 DEF Undeclared
  <2> QED BY <1>8, <2>1 DEF Undeclared, WayOK, link, browser
<1>9. CASE UNCHANGED vars
  BY <1>1, <1>9 DEF vars
<1> QED BY <1>2, <1>3, <1>4, <1>5, <1>6, <1>7, <1>8, <1>9, PumpsType,
           ViewingType
        DEF Next, Tailing, Link, Viewing

\* With the types: a file that is there has a number, and no line is empty.
ShapeInv ==
  /\ log.there => log.gen # 0
  /\ \A i \in DOMAIN lines : lines[i] # <<>>

TypeInv == TypeOK /\ ShapeInv

LEMMA SplitType ==
  ASSUME NEW p \in Nat, NEW text, Consecutive(text, p),
         NEW m, m = LinesBy(p, Len(text)), NEW s, s = Split(text)
  PROVE  /\ m \in Nat /\ s \in Seq(Seq(Halves)) /\ Len(s) = m
         /\ s = <<>> <=> m = 0
         /\ \A i \in 1..m : s[i] # <<>>
<1>1. m \in Nat /\ DOMAIN s = 1..m
  BY SplitIs
<1>2. \A i \in 1..m : s[i] \in Seq(Halves) /\ s[i] # <<>>
  BY LineIs DEF LineAt
<1>3. s = [i \in 1..m |-> s[i]]
  BY <1>1 DEF Split
<1>4. s \in [1..m -> Seq(Halves)]
  BY <1>2, <1>3, Zenon
<1>5. s \in Seq(Seq(Halves)) /\ Len(s) = m
  BY <1>1, <1>4, SeqDef
<1> QED BY <1>1, <1>2, <1>5

\* The text a poll splits, what was held back and the file from the offset to
\* its end, is without a gap from p on.
End == IF log.size > pos THEN log.size ELSE pos

ReadFrom(p, text) ==
  /\ p \div 2 = pos \div 2
  /\ \/ buf = <<>> /\ p = pos
     \/ buf # <<>> /\ p + 1 = pos /\ Len(text) # 0 /\ text[1] = buf[1]
  /\ Consecutive(text, p)
  /\ p + Len(text) = End
  /\ \A i \in 1..Len(text) :
       (buf = <<>> \/ i # 1) => text[i].gen = log.gen

LEMMA ChunkType ==
  ASSUME TypeInv, log.there
  PROVE  /\ Chunk \in Seq(Halves) /\ Len(Chunk) \in Nat
         /\ pos \in Nat /\ pos + Len(Chunk) = End
         /\ \A i \in 1..Len(Chunk) :
              Chunk[i].gen = log.gen /\ Chunk[i].k = pos + i
<1>1. /\ log.size \in 0..MaxHalves /\ pos \in 0..MaxHalves
      /\ log.gen \in 1..MaxFiles /\ MaxHalves \in Nat
  BY BoundAssumption DEF TypeInv, ShapeInv, TypeOK, LogOK, FollowerOK
<1>2. PICK n \in Nat : n = IF log.size > pos THEN log.size - pos ELSE 0
  BY <1>1
<1>3. Chunk = [i \in 1..n |-> Half(log.gen, pos + i)]
  BY <1>2 DEF Chunk
<1>4. ASSUME NEW i \in 1..n
      PROVE  /\ Half(log.gen, pos + i) \in Halves
             /\ Half(log.gen, pos + i).gen = log.gen
             /\ Half(log.gen, pos + i).k = pos + i
  BY <1>1, <1>2 DEF Half, Halves
<1>5. Chunk \in [1..n -> Halves]
  BY <1>3, <1>4
<1>6. Chunk \in Seq(Halves) /\ Len(Chunk) = n
  BY <1>5, SeqDef
<1>7. \A i \in 1..n : Chunk[i] = Half(log.gen, pos + i)
  BY <1>3
<1>8. pos + n = End
  BY <1>1, <1>2 DEF End
<1>9. \A i \in 1..n : Chunk[i].gen = log.gen /\ Chunk[i].k = pos + i
  BY <1>4, <1>7, Zenon
<1> QED BY <1>1, <1>6, <1>8, <1>9

LEMMA Reading ==
  ASSUME TypeInv, log.there, NEW text, text = buf \o Chunk
  PROVE  \E p \in Nat : ReadFrom(p, text)
<1> DEFINE c == Chunk
           d == Len(Chunk)
<1>1. /\ c \in Seq(Halves) /\ d \in Nat /\ d = Len(c)
      /\ pos \in Nat /\ pos + d = End
      /\ \A i \in 1..d : c[i].gen = log.gen /\ c[i].k = pos + i
  BY ChunkType
<1>2. text = buf \o c
  OBVIOUS
<1> HIDE DEF c, d
<1>3. CASE buf = <<>>
  <2>1. text = c
    BY <1>1, <1>2, <1>3, ConcatEmptySeq
  <2>2. Consecutive(text, pos)
    BY <1>1, <2>1 DEF Consecutive
  <2>3. \A i \in 1..Len(text) : text[i].gen = log.gen
    BY <1>1, <2>1
  <2>4. ReadFrom(pos, text)
    BY <1>1, <1>3, <2>1, <2>2, <2>3 DEF ReadFrom
  <2> QED BY <1>1, <2>4
<1>4. CASE buf # <<>>
  <2>1. /\ buf \in Seq(Halves) /\ Len(buf) = 1
        /\ buf[1] \in Halves /\ buf[1].k = pos /\ pos % 2 # 0
    <3>1. PICK h \in Halves : buf = <<h>>
      BY <1>4 DEF TypeInv, TypeOK, FollowerOK
    <3>2. buf[1].k = pos /\ ~EndsLine(buf[1])
      BY <1>4 DEF TypeInv, TypeOK, FollowerOK
    <3> QED BY <3>1, <3>2 DEF EndsLine
  <2>2. PICK p \in Nat : p + 1 = pos /\ p \div 2 = pos \div 2
    <3>1. PICK v \in Nat : v = pos
      BY <1>1
    <3>2. v % 2 # 0
      BY <2>1, <3>1
    <3>3. v - 1 \in Nat /\ (v - 1) + 1 = v /\ (v - 1) \div 2 = v \div 2
      BY <3>2
    <3> QED BY <3>1, <3>3
  <2>3. /\ text \in Seq(Halves) /\ Len(text) = 1 + d
        /\ \A i \in 1..1 + d : text[i] = IF i <= 1 THEN buf[1] ELSE c[i - 1]
    <3>1. /\ text \in Seq(Halves) /\ Len(text) = Len(buf) + Len(c)
          /\ \A i \in 1..Len(buf) + Len(c) :
               text[i] = IF i <= Len(buf) THEN buf[i] ELSE c[i - Len(buf)]
      <4>1. PICK b \in Seq(Halves) : b = buf
        BY <2>1
      <4>2. /\ b \o c \in Seq(Halves) /\ Len(b \o c) = Len(b) + Len(c)
            /\ \A i \in 1..Len(b) + Len(c) :
                 (b \o c)[i] = IF i <= Len(b) THEN b[i] ELSE c[i - Len(b)]
        BY <1>1, ConcatProperties
      <4> QED BY <1>2, <4>1, <4>2
    <3>2. \A i \in 1..1 + d : text[i] = IF i <= 1 THEN buf[i] ELSE c[i - 1]
      BY <1>1, <2>1, <3>1
    <3> QED BY <1>1, <2>1, <3>1, <3>2
  <2>4. text[1] = buf[1]
    BY <1>1, <2>3
  <2>5. ASSUME NEW i \in 1..1 + d, i # 1
        PROVE  text[i].k = p + i /\ text[i].gen = log.gen
    <3>1. i - 1 \in 1..d
      BY <1>1, <2>5
    <3>2. text[i] = c[i - 1]
      BY <1>1, <2>3, <2>5
    <3>3. c[i - 1].gen = log.gen /\ c[i - 1].k = pos + (i - 1)
      BY <1>1, <3>1
    <3>4. pos + (i - 1) = p + i
      BY <2>2, <2>5
    <3> QED BY <3>2, <3>3, <3>4
  <2>6. \A i \in 1..Len(text) : text[i].k = p + i
    BY <1>1, <2>1, <2>2, <2>3, <2>4, <2>5
  <2>7. Consecutive(text, p)
    BY <2>3, <2>6 DEF Consecutive
  <2>8. p + Len(text) = End
    BY <1>1, <2>2, <2>3
  <2>9. ReadFrom(p, text)
    <3>1. p \div 2 = pos \div 2
      BY <1>1, <2>2
    <3>2. buf # <<>> /\ p + 1 = pos /\ Len(text) # 0 /\ text[1] = buf[1]
      BY <1>1, <1>4, <2>2, <2>3, <2>4
    <3>3. \A i \in 1..Len(text) : i # 1 => text[i].gen = log.gen
      BY <1>1, <2>3, <2>5
    <3> QED BY <1>4, <2>7, <2>8, <3>1, <3>2, <3>3 DEF ReadFrom
  <2> QED BY <2>9
<1> QED BY <1>3, <1>4

\* What a poll leaves to emit and to hold back.
LEMMA ReadsSplits ==
  ASSUME TypeInv, Reads
  PROVE  \E p, text, m :
           /\ p \in Nat /\ text = buf \o Chunk /\ ReadFrom(p, text)
           /\ m = LinesBy(p, Len(text)) /\ m \in Nat
           /\ lines' = Split(text) /\ buf' = Rest(text)
           /\ lines' \in Seq(Seq(Halves)) /\ Len(lines') = m
           /\ lines' = <<>> <=> m = 0
           /\ at' = IF m = 0 THEN "stat" ELSE "emit"
           /\ pos' = End /\ End \in Nat
<1> DEFINE text == buf \o Chunk
<1>1. log.there
  BY DEF Reads
<1>2. PICK p \in Nat : ReadFrom(p, text)
  BY <1>1, Reading
<1>3. /\ lines' = Split(text) /\ buf' = Rest(text)
      /\ at' = IF Ends(text) = {} THEN "stat" ELSE "emit"
      /\ pos' = pos + Len(Chunk)
  BY DEF Reads
<1> HIDE DEF text
<1>4. Consecutive(text, p)
  BY <1>2 DEF ReadFrom
<1>5. PICK m : m = LinesBy(p, Len(text))
  OBVIOUS
<1>6. /\ m \in Nat /\ lines' \in Seq(Seq(Halves)) /\ Len(lines') = m
      /\ lines' = <<>> <=> m = 0
  BY <1>3, <1>4, <1>5, SplitType
<1>7. Ends(text) = {} <=> m = 0
  BY <1>4, <1>5, SplitIs
<1>8. pos' = End /\ End \in Nat
  BY <1>1, <1>3, ChunkType
<1> QED BY <1>2, <1>3, <1>5, <1>6, <1>7, <1>8 DEF text

LEMMA ReadsType ==
  ASSUME TypeInv, Reads
  PROVE  FollowerOK' /\ \A i \in DOMAIN lines' : lines'[i] # <<>>
<1>1. PICK p, text, m :
        /\ p \in Nat /\ text = buf \o Chunk /\ ReadFrom(p, text)
        /\ m = LinesBy(p, Len(text)) /\ m \in Nat
        /\ lines' = Split(text) /\ buf' = Rest(text)
        /\ lines' \in Seq(Seq(Halves)) /\ Len(lines') = m
        /\ lines' = <<>> <=> m = 0
        /\ at' = IF m = 0 THEN "stat" ELSE "emit"
        /\ pos' = End /\ End \in Nat
  BY ReadsSplits
<1> p \in Nat
  BY <1>1
<1>2. Consecutive(text, p) /\ p + Len(text) = End
  BY <1>1 DEF ReadFrom
<1>3. \A i \in DOMAIN lines' : lines'[i] # <<>>
  BY <1>1, <1>2, SplitType
<1>4. /\ log.gen \in 1..MaxFiles /\ log.size \in 0..MaxHalves
      /\ pos \in 0..MaxHalves
  BY BoundAssumption DEF TypeInv, ShapeInv, TypeOK, LogOK, FollowerOK, Reads
<1>5. pos' \in 0..MaxHalves
  BY <1>1, <1>4 DEF End
<1>6. /\ at' \in {"off", "stat", "read", "emit"}
      /\ at' = "emit" <=> lines' # <<>>
  BY <1>1
<1>7. /\ buf' \in {<<>>} \cup {<<h>> : h \in Halves}
      /\ buf' # <<>> => buf'[1].k = pos' /\ ~EndsLine(buf'[1])
  <2>1. PICK n : n = Len(text)
    OBVIOUS
  <2>2. CASE Rest(text) = <<>>
    BY <1>1, <2>2
  <2>3. CASE /\ n \in Nat \ {0} /\ (p + n) % 2 = 1
             /\ text[n] \in Halves /\ text[n].k = p + n
             /\ Rest(text) = <<text[n]>>
    <3>1. PICK h \in Halves : h = text[n]
      BY <2>3
    <3>2. buf' = <<h>> /\ h.k = pos'
      BY <1>1, <1>2, <2>1, <2>3, <3>1
    <3>3. ~EndsLine(h)
      BY <2>3, <3>1 DEF EndsLine
    <3> QED BY <3>2, <3>3
  <2> QED BY <1>2, <2>1, <2>2, <2>3, RestIs
<1>8. misread' \subseteq 1..MaxFiles
  BY <1>4 DEF Reads, TypeInv, TypeOK, FollowerOK
<1>9. UNCHANGED <<ident, started, tails, seen, last>>
  BY DEF Reads
<1> QED BY <1>1, <1>3, <1>5, <1>6, <1>7, <1>8, <1>9
        DEF TypeInv, TypeOK, FollowerOK

\* The line at the head is emitted.
LEMMA HeadLine ==
  ASSUME TypeInv, at = "emit"
  PROVE  /\ lines # <<>> /\ Len(lines) \in Nat \ {0}
         /\ Head(lines) = lines[1] /\ lines[1] \in Seq(Halves)
         /\ lines[1] # <<>> /\ LastHalf(lines[1]) \in Halves
         /\ Tail(lines) \in Seq(Seq(Halves))
         /\ Len(Tail(lines)) = Len(lines) - 1
         /\ \A i \in 1..Len(Tail(lines)) :
              Tail(lines)[i] = lines[i + 1] /\ i + 1 \in 1..Len(lines)
<1>1. PICK s \in Seq(Seq(Halves)) : s = lines /\ s # <<>>
  BY DEF TypeInv, TypeOK, FollowerOK
<1>2. /\ Len(s) \in Nat \ {0} /\ Head(s) = s[1]
      /\ Tail(s) \in Seq(Seq(Halves)) /\ Len(Tail(s)) = Len(s) - 1
      /\ \A i \in 1..Len(Tail(s)) : Tail(s)[i] = s[i + 1]
  BY <1>1, EmptySeq, HeadTailProperties
<1>3. \A i \in 1..Len(Tail(s)) : i + 1 \in 1..Len(s)
  BY <1>2
<1>4. s[1] \in Seq(Halves) /\ s[1] # <<>>
  BY <1>1, <1>2 DEF TypeInv, ShapeInv
<1>5. PICK l \in Seq(Halves) : l = s[1] /\ l # <<>>
  BY <1>4
<1>6. Len(l) \in Nat \ {0}
  BY <1>5, EmptySeq
<1>7. LastHalf(l) \in Halves
  BY <1>6 DEF LastHalf
<1> QED BY <1>1, <1>2, <1>3, <1>4, <1>5, <1>7

LEMMA EmitsType ==
  ASSUME TypeInv, Emits
  PROVE  FollowerOK' /\ \A i \in DOMAIN lines' : lines'[i] # <<>>
<1>1. at = "emit"
  BY DEF Emits
<1>2. /\ lines' = Tail(lines) /\ lines' \in Seq(Seq(Halves))
      /\ \A i \in 1..Len(lines') : lines'[i] = lines[i + 1]
                                     /\ i + 1 \in 1..Len(lines)
  BY <1>1, HeadLine DEF Emits
<1>3. \A i \in DOMAIN lines' : lines'[i] # <<>>
  BY <1>2 DEF TypeInv, ShapeInv, TypeOK, FollowerOK
<1>4. PICK h \in Halves : /\ h = LastHalf(lines[1])
                          /\ last' = [gen |-> h.gen, n |-> h.k \div 2,
                                      first |-> FALSE]
  BY <1>1, HeadLine DEF Emits, LastHalf
<1>5. last' \in [gen : 0..MaxFiles, n : 0..MaxHalves, first : BOOLEAN]
  <2>1. h.gen \in 0..MaxFiles /\ h.k \div 2 \in 0..MaxHalves
    BY BoundAssumption DEF Halves
  <2> QED BY <1>4, <2>1
<1>6. /\ at' \in {"off", "stat", "read", "emit"}
      /\ at' = "emit" <=> lines' # <<>>
  BY DEF Emits
<1>7. UNCHANGED <<pos, ident, started, buf, tails, seen, misread>>
  BY DEF Emits
<1> QED BY <1>2, <1>3, <1>5, <1>6, <1>7 DEF TypeInv, TypeOK, FollowerOK

LEMMA StatsType ==
  ASSUME TypeInv, Stats
  PROVE  FollowerOK'
<1>1. /\ log.gen \in 0..MaxFiles /\ log.size \in 0..MaxHalves
      /\ log.ident \in Nat /\ pos \in 0..MaxHalves /\ MaxHalves \in Nat
      /\ lines = <<>>
  BY BoundAssumption DEF TypeInv, TypeOK, LogOK, FollowerOK, Stats
<1>2. /\ pos' \in 0..MaxHalves /\ at' \in {"read", "stat"}
      /\ ident' \in Nat /\ seen' \in 0..MaxFiles
  BY <1>1 DEF Stats, TypeInv, TypeOK, FollowerOK
<1>3. started' \in BOOLEAN
  BY DEF Stats
<1>4. buf' = <<>> \/ (buf' = buf /\ pos' = pos)
  BY DEF Stats, Held, Keeps
<1>5. last' \in [gen : 0..MaxFiles, n : 0..MaxHalves, first : BOOLEAN]
  <2>1. CASE started
    BY <2>1 DEF Stats, TypeInv, TypeOK, FollowerOK
  <2>2. CASE ~started
    <3>1. log.size \div 2 \in 0..MaxHalves
      BY <1>1
    <3>2. last' = [gen |-> log.gen, n |-> log.size \div 2, first |-> TRUE]
      BY <2>2 DEF Stats
    <3> QED BY <1>1, <3>1, <3>2
  <2> QED BY <2>1, <2>2
<1>6. UNCHANGED <<lines, tails, misread>>
  BY DEF Stats
<1> QED BY <1>1, <1>2, <1>3, <1>4, <1>5, <1>6 DEF TypeInv, TypeOK, FollowerOK

LEMMA FollowerType ==
  ASSUME TypeInv, [Next]_vars
  PROVE  FollowerOK' /\ \A i \in DOMAIN lines' : lines'[i] # <<>>
<1>1. CASE UNCHANGED follower
  BY <1>1 DEF follower, TypeInv, ShapeInv, TypeOK, FollowerOK
<1>2. CASE Server
  BY <1>1, <1>2 DEF Server, ServerWrites, LogGoes, LogAppears, LogTruncated
<1>3. CASE TailStarts
  <2>1. /\ at' = "stat" /\ lines' = <<>> /\ pos' = 0 /\ ident' = 0
        /\ buf' = <<>> /\ tails' \in 0..MaxTails
    BY <1>3, BoundAssumption
       DEF TailStarts, TypeInv, TypeOK, FollowerOK, NoIdent
  <2>2. started' \in BOOLEAN
    BY <1>3 DEF TailStarts
  <2>3. 0 \in 0..MaxHalves
    BY BoundAssumption
  <2> QED BY <1>3, <2>1, <2>2, <2>3 DEF TailStarts, TypeInv, TypeOK, FollowerOK
<1>4. CASE TailCancelled
  <2>1. /\ at' = "off" /\ lines' = <<>>
        /\ UNCHANGED <<pos, ident, started, buf, tails, seen, misread, last>>
    BY <1>4 DEF TailCancelled
  <2>2. <<>> \in Seq(Seq(Halves))
    BY EmptySeq
  <2> QED BY <2>1, <2>2 DEF TypeInv, TypeOK, FollowerOK
<1>5. CASE OpenFails
  <2>1. /\ at' = "stat" /\ lines' = <<>> /\ lines = <<>>
        /\ UNCHANGED <<pos, ident, started, buf, tails, seen, misread, last>>
    BY <1>5 DEF OpenFails, TypeInv, TypeOK, FollowerOK
  <2> QED BY <2>1 DEF TypeInv, TypeOK, FollowerOK
<1>6. CASE Stats
  <2>1. UNCHANGED lines
    BY <1>6 DEF Stats
  <2> QED BY <1>6, <2>1, StatsType DEF TypeInv, ShapeInv
<1>7. CASE Link
  BY <1>1, <1>7 DEF Link, LinkDrops, Redials, PumpEnds, Pumps, follower
<1>8. CASE Undeclared \/ Viewing \/ UNCHANGED vars
  BY <1>1, <1>8 DEF Undeclared, Viewing, Opens, Leaves, Takes, Sends, vars
<1> QED BY <1>2, <1>3, <1>4, <1>5, <1>6, <1>7, <1>8, ReadsType, EmitsType
        DEF Next, Tailing

\* A file is there only with a number.
LEMMA LogThere ==
  ASSUME LogOK, log.there => log.gen # 0, [Next]_vars
  PROVE  log'.there => log'.gen # 0
<1>1. CASE UNCHANGED file
  BY <1>1 DEF file
<1>2. CASE ServerWrites
  BY <1>2 DEF ServerWrites, LogOK
<1>3. CASE LogGoes
  BY <1>3 DEF LogGoes, LogOK
<1>4. CASE LogAppears
  BY <1>4 DEF LogAppears, LogOK
<1>5. CASE LogTruncated
  BY <1>5 DEF LogTruncated, LogOK
<1>6. CASE Tailing
  BY <1>1, <1>6 DEF Tailing, TailStarts, TailCancelled, Stats, Reads,
                    OpenFails, Emits
<1>7. CASE Link
  BY <1>1, <1>7 DEF Link, LinkDrops, Redials, PumpEnds, Pumps
<1>8. CASE Undeclared \/ Viewing \/ UNCHANGED vars
  BY <1>1, <1>8 DEF Undeclared, Viewing, Opens, Leaves, Takes, Sends, vars
<1> QED BY <1>2, <1>3, <1>4, <1>5, <1>6, <1>7, <1>8 DEF Next, Server

LEMMA InitTypes == Init => TypeInv
<1> SUFFICES ASSUME Init PROVE TypeInv
  OBVIOUS
<1>1. LogOK /\ (log.there => log.gen # 0)
  <2>1. CASE log = [there |-> FALSE, gen |-> 0, ident |-> NoIdent, size |-> 0]
    BY <2>1, BoundAssumption DEF LogOK, NoIdent
  <2>2. CASE \E n \in 0..MaxHalves :
               log = [there |-> TRUE, gen |-> 1, ident |-> 1, size |-> n]
    BY <2>2, BoundAssumption DEF LogOK
  <2> QED BY <2>1, <2>2 DEF Init
<1>2. FollowerOK
  <2>1. /\ at = "off" /\ lines = <<>> /\ buf = <<>> /\ pos = 0 /\ ident = 0
        /\ tails = 0 /\ seen = 0 /\ misread = {}
    BY DEF Init, NoIdent
  <2>2. started \in BOOLEAN
    BY DEF Init
  <2>3. last \in [gen : 0..MaxFiles, n : 0..MaxHalves, first : BOOLEAN]
    BY BoundAssumption DEF Init
  <2> QED BY <2>1, <2>2, <2>3, BoundAssumption, EmptySeq DEF FollowerOK
<1>3. WayOK
  <2>1. up \in BOOLEAN /\ declared \in BOOLEAN
    BY DEF Init
  <2>2. socket \in Sockets /\ pumping \subseteq Sockets
    BY BoundAssumption DEF Init, Sockets
  <2> QED BY <2>1, <2>2, BoundAssumption, EmptySeq DEF Init, WayOK
<1> QED BY <1>1, <1>2, <1>3 DEF TypeInv, TypeOK, ShapeInv, Init

LEMMA NextTypes == TypeInv /\ [Next]_vars => TypeInv'
BY LogType, LogThere, FollowerType, WayType DEF TypeInv, TypeOK, ShapeInv

\* Everything between the log and the browsers keeps its type: the follower
\* never holds back more than the half line its offset stands behind, and what
\* waits for a browser was published.
THEOREM TypeCorrect == Spec => []TypeOK
<1>1. TypeInv => TypeOK
  BY DEF TypeInv
<1> QED BY <1>1, InitTypes, NextTypes, PTL DEF Spec

-----------------------------------------------------------------------------
(* Lines are whole and follow on *)

\* While the file the follower settled on is the one at the path, its offset
\* and its identity are of that file.
OffsetInv ==
  /\ seen <= log.gen
  /\ started /\ log.gen = seen => pos <= log.size /\ ident = log.ident

\* What is held back is of the file settled on, or was misread for it, and a
\* follower whose offset is in mid-line holds the first half back, unless it
\* began there.
BufInv ==
  /\ started /\ buf # <<>> =>
       /\ seen <= buf[1].gen /\ buf[1].gen <= log.gen
       /\ buf[1].gen = seen \/ buf[1].gen \in misread
  /\ started /\ buf = <<>> /\ pos % 2 = 1 => last.first /\ lines = <<>>

\* Where the offset stands, the line emitted last ends, in the same file or in
\* one before; else one of the two files was misread.
Abreast ==
  \/ seen \in misread
  \/ last.gen = seen /\ last.n = pos \div 2
  \/ last.gen < seen /\ pos < 2
  \/ last.gen > seen

LastInv ==
  /\ last.gen <= log.gen
  /\ last.gen > seen => last.gen \in misread
  /\ at = "read" => started
  /\ started /\ at \in {"stat", "read"} => Abreast

\* The lines split off are whole and of one file, and numbered up to the
\* offset.  But they may be misread, or the first the half line the follower
\* began in.
WholeOrMisread(text) == WholeLine(text) \/ LastHalf(text).gen \in misread

LineInv(i) ==
  LET h == LastHalf(lines[i])
  IN /\ h.gen = LastHalf(lines[1]).gen
     /\ h.k \div 2 + Len(lines) = pos \div 2 + i
     /\ \/ WholeOrMisread(lines[i])
        \/ i = 1 /\ last.first /\ lines[i] = <<h>>

\* The next of them follows on from the line emitted last.
FollowsOn(h) ==
  \/ h.gen \in misread
  \/ h.gen = last.gen /\ h.k \div 2 = last.n + 1
  \/ h.gen > last.gen /\ h.k \div 2 = 1

NextLineInv ==
  LET h == LastHalf(lines[1])
  IN /\ h.gen <= log.gen
     /\ h.gen = seen \/ (h.gen > seen /\ h.gen \in misread)
     /\ FollowsOn(h)

LinesInv ==
  lines # <<>> => /\ started
                  /\ NextLineInv
                  /\ \A i \in 1..Len(lines) : LineInv(i)

TailInv == OffsetInv /\ BufInv /\ LastInv /\ LinesInv

LEMMA HalfNat == \A x \in Nat : x \div 2 \in Nat
OBVIOUS

\* The numbers of the model, as numbers.
LEMMA TailTypes ==
  ASSUME TypeInv
  PROVE  /\ log.gen \in Nat /\ log.size \in Nat /\ pos \in Nat
         /\ seen \in Nat /\ last.gen \in Nat /\ last.n \in Nat
         /\ lines \in Seq(Seq(Halves)) /\ Len(lines) \in Nat
         /\ at = "emit" <=> lines # <<>>
         /\ buf # <<>> => buf[1].gen \in Nat
<1>1. lines \in Seq(Seq(Halves)) /\ (at = "emit" <=> lines # <<>>)
  BY DEF TypeInv, TypeOK, FollowerOK
<1>2. Len(lines) \in Nat
  BY <1>1, LenProperties
<1>3. buf # <<>> => buf[1].gen \in Nat
  <2> SUFFICES ASSUME buf # <<>> PROVE buf[1].gen \in Nat
    OBVIOUS
  <2>1. PICK h \in Halves : buf = <<h>>
    BY DEF TypeInv, TypeOK, FollowerOK
  <2> QED BY <2>1, BoundAssumption DEF Halves
<1>4. /\ log.gen \in 0..MaxFiles /\ log.size \in 0..MaxHalves
      /\ pos \in 0..MaxHalves /\ seen \in 0..MaxFiles
  BY DEF TypeInv, TypeOK, LogOK, FollowerOK
<1>5. last.gen \in 0..MaxFiles /\ last.n \in 0..MaxHalves
  BY DEF TypeInv, TypeOK, FollowerOK
<1> QED BY <1>1, <1>2, <1>3, <1>4, <1>5, BoundAssumption

\* The file is written, moved aside, replaced or truncated.
LEMMA ServerTail ==
  ASSUME TypeInv, TypeInv', TailInv, Server \/ UNCHANGED file,
         UNCHANGED follower
  PROVE  TailInv'
<1>1. /\ log.gen \in Nat /\ log'.gen \in Nat /\ log.size \in Nat
      /\ log'.size \in Nat /\ seen \in Nat /\ pos \in Nat /\ last.gen \in Nat
  <2>1. /\ log'.gen \in 0..MaxFiles /\ log'.size \in 0..MaxHalves
    BY DEF TypeInv, TypeOK, LogOK
  <2> QED BY <2>1, TailTypes, BoundAssumption
<1>2. \/ log'.gen = log.gen /\ log'.ident = log.ident /\ log'.size >= log.size
      \/ log'.gen = log.gen + 1
  <2>1. CASE ServerWrites
    BY <1>1, <2>1 DEF ServerWrites, TypeInv, TypeOK, LogOK
  <2>2. CASE LogGoes
    BY <1>1, <2>2 DEF LogGoes, TypeInv, TypeOK, LogOK
  <2>3. CASE LogAppears
    BY <2>3 DEF LogAppears
  <2>4. CASE LogTruncated
    BY <2>4 DEF LogTruncated, TypeInv, TypeOK, LogOK
  <2>5. CASE UNCHANGED file
    BY <1>1, <2>5 DEF file
  <2> QED BY <2>1, <2>2, <2>3, <2>4, <2>5 DEF Server
<1>3. OffsetInv'
  BY <1>1, <1>2 DEF TailInv, OffsetInv, follower
<1>4. BufInv'
  <2>1. buf # <<>> => buf[1].gen \in Nat
    BY TailTypes
  <2> QED BY <1>1, <1>2, <2>1 DEF TailInv, BufInv, follower
<1>5. LastInv'
  BY <1>1, <1>2 DEF TailInv, LastInv, Abreast, follower
<1>6. LinesInv'
  <2>1. CASE lines = <<>>
    BY <2>1 DEF LinesInv, follower
  <2>2. CASE lines # <<>>
    <3>1. LastHalf(lines[1]).gen \in Nat
      <4>1. LastHalf(lines[1]) \in Halves
        BY <2>2, TailTypes, HeadLine
      <4> QED BY <4>1, BoundAssumption DEF Halves
    <3>2. UNCHANGED <<lines, started, pos, last, misread, seen>>
      BY DEF follower
    <3>3. NextLineInv'
      BY <1>1, <1>2, <2>2, <3>1, <3>2
         DEF TailInv, LinesInv, NextLineInv, FollowsOn, LastHalf
    <3>4. ASSUME NEW i \in 1..Len(lines)
          PROVE  LineInv(i)'
      BY <2>2, <3>2, <3>4 DEF TailInv, LinesInv, LineInv, WholeOrMisread,
         LastHalf
    <3> QED BY <2>2, <3>2, <3>3, <3>4 DEF TailInv, LinesInv
  <2> QED BY <2>1, <2>2
<1> QED BY <1>3, <1>4, <1>5, <1>6 DEF TailInv

\* The follower starts, is cancelled, or finds no file to open.
LEMMA PauseTail ==
  ASSUME TypeInv, TailInv, TailStarts \/ TailCancelled \/ OpenFails
  PROVE  TailInv'
<1>1. CASE TailStarts
  <2>1. /\ ~started' /\ lines' = <<>> /\ at' = "stat"
        /\ UNCHANGED <<seen, misread, last, log>>
    BY <1>1 DEF TailStarts, TypeInv, TypeOK, FollowerOK, file
  <2> QED BY <2>1 DEF TailInv, OffsetInv, BufInv, LastInv, LinesInv
<1>2. CASE TailCancelled
  <2>1. /\ at' = "off" /\ lines' = <<>>
        /\ UNCHANGED <<pos, ident, started, buf, seen, misread, last, log>>
    BY <1>2 DEF TailCancelled, file
  <2>2. OffsetInv' /\ LastInv' /\ LinesInv'
    BY <2>1 DEF TailInv, OffsetInv, LastInv, LinesInv
  <2>3. BufInv'
    BY <2>1 DEF TailInv, BufInv
  <2> QED BY <2>2, <2>3 DEF TailInv
<1>3. CASE OpenFails
  <2>1. /\ at = "read" /\ at' = "stat" /\ lines = <<>> /\ lines' = <<>>
        /\ UNCHANGED <<pos, ident, started, buf, seen, misread, last, log>>
    BY <1>3 DEF OpenFails, TypeInv, TypeOK, FollowerOK, file
  <2>2. OffsetInv' /\ BufInv' /\ LinesInv'
    BY <2>1 DEF TailInv, OffsetInv, BufInv, LinesInv
  <2>3. LastInv'
    BY <2>1 DEF TailInv, LastInv, Abreast
  <2> QED BY <2>2, <2>3 DEF TailInv
<1> QED BY <1>1, <1>2, <1>3

\* A look at the file: either it is the file settled on and long enough, as far
\* as its number tells, or the follower settles on it anew.
LEMMA StatsTail ==
  ASSUME TypeInv, TailInv, Stats
  PROVE  TailInv'
<1>0. /\ log.gen \in Nat /\ log.size \in Nat /\ pos \in Nat
      /\ seen \in Nat /\ last.gen \in Nat /\ last.n \in Nat
      /\ lines = <<>> /\ lines' = <<>> /\ at = "stat"
      /\ at' \in {"stat", "read"} /\ started'
      /\ UNCHANGED <<log, misread>>
  BY TailTypes DEF Stats, TypeInv, TypeOK, FollowerOK, file
<1>1. LinesInv'
  BY <1>0 DEF LinesInv
<1>2. CASE Keeps
  <2>1. /\ started /\ log.size >= pos
        /\ ident' = log.ident
        /\ UNCHANGED <<pos, seen, last>> /\ buf' = buf
    BY <1>0, <1>2 DEF Stats, Keeps, Shrunk, Held
  <2>2. OffsetInv'
    BY <1>0, <2>1 DEF TailInv, OffsetInv
  <2>3. BufInv'
    BY <1>0, <2>1 DEF TailInv, BufInv
  <2>4. LastInv'
    BY <1>0, <2>1 DEF TailInv, LastInv, Abreast
  <2> QED BY <1>1, <2>2, <2>3, <2>4 DEF TailInv
<1>3. CASE ~Keeps
  <2>1. /\ buf' = <<>> /\ seen' = log.gen /\ ident' = log.ident
    BY <1>3 DEF Stats, Held
  <2>2. CASE started
    <3>1. pos' = 0 /\ last' = last
      BY <1>3, <2>2 DEF Stats
    <3>2. seen # log.gen
      BY <1>0, <1>3, <2>2 DEF TailInv, OffsetInv, Keeps, Replaced, Shrunk
    <3>3. OffsetInv'
      BY <1>0, <2>1, <3>1 DEF OffsetInv
    <3>4. BufInv'
      <4>1. pos' % 2 = 0
        BY <3>1
      <4> QED BY <2>1, <4>1 DEF BufInv
    <3>5. LastInv'
      <4>1. last.gen <= log.gen /\ (last.gen > seen => last.gen \in misread)
            /\ seen <= log.gen
        BY DEF TailInv, LastInv, OffsetInv
      <4>2. Abreast'
        BY <1>0, <2>1, <3>1, <3>2, <4>1 DEF Abreast
      <4> QED BY <1>0, <2>1, <3>1, <4>1, <4>2 DEF LastInv
    <3> QED BY <1>1, <3>3, <3>4, <3>5 DEF TailInv
  <2>3. CASE ~started
    <3>1. /\ pos' = log.size
          /\ last' = [gen |-> log.gen, n |-> log.size \div 2, first |-> TRUE]
      BY <2>3 DEF Stats
    <3>2. last'.gen = log.gen /\ last'.n = log.size \div 2 /\ last'.first
      BY <3>1
    <3>3. OffsetInv'
      BY <1>0, <2>1, <3>1 DEF OffsetInv
    <3>4. BufInv'
      BY <1>0, <2>1, <3>2 DEF BufInv
    <3>5. LastInv'
      BY <1>0, <2>1, <3>1, <3>2 DEF LastInv, Abreast
    <3> QED BY <1>1, <3>3, <3>4, <3>5 DEF TailInv
  <2> QED BY <2>2, <2>3
<1> QED BY <1>2, <1>3

\* A line is emitted: the next one follows on from it, and behind the last one
\* stands the offset.
LEMMA EmitsTail ==
  ASSUME TypeInv, TailInv, Emits
  PROVE  TailInv'
<1> DEFINE h == LastHalf(lines[1])
           n == Len(lines)
<1>0. /\ log.gen \in Nat /\ log.size \in Nat /\ pos \in Nat
      /\ seen \in Nat /\ last.gen \in Nat /\ last.n \in Nat
      /\ at = "emit" /\ lines # <<>>
      /\ UNCHANGED <<log, pos, ident, started, buf, seen, misread>>
  BY TailTypes DEF Emits, TypeInv, TypeOK, FollowerOK, file
<1>1. /\ n \in Nat \ {0} /\ h \in Halves /\ Head(lines) = lines[1]
      /\ lines' = Tail(lines) /\ lines' \in Seq(Seq(Halves))
      /\ Len(lines') = n - 1
      /\ \A i \in 1..Len(lines') : lines'[i] = lines[i + 1]
                                     /\ i + 1 \in 1..n
  BY <1>0, HeadLine DEF Emits
<1>2. h.gen \in Nat /\ h.k \in Nat
  BY <1>1, BoundAssumption DEF Halves
<1>3. last' = [gen |-> h.gen, n |-> h.k \div 2, first |-> FALSE]
  BY <1>1 DEF Emits, LastHalf
<1>4. last'.gen = h.gen /\ last'.n = h.k \div 2 /\ ~last'.first
  BY <1>3
<1>5. /\ started
      /\ h.gen <= log.gen
      /\ h.gen = seen \/ (h.gen > seen /\ h.gen \in misread)
      /\ FollowsOn(h)
  BY <1>0 DEF TailInv, LinesInv, NextLineInv
<1>6. \A i \in 1..n : LineInv(i)
  BY <1>0 DEF TailInv, LinesInv
<1>7. h.k \div 2 + n = pos \div 2 + 1
  BY <1>1, <1>6 DEF LineInv
<1>8. at' = IF lines' = <<>> THEN "stat" ELSE "emit"
  BY <1>1 DEF Emits
<1> HIDE DEF h, n
<1>9. OffsetInv'
  BY <1>0 DEF TailInv, OffsetInv
<1>10. BufInv'
  BY <1>0 DEF TailInv, BufInv
<1>11. LastInv'
  <2>1. CASE lines' # <<>>
    BY <1>0, <1>2, <1>4, <1>5, <1>8, <2>1 DEF LastInv
  <2>2. CASE lines' = <<>>
    <3>1. n = 1
      <4>1. Len(lines') = 0
        BY <2>2
      <4> QED BY <1>1, <4>1
    <3>2. h.k \div 2 = pos \div 2
      BY <1>0, <1>2, <1>7, <3>1
    <3>3. Abreast'
      BY <1>0, <1>2, <1>4, <1>5, <3>2 DEF Abreast
    <3> QED BY <1>0, <1>2, <1>4, <1>5, <3>3 DEF LastInv
  <2> QED BY <2>1, <2>2
<1>12. LinesInv'
  <2> SUFFICES ASSUME lines' # <<>>
               PROVE  /\ NextLineInv'
                      /\ \A i \in 1..Len(lines') : LineInv(i)'
    BY <1>0, <1>5 DEF LinesInv
  <2>1. Len(lines') \in Nat \ {0}
    BY <1>1, EmptySeq
  <2>2. PICK g \in Nat, k \in Nat :
          /\ g = LastHalf(lines'[1]).gen /\ k = LastHalf(lines'[1]).k
          /\ g = h.gen /\ k \div 2 = h.k \div 2 + 1
    <3>1. lines'[1] = lines[2] /\ 2 \in 1..n
      BY <1>1, <2>1
    <3>2. LineInv(2)
      BY <1>6, <3>1
    <3>3. LastHalf(lines[2]).gen = h.gen
          /\ LastHalf(lines[2]).k \div 2 + n = pos \div 2 + 2
      BY <3>2 DEF LineInv, h, n
    <3>4. LastHalf(lines[2]) \in Halves
      <4>1. PICK l \in Seq(Halves) : l = lines[2] /\ l # <<>>
        BY <3>1 DEF TypeInv, ShapeInv, TypeOK, FollowerOK, n
      <4>2. Len(l) \in Nat \ {0}
        BY <4>1, EmptySeq
      <4> QED BY <4>1, <4>2 DEF LastHalf
    <3>5. PICK k \in Nat : k = LastHalf(lines[2]).k
      BY <3>4, BoundAssumption DEF Halves
    <3>6. k \div 2 = h.k \div 2 + 1
      <4>1. PICK a \in Nat : a = k \div 2
        BY <3>5, HalfNat
      <4>2. PICK b \in Nat : b = h.k \div 2
        BY <1>2, HalfNat
      <4>3. PICK q \in Nat : q = pos \div 2
        BY <1>0, HalfNat
      <4>4. PICK v \in Nat : v = n
        BY <1>1
      <4>5. a + v = q + 2 /\ b + v = q + 1
        BY <1>7, <3>3, <3>5, <4>1, <4>2, <4>3, <4>4
      <4> QED BY <4>1, <4>2, <4>5
    <3> QED BY <1>2, <3>1, <3>3, <3>5, <3>6
  <2>3. NextLineInv'
    <3>1. FollowsOn(LastHalf(lines[1]))'
      BY <1>4, <2>2 DEF FollowsOn, LastHalf
    <3> QED BY <1>0, <1>5, <2>2, <3>1 DEF NextLineInv, LastHalf
  <2>4. ASSUME NEW i \in 1..Len(lines')
        PROVE  LineInv(i)'
    <3>1. lines'[i] = lines[i + 1] /\ i + 1 \in 1..n /\ i + 1 # 1
      BY <1>1, <2>1
    <3>2. LineInv(i + 1)
      BY <1>6, <3>1
    <3>3. LastHalf(lines'[i]).gen = LastHalf(lines'[1]).gen
      BY <2>2, <3>1, <3>2 DEF LineInv, h
    <3>4. LastHalf(lines'[i]).k \div 2 + Len(lines') = pos' \div 2 + i
      <4>1. PICK l \in Seq(Halves) : l = lines[i + 1] /\ l # <<>>
        BY <3>1 DEF TypeInv, ShapeInv, TypeOK, FollowerOK, n
      <4>2. Len(l) \in Nat \ {0}
        BY <4>1, EmptySeq
      <4>3. LastHalf(l) \in Halves
        BY <4>2 DEF LastHalf
      <4>4. PICK b \in Nat : b = LastHalf(lines[i + 1]).k
        BY <4>1, <4>3, BoundAssumption DEF Halves
      <4>5. b \div 2 + n = pos \div 2 + (i + 1)
        BY <3>2, <4>4 DEF LineInv, n
      <4>6. PICK a \in Nat : a = b \div 2
        BY <4>4, HalfNat
      <4>7. PICK q \in Nat : q = pos \div 2
        BY <1>0, HalfNat
      <4>8. PICK v \in Nat : v = n
        BY <1>1
      <4>9. PICK j \in Nat : j = i
        BY <2>1
      <4>10. a + v = q + (j + 1)
        BY <4>5, <4>6, <4>7, <4>8, <4>9
      <4>11. a + (v - 1) = q + j
        BY <4>10
      <4> QED BY <1>0, <1>1, <3>1, <4>4, <4>6, <4>7, <4>8, <4>9, <4>11
    <3>5. WholeOrMisread(lines[i])'
      BY <1>0, <3>1, <3>2 DEF LineInv, WholeOrMisread
    <3> QED BY <3>3, <3>4, <3>5 DEF LineInv, LastHalf
  <2> QED BY <2>3, <2>4
<1> QED BY <1>9, <1>10, <1>11, <1>12 DEF TailInv

\* What is read, with what was held back before it.
LEMMA ReadText ==
  ASSUME TypeInv, NEW p \in Nat, NEW text, ReadFrom(p, text)
  PROVE  /\ Consecutive(text, p) /\ pos \in Nat /\ Len(text) \in Nat
         /\ p \div 2 = pos \div 2 /\ p + Len(text) = End
         /\ \A i \in 1..Len(text) : text[i] \in Halves /\ text[i].k = p + i
         /\ buf # <<>> => p + 1 = pos /\ p % 2 = 0
         /\ buf = <<>> => p = pos
<1>1. /\ Consecutive(text, p) /\ p \div 2 = pos \div 2
      /\ p + Len(text) = End
      /\ buf # <<>> => p + 1 = pos
      /\ buf = <<>> => p = pos
  BY DEF ReadFrom
<1>2. text \in Seq(Halves) /\ \A i \in 1..Len(text) : text[i].k = p + i
  BY <1>1 DEF Consecutive
<1>3. Len(text) \in Nat /\ \A i \in 1..Len(text) : text[i] \in Halves
  BY <1>2, ElementOfSeq, LenProperties
<1>4. pos \in Nat
  BY TailTypes
<1>5. p + 1 = pos => p % 2 = 0
  BY <1>1, <1>4
<1> QED BY <1>1, <1>2, <1>3, <1>4, <1>5, Zenon

\* A line of what a poll splits off ends in the file just read, and is two
\* halves in a row, the first of which may be the one held back; or it is the
\* half line a follower that holds nothing back began in.
LineRead(line, n) ==
  \E y \in Halves :
    /\ y = LastHalf(line) /\ y.gen = log.gen
    /\ y.k = 2 * (pos \div 2 + n)
    /\ \/ \E x \in Halves :
            /\ line = <<x, y>> /\ x.k = y.k - 1
            /\ x.gen = log.gen \/ (buf # <<>> /\ x = buf[1])
       \/ n = 1 /\ buf = <<>> /\ pos % 2 = 1 /\ line = <<y>>

LEMMA ReadLine ==
  ASSUME TypeInv, NEW p \in Nat, NEW text, ReadFrom(p, text),
         NEW n \in 1..LinesBy(p, Len(text))
  PROVE  LineRead(Split(text)[n], n)
<1>0. /\ Consecutive(text, p) /\ pos \in Nat /\ Len(text) \in Nat
      /\ p \div 2 = pos \div 2
      /\ \A i \in 1..Len(text) : text[i] \in Halves /\ text[i].k = p + i
      /\ buf # <<>> => p % 2 = 0
      /\ buf = <<>> => p = pos
  BY ReadText
<1>1. PICK e : e = EndAt(p, n)
  OBVIOUS
<1>2. LineAt(Split(text)[n], text, p, n, e)
  BY <1>0, <1>1, LineIs
<1>3. buf = <<>> \/ e # 1
  <2>1. CASE buf # <<>>
    <3>1. p % 2 = 0 /\ n \in Nat
      BY <1>0, <2>1
    <3>2. e % 2 = 0
      BY <1>1, <3>1 DEF EndAt
    <3> QED BY <3>2
  <2> QED BY <2>1
<1>4. text[e].gen = log.gen
  BY <1>2, <1>3 DEF ReadFrom, LineAt
<1> USE DEF LineAt
<1>5. CASE /\ e - 1 \in 1..Len(text)
           /\ Split(text)[n] = <<text[e - 1], text[e]>>
  <2>1. text[e - 1] \in Halves /\ text[e - 1].k = p + (e - 1)
    BY <1>0, <1>5
  <2>2. text[e].k = p + e
    BY <1>0, <1>2
  <2>3. p + (e - 1) = (p + e) - 1
    BY <1>2
  <2>4. text[e - 1].gen = log.gen \/ (buf # <<>> /\ text[e - 1] = buf[1])
    BY <1>5 DEF ReadFrom
  <2>5. text[e - 1].k = text[e].k - 1
    BY <2>1, <2>2, <2>3
  <2> QED BY <1>0, <1>2, <1>4, <1>5, <2>1, <2>4, <2>5 DEF LineRead
<1>6. CASE /\ n = 1 /\ e = 1 /\ p % 2 = 1
           /\ Split(text)[n] = <<text[e]>>
  <2>1. buf = <<>> /\ p = pos
    BY <1>0, <1>6
  <2> QED BY <1>0, <1>2, <1>4, <1>6, <2>1 DEF LineRead
<1> QED BY <1>2, <1>5, <1>6

\* The file is read from the offset on, under whatever number it has by now.
LEMMA ReadsTail ==
  ASSUME TypeInv, TailInv, Reads
  PROVE  TailInv'
<1>0. /\ log.gen \in Nat /\ log.size \in Nat /\ pos \in Nat
      /\ seen \in Nat /\ last.gen \in Nat /\ last.n \in Nat
      /\ at = "read" /\ lines = <<>> /\ started
      /\ UNCHANGED <<log, ident, started, seen, last>>
  BY TailTypes DEF Reads, TailInv, LastInv, file
<1>1. PICK p, text, m :
        /\ p \in Nat /\ text = buf \o Chunk /\ ReadFrom(p, text)
        /\ m = LinesBy(p, Len(text)) /\ m \in Nat
        /\ lines' = Split(text) /\ buf' = Rest(text)
        /\ lines' \in Seq(Seq(Halves)) /\ Len(lines') = m
        /\ lines' = <<>> <=> m = 0
        /\ at' = IF m = 0 THEN "stat" ELSE "emit"
        /\ pos' = End /\ End \in Nat
  BY ReadsSplits
<1> p \in Nat
  BY <1>1
<1>2. /\ Consecutive(text, p) /\ p + Len(text) = End /\ Len(text) \in Nat
      /\ p \div 2 = pos \div 2
  BY <1>1, ReadText
<1>3. pos \div 2 + m = pos' \div 2
  <2>1. PICK a \in Nat : a = p \div 2
    BY HalfNat
  <2>2. PICK b \in Nat : b = End \div 2
    BY <1>1, HalfNat
  <2>3. m = b - a
    BY <1>1, <1>2, <2>1, <2>2 DEF LinesBy
  <2>4. a + m = b
    BY <2>1, <2>2, <2>3
  <2> QED BY <1>1, <1>2, <2>1, <2>2, <2>4
<1>4. /\ misread \subseteq misread' /\ seen <= log.gen
      /\ log.gen = seen \/ log.gen \in misread'
  BY DEF Reads, TailInv, OffsetInv
<1>5. OffsetInv'
  BY <1>0, <1>1 DEF TailInv, OffsetInv, End
<1>6. buf # <<>> => /\ seen <= buf[1].gen /\ buf[1].gen <= log.gen
                    /\ buf[1].gen = seen \/ buf[1].gen \in misread
                    /\ buf[1].gen \in Nat
  BY <1>0, TailTypes DEF TailInv, BufInv
<1>7. BufInv'
  <2>0. PICK n \in Nat : n = Len(text)
    BY <1>2
  <2>1. \/ /\ buf' = <<>>
           /\ n = 0 \/ (p + n) % 2 = 0
        \/ /\ n \in Nat \ {0} /\ buf' = <<text[n]>>
    <3>1. \/ /\ Rest(text) = <<>>
             /\ n = 0 \/ (p + n) % 2 = 0
          \/ /\ n \in Nat \ {0} /\ (p + n) % 2 = 1
             /\ text[n] \in Halves /\ text[n].k = p + n
             /\ Rest(text) = <<text[n]>>
      <4>1. Consecutive(text, p)
        BY <1>2
      <4> QED BY <2>0, <4>1, RestIs
    <3> QED BY <1>1, <3>1, Zenon
  <2>2. CASE buf' = <<>> /\ (n = 0 \/ (p + n) % 2 = 0)
    <3>1. pos' % 2 = 0 \/ n = 0
      BY <1>1, <1>2, <2>0, <2>2
    <3>2. CASE n = 0
      <4>1. buf = <<>> /\ p = pos
        BY <1>1, <2>0, <3>2 DEF ReadFrom
      <4>2. m = 0 /\ pos' = pos
        BY <1>0, <1>1, <1>2, <2>0, <3>2, <4>1 DEF LinesBy
      <4>3. pos % 2 = 1 => last.first
        BY <1>0, <4>1 DEF TailInv, BufInv
      <4> QED BY <1>0, <1>1, <2>2, <4>2, <4>3 DEF BufInv
    <3>3. CASE pos' % 2 = 0
      BY <2>2, <3>3 DEF BufInv
    <3> QED BY <3>1, <3>2, <3>3
  <2>3. CASE n \in Nat \ {0} /\ buf' = <<text[n]>>
    <3>1. buf' # <<>> /\ buf'[1] = text[n] /\ n \in 1..n
      BY <2>3
    <3>2. text[n].gen = log.gen \/ (buf # <<>> /\ text[n] = buf[1])
      BY <1>1, <2>0, <3>1 DEF ReadFrom
    <3> QED BY <1>0, <1>4, <1>6, <3>1, <3>2 DEF BufInv
  <2> QED BY <2>1, <2>2, <2>3
<1>8. LastInv'
  <2>1. last.gen <= log.gen /\ (last.gen > seen => last.gen \in misread)
        /\ Abreast
    BY <1>0 DEF TailInv, LastInv
  <2>2. CASE m # 0
    BY <1>0, <1>1, <1>4, <2>1, <2>2 DEF LastInv
  <2>3. CASE m = 0
    <3>1. pos' \div 2 = pos \div 2 /\ pos' \in Nat
      BY <1>0, <1>1, <1>3, <2>3
    <3>2. pos < 2 => pos' < 2
      <4>1. PICK q \in Nat : q = pos'
        BY <3>1
      <4>2. PICK v \in Nat : v = pos
        BY <1>0
      <4>3. q \div 2 = v \div 2
        BY <3>1, <4>1, <4>2
      <4>4. v < 2 => q < 2
        BY <4>3
      <4> QED BY <4>1, <4>2, <4>4
    <3>3. Abreast'
      BY <1>0, <1>4, <2>1, <3>1, <3>2 DEF Abreast
    <3> QED BY <1>0, <1>1, <1>4, <2>1, <2>3, <3>3 DEF LastInv
  <2> QED BY <2>2, <2>3
<1>9. ASSUME NEW n \in 1..m
      PROVE  LineRead(lines'[n], n)
  <2>1. LineRead(Split(text)[n], n)
    BY <1>1, ReadLine
  <2> QED BY <1>1, <2>1
<1>10. LinesInv'
  <2> SUFFICES ASSUME m # 0
               PROVE  /\ NextLineInv'
                      /\ \A n \in 1..m : LineInv(n)'
    BY <1>0, <1>1 DEF LinesInv
  <2>1. 1 \in 1..m
    BY <1>1
  <2>2. PICK z \in Halves : /\ z = LastHalf(lines'[1]) /\ z.gen = log.gen
                            /\ z.k = 2 * (pos \div 2 + 1)
    BY <1>9, <2>1 DEF LineRead
  <2>3. z.k \div 2 = pos \div 2 + 1
    BY <1>0, <2>2
  <2>4. FollowsOn(LastHalf(lines[1]))'
    <3>1. CASE log.gen \in misread'
      BY <2>2, <3>1 DEF FollowsOn, LastHalf
    <3>2. CASE log.gen = seen /\ seen \notin misread
      <4>1. Abreast /\ last.gen <= log.gen
        BY <1>0 DEF TailInv, LastInv
      <4>2. \/ last.gen = seen /\ last.n = pos \div 2
            \/ last.gen < seen /\ pos < 2
        BY <1>0, <3>2, <4>1 DEF Abreast
      <4>3. \/ z.gen = last.gen /\ z.k \div 2 = last.n + 1
            \/ z.gen > last.gen /\ z.k \div 2 = 1
        BY <1>0, <2>2, <2>3, <3>2, <4>2
      <4> QED BY <1>0, <2>2, <4>3 DEF FollowsOn, LastHalf
    <3> QED BY <1>4, <3>1, <3>2
  <2>5. NextLineInv'
    BY <1>0, <1>4, <2>2, <2>4 DEF NextLineInv, LastHalf
  <2>6. ASSUME NEW n \in 1..m
        PROVE  LineInv(n)'
    <3>1. PICK y \in Halves :
            /\ y = LastHalf(lines'[n]) /\ y.gen = log.gen
            /\ y.k = 2 * (pos \div 2 + n)
            /\ \/ \E x \in Halves :
                    /\ lines'[n] = <<x, y>> /\ x.k = y.k - 1
                    /\ x.gen = log.gen \/ (buf # <<>> /\ x = buf[1])
               \/ /\ n = 1 /\ buf = <<>> /\ pos % 2 = 1
                  /\ lines'[n] = <<y>>
      BY <1>9 DEF LineRead
    <3>2. y.k \div 2 + m = pos' \div 2 + n
      <4>1. PICK q \in Nat : q = pos \div 2
        BY <1>0, HalfNat
      <4>2. n \in Nat
        BY <1>1
      <4>3. PICK h \in Nat : h = y.k \div 2 /\ h = q + n
        BY <3>1, <4>1, <4>2
      <4>4. PICK r : r = pos' \div 2
        OBVIOUS
      <4>5. r = q + m
        BY <1>3, <4>1, <4>4
      <4>6. h + m = r + n
        BY <1>1, <4>1, <4>2, <4>3, <4>5
      <4> QED BY <4>3, <4>4, <4>6
    <3>3. CASE n = 1 /\ buf = <<>> /\ pos % 2 = 1 /\ lines'[n] = <<y>>
      <4>1. last.first
        BY <1>0, <3>3 DEF TailInv, BufInv
      <4> QED BY <1>0, <1>1, <2>2, <3>1, <3>2, <3>3, <4>1
              DEF LineInv, LastHalf
    <3>4. CASE \E x \in Halves :
                 /\ lines'[n] = <<x, y>> /\ x.k = y.k - 1
                 /\ x.gen = log.gen \/ (buf # <<>> /\ x = buf[1])
      <4>1. PICK x \in Halves :
              /\ lines'[n] = <<x, y>> /\ x.k = y.k - 1
              /\ x.gen = log.gen \/ (buf # <<>> /\ x = buf[1])
        BY <3>4
      <4>2. CASE log.gen \in misread'
        BY <1>0, <1>1, <2>2, <3>1, <3>2, <4>2
           DEF LineInv, LastHalf, WholeOrMisread
      <4>3. CASE log.gen = seen
        <5>1. x.gen = y.gen
          BY <1>0, <1>6, <3>1, <4>1, <4>3
        <5>2. x = Half(y.gen, y.k - 1)
          BY <4>1, <5>1 DEF Half, Halves
        <5>3. EndsLine(y)
          BY <1>0, <3>1 DEF EndsLine
        <5>4. WholeLine(lines'[n])
          BY <4>1, <5>2, <5>3 DEF WholeLine
        <5> QED BY <1>0, <1>1, <2>2, <3>1, <3>2, <5>4
                DEF LineInv, LastHalf, WholeOrMisread, WholeLine
      <4> QED BY <1>4, <4>2, <4>3
    <3> QED BY <3>1, <3>3, <3>4
  <2> QED BY <2>5, <2>6
<1> QED BY <1>5, <1>7, <1>8, <1>10 DEF TailInv

LEMMA InitTail == Init => TailInv
<1> SUFFICES ASSUME Init PROVE TailInv
  OBVIOUS
<1>1. /\ ~started /\ lines = <<>> /\ at = "off" /\ seen = 0
      /\ last.gen = 0 /\ log.gen \in Nat
  BY DEF Init
<1> QED BY <1>1 DEF TailInv, OffsetInv, BufInv, LastInv, LinesInv

LEMMA NextTail == TypeInv /\ TailInv /\ [Next]_vars => TailInv'
<1> SUFFICES ASSUME TypeInv, TailInv, [Next]_vars
             PROVE  TailInv'
  OBVIOUS
<1>1. TypeInv'
  BY NextTypes
<1>2. CASE Server
  <2>1. UNCHANGED follower
    BY <1>2 DEF Server, ServerWrites, LogGoes, LogAppears, LogTruncated
  <2> QED BY <1>1, <1>2, <2>1, ServerTail
<1>3. CASE Tailing
  BY <1>3, PauseTail, StatsTail, ReadsTail, EmitsTail DEF Tailing
<1>4. CASE Link \/ Undeclared \/ Viewing \/ UNCHANGED vars
  <2>1. UNCHANGED <<file, follower>>
    BY <1>4 DEF Link, LinkDrops, Redials, PumpEnds, Pumps, Undeclared,
       Viewing, Opens, Leaves, Takes, Sends, vars, follower
  <2> QED BY <1>1, <2>1, ServerTail
<1> QED BY <1>2, <1>3, <1>4 DEF Next

\* Whatever the server writes between two polls, and however its log is
\* rotated, deleted or truncated, no emitted line has text of another in it or
\* lacks a part, unless the follower could not tell two files apart.
THEOREM LinesWhole == Spec => []LinesAreWhole
<1>1. TypeInv /\ TailInv => LinesAreWhole
  <2> SUFFICES ASSUME TypeInv, TailInv, NEW i \in DOMAIN lines
               PROVE  LET text == lines[i]
                          h    == text[Len(text)]
                      IN \/ WholeLine(text)
                         \/ h.gen \in misread
                         \/ last.first /\ i = 1 /\ text = <<h>>
    BY DEF LinesAreWhole
  <2>1. lines # <<>> /\ i \in 1..Len(lines)
    BY TailTypes
  <2>2. LineInv(i)
    BY <2>1 DEF TailInv, LinesInv
  <2> QED BY <2>2 DEF LineInv, WholeOrMisread, LastHalf
<1> QED BY <1>1, InitTypes, NextTypes, InitTail, NextTail, PTL DEF Spec

\* Every line of a file is emitted once and in its order, from the first or
\* from where the follower began, and no file is gone back to.
THEOREM LinesFollow == Spec => LinesFollowOn
<1>1. /\ TypeInv /\ TailInv /\ [Next]_vars
      => [last' # last /\ ~last'.first /\ last'.gen \notin misread =>
            \/ last'.gen = last.gen /\ last'.n = last.n + 1
            \/ last'.gen > last.gen /\ last'.n = 1]_vars
  <2> SUFFICES ASSUME TypeInv, TailInv, Next, last' # last, ~last'.first,
                      last'.gen \notin misread
               PROVE  \/ last'.gen = last.gen /\ last'.n = last.n + 1
                      \/ last'.gen > last.gen /\ last'.n = 1
    BY DEF vars, follower
  <2>1. Stats \/ Emits
    BY DEF Next, Server, ServerWrites, LogGoes, LogAppears, LogTruncated,
       Tailing, TailStarts, TailCancelled, Reads, OpenFails, Link, LinkDrops,
       Redials, PumpEnds, Pumps, Undeclared, Viewing, Opens, Leaves, Takes,
       Sends, follower
  <2>2. CASE Stats
    <3>1. last' = [gen |-> log.gen, n |-> log.size \div 2, first |-> TRUE]
      BY <2>2 DEF Stats
    <3> QED BY <3>1
  <2>3. CASE Emits
    <3>1. /\ lines # <<>>
          /\ last' = [gen |-> LastHalf(lines[1]).gen,
                      n |-> LastHalf(lines[1]).k \div 2, first |-> FALSE]
      BY <2>3, HeadLine DEF Emits, LastHalf
    <3>2. FollowsOn(LastHalf(lines[1]))
      BY <3>1 DEF TailInv, LinesInv, NextLineInv
    <3> QED BY <3>1, <3>2 DEF FollowsOn
  <2> QED BY <2>1, <2>2, <2>3
<1> QED BY <1>1, InitTypes, NextTypes, InitTail, NextTail, PTL
        DEF Spec, LinesFollowOn
=============================================================================
