----------------------------- MODULE DuelProofs -----------------------------
(***************************************************************************)
(* A match of two players, for any delays and any line clears.  The        *)
(* inductive invariant, Sound, says that the queue of a player holds one   *)
(* batch at most, that the rows sent at each player are traced, and that   *)
(* status and winner follow from who is alive.  With one batch at most the *)
(* folds over a queue come down to a case or two, and everything in a tick *)
(* is a fact about one player.  That the seats decide nothing follows from *)
(* the same facts, by exchanging the two players in each operator.         *)
(***************************************************************************)
EXTENDS Duel, SequenceTheorems, TLAPS

\* The indices of a queue of one batch, as a fold visits them.
LEMMA OneIndex ==
  ASSUME NEW b
  PROVE  /\ DOMAIN <<b>> = {1} /\ <<b>>[1] = b /\ Max({1}) = 1
         /\ \A s \in SUBSET {1} : s = {} \/ s = {1}
         /\ {1} # {} /\ {1} \ {1} = {} /\ {} \in SUBSET {1} /\ {1} \in SUBSET {1}
<1>1. Max({1}) = 1
  BY DEF Max
<1>2. \A s \in SUBSET {1} : s = {} \/ s = {1}
  OBVIOUS
<1>3. DOMAIN <<b>> = {1} /\ <<b>>[1] = b
  OBVIOUS
<1>4. QED
  BY <1>1, <1>2, <1>3

LEMMA PendingNone == Pending(<<>>) = 0
<1>1. DOMAIN <<>> = {}
  OBVIOUS
<1>2. QED
  BY <1>1 DEF Pending, FoldLeft, MapThenFoldSet

LEMMA PendingOne ==
  ASSUME NEW b, b.amount \in Nat
  PROVE  Pending(<<b>>) = b.amount
<1> DEFINE q == <<b>>
           Taken(iter, s) == IF s = {} THEN 0
                            ELSE LET x == Max(s) IN iter[s \ {x}] + q[x].amount
           Sums(iter) == iter = [s \in SUBSET DOMAIN q |-> Taken(iter, s)]
           f == [s \in SUBSET {1} |-> IF s = {} THEN 0 ELSE b.amount]
           g == CHOOSE iter : Sums(iter)
<1>1. /\ DOMAIN q = {1} /\ q[1] = b /\ Max({1}) = 1
      /\ \A s \in SUBSET {1} : s = {} \/ s = {1}
      /\ {1} # {} /\ {1} \ {1} = {} /\ {} \in SUBSET {1} /\ {1} \in SUBSET {1}
  BY OneIndex
<1>2. Pending(q) = g[DOMAIN q]
  BY DEF Pending, FoldLeft, MapThenFoldSet
<1> HIDE DEF q
<1>3. \A iter : Taken(iter, {}) = 0 /\ Taken(iter, {1}) = iter[{}] + b.amount
  BY <1>1
<1>4. f[{}] = 0 /\ f[{1}] = b.amount
  BY <1>1
<1>5. Sums(f)
  <2>1. \A s \in SUBSET {1} : f[s] = Taken(f, s)
    <3> HIDE DEF f, Taken
    <3>1. Taken(f, {}) = f[{}] /\ Taken(f, {1}) = f[{1}]
      BY <1>3, <1>4
    <3>2. QED
      BY <1>1, <3>1
  <2>2. f = [s \in SUBSET {1} |-> f[s]]
    OBVIOUS
  <2> HIDE DEF f, Taken
  <2>3. [s \in SUBSET {1} |-> f[s]] = [s \in SUBSET {1} |-> Taken(f, s)]
    BY <2>1
  <2>4. f = [s \in SUBSET DOMAIN q |-> Taken(f, s)]
    BY <1>1, <2>2, <2>3
  <2>5. QED
    BY <2>4
<1>6. Sums(g)
  <2> HIDE DEF f, Sums
  <2>1. QED
    BY <1>5
<1>7. \A iter : Sums(iter) => iter[{}] = Taken(iter, {}) /\ iter[{1}] = Taken(iter, {1})
  <2> HIDE DEF Taken
  <2>1. QED
    BY <1>1
<1>8. g[{1}] = b.amount
  <2> HIDE DEF g, Sums, Taken
  <2>1. g[{1}] = Taken(g, {1}) /\ g[{}] = Taken(g, {})
    BY <1>6, <1>7
  <2>2. QED
    BY <2>1, <1>3
<1>9. QED
  BY <1>1, <1>2, <1>8 DEF q

LEMMA CancelNone ==
  ASSUME NEW amount
  PROVE  CancelIncoming(<<>>, amount) = [left |-> amount, queue |-> <<>>]
<1>1. DOMAIN <<>> = {}
  OBVIOUS
<1>2. QED
  BY <1>1 DEF CancelIncoming, FoldLeft, MapThenFoldSet

LEMMA CancelOne ==
  ASSUME NEW b, NEW amount
  PROVE  LET taken == IF b.amount < amount THEN b.amount ELSE amount
         IN  CancelIncoming(<<b>>, amount) =
               [left |-> amount - taken,
                queue |-> IF taken = b.amount THEN <<>>
                          ELSE Append(<<>>, [b EXCEPT !.amount = @ - taken])]
<1> DEFINE q == <<b>>
           none == [left |-> amount, queue |-> <<>>]
           Take(acc, c) ==
               LET taken == IF c.amount < acc.left THEN c.amount ELSE acc.left
               IN  [left |-> acc.left - taken,
                    queue |-> IF taken = c.amount THEN acc.queue
                              ELSE Append(acc.queue, [c EXCEPT !.amount = @ - taken])]
           Taken(iter, s) == IF s = {} THEN none
                             ELSE LET x == Max(s) IN Take(iter[s \ {x}], q[x])
           Cancels(iter) == iter = [s \in SUBSET DOMAIN q |-> Taken(iter, s)]
           f == [s \in SUBSET {1} |-> IF s = {} THEN none ELSE Take(none, b)]
           g == CHOOSE iter : Cancels(iter)
<1>1. /\ DOMAIN q = {1} /\ q[1] = b /\ Max({1}) = 1
      /\ \A s \in SUBSET {1} : s = {} \/ s = {1}
      /\ {1} # {} /\ {1} \ {1} = {} /\ {} \in SUBSET {1} /\ {1} \in SUBSET {1}
  BY OneIndex
<1>2. CancelIncoming(q, amount) = g[DOMAIN q]
  BY DEF CancelIncoming, FoldLeft, MapThenFoldSet
<1>3. Take(none, b) =
        LET taken == IF b.amount < amount THEN b.amount ELSE amount
        IN  [left |-> amount - taken,
             queue |-> IF taken = b.amount THEN <<>>
                       ELSE Append(<<>>, [b EXCEPT !.amount = @ - taken])]
  OBVIOUS
<1> HIDE DEF q, none, Take
<1>4. \A iter : Taken(iter, {}) = none /\ Taken(iter, {1}) = Take(iter[{}], b)
  BY <1>1
<1>5. f[{}] = none /\ f[{1}] = Take(none, b)
  BY <1>1
<1>6. Cancels(f)
  <2>1. \A s \in SUBSET {1} : f[s] = Taken(f, s)
    <3> HIDE DEF f, Taken
    <3>1. Taken(f, {}) = f[{}] /\ Taken(f, {1}) = f[{1}]
      BY <1>4, <1>5
    <3>2. QED
      BY <1>1, <3>1
  <2>2. f = [s \in SUBSET {1} |-> f[s]]
    OBVIOUS
  <2> HIDE DEF f, Taken
  <2>3. [s \in SUBSET {1} |-> f[s]] = [s \in SUBSET {1} |-> Taken(f, s)]
    BY <2>1
  <2>4. f = [s \in SUBSET DOMAIN q |-> Taken(f, s)]
    BY <1>1, <2>2, <2>3
  <2>5. QED
    BY <2>4
<1>7. Cancels(g)
  <2> HIDE DEF f, Cancels
  <2>1. QED
    BY <1>6
<1>8. \A iter : Cancels(iter) => iter[{}] = Taken(iter, {}) /\ iter[{1}] = Taken(iter, {1})
  <2> HIDE DEF Taken
  <2>1. QED
    BY <1>1
<1>9. g[{1}] = Take(none, b)
  <2> HIDE DEF g, Cancels, Taken
  <2>1. g[{1}] = Taken(g, {1}) /\ g[{}] = Taken(g, {})
    BY <1>7, <1>8
  <2>2. QED
    BY <2>1, <1>4
<1>10. CancelIncoming(q, amount) = Take(none, b)
  BY <1>1, <1>2, <1>9
<1>11. QED
  BY <1>3, <1>10 DEF q

\* A queue that holds one batch at most.
ShortQueue(q) == q = <<>> \/ \E b \in Batch : q = <<b>>

LEMMA PendingFacts ==
  ASSUME NEW q, ShortQueue(q)
  PROVE  Pending(q) \in Nat /\ Len(q) <= 1 /\ q \in Seq(Batch)
<1>1. CASE q = <<>>
  BY <1>1, PendingNone
<1>2. CASE \E b \in Batch : q = <<b>>
  <2>1. PICK b \in Batch : q = <<b>>
    BY <1>2
  <2>2. b.amount \in Nat
    BY DEF Batch
  <2>3. QED
    BY <2>1, <2>2, PendingOne
<1>3. QED
  BY <1>1, <1>2 DEF ShortQueue

\* What an attack cancels goes from the queue, and what is left of it found the
\* queue empty.
LEMMA CancelFacts ==
  ASSUME NEW q, ShortQueue(q), NEW amount \in Nat
  PROVE  LET c == CancelIncoming(q, amount)
         IN  /\ c.left \in 0..amount /\ ShortQueue(c.queue)
             /\ Pending(c.queue) + amount = Pending(q) + c.left
             /\ c.left > 0 => c.queue = <<>>
<1> DEFINE c == CancelIncoming(q, amount)
<1>1. CASE q = <<>>
  <2>1. c = [left |-> amount, queue |-> <<>>]
    BY <1>1, CancelNone
  <2> HIDE DEF c
  <2>2. QED
    BY <1>1, <2>1, PendingNone DEF ShortQueue, c
<1>2. ASSUME NEW b \in Batch, q = <<b>>
      PROVE  /\ c.left \in 0..amount /\ ShortQueue(c.queue)
             /\ Pending(c.queue) + amount = Pending(q) + c.left
             /\ c.left > 0 => c.queue = <<>>
  <2> DEFINE taken == IF b.amount < amount THEN b.amount ELSE amount
             rest == [b EXCEPT !.amount = @ - taken]
  <2>1. c = [left |-> amount - taken,
             queue |-> IF taken = b.amount THEN <<>> ELSE Append(<<>>, rest)]
    BY <1>2, CancelOne
  <2>2. b.amount \in Nat /\ taken \in Nat /\ taken <= b.amount /\ taken <= amount
        /\ (taken < amount => taken = b.amount)
    BY DEF Batch
  <2>3. taken # b.amount => rest \in Batch /\ rest.amount = b.amount - taken /\ rest.amount \in Nat
    BY <2>2 DEF Batch
  <2>4. Pending(q) = b.amount
    BY <1>2, <2>2, PendingOne
  <2> HIDE DEF c, taken, rest
  <2>5. Append(<<>>, rest) = <<rest>>
    OBVIOUS
  <2>6. CASE taken = b.amount
    BY <2>1, <2>2, <2>4, <2>6, PendingNone DEF ShortQueue
  <2>7. CASE taken # b.amount
    <3>1. c.queue = <<rest>> /\ c.left = 0 /\ taken = amount
      BY <2>1, <2>2, <2>5, <2>7
    <3>2. Pending(c.queue) = b.amount - amount
      BY <2>3, <2>7, <3>1, PendingOne
    <3>3. QED
      BY <2>2, <2>3, <2>4, <2>7, <3>1, <3>2 DEF ShortQueue
  <2>8. QED
    BY <2>6, <2>7
<1> HIDE DEF c
<1>3. QED
  BY <1>1, <1>2 DEF ShortQueue, c

\* An attack that arrives is added to the queue or destroys as much of it.
LEMMA ReceiveFacts ==
  ASSUME NEW q, ShortQueue(q), NEW b \in Batch
  PROVE  LET c == CancelIncoming(q, b.amount)
         IN  /\ ShortQueue(Receive(q, b)) /\ c.left \in 0..b.amount
             /\ Pending(Receive(q, b)) + b.amount = Pending(q) + 2 * c.left
<1> DEFINE c == CancelIncoming(q, b.amount)
           rest == [b EXCEPT !.amount = c.left]
<1>1. b.amount \in Nat
  BY DEF Batch
<1>2. /\ c.left \in 0..b.amount /\ ShortQueue(c.queue)
      /\ Pending(c.queue) + b.amount = Pending(q) + c.left
      /\ c.left > 0 => c.queue = <<>>
  BY <1>1, CancelFacts
<1>3. Pending(q) \in Nat /\ Pending(c.queue) \in Nat
  BY <1>2, PendingFacts
<1>4. Receive(q, b) = IF c.left = 0 THEN c.queue ELSE Append(c.queue, rest)
  BY DEF Receive
<1> HIDE DEF c
<1>5. CASE c.left = 0
  BY <1>1, <1>2, <1>3, <1>4, <1>5 DEF c
<1>6. CASE c.left # 0
  <2>1. rest \in Batch /\ rest.amount = c.left /\ rest.amount \in Nat
    BY <1>2, <1>6 DEF Batch
  <2> HIDE DEF rest
  <2>2. Receive(q, b) = <<rest>>
    <3>1. c.queue = <<>> /\ Append(<<>>, rest) = <<rest>>
      BY <1>2, <1>6
    <3>2. QED
      BY <1>4, <1>6, <3>1
  <2>3. Pending(Receive(q, b)) = c.left /\ Pending(c.queue) = 0
    BY <1>2, <1>6, <2>1, <2>2, PendingOne, PendingNone
  <2>4. QED
    BY <1>1, <1>2, <1>3, <2>1, <2>2, <2>3 DEF ShortQueue, c
<1>7. QED
  BY <1>5, <1>6

\* A lock without a clear lets in what is due: all of the queue or none of it.
LEMMA DueFacts ==
  ASSUME NEW q, ShortQueue(q), NEW frame \in Nat
  PROVE  LET due == DueCount(q, frame)
         IN  /\ ShortQueue(SubSeq(q, due + 1, Len(q)))
             /\ Pending(SubSeq(q, 1, due)) \in Nat
             /\ Pending(SubSeq(q, 1, due)) + Pending(SubSeq(q, due + 1, Len(q))) = Pending(q)
<1> DEFINE Due(n) == /\ \A i \in 1..n : q[i].readyAtFrame <= frame
                     /\ n < Len(q) => q[n + 1].readyAtFrame > frame
           due == DueCount(q, frame)
           front == SubSeq(q, 1, due)
           back == SubSeq(q, due + 1, Len(q))
<1>1. due = CHOOSE n \in 0..Len(q) : Due(n)
  BY DEF DueCount
<1>2. q \in Seq(Batch) /\ Pending(q) \in Nat
  BY PendingFacts
<1>3. (front = <<>> /\ back = q) \/ (front = q /\ back = <<>>)
  <2>1. CASE q = <<>>
    <3>1. Due(0) /\ 0..Len(q) = {0}
      BY <2>1
    <3> HIDE DEF Due
    <3>2. due = 0
      BY <1>1, <3>1
    <3> HIDE DEF due
    <3>3. QED
      BY <1>2, <2>1, <3>2, SubSeqEmpty, SubSeqFull
  <2>2. ASSUME NEW b \in Batch, q = <<b>>
        PROVE  (front = <<>> /\ back = q) \/ (front = q /\ back = <<>>)
    <3>1. Len(q) = 1 /\ q[1] = b /\ b.readyAtFrame \in Nat
      BY <2>2 DEF Batch
    <3>2. Due(0) \/ Due(1)
      BY <3>1
    <3>3. 0..Len(q) = {0, 1}
      BY <3>1
    <3> HIDE DEF Due
    <3>4. due = 0 \/ due = 1
      BY <1>1, <3>2, <3>3
    <3> HIDE DEF due
    <3>5. SubSeq(q, 1, 0) = <<>> /\ SubSeq(q, 1, 1) = q /\ SubSeq(q, 2, 1) = <<>>
      BY <1>2, <3>1, SubSeqEmpty, SubSeqFull
    <3>6. due + 1 = IF due = 0 THEN 1 ELSE 2
      BY <3>4
    <3>7. CASE due = 0
      <4>1. front = SubSeq(q, 1, 0) /\ back = SubSeq(q, 1, 1)
        BY <3>1, <3>6, <3>7
      <4>2. QED
        BY <3>5, <4>1
    <3>8. CASE due = 1
      <4>1. front = SubSeq(q, 1, 1) /\ back = SubSeq(q, 2, 1)
        BY <3>1, <3>6, <3>8
      <4>2. QED
        BY <3>5, <4>1
    <3>9. QED
      BY <3>4, <3>7, <3>8
  <2>3. QED
    BY <2>1, <2>2 DEF ShortQueue
<1>4. /\ ShortQueue(back) /\ Pending(front) \in Nat
      /\ Pending(front) + Pending(back) = Pending(q)
  <2> HIDE DEF front, back
  <2>1. ShortQueue(<<>>)
    BY DEF ShortQueue
  <2>2. CASE front = <<>> /\ back = q
    BY <1>2, <2>2, PendingNone
  <2>3. CASE front = q /\ back = <<>>
    BY <1>2, <2>1, <2>3, PendingNone
  <2>4. QED
    BY <1>3, <2>2, <2>3
<1>5. QED
  BY <1>4

-----------------------------------------------------------------------------
(* What a clear sends.                                                     *)

LEMMA ComboFacts == ASSUME NEW n \in Int PROVE ComboBonus(n) \in Nat
<1>1. CASE n <= 0
  BY <1>1 DEF ComboBonus
<1>2. CASE n > 0
  <2> DEFINE i == IF n < 13 THEN n + 1 ELSE 14
  <2>1. i \in 1..14
    BY <1>2
  <2>2. ComboBonus(n) = ComboTable[i]
    BY <1>2 DEF ComboBonus
  <2> HIDE DEF i
  <2>3. ComboTable[i] \in Nat
    <3>1. \/ i = 1 \/ i = 2 \/ i = 3 \/ i = 4 \/ i = 5 \/ i = 6 \/ i = 7
          \/ i = 8 \/ i = 9 \/ i = 10 \/ i = 11 \/ i = 12 \/ i = 13 \/ i = 14
      BY <2>1
    <3>2. QED
      BY <3>1 DEF ComboTable
  <2>4. QED
    BY <2>2, <2>3
<1>3. QED
  BY <1>1, <1>2

LEMMA AttackFacts ==
  ASSUME NEW clear \in LineClears, clear.lines > 0, NEW b2b \in BOOLEAN, NEW combo \in Int
  PROVE  LET kind == ClassifyClear(clear.lines, clear.tspin, clear.mini)
         IN  AttackFor(kind, b2b, combo, clear.perfect) \in Nat
<1> DEFINE kind == ClassifyClear(clear.lines, clear.tspin, clear.mini)
<1>1. clear.lines \in 1..4
  BY DEF LineClears
<1>2. kind \in ClearKinds
  <2>1. "tspin-mini" \in ClearKinds
    BY DEF ClearKinds
  <2>2. \A i \in 1..3 : SpinKinds[i] \in ClearKinds
    BY DEF ClearKinds
  <2>3. \A i \in 1..4 : PlainKinds[i] \in ClearKinds
    BY DEF ClearKinds
  <2>4. QED
    BY <1>1, <2>1, <2>2, <2>3 DEF ClassifyClear
<1> HIDE DEF kind
<1>3. BaseAttack[kind] \in Nat
  <2>1. \/ kind \in {"single", "tspin-mini"} \/ kind = "double"
        \/ kind \in {"triple", "tspin-single"} \/ kind \in {"tetris", "tspin-double"}
        \/ kind = "tspin-triple"
    <3>1. \A i \in 1..4 : PlainKinds[i] \in {"single", "double", "triple", "tetris"}
      BY DEF PlainKinds
    <3>2. \A i \in 1..3 : SpinKinds[i] \in {"tspin-single", "tspin-double", "tspin-triple"}
      BY DEF SpinKinds
    <3>3. QED
      BY <1>2, <3>1, <3>2 DEF ClearKinds
  <2>2. QED
    BY <1>2, <2>1 DEF BaseAttack
<1>4. ComboBonus(combo) \in Nat
  BY ComboFacts
<1>5. AttackFor(kind, b2b, combo, clear.perfect) \in Nat
  BY <1>3, <1>4 DEF AttackFor, B2BBonus, PerfectClearBonus
<1>6. QED
  BY <1>5 DEF kind

-----------------------------------------------------------------------------
(* One player's tick, and the delivery of an attack.                       *)

\* A player with at most one batch waiting.
Fit(p) == p \in Player /\ ShortQueue(p.garbageQueue)

\* The rows sent at a player of which something has become.
Traced(p) == Pending(p.garbageQueue) + p.landed + p.cancelled + 2 * p.absorbed

LEMMA TracedIsNat ==
  ASSUME NEW p, Fit(p)
  PROVE  Traced(p) \in Nat
  BY PendingFacts DEF Fit, Traced, Player

\* A clear sends what it does not cancel, and loses track of nothing.
LEMMA ScoreClearFacts ==
  ASSUME NEW p, Fit(p), NEW clear \in LineClears, clear.lines > 0
  PROVE  LET r == ScoreClear(p, clear)
         IN  /\ Fit(r.player) /\ r.sent \in Nat /\ r.player.alive = p.alive
             /\ r.player.attackSent = p.attackSent + r.sent
             /\ Traced(r.player) = Traced(p)
<1> DEFINE kind == ClassifyClear(clear.lines, clear.tspin, clear.mini)
           amount == AttackFor(kind, p.backToBack, p.combo + 1, clear.perfect)
           c == CancelIncoming(p.garbageQueue, amount)
           q == [p EXCEPT !.combo = @ + 1,
                          !.backToBack = IsB2BClear(kind) \/ (@ /\ ~BreaksB2B(kind)),
                          !.garbageQueue = c.queue,
                          !.attackSent = @ + c.left,
                          !.cancelled = @ + amount - c.left]
<1>1. p \in Player /\ ShortQueue(p.garbageQueue) /\ p.backToBack \in BOOLEAN /\ p.combo + 1 \in Int
  BY DEF Fit, Player
<1>2. amount \in Nat
  BY <1>1, AttackFacts
<1>3. ScoreClear(p, clear) = [player |-> q, sent |-> c.left]
  BY DEF ScoreClear
<1> HIDE DEF amount
<1>4. /\ c.left \in 0..amount /\ ShortQueue(c.queue)
      /\ Pending(c.queue) + amount = Pending(p.garbageQueue) + c.left
  BY <1>1, <1>2, CancelFacts
<1> HIDE DEF c
<1>5. c.left \in Nat /\ amount - c.left \in Nat
  BY <1>2, <1>4
<1>6. Pending(c.queue) \in Nat /\ Pending(p.garbageQueue) \in Nat /\ c.queue \in Seq(Batch)
  BY <1>1, <1>4, PendingFacts
<1>7. BreaksB2B(kind) \in BOOLEAN /\ IsB2BClear(kind) \in BOOLEAN
  BY DEF BreaksB2B, IsB2BClear
<1> HIDE DEF kind
<1>8. /\ q \in Player /\ q.garbageQueue = c.queue /\ q.alive = p.alive
      /\ q.attackSent = p.attackSent + c.left /\ q.cancelled = p.cancelled + (amount - c.left)
      /\ q.landed = p.landed /\ q.absorbed = p.absorbed
  <2>1. p.cancelled \in Nat /\ p.attackSent \in Nat
    BY <1>1 DEF Player
  <2>2. p.cancelled + amount - c.left = p.cancelled + (amount - c.left)
    BY <1>2, <1>5, <2>1
  <2>3. p.cancelled + amount - c.left \in Nat /\ p.attackSent + c.left \in Nat
    BY <1>5, <2>1, <2>2
  <2>4. q \in Player
    BY <1>1, <1>6, <1>7, <2>3 DEF Player
  <2>5. QED
    BY <1>1, <2>2, <2>4 DEF Player
<1> HIDE DEF q
<1>9. Traced(q) = Traced(p)
  <2>1. p.landed \in Nat /\ p.cancelled \in Nat /\ p.absorbed \in Nat
    BY <1>1 DEF Player
  <2>2. /\ Traced(q) = Pending(c.queue) + p.landed + (p.cancelled + (amount - c.left))
                        + 2 * p.absorbed
        /\ Traced(p) = Pending(p.garbageQueue) + p.landed + p.cancelled + 2 * p.absorbed
    BY <1>8 DEF Traced
  <2> DEFINE P == Pending(c.queue)
             Q == Pending(p.garbageQueue)
             landed == p.landed
             cancelled == p.cancelled
             absorbed == p.absorbed
             k == c.left
  <2>3. /\ P \in Nat /\ Q \in Nat /\ landed \in Nat /\ cancelled \in Nat /\ absorbed \in Nat
        /\ k \in Nat /\ amount \in Nat /\ P + amount = Q + k
    BY <1>2, <1>4, <1>5, <1>6, <2>1
  <2>4. /\ Traced(q) = P + landed + (cancelled + (amount - k)) + 2 * absorbed
        /\ Traced(p) = Q + landed + cancelled + 2 * absorbed
    BY <2>2
  <2> HIDE DEF P, Q, landed, cancelled, absorbed, k
  <2>5. QED
    BY <2>3, <2>4
<1>10. QED
  BY <1>3, <1>4, <1>5, <1>8, <1>9 DEF Fit

\* A lock without a clear moves what is due from the queue to the board.
LEMMA ApplyFacts ==
  ASSUME NEW p, Fit(p), NEW frame \in Nat
  PROVE  LET q == ApplyReadyGarbage(p, frame)
         IN  /\ Fit(q) /\ q.alive = p.alive /\ q.attackSent = p.attackSent
             /\ Traced(q) = Traced(p)
<1> DEFINE due == DueCount(p.garbageQueue, frame)
           front == SubSeq(p.garbageQueue, 1, due)
           back == SubSeq(p.garbageQueue, due + 1, Len(p.garbageQueue))
           q == [p EXCEPT !.garbageQueue = back, !.landed = @ + Pending(front)]
<1>1. /\ ShortQueue(back) /\ Pending(front) \in Nat
      /\ Pending(front) + Pending(back) = Pending(p.garbageQueue)
  BY DueFacts DEF Fit
<1>2. ApplyReadyGarbage(p, frame) = q
  BY DEF ApplyReadyGarbage
<1> HIDE DEF front, back
<1>3. back \in Seq(Batch) /\ Pending(back) \in Nat
  BY <1>1, PendingFacts
<1>4. /\ q \in Player /\ q.garbageQueue = back /\ q.landed = p.landed + Pending(front)
      /\ q.alive = p.alive /\ q.attackSent = p.attackSent
      /\ q.cancelled = p.cancelled /\ q.absorbed = p.absorbed
  <2>1. p \in Player /\ p.landed + Pending(front) \in Nat
    BY <1>1 DEF Fit, Player
  <2>2. QED
    BY <1>3, <2>1 DEF Player
<1> HIDE DEF q
<1>5. Traced(q) = Traced(p)
  <2>1. p.landed \in Nat /\ p.cancelled \in Nat /\ p.absorbed \in Nat
    BY DEF Fit, Player
  <2>2. QED
    BY <1>1, <1>3, <1>4, <2>1 DEF Traced
<1>6. QED
  BY <1>1, <1>2, <1>4, <1>5 DEF Fit

\* Whatever a player does in a tick, it accounts for what it sends, and every
\* row that was sent at it stays accounted for.
LEMMA StepPlayerFacts ==
  ASSUME NEW p, Fit(p), NEW play \in Plays, NEW frame \in Nat
  PROVE  LET r == StepPlayer(p, play, frame)
         IN  /\ Fit(r.player) /\ r.sent \in Nat
             /\ r.player.attackSent = p.attackSent + r.sent
             /\ Traced(r.player) = Traced(p)
<1> DEFINE r == StepPlayer(p, play, frame)
           Kept(q) == /\ Fit(q) /\ q.attackSent = p.attackSent /\ Traced(q) = Traced(p)
<1>1. \A n \in Nat : p.attackSent + 0 = p.attackSent /\ p.spawnTicks \in Nat
  BY DEF Fit, Player
<1>2. ASSUME NEW q \in Player, q.garbageQueue = p.garbageQueue, q.attackSent = p.attackSent,
             q.landed = p.landed, q.cancelled = p.cancelled, q.absorbed = p.absorbed
      PROVE  Kept(q)
  BY <1>2 DEF Fit, Traced
<1>3. CASE ~p.alive
  BY <1>1, <1>3 DEF StepPlayer
<1>4. CASE p.alive /\ ~p.active /\ p.spawnTicks > 0
  <2> DEFINE q == [p EXCEPT !.spawnTicks = @ - 1]
  <2>1. r = [player |-> q, sent |-> 0]
    BY <1>4 DEF StepPlayer
  <2>2. /\ q \in Player /\ q.garbageQueue = p.garbageQueue /\ q.attackSent = p.attackSent
        /\ q.landed = p.landed /\ q.cancelled = p.cancelled /\ q.absorbed = p.absorbed
    BY <1>4 DEF Fit, Player
  <2> HIDE DEF q, r
  <2>3. QED
    BY <1>1, <1>2, <2>1, <2>2 DEF r
<1>5. CASE p.alive /\ (p.active \/ ~(p.spawnTicks > 0))
  <2>1. play.end \in {"topout", "none", "lock"}
    BY DEF Plays
  <2>2. CASE play.end = "topout"
    <3> DEFINE q == [p EXCEPT !.alive = FALSE, !.active = FALSE]
    <3>1. r = [player |-> q, sent |-> 0]
      BY <1>5, <2>2 DEF StepPlayer
    <3>2. /\ q \in Player /\ q.garbageQueue = p.garbageQueue /\ q.attackSent = p.attackSent
          /\ q.landed = p.landed /\ q.cancelled = p.cancelled /\ q.absorbed = p.absorbed
      BY DEF Fit, Player
    <3> HIDE DEF q, r
    <3>3. QED
      BY <1>1, <1>2, <3>1, <3>2 DEF r
  <2>3. CASE play.end = "none"
    <3> DEFINE q == [p EXCEPT !.active = TRUE]
    <3>1. r = [player |-> q, sent |-> 0]
      BY <1>5, <2>3 DEF StepPlayer
    <3>2. /\ q \in Player /\ q.garbageQueue = p.garbageQueue /\ q.attackSent = p.attackSent
          /\ q.landed = p.landed /\ q.cancelled = p.cancelled /\ q.absorbed = p.absorbed
      BY DEF Fit, Player
    <3> HIDE DEF q, r
    <3>3. QED
      BY <1>1, <1>2, <3>1, <3>2 DEF r
  <2>4. CASE play.end = "lock"
    <3> DEFINE locked == [p EXCEPT !.active = FALSE, !.spawnTicks = SpawnDelay]
               missed == [locked EXCEPT !.combo = -1]
    <3>1. r = IF play.clear.lines > 0 THEN ScoreClear(locked, play.clear)
              ELSE [player |-> ApplyReadyGarbage(missed, frame), sent |-> 0]
      BY <1>5, <2>4 DEF StepPlayer, ResolveLock
    <3>2. /\ locked \in Player /\ locked.garbageQueue = p.garbageQueue
          /\ locked.attackSent = p.attackSent
          /\ locked.landed = p.landed /\ locked.cancelled = p.cancelled
          /\ locked.absorbed = p.absorbed
      BY DuelAssumption DEF Fit, Player
    <3> HIDE DEF locked
    <3>3. Kept(locked)
      BY <1>2, <3>2
    <3>4. /\ missed \in Player /\ missed.garbageQueue = p.garbageQueue
          /\ missed.attackSent = p.attackSent
          /\ missed.landed = p.landed /\ missed.cancelled = p.cancelled
          /\ missed.absorbed = p.absorbed
      BY <3>2 DEF Player
    <3> HIDE DEF missed
    <3>5. Kept(missed)
      BY <1>2, <3>4
    <3>6. play.clear.lines > 0 => play.clear \in LineClears
      BY DuelAssumption DEF Plays, NoClear
    <3> HIDE DEF r
    <3>7. CASE play.clear.lines > 0
      BY <3>1, <3>3, <3>6, <3>7, ScoreClearFacts DEF r
    <3>8. CASE ~(play.clear.lines > 0)
      BY <1>1, <3>1, <3>5, <3>8, ApplyFacts DEF r
    <3>9. QED
      BY <3>7, <3>8
  <2>5. QED
    BY <2>1, <2>2, <2>3, <2>4
<1>6. QED
  BY <1>3, <1>4, <1>5

\* An attack on a player who is alive is accounted for in full.
LEMMA DeliverFacts ==
  ASSUME NEW v, Fit(v), NEW amount \in Nat, NEW frame \in Nat
  PROVE  LET w == Deliver(v, amount, frame)
         IN  /\ Fit(w) /\ w.attackSent = v.attackSent /\ w.alive = v.alive
             /\ Traced(w) = IF v.alive THEN Traced(v) + amount ELSE Traced(v)
<1> DEFINE b == [amount |-> amount, readyAtFrame |-> frame + GarbageDelay]
           c == CancelIncoming(v.garbageQueue, amount)
           queue == Receive(v.garbageQueue, b)
           w == [v EXCEPT !.garbageQueue = queue, !.absorbed = @ + amount - c.left]
<1>1. Traced(v) \in Nat /\ v.alive \in BOOLEAN
  BY TracedIsNat DEF Fit, Player
<1>2. CASE amount = 0 \/ ~v.alive
  BY <1>1, <1>2 DEF Deliver
<1>3. CASE amount # 0 /\ v.alive
  <2>1. Deliver(v, amount, frame) = w
    BY <1>3 DEF Deliver
  <2>2. b \in Batch /\ b.amount = amount
    BY <1>3, DuelAssumption DEF Batch
  <2> HIDE DEF b
  <2>3. /\ ShortQueue(queue) /\ c.left \in 0..amount
        /\ Pending(queue) + amount = Pending(v.garbageQueue) + 2 * c.left
    BY <2>2, ReceiveFacts DEF Fit
  <2> HIDE DEF queue, c
  <2>4. queue \in Seq(Batch) /\ Pending(queue) \in Nat /\ Pending(v.garbageQueue) \in Nat
    BY <2>3, PendingFacts DEF Fit
  <2>5. v \in Player /\ v.landed \in Nat /\ v.cancelled \in Nat /\ v.absorbed \in Nat
    BY DEF Fit, Player
  <2>6. v.absorbed + amount - c.left \in Nat
    BY <2>3, <2>5
  <2>7. /\ w \in Player /\ w.garbageQueue = queue /\ w.absorbed = v.absorbed + amount - c.left
        /\ w.landed = v.landed /\ w.cancelled = v.cancelled
        /\ w.attackSent = v.attackSent /\ w.alive = v.alive
    BY <2>4, <2>5, <2>6 DEF Player
  <2> HIDE DEF w
  <2>8. Traced(w) = Traced(v) + amount
    <3>1. /\ Traced(w) = Pending(queue) + v.landed + v.cancelled
                            + 2 * (v.absorbed + amount - c.left)
          /\ Traced(v) = Pending(v.garbageQueue) + v.landed + v.cancelled + 2 * v.absorbed
      BY <2>7 DEF Traced
    <3>2. c.left \in Nat
      BY <2>3
    <3> DEFINE P == Pending(queue)
               Q == Pending(v.garbageQueue)
               landed == v.landed
               cancelled == v.cancelled
               absorbed == v.absorbed
               k == c.left
    <3>3. /\ P \in Nat /\ Q \in Nat /\ landed \in Nat /\ cancelled \in Nat /\ absorbed \in Nat
          /\ k \in Nat /\ P + amount = Q + 2 * k
      BY <2>3, <2>4, <2>5, <3>2
    <3>4. /\ Traced(w) = P + landed + cancelled + 2 * (absorbed + amount - k)
          /\ Traced(v) = Q + landed + cancelled + 2 * absorbed
      BY <3>1
    <3> HIDE DEF P, Q, landed, cancelled, absorbed, k
    <3>5. QED
      BY <3>3, <3>4
  <2>9. QED
    BY <1>3, <2>1, <2>3, <2>7, <2>8 DEF Fit
<1>4. QED
  BY <1>2, <1>3

-----------------------------------------------------------------------------
(* The match.                                                              *)

\* Every row that p sent is accounted for on the other side.
Accounted(m, p) ==
    LET foe == m.players[Foe(p)]
    IN  /\ Traced(foe) <= m.players[p].attackSent
        /\ foe.alive => Traced(foe) = m.players[p].attackSent

Alive(m) == {p \in PlayerIds : m.players[p].alive}

Decided(m) ==
    /\ m.status = "finished" <=> Alive(m) # PlayerIds
    /\ m.winner # NoWinner <=> ~m.solo /\ Alive(m) = {m.winner}

\* The inductive invariant, of the match before and after a tick.
Sound(m) ==
    /\ m \in Match
    /\ \A p \in PlayerIds : ShortQueue(m.players[p].garbageQueue) /\ Accounted(m, p)
    /\ Decided(m)

LEMMA Foes ==
  /\ 0 \in PlayerIds /\ 1 \in PlayerIds /\ NoWinner \notin PlayerIds
  /\ Foe(0) = 1 /\ Foe(1) = 0
  /\ \A p \in PlayerIds : (p = 0 \/ p = 1) /\ Foe(p) \in PlayerIds /\ Foe(Foe(p)) = p /\ Foe(p) # p
  BY DEF PlayerIds, Foe, NoWinner

\* What Settle makes of the players of a tick.
LEMMA SettleDecides ==
  ASSUME NEW m \in Match, NEW players \in [PlayerIds -> Player],
         m.solo => players[1].alive
  PROVE  /\ Settle(m, players) \in Match /\ Decided(Settle(m, players))
         /\ Settle(m, players).players = players
<1> DEFINE n == Settle(m, players)
           status == IF \E p \in PlayerIds : ~players[p].alive THEN "finished" ELSE "playing"
           winner == IF m.solo THEN NoWinner ELSE WinnerOf(players)
<1>1. n = [m EXCEPT !.status = status, !.winner = winner, !.frame = @ + 1, !.players = players]
  BY DEF Settle
<1>2. players[0].alive \in BOOLEAN /\ players[1].alive \in BOOLEAN
  BY Foes DEF Player
<1>3. /\ players[0].alive /\ players[1].alive => winner = NoWinner
      /\ ~players[0].alive /\ ~players[1].alive => winner = NoWinner
      /\ ~m.solo /\ ~players[0].alive /\ players[1].alive => winner = 1
      /\ ~m.solo /\ players[0].alive /\ ~players[1].alive => winner = 0
      /\ m.solo => winner = NoWinner
  BY <1>2 DEF WinnerOf
<1>4. winner \in PlayerIds \cup {NoWinner}
  BY <1>2, <1>3, Foes
<1>5. status \in {"countdown", "playing", "finished"}
      /\ (status = "finished" <=> ~players[0].alive \/ ~players[1].alive)
  BY Foes
<1> HIDE DEF status, winner
<1>6. /\ n \in Match /\ n.players = players /\ n.status = status /\ n.winner = winner
      /\ n.solo = m.solo
  <2>1. m.frame + 1 \in Nat
    BY DEF Match
  <2>2. QED
    BY <1>1, <1>4, <1>5, <2>1 DEF Match
<1> HIDE DEF n
<1>7. Alive(n) = PlayerIds <=> players[0].alive /\ players[1].alive
  BY <1>6, Foes DEF Alive
<1>8. /\ players[0].alive /\ ~players[1].alive <=> Alive(n) = {0}
      /\ ~players[0].alive /\ players[1].alive <=> Alive(n) = {1}
      /\ Alive(n) # {NoWinner}
  BY <1>6, Foes DEF Alive
<1>9. n.status = "finished" <=> Alive(n) # PlayerIds
  BY <1>2, <1>5, <1>6, <1>7
<1>10. n.winner # NoWinner <=> ~n.solo /\ Alive(n) = {n.winner}
  <2>1. CASE m.solo
    BY <1>3, <1>6, <2>1
  <2>2. CASE ~m.solo /\ players[0].alive /\ ~players[1].alive
    BY <1>3, <1>6, <1>8, <2>2, Foes
  <2>3. CASE ~m.solo /\ ~players[0].alive /\ players[1].alive
    BY <1>3, <1>6, <1>8, <2>3, Foes
  <2>4. CASE ~m.solo /\ (players[0].alive <=> players[1].alive)
    BY <1>2, <1>3, <1>6, <1>8, <2>4
  <2>5. QED
    BY <1>2, <2>1, <2>2, <2>3, <2>4
<1>11. QED
  BY <1>6, <1>9, <1>10 DEF n, Decided

\* A tick in which both players are stepped.
LEMMA StepBothSound ==
  ASSUME NEW m, Sound(m), m.status # "finished", NEW plays \in [PlayerIds -> Plays]
  PROVE  Sound(StepBoth(m, plays))
<1> DEFINE stepped == [p \in PlayerIds |->
                          IF m.solo /\ p = 1 THEN [player |-> m.players[p], sent |-> 0]
                          ELSE StepPlayer(m.players[p], plays[p], m.frame)]
           players == [p \in PlayerIds |->
                          Deliver(stepped[p].player, stepped[Foe(p)].sent, m.frame)]
<1>1. StepBoth(m, plays) = Settle(m, players)
  BY DEF StepBoth
<1>2. /\ m \in Match /\ m.frame \in Nat /\ m.players \in [PlayerIds -> Player]
      /\ \A p \in PlayerIds : Fit(m.players[p])
  BY DEF Sound, Match, Fit
<1>3. \A p \in PlayerIds : m.players[p].alive
  BY DEF Sound, Decided, Alive
<1>4. \A p \in PlayerIds : m.players[p].attackSent \in Nat
  BY <1>2 DEF Player
<1>5. ASSUME NEW p \in PlayerIds
      PROVE  /\ Fit(stepped[p].player) /\ stepped[p].sent \in Nat
             /\ stepped[p].player.attackSent = m.players[p].attackSent + stepped[p].sent
             /\ Traced(stepped[p].player) = Traced(m.players[p])
             /\ m.solo /\ p = 1 => stepped[p].player = m.players[p]
  <2>1. CASE m.solo /\ p = 1
    <3>1. stepped[p] = [player |-> m.players[p], sent |-> 0]
      BY <2>1
    <3> HIDE DEF stepped
    <3>2. QED
      BY <1>2, <1>4, <3>1
  <2>2. CASE ~(m.solo /\ p = 1)
    <3>1. stepped[p] = StepPlayer(m.players[p], plays[p], m.frame)
      BY <2>2
    <3> HIDE DEF stepped
    <3>2. plays[p] \in Plays
      OBVIOUS
    <3>3. QED
      BY <1>2, <2>2, <3>1, <3>2, StepPlayerFacts
  <2>3. QED
    BY <2>1, <2>2
<1> HIDE DEF stepped
<1>6. ASSUME NEW p \in PlayerIds
      PROVE  /\ Fit(players[p]) /\ players[p].attackSent = stepped[p].player.attackSent
             /\ players[p].alive = stepped[p].player.alive
             /\ Traced(players[p]) = IF players[p].alive
                                     THEN Traced(stepped[p].player) + stepped[Foe(p)].sent
                                     ELSE Traced(stepped[p].player)
  <2> DEFINE v == stepped[p].player
             amount == stepped[Foe(p)].sent
             w == players[p]
  <2>1. Fit(v) /\ amount \in Nat
    BY <1>5, Foes
  <2>2. w = Deliver(v, amount, m.frame)
    OBVIOUS
  <2> HIDE DEF players, v, amount, w
  <2>3. /\ Fit(w) /\ w.attackSent = v.attackSent /\ w.alive = v.alive
        /\ Traced(w) = IF v.alive THEN Traced(v) + amount ELSE Traced(v)
    BY <1>2, <2>1, <2>2, DeliverFacts
  <2>4. QED
    BY <2>3 DEF v, amount, w
<1>7. players \in [PlayerIds -> Player]
  BY <1>6 DEF Fit
<1> HIDE DEF players
<1>8. m.solo => players[1].alive
  BY <1>3, <1>5, <1>6, Foes
<1> DEFINE n == Settle(m, players)
<1>9. n \in Match /\ Decided(n) /\ n.players = players
  BY <1>2, <1>7, <1>8, SettleDecides
<1> HIDE DEF n
<1>10. ASSUME NEW p \in PlayerIds
       PROVE  Accounted(n, p)
  <2> DEFINE q == Foe(p)
  <2>1. q \in PlayerIds /\ Foe(q) = p
    BY Foes
  <2> HIDE DEF q
  <2>2. Traced(m.players[q]) = m.players[p].attackSent
    BY <1>3, <2>1, Foes DEF Sound, Accounted, q
  <2>3. /\ players[p].attackSent = m.players[p].attackSent + stepped[p].sent
        /\ stepped[p].sent \in Nat /\ m.players[p].attackSent \in Nat
    BY <1>4, <1>5, <1>6
  <2>4. Traced(players[q]) = IF players[q].alive
                             THEN m.players[p].attackSent + stepped[p].sent
                             ELSE m.players[p].attackSent
    BY <1>5, <1>6, <2>1, <2>2
  <2>5. QED
    BY <1>9, <2>3, <2>4 DEF Accounted, q
<1>11. \A p \in PlayerIds : ShortQueue(n.players[p].garbageQueue)
  BY <1>6, <1>9 DEF Fit
<1>12. QED
  BY <1>1, <1>9, <1>10, <1>11 DEF Sound, n

LEMMA AfterSound ==
  ASSUME NEW m, Sound(m), NEW plays \in [PlayerIds -> Plays]
  PROVE  Sound(After(m, plays))
<1>1. m \in Match /\ m.status \in {"countdown", "playing", "finished"} /\ m.frame \in Nat
  BY DEF Sound, Match
<1>2. CASE m.status = "finished"
  BY <1>2 DEF After
<1>3. CASE m.status = "countdown" /\ m.frame < CountdownTicks
  <2> DEFINE n == [m EXCEPT !.frame = @ + 1]
  <2>1. After(m, plays) = n
    <3>1. ~(m.frame >= CountdownTicks)
      BY <1>1, <1>3, DuelAssumption
    <3> HIDE DEF n
    <3>2. QED
      BY <1>3, <3>1 DEF After, n
  <2>2. /\ n \in Match /\ n.players = m.players /\ n.status = m.status /\ n.winner = m.winner
        /\ n.solo = m.solo
    BY <1>1 DEF Match
  <2> HIDE DEF n
  <2>3. QED
    BY <2>1, <2>2 DEF Sound, Accounted, Decided, Alive
<1>4. CASE m.status = "countdown" /\ m.frame >= CountdownTicks
  <2>1. After(m, plays) = StepBoth(m, plays)
    BY <1>1, <1>4, DuelAssumption DEF After
  <2>2. QED
    BY <1>4, <2>1, StepBothSound
<1>5. CASE m.status = "playing"
  <2>1. After(m, plays) = StepBoth(m, plays)
    BY <1>5 DEF After
  <2>2. QED
    BY <1>5, <2>1, StepBothSound
<1>6. QED
  BY <1>1, <1>2, <1>3, <1>4, <1>5, DuelAssumption

LEMMA NewMatchSound ==
  ASSUME NEW solo \in BOOLEAN
  PROVE  Sound([solo |-> solo, status |-> "countdown", winner |-> NoWinner, frame |-> 0,
                players |-> [p \in PlayerIds |-> NewPlayer]])
<1> DEFINE players == [p \in PlayerIds |-> NewPlayer]
           m == [solo |-> solo, status |-> "countdown", winner |-> NoWinner, frame |-> 0,
                 players |-> players]
<1>1. NewPlayer \in Player
  BY DuelAssumption DEF NewPlayer, Player
<1>2. NewPlayer.alive /\ NewPlayer.attackSent = 0 /\ ShortQueue(NewPlayer.garbageQueue)
      /\ Traced(NewPlayer) = 0
  BY PendingNone DEF NewPlayer, ShortQueue, Traced
<1>3. players \in [PlayerIds -> Player] /\ \A p \in PlayerIds : players[p] = NewPlayer
  BY <1>1
<1> HIDE DEF players
<1>4. /\ m \in Match /\ m.players = players /\ m.status = "countdown"
      /\ m.winner = NoWinner
  BY <1>3, Foes DEF Match
<1> HIDE DEF m
<1>5. Alive(m) = PlayerIds /\ Alive(m) # {NoWinner}
  BY <1>2, <1>3, <1>4, Foes DEF Alive
<1>6. \A p \in PlayerIds : Accounted(m, p) /\ ShortQueue(m.players[p].garbageQueue)
  BY <1>2, <1>3, <1>4, Foes DEF Accounted
<1>7. QED
  BY <1>4, <1>5, <1>6 DEF Sound, Decided, m, players

LEMMA SoundInvariant == Spec => []Sound(match)
<1>1. Init => Sound(match)
  BY NewMatchSound DEF Init
<1>2. Sound(match) /\ [Next]_vars => Sound(match)'
  <2> SUFFICES ASSUME Sound(match), [Next]_vars PROVE Sound(match')
    OBVIOUS
  <2>1. CASE UNCHANGED vars
    BY <2>1 DEF vars
  <2>2. CASE Next
    BY <2>2, AfterSound DEF Next, Step
  <2>3. QED
    BY <2>1, <2>2
<1>3. QED
  BY <1>1, <1>2, PTL DEF Spec

\* match.ts, stepMatch: the match is over from the tick in which somebody tops
\* out, and the one player left alive has won it; not when both go together, and
\* never without an opponent.
THEOREM TopoutDecides == Spec => []TopoutEndsTheMatch
<1>1. Sound(match) => TopoutEndsTheMatch
  BY DEF Sound, Decided, Alive, TopoutEndsTheMatch
<1>2. QED
  BY <1>1, SoundInvariant, PTL

\* match.ts, cancelIncoming, applyReadyGarbage and the delivery at the end of a
\* tick lose no row and make none up, for any telegraph, and leave one batch at
\* most in a queue.
THEOREM GarbageIsConserved == Spec => []GarbageAccounted
<1>1. Sound(match) => GarbageAccounted
  <2> SUFFICES ASSUME Sound(match), NEW p \in PlayerIds
               PROVE  /\ Traced(match.players[Foe(p)]) <= match.players[p].attackSent
                      /\ match.players[Foe(p)].alive =>
                            Traced(match.players[Foe(p)]) = match.players[p].attackSent
                      /\ Len(match.players[Foe(p)].garbageQueue) <= 1
    BY DEF GarbageAccounted, Traced
  <2>1. Accounted(match, p) /\ ShortQueue(match.players[Foe(p)].garbageQueue)
    BY Foes DEF Sound
  <2>2. QED
    BY <2>1, PendingFacts DEF Accounted
<1>2. QED
  BY <1>1, SoundInvariant, PTL

-----------------------------------------------------------------------------
(* Exchanging the seats.                                                   *)

Swapped(f) == [p \in PlayerIds |-> f[Foe(p)]]
OtherSide(winner) == IF winner = NoWinner THEN NoWinner ELSE Foe(winner)

LEMMA MirrorFields ==
  ASSUME NEW m \in Match
  PROVE  /\ Mirror(m) = [solo |-> m.solo, status |-> m.status, winner |-> OtherSide(m.winner),
                         frame |-> m.frame, players |-> Swapped(m.players)]
         /\ Mirror(m) \in Match
<1>1. OtherSide(m.winner) \in PlayerIds \cup {NoWinner}
  BY Foes DEF OtherSide, Match
<1>2. Swapped(m.players) \in [PlayerIds -> Player]
  BY Foes DEF Swapped, Match
<1>3. Mirror(m) = [m EXCEPT !.players = Swapped(m.players), !.winner = OtherSide(m.winner)]
  BY DEF Mirror, Swapped, OtherSide
<1>4. QED
  BY <1>1, <1>2, <1>3 DEF Match

StatusOf(players) == IF \E p \in PlayerIds : ~players[p].alive THEN "finished" ELSE "playing"

LEMMA SettleFields ==
  ASSUME NEW m \in Match, NEW players \in [PlayerIds -> Player]
  PROVE  Settle(m, players) = [solo |-> m.solo, status |-> StatusOf(players),
                               winner |-> IF m.solo THEN NoWinner ELSE WinnerOf(players),
                               frame |-> m.frame + 1, players |-> players]
<1> DEFINE status == StatusOf(players)
           winner == IF m.solo THEN NoWinner ELSE WinnerOf(players)
           frame == m.frame + 1
<1>1. Settle(m, players) = [m EXCEPT !.status = status, !.winner = winner, !.frame = frame,
                                     !.players = players]
  BY DEF Settle, StatusOf
<1>2. status \in {"finished", "playing"}
  BY DEF StatusOf
<1>3. winner \in PlayerIds \cup {NoWinner}
  <2>1. players[0].alive \in BOOLEAN /\ players[1].alive \in BOOLEAN
    BY Foes DEF Player
  <2>2. WinnerOf(players) \in PlayerIds \cup {NoWinner}
    BY <2>1 DEF WinnerOf, PlayerIds
  <2>3. QED
    BY <2>2
<1>4. frame \in Nat
  BY DEF Match
<1> HIDE DEF status, winner, frame
<1> DEFINE n == [m EXCEPT !.status = status, !.winner = winner, !.frame = frame,
                          !.players = players]
<1>5. n \in Match /\ n.solo = m.solo /\ n.status = status /\ n.winner = winner
        /\ n.frame = frame /\ n.players = players
  BY <1>2, <1>3, <1>4 DEF Match
<1> HIDE DEF n
<1>6. n = [solo |-> n.solo, status |-> n.status, winner |-> n.winner, frame |-> n.frame,
           players |-> n.players]
  BY <1>5 DEF Match
<1>7. n = [solo |-> m.solo, status |-> status, winner |-> winner, frame |-> frame,
           players |-> players]
  BY <1>5, <1>6
<1>8. QED
  BY <1>1, <1>7 DEF n, status, winner, frame

\* The verdict over the players of a tick does not look at the seats.
LEMMA SettleIsSymmetric ==
  ASSUME NEW m \in Match, ~m.solo, NEW players \in [PlayerIds -> Player]
  PROVE  Mirror(Settle(m, players)) = Settle(Mirror(m), Swapped(players))
<1> DEFINE status == StatusOf(players)
           n == Settle(m, players)
           k == Settle(Mirror(m), Swapped(players))
<1>1. n \in Match
  BY SettleDecides
<1>2. n = [solo |-> m.solo, status |-> status, winner |-> WinnerOf(players),
           frame |-> m.frame + 1, players |-> players]
  BY SettleFields
<1>3. /\ Swapped(players)[0] = players[1] /\ Swapped(players)[1] = players[0]
      /\ \A p \in PlayerIds : Swapped(players)[p] = players[Foe(p)]
  BY Foes DEF Swapped
<1>4. StatusOf(Swapped(players)) = status
  <2>1. (\E p \in PlayerIds : ~Swapped(players)[p].alive)
          <=> (\E p \in PlayerIds : ~players[p].alive)
    BY <1>3, Foes
  <2>2. QED
    BY <2>1 DEF StatusOf
<1>5. k = [solo |-> m.solo, status |-> status, winner |-> WinnerOf(Swapped(players)),
           frame |-> m.frame + 1, players |-> Swapped(players)]
  <2>1. Mirror(m) \in Match /\ Mirror(m).solo = m.solo /\ Mirror(m).frame = m.frame
    BY MirrorFields
  <2>2. Swapped(players) \in [PlayerIds -> Player]
    BY Foes DEF Swapped
  <2>3. QED
    BY <1>4, <2>1, <2>2, SettleFields
<1>6. WinnerOf(Swapped(players)) = OtherSide(WinnerOf(players))
  <2>1. players[0].alive \in BOOLEAN /\ players[1].alive \in BOOLEAN
    BY Foes DEF Player
  <2>2. CASE ~players[0].alive /\ players[1].alive
    BY <1>3, <2>2, Foes DEF WinnerOf, OtherSide
  <2>3. CASE players[0].alive /\ ~players[1].alive
    BY <1>3, <2>3, Foes DEF WinnerOf, OtherSide
  <2>4. CASE players[0].alive <=> players[1].alive
    BY <1>3, <2>1, <2>4 DEF WinnerOf, OtherSide
  <2>5. QED
    BY <2>1, <2>2, <2>3, <2>4
<1> HIDE DEF n, k, status
<1>7. Mirror(n) = [solo |-> n.solo, status |-> n.status, winner |-> OtherSide(n.winner),
                   frame |-> n.frame, players |-> Swapped(n.players)]
  BY <1>1, MirrorFields
<1>8. QED
  BY <1>2, <1>5, <1>6, <1>7 DEF n, k

LEMMA StepBothIsSymmetric ==
  ASSUME NEW m, Sound(m), ~m.solo, m.status # "finished", NEW plays \in [PlayerIds -> Plays]
  PROVE  Mirror(StepBoth(m, plays)) = StepBoth(Mirror(m), Swapped(plays))
<1> DEFINE w == Mirror(m)
           stepped == [p \in PlayerIds |-> StepPlayer(m.players[p], plays[p], m.frame)]
           there == [p \in PlayerIds |-> StepPlayer(w.players[p], Swapped(plays)[p], w.frame)]
           players == [p \in PlayerIds |->
                          Deliver(stepped[p].player, stepped[Foe(p)].sent, m.frame)]
           others == [p \in PlayerIds |-> Deliver(there[p].player, there[Foe(p)].sent, w.frame)]
<1>1. m \in Match /\ \A p \in PlayerIds : Fit(m.players[p])
  BY DEF Sound, Match, Fit
<1>2. w.solo = m.solo /\ w.frame = m.frame /\ w.players = Swapped(m.players)
  BY <1>1, MirrorFields
<1>3. StepBoth(m, plays) = Settle(m, players)
  BY DEF StepBoth
<1> HIDE DEF w
<1>4. StepBoth(w, Swapped(plays)) = Settle(w, others)
  BY <1>2 DEF StepBoth
<1>5. \A p \in PlayerIds : there[p] = stepped[Foe(p)]
  BY <1>2, Foes DEF Swapped
<1>6. \A p \in PlayerIds : Fit(stepped[p].player) /\ stepped[p].sent \in Nat
  <2>1. m.frame \in Nat
    BY <1>1 DEF Match
  <2>2. QED
    BY <1>1, <2>1, StepPlayerFacts
<1> HIDE DEF stepped, there
<1>7. \A p \in PlayerIds : others[p] = players[Foe(p)]
  BY <1>2, <1>5, Foes
<1>8. others = Swapped(players)
  BY <1>7 DEF Swapped
<1>9. players \in [PlayerIds -> Player]
  <2>1. ASSUME NEW p \in PlayerIds
        PROVE  Deliver(stepped[p].player, stepped[Foe(p)].sent, m.frame) \in Player
    <3>1. /\ Fit(stepped[p].player) /\ stepped[Foe(p)].sent \in Nat /\ m.frame \in Nat
      BY <1>1, <1>6, Foes DEF Match
    <3>2. Fit(Deliver(stepped[p].player, stepped[Foe(p)].sent, m.frame))
      BY <3>1, DeliverFacts
    <3>3. QED
      BY <3>2 DEF Fit
  <2>2. QED
    BY <2>1
<1> HIDE DEF players, others
<1>10. Mirror(Settle(m, players)) = Settle(w, others)
  BY <1>1, <1>8, <1>9, SettleIsSymmetric DEF w
<1>11. QED
  BY <1>3, <1>4, <1>10 DEF w

LEMMA AfterIsSymmetric ==
  ASSUME NEW m, Sound(m), ~m.solo, NEW plays \in [PlayerIds -> Plays]
  PROVE  Mirror(After(m, plays)) = After(Mirror(m), Swapped(plays))
<1> DEFINE w == Mirror(m)
<1>1. m \in Match /\ m.status \in {"countdown", "playing", "finished"} /\ m.frame \in Nat
  BY DEF Sound, Match
<1>2. /\ w = [solo |-> m.solo, status |-> m.status, winner |-> OtherSide(m.winner),
              frame |-> m.frame, players |-> Swapped(m.players)]
      /\ w.status = m.status /\ w.frame = m.frame
  BY <1>1, MirrorFields
<1>3. CASE m.status = "finished"
  <2> HIDE DEF w
  <2>1. QED
    BY <1>2, <1>3 DEF After, w
<1>4. CASE m.status = "countdown" /\ m.frame < CountdownTicks
  <2> DEFINE n == [m EXCEPT !.frame = @ + 1]
             k == [w EXCEPT !.frame = @ + 1]
  <2>1. ~(m.frame >= CountdownTicks)
    BY <1>1, <1>4, DuelAssumption
  <2>2. /\ n \in Match /\ n.frame = m.frame + 1
        /\ n.solo = m.solo /\ n.status = m.status /\ n.winner = m.winner /\ n.players = m.players
    BY <1>1 DEF Match
  <2>3. k = [solo |-> m.solo, status |-> m.status, winner |-> OtherSide(m.winner),
             frame |-> m.frame + 1, players |-> Swapped(m.players)]
    <3> HIDE DEF w
    <3>1. QED
      BY <1>2
  <2> HIDE DEF n, k, w
  <2>4. After(m, plays) = n /\ After(w, Swapped(plays)) = k
    BY <1>2, <1>4, <2>1 DEF After, n, k
  <2>5. Mirror(n) = k
    BY <2>2, <2>3, MirrorFields
  <2>6. QED
    BY <2>4, <2>5 DEF w
<1>5. CASE m.status = "playing" \/ (m.status = "countdown" /\ m.frame >= CountdownTicks)
  <2> HIDE DEF w
  <2>1. After(m, plays) = StepBoth(m, plays) /\ After(w, Swapped(plays)) = StepBoth(w, Swapped(plays))
    BY <1>1, <1>2, <1>5, DuelAssumption DEF After
  <2>2. QED
    BY <1>5, <2>1, StepBothIsSymmetric DEF w
<1>6. m.frame < CountdownTicks \/ m.frame >= CountdownTicks
  BY <1>1, DuelAssumption
<1>7. \/ m.status = "finished"
      \/ m.status = "countdown" /\ m.frame < CountdownTicks
      \/ m.status = "playing" \/ (m.status = "countdown" /\ m.frame >= CountdownTicks)
  BY <1>1, <1>6
<1>8. QED
  BY <1>3, <1>4, <1>5, <1>7

\* match.ts, stepMatch: the seats decide nothing.  What one tick does to two
\* players is what it would have done had they sat the other way round, for all
\* plays, although seat 0 is stepped and served first.
THEOREM SeatsDecideNothing == Spec => []TickIsSymmetric
<1>1. Sound(match) => TickIsSymmetric
  BY AfterIsSymmetric DEF TickIsSymmetric, Swapped
<1>2. QED
  BY <1>1, SoundInvariant, PTL

\* createMatch, stepMatch: every field of a match keeps its type for any plays: no
\* entry of a queue is empty or ready before the match began, and no timer or
\* counter of rows goes below zero.
THEOREM DuelIsTyped == Spec => []TypeOK
<1>1. Sound(match) => TypeOK
  BY DEF Sound, TypeOK
<1>2. QED
  BY <1>1, SoundInvariant, PTL
=============================================================================
