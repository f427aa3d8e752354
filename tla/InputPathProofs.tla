-------------------------- MODULE InputPathProofs --------------------------
(***************************************************************************)
(* Time, keystrokes and the replay, for any number of keys, any length of  *)
(* a tick and any limits.  Inductive invariants that need not know of each *)
(* other: OnTheClock adds to the time the pump has saved up what it will   *)
(* count at its next wake; TapsCounted is the account of every action of   *)
(* every player with what the counting needs: finite sets of keys, and     *)
(* messages in a sequence.  What an account gains in one place it loses in *)
(* another (AccountMoves).  Recorded ties the words of the replay to the   *)
(* ticks; that the words come back from their encoding is a fact about     *)
(* every sequence of words (ReplayIsDecoded).                              *)
(***************************************************************************)
EXTENDS InputPath, FiniteSetTheorems, SequenceTheorems, WellFoundedInduction, TLAPS

(* The clock. *)

\* Between two wakes of the pump the time it has not simulated covers what it
\* has saved up, what it will count at its next wake, and the ticks it has
\* decided to run.
OnTheClock ==
    /\ since \in Nat /\ accumulator \in 0..TickMs /\ due \in Nat /\ behind \in Nat
    /\ due > 0 => since = 0
    /\ behind <= Window
    /\ behind >= accumulator + Min({since, MaxCatchup}) + due * TickMs

LEMMA MinOfTwo ==
  ASSUME NEW i \in Int, NEW j \in Int
  PROVE  Min({i, j}) = IF i <= j THEN i ELSE j
<1> DEFINE m == IF i <= j THEN i ELSE j
<1>1. m \in {i, j} /\ \A y \in {i, j} : m <= y
  OBVIOUS
<1>2. \A x \in {i, j} : (\A y \in {i, j} : x <= y) => x = m
  OBVIOUS
<1> HIDE DEF m
<1>3. Min({i, j}) = m
  BY <1>1, <1>2 DEF Min
<1>4. QED
  BY <1>3 DEF m

\* What a wake of the pump leaves over.
LEMMA WholeTicks ==
  ASSUME NEW owed \in Nat, NEW steps, steps = Min({owed \div TickMs, MaxSteps})
  PROVE  steps \in Nat /\ steps * TickMs <= owed
<1> DEFINE whole == owed \div TickMs
<1>1. TickMs \in Nat /\ TickMs > 0 /\ MaxSteps \in Nat
  BY InputPathAssumption
<1>2. whole \in Nat /\ whole * TickMs <= owed
  BY <1>1
<1> HIDE DEF whole
<1>3. steps \in Nat /\ steps <= whole
  BY <1>1, <1>2, MinOfTwo DEF whole
<1>4. steps * TickMs <= whole * TickMs
  BY <1>1, <1>2, <1>3
<1>5. QED
  BY <1>1, <1>2, <1>3, <1>4

LEMMA ClockStarts == Init => OnTheClock
<1>1. Min({0, MaxCatchup}) = 0
  BY MinOfTwo, InputPathAssumption
<1>2. QED
  BY <1>1, InputPathAssumption DEF Init, OnTheClock, Window

LEMMA ElapseOnTheClock ==
  ASSUME OnTheClock, NEW by \in Delays, Elapse(by)
  PROVE  OnTheClock'
<1> DEFINE counted == Min({by, MaxCatchup})
<1>1. by \in Nat /\ TickMs \in Nat /\ MaxCatchup \in Nat
  BY InputPathAssumption
<1>2. counted \in Nat /\ counted <= by /\ counted <= MaxCatchup
  BY <1>1, MinOfTwo
<1>3. /\ since' = by /\ behind' = Min({behind + by, Window})
      /\ accumulator' = accumulator /\ due' = 0 /\ due = 0 /\ since = 0
  BY DEF Elapse
<1>4. Min({since, MaxCatchup}) = 0
  BY <1>1, <1>3, MinOfTwo
<1>5. behind \in Nat /\ accumulator \in 0..TickMs /\ behind >= accumulator
  BY <1>1, <1>3, <1>4 DEF OnTheClock
<1>6. behind' = IF behind + by <= Window THEN behind + by ELSE Window
  BY <1>1, <1>3, <1>5, MinOfTwo DEF Window
<1>7. behind' \in Nat /\ behind' <= Window /\ behind' >= accumulator + counted
  <2> HIDE DEF counted
  <2>1. QED
    BY <1>1, <1>2, <1>5, <1>6 DEF Window
<1>8. QED
  <2> HIDE DEF counted
  <2>1. Min({since', MaxCatchup}) = counted
    BY <1>3 DEF counted
  <2>2. due' * TickMs = 0
    BY <1>1, <1>3
  <2>3. QED
    BY <1>1, <1>2, <1>3, <1>5, <1>7, <2>1, <2>2 DEF OnTheClock

LEMMA WakeOnTheClock ==
  ASSUME OnTheClock, Wake
  PROVE  OnTheClock'
<1> DEFINE counted == Min({since, MaxCatchup})
           owed == accumulator + counted
           steps == Min({owed \div TickMs, MaxSteps})
           left == owed - steps * TickMs
<1>1. TickMs \in Nat /\ MaxCatchup \in Nat /\ since \in Nat /\ accumulator \in 0..TickMs
      /\ behind \in Nat
  BY InputPathAssumption DEF OnTheClock
<1>2. counted \in Nat
  BY <1>1, MinOfTwo
<1>3. /\ since' = 0 /\ behind' = behind /\ due = 0
      /\ due' = steps /\ accumulator' = IF left > TickMs THEN 0 ELSE left
  BY DEF Wake
<1> HIDE DEF counted
<1>4. owed \in Nat
  BY <1>1, <1>2
<1>5. due * TickMs = 0
  BY <1>1, <1>3
<1>6. behind >= owed
  BY <1>1, <1>2, <1>5 DEF OnTheClock, counted
<1> HIDE DEF owed
<1> DEFINE time == steps * TickMs
<1>7. steps \in Nat /\ time <= owed /\ time \in Nat
  BY <1>1, <1>4, WholeTicks
<1>8. left = owed - time
  OBVIOUS
<1>9. due' * TickMs = time
  BY <1>3
<1> HIDE DEF steps, time, left
<1>10. accumulator' \in 0..TickMs /\ behind' >= accumulator' + time
  BY <1>1, <1>3, <1>4, <1>6, <1>7, <1>8
<1>11. Min({since', MaxCatchup}) = 0
  BY <1>1, <1>3, MinOfTwo
<1>12. behind' <= Window
  BY <1>3 DEF OnTheClock
<1>13. QED
  BY <1>1, <1>3, <1>7, <1>9, <1>10, <1>11, <1>12 DEF OnTheClock

LEMMA TickOnTheClock ==
  ASSUME OnTheClock, Tick
  PROVE  OnTheClock'
<1> DEFINE counted == Min({since, MaxCatchup})
           time == due * TickMs
           rest == (due - 1) * TickMs
<1>1. /\ TickMs \in Nat /\ MaxCatchup \in Nat /\ since \in Nat /\ accumulator \in 0..TickMs
      /\ behind \in Nat /\ due \in Nat
  BY InputPathAssumption DEF OnTheClock
<1>2. /\ due > 0 /\ due' = due - 1 /\ behind' = behind - TickMs
      /\ since' = since /\ accumulator' = accumulator
  BY DEF Tick
<1>3. counted = 0 /\ since = 0
  BY <1>1, <1>2, MinOfTwo DEF OnTheClock
<1>4. rest = time - TickMs /\ rest \in Nat /\ time \in Nat
  BY <1>1, <1>2
<1>5. due' * TickMs = rest /\ Min({since', MaxCatchup}) = counted
  BY <1>2
<1>6. behind >= accumulator + counted + time /\ behind <= Window
  BY DEF OnTheClock
<1> HIDE DEF counted, time, rest
<1>7. behind' \in Nat /\ behind' >= accumulator' + counted + rest /\ behind' <= Window
  BY <1>1, <1>2, <1>3, <1>4, <1>6, InputPathAssumption DEF Window
<1>8. QED
  BY <1>1, <1>2, <1>3, <1>5, <1>7 DEF OnTheClock

LEMMA ClockInvariant == Spec => []OnTheClock
<1>1. OnTheClock /\ [Next]_vars => OnTheClock'
  <2> SUFFICES ASSUME OnTheClock, [Next]_vars PROVE OnTheClock'
    OBVIOUS
  <2>1. CASE UNCHANGED pump
    BY <2>1 DEF pump, OnTheClock
  <2>2. ASSUME NEW p \in Players, NEW k \in Keys, KeyDown(p, k) \/ KeyUp(p, k)
        PROVE  OnTheClock'
    BY <2>1, <2>2 DEF KeyDown, KeyUp
  <2>3. ASSUME NEW p \in Players,
               Blur(p) \/ Hide(p) \/ Show(p) \/ ClientTick(p) \/ MatchInput(p)
        PROVE  OnTheClock'
    BY <2>1, <2>3 DEF Blur, Hide, Clear, Show, ClientTick, MatchInput
  <2>4. ASSUME NEW by \in Delays, Elapse(by) PROVE OnTheClock'
    BY <2>4, ElapseOnTheClock
  <2>5. CASE Wake \/ Tick
    BY <2>5, WakeOnTheClock, TickOnTheClock
  <2>6. CASE UNCHANGED vars
    BY <2>1, <2>6 DEF vars
  <2>7. QED
    BY <2>2, <2>3, <2>4, <2>5, <2>6 DEF Next
<1>2. QED
  BY <1>1, ClockStarts, PTL DEF Spec

\* The match never runs ahead of the clock, however long the pump sleeps, for
\* any length of a tick and any cap on the ticks of a wake: pump and its
\* accumulator in packages/server/src/server.ts.
THEOREM TheMatchKeepsTime == Spec => []NeverAheadOfTheClock
<1>1. OnTheClock => NeverAheadOfTheClock
  <2> SUFFICES ASSUME OnTheClock PROVE NeverAheadOfTheClock
    OBVIOUS
  <2> DEFINE counted == Min({since, MaxCatchup})
             time == due * TickMs
  <2>1. counted \in Nat
    BY MinOfTwo, InputPathAssumption DEF OnTheClock
  <2>2. time \in Nat /\ accumulator \in Nat /\ behind \in Nat
    BY InputPathAssumption DEF OnTheClock
  <2>3. behind >= accumulator + counted + time
    BY DEF OnTheClock
  <2> HIDE DEF counted, time
  <2>4. behind >= accumulator + time
    BY <2>1, <2>2, <2>3
  <2>5. QED
    BY <2>4 DEF NeverAheadOfTheClock, time
<1>2. QED
  BY <1>1, ClockInvariant, PTL

-----------------------------------------------------------------------------
(* Counting keystrokes. *)

LEMMA KeysOfFacts ==
  ASSUME NEW a \in Actions, NEW keys \in SUBSET Keys, IsFiniteSet(keys)
  PROVE  /\ KeysOf(a, {}) = 0
         /\ KeysOf(a, keys) \in Nat
         /\ a \in {ActionOf[k] : k \in keys} => KeysOf(a, keys) > 0
         /\ \A k \in Keys : KeysOf(a, keys \cup {k}) = KeysOf(a, keys)
                              + OneIf(k \notin keys /\ ActionOf[k] = a)
<1> DEFINE Hits(S) == {k \in S : ActionOf[k] = a}
<1>1. IsFiniteSet(Hits(keys)) /\ Cardinality(Hits(keys)) \in Nat
  BY FS_Subset, FS_CardinalityType
<1>2. Hits({}) = {}
  OBVIOUS
<1>3. a \in {ActionOf[k] : k \in keys} => Hits(keys) # {}
  OBVIOUS
<1>4. ASSUME NEW k \in Keys
      PROVE  Cardinality(Hits(keys \cup {k})) = Cardinality(Hits(keys))
                                                + OneIf(k \notin keys /\ ActionOf[k] = a)
  <2>1. CASE ActionOf[k] = a
    <3>1. Hits(keys \cup {k}) = Hits(keys) \cup {k} /\ (k \in Hits(keys) <=> k \in keys)
      BY <2>1
    <3> HIDE DEF Hits
    <3>2. Cardinality(Hits(keys) \cup {k})
            = IF k \in Hits(keys) THEN Cardinality(Hits(keys)) ELSE Cardinality(Hits(keys)) + 1
      BY <1>1, FS_AddElement
    <3>3. CASE k \in keys
      BY <1>1, <2>1, <3>1, <3>2, <3>3 DEF OneIf
    <3>4. CASE k \notin keys
      BY <1>1, <2>1, <3>1, <3>2, <3>4 DEF OneIf
    <3>5. QED
      BY <3>3, <3>4
  <2>2. CASE ActionOf[k] # a
    <3>1. Hits(keys \cup {k}) = Hits(keys)
      BY <2>2
    <3> HIDE DEF Hits
    <3>2. QED
      BY <1>1, <2>2, <3>1 DEF OneIf
  <2>3. QED
    BY <2>1, <2>2
<1>5. Cardinality({}) = 0 /\ (Cardinality(Hits(keys)) = 0 <=> Hits(keys) = {})
  BY <1>1, FS_EmptySet
<1>6. \A S : KeysOf(a, S) = Cardinality(Hits(S))
  BY DEF KeysOf
<1> HIDE DEF Hits
<1>7. KeysOf(a, {}) = 0 /\ KeysOf(a, keys) \in Nat
  BY <1>1, <1>2, <1>5, <1>6
<1>8. a \in {ActionOf[k] : k \in keys} => KeysOf(a, keys) > 0
  BY <1>1, <1>3, <1>5, <1>6
<1>9. QED
  BY <1>4, <1>6, <1>7, <1>8

\* The messages of a queue that carry an action.
Carrying(q, a) == Cardinality({i \in DOMAIN q : a \in q[i].pressed})

LEMMA CarryingIsNat ==
  ASSUME NEW a, NEW q \in Seq(Input)
  PROVE  IsFiniteSet({i \in DOMAIN q : a \in q[i].pressed}) /\ Carrying(q, a) \in Nat
<1>1. IsFiniteSet(1..Len(q)) /\ DOMAIN q = 1..Len(q)
  BY FS_Interval
<1>2. QED
  BY <1>1, FS_Subset, FS_CardinalityType DEF Carrying

LEMMA CarryingNothing ==
  ASSUME NEW a
  PROVE  Carrying(<<>>, a) = 0
<1>1. {i \in DOMAIN <<>> : a \in <<>>[i].pressed} = {}
  OBVIOUS
<1>2. QED
  BY <1>1, FS_EmptySet DEF Carrying

LEMMA CarryingOneMore ==
  ASSUME NEW a, NEW q \in Seq(Input), NEW m \in Input
  PROVE  Carrying(Append(q, m), a) = Carrying(q, a) + OneIf(a \in m.pressed)
<1> DEFINE S == {i \in DOMAIN q : a \in q[i].pressed}
           T == {i \in DOMAIN Append(q, m) : a \in Append(q, m)[i].pressed}
           n == Len(q) + 1
<1>1. IsFiniteSet(S) /\ Cardinality(S) \in Nat
  BY CarryingIsNat DEF Carrying
<1>2. n \notin S
  OBVIOUS
<1>3. /\ DOMAIN Append(q, m) = 1..n /\ DOMAIN q = 1..Len(q) /\ Append(q, m)[n] = m
      /\ \A i \in 1..Len(q) : Append(q, m)[i] = q[i]
      /\ 1..n = (1..Len(q)) \cup {n}
  OBVIOUS
<1>4. CASE a \in m.pressed
  <2>1. T = S \cup {n}
    BY <1>3, <1>4
  <2> HIDE DEF S, T, n
  <2>2. Cardinality(T) = Cardinality(S) + 1
    BY <1>1, <1>2, <2>1, FS_AddElement
  <2>3. QED
    BY <1>4, <2>2 DEF Carrying, OneIf, S, T
<1>5. CASE a \notin m.pressed
  <2>1. T = S
    BY <1>3, <1>5
  <2> HIDE DEF S, T, n
  <2>2. Cardinality(T) = Cardinality(S) + 0
    BY <1>1, <2>1
  <2>3. QED
    BY <1>5, <2>2 DEF Carrying, OneIf, S, T
<1>6. QED
  BY <1>4, <1>5

LEMMA CarryingOneLess ==
  ASSUME NEW a, NEW q \in Seq(Input), q # <<>>
  PROVE  Carrying(Tail(q), a) + OneIf(a \in Head(q).pressed) = Carrying(q, a)
<1> DEFINE S == {i \in DOMAIN q : a \in q[i].pressed}
           T == {i \in DOMAIN Tail(q) : a \in Tail(q)[i].pressed}
           f == [i \in T |-> i + 1]
<1>1. /\ Len(q) \in Nat /\ Len(q) > 0 /\ DOMAIN q = 1..Len(q) /\ Head(q) = q[1]
      /\ Tail(q) \in Seq(Input) /\ DOMAIN Tail(q) = 1..(Len(q) - 1)
      /\ \A i \in 1..(Len(q) - 1) : Tail(q)[i] = q[i + 1]
  OBVIOUS
<1>2. IsFiniteSet(S) /\ IsFiniteSet(T)
  BY <1>1, CarryingIsNat
<1>3. \A i \in T : i \in Nat /\ i > 0 /\ i + 1 \in S \ {1}
  BY <1>1
<1>4. \A j \in S \ {1} : j \in Nat /\ j - 1 \in T
  BY <1>1
<1>5. 1 \in S <=> a \in Head(q).pressed
  BY <1>1
<1> HIDE DEF S, T
<1>6. f \in [T -> S \ {1}]
  BY <1>3
<1>7. \A i, j \in T : f[i] = f[j] => i = j
  BY <1>3
<1>8. \A j \in S \ {1} : \E i \in T : f[i] = j
  <2>1. SUFFICES ASSUME NEW j \in S \ {1} PROVE \E i \in T : f[i] = j
    OBVIOUS
  <2>2. j - 1 \in T /\ f[j - 1] = j
    BY <1>4
  <2>3. QED
    BY <2>2
<1> HIDE DEF f
<1>9. ExistsBijection(T, S \ {1})
  BY <1>6, <1>7, <1>8 DEF ExistsBijection, Bijection, Injection, Surjection, IsInjective
<1>10. Cardinality(S \ {1}) = Cardinality(T)
  BY <1>2, <1>9, FS_Bijection
<1>11. Cardinality(S \ {1}) = IF 1 \in S THEN Cardinality(S) - 1 ELSE Cardinality(S)
  BY <1>2, FS_RemoveElement
<1>12. Cardinality(S) \in Nat
  BY <1>2, FS_CardinalityType
<1>13. Cardinality(T) + OneIf(a \in Head(q).pressed) = Cardinality(S)
  BY <1>5, <1>10, <1>11, <1>12 DEF OneIf
<1>14. QED
  BY <1>13 DEF Carrying, S, T

-----------------------------------------------------------------------------
(* Keystrokes. *)

\* What the counters count over, and that the books balance.
TapsTyped ==
    /\ held \in [Players -> SUBSET Keys] /\ pressed \in [Players -> SUBSET Keys]
    /\ \A p \in Players : IsFiniteSet(pressed[p])
    /\ uplink \in [Players -> Seq(Input)]
    /\ inputs \in [Seats -> Input]
    /\ taps \in Counts /\ struck \in Counts
    /\ lost \in [Players -> [Actions -> Int]]

TapsCounted == TapsTyped /\ EveryTapAccounted

\* The terms of one account.
LEMMA WaitingTerms ==
  ASSUME TapsTyped, NEW p \in Players, NEW a \in Actions
  PROVE  /\ Waiting(p, a) = KeysOf(a, pressed[p]) + Carrying(uplink[p], a)
                            + OneIf(a \in inputs[p].pressed)
         /\ KeysOf(a, pressed[p]) \in Nat /\ Carrying(uplink[p], a) \in Nat
         /\ OneIf(a \in inputs[p].pressed) \in Nat
         /\ taps[p][a] \in Nat /\ struck[p][a] \in Nat /\ lost[p][a] \in Int
<1>1. KeysOf(a, pressed[p]) \in Nat
  BY KeysOfFacts DEF TapsTyped
<1>2. Carrying(uplink[p], a) \in Nat
  BY CarryingIsNat DEF TapsTyped
<1>3. OneIf(a \in inputs[p].pressed) \in Nat
  BY DEF OneIf
<1>4. taps[p][a] \in Nat /\ struck[p][a] \in Nat /\ lost[p][a] \in Int
  BY DEF TapsTyped, Counts
<1>5. Waiting(p, a) = KeysOf(a, pressed[p]) + Carrying(uplink[p], a)
                      + OneIf(a \in inputs[p].pressed)
  BY DEF Waiting, Carrying
<1>6. QED
  BY <1>1, <1>2, <1>3, <1>4, <1>5

LEMMA WaitingNext ==
  ASSUME NEW p \in Players, NEW a \in Actions
  PROVE  Waiting(p, a)' = KeysOf(a, pressed'[p]) + Carrying(uplink'[p], a)
                          + OneIf(a \in inputs'[p].pressed)
  BY DEF Waiting, Carrying, KeysOf, OneIf

\* An account stays balanced when what comes in is what goes out.
LEMMA AccountMoves ==
  ASSUME TapsTyped, NEW p \in Players, NEW a \in Actions,
         taps[p][a] = struck[p][a] + Waiting(p, a) + lost[p][a],
         taps'[p][a] - taps[p][a]
           = (KeysOf(a, pressed'[p]) - KeysOf(a, pressed[p]))
             + (Carrying(uplink'[p], a) - Carrying(uplink[p], a))
             + (OneIf(a \in inputs'[p].pressed) - OneIf(a \in inputs[p].pressed))
             + (struck'[p][a] - struck[p][a]) + (lost'[p][a] - lost[p][a]),
         KeysOf(a, pressed'[p]) \in Int, Carrying(uplink'[p], a) \in Int,
         taps'[p][a] \in Int, struck'[p][a] \in Int, lost'[p][a] \in Int
  PROVE  (taps[p][a] = struck[p][a] + Waiting(p, a) + lost[p][a])'
<1> DEFINE k == KeysOf(a, pressed[p])
           c == Carrying(uplink[p], a)
           i == OneIf(a \in inputs[p].pressed)
           kk == KeysOf(a, pressed'[p])
           cc == Carrying(uplink'[p], a)
           ii == OneIf(a \in inputs'[p].pressed)
           t == taps[p][a]
           tt == taps'[p][a]
           s == struck[p][a]
           ss == struck'[p][a]
           l == lost[p][a]
           ll == lost'[p][a]
<1>1. k \in Nat /\ c \in Nat /\ i \in Nat /\ Waiting(p, a) = k + c + i
  BY WaitingTerms
<1>2. t \in Nat /\ s \in Nat /\ l \in Int
  BY WaitingTerms
<1>3. kk \in Int /\ cc \in Int /\ ii \in Int /\ tt \in Int /\ ss \in Int /\ ll \in Int
  BY DEF OneIf
<1>4. Waiting(p, a)' = kk + cc + ii
  BY WaitingNext
<1>5. t = s + Waiting(p, a) + l
      /\ tt - t = (kk - k) + (cc - c) + (ii - i) + (ss - s) + (ll - l)
  OBVIOUS
<1> HIDE DEF k, c, i, kk, cc, ii, t, tt, s, ss, l, ll
<1>6. tt = ss + (kk + cc + ii) + ll
  BY <1>1, <1>2, <1>3, <1>5
<1>7. QED
  BY <1>4, <1>6 DEF tt, ss, ll

LEMMA TapsStart == Init => TapsCounted
<1> SUFFICES ASSUME Init PROVE TapsCounted
  OBVIOUS
<1>1. TapsTyped
  <2>1. Nought \in Counts /\ Nought \in [Players -> [Actions -> Int]]
    BY DEF Nought, Counts
  <2>2. NoInput \in Input
    BY DEF NoInput, Input
  <2>3. \A p \in Players : IsFiniteSet(pressed[p])
    BY FS_EmptySet DEF Init
  <2>4. QED
    BY <2>1, <2>2, <2>3 DEF Init, TapsTyped
<1>2. ASSUME NEW p \in Players, NEW a \in Actions
      PROVE  taps[p][a] = struck[p][a] + Waiting(p, a) + lost[p][a]
  <2>1. p \in Seats
    BY InputPathAssumption
  <2>2. pressed[p] = {} /\ uplink[p] = <<>> /\ a \notin inputs[p].pressed
    BY <2>1 DEF Init, NoInput
  <2>3. taps[p][a] = 0 /\ struck[p][a] = 0 /\ lost[p][a] = 0
    BY DEF Init, Nought
  <2>4. KeysOf(a, {}) = 0
    BY KeysOfFacts, FS_EmptySet
  <2>5. Carrying(<<>>, a) = 0
    BY CarryingNothing
  <2>6. Waiting(p, a) = 0
    <3>1. OneIf(a \in inputs[p].pressed) = 0
      BY <2>2 DEF OneIf
    <3>2. KeysOf(a, pressed[p]) = 0 /\ Carrying(uplink[p], a) = 0
      BY <2>2, <2>4, <2>5
    <3>3. Waiting(p, a) = KeysOf(a, pressed[p]) + Carrying(uplink[p], a)
                          + OneIf(a \in inputs[p].pressed)
      BY <1>1, WaitingTerms
    <3>4. QED
      BY <3>1, <3>2, <3>3
  <2>7. QED
    BY <2>3, <2>6
<1>3. QED
  BY <1>1, <1>2 DEF TapsCounted, EveryTapAccounted

LEMMA KeyDownCounts ==
  ASSUME TapsCounted, NEW p \in Players, NEW k \in Keys, KeyDown(p, k)
  PROVE  TapsCounted'
<1> DEFINE b == ActionOf[k]
<1>1. b \in Actions
  BY InputPathAssumption
<1>2. TapsTyped
  BY DEF TapsCounted
<1>3. /\ pressed' = [pressed EXCEPT ![p] = @ \cup {k}]
      /\ held' = [held EXCEPT ![p] = @ \cup {k}]
      /\ taps' = [taps EXCEPT ![p][b] = @ + 1]
      /\ lost' = [lost EXCEPT ![p][b] = @ + OneIf(k \in pressed[p])]
      /\ uplink' = uplink /\ inputs' = inputs /\ struck' = struck
  BY DEF KeyDown
<1> HIDE DEF b
<1>4. TapsTyped'
  <2>1. OneIf(k \in pressed[p]) \in Nat
    BY DEF OneIf
  <2>2. \A q \in Players : IsFiniteSet(pressed'[q])
    BY <1>2, <1>3, FS_AddElement DEF TapsTyped
  <2>3. taps' \in Counts
    BY <1>1, <1>2, <1>3 DEF TapsTyped, Counts
  <2>4. lost' \in [Players -> [Actions -> Int]]
    BY <1>1, <1>2, <1>3, <2>1 DEF TapsTyped
  <2>5. QED
    BY <1>2, <1>3, <2>2, <2>3, <2>4 DEF TapsTyped
<1>5. ASSUME NEW q \in Players, NEW a \in Actions
      PROVE  (taps[q][a] = struck[q][a] + Waiting(q, a) + lost[q][a])'
  <2>1. taps[q][a] = struck[q][a] + Waiting(q, a) + lost[q][a]
    BY DEF TapsCounted, EveryTapAccounted
  <2>2. KeysOf(a, pressed[q] \cup {k}) = KeysOf(a, pressed[q])
              + OneIf(k \notin pressed[q] /\ ActionOf[k] = a)
    BY <1>2, KeysOfFacts DEF TapsTyped
  <2>3. /\ KeysOf(a, pressed[q]) \in Nat /\ Carrying(uplink[q], a) \in Nat
        /\ OneIf(a \in inputs[q].pressed) \in Nat
        /\ taps[q][a] \in Nat /\ struck[q][a] \in Nat /\ lost[q][a] \in Int
    BY <1>2, WaitingTerms
  <2>4. /\ Carrying(uplink'[q], a) = Carrying(uplink[q], a) + 0
        /\ OneIf(a \in inputs'[q].pressed) = OneIf(a \in inputs[q].pressed) + 0
        /\ struck'[q][a] = struck[q][a] + 0
    BY <1>3, <2>3
  <2>5. CASE q = p /\ a = b
    <3>1. taps'[q][a] = taps[q][a] + 1
      BY <1>2, <1>3, <2>5 DEF TapsTyped, Counts
    <3>2. pressed'[q] = pressed[q] \cup {k}
      BY <1>2, <1>3, <2>5 DEF TapsTyped
    <3>3. CASE k \in pressed[p]
      <4>1. lost'[q][a] = lost[q][a] + 1
        BY <1>2, <1>3, <2>5, <3>3 DEF TapsTyped, OneIf
      <4>2. KeysOf(a, pressed'[q]) = KeysOf(a, pressed[q]) + 0
        <5>1. OneIf(k \notin pressed[q] /\ ActionOf[k] = a) = 0
          BY <2>5, <3>3 DEF OneIf
        <5>2. QED
          BY <2>2, <3>2, <5>1
      <4>3. QED
        BY <1>2, <2>1, <2>3, <2>4, <3>1, <4>1, <4>2, AccountMoves
    <3>4. CASE k \notin pressed[p]
      <4>1. lost'[q][a] = lost[q][a] + 0
        BY <1>2, <1>3, <2>3, <2>5, <3>4 DEF TapsTyped, OneIf
      <4>2. KeysOf(a, pressed'[q]) = KeysOf(a, pressed[q]) + 1
        <5>1. OneIf(k \notin pressed[q] /\ ActionOf[k] = a) = 1
          BY <2>5, <3>4 DEF OneIf, b
        <5>2. QED
          BY <2>2, <3>2, <5>1
      <4>3. QED
        BY <1>2, <2>1, <2>3, <2>4, <3>1, <4>1, <4>2, AccountMoves
    <3>5. QED
      BY <3>3, <3>4
  <2>6. CASE ~(q = p /\ a = b)
    <3>1. taps'[q][a] = taps[q][a] + 0 /\ lost'[q][a] = lost[q][a] + 0
      BY <1>2, <1>3, <2>3, <2>6 DEF TapsTyped, Counts
    <3>2. KeysOf(a, pressed'[q]) = KeysOf(a, pressed[q]) + 0
      <4>1. CASE q = p
        <5>1. pressed'[q] = pressed[q] \cup {k}
          BY <1>2, <1>3, <4>1 DEF TapsTyped
        <5>2. OneIf(k \notin pressed[q] /\ ActionOf[k] = a) = 0
          BY <2>6, <4>1 DEF OneIf, b
        <5>3. QED
          BY <2>2, <5>1, <5>2
      <4>2. CASE q # p
        BY <1>2, <1>3, <2>3, <4>2 DEF TapsTyped
      <4>3. QED
        BY <4>1, <4>2
    <3>3. QED
      BY <1>2, <2>1, <2>3, <2>4, <3>1, <3>2, AccountMoves
  <2>7. QED
    BY <2>5, <2>6
<1>6. QED
  BY <1>4, <1>5 DEF TapsCounted, EveryTapAccounted

LEMMA KeyUpCounts ==
  ASSUME TapsCounted, NEW p \in Players, NEW k \in Keys, KeyUp(p, k)
  PROVE  TapsCounted'
<1>1. TapsTyped'
  BY DEF TapsCounted, TapsTyped, KeyUp, ghosts
<1>2. EveryTapAccounted'
  BY DEF TapsCounted, EveryTapAccounted, Waiting, KeysOf, OneIf, KeyUp, ghosts
<1>3. QED
  BY <1>1, <1>2 DEF TapsCounted

LEMMA ClearCounts ==
  ASSUME TapsCounted, NEW p \in Players, Clear(p)
  PROVE  TapsCounted'
<1>1. TapsTyped
  BY DEF TapsCounted
<1>2. /\ pressed' = [pressed EXCEPT ![p] = {}] /\ held' = [held EXCEPT ![p] = {}]
      /\ lost' = [lost EXCEPT ![p] = [a \in Actions |-> @[a] + KeysOf(a, pressed[p])]]
      /\ uplink' = uplink /\ inputs' = inputs /\ struck' = struck /\ taps' = taps
  BY DEF Clear
<1>3. \A a \in Actions : KeysOf(a, pressed[p]) \in Nat /\ KeysOf(a, {}) = 0
  BY <1>1, KeysOfFacts DEF TapsTyped
<1>4. TapsTyped'
  <2>1. \A q \in Players : IsFiniteSet(pressed'[q])
    BY <1>1, <1>2, FS_EmptySet DEF TapsTyped
  <2>2. lost' \in [Players -> [Actions -> Int]]
    BY <1>1, <1>2, <1>3 DEF TapsTyped
  <2>3. QED
    BY <1>1, <1>2, <2>1, <2>2 DEF TapsTyped
<1>5. ASSUME NEW q \in Players, NEW a \in Actions
      PROVE  (taps[q][a] = struck[q][a] + Waiting(q, a) + lost[q][a])'
  <2>1. taps[q][a] = struck[q][a] + Waiting(q, a) + lost[q][a]
    BY DEF TapsCounted, EveryTapAccounted
  <2>2. PICK n \in Nat : n = KeysOf(a, pressed[p])
    BY <1>3
  <2>3. /\ KeysOf(a, pressed[q]) \in Nat /\ Carrying(uplink[q], a) \in Nat
        /\ OneIf(a \in inputs[q].pressed) \in Nat
        /\ taps[q][a] \in Nat /\ struck[q][a] \in Nat /\ lost[q][a] \in Int
    BY <1>1, WaitingTerms
  <2>4. /\ Carrying(uplink'[q], a) = Carrying(uplink[q], a) + 0
        /\ OneIf(a \in inputs'[q].pressed) = OneIf(a \in inputs[q].pressed) + 0
        /\ struck'[q][a] = struck[q][a] + 0 /\ taps'[q][a] = taps[q][a] + 0
    BY <1>2, <2>3
  <2>5. CASE q = p
    <3>1. KeysOf(a, pressed'[q]) = KeysOf(a, pressed[q]) + (-n)
      BY <1>1, <1>2, <1>3, <2>2, <2>5 DEF TapsTyped
    <3>2. lost'[q][a] = lost[q][a] + n
      BY <1>1, <1>2, <2>2, <2>5 DEF TapsTyped
    <3>3. QED
      BY <1>1, <2>1, <2>3, <2>4, <3>1, <3>2, AccountMoves
  <2>6. CASE q # p
    <3>1. KeysOf(a, pressed'[q]) = KeysOf(a, pressed[q]) + 0 /\ lost'[q][a] = lost[q][a] + 0
      BY <1>1, <1>2, <2>3, <2>6 DEF TapsTyped
    <3>2. QED
      BY <1>1, <2>1, <2>3, <2>4, <3>1, AccountMoves
  <2>7. QED
    BY <2>5, <2>6
<1>6. QED
  BY <1>4, <1>5 DEF TapsCounted, EveryTapAccounted

LEMMA ClientTickCounts ==
  ASSUME TapsCounted, NEW p \in Players, ClientTick(p)
  PROVE  TapsCounted'
<1> DEFINE m == Merged(p)
<1>1. TapsTyped
  BY DEF TapsCounted
<1>2. /\ pressed' = [pressed EXCEPT ![p] = {}]
      /\ lost' = [lost EXCEPT ![p] =
            [a \in Actions |-> @[a] + KeysOf(a, pressed[p]) - OneIf(a \in m.pressed)]]
      /\ held' = held /\ inputs' = inputs /\ struck' = struck /\ taps' = taps
  BY DEF ClientTick
<1>3. \/ uplink' = [uplink EXCEPT ![p] = Append(@, m)]
      \/ uplink' = uplink /\ m.pressed = {}
  BY DEF ClientTick, Sends
<1>4. \A a \in Actions : KeysOf(a, pressed[p]) \in Nat /\ KeysOf(a, {}) = 0
  BY <1>1, KeysOfFacts DEF TapsTyped
<1>5. m \in Input
  BY <1>1, InputPathAssumption DEF Merged, Input, TapsTyped
<1> HIDE DEF m
<1>6. TapsTyped'
  <2>1. \A q \in Players : IsFiniteSet(pressed'[q])
    BY <1>1, <1>2, FS_EmptySet DEF TapsTyped
  <2>2. lost' \in [Players -> [Actions -> Int]]
    <3>1. \A a \in Actions : OneIf(a \in m.pressed) \in Nat
      BY DEF OneIf
    <3>2. QED
      BY <1>1, <1>2, <1>4, <3>1 DEF TapsTyped
  <2>3. uplink' \in [Players -> Seq(Input)]
    <3>1. uplink \in [Players -> Seq(Input)] /\ Append(uplink[p], m) \in Seq(Input)
      BY <1>1, <1>5 DEF TapsTyped
    <3>2. QED
      BY <1>3, <3>1
  <2>4. pressed' \in [Players -> SUBSET Keys]
    BY <1>1, <1>2 DEF TapsTyped
  <2>5. QED
    BY <1>1, <1>2, <2>1, <2>2, <2>3, <2>4 DEF TapsTyped
<1>7. ASSUME NEW q \in Players, NEW a \in Actions
      PROVE  (taps[q][a] = struck[q][a] + Waiting(q, a) + lost[q][a])'
  <2>1. taps[q][a] = struck[q][a] + Waiting(q, a) + lost[q][a]
    BY DEF TapsCounted, EveryTapAccounted
  <2>2. PICK n \in Nat : n = KeysOf(a, pressed[p])
    BY <1>4
  <2>3. PICK o \in Nat : o = OneIf(a \in m.pressed)
    BY DEF OneIf
  <2>4. /\ KeysOf(a, pressed[q]) \in Nat /\ Carrying(uplink[q], a) \in Nat
        /\ OneIf(a \in inputs[q].pressed) \in Nat
        /\ taps[q][a] \in Nat /\ struck[q][a] \in Nat /\ lost[q][a] \in Int
    BY <1>1, WaitingTerms
  <2>5. /\ OneIf(a \in inputs'[q].pressed) = OneIf(a \in inputs[q].pressed) + 0
        /\ struck'[q][a] = struck[q][a] + 0 /\ taps'[q][a] = taps[q][a] + 0
    BY <1>2, <2>4
  <2>6. CASE q = p
    <3>1. KeysOf(a, pressed'[q]) = KeysOf(a, pressed[q]) + (-n)
      BY <1>1, <1>2, <1>4, <2>2, <2>6 DEF TapsTyped
    <3>2. lost'[q][a] = lost[q][a] + (n - o)
      BY <1>1, <1>2, <2>2, <2>3, <2>6 DEF TapsTyped
    <3>3. Carrying(uplink'[q], a) = Carrying(uplink[q], a) + o
      <4>1. CASE uplink' = [uplink EXCEPT ![p] = Append(@, m)]
        <5>1. uplink'[q] = Append(uplink[q], m)
          BY <1>1, <2>6, <4>1 DEF TapsTyped
        <5>2. QED
          BY <1>1, <1>5, <2>3, <5>1, CarryingOneMore DEF TapsTyped
      <4>2. CASE uplink' = uplink /\ m.pressed = {}
        <5>1. o = 0
          BY <2>3, <4>2 DEF OneIf
        <5>2. QED
          BY <2>4, <4>2, <5>1
      <4>3. QED
        BY <1>3, <4>1, <4>2
    <3>4. QED
      BY <1>1, <2>1, <2>4, <2>5, <3>1, <3>2, <3>3, AccountMoves
  <2>7. CASE q # p
    <3>1. KeysOf(a, pressed'[q]) = KeysOf(a, pressed[q]) + 0 /\ lost'[q][a] = lost[q][a] + 0
      BY <1>1, <1>2, <2>4, <2>7 DEF TapsTyped
    <3>2. Carrying(uplink'[q], a) = Carrying(uplink[q], a) + 0
      BY <1>1, <1>3, <2>4, <2>7 DEF TapsTyped
    <3>3. QED
      BY <1>1, <2>1, <2>4, <2>5, <3>1, <3>2, AccountMoves
  <2>8. QED
    BY <2>6, <2>7
<1>8. QED
  BY <1>6, <1>7 DEF TapsCounted, EveryTapAccounted

LEMMA MatchInputCounts ==
  ASSUME TapsCounted, NEW p \in Players, MatchInput(p)
  PROVE  TapsCounted'
<1> DEFINE m == Head(uplink[p])
           accepted == budget[p] > 0
<1>1. TapsTyped /\ p \in Seats
  BY InputPathAssumption DEF TapsCounted
<1>2. /\ uplink[p] # <<>> /\ uplink' = [uplink EXCEPT ![p] = Tail(@)]
      /\ lost' = [lost EXCEPT ![p] = [a \in Actions |-> @[a] +
            OneIf(a \in m.pressed /\ (~accepted \/ a \in inputs[p].pressed))]]
      /\ held' = held /\ pressed' = pressed /\ struck' = struck /\ taps' = taps
  BY DEF MatchInput, keyboard
<1>3. \/ accepted /\ inputs' = [inputs EXCEPT ![p] = [pressed |-> @.pressed \cup m.pressed,
                                                       held |-> m.held]]
      \/ ~accepted /\ inputs' = inputs
  BY DEF MatchInput
<1>4. uplink[p] \in Seq(Input) /\ m \in Input /\ Tail(uplink[p]) \in Seq(Input)
  BY <1>1, <1>2 DEF TapsTyped
<1> HIDE DEF m, accepted
<1>5. \A a \in Actions :
         OneIf(a \in m.pressed /\ (~accepted \/ a \in inputs[p].pressed)) \in Nat
  BY DEF OneIf
<1>6. TapsTyped'
  <2>1. lost' \in [Players -> [Actions -> Int]]
    <3>1. [a \in Actions |-> lost[p][a]
             + OneIf(a \in m.pressed /\ (~accepted \/ a \in inputs[p].pressed))]
            \in [Actions -> Int]
      BY <1>1, <1>5 DEF TapsTyped
    <3>2. QED
      BY <1>1, <1>2, <3>1 DEF TapsTyped
  <2>2. uplink' \in [Players -> Seq(Input)]
    BY <1>1, <1>2, <1>4 DEF TapsTyped
  <2>3. inputs' \in [Seats -> Input]
    <3>1. inputs \in [Seats -> Input]
          /\ [pressed |-> inputs[p].pressed \cup m.pressed, held |-> m.held] \in Input
      BY <1>1, <1>4 DEF TapsTyped, Input
    <3>2. CASE accepted
      <4>1. inputs' = [inputs EXCEPT ![p] = [pressed |-> inputs[p].pressed \cup m.pressed,
                                             held |-> m.held]]
        BY <1>1, <1>3, <3>1, <3>2
      <4>2. QED
        BY <1>1, <3>1, <4>1
    <3>3. QED
      BY <1>3, <3>1, <3>2
  <2>4. QED
    BY <1>1, <1>2, <2>1, <2>2, <2>3 DEF TapsTyped
<1>7. ASSUME NEW q \in Players, NEW a \in Actions
      PROVE  (taps[q][a] = struck[q][a] + Waiting(q, a) + lost[q][a])'
  <2>1. taps[q][a] = struck[q][a] + Waiting(q, a) + lost[q][a] /\ q \in Seats
    BY InputPathAssumption DEF TapsCounted, EveryTapAccounted
  <2>2. /\ KeysOf(a, pressed[q]) \in Nat /\ Carrying(uplink[q], a) \in Nat
        /\ OneIf(a \in inputs[q].pressed) \in Nat
        /\ taps[q][a] \in Nat /\ struck[q][a] \in Nat /\ lost[q][a] \in Int
    BY <1>1, WaitingTerms
  <2>3. /\ KeysOf(a, pressed'[q]) = KeysOf(a, pressed[q])
        /\ struck'[q][a] = struck[q][a] /\ taps'[q][a] = taps[q][a]
    BY <1>2
  <2>4. CASE q = p
    <3>1. /\ Carrying(uplink'[q], a) + OneIf(a \in m.pressed) = Carrying(uplink[q], a)
          /\ Carrying(uplink'[q], a) \in Nat
      <4>1. uplink'[q] = Tail(uplink[p])
        BY <1>1, <1>2, <2>4 DEF TapsTyped
      <4>2. QED
        BY <1>2, <1>4, <2>4, <4>1, CarryingOneLess, CarryingIsNat DEF m
    <3>2. lost'[q][a] = lost[q][a]
                        + OneIf(a \in m.pressed /\ (~accepted \/ a \in inputs[p].pressed))
      BY <1>1, <1>2, <2>4 DEF TapsTyped
    <3>3. OneIf(a \in m.pressed) + OneIf(a \in inputs[q].pressed)
            = OneIf(a \in inputs'[q].pressed)
              + OneIf(a \in m.pressed /\ (~accepted \/ a \in inputs[p].pressed))
      <4>1. a \in inputs'[q].pressed
              <=> a \in inputs[q].pressed \/ (accepted /\ a \in m.pressed)
        BY <1>1, <1>3, <2>4 DEF TapsTyped, Input
      <4>2. CASE accepted
        BY <2>4, <4>1, <4>2 DEF OneIf
      <4>3. CASE ~accepted
        BY <2>4, <4>1, <4>3 DEF OneIf
      <4>4. QED
        BY <4>2, <4>3
    <3>4. OneIf(a \in m.pressed) \in Nat /\ OneIf(a \in inputs'[q].pressed) \in Nat
      BY DEF OneIf
    <3>5. QED
      BY <1>1, <1>5, <2>1, <2>2, <2>3, <3>1, <3>2, <3>3, <3>4, AccountMoves
  <2>5. CASE q # p
    <3>1. Carrying(uplink'[q], a) = Carrying(uplink[q], a) /\ lost'[q][a] = lost[q][a]
      BY <1>1, <1>2, <2>5 DEF TapsTyped
    <3>2. inputs'[q] = inputs[q]
      BY <1>1, <1>3, <2>1, <2>5 DEF TapsTyped
    <3>3. QED
      BY <1>1, <2>1, <2>2, <2>3, <3>1, <3>2, AccountMoves
  <2>6. QED
    BY <2>4, <2>5
<1>8. QED
  BY <1>6, <1>7 DEF TapsCounted, EveryTapAccounted

LEMMA TickCounts ==
  ASSUME TapsCounted, Tick
  PROVE  TapsCounted'
<1>1. TapsTyped
  BY DEF TapsCounted
<1>2. /\ inputs' = [s \in Seats |-> [inputs[s] EXCEPT !.pressed = {}]]
      /\ struck' = [p \in Players |-> [a \in Actions |->
            struck[p][a] + OneIf(a \in inputs[p].pressed)]]
      /\ held' = held /\ pressed' = pressed /\ uplink' = uplink
      /\ taps' = taps /\ lost' = lost
  BY DEF Tick, keyboard
<1>3. TapsTyped'
  <2>1. inputs' \in [Seats -> Input]
    BY <1>1, <1>2 DEF TapsTyped, Input
  <2>2. struck' \in Counts
    <3>1. \A p \in Players : \A a \in Actions :
             struck[p][a] \in Nat /\ OneIf(a \in inputs[p].pressed) \in Nat
      BY <1>1, WaitingTerms
    <3>2. QED
      BY <1>2, <3>1 DEF Counts
  <2>3. QED
    BY <1>1, <1>2, <2>1, <2>2 DEF TapsTyped
<1>4. ASSUME NEW q \in Players, NEW a \in Actions
      PROVE  (taps[q][a] = struck[q][a] + Waiting(q, a) + lost[q][a])'
  <2>1. taps[q][a] = struck[q][a] + Waiting(q, a) + lost[q][a] /\ q \in Seats
    BY InputPathAssumption DEF TapsCounted, EveryTapAccounted
  <2>2. /\ KeysOf(a, pressed[q]) \in Nat /\ Carrying(uplink[q], a) \in Nat
        /\ OneIf(a \in inputs[q].pressed) \in Nat
        /\ taps[q][a] \in Nat /\ struck[q][a] \in Nat /\ lost[q][a] \in Int
    BY <1>1, WaitingTerms
  <2>3. /\ KeysOf(a, pressed'[q]) = KeysOf(a, pressed[q])
        /\ Carrying(uplink'[q], a) = Carrying(uplink[q], a)
        /\ lost'[q][a] = lost[q][a] /\ taps'[q][a] = taps[q][a]
    BY <1>2
  <2>4. struck'[q][a] = struck[q][a] + OneIf(a \in inputs[q].pressed)
    BY <1>2
  <2>5. OneIf(a \in inputs'[q].pressed) = 0
    <3>1. a \notin inputs'[q].pressed
      BY <1>1, <1>2, <2>1 DEF TapsTyped, Input
    <3>2. QED
      BY <3>1 DEF OneIf
  <2>6. QED
    BY <1>1, <2>1, <2>2, <2>3, <2>4, <2>5, AccountMoves, SMTT(30)
<1>5. QED
  BY <1>3, <1>4 DEF TapsCounted, EveryTapAccounted

LEMMA TapsInvariant == Spec => []TapsCounted
<1>1. TapsCounted /\ [Next]_vars => TapsCounted'
  <2> SUFFICES ASSUME TapsCounted, [Next]_vars PROVE TapsCounted'
    OBVIOUS
  <2>1. CASE UNCHANGED <<held, pressed, uplink, inputs, ghosts>>
    BY <2>1 DEF TapsCounted, TapsTyped, EveryTapAccounted, Waiting, KeysOf, OneIf, ghosts
  <2>2. ASSUME NEW p \in Players, NEW k \in Keys, KeyDown(p, k) \/ KeyUp(p, k)
        PROVE  TapsCounted'
    BY <2>2, KeyDownCounts, KeyUpCounts
  <2>3. ASSUME NEW p \in Players,
               Blur(p) \/ Hide(p) \/ Show(p) \/ ClientTick(p) \/ MatchInput(p)
        PROVE  TapsCounted'
    <3>1. CASE Blur(p) \/ Hide(p)
      BY <3>1, ClearCounts DEF Blur, Hide
    <3>2. CASE Show(p)
      BY <2>1, <3>2 DEF Show
    <3>3. CASE ClientTick(p) \/ MatchInput(p)
      BY <3>3, ClientTickCounts, MatchInputCounts
    <3>4. QED
      BY <2>3, <3>1, <3>2, <3>3
  <2>4. CASE (\E by \in Delays : Elapse(by)) \/ Wake
    BY <2>1, <2>4 DEF Elapse, Wake, keyboard
  <2>5. CASE Tick
    BY <2>5, TickCounts
  <2>6. CASE UNCHANGED vars
    BY <2>1, <2>6 DEF vars, keyboard
  <2>7. QED
    BY <2>2, <2>3, <2>4, <2>5, <2>6 DEF Next
<1>2. QED
  BY <1>1, TapsStart, PTL DEF Spec

\* Every keystroke moves a piece at most once, whatever the keys, the budget and
\* the delays: from onDown (client/src/game/input.ts) it waits in the keyboard,
\* in a message or in room.inputs until one tick runs it, unless it is merged
\* with another of its kind, refused by the budget, or cleared with the keys.
THEOREM NoTapIsRunTwice == Spec => []EveryTapAccounted
<1>1. TapsCounted => EveryTapAccounted
  BY DEF TapsCounted
<1>2. QED
  BY <1>1, TapsInvariant, PTL

-----------------------------------------------------------------------------
(* Recursion on a measure, and ends of sequences. *)

LEMMA SetInduction ==
  ASSUME NEW S \in SUBSET Nat, 0 \in S, \A n \in S : n + 1 \in S
  PROVE  S = Nat
<1> DEFINE T == Nat \ S
           R == OpToRel(<, Nat)
<1>1. SUFFICES ASSUME T # {} PROVE FALSE
  OBVIOUS
<1>2. IsWellFoundedOn(R, Nat)
  BY NatLessThanWellFounded, Zenon
<1>3. \A x, y \in Nat : y < x => <<y, x>> \in R
  BY DEF OpToRel
<1> HIDE DEF R
<1>4. T \subseteq Nat
  OBVIOUS
<1> HIDE DEF T
<1>5. PICK x \in T : \A y \in T : ~(<<y, x>> \in R)
  BY <1>1, <1>2, <1>4, WFMin
<1> USE DEF T
<1>6. x # 0 /\ x \in Nat
  OBVIOUS
<1>7. x - 1 \in Nat /\ x - 1 < x
  BY <1>6
<1>8. x - 1 \notin T
  BY <1>3, <1>5, <1>6, <1>7
<1>9. x - 1 \in S /\ (x - 1) + 1 = x
  BY <1>6, <1>7, <1>8
<1>10. QED
  BY <1>5, <1>9

\* Induction on a measure.
LEMMA MeasureInduction ==
  ASSUME NEW D, NEW N \in Nat, NEW m \in [D -> 0..N], NEW S,
         \A d \in D : (\A e \in D : m[e] < m[d] => e \in S) => d \in S
  PROVE  \A d \in D : d \in S
<1> DEFINE T == {n \in Nat : \A d \in D : m[d] < n => d \in S}
<1>1. \A d \in D : m[d] \in 0..N
  OBVIOUS
<1>2. 0 \in T
  BY <1>1
<1>3. ASSUME NEW n \in T PROVE n + 1 \in T
  <2>1. SUFFICES ASSUME NEW d \in D, m[d] < n + 1 PROVE d \in S
    OBVIOUS
  <2>2. \A x, y \in 0..N : x < n + 1 /\ y < x => y < n
    OBVIOUS
  <2>3. \A e \in D : m[e] < m[d] => m[e] < n
    BY <1>1, <2>1, <2>2
  <2>4. QED
    BY <2>3
<1>4. T \in SUBSET Nat
  OBVIOUS
<1> HIDE DEF T
<1>5. N + 1 \in T
  BY <1>2, <1>3, <1>4, SetInduction
<1>6. \A x \in 0..N : x < N + 1
  OBVIOUS
<1>7. QED
  BY <1>1, <1>5, <1>6 DEF T

\* G says what a function has at d, and looks only at what it has where the
\* measure is smaller.
Recursion(D, V, N, m, G) ==
    /\ V # {} /\ N \in Nat /\ m \in [D -> 0..N]
    /\ G \in [D -> [[D -> V] -> V]]
    /\ \A d \in D : \A f, g \in [D -> V] :
          (\A e \in D : m[e] < m[d] => f[e] = g[e]) => G[d][f] = G[d][g]

\* A function that is defined by recursion on a measure exists.
LEMMA RecursionHasSolution ==
  ASSUME NEW D, NEW V, NEW N, NEW m, NEW G, Recursion(D, V, N, m, G)
  PROVE  \E f \in [D -> V] : \A d \in D : f[d] = G[d][f]
<1> USE DEF Recursion
<1> DEFINE Upto(n, f) == \A d \in D : m[d] < n => f[d] = G[d][f]
           S == {n \in Nat : \E f \in [D -> V] : Upto(n, f)}
<1>1. 0 \in S
  <2> PICK v0 \in V : TRUE
    OBVIOUS
  <2>1. [d \in D |-> v0] \in [D -> V] /\ Upto(0, [d \in D |-> v0])
    OBVIOUS
  <2>2. QED
    BY <2>1
<1>2. ASSUME NEW n \in S PROVE n + 1 \in S
  <2>1. PICK f \in [D -> V] : Upto(n, f)
    OBVIOUS
  <2> DEFINE g == [d \in D |-> IF m[d] = n THEN G[d][f] ELSE f[d]]
  <2>2. g \in [D -> V]
    <3>1. ASSUME NEW d \in D PROVE G[d][f] \in V /\ f[d] \in V
      OBVIOUS
    <3>2. QED
      BY <3>1
  <2>3. Upto(n + 1, g)
    <3>1. SUFFICES ASSUME NEW d \in D, m[d] < n + 1 PROVE g[d] = G[d][g]
      OBVIOUS
    <3>2. \A e \in D : m[e] < m[d] => f[e] = g[e]
      <4>1. m[d] \in Int /\ m[d] <= n /\ n \in Int
        BY <3>1
      <4>2. ASSUME NEW e \in D, m[e] < m[d] PROVE f[e] = g[e]
        <5>1. m[e] \in Int /\ m[e] # n
          BY <4>1, <4>2
        <5>2. QED
          BY <5>1
      <4>3. QED
        BY <4>2
    <3>3. G[d][f] = G[d][g]
      BY <2>2, <3>2
    <3>4. CASE m[d] = n
      BY <3>3, <3>4
    <3>5. CASE m[d] # n
      <4>1. m[d] < n
        <5>1. \A x \in 0..N, y \in Nat : x < y + 1 /\ x # y => x < y
          OBVIOUS
        <5>2. m[d] \in 0..N /\ n \in Nat
          OBVIOUS
        <5>3. QED
          BY <3>1, <3>5, <5>1, <5>2, Zenon
      <4>2. f[d] = G[d][f]
        BY <2>1, <4>1
      <4>3. QED
        BY <3>3, <3>5, <4>2
    <3>6. QED
      BY <3>4, <3>5
  <2>4. n + 1 \in Nat
    OBVIOUS
  <2> HIDE DEF Upto, g
  <2>5. QED
    BY <2>2, <2>3, <2>4
<1>3. S \in SUBSET Nat
  OBVIOUS
<1>4. PICK f \in [D -> V] : Upto(N + 1, f)
  <2> HIDE DEF S
  <2>1. S = Nat
    BY <1>1, <1>2, <1>3, SetInduction
  <2>2. N + 1 \in S
    BY <2>1
  <2>3. QED
    BY <2>2 DEF S
<1>5. \A d \in D : m[d] < N + 1
  <2>1. ASSUME NEW d \in D PROVE m[d] < N + 1
    <3>1. m[d] \in 0..N
      OBVIOUS
    <3>2. QED
      BY <3>1
  <2>2. QED
    BY <2>1
<1>6. QED
  BY <1>4, <1>5

LEMMA LenIsNat == \A s \in Seq(Nat) : Len(s) \in Nat /\ Len(s) \in Int
  OBVIOUS

LEMMA Associative == \A s, t, u \in Seq(Nat) : (s \o t) \o u = s \o (t \o u)
  BY ConcatAssociative, SMTT(30)

LEMMA ItemsAreNat ==
  ASSUME NEW s \in Seq(Nat), NEW i \in Nat \ {0}, NEW j \in Nat, j <= Len(s)
  PROVE  \A k \in i..j : s[k] \in Nat
  OBVIOUS

\* The items of a sequence after the first i, up to the j-th.
Part(s, i, j) == SubSeq(s, i + 1, j)

LEMMA PartIsSeq ==
  ASSUME NEW s \in Seq(Nat), NEW i \in Nat, NEW j \in Nat, j <= Len(s)
  PROVE  Part(s, i, j) \in Seq(Nat)
<1>1. \A k \in i + 1..j : s[k] \in Nat
  OBVIOUS
<1>2. i + 1 \in Int /\ j \in Int
  OBVIOUS
<1>3. QED
  BY <1>1, <1>2, SubSeqProperties DEF Part

LEMMA PartsJoin ==
  ASSUME NEW s \in Seq(Nat), NEW i \in Nat, NEW j \in Nat, NEW k \in Nat,
         i <= j, j <= k, k <= Len(s)
  PROVE  Part(s, i, j) \o Part(s, j, k) = Part(s, i, k)
<1>1. i + 1 \in 1..Len(s) + 1 /\ j \in (i + 1) - 1..Len(s) /\ k \in j..Len(s)
  OBVIOUS
<1>2. QED
  BY <1>1, ConcatAdjacentSubSeq DEF Part

\* The end of a sequence, item for item.
Ends(s, c, t) ==
    /\ Len(s) = c - 1 + Len(t)
    /\ \A k \in 1..Len(t) : s[c - 1 + k] = t[k]

\* The end of a sequence that begins with t is t and the end after it.
LEMMA EndsOfConcat ==
  ASSUME NEW T, NEW s \in Seq(T), NEW c \in Nat \ {0}, NEW t \in Seq(T), NEW u \in Seq(T),
         Ends(s, c, t \o u)
  PROVE  /\ \A k \in 1..Len(t) : s[c - 1 + k] = t[k]
         /\ Ends(s, c + Len(t), u)
<1>1. Len(t) \in Nat /\ Len(u) \in Nat /\ Len(t \o u) = Len(t) + Len(u)
  OBVIOUS
<1>2. ASSUME NEW k \in 1..Len(t) PROVE s[c - 1 + k] = t[k]
  <2>1. k \in 1..Len(t \o u) /\ (t \o u)[k] = t[k]
    BY <1>1
  <2>2. QED
    BY <2>1 DEF Ends
<1>3. Len(s) = c + Len(t) - 1 + Len(u)
  BY <1>1 DEF Ends
<1>4. ASSUME NEW k \in 1..Len(u) PROVE s[c + Len(t) - 1 + k] = u[k]
  <2>1. Len(t) + k \in 1..Len(t \o u) /\ (t \o u)[Len(t) + k] = u[k]
    BY <1>1
  <2>2. s[c - 1 + (Len(t) + k)] = u[k]
    BY <2>1 DEF Ends
  <2>3. c - 1 + (Len(t) + k) = c + Len(t) - 1 + k
    BY <1>1
  <2>4. QED
    BY <2>2, <2>3
<1>5. QED
  BY <1>2, <1>3, <1>4 DEF Ends

LEMMA LargestOf ==
  ASSUME NEW N \in Nat, NEW S \in SUBSET (0..N), S # {}
  PROVE  Max(S) \in S /\ \A y \in S : y <= Max(S)
<1> DEFINE Least(n) == \A y \in S : y <= n
           T == {n \in Nat : N - n \in Nat /\ Least(N - n)}
<1>1. PICK x \in S : \A y \in S : y <= x
  <2>1. SUFFICES ASSUME ~ \E x \in S : \A y \in S : y <= x PROVE FALSE
    OBVIOUS
  <2> DEFINE U == {n \in Nat : \A y \in S : y + n <= N}
  <2>2. 0 \in U
    OBVIOUS
  <2>3. ASSUME NEW n \in U PROVE n + 1 \in U
    <3>1. \A y \in S : y \in Nat /\ y + n <= N
      OBVIOUS
    <3>2. ~ \E y \in S : y + n = N
      BY <2>1, <3>1
    <3>3. \A y \in S : y + (n + 1) <= N
      BY <3>1, <3>2
    <3>4. QED
      BY <3>3
  <2>4. U \in SUBSET Nat
    OBVIOUS
  <2> HIDE DEF U
  <2>5. N + 1 \in U
    BY <2>2, <2>3, <2>4, SetInduction
  <2>6. \A y \in S : y \in Nat /\ y + (N + 1) <= N
    BY <2>5 DEF U
  <2>7. PICK y \in S : TRUE
    OBVIOUS
  <2>8. y \in Nat /\ y + (N + 1) <= N
    BY <2>6
  <2>9. QED
    BY <2>8
<1>2. \A z \in S : (\A y \in S : z >= y) => z = x
  BY <1>1
<1>3. \A y \in S : x >= y
  BY <1>1
<1>4. Max(S) = x
  BY <1>2, <1>3 DEF Max
<1>5. QED
  BY <1>1, <1>4

-----------------------------------------------------------------------------
(* A word holds the inputs of a tick. *)

LEMMA TwoTo ==
  /\ 2 ^ 0 = 1 /\ 2 ^ 1 = 2 /\ 2 ^ 2 = 4 /\ 2 ^ 3 = 8 /\ 2 ^ 4 = 16 /\ 2 ^ 5 = 32 /\ 2 ^ 6 = 64
  /\ 2 ^ 7 = 128 /\ 2 ^ 8 = 256 /\ 2 ^ 16 = 65536 /\ 2 ^ 24 = 16777216
  OBVIOUS

Binary(m, x) ==
    /\ x \in [0..7 -> {0, 1}]
    /\ m = x[0] + 2 * x[1] + 4 * x[2] + 8 * x[3] + 16 * x[4] + 32 * x[5] + 64 * x[6] + 128 * x[7]

LEMMA BitsOfBinary ==
  ASSUME NEW m, NEW x, Binary(m, x)
  PROVE  /\ m \in 0..255
         /\ m % 2 = x[0] /\ (m \div 2) % 2 = x[1] /\ (m \div 4) % 2 = x[2] /\ (m \div 8) % 2 = x[3]
         /\ (m \div 16) % 2 = x[4] /\ (m \div 32) % 2 = x[5] /\ (m \div 64) % 2 = x[6]
         /\ (m \div 128) % 2 = x[7]
<1> DEFINE a0 == x[0]
           a1 == x[1]
           a2 == x[2]
           a3 == x[3]
           a4 == x[4]
           a5 == x[5]
           a6 == x[6]
           a7 == x[7]
<1>1. /\ a0 \in {0, 1} /\ a1 \in {0, 1} /\ a2 \in {0, 1} /\ a3 \in {0, 1}
      /\ a4 \in {0, 1} /\ a5 \in {0, 1} /\ a6 \in {0, 1} /\ a7 \in {0, 1}
  BY DEF Binary
<1>2. m = a0 + 2 * a1 + 4 * a2 + 8 * a3 + 16 * a4 + 32 * a5 + 64 * a6 + 128 * a7
  BY DEF Binary
<1> HIDE DEF a0, a1, a2, a3, a4, a5, a6, a7
<1>3. m \in 0..255
  BY <1>1, <1>2
<1>4. m % 2 = a0
  BY <1>1, <1>2
<1>5. (m \div 2) % 2 = a1
  BY <1>1, <1>2
<1>6. (m \div 4) % 2 = a2
  BY <1>1, <1>2
<1>7. (m \div 8) % 2 = a3
  BY <1>1, <1>2
<1>8. (m \div 16) % 2 = a4
  BY <1>1, <1>2
<1>9. (m \div 32) % 2 = a5
  BY <1>1, <1>2
<1>10. (m \div 64) % 2 = a6
  BY <1>1, <1>2
<1>11. (m \div 128) % 2 = a7
  BY <1>1, <1>2
<1>12. QED
  BY <1>3, <1>4, <1>5, <1>6, <1>7, <1>8, <1>9, <1>10, <1>11 DEF a0, a1, a2, a3, a4, a5, a6, a7

LEMMA MaskFacts ==
  ASSUME NEW actions \in SUBSET Actions
  PROVE  MaskOf(actions) \in 0..255 /\ ActionsOf(MaskOf(actions)) = actions
<1> DEFINE m == MaskOf(actions)
           x == [b \in 0..7 |-> Bit(actions, b)]
<1>1. Binary(m, x)
  <2>1. x \in [0..7 -> {0, 1}]
    BY DEF Bit
  <2>2. /\ x[0] = Bit(actions, 0) /\ x[1] = Bit(actions, 1) /\ x[2] = Bit(actions, 2)
        /\ x[3] = Bit(actions, 3) /\ x[4] = Bit(actions, 4) /\ x[5] = Bit(actions, 5)
        /\ x[6] = Bit(actions, 6) /\ x[7] = Bit(actions, 7)
    OBVIOUS
  <2>3. m = x[0] + 2 * x[1] + 2 ^ 2 * x[2] + 2 ^ 3 * x[3] + 2 ^ 4 * x[4] + 2 ^ 5 * x[5]
            + 2 ^ 6 * x[6] + 2 ^ 7 * x[7]
    BY <2>2, Zenon DEF MaskOf
  <2> HIDE DEF x, m
  <2>4. QED
    BY <2>1, <2>3, TwoTo DEF Binary
<1> HIDE DEF m
<1>2. ASSUME NEW a \in Actions
      PROVE  (m \div 2 ^ BitOf[a]) % 2 = 1 <=> a \in actions
  <2> DEFINE b == BitOf[a]
  <2>1. b \in 0..7
    BY ReplayAssumption
  <2>2. x[b] = 1 <=> a \in actions
    BY <2>1, ReplayAssumption DEF Bit
  <2>3. b = 0 \/ b = 1 \/ b = 2 \/ b = 3 \/ b = 4 \/ b = 5 \/ b = 6 \/ b = 7
    BY <2>1
  <2> HIDE DEF b, x
  <2>4. (m \div 2 ^ b) % 2 = x[b]
    <3>1. m \div 1 = m
      BY <1>1, BitsOfBinary
    <3>2. CASE b = 0
      BY <1>1, <3>1, <3>2, BitsOfBinary, TwoTo
    <3>3. CASE b = 1
      BY <1>1, <3>3, BitsOfBinary, TwoTo
    <3>4. CASE b = 2
      BY <1>1, <3>4, BitsOfBinary, TwoTo
    <3>5. CASE b = 3
      BY <1>1, <3>5, BitsOfBinary, TwoTo
    <3>6. CASE b = 4
      BY <1>1, <3>6, BitsOfBinary, TwoTo
    <3>7. CASE b = 5
      BY <1>1, <3>7, BitsOfBinary, TwoTo
    <3>8. CASE b = 6
      BY <1>1, <3>8, BitsOfBinary, TwoTo
    <3>9. CASE b = 7
      BY <1>1, <3>9, BitsOfBinary, TwoTo
    <3>10. QED
      BY <2>3, <3>2, <3>3, <3>4, <3>5, <3>6, <3>7, <3>8, <3>9
  <2>5. QED
    BY <2>2, <2>4 DEF b
<1>3. ActionsOf(m) = actions
  BY <1>2 DEF ActionsOf
<1>4. QED
  BY <1>1, <1>3, BitsOfBinary DEF m

TickInput == [pressed : SUBSET Actions, held : SUBSET Actions]

BytesAre(word, b0, b1, b2, b3) ==
    /\ word \in Nat /\ word % 256 = b0 /\ (word \div 256) % 256 = b1
    /\ (word \div 65536) % 256 = b2 /\ (word \div 16777216) % 256 = b3

WordOf(word, b0, b1, b2, b3) ==
    /\ b0 \in 0..255 /\ b1 \in 0..255 /\ b2 \in 0..255 /\ b3 \in 0..255
    /\ word = b0 + 256 * b1 + 65536 * b2 + 16777216 * b3

LEMMA FourBytes ==
  ASSUME NEW a, NEW b, NEW c, NEW d, NEW w, WordOf(w, a, b, c, d)
  PROVE  BytesAre(w, a, b, c, d)
<1>0. /\ a \in 0..255 /\ b \in 0..255 /\ c \in 0..255 /\ d \in 0..255
      /\ w = a + 256 * b + 65536 * c + 16777216 * d
  BY DEF WordOf
<1>1. w \in Nat
  BY <1>0
<1>2. w % 256 = a
  BY <1>0
<1>3. (w \div 256) % 256 = b
  <2>1. w \div 256 = b + 256 * c + 65536 * d
    BY <1>0
  <2> DEFINE v == w \div 256
  <2> HIDE DEF v
  <2>2. v % 256 = b
    BY <1>0, <2>1 DEF v
  <2>3. QED
    BY <2>2 DEF v
<1>4. (w \div 65536) % 256 = c
  <2>1. w \div 65536 = c + 256 * d
    BY <1>0
  <2> DEFINE v == w \div 65536
  <2> HIDE DEF v
  <2>2. v % 256 = c
    BY <1>0, <2>1 DEF v
  <2>3. QED
    BY <2>2 DEF v
<1>5. (w \div 16777216) % 256 = d
  BY <1>0
<1>6. QED
  BY <1>1, <1>2, <1>3, <1>4, <1>5 DEF BytesAre

LEMMA TickIsUnpacked ==
  ASSUME NEW ins \in [{0, 1} -> TickInput]
  PROVE  PackTick(ins) \in Nat /\ UnpackTick(PackTick(ins)) = ins
<1> DEFINE w == PackTick(ins)
           a == MaskOf(ins[0].pressed)
           b == MaskOf(ins[0].held)
           c == MaskOf(ins[1].pressed)
           d == MaskOf(ins[1].held)
<1>1. /\ ins[0].pressed \in SUBSET Actions /\ ins[0].held \in SUBSET Actions
      /\ ins[1].pressed \in SUBSET Actions /\ ins[1].held \in SUBSET Actions
  BY DEF TickInput
<1>2. /\ a \in 0..255 /\ ActionsOf(a) = ins[0].pressed
      /\ b \in 0..255 /\ ActionsOf(b) = ins[0].held
      /\ c \in 0..255 /\ ActionsOf(c) = ins[1].pressed
      /\ d \in 0..255 /\ ActionsOf(d) = ins[1].held
  BY <1>1, MaskFacts
<1>3. w = a + 2 ^ 8 * b + 2 ^ 16 * c + 2 ^ 24 * d
  BY Zenon DEF PackTick
<1> HIDE DEF a, b, c, d, w
<1>4. w = a + 256 * b + 65536 * c + 16777216 * d
  BY <1>3, TwoTo
<1>5. /\ w \in Nat /\ w % 256 = a /\ (w \div 256) % 256 = b
      /\ (w \div 65536) % 256 = c /\ (w \div 16777216) % 256 = d
  <2>1. WordOf(w, a, b, c, d)
    BY <1>2, <1>4 DEF WordOf
  <2>2. BytesAre(w, a, b, c, d)
    BY <2>1, FourBytes
  <2>3. QED
    BY <2>2 DEF BytesAre
<1> DEFINE byte(k) == (w \div 2 ^ (8 * k)) % 2 ^ 8
<1>6. byte(0) = a /\ byte(1) = b /\ byte(2) = c /\ byte(3) = d
  <2>1. 8 * 0 = 0 /\ 8 * 1 = 8 /\ 8 * 2 = 16 /\ 8 * 3 = 24 /\ w \div 1 = w
    BY <1>5
  <2>2. QED
    BY <1>5, <2>1, TwoTo
<1>7. UnpackTick(w) = [p \in {0, 1} |-> [pressed |-> ActionsOf(byte(2 * p)), held |-> ActionsOf(byte(2 * p + 1))]]
  BY DEF UnpackTick
<1> HIDE DEF byte
<1>8. 2 * 0 = 0 /\ 2 * 0 + 1 = 1 /\ 2 * 1 = 2 /\ 2 * 1 + 1 = 3
  OBVIOUS
<1>9. /\ UnpackTick(w)[0] = [pressed |-> ActionsOf(byte(0)), held |-> ActionsOf(byte(1))]
      /\ UnpackTick(w)[1] = [pressed |-> ActionsOf(byte(2)), held |-> ActionsOf(byte(3))]
      /\ UnpackTick(w) = [p \in {0, 1} |-> UnpackTick(w)[p]]
  BY <1>7, <1>8
<1>10. /\ ins[0] = [pressed |-> ins[0].pressed, held |-> ins[0].held]
       /\ ins[1] = [pressed |-> ins[1].pressed, held |-> ins[1].held]
       /\ ins = [p \in {0, 1} |-> ins[p]]
  BY DEF TickInput
<1>11. UnpackTick(w)[0] = ins[0] /\ UnpackTick(w)[1] = ins[1]
  BY <1>2, <1>6, <1>9, <1>10
<1>12. UnpackTick(w) = ins
  BY <1>9, <1>10, <1>11
<1>13. QED
  BY <1>5, <1>12 DEF w

-----------------------------------------------------------------------------
(* The words as runs, and back *)

LEMMA RunAfterFacts ==
  ASSUME NEW list \in Seq(Nat), NEW i \in Nat, i < Len(list), NEW n, n = RunAfter(list, i)
  PROVE  /\ n \in Nat /\ n > 0 /\ i + n <= Len(list)
         /\ \A k \in i + 1..i + n : list[k] = list[i + 1]
<1> DEFINE N == Len(list)
           Same(r) == \A k \in i + 1..i + r : list[k] = list[i + 1]
           S == {r \in 1..N - i : Same(r)}
<1>1. N \in Nat /\ N - i \in Nat /\ 1 \in 1..N - i
  OBVIOUS
<1>2. Same(1)
  OBVIOUS
<1>3. n = Max(S)
  BY DEF RunAfter
<1> HIDE DEF N
<1>4. S \in SUBSET (0..N - i) /\ S # {}
  <2>1. \A r \in 1..N - i : r \in 0..N - i
    BY <1>1
  <2> HIDE DEF Same
  <2>2. QED
    BY <1>1, <1>2, <2>1
<1> HIDE DEF S
<1>5. n \in S
  <2> DEFINE M == N - i
  <2>1. M \in Nat /\ S \in SUBSET (0..M)
    BY <1>1, <1>4
  <2> HIDE DEF M
  <2>2. QED
    BY <1>3, <1>4, <2>1, LargestOf
<1>6. n \in 1..N - i /\ Same(n)
  BY <1>5 DEF S
<1>7. QED
  BY <1>1, <1>6 DEF N

\* What is written for the words after the first i, as an operator of what comes after.
WordsFrom(list, from, i) ==
    IF i = Len(list) THEN <<>>
    ELSE LET run == RunAfter(list, i) IN <<list[i + 1], run>> \o from[i + run]

\* A run of words and how it is written.
WordRun(list, i, w, run, n) ==
    /\ w \in Nat /\ run \in Nat /\ run > 0 /\ n = i + run /\ n \in 0..Len(list) /\ n > i
    /\ \A k \in i + 1..n : list[k] = w

LEMMA WordsFromCases ==
  ASSUME NEW list \in Seq(Nat), NEW i \in 0..Len(list)
  PROVE  \/ /\ i = Len(list)
            /\ \A from : WordsFrom(list, from, i) = <<>>
         \/ \E w, run, n \in Nat :
            /\ WordRun(list, i, w, run, n)
            /\ \A from : WordsFrom(list, from, i) = <<w, run>> \o from[n]
<1>1. CASE i = Len(list)
  BY <1>1 DEF WordsFrom
<1>2. CASE i # Len(list)
  <2> DEFINE run == RunAfter(list, i)
             w == list[i + 1]
             n == i + run
  <2>1. i \in Nat /\ i < Len(list) /\ w \in Nat
    BY <1>2
  <2>2. \A from : WordsFrom(list, from, i) = <<w, run>> \o from[n]
    BY <1>2, Zenon DEF WordsFrom
  <2> HIDE DEF run
  <2>3. /\ run \in Nat /\ run > 0 /\ i + run <= Len(list)
        /\ \A k \in i + 1..i + run : list[k] = list[i + 1]
    BY <2>1, RunAfterFacts DEF run
  <2>4. n \in Nat /\ n \in 0..Len(list) /\ n > i
    BY <2>1, <2>3
  <2>5. WordRun(list, i, w, run, n)
    BY <2>1, <2>3, <2>4 DEF WordRun
  <2> HIDE DEF w, n
  <2>6. QED
    BY <2>1, <2>2, <2>3, <2>4, <2>5
<1>3. QED
  BY <1>1, <1>2

WordsSolved(list, from) ==
    /\ from \in [0..Len(list) -> Seq(Nat)]
    /\ \A i \in 0..Len(list) : from[i] = WordsFrom(list, from, i)

\* The recursion of encodeReplay has a solution, and EncodeReplay is its value.
LEMMA EncodingRun ==
  ASSUME NEW list \in Seq(Nat)
  PROVE  \E from : WordsSolved(list, from) /\ EncodeReplay(list) = <<Len(list)>> \o from[0]
<1> DEFINE D == 0..Len(list)
           V == Seq(Nat)
           N == Len(list)
           m == [i \in D |-> N - i]
           G == [i \in D |-> [f \in [D -> V] |-> WordsFrom(list, f, i)]]
           Ends2(i) == \A f : WordsFrom(list, f, i) = <<>>
           Goes(i) == \E w, run \in Nat, n \in D :
                         n > i /\ \A f : WordsFrom(list, f, i) = <<w, run>> \o f[n]
<1>1. N \in Nat /\ <<>> \in V
  OBVIOUS
<1>2. m \in [D -> 0..N] /\ \A i, e \in D : m[e] < m[i] <=> e > i
  BY <1>1
<1>3. ASSUME NEW i \in D PROVE Ends2(i) \/ Goes(i)
  <2>1. CASE \E w, run, n \in Nat :
               /\ WordRun(list, i, w, run, n)
               /\ \A f : WordsFrom(list, f, i) = <<w, run>> \o f[n]
    <3>1. PICK w \in Nat, run \in Nat, n \in Nat :
               /\ WordRun(list, i, w, run, n)
               /\ \A f : WordsFrom(list, f, i) = <<w, run>> \o f[n]
      BY <2>1
    <3>2. n \in D /\ n > i
      BY <3>1 DEF WordRun
    <3>3. QED
      BY <3>1, <3>2
  <2>2. QED
    BY <2>1, WordsFromCases
<1>4. ASSUME NEW i \in D, NEW f, \A e \in D : e > i => f[e] \in V
      PROVE  WordsFrom(list, f, i) \in V
  <2>1. CASE Ends2(i)
    BY <1>1, <2>1
  <2>2. CASE Goes(i)
    <3>1. PICK w \in Nat, run \in Nat, n \in D :
                 n > i /\ WordsFrom(list, f, i) = <<w, run>> \o f[n]
      BY <2>2
    <3>2. <<w, run>> \in Seq(Nat) /\ f[n] \in Seq(Nat)
      BY <1>4, <3>1
    <3>3. QED
      BY <3>1, <3>2
  <2>3. QED
    BY <1>3, <2>1, <2>2
<1>5. ASSUME NEW i \in D, NEW f, NEW g, \A e \in D : e > i => f[e] = g[e]
      PROVE  WordsFrom(list, f, i) = WordsFrom(list, g, i)
  <2>1. CASE Ends2(i)
    BY <2>1
  <2>2. CASE Goes(i)
    <3>1. PICK w \in Nat, run \in Nat, n \in D :
                 n > i /\ \A h : WordsFrom(list, h, i) = <<w, run>> \o h[n]
      BY <2>2
    <3>2. f[n] = g[n]
      BY <1>5, <3>1
    <3>3. QED
      BY <3>1, <3>2
  <2>3. QED
    BY <1>3, <2>1, <2>2
<1> HIDE DEF Ends2, Goes, V, m, D, N
<1>6. G \in [D -> [[D -> V] -> V]]
  <2>1. \A i \in D, f \in [D -> V] : WordsFrom(list, f, i) \in V
    BY <1>4
  <2>2. QED
    BY <2>1
<1>7. \A i \in D : \A f, g \in [D -> V] :
         (\A e \in D : m[e] < m[i] => f[e] = g[e]) => G[i][f] = G[i][g]
  <2>1. SUFFICES ASSUME NEW i \in D, NEW f \in [D -> V], NEW g \in [D -> V],
                        \A e \in D : m[e] < m[i] => f[e] = g[e]
                 PROVE  G[i][f] = G[i][g]
    OBVIOUS
  <2>2. \A e \in D : e > i => f[e] = g[e]
    BY <1>2, <2>1
  <2>3. WordsFrom(list, f, i) = WordsFrom(list, g, i)
    BY <1>5, <2>2
  <2>4. G[i][f] = WordsFrom(list, f, i) /\ G[i][g] = WordsFrom(list, g, i)
    OBVIOUS
  <2>5. QED
    BY <2>3, <2>4
<1>8. Recursion(D, V, N, m, G)
  <2>1. V # {}
    BY <1>1
  <2> HIDE DEF G
  <2>2. QED
    BY <1>1, <1>2, <1>6, <1>7, <2>1, Zenon DEF Recursion
<1>9. PICK f \in [D -> V] : \A i \in D : f[i] = G[i][f]
  <2> HIDE DEF G
  <2>1. QED
    BY <1>8, RecursionHasSolution
<1>10. \A i \in D : G[i][f] = WordsFrom(list, f, i)
  OBVIOUS
<1> DEFINE Solves(h) == h = [i \in D |-> WordsFrom(list, h, i)]
           from == CHOOSE h : Solves(h)
<1> HIDE DEF G
<1>11. Solves(f)
  BY <1>9, <1>10
<1>12. EncodeReplay(list) = <<N>> \o from[0]
  BY DEF EncodeReplay, WordsFrom, D, N
<1> HIDE DEF from
<1>13. Solves(from)
  BY <1>11 DEF from
<1>14. \A i \in D : from[i] = WordsFrom(list, from, i)
  BY <1>13
<1>15. from \in [D -> V]
  <2> DEFINE S == {i \in D : from[i] \in V}
  <2>1. ASSUME NEW i \in D, \A e \in D : m[e] < m[i] => e \in S PROVE i \in S
    <3>1. \A e \in D : e > i => from[e] \in V
      BY <1>2, <2>1
    <3>2. WordsFrom(list, from, i) \in V
      BY <1>4, <3>1
    <3>3. QED
      BY <1>14, <3>2
  <2> HIDE DEF S
  <2>2. \A i \in D : i \in S
    BY <1>1, <1>2, <2>1, MeasureInduction
  <2>3. \A i \in D : from[i] \in V
    BY <2>2 DEF S
  <2>4. QED
    BY <1>13, <2>3
<1>16. QED
  BY <1>12, <1>14, <1>15 DEF D, V, N, WordsSolved

\* What is read from item c of the body on, as an operator of what comes after.
WordsRead(body, ticks, rest, c, i) ==
    IF i = ticks THEN IF c = Len(body) + 1 THEN <<>> ELSE Malformed
    ELSE IF c + 1 > Len(body) THEN Malformed
    ELSE LET run == body[c + 1] IN
         IF run = 0 \/ i + run > ticks THEN Malformed
         ELSE [k \in 1..run |-> body[c]] \o rest[c + 2][i + run]

LEMMA WordsReadCases ==
  ASSUME NEW body \in Seq(Nat), NEW ticks \in Nat, NEW c \in 2..Len(body) + 1, NEW i \in 0..ticks
  PROVE  \/ \E v \in Seq(Int) : \A rest : WordsRead(body, ticks, rest, c, i) = v
         \/ \E t \in 2..Len(body) + 1, k \in 0..ticks, v \in Seq(Int) :
               t > c /\ \A rest : WordsRead(body, ticks, rest, c, i) = v \o rest[t][k]
<1> DEFINE run == body[c + 1]
           t == c + 2
           k == i + run
           v == [r \in 1..run |-> body[c]]
           Fails == \/ c + 1 > Len(body)
                    \/ run = 0 \/ k > ticks
<1>1. Malformed \in Seq(Int) /\ <<>> \in Seq(Int)
  BY DEF Malformed
<1>2. CASE i = ticks
  BY <1>1, <1>2 DEF WordsRead
<1>3. CASE i # ticks /\ Fails
  BY <1>1, <1>3 DEF WordsRead
<1>4. CASE i # ticks /\ ~Fails
  <2>1. ~(c + 1 > Len(body)) /\ ~(run = 0 \/ k > ticks)
    BY <1>4
  <2>2. \A rest : WordsRead(body, ticks, rest, c, i) = v \o rest[t][k]
    BY <1>4, <2>1, Zenon DEF WordsRead
  <2>3. Len(body) \in Nat /\ c \in Nat /\ i \in Nat /\ c + 1 \in 1..Len(body) /\ c \in 1..Len(body)
    BY <2>1
  <2>4. run \in Nat /\ body[c] \in Nat
    BY <2>3
  <2>5. t \in 2..Len(body) + 1 /\ t > c
    BY <2>1, <2>3
  <2> HIDE DEF run
  <2>6. k \in 0..ticks
    BY <2>1, <2>3, <2>4
  <2>7. v \in Seq(Int)
    BY <2>4
  <2> HIDE DEF t, k, v
  <2>8. QED
    BY <2>2, <2>5, <2>6, <2>7
<1>5. QED
  BY <1>2, <1>3, <1>4

ReadingSolved(body, ticks, rest) ==
    \A c \in 2..Len(body) + 1, i \in 0..ticks :
        rest[c][i] = WordsRead(body, ticks, rest, c, i)

\* The recursion of decodeReplay has a solution, and DecodeReplay is its value.
LEMMA DecodingRun ==
  ASSUME NEW body \in Seq(Nat), NEW ticks \in Nat, body[1] = ticks
  PROVE  \E rest : ReadingSolved(body, ticks, rest) /\ DecodeReplay(body) = rest[2][0]
<1> DEFINE D == 2..Len(body) + 1
           E == 0..ticks
           V == Seq(Int)
           W == [E -> V]
           N == Len(body)
           m == [c \in D |-> N + 1 - c]
           Step(f, c) == [i \in E |-> WordsRead(body, ticks, f, c, i)]
           G == [c \in D |-> [f \in [D -> W] |-> Step(f, c)]]
<1>1. N \in Nat /\ <<>> \in V
  OBVIOUS
<1>2. m \in [D -> 0..N] /\ \A c, e \in D : m[e] < m[c] <=> e > c
  BY <1>1
<1>3. \A s, t \in V : s \o t \in V
  OBVIOUS
<1> DEFINE Const(c, i) == \E v \in V : \A rest : WordsRead(body, ticks, rest, c, i) = v
           Later(c, i) == \E t \in D, k \in E, v \in V :
               t > c /\ \A rest : WordsRead(body, ticks, rest, c, i) = v \o rest[t][k]
<1>4. \A c \in D, i \in E : Const(c, i) \/ Later(c, i)
  BY WordsReadCases
<1>5. \A c, e \in D : e > c => m[e] < m[c]
  BY <1>2
<1> HIDE DEF V, D, E, m, N
<1>6. ASSUME NEW c \in D, NEW f \in [D -> W], NEW i \in E
      PROVE  WordsRead(body, ticks, f, c, i) \in V
  <2>1. CASE Const(c, i)
    BY <2>1
  <2>2. CASE Later(c, i)
    <3>1. PICK t \in D, k \in E, v \in V : WordsRead(body, ticks, f, c, i) = v \o f[t][k]
      BY <2>2
    <3>2. f[t][k] \in V
      OBVIOUS
    <3>3. QED
      BY <1>3, <3>1, <3>2
  <2>3. QED
    BY <1>4, <2>1, <2>2
<1>7. ASSUME NEW c \in D, NEW f \in [D -> W], NEW g \in [D -> W],
             \A e \in D : m[e] < m[c] => f[e] = g[e], NEW i \in E
      PROVE  WordsRead(body, ticks, f, c, i) = WordsRead(body, ticks, g, c, i)
  <2>1. \A e \in D : e > c => f[e] = g[e]
    BY <1>5, <1>7
  <2>2. CASE Const(c, i)
    BY <2>2
  <2>3. CASE Later(c, i)
    <3>1. PICK t \in D, k \in E, v \in V :
                 t > c /\ \A rest : WordsRead(body, ticks, rest, c, i) = v \o rest[t][k]
      BY <2>3
    <3>2. f[t] = g[t]
      BY <2>1, <3>1
    <3>3. QED
      BY <3>1, <3>2
  <2>4. QED
    BY <1>4, <2>2, <2>3
<1> HIDE DEF Const, Later
<1>8. W # {}
  <2>1. [i \in E |-> <<>>] \in W
    BY <1>1
  <2>2. QED
    BY <2>1
<1>9. G \in [D -> [[D -> W] -> W]]
  <2>1. \A c \in D, f \in [D -> W] : Step(f, c) \in W
    BY <1>6
  <2> HIDE DEF Step, W
  <2>2. QED
    BY <2>1
<1>10. \A c \in D : \A f, g \in [D -> W] :
         (\A e \in D : m[e] < m[c] => f[e] = g[e]) => G[c][f] = G[c][g]
  <2>1. SUFFICES ASSUME NEW c \in D, NEW f \in [D -> W], NEW g \in [D -> W],
                        \A e \in D : m[e] < m[c] => f[e] = g[e]
                 PROVE  G[c][f] = G[c][g]
    OBVIOUS
  <2>2. Step(f, c) = Step(g, c)
    BY <1>7, <2>1
  <2> HIDE DEF Step, W
  <2>3. G[c][f] = Step(f, c) /\ G[c][g] = Step(g, c)
    OBVIOUS
  <2>4. QED
    BY <2>2, <2>3
<1>11. Recursion(D, W, N, m, G)
  <2> HIDE DEF W, G
  <2>1. QED
    BY <1>1, <1>2, <1>8, <1>9, <1>10, Zenon DEF Recursion
<1>12. PICK f \in [D -> W] : \A c \in D : f[c] = G[c][f]
  <2> HIDE DEF W, G
  <2>1. QED
    BY <1>11, RecursionHasSolution
<1>13. \A c \in D : G[c][f] = Step(f, c)
  <2> HIDE DEF Step, W
  <2>1. QED
    OBVIOUS
<1> DEFINE Solves(h) == h = [c \in D |-> Step(h, c)]
           rest == CHOOSE h : Solves(h)
<1> HIDE DEF Step, G
<1>14. Solves(f)
  BY <1>12, <1>13
<1>15. DecodeReplay(body) = rest[2][0]
  BY DEF DecodeReplay, WordsRead, Step, D, E
<1> HIDE DEF rest
<1>16. Solves(rest)
  BY <1>14 DEF rest
<1>17. \A c \in D : rest[c] = Step(rest, c)
  BY <1>16
<1>18. \A c \in D, i \in E : rest[c][i] = WordsRead(body, ticks, rest, c, i)
  BY <1>17 DEF Step
<1>19. QED
  BY <1>15, <1>18 DEF D, E, ReadingSolved

\* How a run and what follows it are found in a body.
LEMMA WordRunIsRead ==
  ASSUME NEW body \in Seq(Nat), NEW after \in Seq(Nat), NEW c \in Nat \ {0},
         NEW w \in Nat, NEW run \in Nat, Ends(body, c, <<w, run>> \o after)
  PROVE  body[c] = w /\ body[c + 1] = run /\ c + 2 <= Len(body) + 1 /\ Ends(body, c + 2, after)
<1> DEFINE head == <<w, run>>
<1>1. head \in Seq(Nat) /\ Len(head) = 2 /\ head[1] = w /\ head[2] = run /\ 1 \in 1..2 /\ 2 \in 1..2
  OBVIOUS
<1> HIDE DEF head
<1>2. Ends(body, c, head \o after)
  BY DEF head
<1>3. /\ \A k \in 1..Len(head) : body[c - 1 + k] = head[k]
      /\ Ends(body, c + Len(head), after)
  BY <1>1, <1>2, EndsOfConcat
<1>4. c - 1 + 1 = c /\ c - 1 + 2 = c + 1
  OBVIOUS
<1>5. body[c - 1 + 1] = w /\ body[c - 1 + 2] = run /\ Ends(body, c + 2, after)
  BY <1>1, <1>3
<1>6. Len(body) = c + 2 - 1 + Len(after) /\ Len(after) \in Nat
  BY <1>5 DEF Ends
<1>7. c + 2 <= Len(body) + 1
  BY <1>6
<1>8. QED
  BY <1>4, <1>5, <1>7

LEMMA WordRunIsPart ==
  ASSUME NEW list \in Seq(Nat), NEW i \in Nat, NEW w, NEW run, NEW n, WordRun(list, i, w, run, n)
  PROVE  Part(list, i, n) = [k \in 1..run |-> w]
<1>1. /\ w \in Nat /\ run \in Nat /\ run > 0 /\ n = i + run /\ n \in Nat /\ n <= Len(list)
  BY DEF WordRun
<1>2. i + 1 \in Nat /\ i + 1 <= n /\ n - (i + 1) + 1 = run
  BY <1>1
<1> DEFINE j == i + 1
           part == [k \in 1..n - j + 1 |-> list[k + j - 1]]
<1>3. SubSeq(list, j, n) = part
  BY <1>1, <1>2
<1>4. ASSUME NEW k \in 1..run PROVE list[k + j - 1] = w
  <2>1. k + j - 1 \in i + 1..n
    BY <1>1
  <2>2. QED
    BY <2>1 DEF WordRun
<1>5. part = [k \in 1..run |-> w]
  <2>1. n - j + 1 = run
    BY <1>2
  <2> HIDE DEF j
  <2>2. QED
    BY <1>4, <2>1
<1> HIDE DEF part
<1>6. QED
  BY <1>3, <1>5 DEF Part, j

WordRunIsThere(list, body, rest, c, w, run, n) ==
    /\ body[c] = w /\ body[c + 1] = run /\ c + 2 <= Len(body) + 1
    /\ rest[c + 2][n] = Part(list, n, Len(list))

\* A run decodes to the words it stands for.
LEMMA WordRunIsUndone ==
  ASSUME NEW list \in Seq(Nat), NEW body \in Seq(Nat), NEW rest, NEW c \in Nat, NEW i \in Nat,
         NEW w, NEW run, NEW n, WordRun(list, i, w, run, n),
         WordRunIsThere(list, body, rest, c, w, run, n)
  PROVE  WordsRead(body, Len(list), rest, c, i) = Part(list, i, Len(list))
<1> DEFINE N == Len(list)
           same == [k \in 1..run |-> w]
<1>1. /\ w \in Nat /\ run \in Nat /\ run > 0 /\ n = i + run /\ n \in Nat /\ n <= N /\ n > i
      /\ N \in Nat
  BY DEF WordRun
<1>0. /\ body[c] = w /\ body[c + 1] = run /\ c + 2 <= Len(body) + 1
      /\ rest[c + 2][n] = Part(list, n, N) /\ Len(body) \in Nat
  BY DEF WordRunIsThere
<1>2. /\ ~(i = N) /\ ~(c + 1 > Len(body)) /\ ~(body[c + 1] = 0 \/ i + body[c + 1] > N)
  <2> HIDE DEF N
  <2>1. QED
    BY <1>0, <1>1, SMTT(30)
<1>3. WordsRead(body, N, rest, c, i) = [k \in 1..body[c + 1] |-> body[c]] \o rest[c + 2][i + body[c + 1]]
  BY <1>2, Zenon DEF WordsRead
<1>4. WordsRead(body, N, rest, c, i) = same \o Part(list, n, N)
  BY <1>0, <1>1, <1>3
<1>5. same = Part(list, i, n)
  BY WordRunIsPart
<1>6. Part(list, i, n) \o Part(list, n, N) = Part(list, i, N)
  <2>1. n \in Nat /\ i <= n /\ n <= N /\ N <= Len(list) /\ N \in Nat
    BY <1>1
  <2> HIDE DEF N
  <2>2. QED
    BY <2>1, PartsJoin
<1>7. QED
  BY <1>4, <1>5, <1>6

WordsUndone(list, body, from, rest) ==
    \A i \in 0..Len(list), c \in 2..Len(body) + 1 :
        Ends(body, c, from[i]) => rest[c][i] = Part(list, i, Len(list))

\* The runs that describe the words after the first i, wherever they are in a
\* body, decode to those words.
LEMMA DecodingUndoesWords ==
  ASSUME NEW list \in Seq(Nat), NEW body \in Seq(Nat),
         NEW from, WordsSolved(list, from),
         NEW rest, ReadingSolved(body, Len(list), rest)
  PROVE  WordsUndone(list, body, from, rest)
<1> SUFFICES \A i \in 0..Len(list), c \in 2..Len(body) + 1 :
                 Ends(body, c, from[i]) => rest[c][i] = Part(list, i, Len(list))
  BY DEF WordsUndone
<1> DEFINE N == Len(list)
           D == 0..N
           C == 2..Len(body) + 1
           m == [i \in D |-> N - i]
           Right(i) == \A c \in C : Ends(body, c, from[i]) => rest[c][i] = Part(list, i, N)
           S == {i \in D : Right(i)}
<1>1. N \in Nat /\ Len(body) \in Nat
  OBVIOUS
<1>2. m \in [D -> 0..N] /\ \A i, e \in D : m[e] < m[i] <=> e > i
  BY <1>1
<1>3. /\ \A c \in C, i \in D : rest[c][i] = WordsRead(body, N, rest, c, i)
      /\ \A i \in D : from[i] = WordsFrom(list, from, i) /\ from[i] \in Seq(Nat)
  BY DEF ReadingSolved, WordsSolved
<1>4. ASSUME NEW i \in D, \A e \in D : e > i => Right(e), NEW c \in C, Ends(body, c, from[i])
      PROVE  WordsRead(body, N, rest, c, i) = Part(list, i, N)
  <2> HIDE DEF Right, S, m
  <2>1. c \in Nat /\ c >= 2 /\ i \in Nat /\ i <= N
    BY <1>1
  <2>2. CASE i = N /\ \A h : WordsFrom(list, h, i) = <<>>
    <3>1. from[i] = <<>>
      BY <1>3, <2>2
    <3>2. Len(body) = c - 1 + 0
      BY <1>4, <3>1 DEF Ends
    <3>3. c = Len(body) + 1
      BY <2>1, <3>2
    <3>4. WordsRead(body, N, rest, c, i) = <<>>
      BY <2>2, <3>3 DEF WordsRead
    <3>5. Part(list, i, N) = <<>>
      BY <1>1, <2>2, SubSeqEmpty DEF Part
    <3>6. QED
      BY <3>4, <3>5
  <2>3. CASE \E w, run, n \in Nat :
                /\ WordRun(list, i, w, run, n)
                /\ \A h : WordsFrom(list, h, i) = <<w, run>> \o h[n]
    <3>1. PICK w \in Nat, run \in Nat, n \in Nat :
                /\ WordRun(list, i, w, run, n)
                /\ \A h : WordsFrom(list, h, i) = <<w, run>> \o h[n]
      BY <2>3
    <3>2. n \in D /\ n > i
      BY <3>1 DEF WordRun
    <3> DEFINE after == from[n]
    <3>3. Ends(body, c, <<w, run>> \o after) /\ after \in Seq(Nat)
      BY <1>3, <1>4, <3>1, <3>2
    <3> HIDE DEF after
    <3>4. c \in Nat \ {0}
      BY <2>1
    <3>5. body[c] = w /\ body[c + 1] = run /\ c + 2 <= Len(body) + 1 /\ Ends(body, c + 2, after)
      BY <3>3, <3>4, WordRunIsRead
    <3>6. c + 2 \in C
      BY <1>1, <2>1, <3>5
    <3>7. rest[c + 2][n] = Part(list, n, N)
      BY <1>4, <3>2, <3>5, <3>6 DEF Right, after
    <3>8. WordRunIsThere(list, body, rest, c, w, run, n)
      BY <3>5, <3>7 DEF WordRunIsThere
    <3>9. QED
      BY <2>1, <3>1, <3>8, WordRunIsUndone
  <2>4. QED
    <3>1. i \in 0..Len(list)
      OBVIOUS
    <3>2. QED
      BY <2>2, <2>3, <3>1, WordsFromCases
<1>5. ASSUME NEW i \in D, \A e \in D : m[e] < m[i] => e \in S PROVE i \in S
  <2>1. \A e \in D : e > i => Right(e)
    BY <1>2, <1>5
  <2>2. Right(i)
    <3> HIDE DEF Right
    <3>1. \A c \in C : Ends(body, c, from[i]) => WordsRead(body, N, rest, c, i) = Part(list, i, N)
      BY <1>4, <2>1
    <3>2. QED
      BY <1>3, <3>1 DEF Right
  <2> HIDE DEF Right
  <2>3. QED
    BY <2>2
<1>6. \A i \in D : i \in S
  <2> HIDE DEF S
  <2>0. N \in Nat /\ m \in [D -> 0..N]
    BY <1>1, <1>2
  <2> HIDE DEF m, D, N
  <2>1. \A i \in D : (\A e \in D : m[e] < m[i] => e \in S) => i \in S
    BY <1>5
  <2>2. QED
    BY <2>0, <2>1, MeasureInduction, SMTT(30)
<1>7. QED
  BY <1>6

\* decodeReplay undoes encodeReplay.
LEMMA ReplayIsDecoded ==
  ASSUME NEW list \in Seq(Nat)
  PROVE  DecodeReplay(EncodeReplay(list)) = list
<1> DEFINE N == Len(list)
           body == EncodeReplay(list)
<1>1. PICK from : WordsSolved(list, from) /\ body = <<N>> \o from[0]
  BY EncodingRun
<1>2. N \in Nat /\ 0 \in 0..N
  OBVIOUS
<1> DEFINE runs == from[0]
<1>3. runs \in Seq(Nat) /\ Len(runs) \in Nat
  BY <1>1, <1>2 DEF WordsSolved
<1>4. body = <<N>> \o runs
  BY <1>1
<1> HIDE DEF runs, body
<1>5. /\ body \in Seq(Nat) /\ body[1] = N /\ 2 \in 2..Len(body) + 1
      /\ Ends(body, 2, runs)
  <2> HIDE DEF N
  <2>1. /\ body \in Seq(Nat) /\ Len(body) = 1 + Len(runs)
        /\ body[1] = N
    BY <1>2, <1>3, <1>4
  <2>2. \A k \in 1..Len(runs) : body[2 - 1 + k] = runs[k]
    <3> TAKE k \in 1..Len(runs)
    <3>1. k + 1 \in Nat /\ ~(k + 1 <= 1) /\ k + 1 - 1 = k /\ 2 - 1 + k = k + 1 /\ k + 1 \in 1..1 + Len(runs)
      BY <1>3
    <3>2. (<<N>> \o runs)[k + 1] = runs[k + 1 - 1]
      BY <1>2, <1>3, <3>1
    <3>3. QED
      BY <1>4, <3>1, <3>2
  <2>3. Len(body) = 2 - 1 + Len(runs) /\ 2 \in 2..Len(body) + 1
    BY <1>3, <2>1
  <2>4. QED
    BY <2>1, <2>2, <2>3 DEF Ends
<1>6. PICK rest : ReadingSolved(body, N, rest) /\ DecodeReplay(body) = rest[2][0]
  BY <1>2, <1>5, DecodingRun
<1>7. WordsUndone(list, body, from, rest)
  BY <1>1, <1>5, <1>6, DecodingUndoesWords
<1>8. rest[2][0] = Part(list, 0, N)
  BY <1>2, <1>5, <1>7 DEF WordsUndone, runs
<1>9. Part(list, 0, N) = list
  BY SubSeqFull DEF Part
<1>10. QED
  BY <1>6, <1>8, <1>9 DEF body

-----------------------------------------------------------------------------
(* The record is the match. *)

\* A word for every tick that was run, as long as there was room.
Recorded ==
    /\ applied \in Seq([Seats -> Input]) /\ words \in Seq(Nat)
    /\ Len(words) <= MaxReplayTicks /\ Len(applied) <= MaxTicks
    /\ Len(words) <= Len(applied)
    /\ Len(words) < MaxReplayTicks => Len(words) = Len(applied)
    /\ \A i \in 1..Len(words) : words[i] = PackTick(applied[i])

LEMMA TickIsRecorded ==
  ASSUME Recorded, inputs \in [Seats -> Input], RecordTick
  PROVE  Recorded'
<1> DEFINE w == PackTick(inputs)
           n == Len(words)
           m == Len(applied)
<1>1. w \in Nat
  <2>1. inputs \in [{0, 1} -> TickInput]
    BY DEF Seats, Input, TickInput
  <2>2. QED
    BY <2>1, TickIsUnpacked
<1>2. /\ n \in Nat /\ m \in Nat /\ n <= m /\ n <= MaxReplayTicks /\ m <= MaxTicks
      /\ n < MaxReplayTicks => n = m
      /\ MaxReplayTicks \in Nat /\ MaxTicks \in Nat /\ MaxTicks > MaxReplayTicks
  BY InputPathAssumption DEF Recorded
<1>3. \A i \in 1..n : words[i] = PackTick(applied[i]) /\ i \in 1..m
  BY <1>2 DEF Recorded
<1>4. m < MaxTicks =>
        /\ applied' \in Seq([Seats -> Input]) /\ Len(applied') = m + 1
        /\ applied'[m + 1] = inputs /\ \A i \in 1..m : applied'[i] = applied[i]
  BY <1>2 DEF RecordTick, Recorded
<1>5. m >= MaxTicks => applied' = applied
  BY <1>2 DEF RecordTick
<1>6. CASE n < MaxReplayTicks
  <2>1. /\ words' \in Seq(Nat) /\ Len(words') = n + 1 /\ words'[n + 1] = w
        /\ \A i \in 1..n : words'[i] = words[i]
    BY <1>1, <1>2, <1>6 DEF RecordTick, Recorded
  <2>2. n = m /\ m < MaxTicks
    BY <1>2, <1>6
  <2> HIDE DEF n, m
  <2>3. ASSUME NEW i \in 1..n + 1 PROVE words'[i] = PackTick(applied'[i])
    <3>1. CASE i = n + 1
      BY <1>4, <2>1, <2>2, <3>1
    <3>2. CASE i \in 1..n
      BY <1>3, <1>4, <2>1, <2>2, <3>2
    <3>3. QED
      BY <1>2, <3>1, <3>2
  <2> HIDE DEF w
  <2>4. QED
    BY <1>2, <1>4, <1>6, <2>1, <2>2, <2>3 DEF Recorded
<1>7. CASE n = MaxReplayTicks
  <2>1. words' = words
    BY <1>2, <1>7 DEF RecordTick
  <2>2. /\ applied' \in Seq([Seats -> Input]) /\ Len(applied') \in {m, m + 1} /\ Len(applied') <= MaxTicks
        /\ \A i \in 1..m : applied'[i] = applied[i]
    BY <1>2, <1>4, <1>5 DEF Recorded
  <2>3. words \in Seq(Nat)
    BY DEF Recorded
  <2>4. Len(words') = n
    BY <2>1
  <2> HIDE DEF n, m, w
  <2>5. \A i \in 1..n : words'[i] = PackTick(applied'[i])
    BY <1>3, <2>1, <2>2
  <2>6. QED
    BY <1>2, <1>7, <2>1, <2>2, <2>3, <2>4, <2>5 DEF Recorded
<1>8. QED
  BY <1>2, <1>6, <1>7

LEMMA RecordedInvariant == Spec => []Recorded
<1>1. Init => Recorded
  BY InputPathAssumption DEF Init, Recorded
<1>2. TapsCounted /\ Recorded /\ [Next]_vars => Recorded'
  <2> SUFFICES ASSUME TapsCounted, Recorded, [Next]_vars PROVE Recorded'
    OBVIOUS
  <2>1. CASE UNCHANGED record
    BY <2>1 DEF record, Recorded
  <2>2. CASE Tick
    BY <2>2, TickIsRecorded DEF Tick, TapsCounted, TapsTyped
  <2>3. ASSUME NEW p \in Players, NEW k \in Keys, KeyDown(p, k) \/ KeyUp(p, k)
        PROVE  Recorded'
    BY <2>1, <2>3 DEF KeyDown, KeyUp
  <2>4. ASSUME NEW p \in Players,
               Blur(p) \/ Hide(p) \/ Show(p) \/ ClientTick(p) \/ MatchInput(p)
        PROVE  Recorded'
    BY <2>1, <2>4 DEF Blur, Hide, Clear, Show, ClientTick, MatchInput
  <2>5. CASE (\E by \in Delays : Elapse(by)) \/ Wake
    BY <2>1, <2>5 DEF Elapse, Wake
  <2>6. CASE UNCHANGED vars
    BY <2>1, <2>6 DEF vars
  <2>7. QED
    BY <2>2, <2>3, <2>4, <2>5, <2>6 DEF Next
<1>3. QED
  BY <1>1, <1>2, TapsInvariant, PTL DEF Spec

\* Of a match no longer than MAX_REPLAY_TICKS the stored replay decodes to the very
\* inputs its ticks were run with, all of them, for any actions and any runs of equal
\* words: ReplayRecorder, packTick, encodeReplay and decodeReplay
\* (packages/core/src/replay.ts), fed by tickRooms and stored by persist (server.ts).
\* Of a longer match the first MAX_REPLAY_TICKS are stored, and nothing is said here.
THEOREM TheReplayIsTheMatch == Spec => []ReplayIsTheMatch
<1>1. Recorded => ReplayIsTheMatch
  <2> SUFFICES ASSUME Recorded, Len(applied) \in 1..MaxReplayTicks
               PROVE  ReplayInputs(DecodeReplay(StoredReplay)) = applied
    BY DEF ReplayIsTheMatch
  <2>1. /\ applied \in Seq([{0, 1} -> TickInput]) /\ words \in Seq(Nat)
        /\ \A i \in 1..Len(words) : words[i] = PackTick(applied[i])
    BY DEF Recorded, Seats, Input, TickInput
  <2>2. Len(words) = Len(applied) /\ Len(words) > 0 /\ Len(words) <= MaxReplayTicks
    BY InputPathAssumption DEF Recorded
  <2>3. DecodeReplay(StoredReplay) = words
    BY <2>1, <2>2, ReplayIsDecoded DEF StoredReplay
  <2>4. DOMAIN words = 1..Len(words) /\ DOMAIN applied = 1..Len(words)
    BY <2>1, <2>2
  <2>5. \A i \in 1..Len(words) : UnpackTick(words[i]) = applied[i]
    <3> TAKE i \in 1..Len(words)
    <3>1. applied[i] \in [{0, 1} -> TickInput]
      BY <2>1, <2>4
    <3>2. QED
      BY <2>1, <3>1, TickIsUnpacked
  <2>6. applied = [i \in 1..Len(words) |-> applied[i]]
    BY <2>1, <2>4
  <2>7. ReplayInputs(words) = applied
    BY <2>4, <2>5, <2>6 DEF ReplayInputs
  <2>8. QED
    BY <2>3, <2>7
<1>2. QED
  BY <1>1, RecordedInvariant, PTL

-----------------------------------------------------------------------------
(* The types. *)

\* What the types say beyond the clock, the account and the record.
InTheLimits ==
    /\ visible \in [Players -> BOOLEAN]
    /\ lastSent \in [Players -> Input]
    /\ sinceSend \in [Players -> 0..Heartbeat]
    /\ \A p \in Players : Len(uplink[p]) <= MaxInFlight
    /\ budget \in [Seats -> 0..InputBudget]
    /\ since \in Delays \cup {0} /\ due \in 0..MaxSteps
    /\ lost \in Counts

LEMMA StartsInTheLimits == Init => InTheLimits
<1> SUFFICES ASSUME Init PROVE InTheLimits
  OBVIOUS
<1>1. /\ Heartbeat \in 0..Heartbeat /\ InputBudget \in 0..InputBudget /\ 0 \in 0..MaxSteps
      /\ 0 <= MaxInFlight /\ NoInput \in Input
  BY InputPathAssumption DEF NoInput, Input
<1>2. Len(<<>>) = 0
  OBVIOUS
<1>3. Nought \in Counts
  BY DEF Nought, Counts
<1>4. QED
  BY <1>1, <1>2, <1>3 DEF Init, InTheLimits

\* What is lost, action by action, only grows.
LEMMA KeyDownLimits ==
  ASSUME TapsTyped, InTheLimits, NEW p \in Players, NEW k \in Keys, KeyDown(p, k)
  PROVE  InTheLimits'
<1>1. ActionOf[k] \in Actions
  BY InputPathAssumption
<1>2. OneIf(k \in pressed[p]) \in Nat
  BY DEF OneIf
<1>3. lost' \in Counts
  BY <1>1, <1>2 DEF KeyDown, InTheLimits, Counts
<1>4. QED
  BY <1>3 DEF KeyDown, InTheLimits, pump, record

LEMMA ClearLimits ==
  ASSUME TapsTyped, InTheLimits, NEW p \in Players, Blur(p) \/ Hide(p)
  PROVE  InTheLimits'
<1>0. Clear(p) /\ visible' \in [Players -> BOOLEAN]
  BY DEF Blur, Hide, InTheLimits
<1>1. ASSUME NEW a \in Actions PROVE lost[p][a] + KeysOf(a, pressed[p]) \in Nat
  <2>1. KeysOf(a, pressed[p]) \in Nat
    BY KeysOfFacts DEF TapsTyped
  <2>2. lost[p][a] \in Nat
    BY DEF InTheLimits, Counts
  <2>3. QED
    BY <2>1, <2>2
<1>2. [a \in Actions |-> lost[p][a] + KeysOf(a, pressed[p])] \in [Actions -> Nat]
  BY <1>1
<1>3. lost' \in Counts
  BY <1>0, <1>2 DEF Clear, InTheLimits, Counts
<1>4. QED
  BY <1>0, <1>3 DEF Clear, InTheLimits, pump, record

LEMMA ClientTickLimits ==
  ASSUME TapsTyped, InTheLimits, NEW p \in Players, ClientTick(p)
  PROVE  InTheLimits'
<1>1. ASSUME NEW a \in Actions
      PROVE  lost[p][a] + KeysOf(a, pressed[p]) - OneIf(a \in Merged(p).pressed) \in Nat
  <2>1. /\ KeysOf(a, pressed[p]) \in Nat
        /\ a \in Merged(p).pressed => KeysOf(a, pressed[p]) > 0
    BY KeysOfFacts DEF TapsTyped, Merged
  <2>2. lost[p][a] \in Nat
    BY DEF InTheLimits, Counts
  <2>3. QED
    BY <2>1, <2>2 DEF OneIf
<1>2. [a \in Actions |-> lost[p][a] + KeysOf(a, pressed[p]) - OneIf(a \in Merged(p).pressed)]
        \in [Actions -> Nat]
  BY <1>1
<1>3. lost' \in Counts
  BY <1>2 DEF ClientTick, InTheLimits, Counts
<1>4. Merged(p) \in Input
  BY InputPathAssumption DEF Merged, Input, TapsTyped
<1>5. Heartbeat \in Nat /\ MaxInFlight \in Nat
  BY InputPathAssumption
<1>6. uplink[p] \in Seq(Input) /\ Len(uplink[p]) < MaxInFlight
  BY DEF TapsTyped, ClientTick
<1>7. CASE /\ uplink' = [uplink EXCEPT ![p] = Append(@, Merged(p))]
           /\ lastSent' = [lastSent EXCEPT ![p] = Merged(p)]
           /\ sinceSend' = [sinceSend EXCEPT ![p] = 0]
  <2>1. Len(Append(uplink[p], Merged(p))) <= MaxInFlight
    BY <1>4, <1>5, <1>6
  <2>2. \A q \in Players : Len(uplink'[q]) <= MaxInFlight
    BY <1>7, <2>1 DEF InTheLimits, TapsTyped
  <2>3. lastSent' \in [Players -> Input] /\ sinceSend' \in [Players -> 0..Heartbeat]
    BY <1>4, <1>5, <1>7 DEF InTheLimits
  <2>4. QED
    BY <1>3, <2>2, <2>3 DEF ClientTick, InTheLimits, pump, record
<1>8. CASE /\ sinceSend' = [sinceSend EXCEPT ![p] = Min({@ + 1, Heartbeat})]
           /\ UNCHANGED <<uplink, lastSent>>
  <2>1. sinceSend[p] \in Nat
    BY DEF InTheLimits
  <2>2. Min({sinceSend[p] + 1, Heartbeat}) \in 0..Heartbeat
    BY <1>5, <2>1, MinOfTwo
  <2>3. sinceSend' \in [Players -> 0..Heartbeat]
    BY <1>8, <2>2 DEF InTheLimits
  <2>4. QED
    BY <1>3, <1>8, <2>3 DEF ClientTick, InTheLimits, pump, record
<1>9. QED
  BY <1>7, <1>8 DEF ClientTick

LEMMA MatchInputLimits ==
  ASSUME TapsTyped, InTheLimits, NEW p \in Players, MatchInput(p)
  PROVE  InTheLimits'
<1> DEFINE message  == Head(uplink[p])
           wasted(a) == a \in message.pressed /\ (~(budget[p] > 0) \/ a \in inputs[p].pressed)
<1>1. /\ uplink[p] # <<>> /\ uplink' = [uplink EXCEPT ![p] = Tail(@)]
      /\ \/ budget' = [budget EXCEPT ![p] = @ - 1] /\ budget[p] > 0
         \/ budget' = budget
      /\ lost' = [lost EXCEPT ![p] = [a \in Actions |-> @[a] + OneIf(wasted(a))]]
      /\ UNCHANGED <<keyboard, pump, record>>
  BY DEF MatchInput
<1>2. uplink[p] \in Seq(Input) /\ MaxInFlight \in Nat /\ InputBudget \in Nat /\ p \in Seats
  BY InputPathAssumption DEF TapsTyped
<1>3. Len(Tail(uplink[p])) <= Len(uplink[p]) /\ Len(Tail(uplink[p])) \in Nat
  BY <1>1, <1>2
<1>4. \A q \in Players : Len(uplink'[q]) <= MaxInFlight
  <2>1. Len(uplink[p]) \in Nat /\ Len(uplink[p]) <= MaxInFlight
    BY <1>2 DEF InTheLimits
  <2>2. Len(Tail(uplink[p])) <= MaxInFlight
    BY <1>2, <1>3, <2>1
  <2>3. QED
    BY <1>1, <2>2 DEF InTheLimits, TapsTyped
<1>5. budget' \in [Seats -> 0..InputBudget]
  <2>1. budget \in [Seats -> 0..InputBudget]
    BY DEF InTheLimits
  <2>2. budget[p] > 0 => budget[p] - 1 \in 0..InputBudget
    BY <1>2, <2>1
  <2>3. QED
    BY <1>1, <2>1, <2>2
<1>6. lost' \in Counts
  <2>1. ASSUME NEW a \in Actions PROVE lost[p][a] + OneIf(wasted(a)) \in Nat
    <3>1. OneIf(wasted(a)) \in Nat
      BY DEF OneIf
    <3>2. lost[p][a] \in Nat
      BY DEF InTheLimits, Counts
    <3> HIDE DEF wasted
    <3>3. QED
      BY <3>1, <3>2
  <2> HIDE DEF wasted
  <2>2. [a \in Actions |-> lost[p][a] + OneIf(wasted(a))] \in [Actions -> Nat]
    BY <2>1
  <2>3. QED
    BY <1>1, <2>2 DEF InTheLimits, Counts
<1>7. QED
  BY <1>1, <1>4, <1>5, <1>6 DEF InTheLimits, keyboard, pump, record

LEMMA WakeLimits ==
  ASSUME OnTheClock, InTheLimits, Wake
  PROVE  InTheLimits'
<1> DEFINE owed == accumulator + Min({since, MaxCatchup})
<1>1. since \in Nat /\ accumulator \in Nat /\ MaxCatchup \in Nat /\ MaxSteps \in Nat
      /\ TickMs \in Nat /\ TickMs > 0
  BY InputPathAssumption DEF OnTheClock
<1>2. owed \in Nat
  BY <1>1, MinOfTwo
<1> HIDE DEF owed
<1>3. owed \div TickMs \in Nat
  BY <1>1, <1>2
<1>4. Min({owed \div TickMs, MaxSteps}) \in 0..MaxSteps
  BY <1>1, <1>3, MinOfTwo
<1>5. due' \in 0..MaxSteps /\ since' \in Delays \cup {0}
  BY <1>4 DEF Wake, owed
<1>6. QED
  BY <1>5 DEF Wake, InTheLimits, keyboard, record, ghosts

LEMMA TickLimits ==
  ASSUME InTheLimits, Tick
  PROVE  InTheLimits'
<1>1. MaxSteps \in Nat /\ InputBudget \in 0..InputBudget
  BY InputPathAssumption
<1>2. due' \in 0..MaxSteps /\ budget' \in [Seats -> 0..InputBudget]
  BY <1>1 DEF Tick, InTheLimits
<1>3. QED
  BY <1>2 DEF Tick, InTheLimits, keyboard

LEMMA StaysInTheLimits ==
  ASSUME OnTheClock, TapsTyped, InTheLimits, [Next]_vars
  PROVE  InTheLimits'
<1>1. ASSUME NEW p \in Players, NEW k \in Keys, KeyDown(p, k) PROVE InTheLimits'
  BY <1>1, KeyDownLimits
<1>2. ASSUME NEW p \in Players, NEW k \in Keys, KeyUp(p, k) PROVE InTheLimits'
  BY <1>2 DEF KeyUp, InTheLimits, pump, record, ghosts
<1>3. ASSUME NEW p \in Players, Blur(p) \/ Hide(p) \/ Show(p) PROVE InTheLimits'
  <2>1. CASE Show(p)
    BY <2>1 DEF Show, InTheLimits, pump, record, ghosts
  <2>2. QED
    BY <1>3, <2>1, ClearLimits
<1>4. ASSUME NEW p \in Players, ClientTick(p) PROVE InTheLimits'
  BY <1>4, ClientTickLimits
<1>5. ASSUME NEW p \in Players, MatchInput(p) PROVE InTheLimits'
  BY <1>5, MatchInputLimits
<1>6. ASSUME NEW by \in Delays, Elapse(by) PROVE InTheLimits'
  BY <1>6 DEF Elapse, InTheLimits, keyboard, record, ghosts
<1>7. CASE Wake
  BY <1>7, WakeLimits
<1>8. CASE Tick
  BY <1>8, TickLimits
<1>9. CASE UNCHANGED vars
  BY <1>9 DEF vars, InTheLimits, keyboard, pump, record, ghosts
<1>10. QED
  BY <1>1, <1>2, <1>3, <1>4, <1>5, <1>6, <1>7, <1>8, <1>9 DEF Next

\* The keyboard, the messages on their way, the pump and the recorder stay within
\* their types and their limits, and no account goes below zero: no budget is
\* overdrawn, the pump owes at most MAX_STEPS_PER_WAKE ticks, and the recorder
\* stops at MAX_REPLAY_TICKS (input.ts, App.tsx, match:input and the pump of
\* server.ts, ReplayRecorder).
THEOREM InputPathIsTyped == Spec => []TypeOK
<1>1. OnTheClock /\ TapsTyped /\ Recorded /\ InTheLimits => TypeOK
  BY DEF OnTheClock, TapsTyped, Recorded, InTheLimits, TypeOK
<1>2. OnTheClock /\ TapsCounted /\ InTheLimits /\ [Next]_vars => InTheLimits'
  BY StaysInTheLimits DEF TapsCounted
<1>3. TapsCounted => TapsTyped
  BY DEF TapsCounted
<1>4. QED
  BY <1>1, <1>2, <1>3, StartsInTheLimits, ClockInvariant, TapsInvariant, RecordedInvariant,
     PTL DEF Spec
=============================================================================
