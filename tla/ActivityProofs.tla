--------------------------- MODULE ActivityProofs ---------------------------
(***************************************************************************)
(* The theorems of Activity, for a log of any length and pages of any      *)
(* size.  Order of the argument: what the loop over the rows has told      *)
(* after each of them; the rows a page needs are among the fetched ones;   *)
(* the first row beyond them opens a line of its own.                      *)
(***************************************************************************)
EXTENDS Activity, Counting, SequenceTheorems

BucketType == [type : {"retouch", "review"}, event : Places, at : Nat, count : Nat \ {0}]

LogOK == log \in Seq(Row)

-----------------------------------------------------------------------------
(* The loop.                                                               *)

Step(places, told, i) == IF i \in places THEN Put(told, log[i]) ELSE told

Loop(places, n, told) ==
    told = [i \in 0 .. n |-> IF i = 0 THEN <<>>
                              ELSE IF i \in places THEN Put(told[i - 1], log[i]) ELSE told[i - 1]]

Told(places) == CHOOSE told : Loop(places, Len(log), told)

LEMMA LoopRuns ==
    ASSUME NEW n \in Nat, NEW places
    PROVE  \E told : Loop(places, n, told)
  <1> DEFINE P == {m \in Nat : \E told : Loop(places, m, told)}
  <1>1. 0 \in P
    <2> DEFINE told == [i \in 0 .. 0 |-> <<>>]
    <2>1. Loop(places, 0, told)
      BY DEF Loop
    <2> QED BY <2>1
  <1>2. ASSUME NEW m \in 0 .. n - 1, m \in P
        PROVE  m + 1 \in P
    <2>1. PICK told : Loop(places, m, told)
      BY <1>2
    <2> DEFINE more == [i \in 0 .. m + 1 |-> IF i = m + 1 THEN Step(places, told[m], m + 1) ELSE told[i]]
    <2>2. ASSUME NEW i \in 0 .. m + 1
          PROVE  more[i] = IF i = 0 THEN <<>>
                           ELSE IF i \in places THEN Put(more[i - 1], log[i]) ELSE more[i - 1]
      <3>1. CASE i = m + 1
        <4>1. more[i - 1] = told[m] /\ i # 0
          BY <3>1
        <4>2. more[i] = Step(places, told[m], i)
          BY <3>1
        <4> HIDE DEF more
        <4> QED BY <4>1, <4>2 DEF Step
      <3>2. CASE i # m + 1
        <4>1. i \in 0 .. m /\ (i # 0 => i - 1 \in 0 .. m)
          BY <3>2
        <4>2. more[i] = told[i] /\ (i # 0 => more[i - 1] = told[i - 1])
          BY <4>1
        <4>3. told[i] = IF i = 0 THEN <<>>
                         ELSE IF i \in places THEN Put(told[i - 1], log[i]) ELSE told[i - 1]
          BY <2>1, <4>1 DEF Loop
        <4> HIDE DEF more
        <4> QED BY <4>2, <4>3
      <3> QED BY <3>1, <3>2
    <2>3. more = [i \in 0 .. m + 1 |-> more[i]]
      OBVIOUS
    <2> HIDE DEF more
    <2>4. Loop(places, m + 1, more)
      BY <2>2, <2>3 DEF Loop
    <2> QED BY <2>4
  <1> HIDE DEF P
  <1>3. 0 .. n \subseteq P
    BY <1>1, <1>2, Climbing
  <1> QED BY <1>3 DEF P

LEMMA ToldDoes ==
    ASSUME LogOK, NEW places
    PROVE  /\ Len(log) \in Nat
           /\ Told(places)[0] = <<>>
           /\ \A i \in 1 .. Len(log) : Told(places)[i] = Step(places, Told(places)[i - 1], i)
           /\ Buckets(places) = Told(places)[Len(log)]
  <1>0. Len(log) \in Nat
    BY DEF LogOK
  <1>1. Loop(places, Len(log), Told(places))
    BY <1>0, LoopRuns DEF Told
  <1> DEFINE told == Told(places)
  <1> HIDE DEF told
  <1>2. \A i \in 0 .. Len(log) :
           told[i] = IF i = 0 THEN <<>>
                     ELSE IF i \in places THEN Put(told[i - 1], log[i]) ELSE told[i - 1]
    BY <1>1 DEF Loop, told
  <1>3. Buckets(places) = Told(places)[Len(log)]
    BY DEF Buckets, Told, Loop
  <1>4. told[0] = <<>>
    BY <1>0, <1>2
  <1>5. \A i \in 1 .. Len(log) : told[i] = Step(places, told[i - 1], i)
    BY <1>0, <1>2 DEF Step
  <1> QED BY <1>0, <1>3, <1>4, <1>5 DEF told

\* A row is counted by the last line, or opens the next one.
Follows(after, before, row) ==
    LET n == Len(before) IN
    \/ /\ n > 0 /\ SameBucket(before[n], row)
       /\ Len(after) = n
       /\ after[n].type = row.type
       /\ after[n].count = before[n].count + 1
       /\ \A j \in 1 .. n - 1 : after[j] = before[j]
    \/ /\ ~(n > 0 /\ SameBucket(before[n], row))
       /\ Len(after) = n + 1
       /\ after[n + 1].type = row.type
       /\ after[n + 1].count = 1
       /\ \A j \in 1 .. n : after[j] = before[j]

LEMMA PutDoes ==
    ASSUME NEW told \in Seq(BucketType), NEW row \in Row
    PROVE  Put(told, row) \in Seq(BucketType) /\ Follows(Put(told, row), told, row)
  <1> DEFINE n == Len(told)
  <1>0. n \in Nat
    OBVIOUS
  <1>1. CASE n > 0 /\ SameBucket(told[n], row)
    <2> DEFINE last == [told[n] EXCEPT !.count = @ + 1]  next == [told EXCEPT ![n] = last]
    <2>1. Put(told, row) = next
      BY <1>1 DEF Put
    <2>2. told[n] \in BucketType /\ n \in 1 .. n
      BY <1>0, <1>1
    <2>3. /\ last \in BucketType /\ last.count = told[n].count + 1
          /\ last.type = row.type
      BY <1>1, <2>2 DEF BucketType, SameBucket
    <2>4. next \in Seq(BucketType) /\ Len(next) = n /\ next[n] = last /\ \A j \in 1 .. n - 1 : next[j] = told[j]
      <3> HIDE DEF last
      <3> QED BY <1>0, <2>2, <2>3
    <2> HIDE DEF next, last
    <2> QED BY <1>1, <2>1, <2>3, <2>4 DEF Follows
  <1>2. CASE ~(n > 0 /\ SameBucket(told[n], row))
    <2> DEFINE new == [type |-> row.type, event |-> row.event, at |-> row.at, count |-> 1]
               next == Append(told, new)
    <2>1. Put(told, row) = next
      BY <1>2 DEF Put
    <2>2. new \in BucketType /\ new.type = row.type /\ new.count = 1
      BY DEF BucketType, Row
    <2>3. next \in Seq(BucketType) /\ Len(next) = n + 1 /\ next[n + 1] = new /\ \A j \in 1 .. n : next[j] = told[j]
      <3> HIDE DEF new
      <3> QED BY <1>0, <2>2
    <2> HIDE DEF next, new, n
    <2> QED BY <1>2, <2>1, <2>2, <2>3 DEF n, Follows
  <1> QED BY <1>1, <1>2

LEMMA StepIs ==
    ASSUME LogOK, NEW places, NEW i \in 1 .. Len(log), Told(places)[i - 1] \in Seq(BucketType)
    PROVE  /\ Told(places)[i] \in Seq(BucketType)
           /\ IF i \in places THEN Follows(Told(places)[i], Told(places)[i - 1], log[i])
                              ELSE Told(places)[i] = Told(places)[i - 1]
  <1>1. Told(places)[i] = Step(places, Told(places)[i - 1], i)
    BY ToldDoes
  <1>2. log[i] \in Row
    BY DEF LogOK
  <1> QED BY <1>1, <1>2, PutDoes DEF Step

LEMMA ToldIs ==
    ASSUME LogOK, NEW places
    PROVE  \A i \in 0 .. Len(log) :
             Told(places)[i] \in Seq(BucketType) /\ Len(Told(places)[i]) <= i
  <1> DEFINE P == {i \in 0 .. Len(log) :
                     Told(places)[i] \in Seq(BucketType) /\ Len(Told(places)[i]) <= i}
  <1>0. Len(log) \in Nat
    BY ToldDoes
  <1>1. 0 \in P
    <2>1. Told(places)[0] = <<>>
      BY ToldDoes
    <2>2. <<>> \in Seq(BucketType) /\ Len(<<>>) = 0
      OBVIOUS
    <2>3. Told(places)[0] \in Seq(BucketType) /\ Len(Told(places)[0]) = 0
      BY <2>1, <2>2
    <2> QED BY <1>0, <2>3
  <1>2. ASSUME NEW i \in 0 .. Len(log) - 1, i \in P
        PROVE  i + 1 \in P
    <2> DEFINE before == Told(places)[i]  after == Told(places)[i + 1]
    <2>1. before \in Seq(BucketType) /\ Len(before) <= i /\ Len(before) \in Nat
      BY <1>2
    <2>2. i + 1 \in 1 .. Len(log) /\ (i + 1) - 1 = i
      BY <1>0
    <2>3. /\ after \in Seq(BucketType)
          /\ after = before \/ Len(after) = Len(before) \/ Len(after) = Len(before) + 1
      <3>1. after \in Seq(BucketType) /\ (after = before \/ Follows(after, before, log[i + 1]))
        BY <2>1, <2>2, StepIs
      <3> QED BY <3>1 DEF Follows
    <2> HIDE DEF before, after
    <2>4. Len(after) <= i + 1
      BY <1>0, <2>1, <2>3
    <2> QED BY <1>0, <2>2, <2>3, <2>4 DEF after
  <1> HIDE DEF P
  <1>3. 0 .. Len(log) \subseteq P
    BY <1>0, <1>1, <1>2, Climbing
  <1> QED BY <1>3 DEF P

\* Lines with one after them are told.
LEMMA LinesStay ==
    ASSUME LogOK, NEW places, NEW a \in 0 .. Len(log), NEW n \in Nat, Len(Told(places)[a]) > n
    PROVE  \A i \in a .. Len(log) :
             Len(Told(places)[i]) > n /\ \A j \in 1 .. n : Told(places)[i][j] = Told(places)[a][j]
  <1> DEFINE P == {i \in 0 .. Len(log) :
        Len(Told(places)[i]) > n /\ \A j \in 1 .. n : Told(places)[i][j] = Told(places)[a][j]}
  <1>0. Len(log) \in Nat /\ a \in Nat
    BY ToldDoes
  <1>1. a \in P
    OBVIOUS
  <1>2. ASSUME NEW i \in a .. Len(log) - 1, i \in P
        PROVE  i + 1 \in P
    <2> DEFINE before == Told(places)[i]  after == Told(places)[i + 1]  first == Told(places)[a]
    <2>1. i + 1 \in 1 .. Len(log) /\ (i + 1) - 1 = i /\ i \in 0 .. Len(log)
      BY <1>0
    <2>2. before \in Seq(BucketType) /\ Len(before) \in Nat
      BY <2>1, ToldIs
    <2>3. Len(before) > n /\ \A j \in 1 .. n : before[j] = first[j]
      BY <1>2
    <2>4. /\ Len(after) = Len(before) \/ Len(after) = Len(before) + 1
          /\ \A j \in 1 .. Len(before) - 1 : after[j] = before[j]
      <3>1. after = before \/ Follows(after, before, log[i + 1])
        BY <2>1, <2>2, StepIs
      <3> HIDE DEF before, after
      <3> QED BY <2>2, <3>1 DEF Follows
    <2> HIDE DEF before, after, first
    <2>5. Len(after) > n /\ \A j \in 1 .. n : after[j] = first[j]
      BY <2>2, <2>3, <2>4
    <2> QED BY <2>1, <2>5 DEF after, first
  <1> HIDE DEF P
  <1>3. a .. Len(log) \subseteq P
    BY <1>0, <1>1, <1>2, Climbing
  <1> QED BY <1>3 DEF P

\* Rows left out tell nothing.
LEMMA NothingTold ==
    ASSUME LogOK, NEW places, NEW a \in 0 .. Len(log), NEW b \in a .. Len(log),
           \A i \in a + 1 .. b : i \notin places
    PROVE  Told(places)[b] = Told(places)[a]
  <1> DEFINE P == {i \in 0 .. Len(log) : Told(places)[i] = Told(places)[a]}
  <1>0. Len(log) \in Nat /\ a \in Nat /\ b \in Nat
    BY ToldDoes
  <1>1. a \in P
    OBVIOUS
  <1>2. ASSUME NEW i \in a .. b - 1, i \in P
        PROVE  i + 1 \in P
    <2>1. i + 1 \in 1 .. Len(log) /\ (i + 1) - 1 = i /\ i + 1 \in a + 1 .. b
      BY <1>0
    <2>2. Told(places)[i + 1] = Step(places, Told(places)[i], i + 1)
      BY <2>1, ToldDoes
    <2> QED BY <1>0, <1>2, <2>1, <2>2 DEF Step
  <1> HIDE DEF P
  <1>3. a .. b \subseteq P
    BY <1>0, <1>1, <1>2, Climbing
  <1> QED BY <1>0, <1>3 DEF P

\* The newest rows tell the same, whatever is fetched after them.
LEMMA SameStart ==
    ASSUME LogOK, NEW some, NEW all, NEW m \in 0 .. Len(log),
           1 .. m \subseteq some, 1 .. m \subseteq all
    PROVE  Told(some)[m] = Told(all)[m]
  <1> DEFINE P == {i \in 0 .. m : Told(some)[i] = Told(all)[i]}
  <1>0. Len(log) \in Nat /\ m \in Nat
    BY ToldDoes
  <1>1. 0 \in P
    BY <1>0, ToldDoes
  <1>2. ASSUME NEW i \in 0 .. m - 1, i \in P
        PROVE  i + 1 \in P
    <2>1. i + 1 \in 1 .. Len(log) /\ (i + 1) - 1 = i /\ i + 1 \in 1 .. m
      BY <1>0
    <2>2. /\ Told(some)[i + 1] = Step(some, Told(some)[i], i + 1)
          /\ Told(all)[i + 1] = Step(all, Told(all)[i], i + 1)
      BY <2>1, ToldDoes
    <2>3. i + 1 \in some /\ i + 1 \in all
      BY <2>1
    <2> QED BY <1>0, <1>2, <2>1, <2>2, <2>3 DEF Step
  <1> HIDE DEF P
  <1>3. 0 .. m \subseteq P
    BY <1>0, <1>1, <1>2, Climbing
  <1> QED BY <1>0, <1>3 DEF P

\* The last line is of the kind of the last row.
LEMMA LastLine ==
    ASSUME LogOK, NEW places, NEW m \in 1 .. Len(log), m \in places
    PROVE  LET told == Told(places)[m] IN
           Len(told) > 0 /\ told[Len(told)].type = log[m].type
  <1>1. m - 1 \in 0 .. Len(log)
    BY ToldDoes
  <1>2. Told(places)[m - 1] \in Seq(BucketType) /\ Len(Told(places)[m - 1]) \in Nat
    BY <1>1, ToldIs
  <1> DEFINE before == Told(places)[m - 1]  told == Told(places)[m]
  <1>3. \/ Len(before) > 0 /\ Len(told) = Len(before) /\ told[Len(before)].type = log[m].type
        \/ Len(told) = Len(before) + 1 /\ told[Len(before) + 1].type = log[m].type
    BY <1>2, StepIs DEF Follows
  <1> HIDE DEF before, told
  <1>4. Len(before) \in Nat
    BY <1>2 DEF before
  <1>5. Len(told) > 0 /\ told[Len(told)].type = log[m].type
    BY <1>3, <1>4
  <1> QED BY <1>5 DEF told

-----------------------------------------------------------------------------
(* Rows behind the lines.                                                  *)

LEMMA RowsIsSum ==
    ASSUME NEW told \in Seq(BucketType)
    PROVE  /\ [j \in 1 .. Len(told) |-> told[j].count] \in [1 .. Len(told) -> Nat]
           /\ Rows(told) = FoldFunctionOnSet(+, 0, [j \in 1 .. Len(told) |-> told[j].count], 1 .. Len(told))
  <1>1. DOMAIN told = 1 .. Len(told) /\ \A j \in 1 .. Len(told) : told[j].count \in Nat
    <2>1. DOMAIN told = 1 .. Len(told) /\ \A j \in 1 .. Len(told) : told[j] \in BucketType
      OBVIOUS
    <2> QED BY <2>1 DEF BucketType
  <1> QED BY <1>1 DEF Rows, FoldFunction

LEMMA RowsOfOneMore ==
    ASSUME NEW n \in Nat, NEW told \in Seq(BucketType), NEW shorter \in Seq(BucketType),
           Len(told) = n + 1, Len(shorter) = n, \A j \in 1 .. n : told[j] = shorter[j]
    PROVE  Rows(told) = Rows(shorter) + told[n + 1].count
  <1> DEFINE f == [j \in 1 .. n + 1 |-> told[j].count]  g == [j \in 1 .. n |-> shorter[j].count]
  <1>1. f \in [1 .. n + 1 -> Nat] /\ Rows(told) = FoldFunctionOnSet(+, 0, f, 1 .. n + 1)
    BY RowsIsSum
  <1>2. Rows(shorter) = FoldFunctionOnSet(+, 0, g, 1 .. n)
    BY RowsIsSum
  <1>3. g = [j \in 1 .. n |-> f[j]] /\ f[n + 1] = told[n + 1].count
    OBVIOUS
  <1> HIDE DEF f, g
  <1>4. FoldFunctionOnSet(+, 0, f, 1 .. n + 1)
          = FoldFunctionOnSet(+, 0, [j \in 1 .. n |-> f[j]], 1 .. n) + f[n + 1]
    BY <1>1, SumOfOneMore
  <1>5. FoldFunctionOnSet(+, 0, f, 1 .. n + 1) = FoldFunctionOnSet(+, 0, g, 1 .. n) + f[n + 1]
    BY <1>3, <1>4
  <1> QED BY <1>1, <1>2, <1>3, <1>5

LEMMA RowsOfNone == Rows(<<>>) = 0
  <1> DEFINE f == [j \in 1 .. 0 |-> 0]
  <1>1. IsFiniteSet(1 .. 0) /\ f \in [1 .. 0 -> Nat]
    BY FS_Interval
  <1>2. Rows(<<>>) = FoldFunctionOnSet(+, 0, f, 1 .. 0)
    <2>1. <<>> \in Seq(BucketType) /\ Len(<<>>) = 0
      OBVIOUS
    <2>2. Rows(<<>>) = FoldFunctionOnSet(+, 0, [j \in 1 .. Len(<<>>) |-> <<>>[j].count], 1 .. Len(<<>>))
      BY <2>1, RowsIsSum
    <2>3. [j \in 1 .. Len(<<>>) |-> <<>>[j].count] = f
      BY <2>1
    <2> HIDE DEF f
    <2> QED BY <2>1, <2>2, <2>3
  <1>3. FoldFunctionOnSet(+, 0, f, 1 .. 0) = Cardinality(InGroups(Units(f, 1 .. 0), 1 .. 0))
    <2> HIDE DEF f
    <2> QED BY <1>1, SumIsSize
  <1>4. InGroups(Units(f, 1 .. 0), 1 .. 0) = {}
    BY DEF InGroups
  <1> QED BY <1>2, <1>3, <1>4, FS_EmptySet

\* The lines count every row once.
LEMMA RowsTold ==
    ASSUME LogOK, NEW places, NEW m \in 0 .. Len(log), 1 .. m \subseteq places
    PROVE  Rows(Told(places)[m]) = m
  <1> DEFINE P == {i \in 0 .. m : Rows(Told(places)[i]) = i}
  <1>0. Len(log) \in Nat /\ m \in Nat
    BY ToldDoes
  <1>1. 0 \in P
    BY <1>0, ToldDoes, RowsOfNone
  <1>2. ASSUME NEW i \in 0 .. m - 1, i \in P
        PROVE  i + 1 \in P
    <2> DEFINE k == i + 1  before == Told(places)[i]  after == Told(places)[k]  n == Len(before)
    <2>1. /\ k \in 1 .. Len(log) /\ k - 1 = i /\ k \in places /\ k \in 0 .. m
          /\ i \in 0 .. Len(log) /\ k \in 0 .. Len(log)
      BY <1>0
    <2>2. before \in Seq(BucketType) /\ after \in Seq(BucketType) /\ n \in Nat
      <3> HIDE DEF k
      <3>1. before \in Seq(BucketType) /\ after \in Seq(BucketType)
        BY <2>1, ToldIs
      <3> QED BY <3>1
    <2>3. \/ /\ n > 0 /\ Len(after) = n
             /\ after[n].count = before[n].count + 1
             /\ \A j \in 1 .. n - 1 : after[j] = before[j]
          \/ /\ Len(after) = n + 1 /\ after[n + 1].count = 1
             /\ \A j \in 1 .. n : after[j] = before[j]
      <3>1. Follows(after, before, log[k])
        <4> HIDE DEF k
        <4> QED BY <2>1, <2>2, StepIs
      <3> QED BY <3>1 DEF Follows
    <2>4. Rows(before) = i
      BY <1>2
    <2> HIDE DEF k, before, after, n
    <2>5. CASE n > 0 /\ Len(after) = n /\ after[n].count = before[n].count + 1
               /\ \A j \in 1 .. n - 1 : after[j] = before[j]
      <3> DEFINE low == SubSeq(before, 1, n - 1)
      <3>0. Len(before) = n /\ n - 1 \in Nat /\ (n - 1) + 1 = n
        BY <2>2, <2>5 DEF n
      <3>1. low \in Seq(BucketType) /\ Len(low) = n - 1 /\ \A j \in 1 .. n - 1 : low[j] = before[j]
        <4>1. \A j \in 1 .. n - 1 : before[j] \in BucketType
          BY <2>2, <3>0
        <4>2. /\ low \in Seq(BucketType)
              /\ Len(low) = IF 1 <= n - 1 THEN (n - 1) - 1 + 1 ELSE 0
              /\ \A j \in 1 .. (n - 1) - 1 + 1 : low[j] = before[1 + j - 1]
          <5> HIDE DEF low
          <5>1. 1 \in Int /\ n - 1 \in Int
            BY <3>0
          <5> QED BY <4>1, <5>1, SubSeqProperties DEF low
        <4> HIDE DEF low
        <4> QED BY <3>0, <4>2
      <3> HIDE DEF low
      <3>2. Rows(before) = Rows(low) + before[n].count
        BY <2>2, <3>0, <3>1, RowsOfOneMore
      <3>3. Rows(after) = Rows(low) + after[n].count
        BY <2>2, <2>5, <3>0, <3>1, RowsOfOneMore
      <3>4. before[n].count \in Nat
        <4>1. before[n] \in BucketType
          BY <2>2, <2>5, <3>0
        <4> QED BY <4>1 DEF BucketType
      <3>5. Rows(low) \in Nat
        <4> DEFINE f == [j \in 1 .. Len(low) |-> low[j].count]
        <4>1. f \in [1 .. Len(low) -> Nat] /\ Rows(low) = FoldFunctionOnSet(+, 0, f, 1 .. Len(low))
          BY <3>1, RowsIsSum
        <4>2. IsFiniteSet(1 .. Len(low)) /\ 0 \in Int
          BY <3>0, <3>1, FS_Interval
        <4> HIDE DEF f
        <4>3. FoldFunctionOnSet(+, 0, f, 1 .. Len(low)) \in Nat
          BY <4>1, <4>2, SumIsNatural
        <4> QED BY <4>1, <4>3
      <3>6. Rows(after) = i + 1
        BY <2>4, <2>5, <3>2, <3>3, <3>4, <3>5
      <3> QED BY <2>1, <3>6 DEF k, after
    <2>6. CASE Len(after) = n + 1 /\ after[n + 1].count = 1 /\ \A j \in 1 .. n : after[j] = before[j]
      <3>1. Len(before) = n
        BY DEF n
      <3>2. Rows(after) = Rows(before) + after[n + 1].count
        BY <2>2, <2>6, <3>1, RowsOfOneMore
      <3>3. Rows(after) = i + 1
        BY <2>4, <2>6, <3>2
      <3> QED BY <2>1, <3>3 DEF k, after
    <2> QED BY <2>3, <2>5, <2>6
  <1> HIDE DEF P
  <1>3. 0 .. m \subseteq P
    BY <1>0, <1>1, <1>2, Climbing
  <1> QED BY <1>0, <1>3 DEF P

-----------------------------------------------------------------------------
(* A page.                                                                 *)

Kind(i) == {j \in 1 .. i : log[j].type = log[i].type}

\* Where n lines are told: m rows are behind them, and the next row opens a line.
LEMMA LinesEnd ==
    ASSUME LogOK, NEW n \in Nat \ {0}, n <= Len(Buckets(DOMAIN log))
    PROVE  \E m \in 1 .. Len(log) :
             LET all == Told(DOMAIN log) IN
             /\ Len(all[m]) = n
             /\ \A j \in 1 .. n : Buckets(DOMAIN log)[j] = all[m][j]
             /\ m < Len(log) => ~SameBucket(all[m][n], log[m + 1])
  <1> DEFINE all == Told(DOMAIN log)  L == Len(log)
             Over == {i \in 0 .. L : Len(all[i]) > n}
  <1>0. L \in Nat /\ DOMAIN log = 1 .. L
    BY ToldDoes DEF LogOK
  <1>1. Buckets(DOMAIN log) = all[L] /\ all[0] = <<>>
    BY ToldDoes
  <1>2. \A i \in 0 .. L : all[i] \in Seq(BucketType) /\ Len(all[i]) \in Nat /\ Len(all[i]) <= i
    BY ToldIs
  <1> HIDE DEF all, L
  <1>3. CASE Over = {}
    <2>1. Len(all[L]) = n /\ L \in 1 .. L
      BY <1>0, <1>1, <1>2, <1>3
    <2> QED BY <1>0, <1>1, <2>1 DEF all, L
  <1>4. CASE Over # {}
    <2>1. PICK i \in Over : \A k \in Over : i <= k
      <3>1. Over \in SUBSET Nat
        OBVIOUS
      <3> HIDE DEF Over
      <3> QED BY <1>4, <3>1, LeastNatural
    <2> DEFINE m == i - 1
    <2>2. /\ i \in 0 .. L /\ Len(all[i]) > n /\ m \in 0 .. L /\ i \in 1 .. L
          /\ m \notin Over /\ m \in Int /\ i = m + 1
      BY <1>0, <1>2, <2>1
    <2>3. Len(all[m]) <= n /\ m < L
      BY <1>0, <1>2, <2>2
    <2> HIDE DEF m
    <2>4. \/ /\ Len(all[m]) > 0 /\ Len(all[i]) = Len(all[m])
          \/ /\ ~(Len(all[m]) > 0 /\ SameBucket(all[m][Len(all[m])], log[i]))
             /\ Len(all[i]) = Len(all[m]) + 1
             /\ \A j \in 1 .. Len(all[m]) : all[i][j] = all[m][j]
      <3>1. i \in DOMAIN log /\ i \in 1 .. Len(log)
        BY <1>0, <2>2 DEF L
      <3>2. Told(DOMAIN log)[i - 1] = all[m] /\ Told(DOMAIN log)[i] = all[i]
        BY <2>2 DEF all, m
      <3>3. all[m] \in Seq(BucketType)
        BY <1>2, <2>2
      <3>4. Follows(all[i], all[m], log[i])
        BY <3>1, <3>2, <3>3, StepIs
      <3> QED BY <3>4 DEF Follows
    <2>5. /\ Len(all[m]) = n
          /\ ~SameBucket(all[m][n], log[i])
          /\ \A j \in 1 .. n : all[i][j] = all[m][j]
      BY <1>2, <2>2, <2>3, <2>4
    <2>6. \A j \in 1 .. n : all[L][j] = all[i][j]
      <3>1. L \in i .. Len(log) /\ i \in 0 .. Len(log)
        BY <1>0, <2>2 DEF L
      <3>2. Len(Told(DOMAIN log)[i]) > n
        BY <2>2 DEF all
      <3> QED BY <3>1, <3>2, LinesStay DEF all
    <2>7. m \in 1 .. L
      BY <1>2, <2>2, <2>5
    <2>8. \A j \in 1 .. n : all[L][j] = all[m][j]
      BY <2>5, <2>6
    <2> HIDE DEF Over
    <2> QED BY <1>1, <2>2, <2>5, <2>7, <2>8 DEF all, L
  <1> QED BY <1>3, <1>4

LEMMA KindsCounted ==
    ASSUME LogOK, NEW i \in 1 .. Len(log)
    PROVE  IsFiniteSet(Kind(i)) /\ Cardinality(Kind(i)) \in Nat /\ Cardinality(Kind(i)) <= i
  <1>1. Len(log) \in Nat
    BY ToldDoes
  <1>2. IsFiniteSet(1 .. i) /\ Cardinality(1 .. i) = i
    BY <1>1, FS_Interval
  <1>3. Kind(i) \in SUBSET (1 .. i)
    BY DEF Kind
  <1> QED BY <1>2, <1>3, FS_Subset, FS_CardinalityType

LEMMA NewestAre ==
    ASSUME LogOK, NEW f \in Nat
    PROVE  Newest(f) = {i \in 1 .. Len(log) : Cardinality(Kind(i)) <= f}
  <1>1. DOMAIN log = 1 .. Len(log)
    BY DEF LogOK
  <1> QED BY <1>1 DEF Newest, Kind

\* After m rows, at most as many as are fetched of a kind, the first row fetched
\* opens a line if the next row does.
LEMMA NextFetchedOpens ==
    ASSUME LogOK, NEW f \in Nat, NEW m \in 1 .. Len(log), m <= f, m < Len(log),
           NEW last, last.type = log[m].type, ~SameBucket(last, log[m + 1]),
           NEW a \in m + 1 .. Len(log), a \in Newest(f),
           \A i \in m + 1 .. a - 1 : i \notin Newest(f)
    PROVE  ~SameBucket(last, log[a])
  <1>0. Len(log) \in Nat
    BY ToldDoes
  <1>1. CASE a = m + 1
    BY <1>1
  <1>2. CASE a # m + 1
    <2>1. m + 1 \in 1 .. Len(log) /\ m + 1 \in m + 1 .. a - 1 /\ a \in 1 .. Len(log) /\ m + 1 < a
      BY <1>0, <1>2
    <2>2. Cardinality(Kind(m + 1)) > f
      <3>1. m + 1 \notin Newest(f)
        BY <2>1
      <3>2. Cardinality(Kind(m + 1)) \in Nat
        BY <2>1, KindsCounted
      <3> QED BY <2>1, <3>1, <3>2, NewestAre
    <2>3. Kind(m + 1) = 1 .. m + 1
      <3>1. IsFiniteSet(1 .. m + 1) /\ Cardinality(1 .. m + 1) = m + 1
        <4>1. m + 1 \in Nat /\ 1 \in Nat
          BY <2>1
        <4> QED BY <4>1, FS_Interval
      <3>2. Kind(m + 1) \in SUBSET (1 .. m + 1)
        BY DEF Kind
      <3>3. Cardinality(Kind(m + 1)) \in Nat /\ Cardinality(Kind(m + 1)) <= m + 1
        BY <2>1, KindsCounted
      <3>4. Cardinality(Kind(m + 1)) = Cardinality(1 .. m + 1)
        BY <2>1, <2>2, <3>1, <3>3
      <3> QED BY <3>1, <3>2, <3>4, FS_Subset
    <2>4. log[m].type = log[m + 1].type
      <3>1. m \in Kind(m + 1)
        BY <2>1, <2>3
      <3> QED BY <3>1 DEF Kind
    <2>5. log[a].type # log[m + 1].type
      <3> SUFFICES ASSUME log[a].type = log[m + 1].type PROVE FALSE
        OBVIOUS
      <3>1. Kind(m + 1) \in SUBSET Kind(a)
        BY <2>1 DEF Kind
      <3>2. IsFiniteSet(Kind(a)) /\ Cardinality(Kind(a)) \in Nat /\ Cardinality(Kind(m + 1)) \in Nat
        BY <2>1, KindsCounted
      <3>3. Cardinality(Kind(m + 1)) <= Cardinality(Kind(a))
        BY <3>1, <3>2, FS_Subset
      <3>4. Cardinality(Kind(a)) <= f
        BY NewestAre
      <3> QED BY <2>2, <3>2, <3>3, <3>4
    <2> QED BY <2>4, <2>5 DEF SameBucket
  <1> QED BY <1>1, <1>2

\* A page of any size tells the log as it is.
LEMMA PageIsExact ==
    ASSUME LogOK, NEW skip \in Nat, NEW take \in Nat \ {0}
    PROVE  PageExact(skip, take)
  <1> DEFINE n == skip + take  f == Fetched(skip, take)  L == Len(log)
             all == Told(DOMAIN log)  some == Told(Newest(f))
             B == Buckets(DOMAIN log)  C == Buckets(Newest(f))
             told == SubSeq(B, 1, n)
  <1>0. /\ n \in Nat \ {0} /\ f = n * FetchFactor /\ f \in Nat /\ L \in Nat
        /\ DOMAIN log = 1 .. L
    BY ToldDoes, ActivityAssumption DEF Fetched, LogOK
  <1> SUFFICES ASSUME n <= Len(B), Rows(told) <= f
               PROVE  RecentActivity(skip, take) = SubSeq(told, skip + 1, n)
    BY <1>0 DEF PageExact
  <1>1. /\ B = all[L] /\ C = some[L]
        /\ \A i \in 0 .. L : all[i] \in Seq(BucketType) /\ Len(all[i]) \in Nat
        /\ \A i \in 0 .. L : some[i] \in Seq(BucketType) /\ Len(some[i]) \in Nat
    BY ToldDoes, ToldIs
  <1>2. PICK m \in 1 .. L :
          /\ Len(all[m]) = n
          /\ \A j \in 1 .. n : B[j] = all[m][j]
          /\ m < L => ~SameBucket(all[m][n], log[m + 1])
    BY <1>0, LinesEnd
  <1> HIDE DEF n, f, L, all, some, B, C
  <1>3. \A j \in 1 .. n : B[j] \in BucketType
    BY <1>0, <1>1, <1>2
  <1>4. /\ told \in Seq(BucketType) /\ Len(told) = n
        /\ \A j \in 1 .. n : told[j] = B[j]
    <2>1. 1 \in Int /\ n \in Int
      BY <1>0
    <2>2. /\ told \in Seq(BucketType)
          /\ Len(told) = IF 1 <= n THEN n - 1 + 1 ELSE 0
          /\ \A j \in 1 .. n - 1 + 1 : told[j] = B[1 + j - 1]
      BY <1>3, <2>1, SubSeqProperties
    <2> HIDE DEF told
    <2> QED BY <1>0, <2>2
  <1> HIDE DEF told
  <1>5. told = all[m]
    <2> DEFINE its == all[m]
    <2>1. its \in Seq(BucketType) /\ Len(its) = n /\ \A j \in 1 .. n : told[j] = its[j]
      <3>1. m \in 0 .. L
        BY <1>0
      <3>2. its \in Seq(BucketType) /\ Len(its) = n
        BY <1>1, <1>2, <3>1
      <3>3. \A j \in 1 .. n : told[j] = its[j]
        BY <1>2, <1>4
      <3> QED BY <3>2, <3>3
    <2> HIDE DEF its
    <2>2. told = its
      BY <1>0, <1>4, <2>1
    <2> QED BY <2>2 DEF its
  <1>6. m <= f
    <2>1. 1 .. m \subseteq DOMAIN log /\ m \in 0 .. Len(log)
      BY <1>0 DEF L
    <2>2. Rows(all[m]) = m
      BY <2>1, RowsTold DEF all
    <2> QED BY <1>5, <2>2
  <1>7. 1 .. m \subseteq Newest(f)
    <2> SUFFICES ASSUME NEW i \in 1 .. m PROVE i \in Newest(f)
      OBVIOUS
    <2>1. i \in 1 .. Len(log) /\ i <= f
      BY <1>0, <1>6 DEF L
    <2>2. Cardinality(Kind(i)) \in Nat /\ Cardinality(Kind(i)) <= i
      BY <2>1, KindsCounted
    <2>3. Cardinality(Kind(i)) <= f
      BY <1>0, <2>1, <2>2
    <2> QED BY <1>0, <2>1, <2>3, NewestAre
  <1>8. some[m] = all[m]
    <2>1. 1 .. m \subseteq DOMAIN log /\ m \in 0 .. Len(log)
      BY <1>0 DEF L
    <2> QED BY <1>7, <2>1, SameStart DEF some, all
  <1>9. Len(C) >= n /\ \A j \in 1 .. n : C[j] = all[m][j]
    <2> DEFINE Later == {i \in m + 1 .. L : i \in Newest(f)}
    <2>1. CASE Later = {}
      <3>1. m \in 0 .. Len(log) /\ L \in m .. Len(log) /\ \A i \in m + 1 .. L : i \notin Newest(f)
        BY <1>0, <2>1 DEF L
      <3>2. some[L] = some[m]
        BY <3>1, NothingTold DEF some
      <3> QED BY <1>0, <1>1, <1>2, <1>8, <3>2
    <2>2. CASE Later # {}
      <3>1. PICK a \in Later : \A i \in Later : a <= i
        <4>1. Later \in SUBSET Nat
          BY <1>0
        <4> HIDE DEF Later
        <4> QED BY <2>2, <4>1, LeastNatural
      <3>2. /\ a \in m + 1 .. Len(log) /\ a \in Newest(f) /\ m < Len(log) /\ a \in 1 .. Len(log)
            /\ a - 1 \in m .. Len(log) /\ m \in 0 .. Len(log) /\ a \in 0 .. Len(log) /\ m \in 1 .. Len(log)
        BY <1>0, <3>1 DEF L
      <3>3. \A i \in m + 1 .. a - 1 : i \notin Newest(f)
        BY <1>0, <3>1
      <3> HIDE DEF Later
      <3>4. some[a - 1] = all[m]
        BY <1>8, <3>2, <3>3, NothingTold DEF some
      <3>5. all[m][n].type = log[m].type
        <4>1. m \in DOMAIN log
          BY <1>0
        <4> QED BY <1>2, <3>2, <4>1, LastLine DEF all
      <3>6. ~SameBucket(all[m][n], log[m + 1])
        BY <1>2, <3>2 DEF L
      <3> DEFINE last == all[m][n]
      <3>7. ~SameBucket(last, log[a])
        <4> HIDE DEF last
        <4> QED BY <1>0, <1>6, <3>2, <3>3, <3>5, <3>6, NextFetchedOpens DEF last
      <3>8. Len(some[a]) = n + 1 /\ \A j \in 1 .. n : some[a][j] = all[m][j]
        <4> DEFINE before == some[a - 1]  after == some[a]
        <4>1. before \in Seq(BucketType) /\ Len(before) = n
          BY <1>0, <1>1, <1>2, <3>4
        <4>2. ~SameBucket(before[n], log[a])
          BY <3>4, <3>7
        <4>3. Told(Newest(f))[a - 1] = before /\ Told(Newest(f))[a] = after
          BY DEF some
        <4>4. before = all[m]
          BY <3>4
        <4> HIDE DEF before, after
        <4>5. Len(after) = n + 1 /\ \A j \in 1 .. n : after[j] = before[j]
          <5>1. Follows(after, before, log[a])
            BY <3>2, <4>1, <4>3, StepIs
          <5> QED BY <4>1, <4>2, <5>1 DEF Follows
        <4> QED BY <4>4, <4>5 DEF after
      <3>9. Len(some[L]) > n /\ \A j \in 1 .. n : some[L][j] = some[a][j]
        <4>1. L \in a .. Len(log) /\ Len(some[a]) > n /\ n \in Nat
          BY <1>0, <3>2, <3>8 DEF L
        <4> QED BY <3>2, <4>1, LinesStay DEF some
      <3>10. Len(some[L]) \in Nat
        BY <1>0, <1>1
      <3> QED BY <1>0, <1>1, <3>8, <3>9, <3>10
    <2> QED BY <2>1, <2>2
  <1>10. RecentActivity(skip, take) = SubSeq(C, skip + 1, n)
    <2>1. Len(C) \in Nat
      BY <1>0, <1>1
    <2>2. (IF n < Len(C) THEN n ELSE Len(C)) = n
      BY <1>0, <1>9, <2>1
    <2> QED BY <2>2 DEF RecentActivity, C, f, n
  <1>11. SubSeq(C, skip + 1, n) = SubSeq(told, skip + 1, n)
    <2> DEFINE mine == SubSeq(C, skip + 1, n)  its == SubSeq(told, skip + 1, n)
    <2>1. \A i \in skip + 1 .. n : C[i] = told[i] /\ C[i] \in BucketType /\ told[i] \in BucketType
      BY <1>0, <1>3, <1>4, <1>5, <1>9
    <2>2. skip + 1 \in Int /\ n \in Int /\ skip + 1 <= n
      BY <1>0 DEF n
    <2>3. /\ mine \in Seq(BucketType) /\ Len(mine) = n - (skip + 1) + 1
          /\ \A i \in 1 .. n - (skip + 1) + 1 : mine[i] = C[(skip + 1) + i - 1]
      BY <2>1, <2>2, SubSeqProperties
    <2>4. /\ its \in Seq(BucketType) /\ Len(its) = n - (skip + 1) + 1
          /\ \A i \in 1 .. n - (skip + 1) + 1 : its[i] = told[(skip + 1) + i - 1]
      BY <2>1, <2>2, SubSeqProperties
    <2> HIDE DEF mine, its
    <2>5. \A i \in 1 .. n - (skip + 1) + 1 : mine[i] = its[i]
      BY <2>1, <2>2, <2>3, <2>4
    <2>6. mine = its
      BY <2>3, <2>4, <2>5
    <2> QED BY <2>6 DEF mine, its
  <1> QED BY <1>10, <1>11

-----------------------------------------------------------------------------
(* The theorems.                                                           *)

LEMMA LogKept == ActivitySpec => []LogOK
  <1>1. ActivityInit => LogOK
    BY DEF ActivityInit, LogOK
  <1>2. LogOK /\ [Record]_log => LogOK'
    <2> SUFFICES ASSUME LogOK, Record PROVE LogOK'
      BY DEF LogOK
    <2>1. PICK type \in {"retouch", "review"}, e \in Places, gap \in 1 .. Window + 1 :
            log' = <<[type |-> type, event |-> e,
                      at |-> gap + IF log = <<>> THEN 0 ELSE log[1].at]>> \o log
      BY DEF Record
    <2> DEFINE row == [type |-> type, event |-> e, at |-> gap + IF log = <<>> THEN 0 ELSE log[1].at]
    <2>2. row \in Row
      <3>1. gap \in Nat
        BY ActivityAssumption
      <3>2. log # <<>> => log[1] \in Row
        BY DEF LogOK
      <3> QED BY <3>1, <3>2 DEF Row
    <2>3. log' = <<row>> \o log
      BY <2>1
    <2> HIDE DEF row
    <2> QED BY <2>2, <2>3 DEF LogOK
  <1> QED BY <1>1, <1>2, PTL DEF ActivitySpec

\* The operator's pages, of any size, tell his log as it is.
THEOREM ActivityIsTold ==
    ActivitySpec => [](ActivityPagesExact /\ \A skip \in Nat, take \in Nat \ {0} : PageExact(skip, take))
  <1>1. LogOK => ActivityPagesExact /\ \A skip \in Nat, take \in Nat \ {0} : PageExact(skip, take)
    BY PageIsExact DEF ActivityPagesExact
  <1> QED BY <1>1, LogKept, PTL

=============================================================================
