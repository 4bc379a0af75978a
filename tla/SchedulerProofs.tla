--------------------------- MODULE SchedulerProofs --------------------------
(***************************************************************************)
(* Theorems about Scheduler, for every set of tasks and every length of    *)
(* sleep: what it means that the queues of scheduler.c and time.c are kept *)
(* right by every interleaving of sleep(), the two interrupts and the code *)
(* of the tasks.                                                           *)
(***************************************************************************)
EXTENDS SchedulerLatency, SequenceTheorems, FiniteSetTheorems, WellFoundedInduction, TLAPS

-----------------------------------------------------------------------------
(* Facts about numbers and recursive functions.  The induction theorems of   *)
(* the library take an operator; these are stated for sets, which the       *)
(* provers can instantiate.                                                  *)

\* A set of natural numbers that is not empty has a least element.
LEMMA LeastNatural ==
    ASSUME NEW S \in SUBSET Nat, S # {}
    PROVE  \E m \in S : \A k \in S : m <= k
<1>1. IsWellFoundedOn(OpToRel(<, Nat), Nat)
  BY NatLessThanWellFounded
<1>2. PICK m \in S : \A k \in S : ~ (<<k, m>> \in OpToRel(<, Nat))
  BY <1>1, WFMin
<1>3. \A k \in S : ~(k < m)
  BY <1>2 DEF OpToRel
<1> QED BY <1>3

\* Induction up to n: what holds of 0 and of i + 1 when it holds of i, holds
\* up to n.
LEMMA IndexInduction ==
    ASSUME NEW n \in Nat, NEW Good, 0 \in Good,
           \A i \in 1 .. n : i - 1 \in Good => i \in Good
    PROVE  0 .. n \subseteq Good
<1> DEFINE Bad == {i \in 0 .. n : i \notin Good}
<1>1. SUFFICES ASSUME Bad # {} PROVE FALSE
  OBVIOUS
<1>2. PICK m \in Bad : \A k \in Bad : m <= k
  <2>1. Bad \in SUBSET Nat OBVIOUS
  <2> QED BY <1>1, <2>1, LeastNatural
<1>3. m \in 1 .. n /\ m - 1 \in 0 .. n
  BY <1>2
<1>4. m - 1 \in Good
  BY <1>2, <1>3
<1> QED BY <1>2, <1>3, <1>4

\* f starts at base and takes step n times.
Iterates(f, n, S, base, step) ==
    /\ f \in [0 .. n -> S]
    /\ f[0] = base
    /\ \A i \in 1 .. n : f[i] = step[<<i, f[i - 1]>>]

\* A function defined by recursion on 0 .. n exists.
LEMMA Recursion ==
    ASSUME NEW n \in Nat, NEW S, NEW base \in S, NEW step \in [(1 .. n) \X S -> S]
    PROVE  \E f : Iterates(f, n, S, base, step)
<1> DEFINE Good == {k \in 0 .. n : \E f : Iterates(f, k, S, base, step)}
<1>1. 0 \in Good
  <2>1. Iterates([i \in 0 .. 0 |-> base], 0, S, base, step) BY DEF Iterates
  <2> QED BY <2>1
<1>2. ASSUME NEW m \in 1 .. n, m - 1 \in Good PROVE m \in Good
  <2>1. PICK f : Iterates(f, m - 1, S, base, step)
    BY <1>2
  <2> DEFINE g == [i \in 0 .. m |-> IF i = m THEN step[<<m, f[m - 1]>>] ELSE f[i]]
  <2>2. f[m - 1] \in S BY <2>1 DEF Iterates
  <2>3. step[<<m, f[m - 1]>>] \in S BY <2>2
  <2>4. g \in [0 .. m -> S] /\ g[0] = base
    BY <2>1, <2>3 DEF Iterates
  <2>5. ASSUME NEW i \in 1 .. m PROVE g[i] = step[<<i, g[i - 1]>>]
    <3>1. i \in 0 .. m /\ i - 1 \in 0 .. m /\ i - 1 # m
      OBVIOUS
    <3>2. g[i - 1] = f[i - 1] BY <3>1
    <3>3. CASE i = m BY <3>1, <3>2, <3>3
    <3>4. CASE i # m
      <4>1. g[i] = f[i] /\ i \in 1 .. m - 1 BY <3>1, <3>4
      <4> QED BY <2>1, <3>2, <4>1 DEF Iterates
    <3> QED BY <3>3, <3>4
  <2>6. Iterates(g, m, S, base, step)
    BY <2>4, <2>5 DEF Iterates
  <2> QED BY <2>6
<1>3. 0 .. n \subseteq Good
  <2> HIDE DEF Good
  <2> QED BY <1>1, <1>2, IndexInduction
<1> QED BY <1>3

-----------------------------------------------------------------------------
(* What the operators of scheduler() return.                                 *)

\* The least ready position is one.
LEMMA FirstReadyLeast ==
    ASSUME TypeOK, ReadyPositions # {}
    PROVE  /\ FirstReady \in ReadyPositions
           /\ \A j \in ReadyPositions : FirstReady <= j
<1>1. ReadyPositions \in SUBSET Nat
  BY DEF TypeOK, ReadyPositions
<1>2. \E i \in ReadyPositions : \A j \in ReadyPositions : i <= j
  BY <1>1, LeastNatural
<1> QED BY <1>2 DEF FirstReady

\* The selection yields tasks and flags.
LEMMA SelectionType ==
    ASSUME TypeOK
    PROVE  /\ NextTask \in AllTasks
           /\ ReadyPositions # {} => NextTask \in Tasks
           /\ SelectedQueue \in Seq(Tasks)
           /\ SelectedFlags \in [AllTasks -> BOOLEAN]
<1>1. CASE ReadyPositions = {}
  <2>1. NextTask = Idle /\ SelectedQueue = <<>>
    BY <1>1 DEF NextTask, SelectedQueue
  <2>2. SelectedFlags \in [AllTasks -> BOOLEAN]
    BY <1>1, <2>1 DEF TypeOK, SelectedFlags
  <2>3. SelectedQueue \in Seq(Tasks) /\ NextTask \in AllTasks
    BY <2>1 DEF AllTasks
  <2> QED BY <1>1, <2>2, <2>3
<1>2. CASE ReadyPositions # {}
  <2>1. FirstReady \in 1 .. Len(taskQueue)
    BY <1>2, FirstReadyLeast DEF ReadyPositions, TypeOK
  <2>2. NextTask = taskQueue[FirstReady] /\ NextTask \in Tasks
    BY <1>2, <2>1 DEF NextTask, TypeOK
  <2>3. SubSeq(taskQueue, FirstReady + 1, Len(taskQueue)) \in Seq(Tasks)
    BY <2>1 DEF TypeOK
  <2>4. SelectedQueue \in Seq(Tasks)
    BY <1>2, <2>2, <2>3 DEF SelectedQueue
  <2> QED BY <1>2, <2>2, <2>4 DEF TypeOK, SelectedFlags, AllTasks
<1> QED BY <1>1, <1>2

\* The expired elements are the first NumExpired of the delta queue.
LEMMA ExpiredPrefix ==
    ASSUME NEW dq \in Seq(DeltaElements)
    PROVE  /\ NumExpired(dq) \in 0 .. Len(dq)
           /\ Expired(dq) = 1 .. NumExpired(dq)
           /\ \A i \in 1 .. NumExpired(dq) : dq[i].ticks = 0
           /\ NumExpired(dq) < Len(dq) => dq[NumExpired(dq) + 1].ticks # 0
<1> DEFINE Waiting == {i \in 1 .. Len(dq) : dq[i].ticks # 0}
<1>1. \E n \in 0 .. Len(dq) : Expired(dq) = 1 .. n
  <2>1. CASE Waiting = {}
    <3>1. Expired(dq) = 1 .. Len(dq) BY <2>1 DEF Expired
    <3> QED BY <3>1
  <2>2. CASE Waiting # {}
    <3>1. Waiting \in SUBSET Nat OBVIOUS
    <3>2. PICK m \in Waiting : \A k \in Waiting : m <= k
      BY <2>2, <3>1, LeastNatural
    <3>3. m \in 1 .. Len(dq) /\ dq[m].ticks # 0 /\ \A i \in 1 .. m - 1 : dq[i].ticks = 0
      BY <3>2
    <3>4. Expired(dq) = 1 .. m - 1
      BY <3>3 DEF Expired
    <3> QED BY <3>3, <3>4
  <2> QED BY <2>1, <2>2
<1>2. NumExpired(dq) \in 0 .. Len(dq) /\ Expired(dq) = 1 .. NumExpired(dq)
  BY <1>1 DEF NumExpired
<1>3. \A i \in 1 .. NumExpired(dq) : dq[i].ticks = 0
  BY <1>2 DEF Expired
<1>4. ASSUME NumExpired(dq) < Len(dq), dq[NumExpired(dq) + 1].ticks = 0
      PROVE  FALSE
  <2>1. NumExpired(dq) + 1 \in Expired(dq)
    BY <1>2, <1>3, <1>4 DEF Expired
  <2> QED BY <1>2, <2>1
<1> QED BY <1>2, <1>3, <1>4

\* How the loop that drains the delta queue proceeds.
LEMMA HandledSteps ==
    ASSUME TypeOK, NEW dq \in Seq(DeltaElements)
    PROVE  /\ Handled(dq) \in [0 .. Len(dq) -> Seq(Tasks)]
           /\ Handled(dq)[0] = SelectedQueue
           /\ \A i \in 1 .. Len(dq) :
                 Handled(dq)[i] =
                    IF \/ SelectedFlags[dq[i].task]
                       \/ \E j \in 1 .. i - 1 : dq[j].task = dq[i].task
                    THEN Handled(dq)[i - 1]
                    ELSE Append(Handled(dq)[i - 1], dq[i].task)
<1> DEFINE n == Len(dq)
           Skip(i) == \/ SelectedFlags[dq[i].task]
                      \/ \E j \in 1 .. i - 1 : dq[j].task = dq[i].task
           step == [p \in (1 .. n) \X Seq(Tasks) |->
                       IF Skip(p[1]) THEN p[2] ELSE Append(p[2], dq[p[1]].task)]
           Loop(f) == [i \in 0 .. n |->
                          IF i = 0 THEN SelectedQueue
                          ELSE IF Skip(i) THEN f[i - 1] ELSE Append(f[i - 1], dq[i].task)]
<1>1. SelectedQueue \in Seq(Tasks) /\ n \in Nat
  BY SelectionType
<1>2. \A i \in 1 .. n : dq[i].task \in Tasks
  <2>1. \A i \in 1 .. n : dq[i] \in DeltaElements OBVIOUS
  <2> QED BY <2>1 DEF DeltaElements
<1>3. step \in [(1 .. n) \X Seq(Tasks) -> Seq(Tasks)]
  <2> HIDE DEF Skip
  <2> QED BY <1>2
<1>4. PICK f : Iterates(f, n, Seq(Tasks), SelectedQueue, step)
  <2> HIDE DEF n, step
  <2> QED BY <1>1, <1>3, Recursion
<1> HIDE DEF Skip
<1>5. f \in [0 .. n -> Seq(Tasks)] /\ f[0] = SelectedQueue
  BY <1>4 DEF Iterates
<1>6. ASSUME NEW i \in 1 .. n
      PROVE  f[i] = IF Skip(i) THEN f[i - 1] ELSE Append(f[i - 1], dq[i].task)
  <2>1. f[i - 1] \in Seq(Tasks) BY <1>5
  <2>2. <<i, f[i - 1]>> \in (1 .. n) \X Seq(Tasks) BY <2>1
  <2>3. step[<<i, f[i - 1]>>] = IF Skip(i) THEN f[i - 1] ELSE Append(f[i - 1], dq[i].task)
    BY <2>2
  <2> QED BY <1>4, <2>3 DEF Iterates
<1>7. f = Loop(f)
  <2>1. ASSUME NEW i \in 0 .. n PROVE f[i] = Loop(f)[i]
    <3>1. CASE i = 0 BY <1>5, <3>1
    <3>2. CASE i # 0
      <4>1. i \in 1 .. n BY SMTT(30), <3>2
      <4> QED BY <1>6, <4>1
    <3> QED BY <3>1, <3>2
  <2> QED BY <1>5, <2>1
<1>8. Handled(dq) = Loop(Handled(dq))
  BY <1>7 DEF Handled, Skip
<1> DEFINE h == Handled(dq)
<1>9. ASSUME NEW i \in 1 .. n
      PROVE  h[i] = IF Skip(i) THEN h[i - 1] ELSE Append(h[i - 1], dq[i].task)
  <2>1. i \in 0 .. n /\ i # 0 OBVIOUS
  <2>2. Loop(h)[i] = IF Skip(i) THEN h[i - 1] ELSE Append(h[i - 1], dq[i].task)
    <3> HIDE DEF h
    <3> QED BY <2>1
  <2>3. h = Loop(h) BY <1>8
  <2> QED BY <2>2, <2>3
<1>10. h[0] = SelectedQueue
  BY <1>8, <1>1
<1>11. DOMAIN h = 0 .. n
  BY <1>8
<1> DEFINE G == {i \in 0 .. n : h[i] \in Seq(Tasks)}
<1>12. 0 .. n \subseteq G
  <2> HIDE DEF h
  <2>1. 0 \in G BY <1>1, <1>10
  <2>2. ASSUME NEW i \in 1 .. n, i - 1 \in G PROVE i \in G
    <3>1. h[i - 1] \in Seq(Tasks) /\ dq[i].task \in Tasks BY <1>2, <2>2
    <3>2. Append(h[i - 1], dq[i].task) \in Seq(Tasks) BY <3>1
    <3>3. h[i] \in Seq(Tasks) BY <1>9, <3>1, <3>2
    <3> QED BY <3>3
  <2> HIDE DEF G, n
  <2> QED BY <1>1, <2>1, <2>2, IndexInduction
<1>13. h \in [0 .. n -> Seq(Tasks)]
  <2>1. h = [i \in 0 .. n |-> h[i]]
    <3> HIDE DEF n
    <3> QED BY <1>8
  <2> HIDE DEF h
  <2> QED BY <1>12, <2>1
<1> QED BY <1>9, <1>10, <1>13 DEF Skip

\* PushWoken is the last of those steps.
LEMMA PushWokenType ==
    ASSUME TypeOK, NEW dq \in Seq(DeltaElements)
    PROVE  PushWoken(dq) \in Seq(Tasks)
BY HandledSteps, ExpiredPrefix DEF PushWoken

-----------------------------------------------------------------------------
(* What sleep() links in.                                                    *)

\* How what is left of n shrinks along the delta queue.
LEMMA RemainingSteps ==
    ASSUME TypeOK, NEW n \in Nat
    PROVE  /\ Remaining(n) \in [0 .. Len(deltaQueue) -> Int]
           /\ Remaining(n)[0] = n
           /\ \A i \in 1 .. Len(deltaQueue) :
                 Remaining(n)[i] = Remaining(n)[i - 1] - deltaQueue[i].ticks
<1> DEFINE m == Len(deltaQueue)
           step == [p \in (1 .. m) \X Int |-> p[2] - deltaQueue[p[1]].ticks]
           Walk(f) == [i \in 0 .. m |-> IF i = 0 THEN n ELSE f[i - 1] - deltaQueue[i].ticks]
<1>1. m \in Nat /\ n \in Int
  BY DEF TypeOK
<1>2. \A i \in 1 .. m : deltaQueue[i].ticks \in Int
  <2>1. \A i \in 1 .. m : deltaQueue[i] \in DeltaElements BY DEF TypeOK
  <2> QED BY <2>1 DEF DeltaElements
<1>3. step \in [(1 .. m) \X Int -> Int]
  BY <1>2
<1>4. PICK f : Iterates(f, m, Int, n, step)
  <2> HIDE DEF m, step
  <2> QED BY <1>1, <1>3, Recursion
<1>5. f \in [0 .. m -> Int] /\ f[0] = n
  BY <1>4 DEF Iterates
<1>6. ASSUME NEW i \in 1 .. m PROVE f[i] = f[i - 1] - deltaQueue[i].ticks
  <2>1. <<i, f[i - 1]>> \in (1 .. m) \X Int BY <1>5
  <2>2. step[<<i, f[i - 1]>>] = f[i - 1] - deltaQueue[i].ticks BY <2>1
  <2> QED BY <1>4, <2>2 DEF Iterates
<1>7. f = Walk(f)
  <2>1. ASSUME NEW i \in 0 .. m PROVE f[i] = Walk(f)[i]
    <3>1. CASE i = 0 BY <1>5, <3>1
    <3>2. CASE i # 0
      <4>1. i \in 1 .. m BY <3>2
      <4> QED BY <1>6, <4>1
    <3> QED BY <3>1, <3>2
  <2> QED BY <1>5, <2>1
<1> DEFINE left == Remaining(n)
<1>8. left = Walk(left)
  BY <1>7 DEF Remaining
<1>9. ASSUME NEW i \in 1 .. m PROVE left[i] = left[i - 1] - deltaQueue[i].ticks
  <2>1. i \in 0 .. m /\ i # 0 OBVIOUS
  <2>2. Walk(left)[i] = left[i - 1] - deltaQueue[i].ticks
    <3> HIDE DEF left
    <3> QED BY <2>1
  <2> QED BY <1>8, <2>2
<1>10. left[0] = n
  BY <1>8, <1>1
<1> DEFINE G == {i \in 0 .. m : left[i] \in Int}
<1>11. 0 .. m \subseteq G
  <2> HIDE DEF left
  <2>1. 0 \in G BY <1>1, <1>10
  <2>2. ASSUME NEW i \in 1 .. m, i - 1 \in G PROVE i \in G
    <3>1. left[i - 1] \in Int /\ deltaQueue[i].ticks \in Int BY <1>2, <2>2
    <3> QED BY <1>9, <3>1
  <2> HIDE DEF G, m
  <2> QED BY <1>1, <2>1, <2>2, IndexInduction
<1>12. left \in [0 .. m -> Int]
  <2>1. left = [i \in 0 .. m |-> left[i]]
    <3> HIDE DEF m
    <3> QED BY <1>8
  <2> HIDE DEF left
  <2> QED BY <1>11, <2>1
<1> QED BY <1>9, <1>10, <1>12

\* Where the walk ends, and that what is left there is a number of ticks below
\* those of the next element.
LEMMA WalkEndFound ==
    ASSUME TypeOK, NEW n \in Nat
    PROVE  LET left == Remaining(n)
               p    == WalkEnd(left)
           IN  /\ p \in 0 .. Len(deltaQueue)
               /\ left[p] \in Nat
               /\ p < Len(deltaQueue) => left[p] < deltaQueue[p + 1].ticks
<1> DEFINE m == Len(deltaQueue)
           left == Remaining(n)
           p == WalkEnd(left)
           Stops == {i \in 1 .. m : ~WalkPasses(left, i)}
<1>1. /\ m \in Nat /\ left \in [0 .. m -> Int] /\ left[0] = n
      /\ \A i \in 1 .. m : left[i] = left[i - 1] - deltaQueue[i].ticks
  BY RemainingSteps DEF TypeOK
<1>2. \A i \in 1 .. m : deltaQueue[i].ticks \in Int
  <2>1. \A i \in 1 .. m : deltaQueue[i] \in DeltaElements BY DEF TypeOK
  <2> QED BY <2>1 DEF DeltaElements
<1> HIDE DEF left
<1>3. \E q \in 0 .. m : /\ \A i \in 1 .. q : WalkPasses(left, i)
                        /\ q < m => ~WalkPasses(left, q + 1)
  <2>1. CASE Stops = {}
    <3>1. \A i \in 1 .. m : WalkPasses(left, i) BY <2>1
    <3> QED BY <1>1, <3>1
  <2>2. CASE Stops # {}
    <3>1. Stops \in SUBSET Nat OBVIOUS
    <3>2. PICK k \in Stops : \A j \in Stops : k <= j
      BY <2>2, <3>1, LeastNatural
    <3>3. k - 1 \in 0 .. m /\ k - 1 + 1 = k BY <3>2
    <3>4. \A i \in 1 .. k - 1 : WalkPasses(left, i) BY <3>2
    <3> QED BY <3>2, <3>3, <3>4
  <2> QED BY <2>1, <2>2
<1>4. /\ p \in 0 .. m
      /\ \A i \in 1 .. p : WalkPasses(left, i)
      /\ p < m => ~WalkPasses(left, p + 1)
  BY <1>3 DEF WalkEnd
<1> HIDE DEF p
<1>5. left[p] \in Nat
  <2>1. CASE p = 0 BY <1>1, <2>1
  <2>2. CASE p # 0
    <3>1. p \in 1 .. m /\ p \in 1 .. p BY <1>1, <1>4, <2>2
    <3>2. left[p - 1] >= deltaQueue[p].ticks BY <1>4, <3>1 DEF WalkPasses
    <3>3. left[p] = left[p - 1] - deltaQueue[p].ticks BY <1>1, <3>1
    <3>4. p - 1 \in 0 .. m BY <1>1, <3>1
    <3>5. left[p - 1] \in Int /\ deltaQueue[p].ticks \in Int BY <1>1, <1>2, <3>1, <3>4
    <3> QED BY <3>2, <3>3, <3>5
  <2> QED BY <2>1, <2>2
<1>6. ASSUME p < m PROVE left[p] < deltaQueue[p + 1].ticks
  <2>1. p + 1 \in 1 .. m /\ p + 1 - 1 = p BY <1>1, <1>4, <1>6
  <2>2. ~(left[p] >= deltaQueue[p + 1].ticks) BY <1>4, <1>6, <2>1 DEF WalkPasses
  <2>3. deltaQueue[p + 1].ticks \in Int BY <1>2, <2>1
  <2> QED BY <1>5, <2>2, <2>3
<1> QED BY <1>4, <1>5, <1>6 DEF p, left

\* The delta queue after sleep() is one.
LEMMA InsertedType ==
    ASSUME TypeOK, NEW t \in Tasks, NEW n \in Nat
    PROVE  Inserted(t, n) \in Seq(DeltaElements)
<1> DEFINE m == Len(deltaQueue)
           left == Remaining(n)
           p == WalkEnd(left)
<1>1. /\ p \in 0 .. m
      /\ left[p] \in Nat
      /\ p < m => left[p] < deltaQueue[p + 1].ticks
  BY WalkEndFound
<1>2. m \in Nat /\ \A i \in 1 .. m : deltaQueue[i] \in DeltaElements
  BY DEF TypeOK
<1> HIDE DEF p, left
<1>3. ASSUME NEW i \in 1 .. m + 1 PROVE Inserted(t, n)[i] \in DeltaElements
  <2>1. CASE i <= p
    <3>1. Inserted(t, n)[i] = deltaQueue[i] BY <2>1 DEF Inserted, p, left
    <3> QED BY <1>1, <1>2, <2>1, <3>1
  <2>2. CASE i = p + 1
    <3>1. Inserted(t, n)[i] = [task |-> t, ticks |-> left[p]]
      BY <1>1, <2>2 DEF Inserted, p, left
    <3> QED BY <1>1, <3>1 DEF DeltaElements
  <2>3. CASE i = p + 2
    <3>1. Inserted(t, n)[i] = [deltaQueue[i - 1] EXCEPT !.ticks = @ - left[p]]
      BY <1>1, <2>3 DEF Inserted, p, left
    <3>2. deltaQueue[i - 1] \in DeltaElements /\ left[p] < deltaQueue[i - 1].ticks
      BY <1>1, <1>2, <2>3
    <3>3. deltaQueue[i - 1].ticks - left[p] \in Nat
      BY <1>1, <3>2 DEF DeltaElements
    <3> QED BY <3>1, <3>2, <3>3 DEF DeltaElements
  <2>4. CASE i > p + 2
    <3>1. Inserted(t, n)[i] = deltaQueue[i - 1] BY <1>1, <2>4 DEF Inserted, p, left
    <3> QED BY <1>1, <1>2, <2>4, <3>1
  <2> QED BY <1>1, <2>1, <2>2, <2>3, <2>4
<1>4. DOMAIN Inserted(t, n) = 1 .. m + 1 /\ Inserted(t, n) = [i \in 1 .. m + 1 |-> Inserted(t, n)[i]]
  BY DEF Inserted
<1>5. Inserted(t, n) \in [1 .. m + 1 -> DeltaElements]
  <2> DEFINE ins == Inserted(t, n)
  <2> HIDE DEF ins
  <2> QED BY <1>3, <1>4 DEF ins
<1> QED BY <1>2, <1>5, SeqDef

-----------------------------------------------------------------------------
(* Type correctness.                                                         *)

\* A tick leaves delta-queue elements.
LEMMA TickedDeltaType ==
    ASSUME TypeOK
    PROVE  TickedDelta \in Seq(DeltaElements)
<1> DEFINE m == Len(deltaQueue)
<1>1. m \in Nat /\ DOMAIN deltaQueue = 1 .. m /\ \A i \in 1 .. m : deltaQueue[i] \in DeltaElements
  BY DEF TypeOK
<1>2. ASSUME NEW i \in 1 .. m PROVE TickedDelta[i] \in DeltaElements
  <2>1. deltaQueue[i].ticks # 0 => deltaQueue[i].ticks - 1 \in Nat
    BY <1>1 DEF DeltaElements
  <2>2. \/ TickedDelta[i] = deltaQueue[i]
        \/ /\ deltaQueue[i].ticks # 0
           /\ TickedDelta[i] = [deltaQueue[i] EXCEPT !.ticks = @ - 1]
    BY <1>1 DEF TickedDelta
  <2> QED BY <1>1, <2>1, <2>2 DEF DeltaElements
<1>3. TickedDelta \in [1 .. m -> DeltaElements]
  <2> DEFINE td == TickedDelta
  <2>1. td = [i \in 1 .. m |-> td[i]] BY <1>1 DEF TickedDelta
  <2> HIDE DEF td
  <2> QED BY <1>2, <2>1 DEF td
<1> QED BY <1>1, <1>3, SeqDef

\* scheduler() and the switch keep the types.
LEMMA RunSchedulerType ==
    ASSUME TypeOK, NEW dq \in Seq(DeltaElements), NEW savedFlag \in BOOLEAN,
           RunScheduler(dq, savedFlag)
    PROVE  /\ taskQueue' \in Seq(Tasks)
           /\ onTaskQueue' \in [AllTasks -> BOOLEAN]
           /\ isBlocking' \in [AllTasks -> BOOLEAN]
           /\ deltaQueue' \in Seq(DeltaElements)
           /\ current' \in AllTasks
           /\ savedIF' \in [AllTasks -> BOOLEAN]
           /\ intr' \in InterruptState
<1>1. taskQueue' \in Seq(Tasks)
  BY PushWokenType DEF RunScheduler
<1>2. onTaskQueue' \in [AllTasks -> BOOLEAN] /\ isBlocking' \in [AllTasks -> BOOLEAN]
  BY SelectionType DEF RunScheduler, TypeOK
<1>3. deltaQueue' \in Seq(DeltaElements)
  BY ExpiredPrefix DEF RunScheduler
<1>4. current' \in AllTasks /\ savedIF' \in [AllTasks -> BOOLEAN]
  BY SelectionType DEF RunScheduler, SwitchTask, TypeOK
<1>5. intr' \in InterruptState
  <2>1. savedIF'[NextTask] \in BOOLEAN BY <1>4, SelectionType
  <2>2. intr' = [counter |-> 0, enabled |-> savedIF'[NextTask]]
    BY DEF RunScheduler, SwitchTask, ReturnFromInterrupt
  <2> QED BY <2>1, <2>2 DEF InterruptState
<1> QED BY <1>1, <1>2, <1>3, <1>4, <1>5

\* The interrupt state stays one.
LEMMA InterruptStateType ==
    ASSUME NEW s \in InterruptState
    PROVE  /\ DisableInterrupts(s) \in InterruptState
           /\ EnableInterrupts(s) \in InterruptState
           /\ ProtectedSection(s) \in InterruptState
           /\ ReturnFromInterrupt(TRUE) \in InterruptState
<1>1. ASSUME NEW r \in InterruptState PROVE EnableInterrupts(r) \in InterruptState
  <2>1. r.counter \in Nat /\ r.enabled \in BOOLEAN BY DEF InterruptState
  <2> DEFINE left == IF r.counter > 0 THEN r.counter - 1 ELSE 0
  <2>2. left \in Nat BY <2>1
  <2>3. CASE left = 0
    <3>1. EnableInterrupts(r) = [counter |-> left, enabled |-> TRUE]
      BY <2>3 DEF EnableInterrupts
    <3> QED BY <2>2, <3>1 DEF InterruptState
  <2>4. CASE left # 0
    <3>1. EnableInterrupts(r) = [counter |-> left, enabled |-> r.enabled]
      BY <2>4 DEF EnableInterrupts
    <3> HIDE DEF left
    <3> QED BY <2>1, <2>2, <3>1 DEF InterruptState
  <2> QED BY <2>3, <2>4
<1>2. DisableInterrupts(s) \in InterruptState
  BY DEF InterruptState, DisableInterrupts
<1>3. ReturnFromInterrupt(TRUE) \in InterruptState
  BY DEF InterruptState, ReturnFromInterrupt
<1> QED BY <1>1, <1>2, <1>3 DEF ProtectedSection

\* Every step keeps the types.
LEMMA TypeStep ==
    ASSUME TypeOK, [Next]_vars
    PROVE  TypeOK'
<1>1. /\ Main \in AllTasks /\ Idle \in AllTasks /\ Tasks \subseteq AllTasks
      /\ Workers \subseteq Tasks /\ Main \in Tasks
  BY DEF AllTasks, Tasks
<1>2. CASE TickWithoutSwitch
  <2>1. schedulerTime' \in 0 .. TIME_SLICE_IN_TICKS
    BY <1>2 DEF TickWithoutSwitch, TickedTime, TypeOK, TIME_SLICE_IN_TICKS
  <2>2. deltaQueue' \in Seq(DeltaElements)
    BY <1>2, TickedDeltaType DEF TickWithoutSwitch
  <2>3. due' \in [AllTasks -> Nat]
    BY <1>2 DEF TickWithoutSwitch, PassTick, TypeOK
  <2>4. intr' \in InterruptState
    BY <1>2, InterruptStateType DEF TickWithoutSwitch, TypeOK
  <2> QED BY <1>2, <2>1, <2>2, <2>3, <2>4 DEF TickWithoutSwitch, TypeOK
<1>3. CASE TickWithSwitch
  <2>1. due' \in [AllTasks -> Nat]
    BY <1>3 DEF TickWithSwitch, PassTick, TypeOK
  <2>2. RunScheduler(TickedDelta, TRUE) /\ TickedDelta \in Seq(DeltaElements)
    BY <1>3, TickedDeltaType DEF TickWithSwitch
  <2>3. schedulerTime' \in 0 .. TIME_SLICE_IN_TICKS
    BY <1>3 DEF TickWithSwitch, TIME_SLICE_IN_TICKS
  <2>4. UNCHANGED <<running, pc, depth>>
    BY <1>3 DEF TickWithSwitch
  <2> QED BY <2>1, <2>2, <2>3, <2>4, RunSchedulerType DEF TypeOK
<1>4. CASE SchedulerStart
  BY <1>4 DEF SchedulerStart, TypeOK, queueVars, cpuVars
<1>5. ASSUME NEW t \in Tasks, NEW n \in 0 .. MaxSleep, Sleep(t, n)
      PROVE  TypeOK'
  <2>1. n \in Nat /\ t \in AllTasks
    BY <1>1, <1>5, BoundAssumption
  <2>2. deltaQueue' \in Seq(DeltaElements)
    BY <1>5, <2>1, InsertedType DEF Sleep
  <2>3. intr' \in InterruptState
    BY <1>5, InterruptStateType DEF Sleep, TypeOK
  <2>4. /\ isBlocking' \in [AllTasks -> BOOLEAN] /\ due' \in [AllTasks -> Nat]
        /\ pc' \in [AllTasks -> Locations]
    BY <1>5, <2>1 DEF Sleep, TypeOK, Locations
  <2> QED BY <1>5, <2>2, <2>3, <2>4 DEF Sleep, TypeOK
<1>6. ASSUME NEW t \in Tasks, RaiseInterrupt0x80(t)
      PROVE  TypeOK'
  <2>1. RunScheduler(deltaQueue, intr.enabled) /\ deltaQueue \in Seq(DeltaElements)
        /\ intr.enabled \in BOOLEAN
    BY <1>6 DEF RaiseInterrupt0x80, TypeOK, InterruptState
  <2>2. pc' \in [AllTasks -> Locations]
    BY <1>6 DEF RaiseInterrupt0x80, TypeOK, Locations
  <2>3. UNCHANGED <<schedulerTime, running, depth, due>>
    BY <1>6 DEF RaiseInterrupt0x80
  <2> QED BY <2>1, <2>2, <2>3, RunSchedulerType DEF TypeOK
<1>7. ASSUME NEW t \in Tasks, EnterCritical(t) \/ LeaveCritical(t)
      PROVE  TypeOK'
  <2>1. intr' \in InterruptState
    BY <1>7, InterruptStateType DEF EnterCritical, LeaveCritical, TypeOK
  <2>2. depth' \in [AllTasks -> Nat]
    BY <1>7 DEF EnterCritical, LeaveCritical, TypeOK
  <2> QED BY <1>7, <2>1, <2>2 DEF EnterCritical, LeaveCritical, TypeOK, queueVars
<1>8. ASSUME NEW t \in Workers, TaskCreate(t)
      PROVE  TypeOK'
  <2>1. intr' \in InterruptState
    BY <1>8, InterruptStateType DEF TaskCreate, TypeOK
  <2>2. taskQueue' \in Seq(Tasks)
    BY <1>1, <1>8 DEF TaskCreate, TypeOK
  <2>3. onTaskQueue' \in [AllTasks -> BOOLEAN] /\ pc' \in [AllTasks -> Locations]
    BY <1>8 DEF TaskCreate, TypeOK, Locations
  <2> QED BY <1>8, <2>1, <2>2, <2>3 DEF TaskCreate, TypeOK
<1>9. CASE UNCHANGED vars
  BY <1>9 DEF vars, queueVars, cpuVars, TypeOK
<1> QED BY <1>2, <1>3, <1>4, <1>5, <1>6, <1>7, <1>8, <1>9 DEF Next, Tick

\* The initial state is well typed.
LEMMA TypeInit == Init => TypeOK
<1> SUFFICES ASSUME Init PROVE TypeOK
  OBVIOUS
<1>1. taskQueue \in Seq(Tasks) /\ deltaQueue \in Seq(DeltaElements)
  BY DEF Init, Tasks
<1>2. intr \in InterruptState
  BY BoundAssumption DEF Init, InterruptState
<1>3. pc \in [AllTasks -> Locations]
  BY DEF Init, Locations
<1> QED BY <1>1, <1>2, <1>3 DEF Init, TypeOK, AllTasks, Tasks

\* Type correctness of the scheduler: queues hold tasks, delta-queue ticks never
\* fall below 0, the time slice stays in its range and the counter in Nat.
THEOREM TypeCorrect == Spec => []TypeOK
<1>1. TypeOK /\ [Next]_vars => TypeOK'
  BY TypeStep
<1> QED BY TypeInit, <1>1, PTL DEF Spec

-----------------------------------------------------------------------------
(* The task queue.                                                           *)

Elems(s)    == {s[i] : i \in DOMAIN s}
Distinct(s) == \A i, j \in DOMAIN s : s[i] = s[j] => i = j

\* The elements of the queue after the selection, one by one.
LEMMA SelectedElements ==
    ASSUME TypeOK, ReadyPositions # {}
    PROVE  LET n == Len(taskQueue) - FirstReady + 1
           IN  /\ FirstReady \in 1 .. Len(taskQueue)
               /\ DOMAIN SelectedQueue = 1 .. n
               /\ SelectedQueue[n] = taskQueue[FirstReady]
               /\ \A i \in 1 .. n - 1 : SelectedQueue[i] = taskQueue[FirstReady + i]
<1> DEFINE f == FirstReady
           L == Len(taskQueue)
           rest == SubSeq(taskQueue, f + 1, L)
<1>1. f \in 1 .. L /\ L \in Nat /\ NextTask = taskQueue[f]
  BY SMTT(30), FirstReadyLeast DEF ReadyPositions, TypeOK, NextTask
<1>2. rest \in Seq(Tasks) /\ Len(rest) = L - f /\ \A i \in 1 .. L - f : rest[i] = taskQueue[f + i]
  BY <1>1 DEF TypeOK
<1>3. SelectedQueue = Append(rest, taskQueue[f])
  BY <1>1 DEF SelectedQueue
<1> HIDE DEF rest, f
<1>4. taskQueue[f] \in Tasks
  BY <1>1 DEF TypeOK
<1>5. /\ DOMAIN SelectedQueue = 1 .. L - f + 1
      /\ SelectedQueue[L - f + 1] = taskQueue[f]
      /\ \A i \in 1 .. L - f : SelectedQueue[i] = taskQueue[f + i]
  BY <1>1, <1>2, <1>3, <1>4
<1> QED BY <1>1, <1>5 DEF f

\* The selection drops only blocking tasks, keeps the queue free of duplicates
\* and the flags true to it.
LEMMA SelectionQueue ==
    ASSUME TypeOK, QueueConsistent
    PROVE  /\ Distinct(SelectedQueue)
           /\ \A t \in AllTasks : SelectedFlags[t] <=> t \in Elems(SelectedQueue)
           /\ Elems(SelectedQueue) \subseteq Queued
           /\ \A t \in Queued : ~isBlocking[t] => t \in Elems(SelectedQueue)
           /\ ReadyPositions # {} => NextTask \in Queued /\ ~isBlocking[NextTask]
<1>1. CASE ReadyPositions = {}
  <2>1. SelectedQueue = <<>> /\ NextTask = Idle BY <1>1 DEF SelectedQueue, NextTask
  <2>2. Elems(SelectedQueue) = {} /\ Distinct(SelectedQueue) BY <2>1 DEF Elems, Distinct
  <2>3. \A i \in DOMAIN taskQueue : isBlocking[taskQueue[i]] BY <1>1 DEF ReadyPositions
  <2>4. ASSUME NEW t \in AllTasks PROVE ~SelectedFlags[t]
    <3>1. CASE t = Idle BY <1>1, <2>1, <3>1 DEF SelectedFlags
    <3>2. CASE t # Idle
      <4>1. SelectedFlags[t] = (onTaskQueue[t] /\ \A i \in DOMAIN taskQueue : taskQueue[i] # t)
        BY <1>1, <2>1, <3>2 DEF SelectedFlags
      <4> QED BY <4>1 DEF QueueConsistent, Queued
    <3> QED BY <3>1, <3>2
  <2> QED BY <1>1, <2>2, <2>3, <2>4 DEF Queued
<1>2. CASE ReadyPositions # {}
  <2> DEFINE f == FirstReady
             L == Len(taskQueue)
             n == L - f + 1
  <2>1. /\ f \in 1 .. L /\ L \in Nat /\ n \in Nat /\ DOMAIN taskQueue = 1 .. L
        /\ DOMAIN SelectedQueue = 1 .. n
        /\ SelectedQueue[n] = taskQueue[f]
        /\ \A i \in 1 .. n - 1 : SelectedQueue[i] = taskQueue[f + i]
    BY SMTT(30), <1>2, SelectedElements DEF TypeOK
  <2>2. /\ f \in ReadyPositions
        /\ \A j \in ReadyPositions : f <= j
        /\ NextTask = taskQueue[f]
    BY <1>2, FirstReadyLeast DEF NextTask
  <2> HIDE DEF f
  <2>range. f \in 1 .. L /\ L \in Nat /\ n \in Nat /\ n \in 1 .. n
    BY <2>1
  <2>3. \A i, j \in 1 .. L : taskQueue[i] = taskQueue[j] => i = j
    BY <2>1 DEF QueueConsistent
  <2>4. Distinct(SelectedQueue)
    <3> SUFFICES ASSUME NEW i \in 1 .. n, NEW j \in 1 .. n, SelectedQueue[i] = SelectedQueue[j]
                 PROVE  i = j
      BY <2>1 DEF Distinct
    <3> DEFINE at(k) == IF k = n THEN f ELSE f + k
    <3>1. ASSUME NEW k \in 1 .. n
          PROVE  SelectedQueue[k] = taskQueue[at(k)] /\ at(k) \in 1 .. L
      <4>1. CASE k = n BY <2>1, <2>range, <4>1
      <4>2. CASE k # n
        <5>1. k \in 1 .. n - 1 /\ f + k \in 1 .. L BY <2>range, <4>2
        <5> QED BY <2>1, <4>2, <5>1
      <4> QED BY <4>1, <4>2
    <3>2. at(i) = at(j)
      <4> HIDE DEF at
      <4> QED BY <2>3, <3>1
    <3> QED BY <2>range, <3>2
  <2>5. ASSUME NEW i \in f .. L PROVE taskQueue[i] \in Elems(SelectedQueue)
    <3>1. CASE i = f BY <2>1, <3>1 DEF Elems
    <3>2. CASE i # f
      <4>1. i - f \in 1 .. n - 1 /\ i - f \in 1 .. n /\ f + (i - f) = i BY <2>1, <3>2
      <4>2. SelectedQueue[i - f] = taskQueue[i] BY <2>1, <4>1
      <4> QED BY <2>1, <4>1, <4>2 DEF Elems
    <3> QED BY <3>1, <3>2
  <2>6. ASSUME NEW t \in Elems(SelectedQueue) PROVE \E i \in f .. L : taskQueue[i] = t
    <3>1. PICK k \in 1 .. n : SelectedQueue[k] = t BY <2>1 DEF Elems
    <3>2. CASE k = n BY <2>1, <3>1, <3>2
    <3>3. CASE k # n
      <4>1. k \in 1 .. n - 1 /\ f + k \in f .. L BY <2>range, <3>3
      <4> QED BY <2>1, <3>1, <4>1
    <3> QED BY <3>2, <3>3
  <2>7. ASSUME NEW t \in AllTasks PROVE SelectedFlags[t] <=> t \in Elems(SelectedQueue)
    <3>1. CASE t = NextTask
      <4>1. SelectedFlags[t] BY <1>2, <3>1 DEF SelectedFlags
      <4>2. t \in Elems(SelectedQueue) BY <2>1, <2>2, <2>5, <3>1
      <4> QED BY <4>1, <4>2
    <3>2. CASE t # NextTask
      <4>1. SelectedFlags[t] <=> (onTaskQueue[t] /\ \A i \in 1 .. f : taskQueue[i] # t)
        BY <1>2, <3>2 DEF SelectedFlags, f
      <4>2. onTaskQueue[t] <=> \E i \in 1 .. L : taskQueue[i] = t
        BY <2>1 DEF QueueConsistent, Queued
      <4>3. ASSUME SelectedFlags[t] PROVE t \in Elems(SelectedQueue)
        <5>1. PICK i \in 1 .. L : taskQueue[i] = t BY <4>1, <4>2, <4>3
        <5>2. i \in f .. L BY <2>1, <4>1, <4>3, <5>1
        <5> QED BY <2>5, <5>1, <5>2
      <4>4. ASSUME t \in Elems(SelectedQueue) PROVE SelectedFlags[t]
        <5>1. PICK i \in f .. L : taskQueue[i] = t BY <2>6, <4>4
        <5>2. i # f BY <2>2, <3>2, <5>1
        <5>3. \A k \in 1 .. f : taskQueue[k] # t BY <2>1, <2>3, <5>1, <5>2
        <5> QED BY <2>1, <4>1, <4>2, <5>1, <5>3
      <4> QED BY <4>3, <4>4
    <3> QED BY <3>1, <3>2
  <2>8. Elems(SelectedQueue) \subseteq Queued
    <3> SUFFICES ASSUME NEW t \in Elems(SelectedQueue) PROVE t \in Queued
      OBVIOUS
    <3>1. PICK i \in f .. L : taskQueue[i] = t BY <2>6
    <3> QED BY <2>1, <3>1 DEF Queued
  <2>9. ASSUME NEW t \in Queued, ~isBlocking[t] PROVE t \in Elems(SelectedQueue)
    <3>1. PICK i \in 1 .. L : taskQueue[i] = t BY <2>1 DEF Queued
    <3>2. i \in ReadyPositions BY <2>1, <2>9, <3>1 DEF ReadyPositions
    <3>3. i \in f .. L BY <2>1, <2>2, <3>2
    <3> QED BY <2>5, <3>1, <3>3
  <2>10. NextTask \in Queued /\ ~isBlocking[NextTask]
    BY <2>1, <2>2 DEF Queued, ReadyPositions
  <2> QED BY <2>4, <2>7, <2>8, <2>9, <2>10
<1> QED BY <1>1, <1>2

\* Draining adds the woken tasks that the flag does not show as queued, once.
LEMMA PushWokenQueue ==
    ASSUME TypeOK, QueueConsistent, NEW dq \in Seq(DeltaElements)
    PROVE  /\ Distinct(PushWoken(dq))
           /\ Elems(PushWoken(dq)) = Elems(SelectedQueue) \cup Woken(dq)
<1> DEFINE n == Len(dq)
           h == Handled(dq)
           Seen(i) == Elems(SelectedQueue) \cup {dq[j].task : j \in 1 .. i}
           G == {i \in 0 .. n : Distinct(h[i]) /\ Elems(h[i]) = Seen(i)}
<1>1. /\ n \in Nat /\ h \in [0 .. n -> Seq(Tasks)] /\ h[0] = SelectedQueue
      /\ \A i \in 1 .. n :
            h[i] = IF SelectedFlags[dq[i].task] \/ \E j \in 1 .. i - 1 : dq[j].task = dq[i].task
                   THEN h[i - 1] ELSE Append(h[i - 1], dq[i].task)
  BY HandledSteps
<1>2. \A i \in 1 .. n : dq[i].task \in Tasks
  <2>1. \A i \in 1 .. n : dq[i] \in DeltaElements OBVIOUS
  <2> QED BY <2>1 DEF DeltaElements
<1> HIDE DEF h
<1>3. 0 \in G
  BY <1>1, SelectionQueue
<1>4. ASSUME NEW i \in 1 .. n, i - 1 \in G PROVE i \in G
  <2> DEFINE t == dq[i].task
             q == h[i - 1]
  <2>1. q \in Seq(Tasks) /\ Distinct(q) /\ Elems(q) = Seen(i - 1) /\ t \in Tasks
    BY <1>1, <1>2, <1>4
  <2>2. Seen(i) = Seen(i - 1) \cup {t}
    <3>1. 1 .. i = (1 .. i - 1) \cup {i} OBVIOUS
    <3> QED BY <3>1
  <2>3. SelectedFlags[t] \/ (\E j \in 1 .. i - 1 : dq[j].task = t) <=> t \in Seen(i - 1)
    <3>1. SelectedFlags[t] <=> t \in Elems(SelectedQueue)
      BY <2>1, SelectionQueue DEF AllTasks
    <3> QED BY <3>1
  <2>4. CASE t \in Seen(i - 1)
    <3>1. h[i] = q BY <1>1, <2>3, <2>4
    <3> QED BY <2>1, <2>2, <2>4, <3>1
  <2>5. CASE t \notin Seen(i - 1)
    <3>1. h[i] = Append(q, t) BY <1>1, <2>3, <2>5
    <3> HIDE DEF q, t
    <3>2. /\ DOMAIN h[i] = 1 .. Len(q) + 1 /\ DOMAIN q = 1 .. Len(q) /\ Len(q) \in Nat
          /\ h[i][Len(q) + 1] = t
          /\ \A k \in 1 .. Len(q) : h[i][k] = q[k]
      BY <2>1, <3>1
    <3>3. Elems(h[i]) = Elems(q) \cup {t}
      BY <3>2 DEF Elems
    <3>4. Distinct(h[i])
      <4>1. \A k \in 1 .. Len(q) : q[k] # t
        BY <2>1, <2>5, <3>2 DEF Elems
      <4> QED BY SMTT(30), <2>1, <3>2, <4>1 DEF Distinct
    <3> QED BY <2>1, <2>2, <3>3, <3>4
  <2> QED BY <2>4, <2>5
<1>5. 0 .. n \subseteq G
  <2> HIDE DEF G, n
  <2> QED BY <1>1, <1>3, <1>4, IndexInduction
<1>6. NumExpired(dq) \in 0 .. n /\ Woken(dq) = {dq[j].task : j \in 1 .. NumExpired(dq)}
  BY ExpiredPrefix DEF Woken
<1> QED BY <1>5, <1>6 DEF PushWoken, h

-----------------------------------------------------------------------------
(* The delta queue.                                                          *)

\* The ticks that the elements up to i stand for.
Upto(dq, d, i) == IF i = 0 THEN 0 ELSE d[dq[i].task]

\* In an exact delta queue the expired elements are those of the tasks with
\* nothing left to sleep.
LEMMA ExpiredMeansDue ==
    ASSUME NEW dq \in Seq(DeltaElements), NEW d \in [AllTasks -> Nat], ExactFor(dq, d)
    PROVE  /\ \A i \in 1 .. Len(dq) : dq[i].ticks = Upto(dq, d, i) - Upto(dq, d, i - 1)
           /\ \A i \in 0 .. Len(dq) : Upto(dq, d, i) \in Nat
           /\ \A i \in 0 .. Len(dq) :
                 (\A j \in 1 .. i : dq[j].ticks = 0) <=> Upto(dq, d, i) = 0
<1> DEFINE n == Len(dq)
           D(i) == Upto(dq, d, i)
           G == {i \in 0 .. n : (\A j \in 1 .. i : dq[j].ticks = 0) <=> D(i) = 0}
<1>1. n \in Nat /\ DOMAIN dq = 1 .. n
  OBVIOUS
<1>2. \A i \in 1 .. n : dq[i].task \in AllTasks /\ dq[i].ticks \in Nat
  <2>1. \A i \in 1 .. n : dq[i] \in DeltaElements OBVIOUS
  <2> QED BY <2>1 DEF DeltaElements, AllTasks
<1>3. \A i \in 0 .. n : D(i) \in Nat
  <2> SUFFICES ASSUME NEW i \in 0 .. n PROVE D(i) \in Nat
    OBVIOUS
  <2>1. CASE i = 0 BY <2>1 DEF Upto
  <2>2. CASE i # 0
    <3>1. i \in 1 .. n BY <2>2
    <3> QED BY <1>2, <2>2, <3>1 DEF Upto
  <2> QED BY <2>1, <2>2
<1>4. ASSUME NEW i \in 1 .. n PROVE dq[i].ticks = D(i) - D(i - 1)
  <2>1. dq[i].ticks = d[dq[i].task] - (IF i = 1 THEN 0 ELSE d[dq[i - 1].task])
    BY <1>1 DEF ExactFor
  <2> QED BY <2>1 DEF Upto
<1>5. 0 \in G
  BY <1>1 DEF Upto
<1> HIDE DEF D
<1>6. ASSUME NEW i \in 1 .. n, i - 1 \in G PROVE i \in G
  <2>1. D(i) = D(i - 1) + dq[i].ticks /\ D(i) \in Nat /\ D(i - 1) \in Nat /\ dq[i].ticks \in Nat
    <3>1. i \in 0 .. n /\ i - 1 \in 0 .. n OBVIOUS
    <3>2. D(i) \in Nat /\ D(i - 1) \in Nat BY <1>3, <3>1
    <3> QED BY <1>2, <1>4, <3>2
  <2>2. (\A j \in 1 .. i : dq[j].ticks = 0)
           <=> (\A j \in 1 .. i - 1 : dq[j].ticks = 0) /\ dq[i].ticks = 0
    <3>1. 1 .. i = (1 .. i - 1) \cup {i} OBVIOUS
    <3> QED BY <3>1
  <2>3. (\A j \in 1 .. i - 1 : dq[j].ticks = 0) <=> D(i - 1) = 0
    BY <1>6
  <2>4. (\A j \in 1 .. i : dq[j].ticks = 0) <=> D(i) = 0
    BY <2>1, <2>2, <2>3
  <2> QED BY <2>4
<1>7. 0 .. n \subseteq G
  <2> HIDE DEF G, n
  <2> QED BY <1>1, <1>5, <1>6, IndexInduction
<1> QED BY <1>3, <1>4, <1>7 DEF D

\* A tick keeps the delta queue exact: only the first element that is not 0
\* needs to change for every sleeper to have one tick less.
LEMMA TickedDeltaExact ==
    ASSUME TypeOK, SleepersTimed, DeltaExact, PassTick
    PROVE  TimedBy(TickedDelta) /\ ExactFor(TickedDelta, due')
<1> DEFINE n == Len(deltaQueue)
           D(i) == Upto(deltaQueue, due, i)
           Before(i) == \A j \in 1 .. i : deltaQueue[j].ticks = 0
<1>1. n \in Nat /\ DOMAIN deltaQueue = 1 .. n /\ DOMAIN TickedDelta = 1 .. n
  BY DEF TypeOK, TickedDelta
<1>2. \A i \in 1 .. n : deltaQueue[i] \in DeltaElements
  BY DEF TypeOK
<1>3. \A i \in 1 .. n : TickedDelta[i].task = deltaQueue[i].task
  BY <1>1, <1>2 DEF TickedDelta, DeltaElements
<1>4. TimedBy(TickedDelta)
  BY <1>1, <1>3 DEF SleepersTimed, TimedBy
<1>5. /\ \A i \in 1 .. n : deltaQueue[i].ticks = D(i) - D(i - 1)
      /\ \A i \in 0 .. n : D(i) \in Nat
      /\ \A i \in 0 .. n : Before(i) <=> D(i) = 0
  BY ExpiredMeansDue DEF TypeOK, DeltaExact
<1> DEFINE Less(k) == IF k > 0 THEN k - 1 ELSE 0
<1>6. ASSUME NEW i \in 1 .. n
      PROVE  TickedDelta[i].ticks = Less(D(i)) - Less(D(i - 1))
  <2> HIDE DEF D
  <2>1. i \in 0 .. n /\ i - 1 \in 0 .. n OBVIOUS
  <2>2. /\ deltaQueue[i].ticks = D(i) - D(i - 1) /\ D(i) \in Nat /\ D(i - 1) \in Nat
        /\ Before(i - 1) <=> D(i - 1) = 0
        /\ deltaQueue[i].ticks \in Nat
    BY <1>2, <1>5, <2>1 DEF DeltaElements
  <2>3. TickedDelta[i].ticks =
           IF deltaQueue[i].ticks # 0 /\ Before(i - 1)
           THEN deltaQueue[i].ticks - 1 ELSE deltaQueue[i].ticks
    BY <1>1, <1>2 DEF TickedDelta, DeltaElements
  <2> HIDE DEF Before
  <2> QED BY <2>2, <2>3
<1>7. ASSUME NEW i \in 1 .. n
      PROVE  /\ due'[TickedDelta[i].task] = Less(D(i))
             /\ (IF i = 1 THEN 0 ELSE due'[TickedDelta[i - 1].task]) = Less(D(i - 1))
  <2>1. \A k \in 1 .. n : due'[TickedDelta[k].task] = Less(D(k))
    <3> SUFFICES ASSUME NEW k \in 1 .. n PROVE due'[TickedDelta[k].task] = Less(D(k))
      OBVIOUS
    <3>1. TickedDelta[k].task = deltaQueue[k].task /\ deltaQueue[k].task \in AllTasks
      BY <1>2, <1>3 DEF DeltaElements, AllTasks
    <3> QED BY <3>1 DEF PassTick, Upto
  <2>2. CASE i = 1 BY <2>1, <2>2 DEF Upto
  <2>3. CASE i # 1
    <3>1. i - 1 \in 1 .. n BY <2>3
    <3> QED BY <2>1, <2>3, <3>1
  <2> QED BY <2>2, <2>3
<1>8. ExactFor(TickedDelta, due')
  <2> HIDE DEF D, Less
  <2> QED BY <1>1, <1>6, <1>7 DEF ExactFor
<1> QED BY <1>4, <1>8

\* scheduler() wakes tasks that have slept enough, and only takes their
\* elements out of the delta queue.
LEMMA RunSchedulerTimers ==
    ASSUME TypeOK, NEW dq \in Seq(DeltaElements), NEW d \in [AllTasks -> Nat],
           NEW savedFlag, TimedBy(dq), ExactFor(dq, d), RunScheduler(dq, savedFlag)
    PROVE  /\ SleepersTimed'
           /\ ExactFor(deltaQueue', d)
           /\ \A t \in Woken(dq) : t \in Tasks /\ d[t] = 0 /\ isBlocking[t]
<1> DEFINE n == Len(dq)
           m == NumExpired(dq)
           D(i) == Upto(dq, d, i)
           rest == SubSeq(dq, m + 1, n)
<1>1. m \in 0 .. n /\ n \in Nat /\ Expired(dq) = 1 .. m /\ DOMAIN dq = 1 .. n
  BY ExpiredPrefix
<1>2. /\ \A i \in 1 .. n : dq[i].ticks = D(i) - D(i - 1)
      /\ \A i \in 0 .. n : (\A j \in 1 .. i : dq[j].ticks = 0) <=> D(i) = 0
  BY ExpiredMeansDue
<1>3. \A i \in 1 .. n : dq[i] \in DeltaElements /\ dq[i].task \in Tasks
  <2>1. \A i \in 1 .. n : dq[i] \in DeltaElements OBVIOUS
  <2> QED BY <2>1 DEF DeltaElements
<1>4. \A i \in 0 .. m : D(i) = 0
  <2>1. \A i \in 1 .. m : dq[i].ticks = 0 BY ExpiredPrefix
  <2> HIDE DEF D, m
  <2> SUFFICES ASSUME NEW i \in 0 .. m PROVE D(i) = 0
    OBVIOUS
  <2>2. i \in 0 .. n /\ \A j \in 1 .. i : j \in 1 .. m BY <1>1
  <2>3. \A j \in 1 .. i : dq[j].ticks = 0 BY <2>1, <2>2
  <2> QED BY <1>2, <2>2, <2>3
<1>5. \A t \in Woken(dq) : t \in Tasks /\ d[t] = 0 /\ isBlocking[t]
  <2> SUFFICES ASSUME NEW t \in Woken(dq) PROVE t \in Tasks /\ d[t] = 0 /\ isBlocking[t]
    OBVIOUS
  <2>1. PICK i \in 1 .. m : t = dq[i].task BY <1>1 DEF Woken
  <2>2. i \in 0 .. m /\ i \in 1 .. n /\ i # 0 BY <1>1, <2>1
  <2>3. D(i) = d[t] BY <2>1, <2>2 DEF Upto
  <2> QED BY <1>1, <1>3, <1>4, <2>1, <2>2, <2>3 DEF TimedBy, AllTasks
<1>6. /\ deltaQueue' = rest /\ DOMAIN rest = 1 .. n - m
      /\ \A i \in 1 .. n - m : rest[i] = dq[m + i] /\ m + i \in 1 .. n
  BY <1>1 DEF RunScheduler
<1> HIDE DEF m, rest
<1>7. ExactFor(deltaQueue', d)
  <2> SUFFICES ASSUME NEW i \in 1 .. n - m
               PROVE  rest[i].ticks = d[rest[i].task] - (IF i = 1 THEN 0 ELSE d[rest[i - 1].task])
    BY <1>6 DEF ExactFor
  <2>1. rest[i] = dq[m + i] /\ m + i \in 1 .. n /\ D(m + i) = d[rest[i].task]
    BY <1>1, <1>6 DEF Upto
  <2>2. rest[i].ticks = D(m + i) - D(m + i - 1)
    <3> HIDE DEF D
    <3>1. \A k \in 1 .. n : dq[k].ticks = D(k) - D(k - 1) BY <1>2
    <3> DEFINE k == m + i
    <3>2. k \in 1 .. n BY <2>1
    <3> HIDE DEF k
    <3>3. dq[k].ticks = D(k) - D(k - 1) BY <3>1, <3>2
    <3>4. rest[i] = dq[k] BY <2>1 DEF k
    <3>5. k - 1 = m + i - 1 BY <1>1 DEF k
    <3> QED BY <3>3, <3>4, <3>5 DEF k
  <2>3. D(m + i - 1) = IF i = 1 THEN 0 ELSE d[rest[i - 1].task]
    <3>1. CASE i = 1
      <4>1. m + i - 1 = m /\ m \in 0 .. m BY <1>1, <3>1
      <4> QED BY <1>4, <3>1, <4>1
    <3>2. CASE i # 1
      <4>1. i - 1 \in 1 .. n - m /\ m + (i - 1) = m + i - 1 /\ m + i - 1 # 0 BY <1>1, <3>2
      <4>2. rest[i - 1] = dq[m + i - 1] BY <1>6, <4>1
      <4> QED BY <3>2, <4>1, <4>2 DEF Upto
    <3> QED BY <3>1, <3>2
  <2> QED BY <2>1, <2>2, <2>3
<1>8. SleepersTimed'
  <2>1. \A i, j \in 1 .. n : dq[i].task = dq[j].task => i = j
    BY <1>1 DEF TimedBy
  <2>2. ASSUME NEW i \in 1 .. n - m, NEW j \in 1 .. n - m, rest[i].task = rest[j].task
        PROVE  i = j
    <3>1. m + i = m + j BY <1>6, <2>1, <2>2
    <3> QED BY <1>1, <3>1
  <2>3. ASSUME NEW t \in AllTasks
        PROVE  isBlocking'[t] <=> \E i \in 1 .. n - m : rest[i].task = t
    <3>1. isBlocking'[t] <=> isBlocking[t] /\ t \notin Woken(dq)
      BY DEF RunScheduler
    <3>2. isBlocking[t] <=> \E i \in 1 .. n : dq[i].task = t
      BY <1>1 DEF TimedBy
    <3>3. t \in Woken(dq) <=> \E i \in 1 .. m : dq[i].task = t
      BY <1>1 DEF Woken
    <3>4. ASSUME isBlocking'[t] PROVE \E i \in 1 .. n - m : rest[i].task = t
      <4>1. PICK k \in 1 .. n : dq[k].task = t BY <3>1, <3>2, <3>4
      <4>2. k \notin 1 .. m BY <3>1, <3>3, <3>4, <4>1
      <4>3. k - m \in 1 .. n - m /\ m + (k - m) = k BY <1>1, <4>2
      <4>4. rest[k - m] = dq[k] BY <1>6, <4>3
      <4> QED BY <4>1, <4>3, <4>4
    <3>5. ASSUME NEW i \in 1 .. n - m, rest[i].task = t PROVE isBlocking'[t]
      <4>1. m + i \in 1 .. n /\ dq[m + i].task = t BY <1>6, <3>5
      <4>2. ASSUME NEW k \in 1 .. m PROVE dq[k].task # t
        <5>1. k \in 1 .. n /\ k # m + i BY <1>1
        <5> QED BY <2>1, <4>1, <5>1
      <4> QED BY <3>1, <3>2, <3>3, <4>1, <4>2
    <3> QED BY <3>4, <3>5
  <2>4. TimedBy(deltaQueue)' <=>
           /\ \A t \in AllTasks : isBlocking'[t] <=> \E i \in DOMAIN deltaQueue' : deltaQueue'[i].task = t
           /\ \A i, j \in DOMAIN deltaQueue' : deltaQueue'[i].task = deltaQueue'[j].task => i = j
    BY DEF TimedBy
  <2> QED BY <1>6, <2>2, <2>3, <2>4 DEF SleepersTimed
<1> QED BY <1>5, <1>7, <1>8

\* What is left of n after the walk past i is n without the ticks of the tasks
\* before.
LEMMA RemainingExact ==
    ASSUME TypeOK, DeltaExact, NEW n \in Nat
    PROVE  \A i \in 0 .. Len(deltaQueue) : Remaining(n)[i] = n - Upto(deltaQueue, due, i)
<1> DEFINE m == Len(deltaQueue)
           left == Remaining(n)
           D(i) == Upto(deltaQueue, due, i)
           G == {i \in 0 .. m : left[i] = n - D(i)}
<1>1. /\ m \in Nat /\ left[0] = n
      /\ \A i \in 1 .. m : left[i] = left[i - 1] - deltaQueue[i].ticks
  BY RemainingSteps DEF TypeOK
<1>2. /\ \A i \in 1 .. m : deltaQueue[i].ticks = D(i) - D(i - 1)
      /\ \A i \in 0 .. m : D(i) \in Nat
  BY ExpiredMeansDue DEF TypeOK, DeltaExact
<1>3. D(0) = 0
  BY DEF Upto
<1> HIDE DEF left, D
<1>4. 0 \in G
  BY <1>1, <1>3
<1>5. ASSUME NEW i \in 1 .. m, i - 1 \in G PROVE i \in G
  <2>1. i \in 0 .. m /\ i - 1 \in 0 .. m OBVIOUS
  <2>2. D(i) \in Nat /\ D(i - 1) \in Nat /\ deltaQueue[i].ticks = D(i) - D(i - 1)
    BY <1>2, <2>1
  <2>3. left[i] = left[i - 1] - deltaQueue[i].ticks /\ left[i - 1] = n - D(i - 1)
    BY <1>1, <1>5
  <2> QED BY <2>1, <2>2, <2>3
<1>6. 0 .. m \subseteq G
  <2> HIDE DEF G, m
  <2> QED BY <1>1, <1>4, <1>5, IndexInduction
<1> QED BY <1>6 DEF left, D

\* The delta queue after sleep(), element by element.
LEMMA InsertedElements ==
    ASSUME TypeOK, NEW t \in Tasks, NEW n \in Nat
    PROVE  LET m   == Len(deltaQueue)
               left == Remaining(n)
               p   == WalkEnd(left)
               ins == Inserted(t, n)
           IN  /\ m \in Nat /\ p \in 0 .. m /\ DOMAIN ins = 1 .. m + 1
               /\ ins[p + 1] = [task |-> t, ticks |-> left[p]]
               /\ \A i \in 1 .. p : ins[i] = deltaQueue[i]
               /\ \A i \in p + 2 .. m + 1 : ins[i].task = deltaQueue[i - 1].task
               /\ \A i \in p + 2 .. m + 1 :
                     ins[i].ticks = deltaQueue[i - 1].ticks - (IF i = p + 2 THEN left[p] ELSE 0)
<1> DEFINE m   == Len(deltaQueue)
           left == Remaining(n)
           p   == WalkEnd(left)
           ins == Inserted(t, n)
<1>1. m \in Nat /\ p \in 0 .. m
  <2>1. m \in Nat BY DEF TypeOK
  <2>2. p \in 0 .. m BY WalkEndFound
  <2> QED BY <2>1, <2>2
<1>2. \A i \in 1 .. m : deltaQueue[i] \in [task : Tasks, ticks : Nat]
  <2>1. \A i \in 1 .. m : deltaQueue[i] \in DeltaElements BY DEF TypeOK
  <2> QED BY <2>1 DEF DeltaElements
<1> HIDE DEF p, left
<1>3. ins = [i \in 1 .. m + 1 |->
                IF i <= p THEN deltaQueue[i]
                ELSE IF i = p + 1 THEN [task |-> t, ticks |-> left[p]]
                ELSE IF i = p + 2 THEN [deltaQueue[i - 1] EXCEPT !.ticks = @ - left[p]]
                ELSE deltaQueue[i - 1]]
  BY DEF Inserted, p, left
<1> HIDE DEF ins
<1>4. DOMAIN ins = 1 .. m + 1 /\ ins[p + 1] = [task |-> t, ticks |-> left[p]]
  BY <1>1, <1>3
<1>5. ASSUME NEW i \in 1 .. p PROVE ins[i] = deltaQueue[i]
  BY <1>1, <1>3
<1>6. ASSUME NEW i \in p + 2 .. m + 1
      PROVE  /\ ins[i].task = deltaQueue[i - 1].task
             /\ ins[i].ticks = deltaQueue[i - 1].ticks - (IF i = p + 2 THEN left[p] ELSE 0)
  <2>1. i - 1 \in 1 .. m /\ i \in 1 .. m + 1 /\ ~(i <= p) /\ i # p + 1 BY <1>1
  <2>2. deltaQueue[i - 1] \in [task : Tasks, ticks : Nat] BY <1>2, <2>1
  <2>3. CASE i = p + 2
    <3>1. ins[i] = [deltaQueue[i - 1] EXCEPT !.ticks = @ - left[p]] BY <1>3, <2>1, <2>3
    <3> QED BY <2>2, <2>3, <3>1
  <2>4. CASE i # p + 2
    <3>1. ins[i] = deltaQueue[i - 1] BY <1>3, <2>1, <2>4
    <3> QED BY <2>2, <2>4, <3>1
  <2> QED BY <2>3, <2>4
<1> QED BY <1>1, <1>4, <1>5, <1>6 DEF ins, p, left

\* sleep() keeps the delta queue exact and gives its task one element.
LEMMA InsertedExact ==
    ASSUME TypeOK, SleepersTimed, DeltaExact,
           NEW t \in Tasks, ~isBlocking[t], NEW n \in Nat
    PROVE  LET ins == Inserted(t, n)
           IN  /\ \A u \in AllTasks :
                     (\E i \in DOMAIN ins : ins[i].task = u) <=> u = t \/ isBlocking[u]
               /\ \A i, j \in DOMAIN ins : ins[i].task = ins[j].task => i = j
               /\ ExactFor(ins, [due EXCEPT ![t] = n])
<1> DEFINE m   == Len(deltaQueue)
           left == Remaining(n)
           p   == WalkEnd(left)
           ins == Inserted(t, n)
           d   == [due EXCEPT ![t] = n]
           D(i) == Upto(deltaQueue, due, i)
           old(i) == IF i <= p THEN i ELSE i - 1
<1>1. /\ m \in Nat /\ p \in 0 .. m /\ DOMAIN ins = 1 .. m + 1
      /\ ins[p + 1] = [task |-> t, ticks |-> left[p]]
      /\ \A i \in 1 .. p : ins[i] = deltaQueue[i]
      /\ \A i \in p + 2 .. m + 1 : ins[i].task = deltaQueue[i - 1].task
      /\ \A i \in p + 2 .. m + 1 :
            ins[i].ticks = deltaQueue[i - 1].ticks - (IF i = p + 2 THEN left[p] ELSE 0)
  BY InsertedElements
<1>2. /\ left[p] = n - D(p)
      /\ \A i \in 1 .. m : deltaQueue[i].ticks = D(i) - D(i - 1)
      /\ \A i \in 0 .. m : D(i) \in Nat
  <2>1. left[p] = n - D(p) BY <1>1, RemainingExact
  <2> QED BY <2>1, ExpiredMeansDue DEF TypeOK, DeltaExact
<1>3. /\ DOMAIN deltaQueue = 1 .. m
      /\ \A i \in 1 .. m : deltaQueue[i].task \in Tasks
  <2>1. \A i \in 1 .. m : deltaQueue[i] \in DeltaElements BY DEF TypeOK
  <2> QED BY <2>1 DEF TypeOK, DeltaElements
<1>4. \A i, j \in 1 .. m : deltaQueue[i].task = deltaQueue[j].task => i = j
  BY <1>3 DEF SleepersTimed, TimedBy
<1>5. \A i \in 1 .. m : deltaQueue[i].task # t
  BY <1>3 DEF SleepersTimed, TimedBy, AllTasks
<1> HIDE DEF p, left, ins, m
<1>6. ASSUME NEW i \in 1 .. m + 1, i # p + 1
      PROVE  old(i) \in 1 .. m /\ ins[i].task = deltaQueue[old(i)].task
  <2>1. CASE i <= p
    <3>1. i \in 1 .. p /\ i \in 1 .. m BY <1>1, <2>1
    <3> QED BY <1>1, <2>1, <3>1
  <2>2. CASE ~(i <= p)
    <3>1. i \in p + 2 .. m + 1 /\ i - 1 \in 1 .. m BY <1>1, <1>6, <2>2
    <3> QED BY <1>1, <2>2, <3>1
  <2> QED BY <2>1, <2>2
<1>7. ins[p + 1].task = t /\ ins[p + 1].ticks = left[p] /\ p + 1 \in 1 .. m + 1
  BY <1>1
<1>8. \A i, j \in 1 .. m + 1 : ins[i].task = ins[j].task => i = j
  <2> SUFFICES ASSUME NEW i \in 1 .. m + 1, NEW j \in 1 .. m + 1, ins[i].task = ins[j].task
               PROVE  i = j
    OBVIOUS
  <2>1. CASE i = p + 1 \/ j = p + 1
    BY <1>5, <1>6, <1>7, <2>1
  <2>2. CASE i # p + 1 /\ j # p + 1
    <3>1. old(i) = old(j)
      <4> HIDE DEF old
      <4> QED BY <1>4, <1>6, <2>2
    <3> QED BY <1>1, <2>2, <3>1
  <2> QED BY <2>1, <2>2
<1>9. ASSUME NEW u \in AllTasks
      PROVE  (\E i \in 1 .. m + 1 : ins[i].task = u) <=> u = t \/ isBlocking[u]
  <2>1. isBlocking[u] <=> \E i \in 1 .. m : deltaQueue[i].task = u
    BY <1>3 DEF SleepersTimed, TimedBy
  <2>2. ASSUME NEW i \in 1 .. m + 1, ins[i].task = u PROVE u = t \/ isBlocking[u]
    <3> HIDE DEF old
    <3> QED BY <1>6, <1>7, <2>1, <2>2
  <2>3. ASSUME isBlocking[u] PROVE \E i \in 1 .. m + 1 : ins[i].task = u
    <3>1. PICK k \in 1 .. m : deltaQueue[k].task = u BY <2>1, <2>3
    <3>2. CASE k <= p
      <4>1. k \in 1 .. m + 1 /\ k # p + 1 /\ old(k) = k BY <1>1, <3>2
      <4> QED BY <1>6, <3>1, <4>1
    <3>3. CASE ~(k <= p)
      <4>1. k + 1 \in 1 .. m + 1 /\ k + 1 # p + 1 /\ old(k + 1) = k BY <1>1, <3>3
      <4> QED BY <1>6, <3>1, <4>1
    <3> QED BY <3>2, <3>3
  <2> QED BY <1>7, <2>2, <2>3
<1>10. ASSUME NEW i \in 1 .. m + 1
       PROVE  ins[i].ticks = d[ins[i].task] - (IF i = 1 THEN 0 ELSE d[ins[i - 1].task])
  <2> DEFINE Du(k) == IF k = 0 THEN 0 ELSE d[ins[k].task]
             Shift(k) == IF k <= p THEN D(k) ELSE IF k = p + 1 THEN n ELSE D(k - 1)
  <2>1. ASSUME NEW k \in 0 .. m + 1 PROVE Du(k) = Shift(k)
    <3>1. CASE k = 0 BY <1>1, <3>1 DEF Upto
    <3>2. CASE k = p + 1
      <4>1. t \in AllTasks BY DEF AllTasks
      <4>2. d[t] = n BY <4>1 DEF TypeOK
      <4> QED BY <1>1, <1>7, <3>2, <4>2
    <3>3. CASE k # 0 /\ k # p + 1
      <4>1. k \in 1 .. m + 1 BY <3>3
      <4>2. old(k) \in 1 .. m /\ ins[k].task = deltaQueue[old(k)].task BY <1>6, <3>3, <4>1
      <4>3. d[ins[k].task] = due[deltaQueue[old(k)].task]
        <5> HIDE DEF old
        <5>1. ins[k].task \in AllTasks /\ ins[k].task # t BY <1>3, <1>5, <4>2 DEF AllTasks
        <5> QED BY <4>2, <5>1 DEF TypeOK
      <4>4. Du(k) = D(old(k)) BY <3>3, <4>2, <4>3 DEF Upto
      <4> QED BY <1>1, <3>3, <4>1, <4>4
    <3> QED BY <3>1, <3>2, <3>3
  <2>2. i \in 0 .. m + 1 /\ i - 1 \in 0 .. m + 1 BY <1>1
  <2>3. Du(i) = Shift(i) /\ Du(i - 1) = Shift(i - 1)
    <3> HIDE DEF Du, Shift
    <3> QED BY <2>1, <2>2
  <2>4. d[ins[i].task] - (IF i = 1 THEN 0 ELSE d[ins[i - 1].task]) = Du(i) - Du(i - 1)
    BY <1>1
  <2>5. ins[i].ticks = Shift(i) - Shift(i - 1)
    <3> HIDE DEF D
    <3>1. CASE i <= p
      <4>1. i \in 1 .. p /\ i \in 1 .. m /\ i - 1 <= p BY <1>1, <3>1
      <4> QED BY <1>1, <1>2, <3>1, <4>1
    <3>2. CASE i = p + 1
      <4>1. Shift(i) = n /\ Shift(i - 1) = D(p) BY <1>1, <3>2
      <4> QED BY <1>2, <1>7, <3>2, <4>1
    <3>3. CASE i = p + 2
      <4>1. Shift(i) = D(p + 1) /\ Shift(i - 1) = n BY <1>1, <3>3
      <4>2. p + 1 \in 1 .. m /\ p \in 0 .. m /\ p + 1 \in 0 .. m /\ p + 1 - 1 = p
        BY <1>1, <3>3
      <4>3. ins[i].ticks = deltaQueue[p + 1].ticks - left[p]
        <5>1. i \in p + 2 .. m + 1 /\ i - 1 = p + 1 BY <1>1, <3>3
        <5> QED BY <1>1, <3>3, <5>1
      <4>4. deltaQueue[p + 1].ticks = D(p + 1) - D(p) /\ D(p) \in Nat /\ D(p + 1) \in Nat
        BY <1>2, <4>2
      <4> QED BY <1>2, <4>1, <4>3, <4>4
    <3>4. CASE i > p + 2
      <4>1. Shift(i) = D(i - 1) /\ Shift(i - 1) = D(i - 1 - 1) BY <1>1, <3>4
      <4>2. i \in p + 2 .. m + 1 /\ i # p + 2 /\ i - 1 \in 1 .. m BY <1>1, <3>4
      <4>3. ins[i].ticks = deltaQueue[i - 1].ticks - 0 BY <1>1, <4>2
      <4>4. deltaQueue[i - 1].ticks = D(i - 1) - D(i - 1 - 1) BY <1>2, <4>2
      <4>5. i - 1 \in 0 .. m /\ i - 1 - 1 \in 0 .. m
        <5>1. m \in Nat /\ i \in Nat BY <1>1
        <5> QED BY <4>2, <5>1
      <4>6. D(i - 1) \in Nat /\ D(i - 1 - 1) \in Nat BY <1>2, <4>5
      <4> QED BY <4>1, <4>3, <4>4, <4>6
    <3> QED BY <1>1, <3>1, <3>2, <3>3, <3>4
  <2> QED BY <2>3, <2>4, <2>5
<1>11. ExactFor(ins, d)
  BY <1>1, <1>10 DEF ExactFor
<1> QED BY <1>1, <1>8, <1>9, <1>11 DEF ins

-----------------------------------------------------------------------------
(* The inductive invariant.                                                  *)

\* The names of the tasks.
LEMMA TaskNames ==
    /\ Main \in Tasks /\ Workers \subseteq Tasks
    /\ Idle \notin Tasks
    /\ Tasks \subseteq AllTasks /\ Idle \in AllTasks
BY TaskAssumption DEF Tasks, AllTasks

\* scheduler() and the switch keep the invariant.  d is what is due after the
\* step: the tick is counted before scheduler() runs.
LEMMA RunSchedulerKeeps ==
    ASSUME IInv, NEW dq \in Seq(DeltaElements), NEW d \in [AllTasks -> Nat],
           NEW savedFlag \in BOOLEAN, RunScheduler(dq, savedFlag),
           TimedBy(dq), ExactFor(dq, d), due' = d,
           \A t \in AllTasks : due[t] = 0 => d[t] = 0,
           \A t \in AllTasks : depth[t] = 0,
           UNCHANGED depth,
           pc' \in [AllTasks -> Locations], Created' = Created, pc'[Idle] = "run",
           TypeOK'
    PROVE  IInv'
<1>1. TypeOK /\ PlacesOK /\ QueueConsistent /\ ReadyTasksQueued /\ NoEarlyReturn
  BY DEF IInv
<1>2. /\ SleepersTimed' /\ ExactFor(deltaQueue', d)
      /\ \A t \in Woken(dq) : t \in Tasks /\ d[t] = 0 /\ isBlocking[t]
  BY <1>1, RunSchedulerTimers
<1>3. DeltaExact'
  <2>1. DeltaExact' <=> ExactFor(deltaQueue', due') BY DEF DeltaExact, ExactFor
  <2> QED BY <1>2, <2>1
<1>4. /\ isBlocking' = [t \in AllTasks |-> isBlocking[t] /\ t \notin Woken(dq)]
      /\ onTaskQueue' = [t \in AllTasks |-> SelectedFlags[t] \/ t \in Woken(dq)]
      /\ taskQueue' = PushWoken(dq)
      /\ current' = NextTask
  BY DEF RunScheduler, SwitchTask
<1>5. Queued' = Elems(SelectedQueue) \cup Woken(dq)
  BY <1>1, <1>4, PushWokenQueue DEF Queued, Elems
<1>6. QueueConsistent'
  <2>1. \A t \in AllTasks : onTaskQueue'[t] <=> t \in Queued'
    BY <1>1, <1>4, <1>5, SelectionQueue
  <2>2. \A i, j \in DOMAIN taskQueue' : taskQueue'[i] = taskQueue'[j] => i = j
    BY <1>1, <1>4, PushWokenQueue DEF Distinct
  <2>3. Queued' \subseteq Created'
    BY <1>1, <1>2, <1>5, SelectionQueue, TaskNames DEF QueueConsistent, PlacesOK
  <2> QED BY <2>1, <2>2, <2>3 DEF QueueConsistent
<1>7. ReadyTasksQueued'
  <2> SUFFICES ASSUME NEW t \in Created, ~isBlocking'[t] PROVE t \in Queued'
    BY DEF ReadyTasksQueued
  <2>1. t \in AllTasks /\ (~isBlocking[t] \/ t \in Woken(dq))
    BY <1>4, TaskNames DEF Created
  <2> QED BY <1>1, <1>5, <2>1, SelectionQueue DEF ReadyTasksQueued
<1>8. NextTask \in Created \cup {Idle} /\ ~isBlocking[NextTask] /\ NextTask \in AllTasks
  <2>1. CASE ReadyPositions = {}
    <3>1. NextTask = Idle BY <2>1 DEF NextTask
    <3> QED BY <1>1, <3>1, TaskNames DEF PlacesOK, Created
  <2>2. CASE ReadyPositions # {}
    BY <1>1, <2>2, SelectionQueue, SelectionType DEF QueueConsistent
  <2> QED BY <2>1, <2>2
<1>9. NoEarlyReturn'
  <2>1. \A t \in AllTasks : ~isBlocking'[t] => d[t] = 0
    BY <1>1, <1>2, <1>4 DEF NoEarlyReturn
  <2>2. ~isBlocking'[current'] BY <1>4, <1>8
  <2> QED BY <2>1, <2>2 DEF NoEarlyReturn
<1>10. intr' = [counter |-> 0, enabled |-> savedIF'[NextTask]]
  BY DEF RunScheduler, SwitchTask, ReturnFromInterrupt
<1>11. PlacesOK'
  <2>1. pc'[Main] # "absent" BY <1>1, TaskNames DEF PlacesOK, Created
  <2>2. \A t \in AllTasks : isBlocking'[t] => t \in Created' BY <1>1, <1>4 DEF PlacesOK
  <2>3. \A t \in AllTasks : depth'[t] = 0 OBVIOUS
  <2>4. depth'[current'] <= intr'.counter /\ depth'[Idle] = 0
    BY <1>4, <1>8, <1>10, <2>3, TaskNames
  <2> QED BY <1>4, <1>8, <2>1, <2>2, <2>3, <2>4 DEF PlacesOK
<1>12. CriticalSectionsAtomic'
  BY <1>10 DEF CriticalSectionsAtomic
<1> QED BY <1>2, <1>3, <1>6, <1>7, <1>9, <1>11, <1>12 DEF IInv

\* What a tick does to the sleepers' times.
LEMMA PassTickTimes ==
    ASSUME TypeOK, PassTick
    PROVE  /\ due' \in [AllTasks -> Nat]
           /\ \A t \in AllTasks : due[t] = 0 => due'[t] = 0
BY DEF TypeOK, PassTick

\* Every tick keeps the invariant.
LEMMA TickKeeps ==
    ASSUME IInv, Tick, TypeOK'
    PROVE  IInv'
<1>1. TypeOK /\ SleepersTimed /\ DeltaExact /\ CriticalSectionsAtomic /\ PlacesOK
      /\ QueueConsistent /\ ReadyTasksQueued /\ NoEarlyReturn
  BY DEF IInv
<1>2. intr.enabled /\ PassTick /\ UNCHANGED <<pc, depth>>
  BY DEF Tick, TickWithoutSwitch, TickWithSwitch
<1>3. TimedBy(TickedDelta) /\ ExactFor(TickedDelta, due')
  BY <1>1, <1>2, TickedDeltaExact
<1>4. due' \in [AllTasks -> Nat] /\ \A t \in AllTasks : due[t] = 0 => due'[t] = 0
  BY <1>1, <1>2, PassTickTimes
<1>5. \A t \in AllTasks : depth[t] = 0
  BY <1>1, <1>2 DEF CriticalSectionsAtomic
<1>6. CASE TickWithoutSwitch
  <2>1. /\ deltaQueue' = TickedDelta
        /\ intr' = [counter |-> 0, enabled |-> TRUE]
        /\ UNCHANGED <<taskQueue, onTaskQueue, isBlocking, current, pc, depth>>
    BY <1>6 DEF TickWithoutSwitch, ReturnFromInterrupt
  <2>2. SleepersTimed' /\ DeltaExact'
    BY <1>3, <2>1 DEF SleepersTimed, TimedBy, DeltaExact, ExactFor
  <2>3. QueueConsistent' /\ ReadyTasksQueued'
    BY <1>1, <2>1 DEF QueueConsistent, ReadyTasksQueued, Queued, Created
  <2>4. NoEarlyReturn'
    BY <1>1, <1>4, <2>1 DEF NoEarlyReturn
  <2>5. PlacesOK' /\ CriticalSectionsAtomic'
    <3>1. current \in AllTasks BY <1>1 DEF TypeOK
    <3> QED BY <1>1, <1>5, <2>1, <3>1 DEF PlacesOK, CriticalSectionsAtomic, Created
  <2> QED BY <2>2, <2>3, <2>4, <2>5 DEF IInv
<1>7. CASE TickWithSwitch
  <2>1. RunScheduler(TickedDelta, TRUE) /\ TickedDelta \in Seq(DeltaElements)
    BY <1>1, <1>7, TickedDeltaType DEF TickWithSwitch
  <2>2. Created' = Created /\ pc' \in [AllTasks -> Locations] /\ pc'[Idle] = "run"
    BY <1>1, <1>2 DEF Created, TypeOK, PlacesOK
  <2> QED BY <1>2, <1>3, <1>4, <1>5, <2>1, <2>2, RunSchedulerKeeps
<1> QED BY <1>6, <1>7 DEF Tick

\* The software interrupt keeps the invariant.
LEMMA RaiseKeeps ==
    ASSUME IInv, NEW t \in Tasks, RaiseInterrupt0x80(t), TypeOK'
    PROVE  IInv'
<1>1. TypeOK /\ SleepersTimed /\ DeltaExact /\ CriticalSectionsAtomic /\ PlacesOK
  BY DEF IInv
<1>2. /\ current = t /\ pc[t] = "gap" /\ pc' = [pc EXCEPT ![t] = "run"]
      /\ RunScheduler(deltaQueue, intr.enabled)
      /\ UNCHANGED <<depth, due>>
  BY DEF RaiseInterrupt0x80
<1>3. \A u \in AllTasks : depth[u] = 0
  <2> SUFFICES ASSUME NEW u \in AllTasks PROVE depth[u] = 0
    OBVIOUS
  <2>1. depth[u] > 0 => u = t BY <1>1, <1>2 DEF CriticalSectionsAtomic
  <2>2. depth[t] = 0 BY <1>1, <1>2, TaskNames DEF PlacesOK
  <2>3. depth[u] \in Nat BY <1>1 DEF TypeOK
  <2> QED BY <2>1, <2>2, <2>3
<1>4. /\ deltaQueue \in Seq(DeltaElements) /\ due \in [AllTasks -> Nat]
      /\ intr.enabled \in BOOLEAN
      /\ TimedBy(deltaQueue) /\ ExactFor(deltaQueue, due)
  BY <1>1 DEF TypeOK, InterruptState, SleepersTimed, DeltaExact
<1>5. Created' = Created /\ pc' \in [AllTasks -> Locations] /\ pc'[Idle] = "run"
  BY <1>1, <1>2, TaskNames DEF Created, TypeOK, PlacesOK, Locations
<1> QED BY <1>2, <1>3, <1>4, <1>5, RunSchedulerKeeps

\* What a balanced section leaves behind: interrupts are on if they were, and
\* also if they were off with the counter at 0.
LEMMA ProtectedSectionResult ==
    ASSUME NEW s \in InterruptState
    PROVE  /\ ProtectedSection(s).counter = s.counter
           /\ ProtectedSection(s).enabled <=> s.counter = 0
<1>1. s.counter \in Nat
  BY DEF InterruptState
<1>2. DisableInterrupts(s) = [counter |-> s.counter + 1, enabled |-> FALSE]
  BY DEF DisableInterrupts
<1>3. ProtectedSection(s).counter = s.counter
  BY <1>1, <1>2 DEF ProtectedSection, EnableInterrupts
<1>4. CASE s.counter = 0
  <2>1. ProtectedSection(s) = [counter |-> 0, enabled |-> TRUE]
    BY <1>2, <1>4 DEF ProtectedSection, EnableInterrupts
  <2> QED BY <1>3, <1>4, <2>1
<1>5. CASE s.counter # 0
  <2> DEFINE r == DisableInterrupts(s)
  <2>1. r.counter > 0 /\ r.counter - 1 = s.counter /\ r.enabled = FALSE
    BY <1>1, <1>2
  <2>2. ProtectedSection(s) =
           [counter |-> r.counter - 1,
            enabled |-> IF r.counter - 1 = 0 THEN TRUE ELSE r.enabled]
    BY <2>1 DEF ProtectedSection, EnableInterrupts
  <2> HIDE DEF r
  <2>3. ProtectedSection(s) = [counter |-> s.counter, enabled |-> FALSE]
    BY <1>5, <2>1, <2>2
  <2> QED BY <1>5, <2>3
<1> QED BY <1>4, <1>5

\* sleep() keeps the invariant.
LEMMA SleepKeeps ==
    ASSUME IInv, NEW t \in Tasks, NEW n \in Nat, Sleep(t, n), TypeOK'
    PROVE  IInv'
<1>1. TypeOK /\ SleepersTimed /\ DeltaExact /\ CriticalSectionsAtomic /\ PlacesOK
      /\ QueueConsistent /\ ReadyTasksQueued /\ NoEarlyReturn
  BY DEF IInv
<1>2. /\ current = t /\ pc[t] = "run" /\ depth[t] = 0
      /\ isBlocking' = [isBlocking EXCEPT ![t] = TRUE]
      /\ deltaQueue' = Inserted(t, n)
      /\ due' = [due EXCEPT ![t] = n]
      /\ intr' = ProtectedSection(intr)
      /\ pc' = [pc EXCEPT ![t] = "gap"]
      /\ UNCHANGED <<taskQueue, onTaskQueue, current, depth>>
  BY DEF Sleep, InTaskCode
<1>3. ~isBlocking[t] /\ t \in AllTasks
  BY <1>1, <1>2, TaskNames DEF NoEarlyReturn
<1>4. /\ \A u \in AllTasks : (\E i \in DOMAIN Inserted(t, n) : Inserted(t, n)[i].task = u)
                                <=> u = t \/ isBlocking[u]
      /\ \A i, j \in DOMAIN Inserted(t, n) :
            Inserted(t, n)[i].task = Inserted(t, n)[j].task => i = j
      /\ ExactFor(Inserted(t, n), [due EXCEPT ![t] = n])
  BY <1>1, <1>3, InsertedExact
<1>5. SleepersTimed'
  <2>1. \A u \in AllTasks : isBlocking'[u] <=> u = t \/ isBlocking[u]
    BY <1>1, <1>2, <1>3 DEF TypeOK
  <2> QED BY <1>2, <1>4, <2>1 DEF SleepersTimed, TimedBy
<1>6. DeltaExact'
  <2>1. DeltaExact' <=> ExactFor(deltaQueue', due') BY DEF DeltaExact, ExactFor
  <2> QED BY <1>2, <1>4, <2>1
<1>7. Created' = Created
  BY <1>1, <1>2 DEF Created, TypeOK
<1>8. QueueConsistent' /\ ReadyTasksQueued'
  <2>1. Queued' = Queued BY <1>2 DEF Queued
  <2>2. QueueConsistent' BY <1>1, <1>2, <1>7, <2>1 DEF QueueConsistent
  <2>3. \A u \in Created : ~isBlocking'[u] => ~isBlocking[u]
    BY <1>1, <1>2, TaskNames DEF TypeOK, Created
  <2> QED BY <1>1, <1>7, <2>1, <2>2, <2>3 DEF ReadyTasksQueued
<1>9. NoEarlyReturn'
  <2>1. \A u \in AllTasks : ~isBlocking'[u] => u # t /\ ~isBlocking[u]
    BY <1>1, <1>2, <1>3 DEF TypeOK
  <2>2. \A u \in AllTasks : ~isBlocking'[u] => due'[u] = 0
    BY <1>1, <1>2, <2>1 DEF NoEarlyReturn, TypeOK
  <2>3. pc'[current'] = "gap" BY <1>1, <1>2, <1>3 DEF TypeOK
  <2> QED BY <2>2, <2>3 DEF NoEarlyReturn
<1>10. intr'.counter = intr.counter /\ (intr'.enabled <=> intr.counter = 0)
  <2>1. intr \in InterruptState BY <1>1 DEF TypeOK
  <2> QED BY <1>2, <2>1, ProtectedSectionResult
<1>11. \A u \in AllTasks : depth[u] = 0
  <2> SUFFICES ASSUME NEW u \in AllTasks PROVE depth[u] = 0
    OBVIOUS
  <2>1. depth[u] > 0 => u = t BY <1>1, <1>2 DEF CriticalSectionsAtomic
  <2> QED BY <1>1, <1>2, <2>1 DEF TypeOK
<1>12. CriticalSectionsAtomic'
  BY <1>1, <1>2, <1>10, <1>11 DEF CriticalSectionsAtomic
<1>13. PlacesOK'
  <2>1. pc'[Idle] = "run" /\ pc'[Main] # "absent"
    BY <1>1, <1>2, TaskNames DEF PlacesOK, TypeOK
  <2>2. \A u \in AllTasks : isBlocking'[u] => u \in Created'
    <3>1. t \in Created BY <1>2 DEF Created
    <3> QED BY <1>1, <1>2, <1>7, <3>1 DEF PlacesOK, TypeOK
  <2>3. current' \in Created' \cup {Idle} BY <1>1, <1>2, <1>7 DEF PlacesOK
  <2>4. depth'[current'] <= intr'.counter /\ depth'[Idle] = 0
    BY <1>1, <1>2, <1>10 DEF PlacesOK
  <2> QED BY <1>2, <1>11, <2>1, <2>2, <2>3, <2>4 DEF PlacesOK
<1> QED BY <1>5, <1>6, <1>8, <1>9, <1>12, <1>13 DEF IInv

\* Entering and leaving critical sections keeps the invariant.
LEMMA CriticalKeeps ==
    ASSUME IInv, NEW t \in Tasks, EnterCritical(t) \/ LeaveCritical(t), TypeOK'
    PROVE  IInv'
<1>1. TypeOK /\ SleepersTimed /\ DeltaExact /\ CriticalSectionsAtomic /\ PlacesOK
      /\ QueueConsistent /\ ReadyTasksQueued /\ NoEarlyReturn
  BY DEF IInv
<1>2. /\ current = t
      /\ UNCHANGED <<taskQueue, onTaskQueue, isBlocking, deltaQueue, current, pc, due>>
  BY DEF EnterCritical, LeaveCritical, queueVars
<1>3. SleepersTimed' /\ DeltaExact' /\ QueueConsistent' /\ ReadyTasksQueued' /\ NoEarlyReturn'
  BY <1>1, <1>2 DEF SleepersTimed, TimedBy, DeltaExact, ExactFor, QueueConsistent,
                    ReadyTasksQueued, NoEarlyReturn, Queued, Created
<1>4. /\ t \in AllTasks /\ t # Idle /\ intr \in InterruptState /\ intr.counter \in Nat
      /\ depth[t] \in Nat /\ depth[t] <= intr.counter
      /\ \A u \in AllTasks : u # t => depth[u] = 0
  <2>1. t \in AllTasks /\ t # Idle BY TaskNames
  <2>2. intr \in InterruptState /\ intr.counter \in Nat /\ depth \in [AllTasks -> Nat]
    BY <1>1 DEF TypeOK, InterruptState
  <2>3. depth[t] <= intr.counter BY <1>1, <1>2 DEF PlacesOK
  <2>4. \A u \in AllTasks : u # t => ~(depth[u] > 0) BY <1>1, <1>2 DEF CriticalSectionsAtomic
  <2> QED BY <2>1, <2>2, <2>3, <2>4
<1>5. CASE EnterCritical(t)
  <2>1. /\ intr'.counter = intr.counter + 1 /\ ~intr'.enabled
        /\ depth' = [depth EXCEPT ![t] = @ + 1] /\ pc[t] = "run"
    BY <1>5 DEF EnterCritical, DisableInterrupts
  <2>2. depth'[t] = depth[t] + 1 /\ \A u \in AllTasks : u # t => depth'[u] = 0
    BY <1>1, <1>4, <2>1 DEF TypeOK
  <2>3. CriticalSectionsAtomic'
    BY <1>2, <2>1, <2>2 DEF CriticalSectionsAtomic
  <2>4. depth'[current'] <= intr'.counter
    BY <1>2, <1>4, <2>1, <2>2
  <2>5. \A u \in AllTasks : pc'[u] # "run" => depth'[u] = 0
    BY <1>2, <2>1, <2>2
  <2>6. PlacesOK'
    BY <1>1, <1>2, <1>4, <2>2, <2>4, <2>5, TaskNames DEF PlacesOK, Created
  <2> QED BY <1>3, <2>3, <2>6 DEF IInv
<1>6. CASE LeaveCritical(t)
  <2>1. depth[t] > 0 /\ depth' = [depth EXCEPT ![t] = @ - 1]
    BY <1>6 DEF LeaveCritical
  <2>2. depth'[t] = depth[t] - 1 /\ \A u \in AllTasks : u # t => depth'[u] = 0
    BY <1>1, <1>4, <2>1 DEF TypeOK
  <2>3. ~intr.enabled
    BY <1>1, <1>4, <2>1 DEF CriticalSectionsAtomic
  <2>4. intr'.counter = intr.counter - 1 /\ (intr'.enabled <=> intr.counter - 1 = 0)
    <3>1. intr.counter > 0 BY <1>4, <2>1
    <3>2. intr' = [counter |-> intr.counter - 1,
                   enabled |-> IF intr.counter - 1 = 0 THEN TRUE ELSE intr.enabled]
      BY <1>6, <3>1 DEF LeaveCritical, EnableInterrupts
    <3> QED BY <2>3, <3>2
  <2>5. intr'.enabled => intr'.counter = 0 /\ depth'[t] = 0
    <3>1. ASSUME intr.counter - 1 = 0 PROVE depth[t] - 1 = 0
      BY <1>4, <2>1, <3>1
    <3> QED BY <2>2, <2>4, <3>1
  <2>6. CriticalSectionsAtomic'
    BY <1>2, <2>2, <2>5 DEF CriticalSectionsAtomic
  <2>7. depth'[current'] <= intr'.counter
    BY <1>2, <1>4, <2>2, <2>4
  <2>8. \A u \in AllTasks : pc'[u] # "run" => depth'[u] = 0
    BY <1>1, <1>2, <2>1, <2>2 DEF PlacesOK
  <2>9. PlacesOK'
    BY <1>1, <1>2, <1>4, <2>2, <2>7, <2>8, TaskNames DEF PlacesOK, Created
  <2> QED BY <1>3, <2>6, <2>9 DEF IInv
<1> QED BY <1>5, <1>6

\* Creating a task keeps the invariant.
LEMMA CreateKeeps ==
    ASSUME IInv, NEW t \in Workers, TaskCreate(t), TypeOK'
    PROVE  IInv'
<1>1. TypeOK /\ SleepersTimed /\ DeltaExact /\ CriticalSectionsAtomic /\ PlacesOK
      /\ QueueConsistent /\ ReadyTasksQueued /\ NoEarlyReturn
  BY DEF IInv
<1>2. /\ current = Main /\ pc[Main] = "run" /\ depth[Main] = 0 /\ pc[t] = "absent"
      /\ taskQueue' = Append(taskQueue, t)
      /\ onTaskQueue' = [onTaskQueue EXCEPT ![t] = TRUE]
      /\ intr' = ProtectedSection(intr)
      /\ pc' = [pc EXCEPT ![t] = "run"]
      /\ UNCHANGED <<isBlocking, deltaQueue, current, depth, due>>
  BY DEF TaskCreate, InTaskCode
<1>3. t \in Tasks /\ t \in AllTasks /\ t # Idle /\ t # Main /\ t \notin Created
  BY <1>2, TaskNames, TaskAssumption DEF Created
<1>4. Created' = Created \cup {t}
  BY <1>1, <1>2, <1>3, TaskNames DEF Created, TypeOK
<1>5. Queued' = Queued \cup {t} /\ t \notin Queued
      /\ \A i, j \in DOMAIN taskQueue' : taskQueue'[i] = taskQueue'[j] => i = j
  <2>1. t \notin Queued BY <1>1, <1>3 DEF QueueConsistent
  <2> DEFINE L == Len(taskQueue)
  <2>2. /\ L \in Nat /\ DOMAIN taskQueue = 1 .. L /\ DOMAIN taskQueue' = 1 .. L + 1
        /\ taskQueue'[L + 1] = t
        /\ \A i \in 1 .. L : taskQueue'[i] = taskQueue[i]
    BY <1>1, <1>2, <1>3 DEF TypeOK
  <2> HIDE DEF L
  <2>3. Queued' = Queued \cup {t} BY <2>2 DEF Queued
  <2>4. \A i \in 1 .. L : taskQueue[i] # t BY <2>1, <2>2 DEF Queued
  <2>5. \A i, j \in 1 .. L : taskQueue[i] = taskQueue[j] => i = j
    BY <1>1, <2>2 DEF QueueConsistent
  <2> QED BY <2>1, <2>2, <2>3, <2>4, <2>5
<1>6. QueueConsistent' /\ ReadyTasksQueued'
  <2>1. \A u \in AllTasks : onTaskQueue'[u] <=> u \in Queued'
    BY <1>1, <1>2, <1>3, <1>5 DEF QueueConsistent, TypeOK
  <2>2. QueueConsistent' BY <1>1, <1>4, <1>5, <2>1 DEF QueueConsistent
  <2> QED BY <1>1, <1>2, <1>4, <1>5, <2>2 DEF ReadyTasksQueued
<1>7. SleepersTimed' /\ DeltaExact'
  BY <1>1, <1>2 DEF SleepersTimed, TimedBy, DeltaExact, ExactFor
<1>8. NoEarlyReturn'
  <2>1. pc'[Main] = "run" BY <1>1, <1>2, <1>3, TaskNames DEF TypeOK
  <2> QED BY <1>1, <1>2, <2>1 DEF NoEarlyReturn
<1>9. \A u \in AllTasks : depth[u] = 0
  <2> SUFFICES ASSUME NEW u \in AllTasks PROVE depth[u] = 0
    OBVIOUS
  <2>1. depth[u] > 0 => u = Main BY <1>1, <1>2 DEF CriticalSectionsAtomic
  <2>2. depth[u] \in Nat BY <1>1 DEF TypeOK
  <2> QED BY <1>2, <2>1, <2>2
<1>10. intr'.counter = intr.counter /\ (intr'.enabled <=> intr.counter = 0)
  <2>1. intr \in InterruptState BY <1>1 DEF TypeOK
  <2> QED BY <1>2, <2>1, ProtectedSectionResult
<1>11. CriticalSectionsAtomic'
  BY <1>2, <1>9, <1>10 DEF CriticalSectionsAtomic
<1>12. PlacesOK'
  <2>1. pc'[Idle] = "run" /\ pc'[Main] # "absent"
    BY <1>1, <1>2, <1>3, TaskNames DEF PlacesOK, TypeOK
  <2>2. depth'[current'] <= intr'.counter
    BY <1>1, <1>2, <1>10 DEF PlacesOK
  <2> QED BY <1>1, <1>2, <1>4, <1>9, <2>1, <2>2, TaskNames DEF PlacesOK
<1> QED BY <1>6, <1>7, <1>8, <1>11, <1>12 DEF IInv

\* The invariant holds when scheduler_init() returns.
LEMMA InvariantInit == Init => IInv
<1> SUFFICES ASSUME Init PROVE IInv
  OBVIOUS
<1>1. TypeOK
  BY TypeInit
<1>2. /\ DOMAIN taskQueue = {1} /\ taskQueue[1] = Main /\ DOMAIN deltaQueue = {}
      /\ onTaskQueue = [t \in AllTasks |-> t = Main]
      /\ isBlocking = [t \in AllTasks |-> FALSE]
      /\ current = Main
      /\ pc = [t \in AllTasks |-> IF t \in Workers THEN "absent" ELSE "run"]
      /\ depth = [t \in AllTasks |-> 0]
      /\ due = [t \in AllTasks |-> 0]
  BY DEF Init
<1>3. Queued = {Main} /\ Created = {Main}
  <2>1. Queued = {Main} BY <1>2 DEF Queued
  <2>2. Created = {Main} BY <1>2, TaskAssumption DEF Created, Tasks, AllTasks
  <2> QED BY <2>1, <2>2
<1>4. QueueConsistent /\ ReadyTasksQueued
  BY <1>2, <1>3 DEF QueueConsistent, ReadyTasksQueued
<1>5. SleepersTimed /\ DeltaExact
  BY <1>2 DEF SleepersTimed, TimedBy, DeltaExact, ExactFor
<1>6. NoEarlyReturn
  BY <1>2, TaskNames DEF NoEarlyReturn
<1>7. PICK n \in LeakedDisables : intr = [counter |-> n, enabled |-> n = 0]
  BY DEF Init
<1>8. CriticalSectionsAtomic
  <2>1. intr.enabled => intr.counter = 0
    <3>1. CASE n = 0 BY <1>7, <3>1
    <3>2. CASE n # 0
      <4>1. intr = [counter |-> n, enabled |-> FALSE] BY <1>7, <3>2
      <4> QED BY <4>1
    <3> QED BY <3>1, <3>2
  <2> QED BY <1>2, <2>1 DEF CriticalSectionsAtomic
<1>9. PlacesOK
  <2>1. pc[Idle] = "run" /\ pc[Main] = "run"
    BY <1>2, TaskNames, TaskAssumption
  <2>2. depth[current] <= intr.counter /\ depth[Idle] = 0
    BY <1>2, <1>7, TaskNames, BoundAssumption
  <2> QED BY <1>2, <1>3, <2>1, <2>2 DEF PlacesOK
<1> QED BY <1>1, <1>4, <1>5, <1>6, <1>8, <1>9 DEF IInv

\* Every step keeps the invariant.
LEMMA InvariantStep ==
    ASSUME IInv, [Next]_vars
    PROVE  IInv'
<1>1. TypeOK'
  BY TypeStep DEF IInv
<1>2. CASE Tick
  BY <1>1, <1>2, TickKeeps
<1>3. CASE SchedulerStart \/ UNCHANGED vars
  <2>1. UNCHANGED <<queueVars, cpuVars, pc, depth, due>>
    BY <1>3 DEF SchedulerStart, vars
  <2> QED BY <1>1, <2>1
          DEF IInv, queueVars, cpuVars, PlacesOK, QueueConsistent, ReadyTasksQueued,
              SleepersTimed, TimedBy, DeltaExact, ExactFor, NoEarlyReturn,
              CriticalSectionsAtomic, Created, Queued
<1>4. ASSUME NEW t \in Tasks, NEW n \in 0 .. MaxSleep, Sleep(t, n)
      PROVE  IInv'
  <2>1. n \in Nat BY BoundAssumption
  <2> QED BY <1>1, <1>4, <2>1, SleepKeeps
<1>5. ASSUME NEW t \in Tasks, RaiseInterrupt0x80(t)
      PROVE  IInv'
  BY <1>1, <1>5, RaiseKeeps
<1>6. ASSUME NEW t \in Tasks, EnterCritical(t) \/ LeaveCritical(t)
      PROVE  IInv'
  BY <1>1, <1>6, CriticalKeeps
<1>7. ASSUME NEW t \in Workers, TaskCreate(t)
      PROVE  IInv'
  BY <1>1, <1>7, CreateKeeps
<1> QED BY <1>2, <1>3, <1>4, <1>5, <1>6, <1>7 DEF Next

\* The invariant holds always.
THEOREM Invariant == Spec => []IInv
<1>1. IInv /\ [Next]_vars => IInv'
  BY InvariantStep
<1> QED BY InvariantInit, <1>1, PTL DEF Spec

-----------------------------------------------------------------------------
(* What follows from it.                                                     *)

\* The task queue is a list without duplicates that the on_task_queue flags
\* describe exactly, although scheduler() drops sleeping tasks from it.
THEOREM QueueCorrect == Spec => []QueueConsistent
<1>1. IInv => QueueConsistent BY DEF IInv
<1> QED BY Invariant, <1>1, PTL

\* No task that could run is ever missing from the task queue, and every
\* blocking task has exactly one delta-queue element, which will wake it.
THEOREM TasksAreKept == Spec => []NoTaskLost
<1>1. IInv => NoTaskLost BY DEF IInv, NoTaskLost
<1> QED BY Invariant, <1>1, PTL

\* The delta queue represents every wake-up time exactly, whatever is inserted
\* between ticks and however late scheduler() drains it.
THEOREM DeltaQueueExact == Spec => []DeltaExact
<1>1. IInv => DeltaExact BY DEF IInv
<1> QED BY Invariant, <1>1, PTL

\* sleep(n) never returns before n ticks have passed, also when the PIT
\* preempts the task in the gap before it gives up the CPU.
THEOREM SleepNeverShort == Spec => []NoEarlyReturn
<1>1. IInv => NoEarlyReturn BY DEF IInv
<1> QED BY Invariant, <1>1, PTL

\* The one global disable counter, cleared by every switch, still keeps every
\* critical section of every task free of interrupts and switches.
THEOREM SectionsAtomic == Spec => []CriticalSectionsAtomic
<1>1. IInv => CriticalSectionsAtomic BY DEF IInv
<1> QED BY Invariant, <1>1, PTL

-----------------------------------------------------------------------------
(* The scheduler implements TaskService.                                     *)

\* scheduler() wakes every task that has slept enough.
LEMMA WokenExactly ==
    ASSUME NEW dq \in Seq(DeltaElements), NEW d \in [AllTasks -> Nat],
           ExactFor(dq, d), TimedBy(dq), NEW t \in AllTasks, isBlocking[t], d[t] = 0
    PROVE  t \in Woken(dq)
<1>1. PICK i \in 1 .. Len(dq) : dq[i].task = t
  BY DEF TimedBy
<1>2. i \in 0 .. Len(dq) /\ Upto(dq, d, i) = 0
  BY <1>1 DEF Upto
<1>3. \A j \in 1 .. i : dq[j].ticks = 0
  BY <1>2, ExpiredMeansDue
<1>4. i \in Expired(dq)
  BY <1>1, <1>3 DEF Expired
<1> QED BY <1>1, <1>4 DEF Woken

\* A run of scheduler() is a switch of the service.
LEMMA SwitchImplemented ==
    ASSUME IInv, NEW dq \in Seq(DeltaElements), NEW d \in [AllTasks -> Nat],
           NEW savedFlag \in BOOLEAN, RunScheduler(dq, savedFlag),
           TimedBy(dq), ExactFor(dq, d), due' = d, Created' = Created
    PROVE  Service!Switch
<1>1. TypeOK /\ PlacesOK /\ QueueConsistent /\ ReadyTasksQueued
  BY DEF IInv
<1> DEFINE asleep == {t \in Tasks : isBlocking[t]}
<1>2. /\ isBlocking' = [t \in AllTasks |-> isBlocking[t] /\ t \notin Woken(dq)]
      /\ current' = NextTask
  BY DEF RunScheduler, SwitchTask
<1>3. NextTask \in (IF Created \ asleep = {} THEN {Idle} ELSE Created \ asleep)
  <2>1. CASE ReadyPositions = {}
    <3>1. NextTask = Idle BY <2>1 DEF NextTask
    <3>2. ASSUME NEW t \in Created \ asleep PROVE FALSE
      <4>1. t \in Created /\ ~isBlocking[t] BY <3>2 DEF Created
      <4>2. t \in Queued BY <1>1, <4>1 DEF ReadyTasksQueued
      <4> QED BY <2>1, <4>1, <4>2 DEF Queued, ReadyPositions
    <3> QED BY <3>1, <3>2
  <2>2. CASE ReadyPositions # {}
    <3>1. NextTask \in Created \ asleep
      BY <1>1, <2>2, SelectionQueue DEF QueueConsistent
    <3> QED BY <3>1
  <2> QED BY <2>1, <2>2
<1>4. {t \in Tasks : isBlocking'[t]} = {t \in asleep : d[t] > 0}
  <2> SUFFICES ASSUME NEW t \in Tasks
               PROVE  isBlocking'[t] <=> isBlocking[t] /\ d[t] > 0
    OBVIOUS
  <2>1. t \in AllTasks /\ d[t] \in Nat BY TaskNames
  <2>2. isBlocking'[t] <=> isBlocking[t] /\ t \notin Woken(dq) BY <1>2, <2>1
  <2>3. isBlocking[t] => (t \in Woken(dq) <=> d[t] = 0)
    BY <1>1, <2>1, WokenExactly, RunSchedulerTimers
  <2> QED BY <2>1, <2>2, <2>3
<1>5. [t \in Tasks |-> due[t]]' = [t \in Tasks |-> d[t]]
  OBVIOUS
<1>6. {t \in asleep : d[t] > 0} = {t \in asleep : [u \in Tasks |-> d[u]][t] > 0}
  OBVIOUS
<1> QED BY <1>2, <1>3, <1>4, <1>5, <1>6 DEF Service!Switch

\* A tick passes the time of every sleeper.
LEMMA TimePasses ==
    ASSUME PassTick
    PROVE  Service!PassTime
<1>1. \A t \in Tasks : due'[t] = IF due[t] > 0 THEN due[t] - 1 ELSE 0
  BY TaskNames DEF PassTick
<1> QED BY <1>1 DEF Service!PassTime, Service!Tasks, Tasks

\* The initial state is one of the service.
LEMMA ServiceInit == Init => Service!Init
<1> SUFFICES ASSUME Init PROVE Service!Init
  OBVIOUS
<1>1. Created = {Main}
  BY TaskAssumption DEF Init, Created, Tasks, AllTasks
<1>2. {t \in Tasks : isBlocking[t]} = {} /\ [t \in Tasks |-> due[t]] = [t \in Tasks |-> 0]
  BY TaskNames DEF Init
<1>3. current = Main
  BY DEF Init
<1> QED BY <1>1, <1>2, <1>3 DEF Service!Init, Service!Tasks, Tasks

\* Every step is a step of the service, or changes nothing of it.
LEMMA ServiceStep ==
    ASSUME IInv, IInv', [Next]_vars
    PROVE  [Service!Next]_(Service!vars)
<1>1. TypeOK /\ SleepersTimed /\ DeltaExact /\ PlacesOK /\ QueueConsistent
      /\ ReadyTasksQueued /\ NoEarlyReturn
  BY DEF IInv
<1>2. Tasks = Service!Tasks
  BY DEF Service!Tasks, Tasks
<1>3. CASE TickWithoutSwitch
  <2>1. PassTick /\ UNCHANGED <<isBlocking, current, pc>>
    BY <1>3 DEF TickWithoutSwitch
  <2>2. Service!TickOnly
    BY <2>1, TimePasses DEF Service!TickOnly, Created
  <2> QED BY <2>2 DEF Service!Next
<1>4. CASE TickWithSwitch
  <2>1. /\ PassTick /\ RunScheduler(TickedDelta, TRUE) /\ Created' = Created
        /\ TickedDelta \in Seq(DeltaElements)
    BY <1>1, <1>4, TickedDeltaType DEF TickWithSwitch, Created
  <2>2. due' \in [AllTasks -> Nat] /\ TimedBy(TickedDelta) /\ ExactFor(TickedDelta, due')
    BY <1>1, <2>1, TickedDeltaExact, PassTickTimes
  <2>3. Service!Switch
    BY <2>1, <2>2, SwitchImplemented
  <2> QED BY <2>1, <2>3, TimePasses DEF Service!TickSwitch, Service!Next
<1>5. ASSUME NEW t \in Tasks, NEW n \in 0 .. MaxSleep, Sleep(t, n)
      PROVE  Service!Next
  <2>1. /\ current = t /\ pc[t] = "run" /\ pc' = [pc EXCEPT ![t] = "gap"]
        /\ isBlocking' = [isBlocking EXCEPT ![t] = TRUE]
        /\ due' = [due EXCEPT ![t] = n] /\ current' = current
    BY <1>5 DEF Sleep, InTaskCode
  <2>2. t \in AllTasks /\ ~isBlocking[t] /\ t \in Created
    BY <1>1, <2>1, TaskNames DEF NoEarlyReturn, Created
  <2>3. Created' = Created
    BY <1>1, <2>1 DEF Created, TypeOK
  <2>4. {u \in Tasks : isBlocking'[u]} = {u \in Tasks : isBlocking[u]} \cup {t}
    BY <1>1, <2>1, <2>2, TaskNames DEF TypeOK
  <2>5. [u \in Tasks |-> due'[u]] = [[u \in Tasks |-> due[u]] EXCEPT ![t] = n]
    BY <1>1, <2>1, <2>2, TaskNames DEF TypeOK
  <2>6. Service!FallAsleep(n)
    BY <2>1, <2>2, <2>3, <2>4, <2>5 DEF Service!FallAsleep
  <2> QED BY <2>6 DEF Service!Next
<1>6. ASSUME NEW t \in Tasks, RaiseInterrupt0x80(t)
      PROVE  Service!Next
  <2>1. /\ current = t /\ pc[t] = "gap" /\ pc' = [pc EXCEPT ![t] = "run"]
        /\ RunScheduler(deltaQueue, intr.enabled) /\ due' = due
    BY <1>6 DEF RaiseInterrupt0x80
  <2>2. t \in Created /\ Created' = Created
    BY <1>1, <2>1 DEF Created, TypeOK
  <2>3. Service!Switch
    <3>1. /\ deltaQueue \in Seq(DeltaElements) /\ due \in [AllTasks -> Nat]
          /\ intr.enabled \in BOOLEAN /\ TimedBy(deltaQueue) /\ ExactFor(deltaQueue, due)
      BY <1>1 DEF TypeOK, InterruptState, SleepersTimed, DeltaExact
    <3> QED BY <2>1, <2>2, <3>1, SwitchImplemented
  <2>4. Service!Yield \/ Service!LateYield
    BY <2>1, <2>2, <2>3 DEF Service!Yield, Service!LateYield
  <2> QED BY <2>4 DEF Service!Next
<1>7. ASSUME NEW t \in Workers, TaskCreate(t)
      PROVE  Service!Next
  <2>1. /\ current = Main /\ pc[t] = "absent" /\ pc' = [pc EXCEPT ![t] = "run"]
        /\ UNCHANGED <<isBlocking, current, due>>
    BY <1>7 DEF TaskCreate, InTaskCode
  <2>2. t \in Tasks /\ t \notin Created /\ Created' = Created \cup {t}
    BY <1>1, <2>1, TaskNames DEF Created, TypeOK
  <2>3. Service!Start(t)
    BY <1>2, <2>1, <2>2 DEF Service!Start
  <2> QED BY <1>2, <2>2, <2>3 DEF Service!Next
<1>8. ASSUME UNCHANGED <<isBlocking, current, pc, due>>
      PROVE  UNCHANGED Service!vars
  BY <1>8 DEF Service!vars, Created
<1>9. ASSUME \/ SchedulerStart
             \/ UNCHANGED vars
             \/ \E t \in Tasks : EnterCritical(t) \/ LeaveCritical(t)
      PROVE  UNCHANGED <<isBlocking, current, pc, due>>
  BY <1>9 DEF SchedulerStart, EnterCritical, LeaveCritical, vars, queueVars, cpuVars
<1> QED BY <1>3, <1>4, <1>5, <1>6, <1>7, <1>8, <1>9 DEF Next, Tick

\* Who sleeps, for how long and who gets the CPU is as TaskService says: the
\* queues, time slices, preemption in the gap and late draining never show.
THEOREM Implements == Spec => ServiceSpec
<1>1. IInv /\ IInv' /\ [Next]_vars => [Service!Next]_(Service!vars)
  BY ServiceStep
<1> QED BY ServiceInit, Invariant, <1>1, PTL DEF Spec, ServiceSpec, Service!Spec

-----------------------------------------------------------------------------
(* How long a task waits for the CPU.                                        *)

(* A task that could run and does not: it is on the task queue, or sleep()   *)
(* is over and the next run of scheduler() will push it.                     *)
Waits(t) == CouldRun(t) /\ current # t

(* The ticks that come before the one that ends the time slice               *)
TicksInSlice == IF schedulerTime = TIME_SLICE_IN_TICKS THEN 1 ELSE 0

(* A task that is still to be pushed has waited no tick: the slice ends with *)
(* the next one.  One on the queue waits for the rest of the slice and for   *)
(* a slice of each task in front of it.                                      *)
PendingOK ==
    \A t \in Tasks : Waits(t) /\ isBlocking[t] =>
        waited[t] = 0 /\ schedulerTime # TIME_SLICE_IN_TICKS

TurnOK ==
    \A t \in Tasks, i \in DOMAIN taskQueue :
        taskQueue[i] = t /\ Waits(t) /\ ~isBlocking[t] =>
            waited[t] + TicksInSlice + TIME_SLICE_IN_TICKS * (i - 1) <= MaxWait

(* Before scheduler_start() there is only Main, and it does not sleep.       *)
NotStarted ==
    ~running => /\ current = Main /\ pc[Main] = "run"
                /\ \A t \in Workers : pc[t] = "absent"

LatencyInv ==
    /\ waited \in [Tasks -> Nat]
    /\ \A t \in Tasks : ~Waits(t) => waited[t] = 0
    /\ PendingOK /\ TurnOK /\ NotStarted

\* There is a number of tasks.
LEMMA TaskCount == IsFiniteSet(Tasks) /\ Cardinality(Tasks) \in Nat /\ MaxWait = 2 * Cardinality(Tasks)
<1>1. IsFiniteSet(Tasks)
  BY WorkersAssumption, FS_AddElement DEF Tasks
<1>2. Cardinality(Tasks) \in Nat
  BY <1>1, FS_CardinalityType
<1> QED BY <1>1, <1>2 DEF MaxWait, TIME_SLICE_IN_TICKS

\* A queue with no task twice is not longer than there are tasks.
LEMMA QueueLength ==
    ASSUME NEW q \in Seq(Tasks), \A i, j \in DOMAIN q : q[i] = q[j] => i = j
    PROVE  Len(q) \in Nat /\ DOMAIN q = 1 .. Len(q) /\ Len(q) <= Cardinality(Tasks)
<1>1. Len(q) \in Nat /\ DOMAIN q = 1 .. Len(q) /\ q \in [1 .. Len(q) -> Tasks]
  OBVIOUS
<1>2. q \in Injection(1 .. Len(q), Tasks)
  BY <1>1 DEF Injection, IsInjective
<1>3. Cardinality(1 .. Len(q)) <= Cardinality(Tasks)
  BY <1>2, TaskCount, FS_Injection
<1>4. Cardinality(1 .. Len(q)) = Len(q)
  <2>1. \A n \in Nat : Cardinality(1 .. n) = IF 1 > n THEN 0 ELSE n - 1 + 1
    BY FS_Interval
  <2> QED BY <1>1, <2>1
<1> QED BY <1>1, <1>3, <1>4

\* A position of the task queue.
LEMMA QueuePositions ==
    ASSUME NEW q \in Seq(Tasks), \A i, j \in DOMAIN q : q[i] = q[j] => i = j, NEW i \in DOMAIN q
    PROVE  i \in Nat /\ 1 <= i /\ i <= Cardinality(Tasks)
<1>1. Len(q) \in Nat /\ DOMAIN q = 1 .. Len(q) /\ Len(q) <= Cardinality(Tasks)
  BY QueueLength
<1> QED BY <1>1, TaskCount

\* Draining the delta queue leaves what is on the task queue in its place.
LEMMA PushWokenExtends ==
    ASSUME TypeOK, NEW dq \in Seq(DeltaElements)
    PROVE  \A k \in DOMAIN SelectedQueue :
              k \in DOMAIN PushWoken(dq) /\ PushWoken(dq)[k] = SelectedQueue[k]
<1> DEFINE n == Len(dq)
           h == Handled(dq)
<1>1. /\ n \in Nat /\ h \in [0 .. n -> Seq(Tasks)] /\ h[0] = SelectedQueue
      /\ \A i \in 1 .. n :
            h[i] = IF SelectedFlags[dq[i].task] \/ \E j \in 1 .. i - 1 : dq[j].task = dq[i].task
                   THEN h[i - 1] ELSE Append(h[i - 1], dq[i].task)
  <2>1. n \in Nat
    OBVIOUS
  <2> HIDE DEF n
  <2>2. n = Len(dq)
    BY DEF n
  <2> QED BY <2>1, <2>2, HandledSteps, Zenon
<1>2. \A i \in 1 .. n : dq[i].task \in Tasks
  <2>1. \A i \in 1 .. n : dq[i] \in DeltaElements OBVIOUS
  <2> QED BY <2>1 DEF DeltaElements
<1> HIDE DEF h
<1> DEFINE Extends(q) == \A k \in DOMAIN SelectedQueue : k \in DOMAIN q /\ q[k] = SelectedQueue[k]
           G == {i \in 0 .. n : Extends(h[i])}
<1>3. 0 \in G
  BY <1>1
<1>4. ASSUME NEW i \in 1 .. n, i - 1 \in G PROVE i \in G
  <2> DEFINE q == h[i - 1]
             t == dq[i].task
  <2>1. q \in Seq(Tasks) /\ Extends(q) /\ t \in Tasks
    BY <1>1, <1>2, <1>4
  <2>2. h[i] = q \/ h[i] = Append(q, t)
    BY <1>1
  <2> HIDE DEF q, t
  <2>3. CASE h[i] = Append(q, t)
    <3>1. \A k \in DOMAIN q : k \in DOMAIN h[i] /\ h[i][k] = q[k]
      BY <2>1, <2>3
    <3> QED BY <2>1, <3>1
  <2> QED BY <2>1, <2>2, <2>3
<1>5. 0 .. n \subseteq G
  <2> HIDE DEF G, n
  <2> QED BY <1>1, <1>3, <1>4, IndexInduction
<1>6. NumExpired(dq) \in 0 .. n
  BY ExpiredPrefix
<1>7. Extends(h[NumExpired(dq)])
  BY <1>5, <1>6
<1> QED BY <1>7 DEF PushWoken, h

\* A task that is not selected moves up.
LEMMA MovesUp ==
    ASSUME TypeOK, NEW dq \in Seq(DeltaElements), NEW k \in DOMAIN taskQueue,
           ~isBlocking[taskQueue[k]], taskQueue[k] # NextTask
    PROVE  \E j \in DOMAIN PushWoken(dq) : j <= k - 1 /\ PushWoken(dq)[j] = taskQueue[k]
<1>1. k \in ReadyPositions /\ ReadyPositions # {}
  BY DEF ReadyPositions
<1>2. FirstReady \in ReadyPositions /\ FirstReady <= k /\ NextTask = taskQueue[FirstReady]
  BY <1>1, FirstReadyLeast DEF NextTask
<1>3. /\ FirstReady \in 1 .. Len(taskQueue) /\ k \in 1 .. Len(taskQueue) /\ Len(taskQueue) \in Nat
      /\ FirstReady # k
  BY <1>2 DEF ReadyPositions, TypeOK
<1> DEFINE j == k - FirstReady
<1>4. j \in 1 .. Len(taskQueue) - FirstReady + 1 /\ j \in 1 .. (Len(taskQueue) - FirstReady + 1) - 1
      /\ j <= k - 1 /\ FirstReady + j = k
  BY <1>2, <1>3
<1> HIDE DEF j
<1>5. j \in DOMAIN SelectedQueue /\ SelectedQueue[j] = taskQueue[k]
  BY <1>1, <1>4, SelectedElements
<1> QED BY <1>4, <1>5, PushWokenExtends

\* A run of scheduler() at the end of a slice or in sleep(): every task that
\* could run and is not selected moves up, and those that are pushed or have
\* lost the CPU have waited a tick at most.
LEMMA SwitchKeepsTurns ==
    ASSUME IInv, IInv', LatencyInv, NEW dq \in Seq(DeltaElements), NEW savedFlag,
           RunScheduler(dq, savedFlag), TimedBy(dq), ExactFor(dq, due'),
           \A t \in Tasks : CouldRun(t) => CouldRun(t)',
           waited' \in [Tasks -> Nat],
           \A t \in Tasks : waited'[t] + TicksInSlice' <= waited[t] + 2
    PROVE  PendingOK' /\ TurnOK'
<1>1. /\ TypeOK /\ TypeOK' /\ QueueConsistent /\ QueueConsistent' /\ ReadyTasksQueued
  BY DEF IInv
<1>2. /\ taskQueue' = PushWoken(dq) /\ current' = NextTask
      /\ \A t \in AllTasks : isBlocking'[t] <=> isBlocking[t] /\ t \notin Woken(dq)
  BY <1>1 DEF RunScheduler, SwitchTask, TypeOK
<1>3. ASSUME NEW t \in Tasks, Waits(t)', isBlocking'[t]
      PROVE  FALSE
  <2>1. t \in AllTasks /\ isBlocking[t] /\ t \notin Woken(dq)
    BY <1>2, <1>3, TaskNames
  <2>2. due' \in [AllTasks -> Nat] /\ due'[t] = 0
    BY <1>1, <1>3 DEF TypeOK, Waits, CouldRun
  <2> QED BY <2>1, <2>2, WokenExactly
<1>4. PendingOK'
  BY <1>3 DEF PendingOK
<1>5. ASSUME NEW t \in Tasks, NEW i \in DOMAIN taskQueue', taskQueue'[i] = t,
             Waits(t)', ~isBlocking'[t]
      PROVE  waited'[t] + TicksInSlice' + 2 * (i - 1) <= MaxWait
  <2>1. taskQueue' \in Seq(Tasks) /\ \A m, n \in DOMAIN taskQueue' : taskQueue'[m] = taskQueue'[n] => m = n
    BY <1>1 DEF TypeOK, QueueConsistent
  <2>2. /\ i \in Nat /\ 1 <= i /\ i <= Cardinality(Tasks)
        /\ Cardinality(Tasks) \in Nat /\ MaxWait = 2 * Cardinality(Tasks)
    BY <2>1, QueuePositions, TaskCount
  <2>3. waited[t] \in Nat /\ waited'[t] \in Nat /\ TicksInSlice' \in {0, 1} /\ TicksInSlice \in {0, 1}
        /\ waited'[t] + TicksInSlice' <= waited[t] + 2
    BY DEF LatencyInv, TicksInSlice
  <2>4. CASE Waits(t) /\ ~isBlocking[t]
    <3>1. t \in Queued
      BY <1>1, <2>4 DEF ReadyTasksQueued, Created, Waits, CouldRun
    <3>2. PICK k \in DOMAIN taskQueue : taskQueue[k] = t
      BY <3>1 DEF Queued
    <3>3. t # NextTask
      BY <1>2, <1>5 DEF Waits
    <3>4. PICK j \in DOMAIN taskQueue' : j <= k - 1 /\ taskQueue'[j] = t
      BY <1>1, <1>2, <2>4, <3>2, <3>3, MovesUp
    <3>5. j = i
      BY <1>5, <2>1, <3>4
    <3>6. waited[t] + TicksInSlice + 2 * (k - 1) <= MaxWait
      BY <2>4, <3>2 DEF LatencyInv, TurnOK, TIME_SLICE_IN_TICKS
    <3>7. k \in Nat
      <4>1. taskQueue \in Seq(Tasks) /\ DOMAIN taskQueue = 1 .. Len(taskQueue)
        BY <1>1 DEF TypeOK
      <4> QED BY <3>2, <4>1
    <3>8. i <= k - 1
      BY <3>4, <3>5
    <3>9. \A w, x, a, b \in Nat : x + a <= w + 2 /\ w + b + 2 * (k - 1) <= MaxWait
                                 => x + a + 2 * (i - 1) <= MaxWait
      BY SMTT(30), <2>2, <3>7, <3>8
    <3> QED BY <2>3, <3>6, <3>9
  <2>5. CASE ~(Waits(t) /\ ~isBlocking[t])
    <3>1. waited[t] = 0
      BY <2>5 DEF LatencyInv, PendingOK
    <3> QED BY <2>2, <2>3, <3>1
  <2> QED BY <2>4, <2>5
<1>6. TurnOK'
  BY <1>5 DEF TurnOK, TIME_SLICE_IN_TICKS
<1> QED BY <1>4, <1>6

\* How the history variable changes.
LEMMA WaitedSteps ==
    ASSUME IInv, LatencyInv, LatencyNext
    PROVE  /\ waited' \in [Tasks -> Nat]
           /\ \A t \in Tasks : current' = t \/ ~CouldRun(t) => waited'[t] = 0
           /\ \A t \in Tasks : waited'[t] <= waited[t] + 1
           /\ ~Tick => \A t \in Tasks : waited'[t] <= waited[t]
<1>1. waited \in [Tasks -> Nat]
  BY DEF LatencyInv
<1>2. waited' =
          [t \in Tasks |->
              IF current' = t \/ ~CouldRun(t) THEN 0
              ELSE IF Tick /\ waited[t] <= MaxWait THEN waited[t] + 1
              ELSE waited[t]]
  BY DEF LatencyNext
<1>3. \A t \in Tasks : waited[t] \in Nat
  BY <1>1
<1> HIDE DEF Tick
<1>4. waited' \in [Tasks -> Nat]
  BY <1>2, <1>3
<1>5. \A t \in Tasks : waited'[t] = 0 \/ waited'[t] = waited[t] \/ (Tick /\ waited'[t] = waited[t] + 1)
  BY <1>2
<1> QED BY <1>2, <1>3, <1>4, <1>5

\* Who could run goes on to, until it sleeps: and then it has the CPU.
LEMMA CouldRunStays ==
    ASSUME IInv, Next, NEW t \in Tasks, CouldRun(t)
    PROVE  CouldRun(t)' \/ current' = t
<1>1. TypeOK
  BY DEF IInv
<1>2. t \in AllTasks /\ pc[t] # "absent" /\ due[t] = 0
  BY TaskNames DEF CouldRun
<1>3. CASE Tick
  BY <1>1, <1>2, <1>3, PassTickTimes DEF Tick, TickWithoutSwitch, TickWithSwitch, CouldRun
<1>4. CASE SchedulerStart
  BY <1>2, <1>4 DEF SchedulerStart, CouldRun
<1>5. ASSUME NEW u \in Tasks, NEW n \in 0 .. MaxSleep, Sleep(u, n)
      PROVE  CouldRun(t)' \/ current' = t
  BY <1>1, <1>2, <1>5 DEF Sleep, InTaskCode, CouldRun, TypeOK
<1>6. ASSUME NEW u \in Tasks, RaiseInterrupt0x80(u)
      PROVE  CouldRun(t)'
  BY <1>1, <1>2, <1>6 DEF RaiseInterrupt0x80, CouldRun, TypeOK
<1>7. ASSUME NEW u \in Tasks, EnterCritical(u) \/ LeaveCritical(u)
      PROVE  CouldRun(t)'
  BY <1>2, <1>7 DEF EnterCritical, LeaveCritical, CouldRun
<1>8. ASSUME NEW u \in Workers, TaskCreate(u)
      PROVE  CouldRun(t)'
  BY <1>1, <1>2, <1>8 DEF TaskCreate, CouldRun, TypeOK
<1> QED BY <1>3, <1>4, <1>5, <1>6, <1>7, <1>8 DEF Next

\* Only Main runs until scheduler_start().
LEMMA NotStartedKeeps ==
    ASSUME IInv, NotStarted, Next
    PROVE  NotStarted'
<1>1. TypeOK
  BY DEF IInv
<1>2. SUFFICES ASSUME ~running' PROVE NotStarted'
  BY DEF NotStarted
<1>3. ASSUME ~running
      PROVE  UNCHANGED <<current, pc>>
  <2>1. current = Main /\ pc[Main] = "run" /\ \A t \in Workers : pc[t] = "absent"
    BY <1>3 DEF NotStarted
  <2> QED
    BY <1>2, <1>3, <2>1 DEF Next, Tick, TickWithoutSwitch, TickWithSwitch, SchedulerStart, Sleep,
      RaiseInterrupt0x80, EnterCritical, LeaveCritical, TaskCreate
<1>4. ~running
  BY <1>2 DEF Next, Tick, TickWithoutSwitch, TickWithSwitch, SchedulerStart, Sleep,
      RaiseInterrupt0x80, EnterCritical, LeaveCritical, TaskCreate
<1> QED BY <1>3, <1>4 DEF NotStarted

\* A tick within the slice: what was ready to be pushed stays so, the others
\* have one tick less before them.
LEMMA TickKeepsTurns ==
    ASSUME IInv, LatencyInv, LatencyNext, TickWithoutSwitch
    PROVE  PendingOK' /\ TurnOK'
<1>1. TypeOK /\ NoEarlyReturn /\ QueueConsistent
  BY DEF IInv
<1>2. /\ TickedTime # 0 \/ ~running
      /\ schedulerTime' = TickedTime
      /\ UNCHANGED <<taskQueue, isBlocking, current, pc>>
  BY DEF TickWithoutSwitch
<1>3. /\ waited' \in [Tasks -> Nat]
      /\ \A t \in Tasks : current' = t \/ ~CouldRun(t) => waited'[t] = 0
      /\ \A t \in Tasks : waited'[t] <= waited[t] + 1
  BY WaitedSteps
<1>4. CASE ~running
  <2>1. \A t \in Tasks : ~Waits(t)'
    BY <1>2, <1>4 DEF LatencyInv, NotStarted, Waits, CouldRun, Tasks
  <2>2. taskQueue' \in Seq(Tasks)
    BY <1>1, <1>2 DEF TypeOK
  <2> QED BY <2>1, <2>2 DEF PendingOK, TurnOK
<1>5. CASE TickedTime # 0
  <2>1. schedulerTime = 2 /\ schedulerTime' = 1 /\ TicksInSlice = 1 /\ TicksInSlice' = 0
    BY <1>1, <1>2, <1>5 DEF TickedTime, TicksInSlice, TypeOK, TIME_SLICE_IN_TICKS
  <2>2. PendingOK'
    <3>1. ASSUME NEW t \in Tasks, Waits(t)', isBlocking'[t]
          PROVE  waited'[t] = 0
      BY <1>2, <1>3, <2>1, <3>1 DEF LatencyInv, PendingOK, Waits, TIME_SLICE_IN_TICKS
    <3> QED BY <2>1, <3>1 DEF PendingOK, TIME_SLICE_IN_TICKS
  <2>3. ASSUME NEW t \in Tasks, NEW i \in DOMAIN taskQueue, taskQueue[i] = t, Waits(t)', ~isBlocking[t]
        PROVE  waited'[t] + TicksInSlice' + 2 * (i - 1) <= MaxWait
    <3>1. i \in Nat
      <4>1. taskQueue \in Seq(Tasks) /\ DOMAIN taskQueue = 1 .. Len(taskQueue)
        BY <1>1 DEF TypeOK
      <4> QED BY <4>1
    <3>2. t \in Created
      BY <1>1, <2>3 DEF QueueConsistent, Queued
    <3>3. Waits(t)
      BY <1>1, <1>2, <2>3, <3>2, TaskNames DEF Waits, CouldRun, NoEarlyReturn, Created
    <3>4. waited[t] + 1 + 2 * (i - 1) <= MaxWait
      BY <2>1, <2>3, <3>3 DEF LatencyInv, TurnOK, TIME_SLICE_IN_TICKS
    <3>5. waited[t] \in Nat /\ waited'[t] \in Nat /\ waited'[t] <= waited[t] + 1
      BY <1>3 DEF LatencyInv
    <3>6. MaxWait \in Nat
      BY TaskCount
    <3> QED BY <2>1, <3>1, <3>4, <3>5, <3>6
  <2> QED BY <1>2, <2>2, <2>3 DEF TurnOK, TIME_SLICE_IN_TICKS
<1> QED BY <1>2, <1>4, <1>5

\* Steps that leave the CPU with its task
LEMMA OthersKeepTurns ==
    ASSUME IInv, IInv', LatencyInv, LatencyNext, ~Tick, UNCHANGED <<current, schedulerTime>>,
           \A t \in Tasks : Waits(t)' => \/ Waits(t) /\ isBlocking'[t] = isBlocking[t]
                                         \/ ~Waits(t) /\ ~isBlocking'[t],
           \A i \in DOMAIN taskQueue', t \in Tasks :
               taskQueue'[i] = t /\ Waits(t) => i \in DOMAIN taskQueue /\ taskQueue[i] = t
    PROVE  PendingOK' /\ TurnOK'
<1>1. TypeOK /\ TypeOK' /\ QueueConsistent'
  BY DEF IInv
<1>2. /\ waited' \in [Tasks -> Nat] /\ waited \in [Tasks -> Nat]
      /\ \A t \in Tasks : waited'[t] <= waited[t]
  BY WaitedSteps DEF LatencyInv
<1>3. PendingOK'
  <2>1. ASSUME NEW t \in Tasks, Waits(t)', isBlocking'[t]
        PROVE  waited'[t] = 0 /\ schedulerTime' # TIME_SLICE_IN_TICKS
    <3>1. waited[t] = 0 /\ schedulerTime # TIME_SLICE_IN_TICKS
      BY <2>1 DEF LatencyInv, PendingOK
    <3>2. waited'[t] \in Nat /\ waited'[t] <= 0
      BY <1>2, <3>1
    <3> QED BY <3>1, <3>2
  <2> QED BY <2>1 DEF PendingOK
<1>4. ASSUME NEW t \in Tasks, NEW i \in DOMAIN taskQueue', taskQueue'[i] = t,
             Waits(t)', ~isBlocking'[t]
      PROVE  waited'[t] + TicksInSlice' + 2 * (i - 1) <= MaxWait
  <2>1. taskQueue' \in Seq(Tasks) /\ \A m, n \in DOMAIN taskQueue' : taskQueue'[m] = taskQueue'[n] => m = n
    BY <1>1 DEF TypeOK, QueueConsistent
  <2>2. /\ i \in Nat /\ 1 <= i /\ i <= Cardinality(Tasks)
        /\ Cardinality(Tasks) \in Nat /\ MaxWait = 2 * Cardinality(Tasks)
    BY <2>1, QueuePositions, TaskCount
  <2>3. waited[t] \in Nat /\ waited'[t] \in Nat /\ waited'[t] <= waited[t]
        /\ TicksInSlice' = TicksInSlice /\ TicksInSlice \in {0, 1}
    BY <1>2 DEF TicksInSlice
  <2>4. CASE ~Waits(t)
    <3>1. waited[t] = 0
      BY <2>4 DEF LatencyInv
    <3> QED BY <2>2, <2>3, <3>1
  <2>5. CASE Waits(t)
    <3>1. i \in DOMAIN taskQueue /\ taskQueue[i] = t /\ ~isBlocking[t]
      BY <1>4, <2>5
    <3>2. waited[t] + TicksInSlice + 2 * (i - 1) <= MaxWait
      BY <2>5, <3>1 DEF LatencyInv, TurnOK, TIME_SLICE_IN_TICKS
    <3> QED BY <2>2, <2>3, <3>2
  <2> QED BY <2>4, <2>5
<1>5. TurnOK'
  BY <1>4 DEF TurnOK, TIME_SLICE_IN_TICKS
<1> QED BY <1>3, <1>5

\* Every step keeps the invariant of the waiting times.
LEMMA LatencyStep ==
    ASSUME IInv, IInv', LatencyInv, [LatencyNext]_latencyVars
    PROVE  LatencyInv'
<1>1. CASE UNCHANGED latencyVars
  BY <1>1 DEF latencyVars, vars, queueVars, cpuVars, LatencyInv, PendingOK, TurnOK, NotStarted,
     Waits, CouldRun, TicksInSlice
<1>2. SUFFICES ASSUME LatencyNext PROVE LatencyInv'
  BY <1>1
<1>3. TypeOK /\ TypeOK' /\ SleepersTimed /\ DeltaExact /\ NoEarlyReturn /\ QueueConsistent /\ Next
      /\ NotStarted
  BY <1>2 DEF IInv, LatencyNext, LatencyInv
<1>4. /\ waited' \in [Tasks -> Nat] /\ waited \in [Tasks -> Nat]
      /\ \A t \in Tasks : current' = t \/ ~CouldRun(t) => waited'[t] = 0
      /\ \A t \in Tasks : waited'[t] <= waited[t] + 1
      /\ ~Tick => \A t \in Tasks : waited'[t] <= waited[t]
  BY <1>2, WaitedSteps DEF LatencyInv
<1>5. NotStarted'
  BY <1>3, NotStartedKeeps
<1>6. \A t \in Tasks : ~Waits(t)' => waited'[t] = 0
  BY <1>3, <1>4, CouldRunStays DEF Waits
<1>7. ASSUME TickWithoutSwitch
      PROVE  PendingOK' /\ TurnOK'
  BY <1>2, <1>7, TickKeepsTurns
<1>8. ASSUME TickWithSwitch
      PROVE  PendingOK' /\ TurnOK'
  <2>1. /\ RunScheduler(TickedDelta, TRUE) /\ PassTick /\ pc' = pc
        /\ schedulerTime' = 2
    BY <1>8 DEF TickWithSwitch, TIME_SLICE_IN_TICKS
  <2>2. TickedDelta \in Seq(DeltaElements) /\ TimedBy(TickedDelta) /\ ExactFor(TickedDelta, due')
    BY <1>3, <2>1, TickedDeltaType, TickedDeltaExact
  <2>3. \A t \in Tasks : CouldRun(t) => CouldRun(t)'
    BY <1>3, <2>1, PassTickTimes, TaskNames DEF CouldRun
  <2>4. \A t \in Tasks : waited'[t] + TicksInSlice' <= waited[t] + 2
    <3>1. TicksInSlice' = 1
      BY <2>1 DEF TicksInSlice, TIME_SLICE_IN_TICKS
    <3>2. \A t \in Tasks : waited[t] \in Nat /\ waited'[t] \in Nat
      BY <1>4
    <3> QED BY <1>4, <3>1, <3>2
  <2> QED BY <1>4, <2>1, <2>2, <2>3, <2>4, SwitchKeepsTurns
<1>9. ASSUME NEW u \in Tasks, RaiseInterrupt0x80(u)
      PROVE  PendingOK' /\ TurnOK'
  <2>1. /\ RunScheduler(deltaQueue, intr.enabled) /\ pc[u] = "gap" /\ pc' = [pc EXCEPT ![u] = "run"]
        /\ UNCHANGED <<schedulerTime, due>>
    BY <1>9 DEF RaiseInterrupt0x80
  <2>2. deltaQueue \in Seq(DeltaElements) /\ TimedBy(deltaQueue) /\ ExactFor(deltaQueue, due')
    BY <1>3, <2>1 DEF TypeOK, SleepersTimed, DeltaExact
  <2>3. \A t \in Tasks : CouldRun(t) => CouldRun(t)'
    BY <1>3, <2>1, TaskNames DEF CouldRun, TypeOK
  <2>4. ~Tick
    <3>1. pc'[u] # pc[u]
      BY <1>3, <2>1, TaskNames DEF TypeOK
    <3> QED BY <3>1 DEF Tick, TickWithoutSwitch, TickWithSwitch
  <2>5. \A t \in Tasks : waited'[t] + TicksInSlice' <= waited[t] + 2
    <3>1. TicksInSlice' \in {0, 1}
      BY DEF TicksInSlice
    <3>2. \A t \in Tasks : waited[t] \in Nat /\ waited'[t] \in Nat /\ waited'[t] <= waited[t]
      BY <1>4, <2>4
    <3> QED BY <3>1, <3>2
  <2> QED BY <1>4, <2>1, <2>2, <2>3, <2>5, SwitchKeepsTurns
<1>10. ASSUME NEW u \in Tasks, NEW n \in 0 .. MaxSleep, Sleep(u, n)
       PROVE  PendingOK' /\ TurnOK'
  <2>1. /\ current = u /\ pc[u] = "run" /\ isBlocking' = [isBlocking EXCEPT ![u] = TRUE]
        /\ due' = [due EXCEPT ![u] = n] /\ pc' = [pc EXCEPT ![u] = "gap"]
        /\ UNCHANGED <<taskQueue, current, schedulerTime>>
    BY <1>10 DEF Sleep, InTaskCode
  <2>2. ~Tick
    <3>1. pc'[u] # pc[u]
      BY <1>3, <2>1, TaskNames DEF TypeOK
    <3> QED BY <3>1 DEF Tick, TickWithoutSwitch, TickWithSwitch
  <2>3. \A t \in Tasks : Waits(t)' => Waits(t) /\ isBlocking'[t] = isBlocking[t]
    BY <1>3, <2>1, TaskNames DEF Waits, CouldRun, TypeOK
  <2> QED BY <1>2, <2>1, <2>2, <2>3, OthersKeepTurns
<1>11. ASSUME SchedulerStart \/ \E u \in Tasks : EnterCritical(u) \/ LeaveCritical(u)
       PROVE  PendingOK' /\ TurnOK'
  <2>1. UNCHANGED <<taskQueue, isBlocking, due, pc, current, schedulerTime>>
    BY <1>11 DEF SchedulerStart, EnterCritical, LeaveCritical, queueVars, cpuVars
  <2>2. running' # running \/ depth' # depth
    <3>1. CASE SchedulerStart
      BY <3>1 DEF SchedulerStart
    <3>2. ASSUME NEW u \in Tasks, EnterCritical(u) \/ LeaveCritical(u)
          PROVE  depth' # depth
      <4>1. depth \in [AllTasks -> Nat] /\ u \in AllTasks /\ depth[u] \in Nat
        BY <1>3, TaskNames DEF TypeOK
      <4>2. depth'[u] = depth[u] + 1 \/ depth'[u] = depth[u] - 1
        BY <3>2, <4>1 DEF EnterCritical, LeaveCritical
      <4> QED BY <4>1, <4>2
    <3> QED BY <1>11, <3>1, <3>2
  <2>3. ~Tick
    BY <2>2 DEF Tick, TickWithoutSwitch, TickWithSwitch
  <2>4. \A t \in Tasks : Waits(t)' => Waits(t) /\ isBlocking'[t] = isBlocking[t]
    BY <2>1 DEF Waits, CouldRun
  <2> QED BY <1>2, <2>1, <2>3, <2>4, OthersKeepTurns
<1>12. ASSUME NEW u \in Workers, TaskCreate(u)
       PROVE  PendingOK' /\ TurnOK'
  <2>1. /\ pc[u] = "absent" /\ taskQueue' = Append(taskQueue, u) /\ pc' = [pc EXCEPT ![u] = "run"]
        /\ UNCHANGED <<isBlocking, due, current, schedulerTime>>
    BY <1>12 DEF TaskCreate
  <2>2. u \in Tasks /\ u \in AllTasks
    BY TaskNames
  <2>3. ~Tick
    <3>1. pc'[u] # pc[u]
      BY <1>3, <2>1, <2>2 DEF TypeOK
    <3> QED BY <3>1 DEF Tick, TickWithoutSwitch, TickWithSwitch
  <2>4. ~Waits(u) /\ ~isBlocking[u]
    BY <2>1, <2>2 DEF Waits, CouldRun, IInv, PlacesOK, Created
  <2>5. \A t \in Tasks : t # u => (Waits(t)' <=> Waits(t)) /\ isBlocking'[t] = isBlocking[t]
    BY <1>3, <2>1, TaskNames DEF Waits, CouldRun, TypeOK
  <2>6. \A i \in DOMAIN taskQueue' : (i \in DOMAIN taskQueue /\ taskQueue'[i] = taskQueue[i])
                                     \/ taskQueue'[i] = u
    BY SMTT(30), <1>3, <2>1, <2>2 DEF TypeOK
  <2>7. \A t \in Tasks : Waits(t)' => \/ Waits(t) /\ isBlocking'[t] = isBlocking[t]
                                      \/ ~Waits(t) /\ ~isBlocking'[t]
    BY <2>1, <2>4, <2>5
  <2>8. \A i \in DOMAIN taskQueue', t \in Tasks :
            taskQueue'[i] = t /\ Waits(t) => i \in DOMAIN taskQueue /\ taskQueue[i] = t
    BY <2>4, <2>6
  <2> QED BY <1>2, <2>1, <2>3, <2>7, <2>8, OthersKeepTurns
<1>13. PendingOK' /\ TurnOK'
  BY <1>3, <1>7, <1>8, <1>9, <1>10, <1>11, <1>12 DEF Next, Tick
<1> QED BY <1>4, <1>5, <1>6, <1>13 DEF LatencyInv

\* Nobody waits when scheduler_init() returns.
LEMMA LatencyInitInv == LatencyInit => LatencyInv
<1> SUFFICES ASSUME LatencyInit PROVE LatencyInv
  OBVIOUS
<1>1. Init /\ waited = [t \in Tasks |-> 0]
  BY DEF LatencyInit
<1>2. current = Main /\ pc = [t \in AllTasks |-> IF t \in Workers THEN "absent" ELSE "run"]
  BY <1>1 DEF Init
<1>3. \A t \in Workers : pc[t] = "absent"
  BY <1>2, TaskNames
<1>4. pc[Main] = "run"
  BY <1>2, TaskNames, TaskAssumption
<1>5. \A t \in Tasks : ~Waits(t)
  BY <1>2, <1>3 DEF Waits, CouldRun, Tasks
<1>6. taskQueue = <<Main>> /\ Main \in Tasks
  BY <1>1, TaskNames DEF Init
<1>7. \A i \in DOMAIN taskQueue : taskQueue[i] \in Tasks
  BY <1>6
<1> QED BY <1>1, <1>2, <1>3, <1>4, <1>5, <1>7 DEF LatencyInv, PendingOK, TurnOK, NotStarted

\* No task that could run is kept from the CPU for longer than one time slice
\* for each task that exists, for every number of tasks, however they sleep,
\* preempt each other in the gap and are created: scheduler() always pushes
\* behind those that wait, and a sleeper is pushed at the end of the slice in
\* which its time has run out.
THEOREM WaitIsBounded == LatencySpec => []BoundedWait
<1>1. LatencySpec => Spec
  <2>1. LatencyInit => Init
    BY DEF LatencyInit
  <2>2. [LatencyNext]_latencyVars => [Next]_vars
    BY DEF LatencyNext, latencyVars
  <2> QED BY <2>1, <2>2, PTL DEF LatencySpec, Spec
<1>2. IInv /\ IInv' /\ LatencyInv /\ [LatencyNext]_latencyVars => LatencyInv'
  BY LatencyStep
<1>3. LatencySpec => []LatencyInv
  BY <1>1, <1>2, Invariant, LatencyInitInv, PTL DEF LatencySpec
<1>4. ASSUME IInv, LatencyInv
      PROVE  BoundedWait
  <2> SUFFICES ASSUME NEW t \in Tasks PROVE waited[t] <= MaxWait
    BY DEF BoundedWait
  <2>1. waited[t] \in Nat /\ MaxWait \in Nat
    BY <1>4, TaskCount DEF LatencyInv
  <2>2. CASE Waits(t) /\ ~isBlocking[t]
    <3>1. t \in Queued
      BY <1>4, <2>2 DEF IInv, ReadyTasksQueued, Created, Waits, CouldRun
    <3>2. PICK k \in DOMAIN taskQueue : taskQueue[k] = t
      BY <3>1 DEF Queued
    <3>3. waited[t] + TicksInSlice + 2 * (k - 1) <= MaxWait
      BY <1>4, <2>2, <3>2 DEF LatencyInv, TurnOK, TIME_SLICE_IN_TICKS
    <3>4. k \in Nat /\ 1 <= k
      <4>1. taskQueue \in Seq(Tasks) /\ DOMAIN taskQueue = 1 .. Len(taskQueue)
        BY <1>4 DEF IInv, TypeOK
      <4> QED BY <3>2, <4>1
    <3>5. TicksInSlice \in {0, 1}
      BY DEF TicksInSlice
    <3> QED BY <2>1, <3>3, <3>4, <3>5
  <2>3. CASE ~(Waits(t) /\ ~isBlocking[t])
    BY <1>4, <2>1, <2>3 DEF LatencyInv, PendingOK
  <2> QED BY <2>2, <2>3
<1> QED BY <1>1, <1>3, <1>4, Invariant, PTL
=============================================================================
