-------------------------- MODULE CheckQueueProofs --------------------------
(***************************************************************************)
(* The safety of CheckQueue for every number of threads, batch size and    *)
(* number of checks.                                                       *)
(*                                                                         *)
(* The inductive invariant counts: nTodo is the number of checks in the    *)
(* queue and in the hands of threads, nTotal - nIdle the number of threads *)
(* with a batch, and a thread has a batch exactly when it executes.  When  *)
(* nTodo reaches zero nobody has one, and the verdict is complete.         *)
(* Between(t, ...) is the same for the moment inside a critical section    *)
(* when thread t has nothing in its hands, at the top of the loop.         *)
(***************************************************************************)
EXTENDS CheckQueue, FiniteSetTheorems, TLAPS

States == {"out", "new", "wait", "woken", "exec", "unwind", "gone"}

\* The checks in the hands of the threads of S, and the threads of S in some
\* of the states Q.
Held(v, S) == {x \in S \X Nat : x[2] >= 1 /\ x[2] =< Len(v[x[1]])}
In(p, S, Q) == {u \in S : p[u] \in Q}

Others(t) == Threads \ {t}

Waiting == {"wait", "woken"}

-----------------------------------------------------------------------------
(* Counting and sequences.                                                 *)

\* There are finitely many threads.
LEMMA ThreadsFinite == IsFiniteSet(Threads)
  BY CheckQueueAssumption, FS_AddElement DEF Threads

\* Sets of threads are finite and counted thread by thread.
LEMMA InCount ==
  ASSUME NEW p, NEW Q, NEW t \in Threads
  PROVE  /\ IsFiniteSet(In(p, Threads, Q)) /\ IsFiniteSet(In(p, Others(t), Q))
         /\ Cardinality(In(p, Others(t), Q)) \in Nat
         /\ Cardinality(In(p, Threads, Q)) =
              Cardinality(In(p, Others(t), Q)) + (IF p[t] \in Q THEN 1 ELSE 0)
<1>1. IsFiniteSet(In(p, Threads, Q)) /\ IsFiniteSet(In(p, Others(t), Q))
  <2>1. In(p, Threads, Q) \in SUBSET Threads /\ In(p, Others(t), Q) \in SUBSET Threads
    BY DEF In, Others
  <2> QED
    BY <2>1, ThreadsFinite, FS_Subset
<1>2. Cardinality(In(p, Others(t), Q)) \in Nat
  BY <1>1, FS_CardinalityType
<1>3. CASE p[t] \in Q
  <2>1. In(p, Threads, Q) = In(p, Others(t), Q) \cup {t} /\ t \notin In(p, Others(t), Q)
    BY <1>3 DEF In, Others
  <2> QED
    BY <1>1, <1>2, <1>3, <2>1, FS_AddElement
<1>4. CASE p[t] \notin Q
  <2>1. In(p, Threads, Q) = In(p, Others(t), Q)
    BY <1>4 DEF In, Others
  <2> QED
    BY <1>1, <1>2, <1>4, <2>1
<1> QED
  BY <1>1, <1>2, <1>3, <1>4

\* The batch of one thread is as many checks as it is long.
LEMMA HeldCount ==
  ASSUME NEW v \in [Threads -> Seq(BOOLEAN)], NEW t \in Threads,
         IsFiniteSet(Held(v, Others(t)))
  PROVE  /\ IsFiniteSet(Held(v, Threads))
         /\ Cardinality(Held(v, Others(t))) \in Nat
         /\ Cardinality(Held(v, Threads)) = Cardinality(Held(v, Others(t))) + Len(v[t])
<1> DEFINE own == {t} \X (1 .. Len(v[t]))
<1>1. Len(v[t]) \in Nat
  OBVIOUS
<1>2. IsFiniteSet(own) /\ Cardinality(own) = Len(v[t])
  <2>1. IsFiniteSet(1 .. Len(v[t])) /\ Cardinality(1 .. Len(v[t])) = Len(v[t])
    <3>1. \A n \in Nat : IsFiniteSet(1 .. n) /\ Cardinality(1 .. n) = (IF 1 > n THEN 0 ELSE n - 1 + 1)
      BY FS_Interval
    <3>2. \A n \in Nat : (IF 1 > n THEN 0 ELSE n - 1 + 1) = n
      OBVIOUS
    <3> QED
      BY <1>1, <3>1, <3>2
  <2>2. IsFiniteSet({t}) /\ Cardinality({t}) = 1
    BY FS_Singleton
  <2>3. IsFiniteSet(own) /\ Cardinality(own) = Cardinality({t}) * Cardinality(1 .. Len(v[t]))
    BY <2>1, <2>2, FS_Product
  <2> QED
    BY <1>1, <2>1, <2>2, <2>3
<1>3. Held(v, Threads) = Held(v, Others(t)) \cup own
  BY <1>1 DEF Held, Others
<1>4. Held(v, Others(t)) \cap own = {}
  BY DEF Held, Others
<1>5. Cardinality(Held(v, Others(t))) \in Nat
  BY FS_CardinalityType
<1> DEFINE rest == Held(v, Others(t))
<1> HIDE DEF own, rest
<1>6. IsFiniteSet(rest \cup own) /\ Cardinality(rest \cup own) = Cardinality(rest) + Cardinality(own)
  <2>1. IsFiniteSet(rest) /\ rest \cap own = {}
    BY <1>4 DEF rest
  <2>2. Cardinality(rest) \in Nat /\ Cardinality(own) \in Nat
    BY <1>1, <1>2, <1>5 DEF rest
  <2>3. Cardinality(rest \cap own) = 0
    BY <2>1, FS_EmptySet
  <2>4. /\ IsFiniteSet(rest \cup own)
        /\ Cardinality(rest \cup own) = Cardinality(rest) + Cardinality(own) - Cardinality(rest \cap own)
    BY <1>2, <2>1, FS_Union
  <2> QED
    BY <2>2, <2>3, <2>4
<1> QED
  BY <1>2, <1>3, <1>5, <1>6 DEF rest

\* All checks of a concatenation, and of two parts of the queue.
LEMMA AllTrueConcat ==
  ASSUME NEW s \in Seq(BOOLEAN), NEW r \in Seq(BOOLEAN)
  PROVE  AllTrue(s \o r) <=> AllTrue(s) /\ AllTrue(r)
<1>1. /\ Len(s) \in Nat /\ Len(r) \in Nat
      /\ DOMAIN (s \o r) = 1 .. Len(s) + Len(r)
      /\ \A i \in 1 .. Len(s) : (s \o r)[i] = s[i]
      /\ \A i \in 1 .. Len(r) : (s \o r)[Len(s) + i] = r[i]
  OBVIOUS
<1>2. ASSUME AllTrue(s), AllTrue(r), NEW i \in 1 .. Len(s) + Len(r)
      PROVE  (s \o r)[i]
  <2>1. CASE i =< Len(s)
    BY <1>1, <1>2, <2>1 DEF AllTrue
  <2>2. CASE i > Len(s)
    <3>1. i - Len(s) \in 1 .. Len(r) /\ i = Len(s) + (i - Len(s))
      BY <1>1, <2>2
    <3> QED
      BY <1>1, <1>2, <3>1 DEF AllTrue
  <2> QED
    BY <1>1, <2>1, <2>2
<1>3. ASSUME AllTrue(s \o r) PROVE AllTrue(s) /\ AllTrue(r)
  <2>1. AllTrue(s)
    BY <1>1, <1>3 DEF AllTrue
  <2>2. ASSUME NEW i \in 1 .. Len(r) PROVE r[i]
    <3>1. Len(s) + i \in DOMAIN (s \o r) /\ (s \o r)[Len(s) + i] = r[i]
      BY <1>1
    <3> QED
      BY <1>3, <3>1 DEF AllTrue
  <2> QED
    BY <2>1, <2>2 DEF AllTrue
<1> QED
  BY <1>1, <1>2, <1>3 DEF AllTrue

\* A batch cut from the end of the queue.
LEMMA Split ==
  ASSUME NEW s \in Seq(BOOLEAN), NEW n \in 1 .. Len(s)
  PROVE  LET a == SubSeq(s, 1, Len(s) - n)
             b == SubSeq(s, Len(s) - n + 1, Len(s))
         IN  /\ a \in Seq(BOOLEAN) /\ b \in Seq(BOOLEAN)
             /\ Len(a) = Len(s) - n /\ Len(b) = n
             /\ AllTrue(s) <=> AllTrue(a) /\ AllTrue(b)
<1> DEFINE a == SubSeq(s, 1, Len(s) - n)
           b == SubSeq(s, Len(s) - n + 1, Len(s))
<1>1. a \in Seq(BOOLEAN) /\ b \in Seq(BOOLEAN) /\ Len(a) = Len(s) - n /\ Len(b) = n
  OBVIOUS
<1>2. /\ \A i \in 1 .. Len(s) - n : a[i] = s[i]
      /\ \A i \in 1 .. n : b[i] = s[Len(s) - n + i]
  OBVIOUS
<1>3. Len(s) \in Nat /\ n \in Nat /\ n >= 1 /\ n =< Len(s)
  OBVIOUS
<1> HIDE DEF a, b
<1>4. ASSUME AllTrue(s) PROVE AllTrue(a) /\ AllTrue(b)
  <2>1. ASSUME NEW i \in 1 .. Len(s) - n PROVE a[i]
    BY <1>2, <1>3, <1>4 DEF AllTrue
  <2>2. ASSUME NEW i \in 1 .. n PROVE b[i]
    <3>1. Len(s) - n + i \in 1 .. Len(s)
      BY <1>3
    <3> QED
      BY <1>2, <1>4, <3>1 DEF AllTrue
  <2> QED
    BY <1>1, <2>1, <2>2 DEF AllTrue
<1>5. ASSUME AllTrue(a), AllTrue(b) PROVE AllTrue(s)
  <2>1. ASSUME NEW i \in 1 .. Len(s) PROVE s[i]
    <3>1. CASE i =< Len(s) - n
      BY <1>1, <1>2, <1>3, <1>5, <3>1 DEF AllTrue
    <3>2. CASE i > Len(s) - n
      <4> DEFINE j == i - (Len(s) - n)
      <4>1. j \in 1 .. n /\ Len(s) - n + j = i
        BY <1>3, <3>2
      <4> HIDE DEF j
      <4>2. b[j] = s[i]
        BY <1>2, <4>1
      <4>3. j \in DOMAIN b
        BY <1>1, <4>1
      <4>4. b[j]
        BY <1>5, <4>3 DEF AllTrue
      <4> QED
        BY <4>2, <4>4
    <3> QED
      BY <1>3, <3>1, <3>2
  <2> QED
    BY <2>1 DEF AllTrue
<1>6. AllTrue(s) <=> AllTrue(a) /\ AllTrue(b)
  BY <1>4, <1>5
<1> QED
  BY <1>1, <1>6 DEF a, b

\* A thread takes at least one check and no more than there are.
LEMMA BatchBounds ==
  ASSUME queue \in Seq(BOOLEAN), queue # <<>>, NEW total \in Nat, NEW idle \in Nat
  PROVE  BatchLen(total, idle) \in 1 .. Len(queue)
<1> DEFINE d == total + idle + 1
           share == Len(queue) \div d
<1>1. Len(queue) \in Nat /\ Len(queue) >= 1 /\ d \in Nat /\ d >= 1
  OBVIOUS
<1>2. share \in Nat /\ share =< Len(queue)
  <2>1. \A n \in Nat, k \in Nat \ {0} : n \div k \in Nat /\ n \div k =< n
    OBVIOUS
  <2> QED
    BY <1>1, <2>1
<1> QED
  BY <1>1, <1>2, CheckQueueAssumption DEF BatchLen
-----------------------------------------------------------------------------
(* The inductive invariant.                                                *)

\* The types of what a critical section of the loop does not touch.
Steady ==
  /\ queue \in Seq(BOOLEAN) /\ added \in Seq(BOOLEAN)
  /\ control \in BOOLEAN /\ interrupted \in BOOLEAN /\ fRet \in BOOLEAN
  /\ vChecks \in [Threads -> Seq(BOOLEAN)]
  /\ fOk \in [Threads -> BOOLEAN]

\* What holds of the threads of S, with the values the section works with.
Sound(S, p, ok) ==
  /\ \A u \in S : p[u] = "exec" <=> vChecks[u] # <<>>
  /\ \A u \in S : p[u] = "exec" /\ ~fOk[u] => ~ok
  /\ control => (AllTrue(added) <=> ok /\ AllTrue(queue) /\ \A u \in S : AllTrue(vChecks[u]))
  /\ ~control => /\ ok /\ queue = <<>>
                 /\ \A u \in S : vChecks[u] = <<>>
                 /\ fRet = AllTrue(added)

Inv ==
  /\ Steady
  /\ nIdle \in Nat /\ nTotal \in Nat /\ nTodo \in Nat /\ fAllOk \in BOOLEAN
  /\ pc \in [Threads -> States]
  /\ ~control => pc[Master] = "out"
  /\ Sound(Threads, pc, fAllOk)
  /\ IsFiniteSet(Held(vChecks, Threads))
  /\ nTodo = Len(queue) + Cardinality(Held(vChecks, Threads))
  /\ nTotal = nIdle + Cardinality(In(pc, Threads, {"exec"}))
  /\ nIdle >= Cardinality(In(pc, Threads, Waiting))

Between(t, p, todo, ok, total, idle) ==
  /\ Steady
  /\ idle \in Nat /\ total \in Nat /\ todo \in Nat /\ ok \in BOOLEAN
  /\ p \in [Threads -> States]
  /\ ~control => t # Master /\ p[Master] = "out"
  /\ Sound(Others(t), p, ok)
  /\ IsFiniteSet(Held(vChecks, Others(t)))
  /\ todo = Len(queue) + Cardinality(Held(vChecks, Others(t)))
  /\ total = idle + Cardinality(In(p, Others(t), {"exec"})) + 1
  /\ idle >= Cardinality(In(p, Others(t), Waiting))

\* Thread t leaves the section in state st with batch s: what changes of the
\* threads, and the counts.
After(t, p, st, v, s, p2, v2) ==
  /\ p2 \in [Threads -> States] /\ v2 \in [Threads -> Seq(BOOLEAN)]
  /\ p2[t] = st /\ v2[t] = s
  /\ \A u \in Others(t) : p2[u] = p[u] /\ v2[u] = v[u]
  /\ IsFiniteSet(Held(v2, Threads))
  /\ Cardinality(Held(v, Others(t))) \in Nat
  /\ Cardinality(Held(v2, Threads)) = Cardinality(Held(v, Others(t))) + Len(s)
  /\ Cardinality(In(p, Others(t), {"exec"})) \in Nat
  /\ Cardinality(In(p, Others(t), Waiting)) \in Nat
  /\ Cardinality(In(p2, Threads, {"exec"})) =
       Cardinality(In(p, Others(t), {"exec"})) + (IF st = "exec" THEN 1 ELSE 0)
  /\ Cardinality(In(p2, Threads, Waiting)) =
       Cardinality(In(p, Others(t), Waiting)) + (IF st \in Waiting THEN 1 ELSE 0)

\* These are the counts.
LEMMA Leaving ==
  ASSUME NEW t \in Threads, NEW p \in [Threads -> States], NEW st \in States,
         NEW v \in [Threads -> Seq(BOOLEAN)], NEW s \in Seq(BOOLEAN),
         IsFiniteSet(Held(v, Others(t)))
  PROVE  After(t, p, st, v, s, [p EXCEPT ![t] = st], [v EXCEPT ![t] = s])
<1> DEFINE p2 == [p EXCEPT ![t] = st]
           v2 == [v EXCEPT ![t] = s]
<1>1. /\ p2 \in [Threads -> States] /\ v2 \in [Threads -> Seq(BOOLEAN)]
      /\ p2[t] = st /\ v2[t] = s
      /\ \A u \in Others(t) : p2[u] = p[u] /\ v2[u] = v[u]
  BY DEF Others
<1> HIDE DEF p2, v2
<1>2. Held(v2, Others(t)) = Held(v, Others(t))
  BY <1>1 DEF Held
<1>3. /\ IsFiniteSet(Held(v2, Threads))
      /\ Cardinality(Held(v, Others(t))) \in Nat
      /\ Cardinality(Held(v2, Threads)) = Cardinality(Held(v, Others(t))) + Len(s)
  BY <1>1, <1>2, HeldCount
<1>4. ASSUME NEW Q
      PROVE  /\ Cardinality(In(p, Others(t), Q)) \in Nat
             /\ Cardinality(In(p2, Threads, Q)) =
                  Cardinality(In(p, Others(t), Q)) + (IF st \in Q THEN 1 ELSE 0)
  <2>1. In(p2, Others(t), Q) = In(p, Others(t), Q)
    BY <1>1 DEF In
  <2> QED
    BY <1>1, <2>1, InCount
<1>5. st \in {"exec"} <=> st = "exec"
  OBVIOUS
<1>6. After(t, p, st, v, s, p2, v2)
  BY <1>1, <1>3, <1>4, <1>5 DEF After
<1> QED
  BY <1>6 DEF p2, v2

\* The facts about Sound that do not depend on how the section ended.
LEMMA SoundOthers ==
  ASSUME NEW t \in Threads
  PROVE  Threads = Others(t) \cup {t} /\ Others(t) \subseteq Threads /\ t \notin Others(t)
  BY DEF Others

\* Park keeps the invariant.
LEMMA ParkInv ==
  ASSUME NEW t \in Threads, NEW STATE p, NEW STATE todo, NEW STATE ok, NEW STATE total, NEW STATE idle,
         Between(t, p, todo, ok, total, idle), Park(t, p, todo, ok, total, idle),
         UNCHANGED <<added, interrupted>>
  PROVE  Inv'
<1>1. /\ Steady /\ p \in [Threads -> States]
      /\ idle \in Nat /\ total \in Nat /\ todo \in Nat /\ ok \in BOOLEAN
      /\ IsFiniteSet(Held(vChecks, Others(t)))
      /\ vChecks \in [Threads -> Seq(BOOLEAN)] /\ queue \in Seq(BOOLEAN)
  BY DEF Between, Steady
<1>2. /\ pc' = [p EXCEPT ![t] = "wait"] /\ vChecks' = [vChecks EXCEPT ![t] = <<>>]
      /\ nIdle' = idle + 1 /\ nTodo' = todo /\ fAllOk' = ok /\ nTotal' = total
      /\ UNCHANGED <<queue, fOk, control, fRet, added, interrupted>>
  BY DEF Park
<1>3. After(t, p, "wait", vChecks, <<>>, pc', vChecks')
  <2>1. "wait" \in States /\ <<>> \in Seq(BOOLEAN)
    BY DEF States
  <2> QED
    BY <1>1, <1>2, <2>1, Leaving
<1>4. Len(<<>>) = 0 /\ "wait" \in Waiting /\ "wait" # "exec"
  BY DEF Waiting
<1>5. Sound(Threads, pc, fAllOk)'
  <2>1. AllTrue(<<>>)
    BY DEF AllTrue
  <2>2. Sound(Others(t), p, ok)
    BY DEF Between
  <2>3. /\ pc'[t] = "wait" /\ vChecks'[t] = <<>>
        /\ \A u \in Others(t) : pc'[u] = p[u] /\ vChecks'[u] = vChecks[u]
    BY <1>3 DEF After
  <2>4. \A u \in Threads : pc'[u] = "exec" <=> vChecks'[u] # <<>>
    BY <2>2, <2>3, SoundOthers DEF Sound
  <2>5. \A u \in Threads : pc'[u] = "exec" /\ ~fOk[u] => ~ok
    BY <2>2, <2>3, SoundOthers DEF Sound
  <2>6. (\A u \in Threads : AllTrue(vChecks'[u])) <=> \A u \in Others(t) : AllTrue(vChecks[u])
    BY <2>1, <2>3, SoundOthers
  <2>7. (\A u \in Threads : vChecks'[u] = <<>>) <=> \A u \in Others(t) : vChecks[u] = <<>>
    BY <2>3, SoundOthers
  <2> QED
    BY <1>2, <2>2, <2>4, <2>5, <2>6, <2>7 DEF Sound, AllTrue
<1>6. (~control => pc[Master] = "out")'
  BY <1>2, <1>3 DEF Between, After, Others, Threads
<1>7. Steady'
  BY <1>1, <1>2, <1>3 DEF Steady, After
<1>8. /\ todo = Len(queue) + Cardinality(Held(vChecks, Others(t)))
      /\ total = idle + Cardinality(In(p, Others(t), {"exec"})) + 1
      /\ idle >= Cardinality(In(p, Others(t), Waiting))
  BY DEF Between
<1>9. /\ (nTodo = Len(queue) + Cardinality(Held(vChecks, Threads)))'
      /\ (nTotal = nIdle + Cardinality(In(pc, Threads, {"exec"})))'
      /\ (nIdle >= Cardinality(In(pc, Threads, Waiting)))'
      /\ (nIdle \in Nat /\ nTotal \in Nat /\ nTodo \in Nat /\ fAllOk \in BOOLEAN)'
  BY <1>1, <1>2, <1>3, <1>4, <1>8 DEF After
<1> QED
  BY <1>3, <1>5, <1>6, <1>7, <1>9 DEF Inv, After

\* Take keeps the invariant: what leaves the queue is in the hands of t.
LEMMA TakeInv ==
  ASSUME NEW t \in Threads, NEW STATE p, NEW STATE todo, NEW STATE ok, NEW STATE total, NEW STATE idle,
         Between(t, p, todo, ok, total, idle), Take(t, p, todo, ok, total, idle),
         queue # <<>>, UNCHANGED <<added, interrupted>>
  PROVE  Inv'
<1> DEFINE nNow == BatchLen(total, idle)
           s == SubSeq(queue, Len(queue) - nNow + 1, Len(queue))
<1>1. /\ Steady /\ p \in [Threads -> States]
      /\ idle \in Nat /\ total \in Nat /\ todo \in Nat /\ ok \in BOOLEAN
      /\ IsFiniteSet(Held(vChecks, Others(t)))
      /\ vChecks \in [Threads -> Seq(BOOLEAN)] /\ queue \in Seq(BOOLEAN)
      /\ fOk \in [Threads -> BOOLEAN]
  BY DEF Between, Steady
<1>2. /\ pc' = [p EXCEPT ![t] = "exec"] /\ vChecks' = [vChecks EXCEPT ![t] = s]
      /\ queue' = SubSeq(queue, 1, Len(queue) - nNow)
      /\ fOk' = [fOk EXCEPT ![t] = ok]
      /\ nIdle' = idle /\ nTodo' = todo /\ fAllOk' = ok /\ nTotal' = total
      /\ UNCHANGED <<control, fRet, added, interrupted>>
  BY DEF Take
<1>3. nNow \in 1 .. Len(queue)
  BY <1>1, BatchBounds
<1> HIDE DEF nNow
<1>4. /\ queue' \in Seq(BOOLEAN) /\ s \in Seq(BOOLEAN)
      /\ Len(queue') = Len(queue) - nNow /\ Len(s) = nNow
      /\ AllTrue(queue) <=> AllTrue(queue') /\ AllTrue(s)
  BY <1>1, <1>2, <1>3, Split
<1> HIDE DEF s
<1>5. /\ fOk' \in [Threads -> BOOLEAN] /\ fOk'[t] = ok
      /\ \A u \in Others(t) : fOk'[u] = fOk[u]
  BY <1>1, <1>2 DEF Others
<1>6. After(t, p, "exec", vChecks, s, pc', vChecks')
  <2>1. "exec" \in States
    BY DEF States
  <2> QED
    BY <1>1, <1>2, <1>4, <2>1, Leaving
<1>7. "exec" \notin Waiting /\ Len(queue) \in Nat /\ nNow \in Nat /\ nNow >= 1 /\ s # <<>>
  BY <1>1, <1>3, <1>4 DEF Waiting
<1>8. Sound(Threads, pc, fAllOk)'
  <2>1. Sound(Others(t), p, ok)
    BY DEF Between
  <2>2. control
    BY <2>1 DEF Sound
  <2>3. /\ pc'[t] = "exec" /\ vChecks'[t] = s
        /\ \A u \in Others(t) : pc'[u] = p[u] /\ vChecks'[u] = vChecks[u]
    BY <1>6 DEF After
  <2>4. \A u \in Threads : pc'[u] = "exec" <=> vChecks'[u] # <<>>
    BY <1>7, <2>1, <2>3, SoundOthers DEF Sound
  <2>5. \A u \in Threads : pc'[u] = "exec" /\ ~fOk'[u] => ~ok
    BY <1>5, <2>1, <2>3, SoundOthers DEF Sound
  <2>6. (\A u \in Threads : AllTrue(vChecks'[u])) <=>
          AllTrue(s) /\ \A u \in Others(t) : AllTrue(vChecks[u])
    BY <2>3, SoundOthers
  <2>7. AllTrue(added) <=> ok /\ AllTrue(queue) /\ \A u \in Others(t) : AllTrue(vChecks[u])
    BY <2>1, <2>2 DEF Sound
  <2>8. AllTrue(added) <=> ok /\ AllTrue(queue') /\ \A u \in Threads : AllTrue(vChecks'[u])
    BY <1>4, <2>6, <2>7
  <2> QED
    BY <1>2, <2>2, <2>4, <2>5, <2>8 DEF Sound, AllTrue
<1>9. (~control => pc[Master] = "out")'
  BY <1>2, <1>6 DEF Between, After, Others, Threads
<1>10. Steady'
  BY <1>1, <1>2, <1>4, <1>5, <1>6 DEF Steady, After
<1>11. /\ todo = Len(queue) + Cardinality(Held(vChecks, Others(t)))
       /\ total = idle + Cardinality(In(p, Others(t), {"exec"})) + 1
       /\ idle >= Cardinality(In(p, Others(t), Waiting))
  BY DEF Between
<1>12. /\ (nTodo = Len(queue) + Cardinality(Held(vChecks, Threads)))'
       /\ (nTotal = nIdle + Cardinality(In(pc, Threads, {"exec"})))'
       /\ (nIdle >= Cardinality(In(pc, Threads, Waiting)))'
       /\ (nIdle \in Nat /\ nTotal \in Nat /\ nTodo \in Nat /\ fAllOk \in BOOLEAN)'
  <2>1. /\ Cardinality(Held(vChecks', Threads)) = Cardinality(Held(vChecks, Others(t))) + nNow
        /\ Cardinality(Held(vChecks, Others(t))) \in Nat
    BY <1>4, <1>6 DEF After
  <2>2. /\ Cardinality(In(pc', Threads, {"exec"})) = Cardinality(In(p, Others(t), {"exec"})) + 1
        /\ Cardinality(In(p, Others(t), {"exec"})) \in Nat
    BY <1>6 DEF After
  <2>3. /\ Cardinality(In(pc', Threads, Waiting)) = Cardinality(In(p, Others(t), Waiting)) + 0
        /\ Cardinality(In(p, Others(t), Waiting)) \in Nat
    BY <1>6, <1>7 DEF After
  <2>4. nTodo' = Len(queue') + Cardinality(Held(vChecks', Threads))
    BY <1>2, <1>4, <1>7, <1>11, <2>1
  <2>5. nTotal' = nIdle' + Cardinality(In(pc', Threads, {"exec"}))
    BY <1>1, <1>2, <1>11, <2>2
  <2>6. nIdle' >= Cardinality(In(pc', Threads, Waiting))
    BY <1>2, <1>11, <2>3
  <2> QED
    BY <1>1, <1>2, <2>4, <2>5, <2>6
<1> QED
  BY <1>6, <1>8, <1>9, <1>10, <1>12 DEF Inv, After

\* Without checks in the hands of the threads of S nobody of S has a batch.
LEMMA NothingHeld ==
  ASSUME NEW v \in [Threads -> Seq(BOOLEAN)], NEW S \in SUBSET Threads,
         IsFiniteSet(Held(v, S)), Cardinality(Held(v, S)) = 0
  PROVE  \A u \in S : v[u] = <<>>
<1>1. Held(v, S) = {}
  BY FS_EmptySet
<1>2. ASSUME NEW u \in S, v[u] # <<>> PROVE FALSE
  <2>1. Len(v[u]) \in Nat /\ Len(v[u]) >= 1
    BY <1>2
  <2>2. <<u, 1>> \in Held(v, S)
    BY <2>1 DEF Held
  <2> QED
    BY <1>1, <2>2
<1> QED
  BY <1>2

\* Return keeps the invariant: with nTodo at zero nobody has a check left.
LEMMA ReturnInv ==
  ASSUME NEW STATE p, NEW STATE todo, NEW STATE ok, NEW STATE total, NEW STATE idle,
         Between(Master, p, todo, ok, total, idle), Return(Master, p, todo, ok, total, idle),
         queue = <<>>, todo = 0, UNCHANGED <<added, interrupted>>
  PROVE  Inv'
<1> DEFINE t == Master
<1>1. /\ Steady /\ p \in [Threads -> States] /\ t \in Threads
      /\ idle \in Nat /\ total \in Nat /\ todo \in Nat /\ ok \in BOOLEAN
      /\ IsFiniteSet(Held(vChecks, Others(t)))
      /\ vChecks \in [Threads -> Seq(BOOLEAN)] /\ queue \in Seq(BOOLEAN)
  BY DEF Between, Steady, Threads
<1>2. /\ pc' = [p EXCEPT ![t] = "out"] /\ vChecks' = [vChecks EXCEPT ![t] = <<>>]
      /\ fRet' = ok /\ fAllOk' = TRUE /\ control' = FALSE
      /\ nIdle' = idle /\ nTodo' = todo /\ nTotal' = total - 1
      /\ UNCHANGED <<queue, fOk, added, interrupted>>
  BY DEF Return
<1>3. control /\ Sound(Others(t), p, ok)
  BY DEF Between
<1> HIDE DEF t
<1>4. After(t, p, "out", vChecks, <<>>, pc', vChecks')
  <2>1. "out" \in States /\ <<>> \in Seq(BOOLEAN)
    BY DEF States
  <2> QED
    BY <1>1, <1>2, <2>1, Leaving
<1>5. Len(<<>>) = 0 /\ "out" \notin Waiting /\ "out" # "exec"
  BY DEF Waiting
<1>6. /\ todo = Len(queue) + Cardinality(Held(vChecks, Others(t)))
      /\ total = idle + Cardinality(In(p, Others(t), {"exec"})) + 1
      /\ idle >= Cardinality(In(p, Others(t), Waiting))
  BY DEF Between, t
<1>7. \A u \in Others(t) : vChecks[u] = <<>>
  <2>1. Cardinality(Held(vChecks, Others(t))) = 0
    BY <1>4, <1>5, <1>6 DEF After
  <2> QED
    BY <1>1, <2>1, NothingHeld, SoundOthers
<1>8. Sound(Threads, pc, fAllOk)'
  <2>1. AllTrue(<<>>)
    BY DEF AllTrue
  <2>2. /\ pc'[t] = "out" /\ vChecks'[t] = <<>>
        /\ \A u \in Others(t) : pc'[u] = p[u] /\ vChecks'[u] = vChecks[u]
    BY <1>4 DEF After
  <2>3. \A u \in Threads : vChecks'[u] = <<>>
    BY <1>1, <1>7, <2>2, SoundOthers
  <2>4. \A u \in Threads : pc'[u] # "exec"
    BY <1>1, <1>3, <1>7, <2>2, SoundOthers DEF Sound
  <2>5. AllTrue(added) <=> ok
    BY <1>3, <1>7, <2>1 DEF Sound
  <2>6. ok = AllTrue(added)
    BY <1>1, <2>5 DEF AllTrue
  <2> QED
    BY <1>2, <2>3, <2>4, <2>6 DEF Sound, AllTrue
<1>9. (~control => pc[Master] = "out")'
  BY <1>4 DEF After, t
<1>10. Steady'
  BY <1>1, <1>2, <1>4 DEF Steady, After
<1>11. /\ (nTodo = Len(queue) + Cardinality(Held(vChecks, Threads)))'
       /\ (nTotal = nIdle + Cardinality(In(pc, Threads, {"exec"})))'
       /\ (nIdle >= Cardinality(In(pc, Threads, Waiting)))'
       /\ (nIdle \in Nat /\ nTotal \in Nat /\ nTodo \in Nat /\ fAllOk \in BOOLEAN)'
  BY <1>1, <1>2, <1>4, <1>5, <1>6 DEF After
<1> QED
  BY <1>4, <1>8, <1>9, <1>10, <1>11 DEF Inv, After

\* So does the loop from its top.
LEMMA LoopBodyInv ==
  ASSUME NEW t \in Threads, NEW STATE p, NEW STATE todo, NEW STATE ok, NEW STATE total, NEW STATE idle,
         Between(t, p, todo, ok, total, idle), LoopBody(t, p, todo, ok, total, idle),
         UNCHANGED <<added, interrupted>>
  PROVE  Inv'
  BY ParkInv, TakeInv, ReturnInv DEF LoopBody

-----------------------------------------------------------------------------
(* The actions.                                                            *)

\* The invariant without thread t.
LEMMA Dropped ==
  ASSUME NEW t \in Threads, Inv
  PROVE  /\ IsFiniteSet(Held(vChecks, Others(t)))
         /\ Cardinality(Held(vChecks, Others(t))) \in Nat
         /\ Cardinality(Held(vChecks, Threads)) = Cardinality(Held(vChecks, Others(t))) + Len(vChecks[t])
         /\ Cardinality(In(pc, Others(t), {"exec"})) \in Nat
         /\ Cardinality(In(pc, Others(t), Waiting)) \in Nat
         /\ Cardinality(In(pc, Threads, {"exec"})) =
              Cardinality(In(pc, Others(t), {"exec"})) + (IF pc[t] = "exec" THEN 1 ELSE 0)
         /\ Cardinality(In(pc, Threads, Waiting)) =
              Cardinality(In(pc, Others(t), Waiting)) + (IF pc[t] \in Waiting THEN 1 ELSE 0)
<1>1. vChecks \in [Threads -> Seq(BOOLEAN)] /\ IsFiniteSet(Held(vChecks, Threads))
  BY DEF Inv, Steady
<1>2. IsFiniteSet(Held(vChecks, Others(t)))
  <2>1. Held(vChecks, Others(t)) \in SUBSET Held(vChecks, Threads)
    BY DEF Held, Others
  <2> QED
    BY <1>1, <2>1, FS_Subset
<1>3. /\ Cardinality(Held(vChecks, Others(t))) \in Nat
      /\ Cardinality(Held(vChecks, Threads)) = Cardinality(Held(vChecks, Others(t))) + Len(vChecks[t])
  BY <1>1, <1>2, HeldCount
<1>4. pc[t] \in {"exec"} <=> pc[t] = "exec"
  OBVIOUS
<1> QED
  BY <1>2, <1>3, <1>4, InCount

\* A thread that is outside the loop enters it, and counts itself.
LEMMA EnterBetween ==
  ASSUME NEW t \in Threads, Inv, pc[t] \in {"new", "out", "unwind"}, control \/ t # Master
  PROVE  Between(t, pc, nTodo, fAllOk, nTotal + 1, nIdle)
<1>1. pc[t] # "exec" /\ pc[t] \notin Waiting
  BY DEF Waiting
<1>2. vChecks[t] = <<>> /\ Len(vChecks[t]) = 0 /\ AllTrue(vChecks[t])
  BY <1>1 DEF Inv, Sound, AllTrue
<1>3. Sound(Others(t), pc, fAllOk)
  BY <1>2, SoundOthers DEF Inv, Sound
<1>4. /\ nTodo = Len(queue) + Cardinality(Held(vChecks, Threads))
      /\ nTotal = nIdle + Cardinality(In(pc, Threads, {"exec"}))
      /\ nIdle >= Cardinality(In(pc, Threads, Waiting))
      /\ nIdle \in Nat /\ nTotal \in Nat /\ nTodo \in Nat /\ queue \in Seq(BOOLEAN)
  BY DEF Inv, Steady
<1>5. /\ nTodo = Len(queue) + Cardinality(Held(vChecks, Others(t)))
      /\ nTotal + 1 = nIdle + Cardinality(In(pc, Others(t), {"exec"})) + 1
      /\ nIdle >= Cardinality(In(pc, Others(t), Waiting))
      /\ nTotal + 1 \in Nat /\ IsFiniteSet(Held(vChecks, Others(t)))
  BY <1>1, <1>2, <1>4, Dropped
<1> QED
  BY <1>3, <1>5 DEF Inv, Between

\* A thread comes back from the condition variable and is no longer idle.
LEMMA ResumeBetween ==
  ASSUME NEW t \in Threads, Inv, pc[t] = "woken"
  PROVE  Between(t, pc, nTodo, fAllOk, nTotal, nIdle - 1)
<1>1. pc[t] # "exec" /\ pc[t] \in Waiting
  BY DEF Waiting
<1>2. vChecks[t] = <<>> /\ Len(vChecks[t]) = 0 /\ AllTrue(vChecks[t])
  BY <1>1 DEF Inv, Sound, AllTrue
<1>3. Sound(Others(t), pc, fAllOk) /\ (~control => t # Master)
  BY <1>2, SoundOthers DEF Inv, Sound
<1>4. /\ nTodo = Len(queue) + Cardinality(Held(vChecks, Threads))
      /\ nTotal = nIdle + Cardinality(In(pc, Threads, {"exec"}))
      /\ nIdle >= Cardinality(In(pc, Threads, Waiting))
      /\ nIdle \in Nat /\ nTotal \in Nat /\ nTodo \in Nat /\ queue \in Seq(BOOLEAN)
  BY DEF Inv, Steady
<1>5. /\ nTodo = Len(queue) + Cardinality(Held(vChecks, Others(t)))
      /\ nTotal = nIdle - 1 + Cardinality(In(pc, Others(t), {"exec"})) + 1
      /\ nIdle - 1 >= Cardinality(In(pc, Others(t), Waiting))
      /\ nIdle - 1 \in Nat /\ IsFiniteSet(Held(vChecks, Others(t)))
  BY <1>1, <1>2, <1>4, Dropped
<1> QED
  BY <1>3, <1>5 DEF Inv, Between

\* A thread returns its batch; the master may be woken.
LEMMA FinishBetween ==
  ASSUME NEW t \in Threads, Inv, pc[t] = "exec", NEW STATE p,
         p \in [Threads -> States],
         \A u \in Threads : p[u] = pc[u] \/ (u = Master /\ pc[u] = "wait" /\ p[u] = "woken")
  PROVE  Between(t, p, nTodo - Len(vChecks[t]), fAllOk /\ fOk[t] /\ AllTrue(vChecks[t]), nTotal, nIdle)
<1> DEFINE ok == fAllOk /\ fOk[t] /\ AllTrue(vChecks[t])
<1>1. /\ pc[t] \notin Waiting /\ vChecks[t] # <<>> /\ control /\ ok \in BOOLEAN
      /\ Len(vChecks[t]) \in Nat
  BY DEF Inv, Steady, Sound, Waiting
<1>2. \A u \in Threads : p[u] = "exec" <=> pc[u] = "exec"
  OBVIOUS
<1>3. \A u \in Threads : p[u] \in Waiting <=> pc[u] \in Waiting
  BY DEF Waiting
<1>4. ok <=> fAllOk /\ AllTrue(vChecks[t])
  BY DEF Inv, Sound
<1>5. Sound(Others(t), p, ok)
  <2>1. \A u \in Others(t) : p[u] = "exec" <=> vChecks[u] # <<>>
    BY <1>2, SoundOthers DEF Inv, Sound
  <2>2. \A u \in Others(t) : p[u] = "exec" /\ ~fOk[u] => ~ok
    BY <1>2, SoundOthers DEF Inv, Sound
  <2>3. AllTrue(added) <=> fAllOk /\ AllTrue(queue) /\ \A u \in Threads : AllTrue(vChecks[u])
    BY <1>1 DEF Inv, Sound
  <2>4. (\A u \in Threads : AllTrue(vChecks[u])) <=>
          AllTrue(vChecks[t]) /\ \A u \in Others(t) : AllTrue(vChecks[u])
    BY SoundOthers
  <2> HIDE DEF ok
  <2>5. AllTrue(added) <=> ok /\ AllTrue(queue) /\ \A u \in Others(t) : AllTrue(vChecks[u])
    BY <1>4, <2>3, <2>4
  <2> QED
    BY <1>1, <2>1, <2>2, <2>5 DEF Sound
<1>6. /\ In(p, Others(t), {"exec"}) = In(pc, Others(t), {"exec"})
      /\ In(p, Others(t), Waiting) = In(pc, Others(t), Waiting)
  BY <1>2, <1>3, SoundOthers DEF In
<1>7. /\ nTodo = Len(queue) + Cardinality(Held(vChecks, Threads))
      /\ nTotal = nIdle + Cardinality(In(pc, Threads, {"exec"}))
      /\ nIdle >= Cardinality(In(pc, Threads, Waiting))
      /\ nIdle \in Nat /\ nTotal \in Nat /\ nTodo \in Nat /\ queue \in Seq(BOOLEAN)
  BY DEF Inv, Steady
<1>8. /\ nTodo - Len(vChecks[t]) = Len(queue) + Cardinality(Held(vChecks, Others(t)))
      /\ nTotal = nIdle + Cardinality(In(pc, Others(t), {"exec"})) + 1
      /\ nIdle >= Cardinality(In(pc, Others(t), Waiting))
      /\ nTodo - Len(vChecks[t]) \in Nat /\ IsFiniteSet(Held(vChecks, Others(t)))
  <2>1. /\ Cardinality(Held(vChecks, Threads)) = Cardinality(Held(vChecks, Others(t))) + Len(vChecks[t])
        /\ Cardinality(Held(vChecks, Others(t))) \in Nat /\ IsFiniteSet(Held(vChecks, Others(t)))
        /\ Len(queue) \in Nat
    BY <1>7, Dropped
  <2>2. /\ Cardinality(In(pc, Threads, {"exec"})) = Cardinality(In(pc, Others(t), {"exec"})) + 1
        /\ Cardinality(In(pc, Others(t), {"exec"})) \in Nat
        /\ Cardinality(In(pc, Threads, Waiting)) = Cardinality(In(pc, Others(t), Waiting)) + 0
        /\ Cardinality(In(pc, Others(t), Waiting)) \in Nat
    BY <1>1, Dropped
  <2>3. /\ nTodo - Len(vChecks[t]) = Len(queue) + Cardinality(Held(vChecks, Others(t)))
        /\ nTodo - Len(vChecks[t]) \in Nat
    BY <1>1, <1>7, <2>1, SMTT(30)
  <2>4. /\ nTotal = nIdle + Cardinality(In(pc, Others(t), {"exec"})) + 1
        /\ nIdle >= Cardinality(In(pc, Others(t), Waiting))
    BY <1>7, <2>2
  <2> QED
    BY <2>1, <2>3, <2>4
<1> HIDE DEF ok
<1>9. Between(t, p, nTodo - Len(vChecks[t]), ok, nTotal, nIdle)
  BY <1>1, <1>5, <1>6, <1>7, <1>8 DEF Inv, Between
<1> QED
  BY <1>9 DEF ok

\* Steps that only move threads among the states without a batch: the counts
\* of executing threads stay and no thread starts to wait.
Moves ==
  /\ pc' \in [Threads -> States]
  /\ \A u \in Threads : pc'[u] = "exec" <=> pc[u] = "exec"
  /\ \A u \in Threads : pc'[u] \in Waiting => pc[u] \in Waiting
  /\ ~control => pc'[Master] = "out"

\* What such a step keeps.
LEMMA MovesCounts ==
  ASSUME Inv, Moves, nIdle' = nIdle, nTotal' = nTotal
  PROVE  /\ nTotal' = nIdle' + Cardinality(In(pc', Threads, {"exec"}))
         /\ nIdle' >= Cardinality(In(pc', Threads, Waiting))
<1>1. In(pc', Threads, {"exec"}) = In(pc, Threads, {"exec"})
  BY DEF Moves, In
<1>2. In(pc', Threads, Waiting) \in SUBSET In(pc, Threads, Waiting)
  BY DEF Moves, In
<1>3. IsFiniteSet(In(pc, Threads, Waiting)) /\ Master \in Threads
  BY InCount DEF Threads
<1>4. /\ IsFiniteSet(In(pc', Threads, Waiting))
      /\ Cardinality(In(pc', Threads, Waiting)) =< Cardinality(In(pc, Threads, Waiting))
  BY <1>2, <1>3, FS_Subset
<1>5. Cardinality(In(pc', Threads, Waiting)) \in Nat /\ Cardinality(In(pc, Threads, Waiting)) \in Nat
  BY <1>3, <1>4, FS_CardinalityType
<1>6. /\ nTotal = nIdle + Cardinality(In(pc, Threads, {"exec"}))
      /\ nIdle >= Cardinality(In(pc, Threads, Waiting)) /\ nIdle \in Nat
  BY DEF Inv
<1>7. nIdle' >= Cardinality(In(pc', Threads, Waiting))
  BY <1>4, <1>5, <1>6
<1> QED
  BY <1>1, <1>6, <1>7

\* A step that changes nothing else keeps the invariant.
LEMMA MovesInv ==
  ASSUME Inv, Moves, interrupted' \in BOOLEAN,
         UNCHANGED <<queue, nIdle, nTotal, nTodo, fAllOk, vChecks, fOk, control, added, fRet>>
  PROVE  Inv'
<1>1. Steady'
  BY DEF Inv, Steady
<1>2. Sound(Threads, pc, fAllOk)'
  BY DEF Inv, Sound, Moves, AllTrue
<1>3. /\ nTotal' = nIdle' + Cardinality(In(pc', Threads, {"exec"}))
      /\ nIdle' >= Cardinality(In(pc', Threads, Waiting))
  BY MovesCounts
<1>4. IsFiniteSet(Held(vChecks, Threads))' /\ (nTodo = Len(queue) + Cardinality(Held(vChecks, Threads)))'
  BY DEF Inv
<1> QED
  BY <1>1, <1>2, <1>3, <1>4 DEF Inv, Moves

\* OpenControl starts the next block with the verdict of no check at all.
LEMMA OpenControlInv ==
  ASSUME Inv, OpenControl
  PROVE  Inv'
<1>1. Steady'
  BY DEF Inv, Steady, OpenControl
<1>2. Sound(Threads, pc, fAllOk)'
  <2>1. /\ fAllOk /\ queue = <<>> /\ \A u \in Threads : vChecks[u] = <<>>
        /\ \A u \in Threads : pc[u] = "exec" <=> vChecks[u] # <<>>
        /\ \A u \in Threads : pc[u] = "exec" /\ ~fOk[u] => ~fAllOk
    BY DEF Inv, Sound, OpenControl
  <2>2. AllTrue(<<>>)
    BY DEF AllTrue
  <2>3. added' = <<>> /\ control' = TRUE /\ UNCHANGED <<fAllOk, queue, vChecks, pc, fOk>>
    BY DEF OpenControl
  <2> QED
    BY <2>1, <2>2, <2>3 DEF Sound, AllTrue
<1> QED
  BY <1>1, <1>2 DEF Inv, OpenControl

\* Add counts the new checks and wakes waiting workers.
LEMMA AddInv ==
  ASSUME NEW results \in Batches, Inv, Add(results)
  PROVE  Inv'
<1>1. results \in Seq(BOOLEAN) /\ Len(results) \in Nat
  <2>1. /\ <<>> \in Seq(BOOLEAN) /\ \A a \in BOOLEAN : <<a>> \in Seq(BOOLEAN)
        /\ \A a, b \in BOOLEAN : <<a, b>> \in Seq(BOOLEAN)
    OBVIOUS
  <2>2. results \in Seq(BOOLEAN)
    BY <2>1 DEF Batches
  <2> QED
    BY <2>2
<1>2. /\ queue \in Seq(BOOLEAN) /\ added \in Seq(BOOLEAN) /\ control
      /\ queue' = queue \o results /\ added' = added \o results
      /\ nTodo' = nTodo + Len(results) /\ nTodo \in Nat
      /\ UNCHANGED <<nIdle, nTotal, fAllOk, vChecks, fOk, control, interrupted, fRet>>
  BY DEF Inv, Steady, Add
<1>3. /\ queue' \in Seq(BOOLEAN) /\ added' \in Seq(BOOLEAN)
      /\ Len(queue') = Len(queue) + Len(results) /\ Len(queue) \in Nat
  BY <1>1, <1>2
<1>4. Moves
  <2>1. PICK woken \in Notified(Len(results)) :
             pc' = [t \in Threads |-> IF t \in woken THEN "woken" ELSE pc[t]]
    BY DEF Add
  <2>2. \A u \in woken : pc[u] = "wait"
    <3> DEFINE waiting == {w \in Workers : pc[w] = "wait"}
    <3>1. CASE Len(results) = 0
      BY <2>1, <3>1 DEF Notified
    <3>2. CASE Len(results) = 1
      <4>1. Notified(1) = IF waiting = {} THEN {{}} ELSE {{w} : w \in waiting}
        BY DEF Notified
      <4>2. woken = {} \/ \E w \in waiting : woken = {w}
        BY <2>1, <3>2, <4>1
      <4> QED
        BY <4>2
    <3>3. CASE Len(results) > 1
      <4>1. Notified(Len(results)) = {waiting}
        BY <1>1, <3>3 DEF Notified
      <4> QED
        BY <2>1, <4>1
    <3>4. \A n \in Nat : n = 0 \/ n = 1 \/ n > 1
      OBVIOUS
    <3> QED
      BY <1>1, <3>1, <3>2, <3>3, <3>4
  <2> QED
    BY <1>2, <2>1, <2>2 DEF Moves, Inv, States, Waiting
<1>5. Sound(Threads, pc, fAllOk)'
  <2>1. AllTrue(added') <=> AllTrue(added) /\ AllTrue(results)
    BY <1>1, <1>2, AllTrueConcat
  <2>2. AllTrue(queue') <=> AllTrue(queue) /\ AllTrue(results)
    BY <1>1, <1>2, AllTrueConcat
  <2>3. AllTrue(added) <=> fAllOk /\ AllTrue(queue) /\ \A u \in Threads : AllTrue(vChecks[u])
    BY <1>2 DEF Inv, Sound
  <2>4. AllTrue(added') <=> fAllOk /\ AllTrue(queue') /\ \A u \in Threads : AllTrue(vChecks[u])
    BY <2>1, <2>2, <2>3
  <2>5. \A u \in Threads : pc'[u] = "exec" <=> vChecks[u] # <<>>
    BY <1>4 DEF Moves, Inv, Sound
  <2>6. \A u \in Threads : pc'[u] = "exec" /\ ~fOk[u] => ~fAllOk
    BY <1>4 DEF Moves, Inv, Sound
  <2> QED
    BY <1>2, <2>4, <2>5, <2>6 DEF Sound, AllTrue
<1>6. Steady'
  BY <1>2, <1>3 DEF Inv, Steady
<1>7. /\ nTotal' = nIdle' + Cardinality(In(pc', Threads, {"exec"}))
      /\ nIdle' >= Cardinality(In(pc', Threads, Waiting))
  BY <1>2, <1>4, MovesCounts
<1>8. IsFiniteSet(Held(vChecks, Threads))' /\ (nTodo = Len(queue) + Cardinality(Held(vChecks, Threads)))'
  <2>1. Cardinality(Held(vChecks, Threads)) \in Nat
    BY FS_CardinalityType DEF Inv
  <2>2. nTodo = Len(queue) + Cardinality(Held(vChecks, Threads)) /\ IsFiniteSet(Held(vChecks, Threads))
    BY DEF Inv
  <2>3. nTodo' = Len(queue') + Cardinality(Held(vChecks, Threads))
    BY <1>1, <1>2, <1>3, <2>1, <2>2
  <2> QED
    BY <1>2, <2>2, <2>3
<1> QED
  BY <1>1, <1>2, <1>4, <1>5, <1>6, <1>7, <1>8 DEF Inv, Moves

\* Init establishes the invariant.
LEMMA InitInv ==
  ASSUME Init PROVE Inv
<1>1. Held(vChecks, Threads) = {}
  BY DEF Init, Held
<1>2. In(pc, Threads, {"exec"}) = {} /\ In(pc, Threads, Waiting) = {}
  BY DEF Init, In, Waiting
<1>3. IsFiniteSet({}) /\ Cardinality({}) = 0
  BY FS_EmptySet
<1>4. AllTrue(<<>>)
  BY DEF AllTrue
<1>5. Sound(Threads, pc, fAllOk)
  BY <1>4 DEF Init, Sound, AllTrue
<1>6. Steady
  <2>1. <<>> \in Seq(BOOLEAN)
    OBVIOUS
  <2>2. /\ vChecks = [t \in Threads |-> <<>>] /\ fOk = [t \in Threads |-> TRUE]
        /\ queue = <<>> /\ added = <<>> /\ control = FALSE /\ interrupted = FALSE /\ fRet = TRUE
    BY DEF Init
  <2>3. vChecks \in [Threads -> Seq(BOOLEAN)] /\ fOk \in [Threads -> BOOLEAN]
    BY <2>1, <2>2
  <2> QED
    BY <2>1, <2>2, <2>3 DEF Steady
<1>7. pc \in [Threads -> States] /\ pc[Master] = "out"
  BY DEF Init, States, Threads
<1>8. Len(queue) = 0 /\ nTodo = 0 /\ nTotal = 0 /\ nIdle = 0 /\ fAllOk = TRUE
  BY DEF Init
<1> QED
  BY <1>1, <1>2, <1>3, <1>5, <1>6, <1>7, <1>8 DEF Inv

\* Every step keeps it.
LEMMA NextInv ==
  ASSUME Inv, [Next]_vars PROVE Inv'
<1>0. Master \in Threads /\ Workers \subseteq Threads /\ \A w \in Workers : w # Master
  BY CheckQueueAssumption DEF Threads
<1>1. ASSUME NEW w \in Workers, StartWorker(w) PROVE Inv'
  BY <1>0, <1>1, EnterBetween, LoopBodyInv DEF StartWorker
<1>2. CASE OpenControl
  BY <1>2, OpenControlInv
<1>3. ASSUME NEW results \in Batches, Add(results) PROVE Inv'
  BY <1>3, AddInv
<1>4. CASE Wait
  BY <1>0, <1>4, EnterBetween, LoopBodyInv DEF Wait
<1>5. ASSUME NEW t \in Threads, Finish(t) PROVE Inv'
  <2> DEFINE todo == nTodo - Len(vChecks[t])
             ok   == fAllOk /\ fOk[t] /\ AllTrue(vChecks[t])
             p    == IF todo = 0 /\ t # Master /\ pc[Master] = "wait"
                     THEN [pc EXCEPT ![Master] = "woken"] ELSE pc
  <2>1. /\ pc[t] = "exec" /\ LoopBody(t, p, todo, ok, nTotal, nIdle)
        /\ UNCHANGED <<added, interrupted>>
    BY <1>5 DEF Finish
  <2>2. /\ p \in [Threads -> States]
        /\ \A u \in Threads : p[u] = pc[u] \/ (u = Master /\ pc[u] = "wait" /\ p[u] = "woken")
    <3>1. pc \in [Threads -> States] /\ "woken" \in States
      BY DEF Inv, States
    <3> QED
      BY <1>0, <3>1
  <2> HIDE DEF p
  <2>3. Between(t, p, todo, ok, nTotal, nIdle)
    BY <2>1, <2>2, FinishBetween
  <2> HIDE DEF todo, ok
  <2> QED
    BY <2>1, <2>3, LoopBodyInv
<1>6. ASSUME NEW t \in Threads, Resume(t) PROVE Inv'
  BY <1>6, ResumeBetween, LoopBodyInv DEF Resume
<1>7. ASSUME NEW t \in Threads, SpuriousWakeup(t) PROVE Inv'
  <2>1. Moves /\ interrupted' \in BOOLEAN
    BY <1>0, <1>7 DEF SpuriousWakeup, Moves, Inv, Steady, States, Waiting
  <2> QED
    BY <1>7, <2>1, MovesInv DEF SpuriousWakeup
<1>8. ASSUME NEW w \in Workers, Interrupt(w) PROVE Inv'
  <2>1. Moves /\ interrupted' \in BOOLEAN
    BY <1>0, <1>8 DEF Interrupt, Moves, Inv, Steady, States, Waiting
  <2> QED
    BY <1>8, <2>1, MovesInv DEF Interrupt
<1>9. CASE InterruptMaster
  <2>1. Moves /\ interrupted' \in BOOLEAN
    BY <1>0, <1>9 DEF InterruptMaster, Moves, Inv, Steady, States, Waiting
  <2> QED
    BY <1>9, <2>1, MovesInv DEF InterruptMaster
<1>10. CASE DestroyControl
  <2>1. control
    BY <1>10 DEF DestroyControl, Inv
  <2> QED
    BY <1>0, <1>10, <2>1, EnterBetween, LoopBodyInv DEF DestroyControl
<1>11. CASE UNCHANGED vars
  <2>1. Moves /\ interrupted' \in BOOLEAN
    BY <1>11 DEF vars, Moves, Inv, Steady
  <2> QED
    BY <1>11, <2>1, MovesInv DEF vars
<1> QED
  BY <1>1, <1>2, <1>3, <1>4, <1>5, <1>6, <1>7, <1>8, <1>9, <1>10, <1>11 DEF Next

\* The invariant holds in every behaviour.
LEMMA InvAlways == Spec => []Inv
  BY InitInv, NextInv, PTL DEF Spec

-----------------------------------------------------------------------------
(* The theorems.                                                           *)

\* ConnectBlock's verdict is exact for any number of script check threads,
\* batch size and checks (CCheckQueue::Loop, the master's return).
THEOREM VerdictAlwaysExact == Spec => []VerdictExact
<1>1. Inv => VerdictExact
  BY DEF Inv, Sound, VerdictExact
<1> QED
  BY <1>1, InvAlways, PTL

\* No thread holds a check of a block whose control is gone, so no check can
\* run on a freed block (CCheckQueueControl's destructor waits for all).
THEOREM ChecksEndWithControl == Spec => []ChecksDoNotOutliveControl
<1>1. Inv => ChecksDoNotOutliveControl
  BY DEF Inv, Sound, ChecksDoNotOutliveControl
<1> QED
  BY <1>1, InvAlways, PTL

\* nTotal - nIdle counts the threads with a batch, interrupts included.
THEOREM AccountingAlwaysExact == Spec => []IdleAccounting
<1>1. ASSUME Inv PROVE IdleAccounting
  <2>1. In(pc, Threads, {"exec"}) = {t \in Threads : pc[t] = "exec"}
    BY DEF In
  <2>2. Cardinality(In(pc, Threads, {"exec"})) \in Nat
    BY InCount DEF Threads
  <2>3. nTotal = nIdle + Cardinality(In(pc, Threads, {"exec"})) /\ nIdle \in Nat
    BY <1>1 DEF Inv
  <2>4. nTotal - nIdle = Cardinality(In(pc, Threads, {"exec"}))
    BY <2>2, <2>3
  <2> QED
    BY <2>1, <2>4 DEF IdleAccounting
<1> QED
  BY <1>1, InvAlways, PTL

\* The assertion of CCheckQueueControl never fails: without a control the
\* queue is idle.
THEOREM AlwaysIdleBetweenBlocks == Spec => []IdleBetweenBlocks
<1>1. ASSUME Inv, ~control PROVE IsIdle
  <2>1. fAllOk /\ queue = <<>> /\ \A u \in Threads : vChecks[u] = <<>> /\ pc[u] # "exec"
    BY <1>1 DEF Inv, Sound
  <2>2. Held(vChecks, Threads) = {}
    BY <2>1 DEF Held
  <2>3. In(pc, Threads, {"exec"}) = {}
    BY <2>1 DEF In
  <2>4. Cardinality({}) = 0
    BY FS_EmptySet
  <2>5. nTodo = Len(<<>>) + 0 /\ nTotal = nIdle + 0 /\ nIdle \in Nat
    BY <1>1, <2>1, <2>2, <2>3, <2>4 DEF Inv
  <2> QED
    BY <2>1, <2>5 DEF IsIdle
<1>2. Inv => IdleBetweenBlocks
  BY <1>1 DEF IdleBetweenBlocks
<1> QED
  BY <1>2, InvAlways, PTL

\* Every variable has its type: in particular the unsigned counters nTodo and
\* nIdle never go below zero, whatever the order of wakeups and interrupts.
THEOREM CountersNeverUnderflow == Spec => []TypeOK
<1>1. Inv => TypeOK
  BY DEF Inv, Steady, States, TypeOK
<1> QED
  BY <1>1, InvAlways, PTL
=============================================================================
