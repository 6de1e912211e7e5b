-------------------------- MODULE ServerWorkProofs --------------------------
(***************************************************************************)
(* Proofs about what one server process admits and reports and about its   *)
(* operator's scripts: the work gates and the counted sign-in attempts,    *)
(* the readiness gate, and backups and restores, for any jobs, slots,      *)
(* accounts, configurations, requests, commands and runs of the scripts.   *)
(***************************************************************************)
EXTENDS Admission, Readiness, Backups, SequenceTheorems, FiniteSetTheorems,
        WellFoundedInduction, TLAPS

----------------------------------------------------------------------------
(* Sequences and least numbers.                                            *)

LEMMA MinIs ==
    ASSUME NEW S, S \subseteq Nat, S # {}
    PROVE  Min(S) \in S /\ \A k \in S : Min(S) <= k
<1>1. IsWellFoundedOn(OpToRel(<, Nat), Nat)
  BY NatLessThanWellFounded
<1>2. PICK i \in S : \A k \in S : ~(<<k, i>> \in OpToRel(<, Nat))
  BY <1>1, WFMin
<1>3. ASSUME NEW k \in S PROVE i <= k
  <2>1. ~(<<k, i>> \in OpToRel(<, Nat))
    BY <1>2
  <2> QED
    BY <2>1 DEF OpToRel
<1>4. \E n \in S : \A k \in S : n <= k
  BY <1>3
<1> QED
  BY <1>4 DEF Min

LEMMA SuffixIs ==
    ASSUME NEW S, NEW q \in Seq(S), NEW n \in 0..(Len(q) + 1)
    PROVE  /\ SubSeq(q, n + 1, Len(q)) \in Seq(S)
           /\ Len(SubSeq(q, n + 1, Len(q))) = IF n < Len(q) THEN Len(q) - n ELSE 0
           /\ \A k \in 1..(Len(q) - n) : SubSeq(q, n + 1, Len(q))[k] = q[n + k]
<1>1. Len(q) \in Nat /\ \A k \in 1..Len(q) : q[k] \in S
  BY LenProperties, ElementOfSeq
<1>2. PICK m : m = n + 1
  OBVIOUS
<1>3. m \in Int /\ Len(q) \in Int /\ \A k \in m..Len(q) : q[k] \in S
  BY <1>1, <1>2
<1>4. /\ SubSeq(q, m, Len(q)) \in Seq(S)
      /\ Len(SubSeq(q, m, Len(q))) = IF m <= Len(q) THEN Len(q) - m + 1 ELSE 0
      /\ \A k \in 1..(Len(q) - m + 1) : SubSeq(q, m, Len(q))[k] = q[m + k - 1]
  BY <1>3, SubSeqProperties
<1>5. /\ Len(q) - m + 1 = Len(q) - n /\ (m <= Len(q) <=> n < Len(q))
      /\ \A k \in 1..(Len(q) - n) : m + k - 1 = n + k
  BY <1>1, <1>2
<1> QED
  BY <1>2, <1>4, <1>5

LEMMA RemoveAtIs ==
    ASSUME NEW S, NEW q \in Seq(S), NEW i \in 1..Len(q)
    PROVE  /\ RemoveAt(q, i) \in Seq(S) /\ Len(RemoveAt(q, i)) = Len(q) - 1
           /\ \A k \in 1..(Len(q) - 1) : RemoveAt(q, i)[k] = IF k < i THEN q[k] ELSE q[k + 1]
<1>1. Len(q) \in Nat /\ \A k \in 1..Len(q) : q[k] \in S
  BY LenProperties, ElementOfSeq
<1>2. /\ SubSeq(q, 1, i - 1) \in Seq(S) /\ Len(SubSeq(q, 1, i - 1)) = i - 1
      /\ \A k \in 1..(i - 1) : SubSeq(q, 1, i - 1)[k] = q[k]
  <2>1. /\ 1 \in Int /\ i - 1 \in Int /\ \A k \in 1..(i - 1) : q[k] \in S
        /\ (IF 1 <= i - 1 THEN (i - 1) - 1 + 1 ELSE 0) = i - 1
        /\ (i - 1) - 1 + 1 = i - 1 /\ \A k \in 1..(i - 1) : 1 + k - 1 = k
    BY <1>1
  <2>2. /\ SubSeq(q, 1, i - 1) \in Seq(S)
        /\ Len(SubSeq(q, 1, i - 1)) = IF 1 <= i - 1 THEN (i - 1) - 1 + 1 ELSE 0
        /\ \A k \in 1..((i - 1) - 1 + 1) : SubSeq(q, 1, i - 1)[k] = q[1 + k - 1]
    BY <2>1, SubSeqProperties
  <2> QED
    BY <2>1, <2>2
<1>3. /\ SubSeq(q, i + 1, Len(q)) \in Seq(S) /\ Len(SubSeq(q, i + 1, Len(q))) = Len(q) - i
      /\ \A k \in 1..(Len(q) - i) : SubSeq(q, i + 1, Len(q))[k] = q[i + k]
  <2>1. i \in 0..(Len(q) + 1) /\ (i < Len(q) \/ Len(q) - i = 0)
    BY <1>1
  <2> QED
    BY <2>1, SuffixIs
<1>4. PICK a \in Seq(S), b \in Seq(S) :
        /\ a = SubSeq(q, 1, i - 1) /\ b = SubSeq(q, i + 1, Len(q))
        /\ RemoveAt(q, i) = a \o b
  BY <1>2, <1>3 DEF RemoveAt
<1>l. Len(a) = i - 1 /\ Len(b) = Len(q) - i /\ Len(a) + Len(b) = Len(q) - 1
  <2>1. Len(a) = i - 1
    BY <1>2, <1>4
  <2>2. Len(b) = Len(q) - i
    BY <1>3, <1>4
  <2> QED
    BY <1>1, <2>1, <2>2
<1>5. /\ a \o b \in Seq(S) /\ Len(a \o b) = Len(a) + Len(b)
      /\ \A k \in 1..(Len(a) + Len(b)) :
            (a \o b)[k] = IF k <= Len(a) THEN a[k] ELSE b[k - Len(a)]
  BY ConcatProperties
<1>6. ASSUME NEW k \in 1..(Len(q) - 1)
      PROVE  RemoveAt(q, i)[k] = IF k < i THEN q[k] ELSE q[k + 1]
  <2>1. CASE k < i
    <3>1. k \in 1..(i - 1) /\ k <= i - 1 /\ k \in 1..(Len(a) + Len(b))
      BY <1>1, <1>l, <2>1
    <3>2. a[k] = q[k]
      BY <1>2, <1>4, <3>1
    <3>3. (a \o b)[k] = a[k]
      BY <1>5, <1>l, <3>1
    <3> QED
      BY <1>4, <2>1, <3>2, <3>3
  <2>2. CASE k >= i
    <3>1. /\ k - (i - 1) \in 1..(Len(q) - i) /\ i + (k - (i - 1)) = k + 1
          /\ ~(k <= i - 1) /\ ~(k < i) /\ k \in 1..(Len(a) + Len(b))
      BY <1>1, <1>l, <2>2
    <3>2. b[k - (i - 1)] = q[i + (k - (i - 1))]
      BY <1>3, <1>4, <3>1
    <3>3. (a \o b)[k] = b[k - Len(a)]
      BY <1>5, <1>l, <3>1
    <3> QED
      BY <1>4, <1>l, <3>1, <3>2, <3>3
  <2> QED
    BY <1>1, <2>1, <2>2
<1> QED
  BY <1>4, <1>5, <1>6, <1>l

\* The first job in time starts, and those before it expire.
LEMMA TakenIs ==
    ASSUME NEW S, NEW q \in Seq(S), NEW t, t = Taken(q)
    PROVE  \E first \in 1..(Len(q) + 1) :
              /\ t.over = {q[i] : i \in 1..(first - 1)}
              /\ t.started = {q[i] : i \in {first} \cap 1..Len(q)}
              /\ t.rest \in Seq(S)
              /\ Len(t.rest) = IF first < Len(q) THEN Len(q) - first ELSE 0
              /\ \A i \in 1..(Len(q) - first) : t.rest[i] = q[first + i]
<1>1. Len(q) \in Nat /\ \A k \in 1..Len(q) : q[k] \in S
  BY LenProperties, ElementOfSeq
<1>2. PICK inTime : inTime = {i \in 1..Len(q) : q[i] \notin late}
  OBVIOUS
<1>3. PICK first : first = Min(inTime \cup {Len(q) + 1})
  OBVIOUS
<1>o. PICK over : over = {q[i] : i \in 1..(first - 1)}
  OBVIOUS
<1>s. PICK started : started = {q[i] : i \in {first} \cap 1..Len(q)}
  OBVIOUS
<1>r. PICK rest : rest = SubSeq(q, first + 1, Len(q))
  OBVIOUS
<1>4. t = [over |-> over, started |-> started, rest |-> rest]
  BY <1>2, <1>3, <1>o, <1>s, <1>r DEF Taken
<1>5. first \in 1..(Len(q) + 1)
  <2>1. inTime \cup {Len(q) + 1} \subseteq 1..(Len(q) + 1)
    BY <1>1, <1>2
  <2>2. inTime \cup {Len(q) + 1} \subseteq Nat
    BY <1>1, <2>1
  <2> QED
    BY <1>3, <2>1, <2>2, MinIs
<1>6. first \in 0..(Len(q) + 1)
  BY <1>1, <1>5
<1>7. t.rest = SubSeq(q, first + 1, Len(q))
  <2>1. t.rest = rest
    BY <1>4
  <2> QED
    BY <1>r, <2>1, Zenon
<1>8. /\ t.rest \in Seq(S)
      /\ Len(t.rest) = IF first < Len(q) THEN Len(q) - first ELSE 0
      /\ \A i \in 1..(Len(q) - first) : t.rest[i] = q[first + i]
  BY <1>6, <1>7, SuffixIs
<1> QED
  BY <1>4, <1>5, <1>8, <1>o, <1>s

----------------------------------------------------------------------------
(* The work gates.                                                         *)

\* What a job may be doing while it has a slot: a sign-in waits for its hash in one.
HeldSteps(g) ==
    IF g = "login" THEN {"claim", "verify", "waitingHash", "hashing", "hashed", "done"}
    ELSE IF g = "hash" THEN {"hashing", "hashed", "done"} ELSE {"work", "done"}

\* Who waits does nothing else, and only in its own gate or for a hash.
WaitsIn(g, j, at) == at = Waiting(g) /\ (g = "hash" \/ g = GateOf(j))

GateOK(g) ==
    /\ IsFiniteSet(holds[g]) /\ Cardinality(holds[g]) <= Slots[g]
    /\ \A j \in holds[g] : step[j] \in HeldSteps(g)
    /\ queue[g] # <<>> => ~HasSlot(g)
    /\ \A i \in 1..Len(queue[g]) : WaitsIn(g, queue[g][i], step[queue[g][i]])
    /\ \A i, k \in 1..Len(queue[g]) : queue[g][i] = queue[g][k] => i = k

GatesInv ==
    /\ holds \in [Gates -> SUBSET Jobs] /\ queue \in [Gates -> Seq(Jobs)]
    /\ step \in [Jobs -> Steps]
    /\ \A g \in Gates : GateOK(g)

\* A job that waits for nothing goes on, as its slots allow.
Advances(j) ==
    \/ step'[j] = step[j]
    \/ /\ step[j] \notin {"waiting", "waitingHash"}
       /\ \A g \in Gates : step[j] \in HeldSteps(g) => step'[j] \in HeldSteps(g)

\* A job leaves the queue of g, into a slot or for good.
Leaves(g, j) ==
    /\ \E i \in 1..Len(queue[g]) : queue[g][i] = j
    /\ step'[j] \in {Running(g, j), "done"}

----------------------------------------------------------------------------

LEMMA QueueFacts ==
    ASSUME GatesInv, NEW g \in Gates
    PROVE  /\ Len(queue[g]) \in Nat
           /\ \A i \in 1..Len(queue[g]) : queue[g][i] \in Jobs
           /\ queue[g] = <<>> <=> Len(queue[g]) = 0
<1>1. queue[g] \in Seq(Jobs)
  BY DEF GatesInv
<1>2. Len(queue[g]) \in Nat /\ \A i \in 1..Len(queue[g]) : queue[g][i] \in Jobs
  BY <1>1, LenProperties, ElementOfSeq
<1>3. queue[g] = <<>> <=> Len(queue[g]) = 0
  BY <1>1, EmptySeq
<1> QED
  BY <1>2, <1>3

\* No job waits in two queues, and a slot that a waiting job has allows what comes next.
LEMMA OtherGateKept ==
    ASSUME GatesInv, NEW g \in Gates, NEW h \in Gates \ {g},
           holds'[h] = holds[h], queue'[h] = queue[h],
           \A j \in Jobs : Advances(j) \/ Leaves(g, j)
    PROVE  GateOK(h)'
<1>1. GateOK(h) /\ GateOK(g)
  BY DEF GatesInv
<1>2. ASSUME NEW i \in 1..Len(queue[h]) PROVE WaitsIn(h, queue[h][i], step'[queue[h][i]])
  <2>1. PICK j \in Jobs : j = queue[h][i]
    BY QueueFacts
  <2>2. WaitsIn(h, j, step[j])
    BY <1>1, <2>1 DEF GateOK
  <2>3. ~Leaves(g, j)
    <3>1. SUFFICES ASSUME Leaves(g, j) PROVE FALSE
      OBVIOUS
    <3>2. WaitsIn(g, j, step[j])
      BY <1>1, <3>1 DEF GateOK, Leaves
    <3> QED
      BY <2>2, <3>2 DEF WaitsIn, Waiting, Gates
  <2>4. step'[j] = step[j]
    BY <2>2, <2>3 DEF Advances, WaitsIn, Waiting
  <2> QED
    BY <2>1, <2>2, <2>4 DEF WaitsIn
<1>3. ASSUME NEW j \in holds[h] PROVE step'[j] \in HeldSteps(h)
  <2>1. step[j] \in HeldSteps(h) /\ j \in Jobs
    BY <1>1 DEF GateOK, GatesInv
  <2>2. CASE Advances(j)
    BY <2>1, <2>2 DEF Advances
  <2>3. CASE Leaves(g, j)
    <3>1. step[j] = Waiting(g)
      BY <1>1, <2>3 DEF GateOK, Leaves, WaitsIn
    <3>2. g = "hash" /\ h = "login"
      BY <2>1, <3>1 DEF HeldSteps, Waiting, Gates
    <3> QED
      BY <2>3, <3>2 DEF Leaves, HeldSteps, Running
  <2> QED
    BY <2>1, <2>2, <2>3
<1>4. HasSlot(h)' <=> HasSlot(h)
  BY DEF HasSlot
<1> QED
  BY <1>1, <1>2, <1>3, <1>4 DEF GateOK

\* Jobs go on, and the gates are left alone.
LEMMA AdvanceInv ==
    ASSUME GatesInv, UNCHANGED <<holds, queue>>, step' \in [Jobs -> Steps],
           \A j \in Jobs : Advances(j)
    PROVE  GatesInv'
<1>1. ASSUME NEW h \in Gates PROVE GateOK(h)'
  <2>1. PICK g \in Gates : h # g
    BY DEF Gates
  <2> QED
    BY <2>1, OtherGateKept
<1> QED
  BY <1>1 DEF GatesInv

LEMMA GatesOne ==
    ASSUME GatesInv, NEW g \in Gates, step' \in [Jobs -> Steps],
           \A h \in Gates \ {g} : holds'[h] = holds[h] /\ queue'[h] = queue[h],
           \A j \in Jobs : Advances(j) \/ Leaves(g, j),
           holds' \in [Gates -> SUBSET Jobs], queue' \in [Gates -> Seq(Jobs)], GateOK(g)'
    PROVE  GatesInv'
<1>1. ASSUME NEW h \in Gates \ {g} PROVE GateOK(h)'
  BY OtherGateKept
<1> QED
  BY <1>1 DEF GatesInv

\* A job comes to a gate, or a sign-in to the gate of the hashes.
LEMMA EnterInv ==
    ASSUME GatesInv, NEW g \in Gates, NEW j \in Jobs, EnterGate(g, j),
           \/ step[j] = "new" /\ g = GateOf(j)
           \/ step[j] = "verify" /\ g = "hash"
    PROVE  GatesInv'
<1>1. GateOK(g) /\ holds \in [Gates -> SUBSET Jobs] /\ queue \in [Gates -> Seq(Jobs)]
      /\ step \in [Jobs -> Steps]
  BY DEF GatesInv
<1>2. step'[j] \in {Running(g, j), Waiting(g), "done"} /\ step' = [step EXCEPT ![j] = step'[j]]
  BY <1>1 DEF EnterGate
<1>3. step' \in [Jobs -> Steps] /\ \A k \in Jobs \ {j} : step'[k] = step[k]
  BY <1>1, <1>2 DEF Running, Waiting, Steps
<1>4. Advances(j)
  BY <1>2 DEF Advances, HeldSteps, Running, Waiting, Gates
<1>5. \A k \in Jobs : Advances(k)
  BY <1>3, <1>4 DEF Advances
<1>6. \A k \in holds[g] : step'[k] \in HeldSteps(g)
  BY <1>1, <1>5 DEF GateOK, Advances
<1>7. ASSUME NEW i \in 1..Len(queue[g]) PROVE WaitsIn(g, queue[g][i], step'[queue[g][i]]) /\ queue[g][i] # j
  <2>1. WaitsIn(g, queue[g][i], step[queue[g][i]]) /\ queue[g][i] \in Jobs
    BY <1>1, QueueFacts DEF GateOK
  <2>2. queue[g][i] # j
    BY <2>1 DEF WaitsIn, Waiting
  <2> QED
    BY <1>3, <2>1, <2>2 DEF WaitsIn
<1>8. CASE HasSlot(g) /\ step' = [step EXCEPT ![j] = Running(g, j)]
           /\ holds' = [holds EXCEPT ![g] = @ \cup {j}] /\ UNCHANGED queue
  <2>1. holds'[g] = holds[g] \cup {j} /\ \A h \in Gates \ {g} : holds'[h] = holds[h]
    BY <1>1, <1>8
  <2>2. IsFiniteSet(holds'[g]) /\ Cardinality(holds'[g]) <= Slots[g]
    <3>1. IsFiniteSet(holds[g])
      BY <1>1 DEF GateOK
    <3>2. /\ IsFiniteSet(holds[g] \cup {j})
          /\ Cardinality(holds[g] \cup {j}) =
                IF j \in holds[g] THEN Cardinality(holds[g]) ELSE Cardinality(holds[g]) + 1
      BY <3>1, FS_AddElement, Zenon
    <3>3. Cardinality(holds[g]) \in Nat /\ Slots[g] \in Nat /\ Cardinality(holds[g]) < Slots[g]
      BY <1>8, <3>1, FS_CardinalityType, AdmissionAssumption DEF HasSlot
    <3> QED
      BY <2>1, <3>2, <3>3
  <2>3. queue[g] = <<>>
    BY <1>1, <1>8 DEF GateOK
  <2>4. step'[j] \in HeldSteps(g)
    BY <1>1, <1>8 DEF Running, HeldSteps, Gates
  <2>5. GateOK(g)'
    <3>1. \A k \in holds'[g] : step'[k] \in HeldSteps(g)
      BY <1>6, <2>1, <2>4
    <3>2. queue'[g] = <<>> /\ Len(queue'[g]) = 0
      BY <1>8, <2>3
    <3> QED
      BY <2>2, <3>1, <3>2 DEF GateOK
  <2>6. holds' \in [Gates -> SUBSET Jobs]
    BY <1>1, <1>8
  <2> QED
    BY <1>1, <1>3, <1>5, <1>8, <2>1, <2>5, <2>6, GatesOne
<1>9. CASE ~HasSlot(g) /\ step' = [step EXCEPT ![j] = Waiting(g)]
           /\ queue' = [queue EXCEPT ![g] = Append(@, j)] /\ UNCHANGED holds
  <2>1. queue'[g] = Append(queue[g], j) /\ \A h \in Gates \ {g} : queue'[h] = queue[h]
    BY <1>1, <1>9
  <2>2. queue[g] \in Seq(Jobs) /\ Len(queue[g]) \in Nat
    BY <1>1, LenProperties
  <2>3. /\ queue'[g] \in Seq(Jobs) /\ Len(queue'[g]) = Len(queue[g]) + 1
        /\ queue'[g][Len(queue[g]) + 1] = j
        /\ \A i \in 1..Len(queue[g]) : queue'[g][i] = queue[g][i]
    BY <2>1, <2>2, AppendProperties
  <2>4. WaitsIn(g, j, step'[j])
    BY <1>1, <1>9 DEF WaitsIn
  <2>5. ASSUME NEW i \in 1..Len(queue'[g]) PROVE WaitsIn(g, queue'[g][i], step'[queue'[g][i]])
    <3>1. i = Len(queue[g]) + 1 \/ i \in 1..Len(queue[g])
      BY <2>2, <2>3
    <3>2. CASE i = Len(queue[g]) + 1
      BY <2>3, <2>4, <3>2 DEF WaitsIn
    <3>3. CASE i \in 1..Len(queue[g])
      BY <1>7, <2>3, <3>3 DEF WaitsIn
    <3> QED
      BY <3>1, <3>2, <3>3
  <2>6. ASSUME NEW i \in 1..Len(queue'[g]), NEW k \in 1..Len(queue'[g]),
               queue'[g][i] = queue'[g][k]
        PROVE  i = k
    <3>1. /\ i = Len(queue[g]) + 1 \/ i \in 1..Len(queue[g])
          /\ k = Len(queue[g]) + 1 \/ k \in 1..Len(queue[g])
      BY <2>2, <2>3
    <3>2. \A n, m \in 1..Len(queue[g]) : queue[g][n] = queue[g][m] => n = m
      BY <1>1 DEF GateOK
    <3> QED
      BY <1>7, <2>3, <2>6, <3>1, <3>2
  <2>7. ~HasSlot(g)'
    BY <1>9 DEF HasSlot
  <2>8. GateOK(g)'
    BY <1>1, <1>6, <1>9, <2>5, <2>6, <2>7 DEF GateOK
  <2>9. queue' \in [Gates -> Seq(Jobs)]
    BY <1>1, <1>9, <2>1, <2>3
  <2> QED
    BY <1>1, <1>3, <1>5, <1>9, <2>1, <2>8, <2>9, GatesOne
<1>10. CASE UNCHANGED <<holds, queue>>
  BY <1>3, <1>5, <1>10, AdvanceInv
<1> QED
  BY <1>8, <1>9, <1>10 DEF EnterGate, gateVars

\* A job whose timer fires leaves its queue, and the others keep their places.
LEMMA TimerInv ==
    ASSUME GatesInv, NEW g \in Gates, NEW j \in Jobs, TimerFires(g, j)
    PROVE  GatesInv'
<1>1. GateOK(g) /\ holds \in [Gates -> SUBSET Jobs] /\ queue \in [Gates -> Seq(Jobs)]
      /\ step \in [Jobs -> Steps]
  BY DEF GatesInv
<1>2. PICK i \in 1..Len(queue[g]) :
        queue[g][i] = j /\ queue' = [queue EXCEPT ![g] = RemoveAt(@, i)]
  BY DEF TimerFires
<1>3. /\ UNCHANGED holds /\ step'[j] = "done" /\ step' \in [Jobs -> Steps]
      /\ \A k \in Jobs \ {j} : step'[k] = step[k]
  BY <1>1 DEF TimerFires, Expired, Steps
<1>4. PICK rest : rest = RemoveAt(queue[g], i)
  OBVIOUS
<1>5. /\ queue'[g] = rest /\ \A h \in Gates \ {g} : queue'[h] = queue[h]
      /\ queue[g] \in Seq(Jobs) /\ Len(queue[g]) \in Nat
  BY <1>1, <1>2, <1>4, LenProperties
<1>6. /\ rest \in Seq(Jobs) /\ Len(rest) = Len(queue[g]) - 1
      /\ \A k \in 1..Len(rest) : rest[k] = IF k < i THEN queue[g][k] ELSE queue[g][k + 1]
  <2>1. /\ RemoveAt(queue[g], i) \in Seq(Jobs) /\ Len(RemoveAt(queue[g], i)) = Len(queue[g]) - 1
        /\ \A k \in 1..(Len(queue[g]) - 1) :
              RemoveAt(queue[g], i)[k] = IF k < i THEN queue[g][k] ELSE queue[g][k + 1]
    BY <1>5, RemoveAtIs
  <2> QED
    BY <1>4, <2>1
<1>7. Leaves(g, j) /\ \A k \in Jobs \ {j} : Advances(k)
  BY <1>2, <1>3 DEF Leaves, Advances
<1>8. \A n, m \in 1..Len(queue[g]) : queue[g][n] = queue[g][m] => n = m
  BY <1>1 DEF GateOK
<1>9. ASSUME NEW k \in 1..Len(rest)
      PROVE  \E n \in 1..Len(queue[g]) \ {i} :
                rest[k] = queue[g][n] /\ n = IF k < i THEN k ELSE k + 1
  <2>1. CASE k < i
    <3>1. k \in 1..Len(queue[g]) \ {i} /\ rest[k] = queue[g][k]
      BY <1>5, <1>6, <2>1
    <3> QED
      BY <2>1, <3>1
  <2>2. CASE ~(k < i)
    <3>1. k + 1 \in 1..Len(queue[g]) \ {i} /\ rest[k] = queue[g][k + 1]
      BY <1>5, <1>6, <2>2
    <3> QED
      BY <2>2, <3>1
  <2> QED
    BY <2>1, <2>2
<1>10. ASSUME NEW k \in 1..Len(rest) PROVE WaitsIn(g, rest[k], step'[rest[k]])
  <2>1. PICK n \in 1..Len(queue[g]) \ {i} : rest[k] = queue[g][n]
    BY <1>9
  <2>2. rest[k] # j /\ rest[k] \in Jobs /\ WaitsIn(g, rest[k], step[rest[k]])
    BY <1>1, <1>2, <1>8, <2>1, QueueFacts DEF GateOK
  <2> QED
    BY <1>3, <2>2
<1>11. ASSUME NEW k \in 1..Len(rest), NEW n \in 1..Len(rest), rest[k] = rest[n] PROVE k = n
  <2>1. PICK kk \in 1..Len(queue[g]) : rest[k] = queue[g][kk] /\ kk = IF k < i THEN k ELSE k + 1
    BY <1>9
  <2>2. PICK nn \in 1..Len(queue[g]) : rest[n] = queue[g][nn] /\ nn = IF n < i THEN n ELSE n + 1
    BY <1>9
  <2>3. kk = nn
    BY <1>8, <1>11, <2>1, <2>2
  <2> QED
    BY <1>5, <1>6, <2>1, <2>2, <2>3
<1>12. \A k \in holds[g] : step'[k] \in HeldSteps(g)
  <2>1. ASSUME NEW k \in holds[g] PROVE step'[k] \in HeldSteps(g)
    BY <1>1, <1>3 DEF GateOK, HeldSteps
  <2> QED
    BY <2>1
<1>13. ~HasSlot(g)'
  <2>1. queue[g] # <<>>
    BY <1>5, QueueFacts
  <2> QED
    BY <1>1, <1>3, <2>1 DEF GateOK, HasSlot
<1>14. GateOK(g)'
  BY <1>1, <1>3, <1>5, <1>10, <1>11, <1>12, <1>13 DEF GateOK
<1>15. queue' \in [Gates -> Seq(Jobs)]
  BY <1>1, <1>2, <1>4, <1>6
<1> QED
  BY <1>1, <1>3, <1>5, <1>7, <1>14, <1>15, GatesOne

\* A slot is given back, and the first job in time takes it.
LEMMA ReleaseInv ==
    ASSUME GatesInv, NEW g \in Gates, NEW j \in Jobs, Release(g, j)
    PROVE  GatesInv'
<1>1. GateOK(g) /\ holds \in [Gates -> SUBSET Jobs] /\ queue \in [Gates -> Seq(Jobs)]
      /\ step \in [Jobs -> Steps]
  BY DEF GatesInv
<1>2. PICK q : q = queue[g]
  OBVIOUS
<1>3. q \in Seq(Jobs) /\ Len(q) \in Nat /\ \A i \in 1..Len(q) : q[i] \in Jobs
  BY <1>1, <1>2, LenProperties, ElementOfSeq
<1>4. PICK t : t = Taken(q)
  OBVIOUS
<1>5. PICK first \in 1..(Len(q) + 1) :
        /\ t.over = {q[i] : i \in 1..(first - 1)}
        /\ t.started = {q[i] : i \in {first} \cap 1..Len(q)}
        /\ t.rest \in Seq(Jobs)
        /\ Len(t.rest) = IF first < Len(q) THEN Len(q) - first ELSE 0
        /\ \A i \in 1..(Len(q) - first) : t.rest[i] = q[first + i]
  BY <1>3, <1>4, TakenIs
<1>6. /\ j \in holds[g]
      /\ holds' = [holds EXCEPT ![g] = (@ \ {j}) \cup t.started]
      /\ queue' = [queue EXCEPT ![g] = t.rest]
      /\ step' = [k \in Jobs |-> IF k \in t.started THEN Running(g, k)
                                 ELSE IF k \in t.over THEN "done" ELSE step[k]]
  BY <1>2, <1>4 DEF Release
<1>7. /\ holds'[g] = (holds[g] \ {j}) \cup t.started /\ queue'[g] = t.rest
      /\ \A h \in Gates \ {g} : holds'[h] = holds[h] /\ queue'[h] = queue[h]
  BY <1>1, <1>6
<1>8. /\ \A n, m \in 1..Len(q) : q[n] = q[m] => n = m
      /\ \A n \in 1..Len(q) : WaitsIn(g, q[n], step[q[n]])
      /\ \A k \in holds[g] : step[k] \in HeldSteps(g)
      /\ IsFiniteSet(holds[g]) /\ Cardinality(holds[g]) <= Slots[g]
      /\ Len(q) # 0 => ~HasSlot(g)
  BY <1>1, <1>2, <1>3, QueueFacts DEF GateOK
<1>9. \A n \in 1..Len(q) : q[n] \notin holds[g]
  BY <1>8 DEF WaitsIn, Waiting, HeldSteps, Gates
<1>10. \A k \in t.over \cup t.started : \E i \in 1..Len(q) : q[i] = k
  BY <1>3, <1>5
<1>11. t.started \subseteq Jobs /\ t.over \subseteq Jobs
  BY <1>3, <1>10
<1>12. step' \in [Jobs -> Steps]
  BY <1>1, <1>6 DEF Running, Steps
<1>13. \A k \in Jobs : Advances(k) \/ Leaves(g, k)
  <2> SUFFICES ASSUME NEW k \in Jobs PROVE Advances(k) \/ Leaves(g, k)
    OBVIOUS
  <2>1. CASE k \in t.over \cup t.started
    BY <1>2, <1>6, <1>10, <2>1 DEF Leaves
  <2>2. CASE k \notin t.over \cup t.started
    BY <1>6, <2>2 DEF Advances
  <2> QED
    BY <2>1, <2>2
<1>14. holds' \in [Gates -> SUBSET Jobs] /\ queue' \in [Gates -> Seq(Jobs)]
  BY <1>1, <1>5, <1>6, <1>11
<1>15. ASSUME NEW i \in 1..Len(t.rest)
       PROVE  /\ t.rest[i] = q[first + i] /\ first + i \in 1..Len(q)
              /\ t.rest[i] \notin t.over \cup t.started
  <2>1. i \in 1..(Len(q) - first) /\ first + i \in 1..Len(q)
    BY <1>3, <1>5
  <2>2. t.rest[i] = q[first + i]
    BY <1>5, <2>1
  <2>3. ASSUME NEW n \in 1..Len(q), n <= first PROVE q[n] # q[first + i]
    BY <1>3, <1>8, <2>1, <2>3
  <2>4. q[first + i] \notin t.over
    <3>1. ASSUME NEW n \in 1..(first - 1) PROVE n \in 1..Len(q) /\ n <= first
      BY <1>3, <1>5
    <3> QED
      BY <1>5, <2>3, <3>1
  <2>5. q[first + i] \notin t.started
    BY <1>3, <1>5, <2>3
  <2> QED
    BY <2>1, <2>2, <2>4, <2>5
<1>16. ASSUME NEW i \in 1..Len(t.rest) PROVE WaitsIn(g, t.rest[i], step'[t.rest[i]])
  <2>1. t.rest[i] \in Jobs /\ WaitsIn(g, t.rest[i], step[t.rest[i]])
    BY <1>3, <1>8, <1>15
  <2> QED
    BY <1>6, <1>15, <2>1
<1>17. ASSUME NEW i \in 1..Len(t.rest), NEW k \in 1..Len(t.rest), t.rest[i] = t.rest[k]
       PROVE  i = k
  <2>1. first + i = first + k
    BY <1>8, <1>15, <1>17
  <2> QED
    BY <1>5, <2>1
<1>18. ASSUME NEW k \in holds'[g] PROVE step'[k] \in HeldSteps(g)
  <2>1. CASE k \in t.started
    BY <1>6, <1>11, <2>1 DEF Running, HeldSteps, Gates
  <2>2. CASE k \notin t.started
    <3>1. k \in holds[g] /\ k \in Jobs
      BY <1>1, <1>7, <2>2
    <3>2. k \notin t.over
      BY <1>9, <1>10, <3>1
    <3> QED
      BY <1>6, <1>8, <2>2, <3>1, <3>2
  <2> QED
    BY <2>1, <2>2
<1>19. /\ IsFiniteSet(holds[g] \ {j}) /\ Cardinality(holds[g] \ {j}) = Cardinality(holds[g]) - 1
       /\ Cardinality(holds[g]) \in Nat /\ Slots[g] \in Nat
  <2>1. /\ IsFiniteSet(holds[g] \ {j})
        /\ Cardinality(holds[g] \ {j}) =
              IF j \in holds[g] THEN Cardinality(holds[g]) - 1 ELSE Cardinality(holds[g])
    BY <1>8, FS_RemoveElement, Zenon
  <2> QED
    BY <1>6, <1>8, <2>1, FS_CardinalityType, AdmissionAssumption
<1>20. /\ IsFiniteSet(holds'[g]) /\ Cardinality(holds'[g]) <= Slots[g]
       /\ Len(t.rest) # 0 => ~HasSlot(g)'
  <2>1. CASE first = Len(q) + 1
    <3>1. t.started = {}
      BY <1>3, <1>5, <2>1
    <3>2. holds'[g] = holds[g] \ {j}
      BY <1>7, <3>1
    <3>3. Len(t.rest) = 0
      BY <1>3, <1>5, <2>1
    <3> QED
      BY <1>8, <1>19, <3>2, <3>3
  <2>2. CASE first \in 1..Len(q)
    <3>1. t.started = {q[first]} /\ q[first] \notin holds[g]
      BY <1>5, <1>9, <2>2
    <3>2. /\ IsFiniteSet((holds[g] \ {j}) \cup {q[first]})
          /\ Cardinality((holds[g] \ {j}) \cup {q[first]}) =
                IF q[first] \in holds[g] \ {j} THEN Cardinality(holds[g] \ {j})
                ELSE Cardinality(holds[g] \ {j}) + 1
      BY <1>19, FS_AddElement, Zenon
    <3>3. Cardinality(holds'[g]) = Cardinality(holds[g]) /\ IsFiniteSet(holds'[g])
      BY <1>7, <1>19, <3>1, <3>2
    <3>4. ~HasSlot(g)
      BY <1>3, <1>8, <2>2
    <3>5. ~HasSlot(g)'
      BY <3>3, <3>4 DEF HasSlot
    <3> QED
      BY <1>8, <3>3, <3>5
  <2> QED
    BY <1>3, <2>1, <2>2
<1>21. GateOK(g)'
  <2>1. queue'[g] # <<>> => ~HasSlot(g)'
    BY <1>5, <1>7, <1>20, EmptySeq
  <2>2. \A i \in 1..Len(queue'[g]) : WaitsIn(g, queue'[g][i], step'[queue'[g][i]])
    BY <1>7, <1>16
  <2>3. \A i, k \in 1..Len(queue'[g]) : queue'[g][i] = queue'[g][k] => i = k
    BY <1>7, <1>17
  <2> QED
    BY <1>18, <1>20, <2>1, <2>2, <2>3 DEF GateOK
<1> QED
  BY <1>7, <1>12, <1>13, <1>14, <1>21, GatesOne

LEMMA WorkInv ==
    ASSUME GatesInv, NEW j \in Jobs,
           \/ HashEnds(j) \/ ExportEnds(j)
           \/ j \in SignIns /\ (ClaimAttempt(j) \/ RefuseUnhashed(j) \/ SignInEnds(j))
    PROVE  GatesInv'
<1>1. step \in [Jobs -> Steps]
  BY DEF GatesInv
<1>2. UNCHANGED <<holds, queue>>
  BY DEF HashEnds, ExportEnds, ClaimAttempt, RefuseUnhashed, SignInEnds, gateVars
<1>3. \/ step[j] = "hashing" /\ step' = [step EXCEPT ![j] = "hashed"]
      \/ step[j] = "claim" /\ step' = [step EXCEPT ![j] = "verify"]
      \/ step[j] \in {"hashing", "work", "claim", "verify", "hashed"}
         /\ step' = [step EXCEPT ![j] = "done"]
  BY DEF HashEnds, ExportEnds, ClaimAttempt, RefuseUnhashed, SignInEnds, Refused, End
<1>4. step' \in [Jobs -> Steps] /\ \A k \in Jobs \ {j} : step'[k] = step[k]
  BY <1>1, <1>3 DEF Steps
<1>5. Advances(j)
  BY <1>1, <1>3 DEF Advances, HeldSteps, Gates
<1>6. \A k \in Jobs : Advances(k)
  BY <1>4, <1>5 DEF Advances
<1> QED
  BY <1>2, <1>4, <1>6, AdvanceInv

LEMMA IdleInv ==
    ASSUME GatesInv, UNCHANGED <<holds, queue, step>>
    PROVE  GatesInv'
  BY DEF GatesInv, GateOK, HasSlot

LEMMA GatesInitInv == AdmissionInit => GatesInv
<1> SUFFICES ASSUME AdmissionInit PROVE GatesInv
  OBVIOUS
<1>1. ASSUME NEW g \in Gates PROVE GateOK(g)
  <2>1. holds[g] = {} /\ queue[g] = <<>> /\ Len(queue[g]) = 0
    BY DEF AdmissionInit
  <2>2. IsFiniteSet({}) /\ Cardinality({}) = 0 /\ 0 <= Slots[g]
    BY FS_EmptySet, AdmissionAssumption
  <2> QED
    BY <2>1, <2>2 DEF GateOK
<1>2. queue \in [Gates -> Seq(Jobs)]
  BY EmptySeq DEF AdmissionInit
<1> QED
  BY <1>1, <1>2 DEF AdmissionInit, GatesInv, Steps

LEMMA GatesStepInv == GatesInv /\ [AdmissionNext]_admissionVars => GatesInv'
<1> SUFFICES ASSUME GatesInv, [AdmissionNext]_admissionVars PROVE GatesInv'
  OBVIOUS
<1>1. ASSUME NEW j \in Jobs, Arrive(j) PROVE GatesInv'
  <2>1. GateOf(j) \in Gates
    BY DEF GateOf, Gates
  <2> QED
    BY <1>1, <2>1, EnterInv DEF Arrive
<1>2. ASSUME NEW j \in Jobs, HashEnds(j) \/ ExportEnds(j) PROVE GatesInv'
  BY <1>2, WorkInv
<1>3. ASSUME NEW j \in SignIns, ClaimAttempt(j) \/ RefuseUnhashed(j) \/ SignInEnds(j)
      PROVE  GatesInv'
  BY <1>3, WorkInv DEF Jobs
<1>4. ASSUME NEW j \in SignIns, Verify(j) PROVE GatesInv'
  BY <1>4, EnterInv DEF Verify, Gates, Jobs
<1>5. ASSUME NEW g \in Gates, NEW j \in Jobs, Release(g, j) PROVE GatesInv'
  BY <1>5, ReleaseInv
<1>6. ASSUME NEW g \in Gates, NEW j \in Jobs, DeadlinePasses(g, j) \/ TimerFires(g, j)
      PROVE  GatesInv'
  BY <1>6, IdleInv, TimerInv DEF DeadlinePasses
<1>7. CASE (\E a \in Accounts : AccountWindowPasses(a)) \/ BudgetWindowPasses
           \/ UNCHANGED admissionVars
  BY <1>7, IdleInv DEF AccountWindowPasses, BudgetWindowPasses, admissionVars, gateVars
<1> QED
  BY <1>1, <1>2, <1>3, <1>4, <1>5, <1>6, <1>7 DEF AdmissionNext, Proceed

AdmissionSpec == AdmissionInit /\ [][AdmissionNext]_admissionVars

\* The gates keep their limits and leave no slot unused while somebody waits, for any number of
\* jobs, slots and places, with timers that lag (createWorkGate).
THEOREM GatesStayFair == AdmissionSpec => []GatesFair
<1>1. GatesInv => GatesFair
  BY DEF GatesInv, GateOK, GatesFair
<1> QED
  BY <1>1, GatesInitInv, GatesStepInv, PTL DEF AdmissionSpec

----------------------------------------------------------------------------
(* The counted attempts.                                                   *)

CounterType == [count : Nat, window : SignIns \cup {None}]

PastClaim(j) == step[j] \notin {"new", "waiting", "claim"}

\* A window is named for the sign-in that opened it.
WindowKnown(counter) == counter # NoCounter => counter.window \in SignIns /\ PastClaim(counter.window)

\* In the window of its claim an account has at least as many attempts as the claim counted,
\* and more unless that claim was the last.
ClaimOK(j) ==
    LET a == AccountOf[j] IN
    claim[j] # NoCounter =>
        /\ claim[j].count <= Limit
        /\ attempts[a].window = claim[j].window =>
              /\ attempts[a].count >= claim[j].count
              /\ attempts[a].count = claim[j].count => latest[a] = j

CountInv ==
    /\ attempts \in [Accounts -> CounterType] /\ claim \in [SignIns -> CounterType]
    /\ latest \in [Accounts -> SignIns \cup {None}]
    /\ \A a \in Accounts : WindowKnown(attempts[a])
    /\ \A j \in SignIns : WindowKnown(claim[j]) /\ ClaimOK(j)

----------------------------------------------------------------------------

\* No job comes back to before its claim.
LEMMA EnterPast ==
    ASSUME GatesInv, NEW g \in Gates, NEW j \in Jobs, EnterGate(g, j),
           step[j] = "new" \/ (step[j] = "verify" /\ g = "hash")
    PROVE  \A k \in Jobs : PastClaim(k) => PastClaim(k)'
<1>1. step \in [Jobs -> Steps]
  BY DEF GatesInv
<1>2. \A k \in Jobs \ {j} : step'[k] = step[k]
  BY <1>1 DEF EnterGate
<1>3. step'[j] \in {Running(g, j), Waiting(g), "done"}
  BY <1>1 DEF EnterGate
<1>4. PastClaim(j) => PastClaim(j)'
  BY <1>3 DEF PastClaim, Running, Waiting
<1> QED
  BY <1>2, <1>4 DEF PastClaim

LEMMA ReleasePast ==
    ASSUME GatesInv, NEW g \in Gates, NEW j \in Jobs, Release(g, j)
    PROVE  \A k \in Jobs : PastClaim(k) => PastClaim(k)'
<1> SUFFICES ASSUME NEW k \in Jobs, PastClaim(k) PROVE PastClaim(k)'
  OBVIOUS
<1>1. queue[g] \in Seq(Jobs) /\ GateOK(g)
  BY DEF GatesInv
<1>2. PICK t : t = Taken(queue[g])
  OBVIOUS
<1>3. PICK first \in 1..(Len(queue[g]) + 1) :
        t.started = {queue[g][i] : i \in {first} \cap 1..Len(queue[g])}
  BY <1>1, <1>2, TakenIs
<1>4. step'[k] = IF k \in t.started THEN Running(g, k)
                 ELSE IF k \in t.over THEN "done" ELSE step[k]
  BY <1>2 DEF Release
<1>5. CASE k \in t.started
  <2>1. step[k] = Waiting(g)
    BY <1>1, <1>3, <1>5 DEF GateOK, WaitsIn
  <2> QED
    BY <1>4, <1>5, <2>1 DEF PastClaim, Waiting, Running, Gates
<1>6. CASE k \notin t.started
  BY <1>4, <1>6 DEF PastClaim
<1> QED
  BY <1>5, <1>6

LEMMA WorkPast ==
    ASSUME GatesInv, NEW j \in Jobs,
           \/ HashEnds(j) \/ ExportEnds(j)
           \/ j \in SignIns /\ (ClaimAttempt(j) \/ RefuseUnhashed(j) \/ SignInEnds(j))
    PROVE  /\ \A k \in Jobs : PastClaim(k) => PastClaim(k)'
           /\ PastClaim(j)'
<1>1. step \in [Jobs -> Steps]
  BY DEF GatesInv
<1>2. \/ step' = [step EXCEPT ![j] = "hashed"]
      \/ step' = [step EXCEPT ![j] = "verify"]
      \/ step' = [step EXCEPT ![j] = "done"]
  BY DEF HashEnds, ExportEnds, ClaimAttempt, RefuseUnhashed, SignInEnds, Refused, End
<1> QED
  BY <1>1, <1>2 DEF PastClaim

LEMMA PastStays ==
    ASSUME GatesInv, [AdmissionNext]_admissionVars
    PROVE  \A k \in Jobs : PastClaim(k) => PastClaim(k)'
<1>1. ASSUME NEW j \in Jobs, Arrive(j) PROVE \A k \in Jobs : PastClaim(k) => PastClaim(k)'
  <2>1. GateOf(j) \in Gates
    BY DEF GateOf, Gates
  <2> QED
    BY <1>1, <2>1, EnterPast DEF Arrive
<1>2. ASSUME NEW j \in Jobs,
             \/ HashEnds(j) \/ ExportEnds(j)
             \/ j \in SignIns /\ (ClaimAttempt(j) \/ RefuseUnhashed(j) \/ SignInEnds(j))
      PROVE  \A k \in Jobs : PastClaim(k) => PastClaim(k)'
  BY <1>2, WorkPast
<1>3. ASSUME NEW j \in SignIns, Verify(j) PROVE \A k \in Jobs : PastClaim(k) => PastClaim(k)'
  BY <1>3, EnterPast DEF Verify, Gates, Jobs
<1>4. ASSUME NEW g \in Gates, NEW j \in Jobs, Release(g, j)
      PROVE  \A k \in Jobs : PastClaim(k) => PastClaim(k)'
  BY <1>4, ReleasePast
<1>5. ASSUME NEW g \in Gates, NEW j \in Jobs, DeadlinePasses(g, j) \/ TimerFires(g, j)
      PROVE  \A k \in Jobs : PastClaim(k) => PastClaim(k)'
  BY <1>5 DEF DeadlinePasses, TimerFires, Expired, PastClaim
<1>6. CASE (\E a \in Accounts : AccountWindowPasses(a)) \/ BudgetWindowPasses
           \/ UNCHANGED admissionVars
  BY <1>6 DEF AccountWindowPasses, BudgetWindowPasses, admissionVars, PastClaim
<1> QED
  BY <1>1, <1>2, <1>3, <1>4, <1>5, <1>6 DEF AdmissionNext, Proceed, Jobs

LEMMA CountedIs ==
    ASSUME NEW counter \in CounterType, NEW j \in SignIns
    PROVE  /\ Counted(counter, j) \in CounterType /\ Counted(counter, j) # NoCounter
           /\ Counted(counter, j).window = IF counter = NoCounter THEN j ELSE counter.window
           /\ counter # NoCounter => Counted(counter, j).count =
                 IF counter.count > Limit THEN counter.count ELSE counter.count + 1
<1>1. CASE counter = NoCounter
  BY <1>1 DEF Counted, NoCounter, CounterType
<1>2. CASE counter # NoCounter
  <2>1. Counted(counter, j) =
           [count |-> IF counter.count > Limit THEN counter.count ELSE counter.count + 1,
            window |-> counter.window]
    BY <1>2 DEF Counted, CounterType
  <2>2. Limit \in Nat /\ Limit > 0 /\ counter.count \in Nat
    BY AdmissionAssumption DEF CounterType
  <2>3. Counted(counter, j).count # 0
    BY <2>1, <2>2
  <2> QED
    BY <1>2, <2>1, <2>2, <2>3 DEF NoCounter, CounterType
<1> QED
  BY <1>1, <1>2

LEMMA NoCounterIs ==
    /\ NoCounter \in CounterType /\ NoCounter.window = None /\ None \notin SignIns
    /\ AccountOf \in [SignIns -> Accounts]
  BY AdmissionAssumption DEF NoCounter, CounterType, Jobs

\* An attempt is counted.
LEMMA ClaimCounts ==
    ASSUME GatesInv, CountInv, NEW k \in SignIns, ClaimAttempt(k),
           \A j \in Jobs : PastClaim(j) => PastClaim(j)'
    PROVE  CountInv'
<1>1. PICK a \in Accounts : a = AccountOf[k]
  BY NoCounterIs
<1>2. PICK mine : mine = Counted(attempts[a], k)
  OBVIOUS
<1>3. /\ attempts \in [Accounts -> CounterType] /\ claim \in [SignIns -> CounterType]
      /\ latest \in [Accounts -> SignIns \cup {None}]
      /\ \A b \in Accounts : WindowKnown(attempts[b])
      /\ \A j \in SignIns : WindowKnown(claim[j]) /\ ClaimOK(j)
  BY DEF CountInv
<1>4. step[k] = "claim" /\ PastClaim(k)'
  BY WorkPast DEF ClaimAttempt, Jobs
<1>5. \A counter : WindowKnown(counter) => WindowKnown(counter)'
  BY DEF WindowKnown, Jobs
<1>6. CASE UNCHANGED <<attempts, claim, latest>>
  <2>1. \A j \in SignIns : WindowKnown(claim[j])' /\ ClaimOK(j)'
    BY <1>3, <1>6 DEF WindowKnown, ClaimOK, Jobs
  <2>2. \A b \in Accounts : WindowKnown(attempts[b])'
    BY <1>3, <1>6 DEF WindowKnown, Jobs
  <2> QED
    BY <1>3, <1>6, <2>1, <2>2 DEF CountInv
<1>7. CASE /\ attempts' = [attempts EXCEPT ![a] = mine]
           /\ claim' = [claim EXCEPT ![k] = IF mine.count > Limit THEN @ ELSE mine]
           /\ latest' = [latest EXCEPT ![a] = k]
  <2>1. /\ mine \in CounterType /\ mine # NoCounter
        /\ mine.window = IF attempts[a] = NoCounter THEN k ELSE attempts[a].window
        /\ attempts[a] # NoCounter => mine.count =
              IF attempts[a].count > Limit THEN attempts[a].count ELSE attempts[a].count + 1
    BY <1>2, <1>3, CountedIs
  <2>2. mine.window \in SignIns /\ PastClaim(mine.window)'
    BY <1>3, <1>4, <2>1 DEF WindowKnown, Jobs
  <2>3. /\ attempts'[a] = mine /\ latest'[a] = k
        /\ \A b \in Accounts \ {a} : attempts'[b] = attempts[b] /\ latest'[b] = latest[b]
        /\ attempts' \in [Accounts -> CounterType]
        /\ latest' \in [Accounts -> SignIns \cup {None}]
    BY <1>3, <1>7, <2>1
  <2>4. /\ claim'[k] \in {claim[k], mine} /\ (claim'[k] = claim[k] \/ mine.count <= Limit)
        /\ \A j \in SignIns \ {k} : claim'[j] = claim[j]
        /\ claim' \in [SignIns -> CounterType]
    <3>1. mine.count \in Nat /\ Limit \in Nat
      BY <2>1, AdmissionAssumption DEF CounterType
    <3> QED
      BY <1>3, <1>7, <2>1, <3>1
  <2>5. ASSUME NEW b \in Accounts PROVE WindowKnown(attempts[b])'
    BY <1>3, <2>2, <2>3 DEF WindowKnown, Jobs
  <2>6. ASSUME NEW j \in SignIns PROVE WindowKnown(claim[j])'
    BY <1>3, <2>2, <2>4 DEF WindowKnown, Jobs
  <2>7. ASSUME NEW j \in SignIns PROVE ClaimOK(j)'
    <3>1. CASE claim'[j] = claim[j]
      <4>1. CASE AccountOf[j] # a
        BY <1>3, <2>3, <3>1, <4>1, NoCounterIs DEF ClaimOK
      <4>2. CASE AccountOf[j] = a
        <5> SUFFICES ASSUME claim[j] # NoCounter
                     PROVE  /\ claim[j].count <= Limit
                            /\ mine.window = claim[j].window => mine.count > claim[j].count
          <6>1. claim[j].count \in Nat /\ mine.count \in Nat
            BY <1>3, <2>1 DEF CounterType
          <6> QED
            BY <2>3, <3>1, <4>2, <6>1 DEF ClaimOK
        <5>1. claim[j].count <= Limit /\ claim[j].window \in SignIns /\ PastClaim(claim[j].window)
          BY <1>3 DEF ClaimOK, WindowKnown
        <5>2. claim[j].window # k
          BY <1>4, <5>1 DEF PastClaim
        <5>3. /\ claim[j].count \in Nat /\ attempts[a].count \in Nat /\ Limit \in Nat
          BY <1>3, AdmissionAssumption DEF CounterType
        <5>4. attempts[a].window = claim[j].window => attempts[a].count >= claim[j].count
          BY <1>3, <4>2 DEF ClaimOK
        <5> QED
          BY <2>1, <5>1, <5>2, <5>3, <5>4
      <4> QED
        BY <4>1, <4>2
    <3>2. CASE j = k /\ claim'[k] = mine /\ mine.count <= Limit
      <4>1. mine.count \in Nat
        BY <2>1 DEF CounterType
      <4> QED
        BY <1>1, <2>3, <3>2, <4>1 DEF ClaimOK
    <3> QED
      BY <2>4, <3>1, <3>2
  <2> QED
    BY <2>3, <2>4, <2>5, <2>6, <2>7 DEF CountInv
<1> QED
  BY <1>1, <1>2, <1>6, <1>7 DEF ClaimAttempt

\* A counter is taken away, with or without a claim that is over.
LEMMA ClearedCounts ==
    ASSUME CountInv, NEW a \in Accounts, \A j \in Jobs : PastClaim(j) => PastClaim(j)',
           attempts' \in {attempts, [attempts EXCEPT ![a] = NoCounter]},
           \/ UNCHANGED <<claim, latest>>
           \/ claim' = claim /\ attempts' = [attempts EXCEPT ![a] = NoCounter]
              /\ latest' = [latest EXCEPT ![a] = None]
           \/ latest' = latest /\ \E k \in SignIns : claim' = [claim EXCEPT ![k] = NoCounter]
    PROVE  CountInv'
<1>1. /\ attempts \in [Accounts -> CounterType] /\ claim \in [SignIns -> CounterType]
      /\ latest \in [Accounts -> SignIns \cup {None}]
      /\ \A b \in Accounts : WindowKnown(attempts[b])
      /\ \A j \in SignIns : WindowKnown(claim[j]) /\ ClaimOK(j)
  BY DEF CountInv
<1>2. /\ attempts' \in [Accounts -> CounterType]
      /\ \A b \in Accounts : attempts'[b] \in {attempts[b], NoCounter}
  BY <1>1, NoCounterIs
<1>3. /\ claim' \in [SignIns -> CounterType]
      /\ \A j \in SignIns : claim'[j] \in {claim[j], NoCounter}
  BY <1>1, NoCounterIs
<1>4. /\ latest' \in [Accounts -> SignIns \cup {None}]
      /\ \A b \in Accounts : latest'[b] = latest[b] \/ attempts'[b] = NoCounter
  BY <1>1
<1>5. ASSUME NEW b \in Accounts PROVE WindowKnown(attempts[b])'
  BY <1>1, <1>2 DEF WindowKnown, Jobs
<1>6. ASSUME NEW j \in SignIns PROVE WindowKnown(claim[j])' /\ ClaimOK(j)'
  <2>1. WindowKnown(claim[j])'
    BY <1>1, <1>3 DEF WindowKnown, Jobs
  <2>2. ClaimOK(j)'
    <3>1. PICK b \in Accounts : b = AccountOf[j]
      BY NoCounterIs
    <3>2. CASE claim'[j] = NoCounter
      BY <3>2 DEF ClaimOK
    <3>3. CASE claim'[j] = claim[j] /\ claim[j] # NoCounter /\ attempts'[b] = NoCounter
      <4>1. claim[j].window # None /\ claim[j].count <= Limit
        BY <1>1, <3>3, NoCounterIs DEF WindowKnown, ClaimOK
      <4> QED
        BY <3>1, <3>3, <4>1, NoCounterIs DEF ClaimOK
    <3>4. CASE claim'[j] = claim[j] /\ attempts'[b] = attempts[b] /\ latest'[b] = latest[b]
      BY <1>1, <3>1, <3>4 DEF ClaimOK
    <3> QED
      BY <1>2, <1>3, <1>4, <3>1, <3>2, <3>3, <3>4
  <2> QED
    BY <2>1, <2>2
<1> QED
  BY <1>2, <1>3, <1>4, <1>5, <1>6 DEF CountInv

LEMMA CountInitInv == AdmissionInit => CountInv
  BY NoCounterIs DEF AdmissionInit, CountInv, WindowKnown, ClaimOK

LEMMA SameCounts ==
    ASSUME CountInv, UNCHANGED <<attempts, claim, latest>>,
           \A j \in Jobs : PastClaim(j) => PastClaim(j)'
    PROVE  CountInv'
<1>1. \A j \in SignIns : WindowKnown(claim[j])' /\ ClaimOK(j)'
  BY DEF CountInv, WindowKnown, ClaimOK, Jobs
<1>2. \A b \in Accounts : WindowKnown(attempts[b])'
  BY DEF CountInv, WindowKnown, Jobs
<1> QED
  BY <1>1, <1>2 DEF CountInv

LEMMA CountStepInv == GatesInv /\ CountInv /\ [AdmissionNext]_admissionVars => CountInv'
<1> SUFFICES ASSUME GatesInv, CountInv, [AdmissionNext]_admissionVars PROVE CountInv'
  OBVIOUS
<1>1. \A j \in Jobs : PastClaim(j) => PastClaim(j)'
  BY PastStays
<1>2. ASSUME NEW k \in SignIns, ClaimAttempt(k) PROVE CountInv'
  BY <1>1, <1>2, ClaimCounts
<1>3. ASSUME NEW k \in SignIns, RefuseUnhashed(k) \/ SignInEnds(k) PROVE CountInv'
  <2>1. PICK a \in Accounts : a = AccountOf[k]
    BY NoCounterIs
  <2>2. attempts' \in {attempts, [attempts EXCEPT ![a] = NoCounter]}
    BY <1>3, <2>1 DEF RefuseUnhashed, SignInEnds, Refused
  <2>3. latest' = latest /\ claim' = [claim EXCEPT ![k] = NoCounter]
    BY <1>3 DEF RefuseUnhashed, SignInEnds
  <2> QED
    BY <1>1, <2>2, <2>3, ClearedCounts
<1>4. ASSUME NEW a \in Accounts, AccountWindowPasses(a) PROVE CountInv'
  BY <1>1, <1>4, ClearedCounts DEF AccountWindowPasses
<1>5. CASE UNCHANGED <<attempts, claim, latest>>
  BY <1>1, <1>5, SameCounts
<1>6. CASE \/ \E j \in Jobs : Arrive(j) \/ HashEnds(j) \/ ExportEnds(j)
           \/ \E j \in SignIns : Verify(j)
           \/ \E g \in Gates, j \in Jobs :
                 Release(g, j) \/ DeadlinePasses(g, j) \/ TimerFires(g, j)
           \/ BudgetWindowPasses \/ UNCHANGED admissionVars
  <2>1. UNCHANGED <<attempts, claim, latest>>
    BY <1>6 DEF Arrive, HashEnds, ExportEnds, Verify, Release, DeadlinePasses, TimerFires,
                BudgetWindowPasses, admissionVars, countVars
  <2> QED
    BY <1>5, <2>1
<1> QED
  BY <1>2, <1>3, <1>4, <1>6 DEF AdmissionNext, Proceed

\* A sign-in clears its account's counter only when no attempt was counted after its own, for any
\* accounts, limits and number of attempts under way, with windows that pass at any time
\* (claimLoginAttempt, clearSuccessfulLoginAttempt).
THEOREM NewerAttemptsStay == AdmissionSpec => NewerAttemptsKept
<1> DEFINE Kept1 == \A j \in Right :
               LET a == AccountOf[j]
               IN  step[j] = "hashed" /\ step'[j] = "done" /\ attempts'[a] # attempts[a]
                   => latest[a] = j
<1>1. GatesInv /\ CountInv /\ [AdmissionNext]_admissionVars => [Kept1]_admissionVars
  <2> SUFFICES ASSUME GatesInv, CountInv, AdmissionNext, NEW j \in Right, NEW a, a = AccountOf[j],
                      step[j] = "hashed", step'[j] = "done", attempts'[a] # attempts[a]
               PROVE  latest[a] = j
    BY DEF Kept1
  <2>1. j \in SignIns /\ j \in Jobs /\ a \in Accounts /\ step \in [Jobs -> Steps]
    BY AdmissionAssumption DEF Jobs, GatesInv
  <2>2. PICK k \in SignIns : SignInEnds(k)
    <3>1. ASSUME NEW k \in SignIns, ClaimAttempt(k) PROVE FALSE
      <4>1. step[k] = "claim" /\ \E at : step' = [step EXCEPT ![k] = at]
        BY <3>1 DEF ClaimAttempt, End
      <4> QED
        BY <2>1, <4>1
    <3>2. ASSUME NEW k \in SignIns, RefuseUnhashed(k) PROVE FALSE
      BY <3>2 DEF RefuseUnhashed, Refused
    <3>3. ASSUME NEW b \in Accounts, AccountWindowPasses(b) PROVE FALSE
      BY <3>3 DEF AccountWindowPasses
    <3>4. ~(\/ \E i \in Jobs : Arrive(i) \/ HashEnds(i) \/ ExportEnds(i)
            \/ \E i \in SignIns : Verify(i)
            \/ \E g \in Gates, i \in Jobs :
                  Release(g, i) \/ DeadlinePasses(g, i) \/ TimerFires(g, i)
            \/ BudgetWindowPasses)
      BY DEF Arrive, HashEnds, ExportEnds, Verify, Release, DeadlinePasses, TimerFires,
             BudgetWindowPasses, countVars
    <3> QED
      BY <3>1, <3>2, <3>3, <3>4 DEF AdmissionNext, Proceed
  <2>3. k = j
    <3>1. \E at : step' = [step EXCEPT ![k] = at]
      BY <2>2 DEF SignInEnds, Refused, End
    <3> QED
      BY <2>1, <3>1
  <2>4. attempts[a] = claim[j] /\ attempts[a] # NoCounter
    <3>1. /\ Current(attempts[a], claim[j])
          /\ attempts' = [attempts EXCEPT ![a] = NoCounter]
      BY <2>2, <2>3 DEF SignInEnds, Refused
    <3>2. attempts \in [Accounts -> CounterType]
      BY DEF CountInv
    <3> QED
      BY <2>1, <3>1, <3>2 DEF Current
  <2>5. ClaimOK(j)
    BY <2>1 DEF CountInv
  <2> QED
    BY <2>4, <2>5 DEF ClaimOK
<1> QED
  BY <1>1, GatesInitInv, GatesStepInv, CountInitInv, CountStepInv, PTL
     DEF AdmissionSpec, NewerAttemptsKept

----------------------------------------------------------------------------
(* The readiness gate.                                                     *)

GateType == [key : Configurations \cup {Absent}, generation : Nat,
             cache : CacheType \cup {Absent}, flight : FlightType \cup {Absent}]

RequestType == [told : Told \cup {Absent, "waiting"}, of : Configurations \cup {Absent},
                asked : Nat, from : Nat, at : Nat]

\* An outcome is kept in the generation of its probe.
CacheOK(g) == g.cache # Absent => g.cache.from = g.cache.generation

\* Who waits does so for a probe under way, of the generation that the gate is still in.
Awaited(o, g) ==
    /\ g.flight # Absent /\ g.flight.resolved = Absent
    /\ g.flight.generation = g.generation
    /\ o.asked = g.generation /\ o.from = g.generation

RequestOK(o, g, connection) ==
    /\ o.told = "waiting" => Awaited(o, g)
    /\ o.told \in Found => o.from = o.asked /\ o.from = o.at
    /\ o.told \in Found \cup {"waiting"} =>
          o.of \in Configurations /\ Connection[o.of] = connection

ReadinessInv ==
    /\ environment \in Configurations
    /\ gate \in GateType /\ CacheOK(gate)
    /\ outcome \in [Readers -> RequestType]
    /\ \A r \in Readers : RequestOK(outcome[r], gate, bound)

----------------------------------------------------------------------------

LEMMA GateFields ==
    ASSUME NEW g \in GateType
    PROVE  /\ g.key \in Configurations \cup {Absent} /\ g.generation \in Nat
           /\ g.cache # Absent => g.cache \in CacheType
           /\ g.flight # Absent => g.flight \in FlightType
           /\ g = [key |-> g.key, generation |-> g.generation, cache |-> g.cache,
                   flight |-> g.flight]
  BY DEF GateType

LEMMA Outcomes ==
    /\ Absent \notin Told /\ "waiting" \notin Told /\ "probing" \notin Told
    /\ Found \subseteq Told
    /\ \A t \in {"timeout", "busy", "unfit"} : t \in Told \ Found
  BY ReadinessAssumption DEF Told, Found

LEMMA ResolvedType ==
    ASSUME NEW f \in FlightType, NEW told \in Told
    PROVE  /\ Resolved(f, told) \in FlightType /\ Resolved(f, told) # Absent
           /\ Resolved(f, told).resolved = IF f.resolved = Absent THEN told ELSE f.resolved
           /\ Resolved(f, told).generation = f.generation /\ Resolved(f, told).key = f.key
<1>1. Resolved(f, told) = [key |-> f.key, generation |-> f.generation, overdue |-> f.overdue,
                           resolved |-> IF f.resolved = Absent THEN told ELSE f.resolved]
  BY DEF Resolved, FlightType
<1> QED
  BY <1>1, ReadinessAssumption DEF FlightType

LEMMA FinishMoves ==
    ASSUME NEW g \in GateType, CacheOK(g), g.flight # Absent, NEW told \in Told,
           NEW works \in BOOLEAN
    PROVE  /\ Finish(g, told, works) \in GateType /\ CacheOK(Finish(g, told, works))
           /\ Finish(g, told, works).generation = g.generation
           /\ Finish(g, told, works).key = g.key
           /\ Finish(g, told, works).flight # Absent
           /\ Finish(g, told, works).flight.resolved \in Told
<1>1. CASE g.flight.resolved # Absent
  BY <1>1, GateFields DEF Finish, FlightType
<1>2. CASE g.flight.resolved = Absent
  <2>1. PICK result : result = IF g.flight.overdue \/ ~works THEN "timeout" ELSE told
    OBVIOUS
  <2>2. PICK flight : flight = [g.flight EXCEPT !.resolved = result]
    OBVIOUS
  <2>3. PICK entry : entry = [key |-> g.flight.key, generation |-> g.generation,
                              from |-> g.flight.generation, outcome |-> result,
                              expired |-> FALSE]
    OBVIOUS
  <2>4. PICK cache : cache = IF ~Kept(g) THEN g.cache ELSE IF works THEN entry ELSE Absent
    OBVIOUS
  <2>5. Finish(g, told, works) = [key |-> g.key, generation |-> g.generation, cache |-> cache,
                                  flight |-> flight]
    BY <1>2, <2>1, <2>2, <2>3, <2>4 DEF Finish, GateType
  <2>6. g.flight \in FlightType /\ result \in Told
    BY <2>1, GateFields, Outcomes
  <2>7. flight \in FlightType /\ flight # Absent /\ flight.resolved = result
    BY <2>2, <2>6, ReadinessAssumption DEF FlightType
  <2>8. entry \in CacheType /\ entry.from = g.flight.generation
        /\ entry.generation = g.generation
    BY <2>3, <2>6, GateFields DEF FlightType, CacheType
  <2>9. cache \in CacheType \cup {Absent}
        /\ (cache # Absent => cache.from = cache.generation)
    BY <2>4, <2>8, GateFields DEF Kept, CacheOK
  <2> QED
    BY <2>5, <2>6, <2>7, <2>9, GateFields DEF GateType, CacheOK
<1> QED
  BY <1>1, <1>2

\* A gate between the one of the state and what a request makes of it: either it has the same
\* probe in the same generation, or who waited for that probe is told to come again.
Kin(g) ==
    /\ g \in GateType /\ CacheOK(g)
    /\ g.flight = Absent <=> gate.flight = Absent
    /\ \/ g.generation = gate.generation /\ g.flight = gate.flight
       \/ gate.flight # Absent /\ gate.flight.resolved = Absent => g.flight.resolved = "busy"

LEMMA InvalidateKin ==
    ASSUME NEW g, Kin(g)
    PROVE  Kin(Invalidate(g)) /\ Invalidate(g).cache = Absent
<1>1. PICK flight : flight = IF g.flight = Absent THEN Absent ELSE Resolved(g.flight, "busy")
  OBVIOUS
<1>2. Invalidate(g) = [key |-> g.key, generation |-> g.generation + 1, cache |-> Absent,
                       flight |-> flight]
  <2>1. Invalidate(g) = [g EXCEPT !.generation = g.generation + 1, !.cache = Absent,
                                  !.flight = flight]
    BY <1>1 DEF Invalidate
  <2> QED
    BY <2>1 DEF Kin, GateType
<1>3. flight \in FlightType \cup {Absent} /\ (flight = Absent <=> g.flight = Absent)
  BY <1>1, GateFields, Outcomes, ResolvedType DEF Kin
<1>4. Invalidate(g) \in GateType /\ CacheOK(Invalidate(g))
  BY <1>2, <1>3, GateFields DEF Kin, GateType, CacheOK
<1>5. ASSUME gate.flight # Absent, gate.flight.resolved = Absent
      PROVE  flight.resolved = "busy"
  BY <1>1, <1>5, GateFields, Outcomes, ResolvedType DEF Kin
<1> QED
  BY <1>2, <1>3, <1>4, <1>5 DEF Kin

LEMMA KeyKin ==
    ASSUME NEW g, Kin(g), NEW k \in Configurations
    PROVE  /\ Kin([g EXCEPT !.key = k]) /\ [g EXCEPT !.key = k].key = k
           /\ [g EXCEPT !.key = k].cache = g.cache
<1>1. [g EXCEPT !.key = k] = [key |-> k, generation |-> g.generation, cache |-> g.cache,
                             flight |-> g.flight]
  BY DEF Kin, GateType
<1> QED
  BY <1>1, GateFields DEF Kin, GateType, CacheOK

\* What a step may make of the gate, seen by those who wait.
Moves(g) ==
    /\ g \in GateType /\ CacheOK(g)
    /\ gate.flight # Absent /\ gate.flight.resolved = Absent
          /\ gate.flight.generation = gate.generation =>
          /\ g.flight # Absent
          /\ g.flight.resolved = Absent =>
                g.flight.generation = g.generation /\ g.generation = gate.generation
          /\ g.flight.resolved \in Found => g.generation = gate.generation

LEMMA KinMoves ==
    ASSUME NEW g, Kin(g)
    PROVE  Moves(g)
  BY Outcomes DEF Kin, Moves

LEMMA LookedKin ==
    ASSUME ReadinessInv
    PROVE  Kin(gate) /\ Kin(Looked)
<1>1. Kin(gate)
  BY DEF Kin, ReadinessInv
<1> QED
  BY <1>1, InvalidateKin DEF Looked

\* What a request makes of the gate, and what it is told: of a probe only what belongs to the
\* generation that the gate is then in.
LEMMA ReadMoves ==
    ASSUME NEW g0, Kin(g0), NEW k \in Configurations, NEW works \in BOOLEAN,
           NEW read, read = Read(g0, k, works)
    PROVE  /\ Moves(read.gate)
           /\ read.told \in Told \cup {"waiting", "probing"} /\ read.from \in Nat
           /\ read.told \in {"waiting", "probing"} =>
                 /\ read.gate.flight # Absent /\ read.gate.flight.resolved = Absent
                 /\ read.gate.flight.generation = read.gate.generation
                 /\ read.from = read.gate.generation
           /\ read.told \in Found => read.from = read.gate.generation
<1>1. PICK g : g = IF k = g0.key THEN g0 ELSE [Invalidate(g0) EXCEPT !.key = k]
  OBVIOUS
<1>2. Kin(g)
  BY <1>1, InvalidateKin, KeyKin
<1>3. PICK none : none = [g EXCEPT !.cache = Absent]
  OBVIOUS
<1>4. none = [key |-> g.key, generation |-> g.generation, cache |-> Absent,
              flight |-> g.flight]
  BY <1>2, <1>3 DEF Kin, GateType
<1>5. Kin(none) /\ CacheOK(none) /\ none \in GateType /\ none.flight = g.flight
      /\ none.generation = g.generation
  BY <1>2, <1>4, GateFields DEF Kin, GateType, CacheOK
<1>6. g \in GateType /\ CacheOK(g) /\ g.generation \in Nat
      /\ (g.flight # Absent => g.flight \in FlightType)
  BY <1>2, GateFields DEF Kin
<1>7. PICK joined : joined = IF none.flight.overdue THEN Finish(none, "timeout", works) ELSE none
  OBVIOUS
<1>8. read =
        CASE ~works ->
               [gate |-> [none EXCEPT !.flight = IF @ = Absent THEN Absent ELSE Resolved(@, "timeout")],
                told |-> "timeout", from |-> g.generation]
          [] works /\ Valid(g, k) ->
               [gate |-> g, told |-> g.cache.outcome, from |-> g.cache.from]
          [] works /\ ~Valid(g, k) /\ RoomForProbe(g) ->
               [gate |-> [none EXCEPT !.flight = NewFlight(g, k)],
                told |-> "probing", from |-> g.generation]
          [] works /\ ~Valid(g, k) /\ ~RoomForProbe(g) /\ ~Joinable(g, k) ->
               [gate |-> none, told |-> "busy", from |-> g.generation]
          [] works /\ ~Valid(g, k) /\ ~RoomForProbe(g) /\ Joinable(g, k) ->
               [gate |-> joined,
                told |-> IF joined.flight.resolved = Absent THEN "waiting" ELSE joined.flight.resolved,
                from |-> g.flight.generation]
  BY <1>1, <1>3, <1>7 DEF Read
<1>9. CASE ~works
  <2>1. PICK flight : flight = IF g.flight = Absent THEN Absent ELSE Resolved(g.flight, "timeout")
    OBVIOUS
  <2>2. PICK h : h = [none EXCEPT !.flight = IF @ = Absent THEN Absent ELSE Resolved(@, "timeout")]
    OBVIOUS
  <2>3. h = [key |-> g.key, generation |-> g.generation, cache |-> Absent, flight |-> flight]
    <3>1. h = [none EXCEPT !.flight = flight]
      BY <1>5, <2>1, <2>2
    <3> QED
      BY <1>4, <3>1
  <2>4. flight \in FlightType \cup {Absent}
        /\ (g.flight # Absent => flight # Absent /\ flight.resolved \in Told
              /\ (g.flight.resolved = Absent => flight.resolved = "timeout")
              /\ (g.flight.resolved # Absent => flight.resolved = g.flight.resolved))
    BY <1>6, <2>1, ResolvedType, Outcomes DEF FlightType
  <2>5. h \in GateType /\ CacheOK(h) /\ h.flight = flight /\ h.generation = g.generation
    BY <1>6, <2>3, <2>4, GateFields DEF GateType, CacheOK
  <2>6. Moves(h)
    BY <1>2, <2>4, <2>5, Outcomes DEF Moves, Kin
  <2>7. read.gate = h /\ read.told = "timeout" /\ read.from = g.generation
    BY <1>8, <1>9, <2>2
  <2> QED
    BY <1>6, <2>6, <2>7, Outcomes
<1>10. CASE works /\ Valid(g, k)
  <2>1. read.gate = g /\ read.told = g.cache.outcome /\ read.from = g.cache.from
    BY <1>8, <1>10
  <2>2. g.cache \in CacheType /\ g.cache.from = g.generation
    BY <1>6, <1>10, GateFields DEF Valid, CacheOK
  <2>3. g.cache.outcome \in Told
    BY <2>2 DEF CacheType
  <2> QED
    BY <1>2, <1>6, <2>1, <2>2, <2>3, KinMoves, Outcomes
<1>11. CASE works /\ ~Valid(g, k) /\ RoomForProbe(g)
  <2>1. PICK h : h = [none EXCEPT !.flight = NewFlight(g, k)]
    OBVIOUS
  <2>2. NewFlight(g, k) \in FlightType /\ NewFlight(g, k) # Absent
        /\ NewFlight(g, k).resolved = Absent /\ NewFlight(g, k).generation = g.generation
    <3>1. NewFlight(g, k) \in FlightType
      BY <1>6 DEF NewFlight, FlightType
    <3> QED
      BY <3>1, ReadinessAssumption DEF NewFlight
  <2>3. h = [key |-> g.key, generation |-> g.generation, cache |-> Absent,
             flight |-> NewFlight(g, k)]
    BY <1>4, <2>1
  <2>4. h \in GateType /\ CacheOK(h) /\ h.flight = NewFlight(g, k) /\ h.generation = g.generation
    BY <1>6, <2>2, <2>3, GateFields DEF GateType, CacheOK
  <2>5. gate.flight = Absent
    BY <1>2, <1>11 DEF Kin, RoomForProbe
  <2>6. Moves(h)
    BY <2>4, <2>5 DEF Moves
  <2>7. read.gate = h /\ read.told = "probing" /\ read.from = g.generation
    BY <1>8, <1>11, <2>1
  <2> QED
    BY <1>6, <2>2, <2>4, <2>6, <2>7, Outcomes DEF Found
<1>12. CASE works /\ ~Valid(g, k) /\ ~RoomForProbe(g) /\ ~Joinable(g, k)
  <2>1. read.gate = none /\ read.told = "busy" /\ read.from = g.generation
    BY <1>8, <1>12
  <2> QED
    BY <1>5, <1>6, <2>1, KinMoves, Outcomes
<1>13. CASE works /\ ~Valid(g, k) /\ ~RoomForProbe(g) /\ Joinable(g, k)
  <2>1. /\ read.gate = joined /\ read.from = g.flight.generation
        /\ read.told = IF joined.flight.resolved = Absent THEN "waiting" ELSE joined.flight.resolved
    BY <1>8, <1>13
  <2>2. g.flight # Absent /\ g.flight.generation = g.generation
    BY <1>13 DEF RoomForProbe, Joinable
  <2>3. CASE none.flight.overdue
    <3>1. /\ joined \in GateType /\ CacheOK(joined) /\ joined.generation = g.generation
          /\ joined.flight # Absent /\ joined.flight.resolved \in Told
      BY <1>5, <1>7, <2>2, <2>3, FinishMoves, Outcomes
    <3>2. joined.flight.resolved =
             IF g.flight.resolved = Absent THEN "timeout" ELSE g.flight.resolved
      <4>1. CASE g.flight.resolved # Absent
        BY <1>5, <1>7, <2>3, <4>1 DEF Finish
      <4>2. CASE g.flight.resolved = Absent
        <5>1. joined = [none EXCEPT !.flight.resolved = "timeout", !.cache = joined.cache]
          BY <1>5, <1>7, <2>3, <4>2 DEF Finish
        <5>2. joined.flight = [g.flight EXCEPT !.resolved = "timeout"]
          BY <1>4, <5>1
        <5> QED
          BY <1>6, <2>2, <4>2, <5>2 DEF FlightType
      <4> QED
        BY <4>1, <4>2
    <3>3. Moves(joined)
      BY <1>2, <3>1, <3>2, Outcomes DEF Moves, Kin
    <3> QED
      BY <1>6, <2>1, <2>2, <3>1, <3>3, Outcomes
  <2>4. CASE ~none.flight.overdue
    <3>1. joined = none
      BY <1>7, <2>4
    <3>2. g.flight.resolved \in Told \cup {Absent}
      BY <1>6, <2>2 DEF FlightType
    <3> QED
      BY <1>5, <1>6, <2>1, <2>2, <3>1, <3>2, KinMoves, Outcomes
  <2> QED
    BY <2>3, <2>4
<1> QED
  BY <1>9, <1>10, <1>11, <1>12, <1>13

\* Who waited and hears the result, and who goes on waiting.
LEMMA HeardOK ==
    ASSUME ReadinessInv, NEW g, Moves(g), NEW r \in Readers
    PROVE  Heard(g)[r] \in RequestType /\ RequestOK(Heard(g)[r], g, bound)
<1>1. outcome[r] \in RequestType /\ RequestOK(outcome[r], gate, bound) /\ gate \in GateType
  BY DEF ReadinessInv
<1>2. g.generation \in Nat /\ (g.flight # Absent => g.flight \in FlightType)
  BY GateFields DEF Moves
<1>3. CASE outcome[r].told = "waiting" /\ g.flight # Absent /\ g.flight.resolved # Absent
  <2>1. PICK o : o = [outcome[r] EXCEPT !.told = g.flight.resolved, !.at = g.generation]
    OBVIOUS
  <2>2. Heard(g)[r] = o
    BY <1>3, <2>1 DEF Heard
  <2>3. g.flight.resolved \in Told
    BY <1>2, <1>3 DEF FlightType
  <2>4. /\ o.told = g.flight.resolved /\ o.at = g.generation /\ o.of = outcome[r].of
        /\ o.asked = outcome[r].asked /\ o.from = outcome[r].from /\ o \in RequestType
    BY <1>1, <1>2, <2>1, <2>3 DEF RequestType
  <2>5. o.asked = gate.generation /\ o.from = gate.generation
        /\ (g.flight.resolved \in Found => g.generation = gate.generation)
    BY <1>1, <1>3, <2>4 DEF RequestOK, Awaited, Moves
  <2> QED
    BY <1>1, <1>3, <2>2, <2>3, <2>4, <2>5, Outcomes DEF RequestOK
<1>4. CASE ~(outcome[r].told = "waiting" /\ g.flight # Absent /\ g.flight.resolved # Absent)
  <2>1. Heard(g)[r] = outcome[r]
    BY <1>4 DEF Heard
  <2>2. outcome[r].told = "waiting" => Awaited(outcome[r], g)
    BY <1>1, <1>4 DEF RequestOK, Awaited, Moves
  <2> QED
    BY <1>1, <2>1, <2>2 DEF RequestOK
<1> QED
  BY <1>3, <1>4

LEMMA HeardType ==
    ASSUME NEW g
    PROVE  /\ DOMAIN Heard(g) = Readers
           /\ Heard(g) = [r \in Readers |-> Heard(g)[r]]
  BY DEF Heard

LEMMA ReadinessInitInv == ReadinessInit => ReadinessInv
<1> SUFFICES ASSUME ReadinessInit PROVE ReadinessInv
  OBVIOUS
<1>1. gate \in GateType /\ CacheOK(gate)
  BY DEF ReadinessInit, GateType, CacheOK
<1>2. NewRequest \in RequestType /\ NewRequest.told = Absent
  BY DEF NewRequest, RequestType
<1>3. ASSUME NEW r \in Readers PROVE RequestOK(outcome[r], gate, bound)
  BY <1>2, ReadinessAssumption, Outcomes DEF ReadinessInit, RequestOK, Found
<1> QED
  BY <1>1, <1>2, <1>3 DEF ReadinessInit, ReadinessInv

\* A request that is told something at once, or begins to wait.
LEMMA RequestInv ==
    ASSUME ReadinessInv, NEW r \in Readers, NEW g, Moves(g), NEW told \in Told \cup {"waiting"},
           NEW from \in Nat, Request(r, told, from, g), gate' = g,
           bound' = bound \/ (bound = Absent /\ \A k \in Readers : outcome[k].told \notin Found \cup {"waiting"}),
           told = "waiting" => /\ g.flight # Absent /\ g.flight.resolved = Absent
                               /\ g.flight.generation = g.generation,
           told \in Found \cup {"waiting"} =>
               from = g.generation /\ Connection[environment] = bound',
           UNCHANGED environment
    PROVE  ReadinessInv'
<1>1. environment \in Configurations /\ outcome \in [Readers -> RequestType]
  BY DEF ReadinessInv
<1>2. g \in GateType /\ CacheOK(g) /\ g.generation \in Nat
  BY GateFields DEF Moves
<1>3. PICK o : o = [told |-> told, of |-> environment, asked |-> g.generation, from |-> from,
                    at |-> g.generation]
  OBVIOUS
<1>4. outcome' = [Heard(g) EXCEPT ![r] = o]
  BY <1>3 DEF Request
<1>5. o \in RequestType /\ RequestOK(o, g, bound')
  <2>1. o \in RequestType
    BY <1>1, <1>2, <1>3 DEF RequestType
  <2> QED
    BY <1>1, <1>3, <2>1 DEF RequestOK, Awaited
<1>6. ASSUME NEW k \in Readers, k # r
      PROVE  outcome'[k] = Heard(g)[k] /\ Heard(g)[k] \in RequestType
             /\ RequestOK(Heard(g)[k], g, bound')
  <2>1. outcome'[k] = Heard(g)[k]
    BY <1>4, <1>6, HeardType
  <2>2. Heard(g)[k] \in RequestType /\ RequestOK(Heard(g)[k], g, bound)
    BY HeardOK
  <2>3. CASE bound' = bound
    BY <2>1, <2>2, <2>3
  <2>4. CASE outcome[k].told \notin Found \cup {"waiting"}
    <3>1. Heard(g)[k] = outcome[k]
      BY <2>4 DEF Heard
    <3> QED
      BY <2>1, <2>2, <2>4, <3>1 DEF RequestOK
  <2> QED
    BY <2>3, <2>4
<1>7. outcome'[r] = o
  BY <1>4, HeardType
<1>8. outcome' \in [Readers -> RequestType]
  <2>1. outcome' = [k \in Readers |-> outcome'[k]]
    BY <1>4, HeardType
  <2> QED
    BY <1>5, <1>6, <1>7, <2>1
<1>9. \A k \in Readers : RequestOK(outcome'[k], gate', bound')
  BY <1>5, <1>6, <1>7
<1> QED
  BY <1>1, <1>2, <1>8, <1>9 DEF ReadinessInv

\* Without a pool nobody has been told, or waits for, anything of the database.
LEMMA NobodyAsked ==
    ASSUME ReadinessInv, bound = Absent, NEW r \in Readers
    PROVE  outcome[r].told \notin Found \cup {"waiting"}
  BY ReadinessAssumption DEF ReadinessInv, RequestOK

LEMMA RespondInv ==
    ASSUME ReadinessInv, NEW r \in Readers, NEW works \in BOOLEAN, Respond(r, works)
    PROVE  ReadinessInv'
<1>1. PICK read : read = Read(Looked, environment, works)
  OBVIOUS
<1>2. PICK told : told = IF read.told = "probing" THEN "waiting" ELSE read.told
  OBVIOUS
<1>3. /\ gate' = read.gate /\ bound' = Connection[environment]
      /\ Request(r, told, read.from, read.gate) /\ UNCHANGED environment
  BY <1>1, <1>2 DEF Respond
<1>4. environment \in Configurations /\ Kin(Looked)
  BY LookedKin DEF ReadinessInv
<1>5. /\ Moves(read.gate)
      /\ read.told \in Told \cup {"waiting", "probing"} /\ read.from \in Nat
      /\ read.told \in {"waiting", "probing"} =>
            /\ read.gate.flight # Absent /\ read.gate.flight.resolved = Absent
            /\ read.gate.flight.generation = read.gate.generation
            /\ read.from = read.gate.generation
      /\ read.told \in Found => read.from = read.gate.generation
  BY <1>1, <1>4, ReadMoves
<1>6. bound' = bound \/ (bound = Absent /\ \A k \in Readers : outcome[k].told \notin Found \cup {"waiting"})
  BY <1>3, NobodyAsked DEF Respond, Fit, OtherPool
<1>7. /\ told \in Told \cup {"waiting"}
      /\ told = "waiting" => /\ read.gate.flight # Absent /\ read.gate.flight.resolved = Absent
                             /\ read.gate.flight.generation = read.gate.generation
      /\ told \in Found \cup {"waiting"} => read.from = read.gate.generation
  BY <1>2, <1>5, Outcomes
<1> QED
  BY <1>3, <1>5, <1>6, <1>7, RequestInv

LEMMA RespondUnfitInv ==
    ASSUME ReadinessInv, NEW r \in Readers, RespondUnfit(r)
    PROVE  ReadinessInv'
<1>1. Moves(Looked)
  BY LookedKin, KinMoves
<1>2. "unfit" \in Told \cup {"waiting"} /\ "unfit" \notin Found \cup {"waiting"} /\ 0 \in Nat
  BY DEF Told, Found
<1>3. gate' = Looked /\ Request(r, "unfit", 0, Looked) /\ UNCHANGED <<environment, bound>>
  BY DEF RespondUnfit
<1> QED
  BY <1>1, <1>2, <1>3, RequestInv

\* The gate moves, those who wait hear of it, and nothing else happens.
LEMMA GateInv ==
    ASSUME ReadinessInv, NEW g, Moves(g), outcome' = Heard(g), UNCHANGED <<environment, bound>>,
           \/ gate' = g
           \/ /\ g.flight # Absent /\ g.flight.resolved \in Told
              /\ gate' = [g EXCEPT !.flight = Absent]
    PROVE  ReadinessInv'
<1>1. environment \in Configurations /\ g \in GateType /\ CacheOK(g)
  BY DEF ReadinessInv, Moves
<1>2. \A r \in Readers : Heard(g)[r] \in RequestType /\ RequestOK(Heard(g)[r], g, bound)
  BY HeardOK
<1>3. outcome' \in [Readers -> RequestType]
  BY <1>2, HeardType
<1>4. gate' \in GateType /\ CacheOK(gate') /\ gate'.generation = g.generation
  <2>1. CASE gate' = g
    BY <1>1, <2>1
  <2>2. CASE gate' = [g EXCEPT !.flight = Absent]
    <3>1. gate' = [key |-> g.key, generation |-> g.generation, cache |-> g.cache,
                   flight |-> Absent]
      BY <1>1, <2>2 DEF GateType
    <3> QED
      BY <1>1, <3>1, GateFields DEF GateType, CacheOK
  <2> QED
    BY <2>1, <2>2
<1>5. ASSUME NEW r \in Readers PROVE RequestOK(outcome'[r], gate', bound')
  <2>1. CASE gate' = g
    BY <1>2, <2>1
  <2>2. CASE g.flight # Absent /\ g.flight.resolved \in Told
    <3>1. outcome'[r].told # "waiting"
      BY <1>2, <2>2, Outcomes DEF RequestOK, Awaited
    <3> QED
      BY <1>2, <3>1 DEF RequestOK
  <2> QED
    BY <2>1, <2>2
<1> QED
  BY <1>1, <1>3, <1>4, <1>5 DEF ReadinessInv

LEMMA FinishInv ==
    ASSUME ReadinessInv, NEW told \in Told, NEW works \in BOOLEAN, gate.flight # Absent,
           NEW g, g = Finish(gate, told, works)
    PROVE  Moves(g) /\ g.flight # Absent /\ g.flight.resolved \in Told
  BY FinishMoves, Outcomes DEF ReadinessInv, Moves

LEMMA ReadinessStepInv == ReadinessInv /\ [ReadinessNext]_readinessVars => ReadinessInv'
<1> SUFFICES ASSUME ReadinessInv, [ReadinessNext]_readinessVars PROVE ReadinessInv'
  OBVIOUS
<1>1. ASSUME NEW k \in Configurations, Configure(k) PROVE ReadinessInv'
  BY <1>1 DEF Configure, ReadinessInv
<1>2. ASSUME NEW r \in Readers, RespondUnfit(r) \/ \E works \in BOOLEAN : Respond(r, works)
      PROVE  ReadinessInv'
  BY <1>2, RespondInv, RespondUnfitInv
<1>3. ASSUME NEW works \in BOOLEAN, DeadlineFires(works) PROVE ReadinessInv'
  <2>1. PICK g : g = Finish(gate, "timeout", works)
    OBVIOUS
  <2>2. /\ gate.flight # Absent /\ gate' = g /\ outcome' = Heard(g)
        /\ UNCHANGED <<environment, bound>>
    BY <1>3, <2>1 DEF DeadlineFires, Gate
  <2> QED
    BY <2>1, <2>2, FinishInv, GateInv, Outcomes
<1>4. ASSUME NEW works \in BOOLEAN, NEW found \in Found, ProbeSettles(found, works)
      PROVE  ReadinessInv'
  <2>1. PICK g : g = Finish(gate, found, works)
    OBVIOUS
  <2>2. /\ gate.flight # Absent /\ gate' = [g EXCEPT !.flight = Absent] /\ outcome' = Heard(g)
        /\ UNCHANGED <<environment, bound>>
    BY <1>4, <2>1 DEF ProbeSettles
  <2>3. found \in Told
    BY Outcomes
  <2> QED
    BY <2>1, <2>2, <2>3, FinishInv, GateInv
<1>5. CASE ProbeOverdue
  <2>1. PICK flight : flight = [gate.flight EXCEPT !.overdue = TRUE]
    OBVIOUS
  <2>2. gate' = [gate EXCEPT !.flight = flight] /\ gate.flight # Absent
        /\ UNCHANGED <<environment, bound, outcome>>
    BY <1>5, <2>1 DEF ProbeOverdue
  <2>3. gate.flight \in FlightType /\ gate \in GateType /\ CacheOK(gate)
    BY <2>2, GateFields DEF ReadinessInv
  <2>4. /\ flight \in FlightType /\ flight # Absent /\ flight.resolved = gate.flight.resolved
        /\ flight.generation = gate.flight.generation
    BY <2>1, <2>3, ReadinessAssumption DEF FlightType
  <2>5. gate' = [key |-> gate.key, generation |-> gate.generation, cache |-> gate.cache,
                 flight |-> flight]
    BY <2>2, <2>3 DEF GateType
  <2>6. gate' \in GateType /\ CacheOK(gate')
    BY <2>3, <2>4, <2>5, GateFields DEF GateType, CacheOK
  <2>7. ASSUME NEW r \in Readers PROVE RequestOK(outcome'[r], gate', bound')
    BY <2>2, <2>4, <2>5 DEF ReadinessInv, RequestOK, Awaited
  <2> QED
    BY <2>2, <2>6, <2>7 DEF ReadinessInv
<1>6. CASE CacheExpires
  <2>1. PICK cache : cache = [gate.cache EXCEPT !.expired = TRUE]
    OBVIOUS
  <2>2. gate' = [gate EXCEPT !.cache = cache] /\ gate.cache # Absent
        /\ UNCHANGED <<environment, bound, outcome>>
    BY <1>6, <2>1 DEF CacheExpires
  <2>3. gate.cache \in CacheType /\ gate \in GateType /\ CacheOK(gate)
    BY <2>2, GateFields DEF ReadinessInv
  <2>4. /\ cache \in CacheType /\ cache.from = gate.cache.from
        /\ cache.generation = gate.cache.generation
    BY <2>1, <2>3 DEF CacheType
  <2>5. gate' = [key |-> gate.key, generation |-> gate.generation, cache |-> cache,
                 flight |-> gate.flight]
    BY <2>2, <2>3 DEF GateType
  <2>6. gate' \in GateType /\ CacheOK(gate')
    BY <2>2, <2>3, <2>4, <2>5, GateFields DEF GateType, CacheOK
  <2>7. ASSUME NEW r \in Readers PROVE RequestOK(outcome'[r], gate', bound')
    BY <2>2, <2>5 DEF ReadinessInv, RequestOK, Awaited
  <2> QED
    BY <2>2, <2>6, <2>7 DEF ReadinessInv
<1>7. CASE UNCHANGED readinessVars
  BY <1>7 DEF readinessVars, ReadinessInv
<1> QED
  BY <1>1, <1>2, <1>3, <1>4, <1>5, <1>6, <1>7 DEF ReadinessNext

ReadinessSpec == ReadinessInit /\ [][ReadinessNext]_readinessVars

\* What the health endpoint tells of the database is of the configuration it was asked for: no
\* outcome crosses a change of the environment (readinessResponse, invalidate, finish, read).
THEOREM ReportsAreCurrent == ReadinessSpec => []ReportCurrent
<1>1. ReadinessInv => ReportCurrent
  BY DEF ReadinessInv, RequestOK, ReportCurrent
<1> QED
  BY <1>1, ReadinessInitInv, ReadinessStepInv, PTL DEF ReadinessSpec

----------------------------------------------------------------------------
(* Backups and restores.                                                   *)

\* A restore that has locked the tables.
Holds(s) == scripts[s].mode = "restore" /\ scripts[s].at \notin {"idle", "asked", "ended"}

\* While tables are locked, what was read of them is what they hold; nobody else locks them.
ScriptOK(s) ==
    /\ scripts[s].at \in {"asked", "locked"} => scripts[s].mode = "restore"
    /\ scripts[s].at \in {"idle", "ended"} => scripts[s].mode = "backup"
    /\ Whole(scripts[s].source)
    /\ scripts[s].at = "reading" =>
          scripts[s].copy.records = {c \in Commands : scripts[s].view[c] # 0}
    /\ scripts[s].at \in {"captured", "staged", "linked", "saved"} => Whole(scripts[s].copy)
    /\ Holds(s) => /\ scripts[s].at # "locked" => scripts[s].copy.records = database.records
                   /\ \A other \in Scripts \ {s} : ~Holds(other)

\* How far a script is tells what is on the disk.
FileOK(s) ==
    /\ Whole(disk[s].content)
    /\ disk[s].linked => scripts[s].at \in {"linked", "saved", "ended"}
    /\ scripts[s].at \in {"linked", "saved"} => disk[s].content = scripts[s].copy
    /\ scripts[s].at \in {"linked", "saved"} => disk[s].linked
    /\ scripts[s].at = "saved" => disk[s].durable

\* A sign-in that still counts was made after the last restore.
CommandOK(c) ==
    /\ commands[c].at = "saved" => InSafety(c)
    /\ commands[c].token <= signedIn
    /\ commands[c].at \in {"reviewed", "open"} /\ commands[c].token \in database.sessions =>
          commands[c].since = restores

BackupInv ==
    /\ BackupTypeOK
    /\ Whole(database)
    /\ \A t \in database.sessions : t <= signedIn
    /\ \A s \in Scripts : ScriptOK(s) /\ FileOK(s)
    /\ \A c \in Commands : CommandOK(c)

----------------------------------------------------------------------------

LEMMA RecordTypes ==
    /\ NoRecords \in Snapshots /\ Whole(NoRecords) /\ NoRecords.receipts \in [Commands -> Nat]
    /\ NewScript \in ScriptType /\ EndedScript \in ScriptType
    /\ EndedScript.at = "ended" /\ EndedScript.mode = "backup" /\ Whole(EndedScript.source)
    /\ NoFile \in FileType /\ Whole(NoFile.content) /\ ~NoFile.linked
<1>1. NoRecords \in Snapshots /\ Whole(NoRecords) /\ NoRecords.receipts \in [Commands -> Nat]
  BY DEF NoRecords, Snapshots, Whole
<1>2. NewScript \in ScriptType
  BY <1>1 DEF NewScript, ScriptType, Stages
<1>3. EndedScript = [NewScript EXCEPT !.at = "ended"]
  BY DEF EndedScript
<1>4. /\ EndedScript \in ScriptType /\ EndedScript.at = "ended"
      /\ EndedScript.mode = "backup" /\ EndedScript.source = NoRecords
  BY <1>2, <1>3 DEF NewScript, ScriptType, Stages
<1>5. NoFile \in FileType /\ NoFile.content = NoRecords /\ ~NoFile.linked
  BY <1>1 DEF NoFile, FileType
<1> QED
  BY <1>1, <1>2, <1>4, <1>5

LEMMA CommandTypes ==
    ASSUME NEW at \in {"new", "saved", "refused"}
    PROVE  /\ Command(at) \in CommandType
           /\ Command(at).at = at /\ Command(at).token = 0 /\ Command(at).since = 0
BY BackupAssumption DEF Command, CommandType

\* What a step does to a script or a command has the type of one.
LEMMA ChangedTypes ==
    ASSUME BackupTypeOK
    PROVE  /\ \A s \in Scripts, x \in ScriptType :
                  [scripts EXCEPT ![s] = x] \in [Scripts -> ScriptType]
           /\ \A c \in Commands, x \in CommandType :
                  [commands EXCEPT ![c] = x] \in [Commands -> CommandType]
BY DEF BackupTypeOK

LEMMA NobodyHolds ==
    ASSUME BackupTypeOK
    PROVE  Unlocked <=> \A s \in Scripts : ~Holds(s)
BY DEF BackupTypeOK, ScriptType, Unlocked, Holds

LEMMA TypeInit == BackupInit => BackupTypeOK
<1> SUFFICES ASSUME BackupInit PROVE BackupTypeOK
  OBVIOUS
<1>1. database \in DatabaseType
  BY DEF BackupInit, DatabaseType
<1>2. disk \in [Scripts -> FileType]
  BY RecordTypes DEF BackupInit
<1>3. scripts \in [Scripts -> ScriptType]
  BY RecordTypes DEF BackupInit
<1>4. commands \in [Commands -> CommandType]
  BY CommandTypes DEF BackupInit
<1>5. signedIn \in 0 .. MaxSignIns /\ restores \in Nat
  BY BackupAssumption DEF BackupInit
<1> QED
  BY <1>1, <1>2, <1>3, <1>4, <1>5 DEF BackupTypeOK

\* What staff do, to the types.
LEMMA StaffType ==
    ASSUME BackupTypeOK,
           \/ SignIn
           \/ \E c \in Commands, t \in database.sessions : Review(c, t)
           \/ \E c \in Commands : BeginCommand(c) \/ CommitCommand(c) \/ RefuseCommand(c)
    PROVE  BackupTypeOK'
<1> USE BackupAssumption DEF BackupTypeOK
<1>1. CASE SignIn
  BY <1>1 DEF SignIn, DatabaseType
<1>2. ASSUME NEW c \in Commands, NEW t \in database.sessions, Review(c, t) PROVE BackupTypeOK'
  BY <1>2 DEF Review, CommandType, DatabaseType
<1>3. ASSUME NEW c \in Commands, BeginCommand(c) PROVE BackupTypeOK'
  BY <1>3 DEF BeginCommand, CommandType
<1>4. ASSUME NEW c \in Commands, CommitCommand(c) PROVE BackupTypeOK'
  <2>1. database' \in DatabaseType
    <3> DEFINE receipts == [database.receipts EXCEPT ![c] = database.revision + 1]
    <3>1. receipts \in [Commands -> Nat]
      BY DEF DatabaseType
    <3>2. database' = [database EXCEPT !.records = @ \cup {c}, !.revision = database.revision + 1,
                                       !.receipts = receipts]
      BY <1>4 DEF CommitCommand
    <3>3. database.records \cup {c} \in SUBSET Commands /\ database.revision + 1 \in Nat
      BY DEF DatabaseType
    <3>4. database \in DatabaseType
      OBVIOUS
    <3> HIDE DEF receipts, BackupTypeOK
    <3> QED
      BY <3>1, <3>2, <3>3, <3>4 DEF DatabaseType
  <2>2. commands' \in [Commands -> CommandType]
    BY <1>4, CommandTypes, ChangedTypes DEF CommitCommand
  <2> QED
    BY <1>4, <2>1, <2>2 DEF CommitCommand
<1>5. ASSUME NEW c \in Commands, RefuseCommand(c) PROVE BackupTypeOK'
  BY <1>5, CommandTypes, ChangedTypes DEF RefuseCommand
<1> QED
  BY <1>1, <1>2, <1>3, <1>4, <1>5

\* What scripts do, to the types.
LEMMA ScriptStepType ==
    ASSUME BackupTypeOK, NEW s \in Scripts,
           \/ \E f \in Scripts : AskRestore(s, f)
           \/ LockTables(s) \/ ReadRecords(s) \/ ReadReceipts(s)
           \/ Stage(s) \/ Link(s) \/ SyncDirectory(s) \/ EndBackup(s)
           \/ CommitRestore(s) \/ ScriptFails(s)
    PROVE  BackupTypeOK'
<1> USE DEF BackupTypeOK
<1>1. ASSUME NEW f \in Scripts, AskRestore(s, f) PROVE BackupTypeOK'
  <2> DEFINE x == [scripts[s] EXCEPT !.mode = "restore", !.at = "asked", !.source = disk[f].content]
  <2>1. x \in ScriptType
    BY DEF ScriptType, FileType, Stages
  <2> QED
    BY <1>1, <2>1 DEF AskRestore
<1>2. CASE LockTables(s)
  BY <1>2 DEF LockTables, ScriptType, Stages
<1>3. CASE ReadRecords(s)
  <2> DEFINE x == [scripts[s] EXCEPT !.at = "reading", !.view = database.receipts,
                                     !.copy = RecordsOf(database)]
  <2>1. RecordsOf(database) \in Snapshots
    BY RecordTypes DEF RecordsOf, Snapshots, DatabaseType
  <2>2. x \in ScriptType
    BY <2>1 DEF ScriptType, Stages, DatabaseType
  <2> QED
    BY <1>3, <2>2 DEF ReadRecords
<1>4. CASE ReadReceipts(s)
  <2>1. ReceiptsRead(s) \in [Commands -> Nat]
    BY DEF ReceiptsRead, ScriptType, DatabaseType
  <2>2. [scripts[s].copy EXCEPT !.receipts = ReceiptsRead(s)] \in Snapshots
    <3>1. scripts[s].copy \in Snapshots
      BY DEF ScriptType
    <3> QED
      BY <2>1, <3>1 DEF Snapshots
  <2> DEFINE copy == [scripts[s].copy EXCEPT !.receipts = ReceiptsRead(s)]
             x == [scripts[s] EXCEPT !.at = "captured", !.copy = copy, !.view = NoRecords.receipts]
  <2>3. x \in ScriptType
    <3>1. copy \in Snapshots /\ scripts[s] \in ScriptType
      BY <2>2
    <3> HIDE DEF copy, BackupTypeOK
    <3> QED
      BY <3>1, RecordTypes DEF ScriptType, Stages
  <2> HIDE DEF x
  <2>4. scripts' = [scripts EXCEPT ![s] = x]
    BY <1>4 DEF ReadReceipts, x
  <2> QED
    BY <1>4, <2>3, <2>4, ChangedTypes DEF ReadReceipts
<1>5. ASSUME NEW at \in Stages PROVE [scripts EXCEPT ![s].at = at] \in [Scripts -> ScriptType]
  <2> DEFINE x == [scripts[s] EXCEPT !.at = at]
  <2>1. x \in ScriptType
    BY DEF ScriptType
  <2> QED
    BY <2>1
<1>6. CASE Stage(s)
  BY <1>5, <1>6 DEF Stage, Stages
<1>7. CASE Link(s)
  <2> DEFINE file == [content |-> scripts[s].copy, linked |-> TRUE, durable |-> FALSE]
  <2>1. file \in FileType
    BY DEF FileType, ScriptType
  <2>2. disk' \in [Scripts -> FileType]
    BY <1>7, <2>1 DEF Link
  <2> QED
    BY <1>5, <1>7, <2>2 DEF Link, Stages
<1>8. CASE SyncDirectory(s)
  <2>1. ASSUME NEW f \in Scripts
        PROVE  [disk[f] EXCEPT !.durable = @ \/ disk[f].linked] \in FileType
    BY DEF FileType
  <2>2. disk' \in [Scripts -> FileType]
    BY <1>8, <2>1 DEF SyncDirectory
  <2> QED
    BY <1>5, <1>8, <2>2 DEF SyncDirectory, Stages
<1>9. CASE EndBackup(s) \/ ScriptFails(s)
  BY <1>9, RecordTypes DEF EndBackup, ScriptFails
<1>10. CASE CommitRestore(s)
  <2>1. database' \in DatabaseType
    BY <1>10 DEF CommitRestore, DatabaseType, ScriptType, Snapshots, SessionsLeft
  <2> QED
    BY <1>10, <2>1, RecordTypes DEF CommitRestore
<1> QED
  BY <1>1, <1>2, <1>3, <1>4, <1>6, <1>7, <1>8, <1>9, <1>10

LEMMA PowerType ==
    ASSUME BackupTypeOK, NEW gone \in SUBSET Scripts, PowerFails(gone)
    PROVE  BackupTypeOK'
<1>1. disk' \in [Scripts -> FileType]
  BY RecordTypes DEF PowerFails, BackupTypeOK
<1>2. scripts' \in [Scripts -> ScriptType]
  BY RecordTypes DEF PowerFails, BackupTypeOK
<1>3. commands' \in [Commands -> CommandType]
  BY CommandTypes DEF PowerFails, BackupTypeOK
<1> QED
  BY <1>1, <1>2, <1>3 DEF PowerFails, BackupTypeOK

----------------------------------------------------------------------------

LEMMA InitInv == BackupInit => BackupInv
<1> SUFFICES ASSUME BackupInit PROVE BackupInv
  OBVIOUS
<1>1. BackupTypeOK
  BY TypeInit
<1>2. Whole(database) /\ \A t \in database.sessions : t <= signedIn
  BY DEF BackupInit, Whole
<1>3. ASSUME NEW s \in Scripts PROVE ScriptOK(s) /\ FileOK(s)
  <2>1. /\ scripts[s].at = "idle" /\ scripts[s].mode = "backup" /\ scripts[s].source = NoRecords
        /\ disk[s] = NoFile
    BY DEF BackupInit, NewScript
  <2> QED
    BY <2>1, RecordTypes DEF ScriptOK, FileOK, Holds
<1>4. ASSUME NEW c \in Commands PROVE CommandOK(c)
  BY CommandTypes DEF BackupInit, CommandOK
<1> QED
  BY <1>1, <1>2, <1>3, <1>4 DEF BackupInv

\* Scripts stay as they are while staff sign in and prepare commands.
LEMMA ScriptsStay ==
    ASSUME BackupInv, UNCHANGED <<disk, scripts>>, Whole(database'),
           database'.records = database.records \/ Unlocked
    PROVE  \A s \in Scripts : ScriptOK(s)' /\ FileOK(s)'
<1> SUFFICES ASSUME NEW s \in Scripts PROVE ScriptOK(s)' /\ FileOK(s)'
  OBVIOUS
<1>1. ScriptOK(s) /\ FileOK(s) /\ BackupTypeOK
  BY DEF BackupInv
<1>2. FileOK(s)'
  BY <1>1 DEF FileOK, Whole
<1>3. \A r \in Scripts : Holds(r)' <=> Holds(r)
  BY DEF Holds
<1>4. Holds(s) => database'.records = database.records
  BY <1>1, NobodyHolds
<1>5. ScriptOK(s)'
  BY <1>1, <1>3, <1>4 DEF ScriptOK, Whole
<1> QED
  BY <1>2, <1>5

LEMMA SignInInv ==
    ASSUME BackupInv, SignIn, BackupTypeOK'
    PROVE  BackupInv'
<1>1. /\ database'.records = database.records /\ database'.receipts = database.receipts
      /\ database'.sessions = database.sessions \cup {signedIn + 1} /\ signedIn' = signedIn + 1
  BY DEF SignIn, BackupInv, BackupTypeOK, DatabaseType
<1>2. signedIn \in Nat
  BY DEF BackupInv, BackupTypeOK
<1>3. Whole(database)'
  BY <1>1 DEF BackupInv, Whole
<1>4. \A s \in Scripts : ScriptOK(s)' /\ FileOK(s)'
  BY <1>1, <1>3, ScriptsStay DEF SignIn
<1>5. ASSUME NEW c \in Commands PROVE CommandOK(c)'
  <2>1. CommandOK(c) /\ commands[c].token \in Nat
    BY BackupAssumption DEF BackupInv, BackupTypeOK, CommandType
  <2>2. InSafety(c) => InSafety(c)'
    BY <1>1 DEF InSafety, SignIn
  <2>3. commands[c].token # signedIn + 1
    BY <1>2, <2>1 DEF CommandOK
  <2> QED
    BY <1>1, <1>2, <2>1, <2>2, <2>3 DEF CommandOK, SignIn
<1>6. \A t \in database'.sessions : t <= signedIn'
  <2>1. ASSUME NEW t \in database.sessions PROVE t <= signedIn /\ t \in Nat
    BY DEF BackupInv, BackupTypeOK, DatabaseType
  <2> QED
    BY <1>1, <1>2, <2>1
<1> QED
  BY <1>3, <1>4, <1>5, <1>6 DEF BackupInv

\* A step of one command that leaves the database alone.
LEMMA CommandStepInv ==
    ASSUME BackupInv, BackupTypeOK', UNCHANGED <<database, disk, scripts, signedIn, restores>>,
           \A c \in Commands : CommandOK(c)'
    PROVE  BackupInv'
<1>1. Whole(database)'
  BY DEF BackupInv, Whole
<1>2. \A s \in Scripts : ScriptOK(s)' /\ FileOK(s)'
  BY <1>1, ScriptsStay
<1> QED
  BY <1>1, <1>2 DEF BackupInv

LEMMA StaffInv ==
    ASSUME BackupInv, BackupTypeOK', NEW c \in Commands,
           \/ \E t \in database.sessions : Review(c, t)
           \/ BeginCommand(c) \/ RefuseCommand(c)
    PROVE  BackupInv'
<1>1. UNCHANGED <<database, disk, scripts, signedIn, restores>>
  BY DEF Review, BeginCommand, RefuseCommand
<1>2. ASSUME NEW other \in Commands PROVE CommandOK(other)'
  <2>1. CommandOK(other) /\ (InSafety(other) => InSafety(other)') /\ commands \in [Commands -> CommandType]
    BY <1>1 DEF BackupInv, BackupTypeOK, InSafety
  <2>2. CASE \E t \in database.sessions : Review(c, t)
    <3>1. PICK t \in database.sessions : Review(c, t)
      BY <2>2
    <3>2. t <= signedIn
      BY DEF BackupInv
    <3> QED
      BY <1>1, <2>1, <3>1, <3>2 DEF Review, CommandOK, CommandType
  <2>3. CASE BeginCommand(c)
    BY <1>1, <2>1, <2>3 DEF BeginCommand, CommandOK, CommandType
  <2>4. CASE RefuseCommand(c)
    <3>1. signedIn \in Nat
      BY DEF BackupInv, BackupTypeOK
    <3>2. commands'[other] = IF other = c THEN Command("refused") ELSE commands[other]
      BY <2>1, <2>4 DEF RefuseCommand
    <3> QED
      BY <1>1, <2>1, <3>1, <3>2, CommandTypes DEF CommandOK
  <2> QED
    BY <2>2, <2>3, <2>4
<1> QED
  BY <1>1, <1>2, CommandStepInv

LEMMA CommitCommandInv ==
    ASSUME BackupInv, BackupTypeOK', NEW c \in Commands, CommitCommand(c)
    PROVE  BackupInv'
<1> DEFINE revision == database.revision + 1
<1>1. /\ database'.records = database.records \cup {c}
      /\ database'.receipts = [database.receipts EXCEPT ![c] = revision]
      /\ database'.sessions = database.sessions
  BY DEF CommitCommand, BackupInv, BackupTypeOK, DatabaseType
<1>2. revision # 0 /\ database.receipts \in [Commands -> Nat]
  BY DEF BackupInv, BackupTypeOK, DatabaseType
<1>3. Whole(database)'
  <2>1. database.records = {k \in Commands : database.receipts[k] # 0}
    BY DEF BackupInv, Whole
  <2> HIDE DEF revision
  <2> QED
    BY <1>1, <1>2, <2>1 DEF Whole
<1>4. \A s \in Scripts : ScriptOK(s)' /\ FileOK(s)'
  BY <1>3, ScriptsStay DEF CommitCommand
<1>5. ASSUME NEW other \in Commands PROVE CommandOK(other)'
  <2>1. CommandOK(other) /\ commands \in [Commands -> CommandType]
    BY DEF BackupInv, BackupTypeOK
  <2>2. (InSafety(other) => InSafety(other)') /\ InSafety(c)'
    BY <1>1 DEF InSafety, CommitCommand
  <2>3. /\ commands'[other] = IF other = c THEN Command("saved") ELSE commands[other]
        /\ signedIn \in Nat /\ UNCHANGED <<signedIn, restores>>
    BY <2>1 DEF CommitCommand, BackupInv, BackupTypeOK
  <2> QED
    BY <1>1, <2>1, <2>2, <2>3, CommandTypes DEF CommandOK
<1> QED
  BY <1>1, <1>3, <1>4, <1>5 DEF BackupInv, CommitCommand

----------------------------------------------------------------------------

\* What a step of one script must leave alone, and what it must show of that script.
LEMMA OneScript ==
    ASSUME BackupInv, BackupTypeOK', UNCHANGED <<database, commands, signedIn, restores>>,
           NEW s \in Scripts, ScriptOK(s)', FileOK(s)', Holds(s)' => Holds(s) \/ Unlocked,
           \A r \in Scripts \ {s} : scripts'[r] = scripts[r],
           \A r \in Scripts \ {s} : /\ disk'[r].content = disk[r].content
                                    /\ disk'[r].linked = disk[r].linked
                                    /\ disk[r].durable => disk'[r].durable,
           disk[s].linked => /\ disk'[s].linked /\ disk'[s].content = disk[s].content
                             /\ disk[s].durable => disk'[s].durable
    PROVE  BackupInv'
<1>1. BackupTypeOK /\ Whole(database)' /\ \A t \in database'.sessions : t <= signedIn'
  BY DEF BackupInv, Whole
<1>2. ASSUME NEW r \in Scripts, r # s PROVE ScriptOK(r)' /\ FileOK(r)'
  <2>1. ScriptOK(r) /\ FileOK(r) /\ (Holds(r)' <=> Holds(r))
    BY <1>2 DEF BackupInv, Holds
  <2>2. Holds(r) => \A other \in Scripts \ {r} : ~Holds(other)'
    <3>1. SUFFICES ASSUME Holds(r), NEW other \in Scripts, other # r PROVE ~Holds(other)'
      OBVIOUS
    <3>2. ~Holds(other) /\ ~Unlocked
      BY <1>1, <2>1, <3>1, NobodyHolds DEF ScriptOK
    <3>3. CASE other = s
      BY <3>2, <3>3
    <3>4. CASE other # s
      BY <3>2, <3>4 DEF Holds
    <3> QED
      BY <3>3, <3>4
  <2>3. ScriptOK(r)'
    BY <1>2, <2>1, <2>2 DEF ScriptOK, Whole
  <2>4. FileOK(r)'
    BY <1>2, <2>1 DEF FileOK, Whole
  <2> QED
    BY <2>3, <2>4
<1>3. ASSUME NEW c \in Commands PROVE CommandOK(c)'
  <2>1. ASSUME NEW f \in Scripts, disk[f].linked, disk[f].durable
        PROVE  disk'[f].linked /\ disk'[f].durable /\ disk'[f].content = disk[f].content
    BY <2>1
  <2>2. InSafety(c) => InSafety(c)'
    BY <2>1 DEF InSafety
  <2> QED
    BY <2>2 DEF BackupInv, CommandOK
<1> QED
  BY <1>1, <1>2, <1>3 DEF BackupInv

LEMMA AskRestoreInv ==
    ASSUME BackupInv, BackupTypeOK', NEW s \in Scripts, NEW f \in Scripts, AskRestore(s, f)
    PROVE  BackupInv'
<1>1. ScriptOK(s) /\ FileOK(s) /\ Whole(disk[f].content) /\ scripts[s].at = "idle"
  BY DEF BackupInv, AskRestore, Starts, FileOK
<1>2. /\ scripts'[s].mode = "restore" /\ scripts'[s].at = "asked"
      /\ scripts'[s].source = disk[f].content
      /\ \A r \in Scripts \ {s} : scripts'[r] = scripts[r]
      /\ UNCHANGED <<database, disk, commands, signedIn, restores>>
  BY DEF AskRestore, BackupInv, BackupTypeOK, ScriptType
<1>3. ScriptOK(s)' /\ FileOK(s)' /\ ~Holds(s)'
  BY <1>1, <1>2 DEF ScriptOK, FileOK, Holds, Whole
<1> QED
  BY <1>2, <1>3, OneScript

LEMMA LockTablesInv ==
    ASSUME BackupInv, BackupTypeOK', NEW s \in Scripts, LockTables(s)
    PROVE  BackupInv'
<1>1. ScriptOK(s) /\ FileOK(s) /\ BackupTypeOK /\ scripts[s].at = "asked" /\ Unlocked
  BY DEF BackupInv, LockTables, Undisturbed
<1>2. /\ scripts'[s] = [scripts[s] EXCEPT !.at = "locked"]
      /\ \A r \in Scripts \ {s} : scripts'[r] = scripts[r]
      /\ UNCHANGED <<database, disk, commands, signedIn, restores>>
  BY DEF LockTables, BackupInv, BackupTypeOK
<1>3. /\ scripts'[s].mode = scripts[s].mode /\ scripts'[s].at = "locked"
      /\ scripts'[s].source = scripts[s].source
  BY <1>1, <1>2 DEF BackupTypeOK, ScriptType
<1>4. \A other \in Scripts \ {s} : ~Holds(other)'
  BY <1>1, <1>2, NobodyHolds DEF Holds
<1>5. ScriptOK(s)' /\ FileOK(s)'
  BY <1>1, <1>2, <1>3, <1>4 DEF ScriptOK, FileOK, Whole
<1> QED
  BY <1>1, <1>2, <1>5, OneScript

LEMMA ReadRecordsInv ==
    ASSUME BackupInv, BackupTypeOK', NEW s \in Scripts, ReadRecords(s)
    PROVE  BackupInv'
<1>1. ScriptOK(s) /\ FileOK(s) /\ BackupTypeOK /\ Whole(database)
  BY DEF BackupInv
<1>2. /\ \A r \in Scripts \ {s} : scripts'[r] = scripts[r]
      /\ UNCHANGED <<database, disk, commands, signedIn, restores>>
  BY DEF ReadRecords, BackupInv, BackupTypeOK
<1>3. /\ scripts'[s].mode = scripts[s].mode /\ scripts'[s].at = "reading"
      /\ scripts'[s].source = scripts[s].source
      /\ scripts'[s].view = database.receipts
      /\ scripts'[s].copy.records = database.records
  BY <1>1 DEF ReadRecords, RecordsOf, BackupTypeOK, ScriptType
<1>4. \/ scripts[s].at = "idle" /\ scripts[s].mode = "backup"
      \/ scripts[s].at = "locked" /\ Holds(s)
  BY <1>1 DEF ReadRecords, Starts, ScriptOK, Holds
<1>5. Holds(s)' => Holds(s)
  BY <1>3, <1>4 DEF Holds
<1>6. ScriptOK(s)' /\ FileOK(s)'
  <2>1. Holds(s)' => \A other \in Scripts \ {s} : ~Holds(other)'
    BY <1>1, <1>2, <1>5 DEF ScriptOK, Holds
  <2>2. ScriptOK(s)'
    BY <1>1, <1>2, <1>3, <2>1 DEF ScriptOK, Whole
  <2>3. FileOK(s)'
    BY <1>1, <1>2, <1>3, <1>4 DEF FileOK, Whole
  <2> QED
    BY <2>2, <2>3
<1> QED
  BY <1>2, <1>5, <1>6, OneScript

LEMMA ReadReceiptsInv ==
    ASSUME BackupInv, BackupTypeOK', NEW s \in Scripts, ReadReceipts(s)
    PROVE  BackupInv'
<1>1. ScriptOK(s) /\ FileOK(s) /\ BackupTypeOK /\ Whole(database) /\ scripts[s].at = "reading"
  BY DEF BackupInv, ReadReceipts
<1>2. /\ \A r \in Scripts \ {s} : scripts'[r] = scripts[r]
      /\ UNCHANGED <<database, disk, commands, signedIn, restores>>
  BY DEF ReadReceipts, BackupInv, BackupTypeOK
<1>3. /\ scripts'[s].mode = scripts[s].mode /\ scripts'[s].at = "captured"
      /\ scripts'[s].source = scripts[s].source
      /\ scripts'[s].copy = [scripts[s].copy EXCEPT !.receipts = ReceiptsRead(s)]
  BY <1>1 DEF ReadReceipts, BackupTypeOK, ScriptType
<1>4. /\ scripts'[s].copy.records = scripts[s].copy.records
      /\ scripts'[s].copy.receipts = ReceiptsRead(s)
  BY <1>1, <1>3 DEF BackupTypeOK, ScriptType, Snapshots
<1>5. Whole(scripts'[s].copy)
  <2>1. CASE scripts[s].mode = "backup"
    BY <1>1, <1>4, <2>1 DEF ReceiptsRead, ScriptOK, Whole
  <2>2. CASE scripts[s].mode = "restore"
    <3>1. scripts[s].copy.records = database.records
      BY <1>1, <2>2 DEF ScriptOK, Holds
    <3> QED
      BY <1>1, <1>4, <2>2, <3>1 DEF ReceiptsRead, Whole
  <2> QED
    BY <1>1, <2>1, <2>2 DEF BackupTypeOK, ScriptType
<1>6. Holds(s)' <=> Holds(s)
  BY <1>1, <1>3 DEF Holds
<1>7. ScriptOK(s)' /\ FileOK(s)'
  <2>1. Holds(s)' => \A other \in Scripts \ {s} : ~Holds(other)'
    BY <1>1, <1>2, <1>6 DEF ScriptOK, Holds
  <2>2. Holds(s)' => scripts'[s].copy.records = database'.records
    BY <1>1, <1>2, <1>4, <1>6 DEF ScriptOK
  <2>4. Whole(scripts[s].source)' /\ Whole(scripts[s].copy)'
    BY <1>1, <1>3, <1>5 DEF ScriptOK, Whole
  <2>5. ScriptOK(s)'
    BY <1>3, <2>1, <2>2, <2>4 DEF ScriptOK
  <2>3. FileOK(s)'
    BY <1>1, <1>2, <1>3 DEF FileOK, Whole
  <2> QED
    BY <2>3, <2>5
<1> QED
  BY <1>2, <1>6, <1>7, OneScript

\* A script that has read everything goes on to the next stage.
LEMMA NextStage ==
    ASSUME BackupInv, NEW s \in Scripts, NEW next \in {"staged", "linked", "saved"},
           scripts[s].at \in {"captured", "staged", "linked"},
           scripts' = [scripts EXCEPT ![s].at = next], UNCHANGED database
    PROVE  /\ ScriptOK(s)' /\ (Holds(s)' <=> Holds(s))
           /\ scripts'[s].at = next /\ scripts'[s].copy = scripts[s].copy
           /\ \A r \in Scripts \ {s} : scripts'[r] = scripts[r]
<1>1. ScriptOK(s) /\ BackupTypeOK
  BY DEF BackupInv
<1>2. /\ scripts'[s].at = next /\ scripts'[s].mode = scripts[s].mode
      /\ scripts'[s].copy = scripts[s].copy /\ scripts'[s].source = scripts[s].source
      /\ \A r \in Scripts \ {s} : scripts'[r] = scripts[r]
  BY <1>1 DEF BackupTypeOK, ScriptType
<1>3. Holds(s)' <=> Holds(s)
  BY <1>2 DEF Holds
<1>4. Holds(s) => \A other \in Scripts \ {s} : ~Holds(other)'
  BY <1>1, <1>2 DEF ScriptOK, Holds
<1>5. Whole(scripts[s].source)' /\ Whole(scripts[s].copy)'
  BY <1>1, <1>2 DEF ScriptOK, Whole
<1>6. Holds(s) => scripts'[s].copy.records = database'.records
  BY <1>1, <1>2 DEF ScriptOK
<1>7. ScriptOK(s)'
  BY <1>2, <1>3, <1>4, <1>5, <1>6 DEF ScriptOK
<1> QED
  BY <1>2, <1>3, <1>7

LEMMA StageInv ==
    ASSUME BackupInv, BackupTypeOK', NEW s \in Scripts, Stage(s)
    PROVE  BackupInv'
<1>1. FileOK(s) /\ scripts[s].at = "captured"
  BY DEF BackupInv, Stage
<1>2. /\ UNCHANGED <<database, disk, commands, signedIn, restores>>
      /\ scripts' = [scripts EXCEPT ![s].at = "staged"]
  BY DEF Stage
<1>3. /\ ScriptOK(s)' /\ (Holds(s)' <=> Holds(s)) /\ scripts'[s].at = "staged"
      /\ \A r \in Scripts \ {s} : scripts'[r] = scripts[r]
  BY <1>1, <1>2, NextStage
<1>4. FileOK(s)'
  BY <1>1, <1>2, <1>3 DEF FileOK, Whole
<1> QED
  BY <1>2, <1>3, <1>4, OneScript

LEMMA LinkInv ==
    ASSUME BackupInv, BackupTypeOK', NEW s \in Scripts, Link(s)
    PROVE  BackupInv'
<1>1. ScriptOK(s) /\ FileOK(s) /\ BackupTypeOK /\ scripts[s].at = "staged"
  BY DEF BackupInv, Link
<1>2. /\ UNCHANGED <<database, commands, signedIn, restores>>
      /\ scripts' = [scripts EXCEPT ![s].at = "linked"]
      /\ disk' = [disk EXCEPT ![s] = [content |-> scripts[s].copy, linked |-> TRUE,
                                      durable |-> FALSE]]
  BY DEF Link
<1>3. /\ ScriptOK(s)' /\ (Holds(s)' <=> Holds(s))
      /\ scripts'[s].at = "linked" /\ scripts'[s].copy = scripts[s].copy
      /\ \A r \in Scripts \ {s} : scripts'[r] = scripts[r]
  BY <1>1, <1>2, NextStage
<1>4. /\ disk'[s].content = scripts[s].copy /\ disk'[s].linked
      /\ \A r \in Scripts \ {s} : disk'[r] = disk[r]
  BY <1>1, <1>2 DEF BackupTypeOK
<1>5. Whole(scripts[s].copy) /\ ~disk[s].linked
  BY <1>1 DEF ScriptOK, FileOK
<1>6. FileOK(s)'
  BY <1>3, <1>4, <1>5 DEF FileOK, Whole
<1> QED
  BY <1>2, <1>3, <1>4, <1>5, <1>6, OneScript

LEMMA SyncDirectoryInv ==
    ASSUME BackupInv, BackupTypeOK', NEW s \in Scripts, SyncDirectory(s)
    PROVE  BackupInv'
<1>1. FileOK(s) /\ BackupTypeOK /\ scripts[s].at = "linked"
  BY DEF BackupInv, SyncDirectory
<1>2. /\ UNCHANGED <<database, commands, signedIn, restores>>
      /\ scripts' = [scripts EXCEPT ![s].at = "saved"]
      /\ disk' = [f \in Scripts |-> [disk[f] EXCEPT !.durable = @ \/ disk[f].linked]]
  BY DEF SyncDirectory
<1>3. /\ ScriptOK(s)' /\ (Holds(s)' <=> Holds(s))
      /\ scripts'[s].at = "saved" /\ scripts'[s].copy = scripts[s].copy
      /\ \A r \in Scripts \ {s} : scripts'[r] = scripts[r]
  BY <1>1, <1>2, NextStage
<1>4. \A r \in Scripts : /\ disk'[r].content = disk[r].content
                         /\ disk'[r].linked = disk[r].linked
                         /\ disk[r].durable \/ disk[r].linked => disk'[r].durable
  BY <1>1, <1>2 DEF BackupTypeOK, FileType
<1>5. FileOK(s)'
  BY <1>1, <1>3, <1>4 DEF FileOK, Whole
<1> QED
  BY <1>2, <1>3, <1>4, <1>5, OneScript

LEMMA EndInv ==
    ASSUME BackupInv, BackupTypeOK', NEW s \in Scripts, EndBackup(s) \/ ScriptFails(s)
    PROVE  BackupInv'
<1>1. FileOK(s) /\ BackupTypeOK /\ scripts[s].at # "idle"
  BY DEF BackupInv, EndBackup, ScriptFails
<1>2. /\ UNCHANGED <<database, disk, commands, signedIn, restores>>
      /\ scripts' = [scripts EXCEPT ![s] = EndedScript]
  BY DEF EndBackup, ScriptFails
<1>3. scripts'[s] = EndedScript /\ \A r \in Scripts \ {s} : scripts'[r] = scripts[r]
  BY <1>1, <1>2 DEF BackupTypeOK
<1>4. ~Holds(s)' /\ ScriptOK(s)'
  BY <1>3, RecordTypes DEF ScriptOK, Holds, Whole
<1>5. FileOK(s)'
  BY <1>1, <1>2, <1>3, RecordTypes DEF FileOK, Whole
<1> QED
  BY <1>2, <1>3, <1>4, <1>5, OneScript

\* What the database held is in the safety copy by then.
LEMMA CommitRestoreInv ==
    ASSUME BackupInv, BackupTypeOK', NEW s \in Scripts, CommitRestore(s)
    PROVE  BackupInv'
<1>1. /\ ScriptOK(s) /\ FileOK(s) /\ BackupTypeOK /\ Holds(s)
      /\ scripts[s].mode = "restore" /\ scripts[s].at = "saved"
  BY DEF BackupInv, CommitRestore, Holds
<1>2. /\ UNCHANGED <<disk, commands, signedIn>>
      /\ scripts' = [scripts EXCEPT ![s] = EndedScript]
      /\ database'.records = scripts[s].source.records
      /\ database'.receipts = scripts[s].source.receipts
      /\ database'.sessions = {}
  BY DEF CommitRestore, SessionsLeft
<1>3. scripts'[s] = EndedScript /\ \A r \in Scripts \ {s} : scripts'[r] = scripts[r]
  BY <1>1, <1>2 DEF BackupTypeOK
<1>4. Whole(database)'
  BY <1>1, <1>2 DEF ScriptOK, Whole
<1>5. ASSUME NEW r \in Scripts PROVE ScriptOK(r)' /\ FileOK(r)'
  <2>1. CASE r = s
    <3>1. ScriptOK(s)'
      BY <1>3, RecordTypes DEF ScriptOK, Holds, Whole
    <3>2. FileOK(s)'
      BY <1>1, <1>2, <1>3, RecordTypes DEF FileOK, Whole
    <3> QED
      BY <2>1, <3>1, <3>2
  <2>2. CASE r # s
    <3>1. ScriptOK(r) /\ FileOK(r) /\ scripts'[r] = scripts[r]
      BY <1>3, <2>2 DEF BackupInv
    <3>2. ~Holds(r) /\ ~Holds(r)'
      BY <1>1, <2>2, <3>1 DEF ScriptOK, Holds
    <3>3. ScriptOK(r)'
      BY <3>1, <3>2 DEF ScriptOK, Whole
    <3>4. FileOK(r)'
      BY <1>2, <3>1 DEF FileOK, Whole
    <3> QED
      BY <3>3, <3>4
  <2> QED
    BY <2>1, <2>2
<1>6. ASSUME NEW c \in Commands PROVE CommandOK(c)'
  <2>1. disk[s].linked /\ disk[s].durable /\ disk[s].content.records = database.records
    BY <1>1 DEF FileOK, ScriptOK
  <2>2. InSafety(c) => InSafety(c)'
    BY <1>2, <2>1 DEF InSafety
  <2> QED
    BY <1>2, <2>2 DEF BackupInv, CommandOK
<1> QED
  BY <1>2, <1>4, <1>5, <1>6 DEF BackupInv

LEMMA PowerFailsInv ==
    ASSUME BackupInv, BackupTypeOK', NEW gone \in SUBSET Scripts, PowerFails(gone)
    PROVE  BackupInv'
<1>1. BackupTypeOK /\ UNCHANGED <<database, signedIn, restores>>
  BY DEF BackupInv, PowerFails
<1>2. ASSUME NEW f \in Scripts
      PROVE  /\ disk'[f] \in {disk[f], NoFile}
             /\ disk[f].linked /\ disk[f].durable => disk'[f] = disk[f]
  BY DEF PowerFails
<1>3. \A s \in Scripts : \/ scripts[s].at = "idle" /\ scripts'[s] = scripts[s]
                         \/ scripts[s].at # "idle" /\ scripts'[s] = EndedScript
  BY DEF PowerFails
<1>4. \A s \in Scripts : ~Holds(s)'
  BY <1>3, RecordTypes DEF Holds
<1>5. ASSUME NEW s \in Scripts PROVE ScriptOK(s)' /\ FileOK(s)'
  <2>1. ScriptOK(s) /\ FileOK(s)
    BY DEF BackupInv
  <2>2. CASE scripts[s].at = "idle"
    <3>1. scripts'[s] = scripts[s] /\ ~disk'[s].linked /\ Whole(disk'[s].content)
      BY <1>2, <1>3, <2>1, <2>2, RecordTypes DEF FileOK
    <3>2. ScriptOK(s)'
      BY <1>4, <2>1, <2>2, <3>1 DEF ScriptOK, Whole
    <3>3. FileOK(s)'
      BY <2>2, <3>1 DEF FileOK, Whole
    <3> QED
      BY <3>2, <3>3
  <2>3. CASE scripts[s].at # "idle"
    <3>1. scripts'[s] = EndedScript
      BY <1>3, <2>3
    <3>2. ScriptOK(s)'
      BY <1>4, <3>1, RecordTypes DEF ScriptOK, Whole
    <3>3. FileOK(s)'
      BY <1>2, <2>1, <3>1, RecordTypes DEF FileOK, Whole
    <3> QED
      BY <3>2, <3>3
  <2> QED
    BY <2>2, <2>3
<1>6. ASSUME NEW c \in Commands PROVE CommandOK(c)'
  <2>1. commands'[c] \in {commands[c], Command("refused")}
    BY DEF PowerFails
  <2>2. InSafety(c) => InSafety(c)'
    <3>1. CASE c \in database.records
      BY <1>1, <3>1 DEF InSafety
    <3>2. ASSUME NEW f \in Scripts, disk[f].linked, disk[f].durable,
                 c \in disk[f].content.records
          PROVE  InSafety(c)'
      BY <1>2, <3>2 DEF InSafety
    <3> QED
      BY <3>1, <3>2 DEF InSafety
  <2>3. signedIn \in Nat
    BY <1>1 DEF BackupTypeOK
  <2> QED
    BY <1>1, <2>1, <2>2, <2>3, CommandTypes DEF BackupInv, CommandOK
<1>7. Whole(database)' /\ \A t \in database'.sessions : t <= signedIn'
  BY <1>1 DEF BackupInv, Whole
<1> QED
  BY <1>5, <1>6, <1>7 DEF BackupInv

----------------------------------------------------------------------------

LEMMA StepInv == BackupInv /\ [BackupNext]_backupVars => BackupInv'
<1> SUFFICES ASSUME BackupInv, [BackupNext]_backupVars PROVE BackupInv'
  OBVIOUS
<1>1. BackupTypeOK
  BY DEF BackupInv
<1>2. CASE SignIn
  BY <1>1, <1>2, StaffType, SignInInv
<1>3. ASSUME NEW c \in Commands,
             (\E t \in database.sessions : Review(c, t)) \/ BeginCommand(c) \/ RefuseCommand(c)
      PROVE  BackupInv'
  <2>1. BackupTypeOK'
    BY <1>1, <1>3, StaffType
  <2> QED
    BY <1>3, <2>1, StaffInv
<1>4. ASSUME NEW c \in Commands, CommitCommand(c) PROVE BackupInv'
  <2>1. BackupTypeOK'
    BY <1>1, <1>4, StaffType
  <2> QED
    BY <1>4, <2>1, CommitCommandInv
<1>5. ASSUME NEW s \in Scripts,
             \/ \E f \in Scripts : AskRestore(s, f)
             \/ LockTables(s) \/ ReadRecords(s) \/ ReadReceipts(s)
             \/ Stage(s) \/ Link(s) \/ SyncDirectory(s) \/ EndBackup(s)
             \/ CommitRestore(s) \/ ScriptFails(s)
      PROVE  BackupInv'
  <2>1. BackupTypeOK'
    BY <1>1, <1>5, ScriptStepType
  <2> QED
    BY <1>5, <2>1, AskRestoreInv, LockTablesInv, ReadRecordsInv, ReadReceiptsInv, StageInv,
       LinkInv, SyncDirectoryInv, EndInv, CommitRestoreInv
<1>6. ASSUME NEW gone \in SUBSET Scripts, PowerFails(gone) PROVE BackupInv'
  BY <1>1, <1>6, PowerType, PowerFailsInv
<1>7. CASE UNCHANGED backupVars
  <2>1. UNCHANGED <<database, disk, scripts, commands, signedIn, restores>>
    BY <1>7 DEF backupVars
  <2>2. BackupTypeOK'
    BY <1>1, <2>1 DEF BackupTypeOK
  <2>3. \A c \in Commands : CommandOK(c)'
    BY <2>1 DEF BackupInv, CommandOK, InSafety
  <2> QED
    BY <2>1, <2>2, <2>3, CommandStepInv
<1> QED
  BY <1>2, <1>3, <1>4, <1>5, <1>6, <1>7 DEF BackupNext

THEOREM BackupInvAlways == BackupSpec => []BackupInv
<1> QED
  BY InitInv, StepInv, PTL DEF BackupSpec

\* Whatever fails and when, restores and backups lose no change that was saved, and records and
\* receipts agree wherever they are kept (createBackup, restoreBackup, writeRecoverySnapshot).
THEOREM SavedChangesAreKept == BackupSpec => []SavedIsKept
<1>1. BackupInv => SavedIsKept
  BY DEF BackupInv, FileOK, CommandOK, SavedIsKept
<1> QED
  BY <1>1, BackupInvAlways, PTL

\* A restore closes every session, so nothing reviewed before it is saved after it
\* (restoreBackup, requireUser).
THEOREM ReviewsEndWithRestore == BackupSpec => RestoreReviewed
<1> DEFINE Reviewed == \A c \in Commands :
               commands'[c].at = "saved" /\ commands[c].at # "saved" => commands[c].since = restores
<1>1. BackupInv /\ [BackupNext]_backupVars => [Reviewed]_backupVars
  <2> SUFFICES ASSUME BackupInv, BackupNext, NEW c \in Commands,
                      commands'[c].at = "saved", commands[c].at # "saved"
               PROVE  commands[c].since = restores
    BY DEF Reviewed
  <2>1. commands \in [Commands -> CommandType]
    BY DEF BackupInv, BackupTypeOK
  <2>2. CASE SignIn \/ \E s \in Scripts :
                 \/ \E f \in Scripts : AskRestore(s, f)
                 \/ LockTables(s) \/ ReadRecords(s) \/ ReadReceipts(s)
                 \/ Stage(s) \/ Link(s) \/ SyncDirectory(s) \/ EndBackup(s)
                 \/ CommitRestore(s) \/ ScriptFails(s)
    BY <2>2 DEF SignIn, AskRestore, LockTables, ReadRecords, ReadReceipts, Stage, Link,
                SyncDirectory, EndBackup, CommitRestore, ScriptFails
  <2>3. CASE \E k \in Commands : \/ \E t \in database.sessions : Review(k, t)
                                 \/ BeginCommand(k) \/ RefuseCommand(k)
    BY <2>1, <2>3, CommandTypes DEF Review, BeginCommand, RefuseCommand, CommandType
  <2>4. ASSUME NEW k \in Commands, CommitCommand(k) PROVE commands[c].since = restores
    <3>1. c = k
      BY <2>1, <2>4 DEF CommitCommand
    <3> QED
      BY <2>4, <3>1 DEF CommitCommand, BackupInv, CommandOK
  <2>5. ASSUME NEW gone \in SUBSET Scripts, PowerFails(gone) PROVE FALSE
    BY <2>5, CommandTypes DEF PowerFails
  <2> QED
    BY <2>2, <2>3, <2>4, <2>5 DEF BackupNext
<1> QED
  BY <1>1, BackupInvAlways, PTL DEF BackupSpec, RestoreReviewed
=============================================================================
