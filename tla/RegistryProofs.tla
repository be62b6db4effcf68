--------------------------- MODULE RegistryProofs ---------------------------
(***************************************************************************)
(* Proofs about Registry, for any instances and any times, also with calls *)
(* that outlast the interval of the ticker.                                *)
(***************************************************************************)
EXTENDS Registry, TLAPS

\* How long ago the SET of the last success of a running instance can have
\* been carried out, going by its failures, its ticker and its call.
Silence(i) ==
  MaxCall + missed[i] * Period
    + IF call[i] = Idle /\ ~due[i] THEN Interval - nextTick[i]
      ELSE Interval + Greater(0, call[i])

\* The first call comes before the ticker; a later one without a tick behind
\* it is no older than the last tick; an answer follows its SET.
InStep(i) ==
  /\ nextTick[i] = NoTicker =>
       call[i] # Idle /\ ~due[i] /\ missed[i] = MaxMissed
  /\ call[i] # Idle /\ ~due[i] /\ nextTick[i] # NoTicker =>
       call[i] <= Interval - nextTick[i]
  /\ i \in stored => call[i] # Idle /\ entry[i] >= TTL - call[i]

\* The entry of a running instance is no older than its silence.
Lasting == \A i \in up :
  /\ InStep(i)
  /\ missed[i] < MaxMissed => entry[i] >= TTL - Silence(i)

\* The entry of a stopped instance runs out while it is down, and a SET still
\* on its way is older than that.
RunsOut == \A i \in Instances \ up :
  /\ nextTick[i] = NoTicker /\ ~due[i] /\ call[i] = Idle
  /\ missed[i] = MaxMissed
  /\ entry[i] + downFor[i] <= LongGone
  /\ \A age \in late[i] : downFor[i] <= age

IInv == TypeOK /\ Lasting /\ RunsOut

\* No failed heartbeat costs less than an interval or than its call.
LEMMA PeriodIsLong ==
  /\ Period \in Nat /\ Interval <= Period /\ MaxCall <= Period
  /\ LongGone \in Nat /\ TTL <= LongGone /\ LongGone = TTL + MaxLate
  BY TimesAssumption DEF Period, Greater, LongGone

\* The values of one instance have their types, and silence is a number.
LEMMA Values ==
  ASSUME TypeOK, NEW i \in Instances
  PROVE  /\ entry[i] \in 0..TTL
         /\ nextTick[i] \in {NoTicker} \cup 1..Interval
         /\ due[i] \in BOOLEAN
         /\ call[i] \in {Idle} \cup 0..MaxCall
         /\ late[i] \subseteq 0..MaxLate
         /\ missed[i] \in 0..MaxMissed
         /\ downFor[i] \in 0..LongGone
         /\ missed[i] * Period \in Nat
         /\ (missed[i] + 1) * Period = missed[i] * Period + Period
         /\ Silence(i) \in Int
  <1>1. /\ entry[i] \in 0..TTL
        /\ nextTick[i] \in {NoTicker} \cup 1..Interval
        /\ due[i] \in BOOLEAN
        /\ call[i] \in {Idle} \cup 0..MaxCall
        /\ late[i] \subseteq 0..MaxLate
        /\ missed[i] \in 0..MaxMissed
        /\ downFor[i] \in 0..LongGone
    BY DEF TypeOK
  <1>2. missed[i] \in Nat /\ Period \in Nat
    BY <1>1, PeriodIsLong, TimesAssumption
  <1>3. /\ missed[i] * Period \in Nat
        /\ (missed[i] + 1) * Period = missed[i] * Period + Period
    BY <1>2
  <1>4. Silence(i) \in Int
    BY <1>1, <1>3, TimesAssumption DEF Silence, Idle, NoTicker, Greater
  <1> QED
    BY <1>1, <1>3, <1>4

\* Nothing runs, nothing is registered.
LEMMA InitIInv == Init => IInv
  <1> SUFFICES ASSUME Init PROVE IInv
    OBVIOUS
  <1>1. TypeOK
    <2>1. /\ 0 \in 0..TTL /\ LongGone \in 0..LongGone
          /\ MaxMissed \in 0..MaxMissed
      BY TimesAssumption, PeriodIsLong
    <2> QED
      BY <2>1 DEF Init, TypeOK
  <1>2. Lasting
    BY DEF Init, Lasting
  <1>3. RunsOut
    <2> SUFFICES ASSUME NEW i \in Instances
                 PROVE  /\ nextTick[i] = NoTicker /\ ~due[i] /\ call[i] = Idle
                        /\ missed[i] = MaxMissed
                        /\ entry[i] + downFor[i] <= LongGone
                        /\ \A age \in late[i] : downFor[i] <= age
      BY DEF RunsOut
    <2>1. /\ call[i] = Idle /\ entry[i] = 0 /\ downFor[i] = LongGone
          /\ nextTick[i] = NoTicker /\ ~due[i] /\ missed[i] = MaxMissed
          /\ late[i] = {}
      BY DEF Init
    <2>2. 0 + LongGone <= LongGone
      BY PeriodIsLong
    <2> QED
      BY <2>1, <2>2
  <1> QED
    BY <1>1, <1>2, <1>3 DEF IInv

-----------------------------------------------------------------------------
(* Every step keeps the invariant. *)

\* What is said of one instance holds of all if a step leaves the others as
\* they are.
LEMMA OnlyOne ==
  ASSUME IInv, TypeOK', NEW i \in Instances,
         i \in up' => InStep(i)' /\ (missed'[i] < MaxMissed
                                       => entry'[i] >= TTL - Silence(i)'),
         i \notin up' => /\ nextTick'[i] = NoTicker /\ ~due'[i]
                         /\ call'[i] = Idle /\ missed'[i] = MaxMissed
                         /\ entry'[i] + downFor'[i] <= LongGone
                         /\ \A age \in late'[i] : downFor'[i] <= age,
         \A j \in Instances \ {i} :
           /\ j \in up' <=> j \in up
           /\ j \in stored' <=> j \in stored
           /\ UNCHANGED <<entry[j], nextTick[j], due[j], call[j], late[j],
                          missed[j], downFor[j]>>
  PROVE  IInv'
  <1>1. Lasting'
    <2> SUFFICES ASSUME NEW j \in up', j # i
                 PROVE  InStep(j)' /\ (missed'[j] < MaxMissed
                                         => entry'[j] >= TTL - Silence(j)')
      BY DEF Lasting
    <2>1. j \in Instances \ {i} /\ j \in up
      BY DEF TypeOK
    <2>2. InStep(j)' = InStep(j) /\ Silence(j)' = Silence(j)
      BY <2>1 DEF InStep, Silence
    <2> QED
      BY <2>1, <2>2 DEF IInv, Lasting
  <1>2. RunsOut'
    BY DEF IInv, RunsOut
  <1> QED
    BY <1>1, <1>2 DEF IInv

\* A process that starts has no success of its own to speak of.
LEMMA StartIInv == ASSUME IInv, NEW i \in Instances, Start(i) PROVE IInv'
  <1> USE DEF Start, redis, listing
  <1>1. TypeOK'
    BY TimesAssumption DEF IInv, TypeOK, Idle
  <1>2. i \in up' /\ call'[i] = 0 /\ i \notin stored'
    BY DEF IInv, TypeOK
  <1>3. /\ nextTick'[i] = NoTicker /\ ~due'[i] /\ missed'[i] = MaxMissed
    BY DEF IInv, RunsOut
  <1>4. InStep(i)' /\ ~(missed'[i] < MaxMissed)
    BY <1>2, <1>3, TimesAssumption DEF InStep, Idle
  <1> QED
    BY <1>1, <1>2, <1>4, OnlyOne DEF IInv, TypeOK

\* A tick becomes a call.
LEMMA HeartbeatIInv ==
  ASSUME IInv, NEW i \in Instances, Heartbeat(i) PROVE IInv'
  <1> USE DEF Heartbeat, redis, listing
  <1>1. TypeOK'
    BY TimesAssumption DEF IInv, TypeOK, Idle
  <1>2. /\ i \in up /\ i \in up' /\ InStep(i)
        /\ missed[i] < MaxMissed => entry[i] >= TTL - Silence(i)
    BY DEF IInv, Lasting
  <1>3. /\ call[i] = Idle /\ due[i] /\ call'[i] = 0 /\ due'[i] = FALSE
        /\ UNCHANGED <<entry[i], nextTick[i], missed[i], stored>>
    BY DEF IInv, TypeOK
  <1>4. InStep(i)'
    BY <1>2, <1>3, Values, TimesAssumption
    DEF IInv, InStep, Idle, NoTicker
  <1>5. Silence(i)' = Silence(i)
    BY <1>3 DEF Silence, Greater, Idle
  <1> QED
    BY <1>1, <1>2, <1>3, <1>4, <1>5, OnlyOne DEF IInv, TypeOK

\* A SET makes the entry last.
LEMMA SetIInv == ASSUME IInv, NEW i \in Instances, Set(i) PROVE IInv'
  <1> USE DEF Set, SetEntry, listing
  <1>1. TypeOK'
    BY TimesAssumption DEF IInv, TypeOK
  <1>2. /\ i \in up /\ i \in up' /\ InStep(i)
        /\ missed[i] < MaxMissed => entry[i] >= TTL - Silence(i)
    BY DEF IInv, Lasting
  <1>3. /\ entry'[i] = TTL /\ call[i] # Idle
        /\ UNCHANGED <<call[i], due[i], nextTick[i], missed[i]>>
    BY DEF IInv, TypeOK
  <1>4. Silence(i)' = Silence(i)
    BY <1>3 DEF Silence
  <1>5. InStep(i)' /\ entry'[i] >= entry[i]
    BY <1>2, <1>3, Values, TimesAssumption DEF IInv, InStep, Idle
  <1>6. missed'[i] < MaxMissed => entry'[i] >= TTL - Silence(i)'
    BY <1>2, <1>3, <1>4, <1>5, Values, TimesAssumption DEF IInv
  <1> QED
    BY <1>1, <1>2, <1>5, <1>6, OnlyOne DEF IInv, TypeOK

\* What a call leaves on its way is as late as its end.
LEMMA OverLate ==
  ASSUME TypeOK, NEW i \in Instances, Over(i)
  PROVE  /\ late' \in [Instances -> SUBSET (0..MaxLate)]
         /\ late'[i] \subseteq late[i] \cup {0}
         /\ \A j \in Instances \ {i} : late'[j] = late[j]
  <1>1. late \in [Instances -> SUBSET (0..MaxLate)] /\ 0 \in 0..MaxLate
    BY TimesAssumption DEF TypeOK
  <1>2. CASE late' = late
    BY <1>1, <1>2
  <1>3. CASE late' = [late EXCEPT ![i] = @ \cup {0}]
    BY <1>1, <1>3
  <1> QED
    BY <1>2, <1>3 DEF Over

\* A call that is over, whatever it has been good for, leaves its instance in
\* step with its ticker.
LEMMA ReturnInStep ==
  ASSUME IInv, NEW i \in up, Return(i),
         missed' \in [Instances -> 0..MaxMissed],
         \A j \in Instances \ {i} : missed'[j] = missed[j]
  PROVE  /\ TypeOK'
         /\ i \in Instances /\ i \in up' /\ InStep(i) /\ InStep(i)'
         /\ call[i] # Idle /\ call'[i] = Idle
         /\ nextTick'[i] =
              IF nextTick[i] = NoTicker THEN Interval ELSE nextTick[i]
         /\ UNCHANGED <<due[i], entry[i]>>
         /\ \A j \in Instances \ {i} :
              /\ j \in up' <=> j \in up
              /\ j \in stored' <=> j \in stored
              /\ UNCHANGED <<entry[j], nextTick[j], due[j], call[j], late[j],
                             missed[j], downFor[j]>>
  <1> USE DEF Return, Over, listing
  <1>1. i \in Instances /\ InStep(i)
    BY DEF IInv, TypeOK, Lasting
  <1>2. /\ call[i] # Idle /\ call'[i] = Idle /\ i \notin stored'
        /\ nextTick'[i] =
             IF nextTick[i] = NoTicker THEN Interval ELSE nextTick[i]
        /\ UNCHANGED <<due[i], entry[i]>>
    BY <1>1 DEF IInv, TypeOK
  <1>3. TypeOK'
    <2>1. nextTick' \in [Instances -> {NoTicker} \cup 1..Interval]
      BY TimesAssumption DEF IInv, TypeOK
    <2>2. call' \in [Instances -> {Idle} \cup 0..MaxCall]
      BY DEF IInv, TypeOK
    <2> QED
      BY <1>1, <2>1, <2>2, OverLate DEF IInv, TypeOK
  <1>4. InStep(i)'
    BY <1>2, TimesAssumption DEF InStep, NoTicker
  <1>5. \A j \in Instances \ {i} :
          /\ j \in up' <=> j \in up
          /\ j \in stored' <=> j \in stored
          /\ UNCHANGED <<entry[j], nextTick[j], due[j], call[j], late[j],
                         missed[j], downFor[j]>>
    BY <1>1, OverLate DEF IInv, TypeOK
  <1> QED
    BY <1>1, <1>2, <1>3, <1>4, <1>5

\* A success: the SET it answers is as old as the call at most.
LEMMA RegisterIInv ==
  ASSUME IInv, NEW i \in Instances, Register(i) PROVE IInv'
  <1> USE DEF Register
  <1>1. /\ i \in up /\ i \in stored /\ missed'[i] = 0
        /\ missed' \in [Instances -> 0..MaxMissed]
        /\ \A j \in Instances \ {i} : missed'[j] = missed[j]
    BY TimesAssumption DEF IInv, TypeOK
  <1>2. /\ InStep(i) /\ call'[i] = Idle /\ UNCHANGED <<due[i], entry[i]>>
        /\ nextTick'[i] =
             IF nextTick[i] = NoTicker THEN Interval ELSE nextTick[i]
        /\ TypeOK' /\ InStep(i)' /\ i \in up'
    BY <1>1, ReturnInStep
  <1>3. entry[i] >= TTL - MaxCall
    BY <1>1, <1>2, Values, TimesAssumption DEF InStep, IInv, Idle
  <1>4. Silence(i)' \in Int /\ Silence(i)' >= MaxCall
    <2>1. Silence(i)' = MaxCall + missed'[i] * Period
            + IF ~due[i] THEN Interval - nextTick'[i] ELSE Interval + 0
      BY <1>2 DEF Silence, Idle, Greater, Period
    <2>2. missed'[i] * Period = 0
      BY <1>1, PeriodIsLong
    <2>3. nextTick'[i] \in 1..Interval
      BY <1>2, Values, TimesAssumption DEF IInv, NoTicker
    <2> QED
      BY <2>1, <2>2, <2>3, TimesAssumption
  <1>5. missed'[i] < MaxMissed => entry'[i] >= TTL - Silence(i)'
    BY <1>2, <1>3, <1>4, Values, TimesAssumption DEF IInv
  <1> QED
    BY <1>1, <1>2, <1>5, ReturnInStep, OnlyOne

\* A failure counts for one period.
LEMMA RegisterFailsIInv ==
  ASSUME IInv, NEW i \in Instances, RegisterFails(i) PROVE IInv'
  <1> USE DEF RegisterFails
  <1>1. /\ i \in up
        /\ missed'[i] = Lesser(missed[i] + 1, MaxMissed)
        /\ missed' \in [Instances -> 0..MaxMissed]
        /\ \A j \in Instances \ {i} : missed'[j] = missed[j]
    BY TimesAssumption DEF IInv, TypeOK, Lesser
  <1>2. /\ InStep(i) /\ call[i] # Idle /\ call'[i] = Idle
        /\ UNCHANGED <<due[i], entry[i]>>
        /\ nextTick'[i] =
             IF nextTick[i] = NoTicker THEN Interval ELSE nextTick[i]
        /\ TypeOK' /\ InStep(i)' /\ i \in up'
    BY <1>1, ReturnInStep
  <1>3. missed[i] < MaxMissed => entry[i] >= TTL - Silence(i)
    BY <1>1 DEF IInv, Lasting
  <1>4. ASSUME missed'[i] < MaxMissed
        PROVE  Silence(i)' \in Int /\ Silence(i)' >= Silence(i)
               /\ missed[i] < MaxMissed
    <2>1. missed[i] < MaxMissed /\ missed'[i] = missed[i] + 1
      BY <1>1, <1>4, Values, TimesAssumption DEF IInv, Lesser
    <2>2. nextTick[i] # NoTicker /\ nextTick'[i] = nextTick[i]
      BY <1>2, <2>1, Values DEF IInv, InStep
    <2>3. Silence(i)' = MaxCall + (missed[i] * Period + Period)
            + IF ~due[i] THEN Interval - nextTick[i] ELSE Interval + 0
      BY <1>2, <2>1, <2>2, Values
      DEF IInv, Silence, Idle, Greater, Period
    <2>4. Silence(i) = MaxCall + missed[i] * Period + (Interval + call[i])
      BY <1>2, Values DEF IInv, Silence, Idle, Greater
    <2>5. ~due[i] => call[i] <= Interval - nextTick[i]
      BY <1>2, <2>2 DEF InStep
    <2> QED
      BY <1>2, <2>1, <2>2, <2>3, <2>4, <2>5, Values, PeriodIsLong,
         TimesAssumption DEF IInv, Idle, NoTicker
  <1>5. missed'[i] < MaxMissed => entry'[i] >= TTL - Silence(i)'
    BY <1>2, <1>3, <1>4, Values, TimesAssumption DEF IInv
  <1> QED
    BY <1>1, <1>2, <1>5, ReturnInStep, OnlyOne

\* Whoever stops leaves an entry of the TTL at most.
LEMMA StopIInv == ASSUME IInv, NEW i \in Instances, Stop(i) PROVE IInv'
  <1> USE DEF Stop, listing
  <1>1. late' \in [Instances -> SUBSET (0..MaxLate)]
        /\ \A j \in Instances \ {i} : late'[j] = late[j]
    BY OverLate DEF IInv, TypeOK
  <1>2. call' \in [Instances -> {Idle} \cup 0..MaxCall] /\ call'[i] = Idle
        /\ \A j \in Instances \ {i} : call'[j] = call[j]
    BY DEF IInv, TypeOK, Over
  <1>3. stored' = stored \ {i}
    <2>1. CASE call[i] = Idle
      <3>1. i \notin stored
        BY <2>1 DEF IInv, Lasting, InStep
      <3> QED
        BY <2>1, <3>1
    <2>2. CASE call[i] # Idle
      BY <2>2 DEF Over
    <2> QED
      BY <2>1, <2>2
  <1>4. TypeOK'
    <2>1. /\ nextTick' \in [Instances -> {NoTicker} \cup 1..Interval]
          /\ due' \in [Instances -> BOOLEAN]
          /\ missed' \in [Instances -> 0..MaxMissed]
          /\ downFor' \in [Instances -> 0..LongGone]
      BY PeriodIsLong, TimesAssumption DEF IInv, TypeOK
    <2>2. up' \subseteq Instances /\ stored' \subseteq up'
      BY <1>3 DEF IInv, TypeOK
    <2> QED
      BY <1>1, <1>2, <2>1, <2>2 DEF IInv, TypeOK
  <1>5. /\ i \notin up' /\ nextTick'[i] = NoTicker /\ ~due'[i]
        /\ missed'[i] = MaxMissed /\ downFor'[i] = 0 /\ entry'[i] = entry[i]
    BY DEF IInv, TypeOK
  <1>6. /\ entry'[i] + downFor'[i] <= LongGone
        /\ \A age \in late'[i] : downFor'[i] <= age
    <2>1. late'[i] \subseteq 0..MaxLate
      BY <1>1
    <2> QED
      BY <1>5, <2>1, Values, PeriodIsLong, TimesAssumption DEF IInv
  <1>7. \A j \in Instances \ {i} :
          UNCHANGED <<entry[j], nextTick[j], due[j], missed[j], downFor[j]>>
    BY DEF IInv, TypeOK
  <1> QED
    BY <1>1, <1>2, <1>3, <1>4, <1>5, <1>6, <1>7, OnlyOne

\* A SET that is late makes the entry last, but not longer than it is late.
LEMMA SetLateIInv == ASSUME IInv, NEW i \in Instances, SetLate(i) PROVE IInv'
  <1> USE DEF heartbeat, listing
  <1>1. PICK age \in late[i] :
          /\ late' = [late EXCEPT ![i] = @ \ {age}]
          /\ entry' = [entry EXCEPT ![i] = TTL]
          /\ UNCHANGED <<up, downFor, heartbeat, reachable, listing>>
    BY DEF SetLate
  <1>2. TypeOK'
    BY <1>1, TimesAssumption DEF IInv, TypeOK
  <1>3. /\ entry'[i] = TTL /\ entry'[i] >= entry[i]
        /\ late'[i] \subseteq late[i] /\ age \in 0..MaxLate
    BY <1>1, Values, TimesAssumption DEF IInv, TypeOK
  <1>4. ASSUME i \in up
        PROVE  InStep(i)' /\ (missed'[i] < MaxMissed
                                => entry'[i] >= TTL - Silence(i)')
    <2>1. InStep(i) /\ (missed[i] < MaxMissed => entry[i] >= TTL - Silence(i))
      BY <1>4 DEF IInv, Lasting
    <2>2. Silence(i)' = Silence(i)
      BY <1>1 DEF Silence
    <2>3. InStep(i)'
      BY <1>1, <1>3, <2>1, Values, TimesAssumption DEF IInv, InStep, Idle
    <2> QED
      BY <1>1, <1>3, <2>1, <2>2, <2>3, Values, TimesAssumption DEF IInv
  <1>5. ASSUME i \notin up
        PROVE  /\ nextTick[i] = NoTicker /\ ~due[i] /\ call[i] = Idle
               /\ missed[i] = MaxMissed
               /\ entry'[i] + downFor[i] <= LongGone
               /\ \A a \in late'[i] : downFor[i] <= a
    <2>1. downFor[i] <= age
      BY <1>1, <1>5 DEF IInv, RunsOut
    <2> QED
      BY <1>3, <1>5, <2>1, Values, PeriodIsLong, TimesAssumption
      DEF IInv, RunsOut
  <1> QED
    BY <1>1, <1>2, <1>4, <1>5, OnlyOne DEF IInv, TypeOK

\* Time takes from every entry what it adds to silence and to downtime.
LEMMA AdvanceTimeIInv == ASSUME IInv, AdvanceTime PROVE IInv'
  <1> USE TimesAssumption DEF AdvanceTime, Pass, listing
  <1>1. ASSUME NEW i \in Instances
        PROVE  /\ entry'[i] = Greater(0, entry[i] - 1)
               /\ late'[i] = {age \in 1..MaxLate : (age - 1) \in late[i]}
               /\ nextTick'[i] =
                    CASE nextTick[i] = NoTicker -> NoTicker
                      [] nextTick[i] = 1 -> Interval
                      [] OTHER -> nextTick[i] - 1
               /\ due'[i] <=> (due[i] \/ nextTick[i] = 1)
               /\ call'[i] = IF call[i] = Idle THEN Idle ELSE call[i] + 1
               /\ downFor'[i] = IF i \in up THEN downFor[i]
                                ELSE Lesser(downFor[i] + 1, LongGone)
    BY DEF IInv, TypeOK
  <1>2. UNCHANGED <<up, stored, missed, reachable, unvisited, found, scanning>>
    OBVIOUS
  <1>3. TypeOK'
    <2>1. entry' \in [Instances -> 0..TTL]
      BY DEF IInv, TypeOK, Greater
    <2>2. nextTick' \in [Instances -> {NoTicker} \cup 1..Interval]
      <3>1. ASSUME NEW i \in Instances
            PROVE  nextTick'[i] \in {NoTicker} \cup 1..Interval
        BY <1>1, Values DEF IInv, NoTicker
      <3> QED
        BY <3>1
    <2>3. due' \in [Instances -> BOOLEAN]
      BY DEF IInv, TypeOK
    <2>4. call' \in [Instances -> {Idle} \cup 0..MaxCall]
      <3>1. ASSUME NEW i \in Instances
            PROVE  call'[i] \in {Idle} \cup 0..MaxCall
        BY <1>1, Values DEF IInv, RunsOut, Timely, Idle
      <3> QED
        BY <3>1
    <2>5. downFor' \in [Instances -> 0..LongGone]
      <3>1. ASSUME NEW i \in Instances PROVE downFor'[i] \in 0..LongGone
        BY <1>1, Values, PeriodIsLong DEF IInv, Lesser
      <3> QED
        BY <3>1
    <2>6. late' \in [Instances -> SUBSET (0..MaxLate)]
      BY DEF IInv, TypeOK
    <2> QED
      BY <1>2, <2>1, <2>2, <2>3, <2>4, <2>5, <2>6 DEF IInv, TypeOK
  <1>4. ASSUME NEW i \in up'
        PROVE  InStep(i)' /\ (missed'[i] < MaxMissed
                                => entry'[i] >= TTL - Silence(i)')
    <2>1. /\ i \in Instances /\ i \in up
          /\ ~(due[i] /\ call[i] = Idle) /\ call[i] < MaxCall
          /\ InStep(i)
          /\ missed[i] < MaxMissed => entry[i] >= TTL - Silence(i)
      BY <1>2, <1>4 DEF IInv, TypeOK, Lasting, Timely
    <2>2. /\ entry'[i] >= entry[i] - 1 /\ entry[i] \in Int /\ entry'[i] \in Int
      BY <1>1, <2>1, Values DEF IInv, Greater
    <2> DEFINE n == nextTick[i]
               c == call[i]
               M == missed[i] * Period
    <2>3. /\ n \in 0..Interval /\ due[i] \in BOOLEAN
          /\ c = Idle \/ c \in 0..MaxCall
          /\ M \in Int
      BY <2>1, Values DEF IInv, NoTicker
    <2>4. /\ n = NoTicker => c # Idle /\ ~due[i] /\ missed[i] = MaxMissed
          /\ c # Idle /\ ~due[i] /\ n # NoTicker => c <= Interval - n
          /\ i \in stored => c # Idle /\ entry[i] >= TTL - c
      BY <2>1 DEF InStep
    <2>5. /\ call'[i] # Idle <=> c # Idle
          /\ c # Idle => call'[i] = c + 1
      BY <1>1, <2>1, <2>3 DEF Idle
    <2>6. /\ n = NoTicker => nextTick'[i] = NoTicker /\ (due'[i] <=> due[i])
          /\ n = 1 => nextTick'[i] = Interval /\ due'[i]
          /\ n > 1 => nextTick'[i] = n - 1 /\ (due'[i] <=> due[i])
      <3>1. due'[i] <=> (due[i] \/ n = 1)
        BY <1>1, <2>1
      <3>2. /\ n = NoTicker => nextTick'[i] = NoTicker
            /\ n = 1 => nextTick'[i] = Interval
            /\ n > 1 => nextTick'[i] = n - 1
        BY <1>1, <2>1, <2>3 DEF NoTicker
      <3> QED
        BY <2>3, <3>1, <3>2 DEF NoTicker
    <2>7. InStep(i)'
      <3>1. nextTick'[i] = NoTicker => n = NoTicker
        BY <2>3, <2>6 DEF NoTicker
      <3>2. nextTick'[i] = NoTicker =>
              call'[i] # Idle /\ ~due'[i] /\ missed'[i] = MaxMissed
        BY <1>2, <2>4, <2>5, <2>6, <3>1
      <3>3. call'[i] # Idle /\ ~due'[i] /\ nextTick'[i] # NoTicker =>
              call'[i] <= Interval - nextTick'[i]
        BY <2>3, <2>4, <2>5, <2>6 DEF NoTicker, Idle
      <3>4. i \in stored' => call'[i] # Idle /\ entry'[i] >= TTL - call'[i]
        BY <1>2, <2>2, <2>3, <2>4, <2>5 DEF Idle
      <3> QED
        BY <3>2, <3>3, <3>4 DEF InStep
    <2>8. ASSUME missed[i] < MaxMissed PROVE Silence(i)' >= Silence(i) + 1
      <3>1. n # NoTicker /\ n >= 1
        BY <2>3, <2>4, <2>8, Values, <2>1 DEF IInv, NoTicker
      <3>2. Silence(i)' = MaxCall + M
              + IF call'[i] = Idle /\ ~due'[i] THEN Interval - nextTick'[i]
                ELSE Interval + Greater(0, call'[i])
        BY <1>2 DEF Silence, Period, Greater
      <3>3. Silence(i) = MaxCall + M
              + IF c = Idle /\ ~due[i] THEN Interval - n
                ELSE Interval + Greater(0, c)
        BY DEF Silence
      <3>4. CASE c # Idle
        <4>1. Silence(i)' = MaxCall + M + (Interval + (c + 1))
          BY <2>3, <2>5, <3>2, <3>4 DEF Greater, Idle
        <4>2. Silence(i) = MaxCall + M + (Interval + c)
          BY <2>3, <3>3, <3>4 DEF Greater, Idle
        <4> QED
          BY <2>3, <3>4, <4>1, <4>2 DEF Idle
      <3>5. CASE c = Idle
        <4>1. ~due[i] /\ call'[i] = Idle
          BY <2>1, <2>5, <3>5
        <4>2. CASE n = 1
          BY <2>3, <2>6, <3>2, <3>3, <3>5, <4>1, <4>2 DEF Greater, Idle
        <4>3. CASE n > 1
          BY <2>3, <2>6, <3>2, <3>3, <3>5, <4>1, <4>3 DEF Greater, Idle
        <4> QED
          BY <2>3, <3>1, <4>2, <4>3
      <3> QED
        BY <3>4, <3>5
    <2>9. Silence(i) \in Int /\ Silence(i)' \in Int
      <3>1. Silence(i) \in Int
        BY <2>1, Values DEF IInv
      <3>2. nextTick'[i] \in Int /\ (call'[i] = Idle \/ call'[i] \in Int)
        BY <1>3, <2>1 DEF TypeOK, NoTicker
      <3>3. Silence(i)' \in Int
        BY <1>2, <2>3, <3>2 DEF Silence, Greater, Period, Idle
      <3> QED
        BY <3>1, <3>3
    <2> QED
      BY <1>2, <2>1, <2>2, <2>7, <2>8, <2>9
  <1>5. Lasting'
    BY <1>4 DEF Lasting
  <1>6. RunsOut'
    <2> SUFFICES ASSUME NEW i \in Instances, i \notin up
                 PROVE  /\ nextTick'[i] = NoTicker /\ ~due'[i]
                        /\ call'[i] = Idle /\ missed'[i] = MaxMissed
                        /\ entry'[i] + downFor'[i] <= LongGone
                        /\ \A age \in late'[i] : downFor'[i] <= age
      BY <1>2 DEF RunsOut
    <2>1. /\ nextTick[i] = NoTicker /\ ~due[i] /\ call[i] = Idle
          /\ missed[i] = MaxMissed
          /\ entry[i] + downFor[i] <= LongGone
          /\ \A age \in late[i] : downFor[i] <= age
      BY DEF IInv, RunsOut
    <2>2. nextTick'[i] = NoTicker /\ ~due'[i] /\ call'[i] = Idle
      <3>1. due'[i] <=> (due[i] \/ nextTick[i] = 1)
        BY <1>1
      <3>2. nextTick'[i] = NoTicker
        BY <1>1, <2>1 DEF NoTicker
      <3>3. call'[i] = Idle
        BY <1>1, <2>1
      <3>4. ~(nextTick[i] = 1)
        BY <2>1 DEF NoTicker
      <3> QED
        BY <2>1, <3>1, <3>2, <3>3, <3>4
    <2>3. entry'[i] + downFor'[i] <= LongGone
      BY <1>1, <2>1, Values, PeriodIsLong DEF IInv, Greater, Lesser
    <2>4. \A age \in late'[i] : downFor'[i] <= age
      BY <1>1, <2>1, Values, PeriodIsLong DEF IInv, Lesser
    <2> QED
      BY <1>2, <2>1, <2>2, <2>3, <2>4
  <1> QED
    BY <1>3, <1>5, <1>6 DEF IInv

\* Looking at the entries, and losing sight of Redis, changes no entry.
LEMMA LookingIInv ==
  ASSUME IInv, UNCHANGED <<up, downFor, heartbeat, entry, late>>,
         reachable' \subseteq Instances, unvisited' \subseteq Instances,
         found' \subseteq Instances, scanning' \in BOOLEAN
  PROVE  IInv'
  BY DEF IInv, TypeOK, Lasting, RunsOut, InStep, Silence, heartbeat

\* Every step keeps the invariant.
LEMMA NextIInv == IInv /\ [Next]_vars => IInv'
  <1> SUFFICES ASSUME IInv, [Next]_vars PROVE IInv'
    OBVIOUS
  <1>1. ASSUME NEW i \in Instances,
               Start(i) \/ Stop(i) \/ GoesOn(i) \/ Set(i) \/ SetLate(i)
        PROVE  IInv'
    BY <1>1, StartIInv, StopIInv, HeartbeatIInv, RegisterIInv,
       RegisterFailsIInv, SetIInv, SetLateIInv
    DEF GoesOn
  <1>2. ASSUME NEW i \in Instances, Reach(i) PROVE IInv'
    BY <1>2, LookingIInv DEF Reach, listing, IInv, TypeOK
  <1>3. CASE ListLive
    BY <1>3, LookingIInv DEF ListLive, redis, IInv, TypeOK
  <1>4. ASSUME NEW i \in Instances, Visit(i) \/ GetFails(i) PROVE IInv'
    BY <1>4, LookingIInv
    DEF Visit, GetFails, redis, Registered, IInv, TypeOK
  <1>5. CASE EndOfScan
    BY <1>5, LookingIInv DEF EndOfScan, redis, IInv, TypeOK
  <1>6. CASE AdvanceTime
    BY <1>6, AdvanceTimeIInv
  <1>7. CASE UNCHANGED vars
    BY <1>7, LookingIInv DEF vars, redis, listing, IInv, TypeOK
  <1> QED
    BY <1>1, <1>2, <1>3, <1>4, <1>5, <1>6, <1>7 DEF Next

\* The invariant holds throughout every behaviour of the registry.
LEMMA Invariance == Spec => []IInv
  BY InitIInv, NextIInv, PTL DEF Spec

-----------------------------------------------------------------------------
(* The theorems. *)

\* Every variable has its type, in any registry.
THEOREM Types == Spec => []TypeOK
  BY Invariance, PTL DEF IInv

\* A running instance stays registered through as many failed heartbeats as
\* its TTL leaves room for: its silence is no longer than the first answer,
\* a period for every failure, the interval and the call under way.
THEOREM RunningIsListed == Spec => []RunningStaysListed
  <1>1. IInv => RunningStaysListed
    <2> SUFFICES ASSUME IInv, NEW i \in up, missed[i] < MaxMissed,
                        MaxCall + Interval + missed[i] * Period + MaxCall < TTL
                 PROVE  i \in Registered
      BY DEF RunningStaysListed
    <2>1. i \in Instances /\ InStep(i) /\ entry[i] >= TTL - Silence(i)
      BY DEF IInv, TypeOK, Lasting
    <2>2. nextTick[i] # NoTicker
      BY <2>1, Values, TimesAssumption DEF IInv, InStep
    <2> DEFINE M == missed[i] * Period
    <2>3. M \in Nat
      BY <2>1, Values DEF IInv
    <2>4. Silence(i) = MaxCall + M
            + IF call[i] = Idle /\ ~due[i] THEN Interval - nextTick[i]
              ELSE Interval + Greater(0, call[i])
      BY DEF Silence
    <2>5. Silence(i) \in Int /\ Silence(i) <= MaxCall + Interval + M + MaxCall
      <3>1. /\ nextTick[i] \in 1..Interval
            /\ call[i] = Idle \/ call[i] \in 0..MaxCall
        BY <2>1, <2>2, Values DEF IInv
      <3> HIDE DEF M
      <3> QED
        BY <2>3, <2>4, <3>1, TimesAssumption DEF Greater, Idle
    <2>6. MaxCall + Interval + M + MaxCall < TTL
      OBVIOUS
    <2>7. entry[i] \in Int /\ entry[i] > 0
      <3>1. entry[i] \in Int
        BY <2>1, Values DEF IInv
      <3> HIDE DEF M
      <3> QED
        BY <2>1, <2>3, <2>5, <2>6, <3>1, TimesAssumption
    <2> QED
      BY <2>1, <2>7 DEF Registered
  <1> QED
    BY <1>1, Invariance, PTL

\* ListLive finds nobody who has been down for the TTL and for as long as a
\* SET can be late: what it finds has an entry, and RunsOut.
THEOREM CrashedAreGone == Spec => CrashedAreNotListed
  <1>1. ASSUME IInv, [Next]_vars, NEW i \in found' \ found
        PROVE  i \in up \/ downFor[i] < LongGone
    <2>1. PICK j \in Instances : Visit(j)
      <3>1. CASE UNCHANGED vars
        BY <1>1, <3>1 DEF vars, listing
      <3>2. CASE Next
        BY <1>1, <3>2
        DEF Next, Start, Stop, GoesOn, Heartbeat, Register, RegisterFails,
            Return, Set, SetEntry, SetLate, Reach, ListLive, GetFails,
            EndOfScan, AdvanceTime, Pass, listing
      <3> QED
        BY <1>1, <3>1, <3>2
    <2>2. i \in Registered
      BY <1>1, <2>1 DEF Visit
    <2>3. i \in Instances /\ entry[i] > 0
      BY <2>2 DEF Registered
    <2>4. CASE i \notin up
      BY <1>1, <2>3, <2>4, Values, PeriodIsLong DEF IInv, RunsOut
    <2> QED
      BY <2>4
  <1> DEFINE P == \A i \in found' \ found : i \in up \/ downFor[i] < LongGone
  <1>2. IInv /\ [Next]_vars => [P]_vars
    BY <1>1
  <1> HIDE DEF P
  <1>3. Spec => [][P]_vars
    BY <1>2, Invariance, PTL DEF Spec
  <1> QED
    BY <1>3 DEF CrashedAreNotListed, P

\* How long until the Heartbeat of a running instance has its next answer.
ToAnswer(i) ==
  IF call[i] # Idle THEN MaxCall - call[i]
  ELSE IF due[i] THEN MaxCall + 1
  ELSE MaxCall + 1 + nextTick[i]

\* The next answer of whoever reaches Redis comes closer with time, and
\* nothing but the answer itself puts it off.
AnswersComeCloser ==
  [][\A i \in (up \cap up') \cap reachable :
       ~Register(i) =>
         /\ ToAnswer(i)' <= ToAnswer(i)
         /\ AdvanceTime => ToAnswer(i)' < ToAnswer(i)]_vars

THEOREM HeartbeatGoesOn == Spec => AnswersComeCloser
  <1>1. ASSUME IInv, [Next]_vars, NEW i \in (up \cap up') \cap reachable,
               ~Register(i)
        PROVE  /\ ToAnswer(i)' <= ToAnswer(i)
               /\ AdvanceTime => ToAnswer(i)' < ToAnswer(i)
    <2>1. i \in Instances /\ InStep(i)
      BY <1>1 DEF IInv, TypeOK, Lasting
    <2>2. /\ nextTick[i] \in 0..Interval /\ due[i] \in BOOLEAN
          /\ call[i] = Idle \/ call[i] \in 0..MaxCall
      BY <1>1, <2>1, Values, TimesAssumption DEF IInv, NoTicker
    <2>3. ToAnswer(i) \in Int
      BY <2>2, TimesAssumption DEF ToAnswer, Idle
    <2>4. CASE AdvanceTime
      <3>1. ~(due[i] /\ call[i] = Idle) /\ call[i] < MaxCall
        BY <1>1, <2>4 DEF AdvanceTime, Pass, Timely
      <3>2. /\ due'[i] <=> (due[i] \/ nextTick[i] = 1)
            /\ nextTick'[i] =
                 CASE nextTick[i] = NoTicker -> NoTicker
                   [] nextTick[i] = 1 -> Interval
                   [] OTHER -> nextTick[i] - 1
            /\ call'[i] = IF call[i] = Idle THEN Idle ELSE call[i] + 1
        BY <1>1, <2>1, <2>4 DEF AdvanceTime, Pass
      <3>3. CASE call[i] # Idle
        BY <2>2, <3>2, <3>3, TimesAssumption DEF ToAnswer, Idle
      <3>4. CASE call[i] = Idle
        <4>1. ~due[i] /\ nextTick[i] # NoTicker /\ call'[i] = Idle
          BY <2>1, <3>1, <3>2, <3>4 DEF InStep
        <4>2. CASE nextTick[i] = 1
          BY <3>2, <3>4, <4>1, <4>2, TimesAssumption DEF ToAnswer
        <4>3. CASE nextTick[i] > 1
          <5>1. nextTick'[i] = nextTick[i] - 1
            BY <2>2, <3>2, <4>3 DEF NoTicker
          <5>2. ~due'[i]
            BY <3>2, <4>1, <4>3, <2>2
          <5> QED
            BY <2>2, <3>4, <4>1, <5>1, <5>2, TimesAssumption DEF ToAnswer
        <4> QED
          BY <2>2, <4>1, <4>2, <4>3 DEF NoTicker
      <3> QED
        BY <3>3, <3>4
    <2>5. ASSUME UNCHANGED <<nextTick[i], due[i], call[i]>>
          PROVE  ToAnswer(i)' = ToAnswer(i)
      BY <2>5 DEF ToAnswer
    <2>6. CASE Heartbeat(i)
      <3>1. call[i] = Idle /\ due[i] /\ call'[i] = 0
        BY <1>1, <2>1, <2>6 DEF Heartbeat, IInv, TypeOK
      <3> QED
        BY <2>6, <3>1, TimesAssumption
        DEF ToAnswer, Idle, Heartbeat, AdvanceTime, Pass
    <2>7. ~RegisterFails(i) /\ ~Start(i) /\ ~Stop(i)
      BY <1>1 DEF RegisterFails, Start, Stop
    <2>8. ASSUME NEW j \in Instances \ {i},
                 Start(j) \/ Stop(j) \/ GoesOn(j)
          PROVE  UNCHANGED <<nextTick[i], due[i], call[i]>>
      BY <1>1, <2>1, <2>8
      DEF Start, Stop, GoesOn, Heartbeat, Register, RegisterFails, Return,
          Over, IInv, TypeOK
    <2>9. CASE UNCHANGED <<nextTick, due, call>>
      <3>1. UNCHANGED <<nextTick[i], due[i], call[i]>>
        BY <2>9
      <3> QED
        BY <2>3, <2>4, <2>5, <3>1
    <2>10. CASE \E j \in Instances : Start(j) \/ Stop(j) \/ GoesOn(j)
      <3>1. PICK j \in Instances : Start(j) \/ Stop(j) \/ GoesOn(j)
        BY <2>10
      <3>2. CASE j = i
        BY <1>1, <2>3, <2>4, <2>6, <2>7, <3>1, <3>2 DEF GoesOn
      <3>3. CASE j # i
        BY <2>3, <2>4, <2>5, <2>8, <3>1, <3>3
      <3> QED
        BY <3>2, <3>3
    <2>11. CASE UNCHANGED vars
      BY <2>9, <2>11 DEF vars, heartbeat
    <2>12. ASSUME NEW j \in Instances,
                  Set(j) \/ SetLate(j) \/ Reach(j) \/ Visit(j) \/ GetFails(j)
           PROVE  UNCHANGED <<nextTick, due, call>>
      BY <2>12
      DEF Set, SetEntry, SetLate, Reach, Visit, GetFails, heartbeat
    <2>13. CASE ListLive \/ EndOfScan
      BY <2>9, <2>13 DEF ListLive, EndOfScan, heartbeat
    <2> QED
      BY <1>1, <2>4, <2>9, <2>10, <2>11, <2>12, <2>13 DEF Next
  <1> DEFINE P == \A i \in (up \cap up') \cap reachable :
                    ~Register(i) =>
                      /\ ToAnswer(i)' <= ToAnswer(i)
                      /\ AdvanceTime => ToAnswer(i)' < ToAnswer(i)
  <1>2. IInv /\ [Next]_vars => [P]_vars
    BY <1>1
  <1> HIDE DEF P
  <1>3. Spec => [][P]_vars
    BY <1>2, Invariance, PTL DEF Spec
  <1> QED
    BY <1>3 DEF AnswersComeCloser, P

=============================================================================
