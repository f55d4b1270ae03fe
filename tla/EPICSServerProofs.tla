--------------------------- MODULE EPICSServerProofs ---------------------------
(***************************************************************************)
(* Proofs about EPICSServer, for any names, values, producers and number   *)
(* of updates. What the queue, the batch and the exit command do to the    *)
(* updates that wait is stated first; the rest follows from it.            *)
(***************************************************************************)
EXTENDS EPICSServer, SequenceTheorems, TLAPS

\* An exit command is not an update.
LEMMA ExitIsNoUpdate ==
    /\ Exit \notin Updates
    /\ Updates \subseteq Commands
    /\ \A c \in Commands : c /= Exit => c \in Updates
    /\ Exit \in Commands
  BY ExitAssumption DEF Updates, Commands

\* What waits is a sequence of commands.
LEMMA PendingType ==
    ASSUME TypeOK
    PROVE  /\ Pending \in Seq(Commands)
           /\ Len(Pending) = Len(batch) + Len(m_value_updates)
           /\ Len(Pending) \in Nat
           /\ \A i \in 1..Len(Pending) : Pending[i] \in Commands
           /\ \A i \in 1..Len(Pending) :
                 Pending[i] = IF i <= Len(batch) THEN batch[i]
                              ELSE m_value_updates[i - Len(batch)]
  <1>1. batch \in Seq(Commands) /\ m_value_updates \in Seq(Commands)
    BY DEF TypeOK
  <1>2. /\ Pending \in Seq(Commands)
        /\ Len(Pending) = Len(batch) + Len(m_value_updates)
        /\ \A i \in 1..(Len(batch) + Len(m_value_updates)) :
              Pending[i] = IF i <= Len(batch) THEN batch[i]
                           ELSE m_value_updates[i - Len(batch)]
    BY <1>1, ConcatProperties DEF Pending
  <1>3. \A i \in 1..Len(Pending) : Pending[i] \in Commands
    BY <1>2, ElementOfSeq
  <1>4. Len(Pending) \in Nat
    BY <1>2, LenProperties
  <1> QED BY <1>2, <1>3, <1>4

\* The updates that wait are those before the exit command.
LEMMA PendingUpdatesType ==
    ASSUME TypeOK, ExitIsLast
    PROVE  /\ PendingUpdates \in Seq(Updates)
           /\ Len(PendingUpdates) \in Nat
           /\ Len(PendingUpdates) =
                 IF ExitAwaited THEN Len(Pending) - 1 ELSE Len(Pending)
           /\ \A i \in 1..Len(PendingUpdates) :
                 /\ PendingUpdates[i] = Pending[i]
                 /\ PendingUpdates[i] \in Updates
  <1>1. /\ Pending \in Seq(Commands)
        /\ Len(Pending) \in Nat
        /\ \A i \in 1..Len(Pending) : Pending[i] \in Commands
    BY PendingType
  <1>2. CASE ExitAwaited
    <2>1. Pending /= <<>> /\ Len(Pending) \in Nat \ {0}
      BY <1>1, <1>2, EmptySeq DEF ExitIsLast
    <2>2. \A i \in 1..(Len(Pending) - 1) : Pending[i] \in Updates
      BY <1>1, <2>1, ExitIsNoUpdate DEF ExitIsLast
    <2>3. PendingUpdates = SubSeq(Pending, 1, Len(Pending) - 1)
      BY <1>2 DEF PendingUpdates
    <2>4. /\ PendingUpdates \in Seq(Updates)
          /\ Len(PendingUpdates) =
                IF 1 <= Len(Pending) - 1 THEN Len(Pending) - 1 - 1 + 1 ELSE 0
          /\ \A i \in 1..(Len(Pending) - 1 - 1 + 1) :
                PendingUpdates[i] = Pending[1 + i - 1]
      BY <2>1, <2>2, <2>3, SubSeqProperties
    <2>5. Len(PendingUpdates) = Len(Pending) - 1
      <3> DEFINE l == Len(Pending)
                 k == Len(PendingUpdates)
      <3>1. l \in Nat \ {0}
        BY <2>1
      <3>2. k = IF 1 <= l - 1 THEN l - 1 - 1 + 1 ELSE 0
        BY <2>4
      <3> HIDE DEF l, k
      <3>3. k = l - 1
        BY <3>1, <3>2
      <3> QED BY <3>3 DEF l, k
    <2>6. \A i \in 1..Len(PendingUpdates) : PendingUpdates[i] = Pending[i]
      BY <2>1, <2>4, <2>5
    <2> QED BY <1>2, <2>1, <2>2, <2>4, <2>5, <2>6
  <1>3. CASE ~ ExitAwaited
    <2>1. \A i \in 1..Len(Pending) : Pending[i] \in Updates
      BY <1>1, <1>3, ExitIsNoUpdate DEF ExitIsLast
    <2>2. PendingUpdates = Pending
      BY <1>3 DEF PendingUpdates
    <2>3. SubSeq(Pending, 1, Len(Pending)) = Pending
      BY <1>1, SubSeqFull
    <2>4. Pending \in Seq(Updates)
      BY <1>1, <2>1, <2>3, SubSeqProperties
    <2> QED BY <1>1, <1>3, <2>1, <2>2, <2>4
  <1> QED BY <1>2, <1>3

-----------------------------------------------------------------------------
(* What the steps do to the updates that wait.                             *)

\* Pushing a command appends it to what waits.
LEMMA PushAppends ==
    ASSUME TypeOK, NEW t \in Threads, NEW c \in Commands, Push(t, c)
    PROVE  /\ m_value_updates' \in Seq(Commands)
           /\ Pending' = Append(Pending, c)
  <1>1. batch \in Seq(Commands) /\ m_value_updates \in Seq(Commands)
    BY DEF TypeOK
  <1>2. batch' = batch /\ m_value_updates' = Append(m_value_updates, c)
    BY DEF Push, taskVars
  <1>3. <<c>> \in Seq(Commands)
    OBVIOUS
  <1>4. m_value_updates' = m_value_updates \o <<c>>
    BY <1>1, <1>2, AppendIsConcat
  <1>5. Pending' = (batch \o m_value_updates) \o <<c>>
    BY <1>1, <1>2, <1>3, <1>4, ConcatAssociative DEF Pending
  <1>6. Append(Pending, c) = Pending \o <<c>>
    BY PendingType, AppendIsConcat
  <1> QED BY <1>1, <1>2, <1>5, <1>6, AppendProperties DEF Pending

\* Swapping the queue out loses no command: the batch before it was empty.
LEMMA PopKeepsPending ==
    ASSUME IndInv, PopCommands
    PROVE  Pending' = Pending
  <1>1. m_value_updates \in Seq(Commands) /\ batch = <<>>
    BY DEF IndInv, TypeOK, TaskInv, PopCommands
  <1>2. batch' = m_value_updates /\ m_value_updates' = <<>>
    BY DEF PopCommands
  <1> QED BY <1>1, <1>2, ConcatEmptySeq DEF Pending

\* Processing a command takes the first of what waits.
LEMMA ProcessTakesFirst ==
    ASSUME TypeOK, batch /= <<>>, batch' = Tail(batch),
           m_value_updates' = m_value_updates
    PROVE  /\ Pending /= <<>>
           /\ Head(batch) = Pending[1]
           /\ Head(batch) \in Commands
           /\ batch' \in Seq(Commands)
           /\ Pending' \in Seq(Commands)
           /\ Len(Pending') = Len(Pending) - 1
           /\ \A i \in 1..Len(Pending') : Pending'[i] = Pending[i + 1]
  <1>1. batch \in Seq(Commands) /\ m_value_updates \in Seq(Commands)
    BY DEF TypeOK
  <1>2. /\ Head(batch) \in Commands /\ Head(batch) = batch[1]
        /\ batch' \in Seq(Commands)
        /\ Len(batch') = Len(batch) - 1
        /\ \A i \in 1..Len(batch') : batch'[i] = batch[i + 1]
    BY <1>1, HeadTailProperties
  <1>3. Len(batch) \in Nat \ {0} /\ Len(m_value_updates) \in Nat
    BY <1>1, EmptySeq, LenProperties
  <1>4. /\ Pending' \in Seq(Commands)
        /\ Len(Pending') = Len(batch') + Len(m_value_updates)
        /\ \A i \in 1..(Len(batch') + Len(m_value_updates)) :
              Pending'[i] = IF i <= Len(batch') THEN batch'[i]
                            ELSE m_value_updates[i - Len(batch')]
    BY <1>1, <1>2, ConcatProperties DEF Pending
  <1>5. /\ Len(Pending) = Len(batch) + Len(m_value_updates)
        /\ \A i \in 1..Len(Pending) :
              Pending[i] = IF i <= Len(batch) THEN batch[i]
                           ELSE m_value_updates[i - Len(batch)]
    BY PendingType
  <1>6. \A i \in 1..Len(Pending') : Pending'[i] = Pending[i + 1]
    <2> TAKE i \in 1..Len(Pending')
    <2>1. CASE i <= Len(batch')
      BY <1>2, <1>3, <1>4, <1>5, <2>1
    <2>2. CASE ~ (i <= Len(batch'))
      <3>1. i - Len(batch') = (i + 1) - Len(batch)
        BY <1>2, <1>3
      <3> QED BY <1>2, <1>3, <1>4, <1>5, <2>2, <3>1
    <2> QED BY <2>1, <2>2
  <1>7. Pending /= <<>>
    BY <1>3, <1>5
  <1>8. Head(batch) = Pending[1]
    BY <1>2, <1>3, <1>5
  <1> QED BY <1>2, <1>3, <1>4, <1>5, <1>6, <1>7, <1>8


\* An update is put behind the updates that wait.
LEMMA UpdateIsQueued ==
    ASSUME IndInv, NEW t \in Producers, NEW n \in Names, NEW v \in Values,
           UpdateAnyValue(t, n, v)
    PROVE  /\ Pending' = Append(Pending, <<n, v>>)
           /\ PendingUpdates = Pending
           /\ PendingUpdates' = Append(PendingUpdates, <<n, v>>)
           /\ m_value_updates' \in Seq(Commands)
  <1>1. <<n, v>> \in Commands /\ t \in Threads
    BY DEF Commands, Updates, Threads
  <1>2. Push(t, <<n, v>>)
    BY DEF UpdateAnyValue, CreateValueUpdate
  <1>3. ~ ExitAwaited /\ ~ ExitAwaited'
    BY DEF UpdateAnyValue, ExitAwaited
  <1>4. TypeOK
    BY DEF IndInv
  <1>5. Pending' = Append(Pending, <<n, v>>) /\ m_value_updates' \in Seq(Commands)
    BY <1>1, <1>2, <1>4, PushAppends
  <1> QED BY <1>3, <1>5 DEF PendingUpdates

\* The exit command is put behind the updates that wait and is none of them.
LEMMA ExitIsQueued ==
    ASSUME IndInv, PushExit
    PROVE  /\ Pending' = Append(Pending, Exit)
           /\ ~ ExitAwaited /\ ExitAwaited'
           /\ PendingUpdates' = PendingUpdates
           /\ m_value_updates' \in Seq(Commands)
  <1>1. Exit \in Commands /\ Owner \in Threads
    BY DEF Commands, Threads
  <1>2. TypeOK /\ Push(Owner, Exit)
    BY DEF IndInv, PushExit, CreateExitCommand
  <1>3. Pending' = Append(Pending, Exit) /\ m_value_updates' \in Seq(Commands)
    BY <1>1, <1>2, PushAppends
  <1>4. loop /= "exited"
    BY DEF IndInv, TaskInv, PushExit
  <1>5. ~ ExitAwaited /\ ExitAwaited'
    BY <1>4 DEF PushExit, Push, taskVars, ExitAwaited
  <1>6. Pending \in Seq(Commands) /\ Len(Pending) \in Nat
    BY <1>2, PendingType
  <1>7. /\ Pending' \in Seq(Commands)
        /\ Len(Pending') = Len(Pending) + 1
        /\ \A i \in 1..Len(Pending) : Pending'[i] = Pending[i]
    BY <1>1, <1>3, <1>6, AppendProperties
  <1>8. PendingUpdates' = SubSeq(Pending', 1, Len(Pending))
    BY <1>5, <1>6, <1>7 DEF PendingUpdates
  <1>9. PendingUpdates = Pending
    BY <1>5 DEF PendingUpdates
  <1>10. \A i \in 1..Len(Pending) : Pending'[i] \in Commands
    BY <1>6, <1>7, ElementOfSeq
  <1>11. /\ PendingUpdates' \in Seq(Commands)
         /\ Len(PendingUpdates') = IF 1 <= Len(Pending) THEN Len(Pending) - 1 + 1 ELSE 0
         /\ \A i \in 1..(Len(Pending) - 1 + 1) :
               PendingUpdates'[i] = Pending'[1 + i - 1]
    BY <1>6, <1>8, <1>10, SubSeqProperties
  <1>12. Len(PendingUpdates') = Len(Pending)
    <2> DEFINE l == Len(Pending)  k == Len(PendingUpdates')
    <2>1. l \in Nat /\ k = IF 1 <= l THEN l - 1 + 1 ELSE 0
      BY <1>6, <1>11
    <2> HIDE DEF l, k
    <2>2. k = l
      BY <2>1
    <2> QED BY <2>2 DEF l, k
  <1>13. \A i \in 1..Len(Pending) : PendingUpdates'[i] = Pending[i]
    BY <1>6, <1>7, <1>11
  <1>14. PendingUpdates' = Pending
    BY <1>6, <1>11, <1>12, <1>13, SeqEqual
  <1> QED BY <1>3, <1>5, <1>9, <1>14

\* The update that is shown is the first of those that wait, and is then no
\* longer one of them.
ShowsFirst ==
    /\ PendingUpdates /= <<>>
    /\ shown' = [shown EXCEPT ![Name(Head(PendingUpdates))] =
                     Value(Head(PendingUpdates))]
    /\ processed' = processed + 1
    /\ PendingUpdates' = Tail(PendingUpdates)
    /\ UNCHANGED <<loop, destruction, made, latest>>

\* Processing an update shows the first of those that wait.
LEMMA ProcessedUpdateIsFirst ==
    ASSUME IndInv, ProcessCommand, ~ ExitReached, batch /= <<>>,
           UNCHANGED <<destruction, made, latest>>
    PROVE  /\ ShowsFirst
           /\ Head(PendingUpdates) \in Updates
           /\ batch' \in Seq(Commands)
           /\ Len(Pending) \in Nat
           /\ Len(Pending') = Len(Pending) - 1
           /\ \A i \in 1..Len(Pending') : Pending'[i] = Pending[i + 1]
           /\ ExitAwaited' = ExitAwaited
           /\ Pending' = <<>> => ~ ExitAwaited
  <1>1. /\ batch' = Tail(batch) /\ m_value_updates' = m_value_updates
        /\ shown' = [shown EXCEPT ![Name(Head(batch))] = Value(Head(batch))]
        /\ processed' = processed + 1
        /\ UNCHANGED loop
    BY DEF ProcessCommand, ExitReached, queueVars
  <1>2. TypeOK /\ ExitIsLast
    BY DEF IndInv
  <1>3. /\ Pending /= <<>>
        /\ Head(batch) = Pending[1]
        /\ Head(batch) \in Commands
        /\ batch' \in Seq(Commands)
        /\ Pending' \in Seq(Commands)
        /\ Len(Pending') = Len(Pending) - 1
        /\ \A i \in 1..Len(Pending') : Pending'[i] = Pending[i + 1]
    BY <1>1, <1>2, ProcessTakesFirst
  <1>4. Len(Pending) \in Nat \ {0} /\ Pending \in Seq(Commands)
    BY <1>2, <1>3, PendingType, EmptySeq
  <1>5. Head(batch) /= Exit
    BY DEF ExitReached, GetCommandType
  <1>6. ExitAwaited' = ExitAwaited
    BY <1>1 DEF ExitAwaited
  <1>7. ExitAwaited => Len(Pending) > 1
    BY <1>2, <1>3, <1>4, <1>5 DEF ExitIsLast
  <1>8. /\ PendingUpdates \in Seq(Updates)
        /\ Len(PendingUpdates) \in Nat
        /\ Len(PendingUpdates) = IF ExitAwaited THEN Len(Pending) - 1 ELSE Len(Pending)
        /\ \A i \in 1..Len(PendingUpdates) :
              /\ PendingUpdates[i] = Pending[i]
              /\ PendingUpdates[i] \in Updates
    BY <1>2, PendingUpdatesType
  <1>9. Len(PendingUpdates) > 0
    BY <1>4, <1>7, <1>8
  <1>10. /\ PendingUpdates /= <<>>
         /\ Head(PendingUpdates) = Head(batch)
         /\ Head(PendingUpdates) \in Updates
    BY <1>3, <1>8, <1>9, HeadTailProperties
  <1>11. /\ Tail(PendingUpdates) \in Seq(Updates)
         /\ Len(Tail(PendingUpdates)) = Len(PendingUpdates) - 1
         /\ \A i \in 1..Len(Tail(PendingUpdates)) :
               Tail(PendingUpdates)[i] = PendingUpdates[i + 1]
    BY <1>8, <1>10, HeadTailProperties
  <1>12. PendingUpdates' = Tail(PendingUpdates)
    <2>1. CASE ExitAwaited
      <3> DEFINE k == Len(Pending) - 2
      <3>1. k \in Nat /\ Len(Pending') - 1 = k
        BY <1>3, <1>4, <1>7, <2>1
      <3>2. PendingUpdates' = SubSeq(Pending', 1, k)
        BY <1>6, <2>1, <3>1 DEF PendingUpdates
      <3>3. Len(Tail(PendingUpdates)) = k
        BY <1>4, <1>8, <1>11, <2>1
      <3>4. \A i \in 1..k : Pending'[i] \in Commands
        BY <1>3, <3>1, ElementOfSeq
      <3>5. /\ SubSeq(Pending', 1, k) \in Seq(Commands)
            /\ Len(SubSeq(Pending', 1, k)) = IF 1 <= k THEN k - 1 + 1 ELSE 0
            /\ \A i \in 1..(k - 1 + 1) :
                  SubSeq(Pending', 1, k)[i] = Pending'[1 + i - 1]
        BY <3>1, <3>4, SubSeqProperties
      <3>6. \A i \in 1..k : Pending'[i] = Tail(PendingUpdates)[i]
        BY <1>3, <1>4, <1>8, <1>11, <2>1, <3>1, <3>3
      <3> HIDE DEF k
      <3>7. Len(SubSeq(Pending', 1, k)) = k
        BY <3>1, <3>5
      <3>8. \A i \in 1..k : SubSeq(Pending', 1, k)[i] = Tail(PendingUpdates)[i]
        <4>1. k - 1 + 1 = k /\ \A i \in 1..k : 1 + i - 1 = i
          BY <3>1
        <4> QED BY <3>5, <3>6, <4>1
      <3>9. Tail(PendingUpdates) \in Seq(Commands)
        BY <1>11, ExitIsNoUpdate, SeqMonotonic
      <3> QED BY <3>2, <3>3, <3>5, <3>7, <3>8, <3>9, SeqEqual
    <2>2. CASE ~ ExitAwaited
      <3>1. PendingUpdates' = Pending' /\ PendingUpdates = Pending
        BY <1>6, <2>2 DEF PendingUpdates
      <3>2. Tail(PendingUpdates) \in Seq(Commands)
        BY <1>11, ExitIsNoUpdate, SeqMonotonic
      <3>3. \A i \in 1..Len(Pending') : Pending'[i] = Tail(PendingUpdates)[i]
        BY <1>3, <1>11, <3>1
      <3> QED BY <1>3, <1>11, <3>1, <3>2, <3>3, SeqEqual
    <2> QED BY <2>1, <2>2
  <1>13. Pending' = <<>> => ~ ExitAwaited
    <2>1. Pending' = <<>> => Len(Pending') = 0
      BY EmptySeq
    <2> DEFINE l == Len(Pending)
               k == Len(Pending')
    <2>2. l \in Nat /\ k = l - 1 /\ (ExitAwaited => l > 1)
      BY <1>3, <1>4, <1>7
    <2> HIDE DEF l, k
    <2>3. ExitAwaited => k /= 0
      BY <2>2
    <2> QED BY <2>1, <2>3 DEF k
  <1>14. ShowsFirst
    BY <1>1, <1>10, <1>12 DEF ShowsFirst
  <1> QED BY <1>3, <1>4, <1>6, <1>10, <1>13, <1>14

\* When the exit command is reached nothing waits.
LEMMA NothingWaitsAtExit ==
    ASSUME IndInv, ProcessCommand, ExitReached
    PROVE  /\ Pending' = <<>>
           /\ destruction /= "alive"
           /\ PendingUpdates = <<>> /\ PendingUpdates' = <<>>
           /\ loop' = "exited" /\ batch' = <<>>
           /\ UNCHANGED <<shown, processed, m_value_updates>>
  <1>1. /\ batch /= <<>> /\ Head(batch) = Exit
        /\ loop = "process" /\ loop' = "exited"
        /\ batch' = <<>> /\ m_value_updates' = m_value_updates
        /\ UNCHANGED <<shown, processed>>
    BY DEF ProcessCommand, ExitReached, GetCommandType, queueVars
  <1>2. TypeOK /\ ExitIsLast
    BY DEF IndInv
  <1>3. batch \in Seq(Commands) /\ m_value_updates \in Seq(Commands)
    BY <1>2 DEF TypeOK
  <1>4. /\ Len(batch) \in Nat \ {0} /\ Len(m_value_updates) \in Nat
        /\ Head(batch) = batch[1]
    BY <1>1, <1>3, EmptySeq, LenProperties, HeadTailProperties
  <1>5. /\ Len(Pending) = Len(batch) + Len(m_value_updates)
        /\ \A i \in 1..Len(Pending) :
              Pending[i] = IF i <= Len(batch) THEN batch[i]
                           ELSE m_value_updates[i - Len(batch)]
    BY <1>2, PendingType
  <1>6. 1 \in 1..Len(Pending) /\ Pending[1] = Exit
    BY <1>1, <1>4, <1>5
  <1>7. ExitAwaited /\ Len(Pending) = 1
    BY <1>2, <1>6 DEF ExitIsLast
  <1>8. m_value_updates = <<>>
    <2>1. Len(m_value_updates) = 0
      <3> DEFINE l == Len(batch)  k == Len(m_value_updates)  m == Len(Pending)
      <3>1. l \in Nat \ {0} /\ k \in Nat /\ m = l + k /\ m = 1
        BY <1>4, <1>5, <1>7
      <3> HIDE DEF l, k, m
      <3>2. k = 0
        BY <3>1
      <3> QED BY <3>2 DEF k
    <2> QED BY <1>3, <2>1, EmptySeq
  <1>9. Pending' = <<>>
    BY <1>1, <1>8, <1>3, ConcatEmptySeq DEF Pending
  <1>10. PendingUpdates = <<>>
    <2>1. PendingUpdates = SubSeq(Pending, 1, 0)
      BY <1>7 DEF PendingUpdates
    <2> QED BY <2>1, SubSeqEmpty
  <1>11. PendingUpdates' = <<>>
    BY <1>1, <1>9 DEF PendingUpdates, ExitAwaited
  <1> QED BY <1>1, <1>7, <1>9, <1>10, <1>11 DEF ExitAwaited

-----------------------------------------------------------------------------
(* Which update of a name is the last one.                                 *)

\* Making an update makes it the last one of its name and of no other.
LEMMA LastAfterUpdate ==
    ASSUME TypeOK, ExitIsLast, LastUpdateWins, NEW n \in Names, NEW v \in Values,
           PendingUpdates' = Append(PendingUpdates, <<n, v>>),
           latest' = [latest EXCEPT ![n] = v],
           UNCHANGED <<loop, shown>>
    PROVE  LastUpdateWins'
  <1> DEFINE q == PendingUpdates
  <1>1. q \in Seq(Updates) /\ Len(q) \in Nat
    BY PendingUpdatesType
  <1>2. <<n, v>> \in Updates
    BY DEF Updates
  <1>3. /\ Len(q') = Len(q) + 1
        /\ \A i \in 1..Len(q) : q'[i] = q[i]
        /\ q'[Len(q) + 1] = <<n, v>>
    BY <1>1, <1>2, AppendProperties
  <1>4. latest \in [Names -> Values]
    BY DEF TypeOK
  <1>5. SUFFICES ASSUME NEW m \in Names
        PROVE  \/ /\ \A i \in 1..Len(q') : Name(q'[i]) /= m
                  /\ latest'[m] = IF loop' = "start" THEN Initial ELSE shown'[m]
               \/ \E i \in 1..Len(q') :
                     /\ q'[i] = <<m, latest'[m]>>
                     /\ \A j \in 1..Len(q') : j > i => Name(q'[j]) /= m
    BY DEF LastUpdateWins
  <1> HIDE DEF q
  <1>6. CASE m = n
    <2>1. latest'[m] = v
      BY <1>4, <1>6
    <2>2. Len(q) + 1 \in 1..Len(q')
      BY <1>1, <1>3
    <2>3. \A j \in 1..Len(q') : ~ (j > Len(q) + 1)
      BY <1>1, <1>3
    <2> QED BY <1>3, <1>6, <2>1, <2>2, <2>3
  <1>7. CASE m /= n
    <2>1. latest'[m] = latest[m]
      BY <1>4, <1>7
    <2>2. \A i \in 1..Len(q') : i \in 1..Len(q) \/ i = Len(q) + 1
      BY <1>1, <1>3
    <2>3. Name(q'[Len(q) + 1]) /= m
      BY <1>3, <1>7 DEF Name
    <2>4. 1..Len(q) \subseteq 1..Len(q')
      BY <1>1, <1>3
    <2>5. CASE /\ \A i \in 1..Len(q) : Name(q[i]) /= m
               /\ latest[m] = IF loop = "start" THEN Initial ELSE shown[m]
      BY <1>3, <2>1, <2>2, <2>3, <2>5
    <2>6. CASE \E i \in 1..Len(q) :
                  /\ q[i] = <<m, latest[m]>>
                  /\ \A j \in 1..Len(q) : j > i => Name(q[j]) /= m
      <3>1. PICK i \in 1..Len(q) :
                /\ q[i] = <<m, latest[m]>>
                /\ \A j \in 1..Len(q) : j > i => Name(q[j]) /= m
        BY <2>6
      <3>2. i \in 1..Len(q') /\ q'[i] = <<m, latest'[m]>>
        BY <1>3, <2>1, <2>4, <3>1
      <3>3. \A j \in 1..Len(q') : j > i => Name(q'[j]) /= m
        BY <1>3, <2>2, <2>3, <3>1
      <3> QED BY <3>2, <3>3
    <2> QED BY <2>5, <2>6 DEF LastUpdateWins, q
  <1> QED BY <1>6, <1>7

\* Showing the first update that waits shows the value of its name that was
\* last, or a later one still waits.
LEMMA LastAfterShow ==
    ASSUME TypeOK, ExitIsLast, TaskInv, LastUpdateWins, ShowsFirst,
           loop /= "start"
    PROVE  LastUpdateWins'
  <1> DEFINE q == PendingUpdates
  <1>1. q \in Seq(Updates) /\ q /= <<>> /\ q' = Tail(q)
    BY PendingUpdatesType DEF ShowsFirst
  <1>2. /\ Len(q) \in Nat \ {0}
        /\ Len(q') = Len(q) - 1
        /\ \A i \in 1..Len(q') : q'[i] = q[i + 1]
        /\ Head(q) = q[1] /\ Head(q) \in Updates
    BY <1>1, HeadTailProperties, EmptySeq
  <1>3. /\ shown' = [shown EXCEPT ![Name(q[1])] = Value(q[1])]
        /\ UNCHANGED <<loop, latest>>
    BY <1>2 DEF ShowsFirst
  <1>4. shown \in [Names -> Values]
    BY DEF TaskInv
  <1>5. SUFFICES ASSUME NEW m \in Names
        PROVE  \/ /\ \A i \in 1..Len(q') : Name(q'[i]) /= m
                  /\ latest'[m] = shown'[m]
               \/ \E i \in 1..Len(q') :
                     /\ q'[i] = <<m, latest'[m]>>
                     /\ \A j \in 1..Len(q') : j > i => Name(q'[j]) /= m
    BY <1>3 DEF LastUpdateWins
  <1>6. \/ /\ \A i \in 1..Len(q) : Name(q[i]) /= m
           /\ latest[m] = shown[m]
        \/ \E i \in 1..Len(q) :
              /\ q[i] = <<m, latest[m]>>
              /\ \A j \in 1..Len(q) : j > i => Name(q[j]) /= m
    BY DEF LastUpdateWins
  <1> HIDE DEF q
  <1>7. \A i \in 1..Len(q') : i + 1 \in 1..Len(q)
    BY <1>2
  <1>8. CASE /\ \A i \in 1..Len(q) : Name(q[i]) /= m
             /\ latest[m] = shown[m]
    <2>1. 1 \in 1..Len(q)
      BY <1>2
    <2>2. shown'[m] = shown[m]
      BY <1>3, <1>4, <1>8, <2>1
    <2> QED BY <1>2, <1>3, <1>7, <1>8, <2>2
  <1>9. CASE \E i \in 1..Len(q) :
                /\ q[i] = <<m, latest[m]>>
                /\ \A j \in 1..Len(q) : j > i => Name(q[j]) /= m
    <2>1. PICK i \in 1..Len(q) :
              /\ q[i] = <<m, latest[m]>>
              /\ \A j \in 1..Len(q) : j > i => Name(q[j]) /= m
      BY <1>9
    <2>2. CASE i = 1
      <3>1. shown'[m] = latest[m]
        BY <1>3, <1>4, <2>1, <2>2 DEF Name, Value
      <3>2. \A j \in 1..Len(q') : j + 1 > i
        BY <1>2, <2>2
      <3>3. \A j \in 1..Len(q') : Name(q'[j]) /= m
        BY <1>2, <1>7, <2>1, <3>2
      <3> QED BY <1>3, <3>1, <3>3
    <2>3. CASE i /= 1
      <3>1. i - 1 \in 1..Len(q') /\ (i - 1) + 1 = i
        BY <1>2, <2>1, <2>3
      <3>2. q'[i - 1] = <<m, latest'[m]>>
        BY <1>2, <1>3, <2>1, <3>1
      <3>3. \A j \in 1..Len(q') : j > i - 1 => j + 1 > i
        BY <1>2, <2>1
      <3>4. \A j \in 1..Len(q') : j > i - 1 => Name(q'[j]) /= m
        BY <1>2, <1>7, <2>1, <3>3
      <3> QED BY <3>1, <3>2, <3>4
    <2> QED BY <2>2, <2>3
  <1> QED BY <1>6, <1>8, <1>9

-----------------------------------------------------------------------------
(* Every step keeps the invariant.                                         *)

\* Nothing was pushed and nothing is shown.
LEMMA InvInit == Init => IndInv
  <1> SUFFICES ASSUME Init PROVE IndInv
    OBVIOUS
  <1>1. Pending = <<>> /\ PendingUpdates = <<>> /\ ~ ExitAwaited /\ Len(Pending) = 0
    <2>1. <<>> \in Seq(Commands) /\ Len(<<>>) = 0
      BY EmptySeq
    <2>2. Pending = <<>>
      BY <2>1, ConcatEmptySeq DEF Init, Pending
    <2> QED BY <2>1, <2>2 DEF Init, ExitAwaited, PendingUpdates
  <1>2. TypeOK
    <2>1. <<>> \in Seq(Commands)
      OBVIOUS
    <2>2. 0 \in 0..MaxUpdates
      BY MaxUpdatesAssumption
    <2>3. /\ [n \in Names |-> NotServed] \in [Names -> Values \cup {NotServed}]
          /\ [n \in Names |-> Initial] \in [Names -> Values]
      BY InitialAssumption
    <2> QED BY <2>1, <2>2, <2>3 DEF Init, TypeOK
  <1>3. ExitIsLast
    BY <1>1 DEF ExitIsLast
  <1>4. TaskInv
    BY DEF Init, TaskInv
  <1>5. NoUpdateIsLost
    BY <1>1 DEF Init, NoUpdateIsLost
  <1>6. LastUpdateWins
    <2>1. \A i \in 1..Len(PendingUpdates) : FALSE
      BY <1>1
    <2>2. \A n \in Names : latest[n] = Initial
      BY DEF Init
    <2> QED BY <2>1, <2>2 DEF Init, LastUpdateWins
  <1> QED BY <1>2, <1>3, <1>4, <1>5, <1>6 DEF IndInv

\* UpdateAnyValue keeps the invariant.
LEMMA UpdateAnyValueStep ==
    ASSUME IndInv, NEW t \in Producers, NEW n \in Names, NEW v \in Values,
           UpdateAnyValue(t, n, v)
    PROVE  IndInv'
  <1> USE DEF IndInv
  <1>1. /\ Pending' = Append(Pending, <<n, v>>)
        /\ PendingUpdates = Pending
        /\ PendingUpdates' = Append(PendingUpdates, <<n, v>>)
        /\ m_value_updates' \in Seq(Commands)
    BY UpdateIsQueued
  <1>2. /\ destruction = "alive" /\ destruction' = destruction
        /\ made < MaxUpdates /\ made' = made + 1
        /\ latest' = [latest EXCEPT ![n] = v]
        /\ notifying' = notifying \cup {t}
        /\ UNCHANGED <<asleep, loop, batch, shown, processed>>
    BY DEF UpdateAnyValue, Push, taskVars
  <1>3. TypeOK'
    <2>1. made' \in 0..MaxUpdates
      BY <1>2, MaxUpdatesAssumption DEF TypeOK
    <2>2. notifying' \in SUBSET Threads
      BY <1>2 DEF TypeOK, Threads
    <2>3. latest' \in [Names -> Values]
      BY <1>2 DEF TypeOK
    <2> QED BY <1>1, <1>2, <2>1, <2>2, <2>3 DEF TypeOK
  <1>4. /\ Len(Pending) \in Nat /\ Pending \in Seq(Commands)
        /\ <<n, v>> \in Commands /\ <<n, v>> /= Exit
    BY PendingType, ExitIsNoUpdate DEF Updates
  <1>5. /\ Pending' /= <<>>
        /\ Len(Pending') = Len(Pending) + 1
        /\ \A i \in 1..Len(Pending) : Pending'[i] = Pending[i]
        /\ Pending'[Len(Pending) + 1] = <<n, v>>
    BY <1>1, <1>4, AppendProperties
  <1>6. ExitIsLast'
    <2>1. ~ ExitAwaited /\ ~ ExitAwaited'
      BY <1>2 DEF ExitAwaited
    <2>2. \A i \in 1..Len(Pending') : i \in 1..Len(Pending) \/ i = Len(Pending) + 1
      BY <1>4, <1>5
    <2>3. \A i \in 1..Len(Pending') : Pending'[i] /= Exit
      BY <1>4, <1>5, <2>1, <2>2 DEF ExitIsLast
    <2> QED BY <2>1, <2>3 DEF ExitIsLast
  <1>7. TaskInv'
    BY <1>2 DEF TaskInv
  <1>8. NoUpdateIsLost'
    <2> DEFINE l == Len(Pending)
               k == Len(Pending')
    <2>1. l \in Nat /\ k = l + 1 /\ processed + l = made /\ processed \in Nat
      BY <1>1, <1>4, <1>5 DEF NoUpdateIsLost, TypeOK
    <2>2. PendingUpdates' = Pending'
      BY <1>1
    <2> HIDE DEF l, k
    <2>3. processed + k = made + 1
      BY <2>1
    <2> QED BY <1>2, <2>2, <2>3 DEF NoUpdateIsLost, k
  <1>9. LastUpdateWins'
    BY <1>1, <1>2, LastAfterUpdate
  <1> QED BY <1>3, <1>6, <1>7, <1>8, <1>9

\* The destructor's first step keeps the invariant.
LEMMA PushExitStep ==
    ASSUME IndInv, PushExit
    PROVE  IndInv'
  <1> USE DEF IndInv
  <1>1. /\ Pending' = Append(Pending, Exit)
        /\ ~ ExitAwaited /\ ExitAwaited'
        /\ PendingUpdates' = PendingUpdates
        /\ m_value_updates' \in Seq(Commands)
    BY ExitIsQueued
  <1>2. /\ destruction = "alive" /\ destruction' = "joining"
        /\ notifying' = notifying \cup {Owner}
        /\ UNCHANGED <<asleep, loop, batch, shown, processed, made, latest>>
    BY DEF PushExit, Push, taskVars
  <1>3. TypeOK'
    <2>1. notifying' \in SUBSET Threads
      BY <1>2 DEF TypeOK, Threads
    <2> QED BY <1>1, <1>2, <2>1 DEF TypeOK
  <1>4. Len(Pending) \in Nat /\ Pending \in Seq(Commands) /\ Exit \in Commands
    BY PendingType, ExitIsNoUpdate
  <1>5. /\ Pending' /= <<>>
        /\ Len(Pending') = Len(Pending) + 1
        /\ \A i \in 1..Len(Pending) : Pending'[i] = Pending[i]
        /\ Pending'[Len(Pending) + 1] = Exit
    BY <1>1, <1>4, AppendProperties
  <1>6. ExitIsLast'
    <2>1. \A i \in 1..Len(Pending') : i \in 1..Len(Pending) \/ i = Len(Pending')
      BY <1>4, <1>5
    <2>2. \A i \in 1..Len(Pending) : Pending'[i] /= Exit /\ i /= Len(Pending')
      BY <1>1, <1>4, <1>5 DEF ExitIsLast
    <2> QED BY <1>1, <1>5, <2>1, <2>2 DEF ExitIsLast
  <1>7. TaskInv'
    BY <1>2 DEF TaskInv
  <1>8. NoUpdateIsLost'
    BY <1>1, <1>2 DEF NoUpdateIsLost
  <1>9. LastUpdateWins'
    BY <1>1, <1>2 DEF LastUpdateWins
  <1> QED BY <1>3, <1>6, <1>7, <1>8, <1>9

\* ProcessCommand keeps the invariant.
LEMMA ProcessCommandStep ==
    ASSUME IndInv, ProcessCommand, UNCHANGED <<destruction, made, latest>>
    PROVE  IndInv'
  <1> USE DEF IndInv
  <1>1. /\ loop = "process"
        /\ UNCHANGED <<m_value_updates, notifying, asleep>>
    BY DEF ProcessCommand, queueVars
  <1>2. CASE ExitReached
    <2>1. /\ Pending' = <<>>
          /\ destruction /= "alive"
          /\ PendingUpdates = <<>> /\ PendingUpdates' = <<>>
          /\ loop' = "exited" /\ batch' = <<>>
          /\ UNCHANGED <<shown, processed>>
      BY <1>2, NothingWaitsAtExit
    <2>2. Len(Pending') = 0 /\ Len(PendingUpdates) = Len(PendingUpdates')
      BY <2>1
    <2>3. TypeOK'
      BY <1>1, <2>1 DEF TypeOK
    <2>4. ExitIsLast'
      BY <2>1, <2>2 DEF ExitIsLast, ExitAwaited
    <2>5. TaskInv'
      BY <1>1, <2>1 DEF TaskInv
    <2>6. NoUpdateIsLost'
      BY <2>1, <2>2 DEF NoUpdateIsLost
    <2>7. LastUpdateWins'
      BY <1>1, <2>1, <2>2 DEF LastUpdateWins
    <2> QED BY <2>3, <2>4, <2>5, <2>6, <2>7
  <1>3. CASE ~ ExitReached /\ batch /= <<>>
    <2>1. /\ ShowsFirst
          /\ Head(PendingUpdates) \in Updates
          /\ batch' \in Seq(Commands)
          /\ Len(Pending) \in Nat
          /\ Len(Pending') = Len(Pending) - 1
          /\ \A i \in 1..Len(Pending') : Pending'[i] = Pending[i + 1]
          /\ ExitAwaited' = ExitAwaited
          /\ Pending' = <<>> => ~ ExitAwaited
      BY <1>3, ProcessedUpdateIsFirst
    <2>2. /\ shown' = [shown EXCEPT ![Name(Head(PendingUpdates))] =
                           Value(Head(PendingUpdates))]
          /\ processed' = processed + 1
          /\ UNCHANGED <<loop, destruction, made, latest>>
      BY <2>1 DEF ShowsFirst
    <2>3. shown' \in [Names -> Values]
      <3>1. shown \in [Names -> Values]
        BY <1>1 DEF TaskInv
      <3>2. Value(Head(PendingUpdates)) \in Values
        BY <2>1 DEF Updates, Value
      <3> QED BY <2>2, <3>1, <3>2
    <2>4. /\ PendingUpdates \in Seq(Updates) /\ PendingUpdates /= <<>>
          /\ PendingUpdates' = Tail(PendingUpdates)
      BY <2>1, PendingUpdatesType DEF ShowsFirst
    <2>5. /\ Len(PendingUpdates') = Len(PendingUpdates) - 1
          /\ Len(PendingUpdates) \in Nat \ {0}
      BY <2>4, HeadTailProperties, EmptySeq
    <2>6. NoUpdateIsLost' /\ processed' <= made'
      <3> DEFINE l == Len(PendingUpdates)
                 k == Len(PendingUpdates')
      <3>1. /\ l \in Nat \ {0} /\ k = l - 1 /\ processed + l = made
            /\ processed \in Nat
        BY <2>5 DEF NoUpdateIsLost, TypeOK
      <3> HIDE DEF l, k
      <3>2. (processed + 1) + k = made /\ processed + 1 <= made
        BY <3>1
      <3> QED BY <2>2, <3>2 DEF NoUpdateIsLost, k
    <2>7. TypeOK'
      <3>1. processed' \in 0..MaxUpdates
        BY <2>2, <2>6, MaxUpdatesAssumption DEF TypeOK
      <3>2. shown' \in [Names -> Values \cup {NotServed}]
        BY <2>3
      <3> QED BY <1>1, <2>1, <2>2, <3>1, <3>2 DEF TypeOK
    <2>8. ExitIsLast'
      <3>1. \A i \in 1..Len(Pending') :
               /\ i + 1 \in 1..Len(Pending)
               /\ i + 1 = Len(Pending) <=> i = Len(Pending')
        BY <2>1
      <3> QED BY <2>1, <3>1 DEF ExitIsLast
    <2>9. TaskInv'
      BY <1>1, <2>2, <2>3 DEF TaskInv
    <2>10. LastUpdateWins'
      BY <1>1, <2>1, LastAfterShow
    <2> QED BY <2>6, <2>7, <2>8, <2>9, <2>10
  <1>4. CASE batch = <<>>
    <2>1. /\ loop' = "wait"
          /\ UNCHANGED <<batch, shown, processed>>
      BY <1>4 DEF ProcessCommand, ExitReached
    <2>2. Pending' = Pending /\ ExitAwaited' = ExitAwaited
      BY <1>1, <2>1 DEF Pending, ExitAwaited
    <2>3. PendingUpdates' = PendingUpdates
      BY <2>2 DEF PendingUpdates
    <2>4. TypeOK'
      BY <1>1, <2>1 DEF TypeOK
    <2>5. ExitIsLast' /\ NoUpdateIsLost'
      BY <2>1, <2>2, <2>3 DEF ExitIsLast, NoUpdateIsLost
    <2>6. TaskInv'
      BY <1>1, <1>4, <2>1 DEF TaskInv
    <2>7. LastUpdateWins'
      BY <1>1, <2>1, <2>3 DEF LastUpdateWins
    <2> QED BY <2>4, <2>5, <2>6, <2>7
  <1> QED BY <1>2, <1>3, <1>4

\* The steps that neither push nor process a command keep what waits.
LEMMA QuietStep ==
    ASSUME IndInv, UNCHANGED <<made, latest, processed>>,
           \/ StartServer /\ UNCHANGED destruction
           \/ WaitForNonEmpty /\ UNCHANGED destruction
           \/ PopCommands /\ UNCHANGED destruction
           \/ SpuriousWakeup /\ UNCHANGED destruction
           \/ Join
           \/ \E t \in Threads : Notify(t)
    PROVE  IndInv' /\ PendingUpdates' = PendingUpdates
  <1> USE DEF IndInv
  <1>1. Pending' = Pending
    <2>1. CASE PopCommands
      BY <2>1, PopKeepsPending
    <2>2. CASE ~ PopCommands
      BY <2>2 DEF StartServer, WaitForNonEmpty, SpuriousWakeup, Join, Notify,
                  queueVars, taskVars, Pending
    <2> QED BY <2>1, <2>2
  <1>2. ExitAwaited' = ExitAwaited
    BY DEF StartServer, WaitForNonEmpty, PopCommands, SpuriousWakeup, Join,
           Notify, taskVars, ExitAwaited
  <1>3. PendingUpdates' = PendingUpdates
    BY <1>1, <1>2 DEF PendingUpdates
  <1>4. CASE StartServer
    <2>1. /\ loop = "start" /\ loop' = "wait"
          /\ shown' = [n \in Names |-> Initial]
          /\ UNCHANGED <<m_value_updates, notifying, asleep, batch, destruction>>
      BY <1>4 DEF StartServer, Join, Notify, queueVars
    <2>2. TypeOK'
      BY <2>1, InitialAssumption DEF TypeOK
    <2>3. TaskInv'
      BY <2>1, InitialAssumption DEF TaskInv
    <2>4. LastUpdateWins'
      BY <1>3, <2>1 DEF LastUpdateWins
    <2>5. ExitIsLast' /\ NoUpdateIsLost'
      BY <1>1, <1>2, <1>3 DEF ExitIsLast, NoUpdateIsLost
    <2> QED BY <1>3, <2>2, <2>3, <2>4, <2>5
  <1>5. CASE ~ StartServer
    <2>1. UNCHANGED shown
      BY <1>5 DEF WaitForNonEmpty, PopCommands, SpuriousWakeup, Join, Notify,
                  taskVars
    <2>2. loop' = "start" <=> loop = "start"
      BY <1>5 DEF WaitForNonEmpty, PopCommands, SpuriousWakeup, Join, Notify,
                  taskVars
    <2>3. TypeOK'
      <3>1. <<>> \in Seq(Commands)
        OBVIOUS
      <3> QED BY <1>5, <2>1, <3>1 DEF WaitForNonEmpty, PopCommands,
                 SpuriousWakeup, Join, Notify, taskVars, queueVars, TypeOK
    <2>4. TaskInv'
      BY <1>1, <1>5, <2>1 DEF WaitForNonEmpty, PopCommands, SpuriousWakeup,
                 Join, Notify, taskVars, queueVars, TaskInv
    <2>5. LastUpdateWins'
      BY <1>3, <2>1, <2>2 DEF LastUpdateWins
    <2>6. ExitIsLast' /\ NoUpdateIsLost'
      BY <1>1, <1>2, <1>3 DEF ExitIsLast, NoUpdateIsLost
    <2> QED BY <1>3, <2>3, <2>4, <2>5, <2>6
  <1> QED BY <1>4, <1>5

\* A step of the specification is a quiet one, an update, a processed command
\* or the exit command.
LEMMA NextCases ==
    ASSUME Next
    PROVE  \/ \E t \in Producers, n \in Names, v \in Values : UpdateAnyValue(t, n, v)
           \/ ProcessCommand /\ UNCHANGED <<destruction, made, latest>>
           \/ PushExit
           \/ /\ UNCHANGED <<made, latest, processed>>
              /\ \/ StartServer /\ UNCHANGED destruction
                 \/ WaitForNonEmpty /\ UNCHANGED destruction
                 \/ PopCommands /\ UNCHANGED destruction
                 \/ SpuriousWakeup /\ UNCHANGED destruction
                 \/ Join
                 \/ \E t \in Threads : Notify(t)
  BY DEF Next, Task, StartServer, WaitForNonEmpty, PopCommands, SpuriousWakeup,
         Join, Notify, taskVars

\* Every step keeps the invariant.
LEMMA InvStep == IndInv /\ [Next]_vars => IndInv'
  <1> SUFFICES ASSUME IndInv, [Next]_vars PROVE IndInv'
    OBVIOUS
  <1>1. CASE Next
    BY <1>1, NextCases, UpdateAnyValueStep, ProcessCommandStep, PushExitStep,
       QuietStep
  <1>2. CASE UNCHANGED vars
    <2>1. UNCHANGED <<m_value_updates, notifying, asleep, loop, batch, shown,
                      processed, destruction, made, latest>>
      BY <1>2 DEF vars, queueVars, taskVars
    <2>2. Pending' = Pending /\ ExitAwaited' = ExitAwaited
      BY <2>1 DEF Pending, ExitAwaited
    <2>3. PendingUpdates' = PendingUpdates
      BY <2>2 DEF PendingUpdates
    <2>4. TypeOK'
      BY <2>1 DEF IndInv, TypeOK
    <2>5. ExitIsLast' /\ TaskInv'
      BY <2>1, <2>2 DEF IndInv, ExitIsLast, TaskInv
    <2>6. NoUpdateIsLost' /\ LastUpdateWins'
      BY <2>1, <2>3 DEF IndInv, NoUpdateIsLost, LastUpdateWins
    <2> QED BY <2>4, <2>5, <2>6 DEF IndInv
  <1> QED BY <1>1, <1>2

-----------------------------------------------------------------------------

\* The update queue, the batch of the task (anyvalue_update_queue.cpp,
\* epics_server.cpp) and the destructor agree: no update is lost or doubled, the
\* exit command is the last one, and the last update of a name is either shown
\* or still to come.
THEOREM IndInvariant == Spec => []IndInv
  BY InvInit, InvStep, PTL DEF Spec

\* WaitForNonEmpty and Push lose no wakeup although notify_one comes after the
\* unlock: the task sleeps over a command only while a notification is coming.
THEOREM WakeupsAreNotLost == Spec => []NoLostWakeup
  <1>1. Init => NoLostWakeup
    BY DEF Init, NoLostWakeup
  <1>2. IndInv /\ NoLostWakeup /\ [Next]_vars => NoLostWakeup'
    <2> SUFFICES ASSUME IndInv, NoLostWakeup, [Next]_vars PROVE NoLostWakeup'
      OBVIOUS
    <2>1. ASSUME NEW t \in Threads, NEW c, Push(t, c) PROVE NoLostWakeup'
      BY <2>1 DEF Push, NoLostWakeup
    <2>2. CASE \E t \in Producers, n \in Names, v \in Values : UpdateAnyValue(t, n, v)
      BY <2>1, <2>2 DEF UpdateAnyValue, Threads
    <2>3. CASE PushExit
      BY <2>1, <2>3 DEF PushExit, Threads
    <2>4. CASE \E t \in Threads : Notify(t)
      BY <2>4 DEF Notify, NoLostWakeup
    <2>5. CASE \/ Task \/ SpuriousWakeup \/ Join \/ UNCHANGED vars
      BY <2>5 DEF Task, StartServer, WaitForNonEmpty, PopCommands,
                  ProcessCommand, SpuriousWakeup, Join, vars, queueVars,
                  NoLostWakeup
    <2> QED BY <2>2, <2>3, <2>4, <2>5 DEF Next
  <1> QED BY <1>1, <1>2, IndInvariant, PTL DEF Spec

\* ~EPICSServer (epics_server.cpp) drops no update: when the task has ended, every
\* variable has the value of its last update.
THEOREM ShutdownLosesNothing == Spec => []FinalValuesAreLatest
  <1>1. IndInv => FinalValuesAreLatest
    <2> SUFFICES ASSUME IndInv, loop = "exited" PROVE shown = latest
      BY DEF FinalValuesAreLatest
    <2>1. PendingUpdates = <<>>
      BY DEF IndInv, TaskInv, PendingUpdates, ExitAwaited
    <2>2. \A i \in 1..Len(PendingUpdates) : FALSE
      BY <2>1
    <2>3. \A n \in Names : latest[n] = shown[n]
      BY <2>2 DEF IndInv, LastUpdateWins
    <2>4. shown \in [Names -> Values] /\ latest \in [Names -> Values]
      BY DEF IndInv, TaskInv, TypeOK
    <2> QED BY <2>3, <2>4
  <1> QED BY <1>1, IndInvariant, PTL

\* The server shows its updates one by one in the order of the calls of
\* UpdateAnyValue, whatever the batches are and whenever it is destroyed.
THEOREM Refinement == Spec => ImplementsFIFO
  <1>1. Init => FIFO!Init
    <2> SUFFICES ASSUME Init PROVE FIFO!Init
      OBVIOUS
    <2>1. ~ ExitAwaited /\ Pending = <<>>
      <3>1. <<>> \in Seq(Commands)
        OBVIOUS
      <3> QED BY <3>1, ConcatEmptySeq DEF Init, ExitAwaited, Pending
    <2> QED BY <2>1 DEF Init, FIFO!Init, PendingUpdates
  <1>2. IndInv /\ [Next]_vars => [FIFO!Next]_(FIFO!vars)
    <2> SUFFICES ASSUME IndInv, [Next]_vars PROVE [FIFO!Next]_(FIFO!vars)
      OBVIOUS
    <2>1. ASSUME NEW t \in Producers, NEW n \in Names, NEW v \in Values,
                 UpdateAnyValue(t, n, v)
          PROVE  FIFO!Next
      <3>1. PendingUpdates' = Append(PendingUpdates, <<n, v>>)
        BY <2>1, UpdateIsQueued
      <3>2. UNCHANGED shown
        BY <2>1 DEF UpdateAnyValue, Push, taskVars
      <3> QED BY <3>1, <3>2 DEF FIFO!Update, FIFO!Next
    <2>2. ASSUME ProcessCommand, UNCHANGED <<destruction, made, latest>>
          PROVE  [FIFO!Next]_(FIFO!vars)
      <3>1. CASE ExitReached
        BY <2>2, <3>1, NothingWaitsAtExit DEF FIFO!vars
      <3>2. CASE ~ ExitReached /\ batch /= <<>>
        <4>1. ShowsFirst
          BY <2>2, <3>2, ProcessedUpdateIsFirst
        <4>2. shown \in [Names -> Values]
          BY <2>2 DEF IndInv, TaskInv, ProcessCommand
        <4>3. \A n \in Names : shown[n] /= NotServed
          BY <4>2, InitialAssumption
        <4> QED BY <4>1, <4>3 DEF ShowsFirst, FIFO!Show, FIFO!Next, Name, Value
      <3>3. CASE batch = <<>>
        BY <2>2, <3>3 DEF ProcessCommand, ExitReached, queueVars, FIFO!vars,
                          PendingUpdates, Pending, ExitAwaited
      <3> QED BY <3>1, <3>2, <3>3
    <2>3. CASE PushExit
      BY <2>3, ExitIsQueued DEF PushExit, Push, taskVars, FIFO!vars
    <2>4. ASSUME UNCHANGED <<made, latest, processed>>,
                 \/ StartServer /\ UNCHANGED destruction
                 \/ WaitForNonEmpty /\ UNCHANGED destruction
                 \/ PopCommands /\ UNCHANGED destruction
                 \/ SpuriousWakeup /\ UNCHANGED destruction
                 \/ Join
                 \/ \E t \in Threads : Notify(t)
          PROVE  [FIFO!Next]_(FIFO!vars)
      <3>1. PendingUpdates' = PendingUpdates
        BY <2>4, QuietStep
      <3>2. CASE StartServer
        <4>1. \A n \in Names : shown[n] = NotServed
          BY <3>2 DEF StartServer, IndInv, TaskInv
        <4>2. shown' = [n \in Names |-> Initial]
          BY <3>2 DEF StartServer
        <4> QED BY <3>1, <4>1, <4>2 DEF FIFO!Serve, FIFO!Next
      <3>3. CASE ~ StartServer
        BY <2>4, <3>1, <3>3 DEF WaitForNonEmpty, PopCommands, SpuriousWakeup,
                                Join, Notify, taskVars, FIFO!vars
      <3> QED BY <3>2, <3>3
    <2>5. CASE UNCHANGED vars
      BY <2>5 DEF vars, queueVars, taskVars, FIFO!vars, PendingUpdates, Pending,
                  ExitAwaited
    <2> QED BY <2>1, <2>2, <2>3, <2>4, <2>5, NextCases
  <1> QED BY <1>1, <1>2, IndInvariant, PTL DEF Spec, ImplementsFIFO, FIFO!Spec

=============================================================================
