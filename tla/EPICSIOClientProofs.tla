-------------------------- MODULE EPICSIOClientProofs --------------------------
(***************************************************************************)
(* Proofs about EPICSIOClient, for any number of requests and of events.   *)
(***************************************************************************)
EXTENDS EPICSIOClient, SequenceTheorems, TLAPS

USE RequestsAssumption, MaxDeliveriesAssumption

\* A position that shows a request shows the one that RequestAt names.
LEMMA RequestPositions ==
    ASSUME NEW position \in Positions, IsRequest(position)
    PROVE  /\ RequestAt(position) \in Ids
           /\ PositionOf(RequestAt(position)) = position
  <1>1. \A p \in Nat : p % 2 = 1 => 2 * ((p + 1) \div 2) - 1 = p
    OBVIOUS
  <1>2. \A p \in Nat : (p + 1) \div 2 \in Nat
    OBVIOUS
  <1>3. position \in Nat /\ position <= 2 * Requests /\ position % 2 = 1
    BY DEF Positions, IsRequest
  <1>4. PositionOf(RequestAt(position)) = position
    BY <1>1, <1>3 DEF PositionOf, RequestAt
  <1> DEFINE k == RequestAt(position)
  <1>5. k \in Nat /\ 2 * k - 1 = position
    BY <1>2, <1>3, <1>4 DEF PositionOf, RequestAt
  <1> HIDE DEF k
  <1>6. k \in 1..Requests
    BY <1>3, <1>5
  <1> QED BY <1>4, <1>6 DEF k, Ids

\* The clearing of a request is shown at no position of a request.
LEMMA RequestsHaveOddPositions ==
    ASSUME NEW id \in Ids
    PROVE  PositionOf(id) \in Nat /\ IsRequest(PositionOf(id)) /\ id /= NoId
  BY DEF PositionOf, IsRequest, Ids, NoId

\* Numbers of positions.
LEMMA PositionsAreNumbers == Positions \subseteq Nat
  BY DEF Positions

-----------------------------------------------------------------------------
(* The invariant holds initially.                                          *)

\* Nothing was delivered and nothing is queued.
LEMMA InvInit == Init => IndInv
  <1> SUFFICES ASSUME Init PROVE IndInv
    OBVIOUS
  <1>1. <<>> \in Seq(ReplyInfos) /\ 0 \in Positions /\ 0 \in 0..MaxDeliveries
    BY DEF Positions
  <1>2. TypeOK
    BY <1>1 DEF Init, DelegatorInit, TypeOK, DelegatorTypeOK
  <1>3. ActiveReplyIsCurrent /\ InterruptInCallback /\ CallbackInv /\ HaltInv
    BY DEF Init, DelegatorInit, ActiveReplyIsCurrent, InterruptInCallback,
           CallbackInv, HaltInv
  <1>4. RepliesAreCurrent /\ OnlyStaleRepliesAreDropped
    BY DEF Init, DelegatorInit, RepliesAreCurrent, OnlyStaleRepliesAreDropped
  <1> QED BY <1>2, <1>3, <1>4 DEF IndInv

-----------------------------------------------------------------------------
(* The server and the monitor.                                             *)

\* Showing the next value and delivering one keep the invariant.
LEMMA MonitorStep ==
    ASSUME IndInv,
           ServerUpdates \/ \E position \in Positions : Deliver(position)
    PROVE  IndInv'
  <1>1. /\ UNCHANGED <<m_reply_queue, m_active_id, m_halt, asleep, delegatee,
                       current, interrupting, sent, dropped, interrupted,
                       takenAfterHalt, clearSeen, owner>>
        /\ shown \in Nat /\ seen \in Nat /\ clearSeen \in Nat
        /\ shown' \in Nat /\ seen' \in Nat
    BY PositionsAreNumbers DEF IndInv, TypeOK, ServerUpdates, Deliver,
       delegatorVars
  <1>2. /\ shown' \in Positions /\ seen' \in Positions
        /\ shown <= shown' /\ seen <= seen' /\ seen' <= shown'
    BY <1>1 DEF IndInv, TypeOK, CallbackInv, ServerUpdates, Deliver
  <1>3. /\ deliveries' \in 0..MaxDeliveries
        /\ callback' \in {"idle", "prompt", "queue", "notify", "interrupt",
                          "interrupting"}
    BY DEF IndInv, TypeOK, ServerUpdates, Deliver, HandleUserInput
  <1>4. TypeOK'
    BY <1>1, <1>2, <1>3 DEF IndInv, TypeOK, DelegatorTypeOK
  <1>5. /\ callback' = "interrupting" <=> callback = "interrupting"
        /\ callback' \in {"prompt", "queue"} =>
              IsRequest(seen') /\ deliveries' \in 1..MaxDeliveries
        /\ callback' = "interrupt" => ~ IsRequest(seen')
        /\ owner' /= "alive" => callback' = "idle"
    BY DEF IndInv, TypeOK, CallbackInv, ServerUpdates, Deliver, HandleUserInput
  <1>6. CallbackInv' /\ InterruptInCallback' /\ ActiveReplyIsCurrent' /\ HaltInv'
    BY <1>1, <1>2, <1>5 DEF IndInv, CallbackInv, InterruptInCallback,
       ActiveReplyIsCurrent, HaltInv
  <1>7. \A i \in 1..Len(m_reply_queue) :
           m_reply_queue[i].id \in Ids
    <2>1. \A i \in 1..Len(m_reply_queue) : m_reply_queue[i] \in ReplyInfos
      BY ElementOfSeq DEF IndInv, TypeOK, DelegatorTypeOK
    <2> QED BY <2>1 DEF ReplyInfos
  <1>8. RepliesAreCurrent'
    BY <1>1, <1>2, <1>7, RequestsHaveOddPositions DEF IndInv, RepliesAreCurrent
  <1>9. OnlyStaleRepliesAreDropped'
    <2>1. \A info \in dropped : PositionOf(info.id) \in Nat
      BY RequestsHaveOddPositions DEF IndInv, TypeOK, DelegatorTypeOK, ReplyInfos
    <2> QED BY <1>1, <1>2, <2>1 DEF IndInv, OnlyStaleRepliesAreDropped
  <1> QED BY <1>4, <1>6, <1>8, <1>9 DEF IndInv

-----------------------------------------------------------------------------
(* The callback.                                                           *)

\* The answer of the user becomes a reply to the request that was shown.
LEMMA ReplyIsQueued ==
    ASSUME IndInv, ReplyAnswer
    PROVE  LET info == [id |-> RequestAt(seen), event |-> deliveries]
           IN  /\ info \in ReplyInfos
               /\ PositionOf(info.id) = seen
               /\ m_reply_queue' = Append(m_reply_queue, info)
               /\ m_reply_queue' \in Seq(ReplyInfos)
               /\ Len(m_reply_queue') = Len(m_reply_queue) + 1
               /\ Len(m_reply_queue) \in Nat
               /\ \A i \in 1..Len(m_reply_queue) :
                     m_reply_queue'[i] = m_reply_queue[i]
               /\ m_reply_queue'[Len(m_reply_queue) + 1] = info
  <1> DEFINE info == [id |-> RequestAt(seen), event |-> deliveries]
  <1>1. IsRequest(seen) /\ deliveries \in 1..MaxDeliveries /\ seen \in Positions
    BY DEF ReplyAnswer, CallbackMoves, IndInv, CallbackInv, TypeOK
  <1>2. info \in ReplyInfos /\ PositionOf(info.id) = seen
    BY <1>1, RequestPositions DEF ReplyInfos
  <1>3. m_reply_queue' = Append(m_reply_queue, info)
    BY DEF ReplyAnswer, QueueReply
  <1>4. m_reply_queue \in Seq(ReplyInfos)
    BY DEF IndInv, TypeOK, DelegatorTypeOK
  <1>5. Len(m_reply_queue) \in Nat
    BY <1>4, LenProperties
  <1> HIDE DEF info
  <1>6. /\ m_reply_queue' \in Seq(ReplyInfos)
        /\ Len(m_reply_queue') = Len(m_reply_queue) + 1
        /\ \A i \in 1..Len(m_reply_queue) : m_reply_queue'[i] = m_reply_queue[i]
        /\ m_reply_queue'[Len(m_reply_queue) + 1] = info
    BY <1>2, <1>3, <1>4, AppendProperties
  <1> QED BY <1>2, <1>3, <1>5, <1>6 DEF info

\* Queueing the reply keeps the invariant.
LEMMA ReplyAnswerStep ==
    ASSUME IndInv, ReplyAnswer
    PROVE  IndInv'
  <1> DEFINE info == [id |-> RequestAt(seen), event |-> deliveries]
  <1>1. /\ info \in ReplyInfos
        /\ PositionOf(info.id) = seen
        /\ m_reply_queue' \in Seq(ReplyInfos)
        /\ Len(m_reply_queue') = Len(m_reply_queue) + 1
        /\ Len(m_reply_queue) \in Nat
        /\ \A i \in 1..Len(m_reply_queue) : m_reply_queue'[i] = m_reply_queue[i]
        /\ m_reply_queue'[Len(m_reply_queue) + 1] = info
    BY ReplyIsQueued
  <1> HIDE DEF info
  <1>2. /\ UNCHANGED <<m_active_id, m_halt, asleep, delegatee, current,
                       interrupting, sent, dropped, interrupted,
                       takenAfterHalt, shown, seen, deliveries, clearSeen,
                       owner>>
        /\ callback = "queue" /\ callback' = "notify"
    BY DEF ReplyAnswer, CallbackMoves, QueueReply
  <1>3. TypeOK'
    BY <1>1, <1>2 DEF IndInv, TypeOK, DelegatorTypeOK
  <1>4. /\ ActiveReplyIsCurrent' /\ InterruptInCallback' /\ CallbackInv'
        /\ OnlyStaleRepliesAreDropped' /\ HaltInv'
    BY <1>2 DEF IndInv, ActiveReplyIsCurrent, InterruptInCallback, CallbackInv,
                OnlyStaleRepliesAreDropped, HaltInv
  <1>5. RepliesAreCurrent'
    <2>1. \A i \in 1..Len(m_reply_queue') :
             i \in 1..Len(m_reply_queue) \/ i = Len(m_reply_queue) + 1
      BY <1>1
    <2>2. seen \in clearSeen..seen
      BY PositionsAreNumbers DEF IndInv, TypeOK, CallbackInv
    <2> QED BY <1>1, <1>2, <2>1, <2>2 DEF IndInv, RepliesAreCurrent
  <1> QED BY <1>3, <1>4, <1>5 DEF IndInv

\* InterruptAll drops replies to cleared requests only, and interrupts the one
\* that the delegatee is busy with.
LEMMA DropRepliesStep ==
    ASSUME IndInv, DropReplies
    PROVE  IndInv'
  <1>1. /\ UNCHANGED <<m_active_id, m_halt, asleep, delegatee, current, sent,
                       takenAfterHalt, shown, seen, deliveries, owner>>
        /\ clearSeen' = seen
        /\ callback = "interrupt"
        /\ callback' = IF m_active_id = NoId THEN "idle" ELSE "interrupting"
        /\ interrupting' = m_active_id
        /\ m_reply_queue' = <<>>
        /\ dropped' = dropped \cup ToSet(m_reply_queue)
        /\ interrupted' = IF m_active_id = NoId THEN interrupted
                          ELSE interrupted \cup {current}
    BY DEF DropReplies, CallbackMoves, InterruptAll
  <1>2. ASSUME NEW info \in ToSet(m_reply_queue)
        PROVE  info \in ReplyInfos /\ PositionOf(info.id) < shown
    <2>1. PICK i \in 1..Len(m_reply_queue) : info = m_reply_queue[i]
      <3>1. DOMAIN m_reply_queue = 1..Len(m_reply_queue)
        BY LenProperties DEF IndInv, TypeOK, DelegatorTypeOK
      <3> QED BY <3>1 DEF ToSet
    <2>2. info \in ReplyInfos
      BY <2>1, ElementOfSeq DEF IndInv, TypeOK, DelegatorTypeOK
    <2>3. PositionOf(info.id) \in Nat /\ IsRequest(PositionOf(info.id))
      BY <2>2, RequestsHaveOddPositions DEF ReplyInfos
    <2>4. PositionOf(info.id) \in clearSeen..seen
      BY <2>1 DEF IndInv, RepliesAreCurrent
    <2>5. PositionOf(info.id) /= seen
      BY <1>1, <2>3 DEF IndInv, CallbackInv
    <2>6. seen \in Nat /\ shown \in Nat /\ clearSeen \in Nat /\ seen <= shown
      BY PositionsAreNumbers DEF IndInv, TypeOK, CallbackInv
    <2> QED BY <2>2, <2>3, <2>4, <2>5, <2>6
  <1>3. m_active_id /= NoId => current \in ReplyInfos /\ m_active_id \in Ids
    BY DEF IndInv, TypeOK, DelegatorTypeOK, ActiveReplyIsCurrent
  <1>4. TypeOK'
    <2>1. m_reply_queue' \in Seq(ReplyInfos)
      BY <1>1
    <2>2. dropped' \in SUBSET ReplyInfos /\ interrupted' \in SUBSET ReplyInfos
      BY <1>1, <1>2, <1>3 DEF IndInv, TypeOK, DelegatorTypeOK
    <2> QED BY <1>1, <2>1, <2>2 DEF IndInv, TypeOK, DelegatorTypeOK
  <1>5. ActiveReplyIsCurrent' /\ InterruptInCallback' /\ HaltInv'
    BY <1>1 DEF IndInv, ActiveReplyIsCurrent, InterruptInCallback, HaltInv
  <1>6. CallbackInv'
    <2>1. seen \in Nat
      BY PositionsAreNumbers DEF IndInv, TypeOK
    <2> QED BY <1>1, <2>1 DEF IndInv, CallbackInv
  <1>7. RepliesAreCurrent'
    <2>1. Len(m_reply_queue') = 0
      BY <1>1
    <2>2. delegatee = "taken" => m_active_id /= NoId
      BY RequestsHaveOddPositions DEF IndInv, ActiveReplyIsCurrent, ReplyInfos
    <2> QED BY <1>1, <2>1, <2>2 DEF RepliesAreCurrent
  <1>8. OnlyStaleRepliesAreDropped'
    BY <1>1, <1>2 DEF IndInv, OnlyStaleRepliesAreDropped
  <1> QED BY <1>4, <1>5, <1>6, <1>7, <1>8 DEF IndInv

-----------------------------------------------------------------------------
(* The delegatee.                                                          *)

\* The delegatee leaves the callback, the owner and what they know alone.
LEMMA DelegateeFrame ==
    ASSUME IndInv, UNCHANGED clientVars,
           UNCHANGED <<m_halt, interrupting, dropped, interrupted>>
    PROVE  /\ CallbackInv' /\ OnlyStaleRepliesAreDropped'
           /\ UNCHANGED <<shown, seen, deliveries, callback, clearSeen, owner>>
  BY DEF clientVars, IndInv, CallbackInv, OnlyStaleRepliesAreDropped

\* Taking a reply makes it the active one.
LEMMA TakeReplyStep ==
    ASSUME IndInv, WaitForWork, TakeReply, UNCHANGED clientVars
    PROVE  IndInv'
  <1>1. /\ delegatee = "wait" /\ interrupting = NoId
        /\ UNCHANGED <<m_halt, interrupting, sent, dropped, interrupted, asleep>>
        /\ m_reply_queue /= <<>>
        /\ current' = Head(m_reply_queue)
        /\ m_reply_queue' = Tail(m_reply_queue)
        /\ m_active_id' = current'.id
        /\ delegatee' = "taken"
        /\ takenAfterHalt' = takenAfterHalt + (IF m_halt THEN 1 ELSE 0)
    BY DEF WaitForWork, TakeReply, MutexIsFree
  <1>2. m_reply_queue \in Seq(ReplyInfos)
    BY DEF IndInv, TypeOK, DelegatorTypeOK
  <1>3. /\ current' \in ReplyInfos
        /\ current' = m_reply_queue[1]
        /\ m_reply_queue' \in Seq(ReplyInfos)
        /\ Len(m_reply_queue) \in Nat \ {0}
        /\ Len(m_reply_queue') = Len(m_reply_queue) - 1
        /\ \A i \in 1..Len(m_reply_queue') : m_reply_queue'[i] = m_reply_queue[i + 1]
    BY <1>1, <1>2, HeadTailProperties, EmptySeq
  <1>4. /\ CallbackInv' /\ OnlyStaleRepliesAreDropped'
        /\ UNCHANGED <<shown, seen, deliveries, callback, clearSeen, owner>>
    BY <1>1, DelegateeFrame
  <1>5. takenAfterHalt = 0
    BY <1>1 DEF IndInv, HaltInv
  <1>6. TypeOK'
    <2>1. m_active_id' \in Ids \cup {NoId}
      BY <1>1, <1>3 DEF ReplyInfos
    <2> QED BY <1>1, <1>3, <1>4, <1>5, <2>1 DEF IndInv, TypeOK, DelegatorTypeOK
  <1>7. ActiveReplyIsCurrent' /\ InterruptInCallback' /\ HaltInv'
    BY <1>1, <1>3, <1>4, <1>5 DEF IndInv, ActiveReplyIsCurrent,
       InterruptInCallback, HaltInv
  <1>8. RepliesAreCurrent'
    <2>1. \A i \in 1..Len(m_reply_queue') : i + 1 \in 1..Len(m_reply_queue)
      BY <1>3
    <2>2. \A i \in 1..Len(m_reply_queue') :
             PositionOf(m_reply_queue'[i].id) \in clearSeen'..seen'
      BY <1>3, <1>4, <2>1 DEF IndInv, RepliesAreCurrent
    <2>3. PositionOf(current'.id) \in clearSeen'..seen'
      <3>1. 1 \in 1..Len(m_reply_queue)
        BY <1>3
      <3> QED BY <1>3, <1>4, <3>1 DEF IndInv, RepliesAreCurrent
    <2>4. PositionOf(current'.id) >= clearSeen'
      BY <1>3, <1>4, <2>3, RequestsHaveOddPositions, PositionsAreNumbers
      DEF ReplyInfos, IndInv, TypeOK
    <2> QED BY <2>2, <2>4 DEF RepliesAreCurrent
  <1> QED BY <1>4, <1>6, <1>7, <1>8 DEF IndInv

\* The other steps of the delegatee keep the invariant.
LEMMA DelegateeStep ==
    ASSUME IndInv, Delegatee
    PROVE  IndInv'
  <1>1. UNCHANGED clientVars
    BY DEF Delegatee
  <1>2. CASE WaitForWork /\ TakeReply
    BY <1>1, <1>2, TakeReplyStep
  <1>3. CASE \/ WaitForWork /\ (EndWhenHalted \/ Sleep)
             \/ SendReply \/ ReplySent \/ FinishReply
    <2>1. UNCHANGED <<m_reply_queue, m_halt, current, interrupting, dropped,
                      interrupted, takenAfterHalt>>
      BY <1>3 DEF WaitForWork, EndWhenHalted, Sleep, SendReply, ReplySent,
                  FinishReply
    <2>2. /\ CallbackInv' /\ OnlyStaleRepliesAreDropped'
          /\ UNCHANGED <<shown, seen, deliveries, callback, clearSeen, owner>>
      BY <1>1, <2>1, DelegateeFrame
    <2>3. sent' \in Seq(ReplyInfos)
      <3>1. CASE SendReply
        <4>1. current \in ReplyInfos /\ sent \in Seq(ReplyInfos)
          BY <3>1 DEF SendReply, IndInv, ActiveReplyIsCurrent, TypeOK,
                      DelegatorTypeOK
        <4> QED BY <3>1, <4>1, AppendProperties DEF SendReply
      <3>2. CASE ~ SendReply
        BY <1>3, <3>2 DEF WaitForWork, ReplySent, FinishReply, IndInv, TypeOK,
                          DelegatorTypeOK
      <3> QED BY <3>1, <3>2
    <2>4. /\ asleep' \in BOOLEAN
          /\ delegatee' \in {"wait", "taken", "sending", "relock", "ended"}
          /\ delegatee' /= "taken" \/ delegatee = "taken"
      BY <1>3 DEF WaitForWork, EndWhenHalted, Sleep, SendReply, ReplySent,
                  FinishReply, IndInv, TypeOK, DelegatorTypeOK
    <2>5. /\ m_active_id' \in {m_active_id, NoId}
          /\ ActiveReplyIsCurrent' /\ InterruptInCallback' /\ HaltInv'
      BY <1>3, <2>1, <2>2 DEF WaitForWork, EndWhenHalted, Sleep, SendReply,
         ReplySent, FinishReply, MutexIsFree, IndInv, ActiveReplyIsCurrent,
         InterruptInCallback, HaltInv, TypeOK, DelegatorTypeOK
    <2>6. TypeOK'
      BY <2>1, <2>2, <2>3, <2>4, <2>5 DEF IndInv, TypeOK, DelegatorTypeOK
    <2>7. RepliesAreCurrent'
      BY <2>1, <2>2, <2>4 DEF IndInv, RepliesAreCurrent
    <2> QED BY <2>2, <2>5, <2>6, <2>7 DEF IndInv
  <1> QED BY <1>2, <1>3 DEF Delegatee, HandleClientReply, WaitForWork

-----------------------------------------------------------------------------
(* The other steps.                                                        *)

\* Notifications, the ends of calls and the destructor keep the invariant.
LEMMA OtherStep ==
    ASSUME IndInv,
           \/ UserAnswers \/ NotifyAnswer \/ InterruptReturns
           \/ WakeWithoutCause /\ UNCHANGED clientVars
           \/ DestroyClientPVs \/ HaltDelegator \/ NotifyHalt \/ Join
    PROVE  IndInv'
  <1>1. UNCHANGED <<m_reply_queue, m_active_id, delegatee, current, sent,
                    dropped, interrupted, takenAfterHalt, shown, seen,
                    deliveries, clearSeen>>
    BY DEF UserAnswers, NotifyAnswer, InterruptReturns, WakeWithoutCause,
           clientVars, delegatorVars, DestroyClientPVs, HaltDelegator,
           NotifyHalt, Join, CallbackMoves, OwnerMoves, NotifyOne,
           InterruptFuncReturns, Halt
  <1>2. /\ asleep' \in BOOLEAN /\ m_halt' \in BOOLEAN
        /\ interrupting' \in Ids \cup {NoId}
        /\ callback' \in {"idle", "prompt", "queue", "notify", "interrupt",
                          "interrupting"}
        /\ owner' \in {"alive", "halt", "notify", "join", "destroyed"}
    BY DEF UserAnswers, NotifyAnswer, InterruptReturns, WakeWithoutCause,
           clientVars, delegatorVars, DestroyClientPVs, HaltDelegator,
           NotifyHalt, Join, CallbackMoves, OwnerMoves, NotifyOne,
           NotifyDelegatee, InterruptFuncReturns, Halt, IndInv, TypeOK,
           DelegatorTypeOK
  <1>3. TypeOK'
    BY <1>1, <1>2 DEF IndInv, TypeOK, DelegatorTypeOK
  <1>4. InterruptInCallback' /\ CallbackInv' /\ HaltInv'
    BY <1>1 DEF UserAnswers, NotifyAnswer, InterruptReturns, WakeWithoutCause,
           clientVars, delegatorVars, DestroyClientPVs, HaltDelegator,
           NotifyHalt, Join, CallbackMoves, OwnerMoves, NotifyOne,
           InterruptFuncReturns, Halt, IndInv, InterruptInCallback,
           CallbackInv, HaltInv, TypeOK, DelegatorTypeOK
  <1>5. ActiveReplyIsCurrent' /\ RepliesAreCurrent' /\ OnlyStaleRepliesAreDropped'
    BY <1>1 DEF IndInv, ActiveReplyIsCurrent, RepliesAreCurrent,
                OnlyStaleRepliesAreDropped
  <1> QED BY <1>3, <1>4, <1>5 DEF IndInv

\* A step of the specification is one of these.
LEMMA NextCases ==
    ASSUME Next
    PROVE  \/ ServerUpdates \/ \E position \in Positions : Deliver(position)
           \/ ReplyAnswer
           \/ DropReplies
           \/ Delegatee
           \/ UserAnswers \/ NotifyAnswer \/ InterruptReturns
           \/ WakeWithoutCause /\ UNCHANGED clientVars
           \/ DestroyClientPVs \/ HaltDelegator \/ NotifyHalt \/ Join
  BY DEF Next, Callback, Destructor

\* Every step keeps the invariant.
LEMMA InvStep == IndInv /\ [Next]_vars => IndInv'
  <1> SUFFICES ASSUME IndInv, [Next]_vars PROVE IndInv'
    OBVIOUS
  <1>1. CASE Next
    BY <1>1, NextCases, MonitorStep, ReplyAnswerStep, DropRepliesStep,
       DelegateeStep, OtherStep
  <1>2. CASE UNCHANGED vars
    BY <1>2 DEF vars, delegatorVars, clientVars, IndInv, TypeOK,
       DelegatorTypeOK, ActiveReplyIsCurrent, InterruptInCallback, CallbackInv,
       RepliesAreCurrent, OnlyStaleRepliesAreDropped, HaltInv
  <1> QED BY <1>1, <1>2

-----------------------------------------------------------------------------
(* Theorems about the replies.                                             *)

\* Callback (epics_io_client.cpp), delegatee and destructor agree on what is
\* queued, active and interrupted (client_reply_delegator.cpp).
THEOREM IndInvariant == Spec => []IndInv
  BY InvInit, InvStep, PTL DEF Spec

\* InterruptAll calls m_interrupt_func for a reply the delegatee is busy with,
\* and it stays busy with it during the call.
THEOREM InterruptsAreForActiveReplies == Spec => []InterruptIsForActiveReply
  <1>1. IndInv => InterruptIsForActiveReply
    BY DEF IndInv, InterruptInCallback, ActiveReplyIsCurrent, TypeOK,
           DelegatorTypeOK, InterruptIsForActiveReply
  <1> QED BY <1>1, IndInvariant, PTL

\* InterruptAll empties the queue without a look at the replies in it: the
\* requests of all of them are closed.
THEOREM DroppedRepliesAreStale == Spec => []OnlyStaleRepliesAreDropped
  <1>1. IndInv => OnlyStaleRepliesAreDropped
    BY DEF IndInv
  <1> QED BY <1>1, IndInvariant, PTL

\* Once InterruptAll has handled the clearing of a request, no reply to it is
\* sent except the one it interrupted.
THEOREM StaleRepliesAreInterrupted == Spec => StaleReplyIsInterrupted
  <1> DEFINE Sent == \A info \in ReplyInfos :
                 sent' = Append(sent, info) /\ PositionOf(info.id) < clearSeen
                     => info \in interrupted
  <1>1. IndInv /\ [Next]_vars => [Sent]_vars
    <2> SUFFICES ASSUME IndInv, Next, NEW info \in ReplyInfos,
                        sent' = Append(sent, info),
                        PositionOf(info.id) < clearSeen
                 PROVE  info \in interrupted
      OBVIOUS
    <2>1. sent \in Seq(ReplyInfos)
      BY DEF IndInv, TypeOK, DelegatorTypeOK
    <2>2. sent' /= sent
      <3>1. Len(sent) \in Nat /\ Len(sent') = Len(sent) + 1
        BY <2>1, LenProperties, AppendProperties
      <3> QED BY <3>1
    <2>3. SendReply
      BY <2>2, NextCases DEF ServerUpdates, Deliver, ReplyAnswer, QueueReply,
         DropReplies, InterruptAll, Delegatee, HandleClientReply, WaitForWork,
         ReplySent, FinishReply, UserAnswers, NotifyAnswer, NotifyOne,
         InterruptReturns, InterruptFuncReturns, WakeWithoutCause,
         DestroyClientPVs, HaltDelegator, Halt, NotifyHalt, Join, delegatorVars
    <2>4. /\ delegatee = "taken" /\ sent' = Append(sent, current)
          /\ current \in ReplyInfos
      BY <2>3 DEF SendReply, IndInv, ActiveReplyIsCurrent
    <2>5. info = current
      <3>1. sent'[Len(sent) + 1] = info
        BY <2>1, AppendProperties
      <3>2. sent'[Len(sent) + 1] = current
        BY <2>1, <2>4, AppendProperties
      <3> QED BY <3>1, <3>2
    <2>6. PositionOf(current.id) \in Nat /\ clearSeen \in Nat
      BY <2>4, RequestsHaveOddPositions, PositionsAreNumbers
      DEF ReplyInfos, IndInv, TypeOK
    <2> QED BY <2>4, <2>5, <2>6 DEF IndInv, RepliesAreCurrent
  <1> QED BY <1>1, IndInvariant, PTL DEF Spec, StaleReplyIsInterrupted

-----------------------------------------------------------------------------
(* The client implements its contract.                                     *)

\* The reply in the hand of the delegatee, and what is pending with it.
InHand == IF delegatee = "taken" THEN <<current>> ELSE <<>>
Prompting == callback \in {"prompt", "queue"}
Left == IF m_halt
        THEN (IF delegatee = "taken" THEN 1 ELSE 0) + 1 - takenAfterHalt
        ELSE 2
ClientOf(position, prompts, pending) ==
    [seen |-> position, prompting |-> prompts, pending |-> pending]
Client == ClientOf(seen, Prompting, InHand \o m_reply_queue)

\* Named because the provers tell a term from a truth value.
NotPrompting == FALSE

\* The variables of the contract, unfolded.
LEMMA ContractVars ==
    /\ Contract!vars = <<shown, Client, sent, m_halt, Left>>
    /\ Contract!Next =
          \/ Contract!Show \/ Contract!See \/ Contract!Answer
          \/ Contract!Send \/ Contract!Drop \/ Contract!Halt
  BY DEF Contract!vars, Contract!Next, Client, ClientOf, Left, InHand, Prompting

\* The types of what is pending.
LEMMA PendingType ==
    ASSUME IndInv
    PROVE  /\ InHand \in Seq(ReplyInfos)
           /\ m_reply_queue \in Seq(ReplyInfos)
           /\ InHand \o m_reply_queue \in Seq(ReplyInfos)
  <1>1. delegatee = "taken" => current \in ReplyInfos
    BY DEF IndInv, ActiveReplyIsCurrent
  <1>2. <<>> \in Seq(ReplyInfos) /\ (\A c \in ReplyInfos : <<c>> \in Seq(ReplyInfos))
    OBVIOUS
  <1>3. InHand \in Seq(ReplyInfos)
    BY <1>1, <1>2 DEF InHand
  <1>4. m_reply_queue \in Seq(ReplyInfos)
    BY DEF IndInv, TypeOK, DelegatorTypeOK
  <1> QED BY <1>3, <1>4, ConcatProperties

\* A client sees a value.
LEMMA SeeingClient ==
    ASSUME NEW a, NEW b, NEW c, NEW position
    PROVE  Contract!AfterSeeing(ClientOf(a, b, c), position) =
           ClientOf(position, Contract!IsRequestAt(position), c)
  <1> DEFINE f == Contract!AfterSeeing(ClientOf(a, b, c), position)
             g == ClientOf(position, Contract!IsRequestAt(position), c)
             fields == {"seen", "prompting", "pending"}
  <1>1. f.seen = g.seen /\ f.prompting = g.prompting /\ f.pending = g.pending
    BY DEF Contract!AfterSeeing, ClientOf
  <1>2. f = [x \in fields |-> f[x]] /\ g = [x \in fields |-> g[x]]
    BY DEF Contract!AfterSeeing, ClientOf
  <1>3. \A x \in fields : f[x] = g[x]
    BY <1>1
  <1> HIDE DEF f, g
  <1>4. f = g
    BY <1>2, <1>3
  <1> QED BY <1>4 DEF f, g

\* A client gets an answer.
LEMMA AnsweringClient ==
    ASSUME NEW a, NEW b, NEW c, NEW info
    PROVE  Contract!AfterAnswer(ClientOf(a, b, c), info) =
           ClientOf(a, NotPrompting, Append(c, info))
  <1> DEFINE f == Contract!AfterAnswer(ClientOf(a, b, c), info)
             g == ClientOf(a, NotPrompting, Append(c, info))
             fields == {"seen", "prompting", "pending"}
  <1>1. f.seen = g.seen /\ f.prompting = g.prompting /\ f.pending = g.pending
    BY DEF Contract!AfterAnswer, ClientOf, NotPrompting
  <1>2. f = [x \in fields |-> f[x]] /\ g = [x \in fields |-> g[x]]
    BY DEF Contract!AfterAnswer, ClientOf, NotPrompting
  <1>3. \A x \in fields : f[x] = g[x]
    BY <1>1
  <1> HIDE DEF f, g
  <1>4. f = g
    BY <1>2, <1>3
  <1> QED BY <1>4 DEF f, g

\* A client sends a reply.
LEMMA SendingClient ==
    ASSUME NEW a, NEW b, NEW c
    PROVE  Contract!AfterSending(ClientOf(a, b, c)) =
           ClientOf(a, b, Tail(c))
  <1> DEFINE f == Contract!AfterSending(ClientOf(a, b, c))
             g == ClientOf(a, b, Tail(c))
             fields == {"seen", "prompting", "pending"}
  <1>1. f.seen = g.seen /\ f.prompting = g.prompting /\ f.pending = g.pending
    BY DEF Contract!AfterSending, ClientOf
  <1>2. f = [x \in fields |-> f[x]] /\ g = [x \in fields |-> g[x]]
    BY DEF Contract!AfterSending, ClientOf
  <1>3. \A x \in fields : f[x] = g[x]
    BY <1>1
  <1> HIDE DEF f, g
  <1>4. f = g
    BY <1>2, <1>3
  <1> QED BY <1>4 DEF f, g

\* A client drops replies.
LEMMA DroppingClient ==
    ASSUME NEW a, NEW b, NEW c, NEW kept
    PROVE  Contract!AfterDropping(ClientOf(a, b, c), kept) =
           ClientOf(a, b, SubSeq(c, 1, kept))
  <1> DEFINE f == Contract!AfterDropping(ClientOf(a, b, c), kept)
             g == ClientOf(a, b, SubSeq(c, 1, kept))
             fields == {"seen", "prompting", "pending"}
  <1>1. f.seen = g.seen /\ f.prompting = g.prompting /\ f.pending = g.pending
    BY DEF Contract!AfterDropping, ClientOf
  <1>2. f = [x \in fields |-> f[x]] /\ g = [x \in fields |-> g[x]]
    BY DEF Contract!AfterDropping, ClientOf
  <1>3. \A x \in fields : f[x] = g[x]
    BY <1>1
  <1> HIDE DEF f, g
  <1>4. f = g
    BY <1>2, <1>3
  <1> QED BY <1>4 DEF f, g

\* The initial states are those of the contract.
LEMMA ContractInit == Init => Contract!Init
  <1> SUFFICES ASSUME Init PROVE Contract!Init
    OBVIOUS
  <1>1. <<>> \in Seq(ReplyInfos)
    OBVIOUS
  <1>2. <<>> \o <<>> = <<>>
    BY <1>1, ConcatEmptySeq
  <1>3. Client = Contract!NewClient
    <2>1. seen = 0 /\ InHand \o m_reply_queue = <<>>
      BY <1>2 DEF Init, DelegatorInit, InHand
    <2>2. Prompting = FALSE
      BY DEF Init, Prompting
    <2> QED BY <2>1, <2>2 DEF Client, ClientOf, Contract!NewClient
  <1>4. shown = 0 /\ sent = <<>> /\ m_halt = FALSE /\ Left = 2
    BY DEF Init, DelegatorInit, Left
  <1> QED BY <1>3, <1>4
          DEF Contract!Init, Client, ClientOf, Left, InHand, Prompting

\* The steps of the monitor are those of the contract.
LEMMA MonitorRefines ==
    /\ IndInv /\ ServerUpdates => Contract!Show
    /\ \A position \in Positions :
          IndInv /\ Deliver(position) => Contract!See
  <1>1. ASSUME IndInv, ServerUpdates PROVE Contract!Show
    BY <1>1 DEF ServerUpdates, delegatorVars, Contract!Show
  <1>2. ASSUME IndInv, NEW position \in Positions, Deliver(position)
        PROVE  Contract!See
    <2>1. /\ UNCHANGED <<delegatorVars, shown>>
          /\ callback = "idle" /\ seen' = position /\ position \in seen..shown
          /\ callback' = IF position % 2 = 1 THEN "prompt" ELSE "interrupt"
      BY <1>2 DEF Deliver, HandleUserInput, IsRequest
    <2>2. UNCHANGED <<sent, m_halt, Left, InHand, m_reply_queue>>
      BY <2>1 DEF delegatorVars, Left, InHand
    <2>3. Client' = ClientOf(position, position % 2 = 1,
                             InHand \o m_reply_queue)
      <3>1. Prompting' = (position % 2 = 1)
        BY <2>1 DEF Prompting
      <3> QED BY <2>1, <2>2, <3>1 DEF Client
    <2>4. Contract!CanSee(Client, position, shown)
      BY <2>1 DEF Contract!CanSee, Client, ClientOf, Prompting
    <2>5. Client' = Contract!AfterSeeing(Client, position)
      BY <2>3, SeeingClient DEF Client, Contract!IsRequestAt
    <2>6. position \in 0..shown
      BY <2>1, PositionsAreNumbers DEF IndInv, TypeOK
    <2> QED BY <2>1, <2>2, <2>4, <2>5, <2>6
            DEF Contract!See, Client, ClientOf, Left, InHand, Prompting
  <1> QED BY <1>1, <1>2

\* Queueing the answer is the contract's answer.
LEMMA ReplyAnswerRefines ==
    ASSUME IndInv, ReplyAnswer
    PROVE  Contract!Answer
  <1> DEFINE info == [id |-> RequestAt(seen), event |-> deliveries]
  <1>1. info \in ReplyInfos /\ m_reply_queue' = Append(m_reply_queue, info)
    BY ReplyIsQueued DEF ReplyAnswer, QueueReply
  <1>2. /\ UNCHANGED <<shown, seen, sent, m_halt, delegatee, current,
                       takenAfterHalt>>
        /\ callback = "queue" /\ callback' = "notify"
    BY DEF ReplyAnswer, CallbackMoves, QueueReply
  <1>3. info.id = Contract!IdAt(seen)
    BY DEF RequestAt, Contract!IdAt
  <1> HIDE DEF info
  <1>4. UNCHANGED <<InHand, Left>>
    BY <1>2 DEF InHand, Left
  <1>5. InHand \o Append(m_reply_queue, info) = Append(InHand \o m_reply_queue, info)
    <2>1. <<info>> \in Seq(ReplyInfos)
      BY <1>1
    <2>2. /\ InHand \in Seq(ReplyInfos)
          /\ m_reply_queue \in Seq(ReplyInfos)
          /\ InHand \o m_reply_queue \in Seq(ReplyInfos)
      BY PendingType
    <2>3. /\ Append(m_reply_queue, info) = m_reply_queue \o <<info>>
          /\ Append(InHand \o m_reply_queue, info) =
                (InHand \o m_reply_queue) \o <<info>>
      BY <1>1, <2>2, AppendIsConcat
    <2> QED BY <2>1, <2>2, <2>3, ConcatAssociative
  <1>6. Prompting' = NotPrompting
    BY <1>2 DEF Prompting, NotPrompting
  <1>7. Client' = Contract!AfterAnswer(Client, info)
    <2>1. Client' = ClientOf(seen, NotPrompting,
                             Append(InHand \o m_reply_queue, info))
      BY <1>1, <1>2, <1>4, <1>5, <1>6 DEF Client
    <2> QED BY <2>1, AnsweringClient DEF Client
  <1>8. Contract!CanAnswer(Client, info)
    BY <1>2, <1>3 DEF Contract!CanAnswer, Client, ClientOf, Prompting
  <1> QED BY <1>1, <1>2, <1>4, <1>7, <1>8
          DEF Contract!Answer, Client, ClientOf, Left, InHand, Prompting

\* InterruptAll keeps what is in the hand of the delegatee and drops the rest.
LEMMA DropRepliesRefines ==
    ASSUME IndInv, DropReplies
    PROVE  Contract!Drop
  <1> DEFINE kept == IF delegatee = "taken" THEN 1 ELSE 0
             pending == InHand \o m_reply_queue
  <1>1. /\ UNCHANGED <<shown, seen, sent, m_halt, delegatee, current,
                       takenAfterHalt>>
        /\ m_reply_queue' = <<>>
        /\ callback = "interrupt" /\ callback' \in {"idle", "interrupting"}
    BY DEF DropReplies, CallbackMoves, InterruptAll
  <1>2. /\ InHand \in Seq(ReplyInfos)
        /\ m_reply_queue \in Seq(ReplyInfos)
        /\ pending \in Seq(ReplyInfos)
    BY PendingType
  <1>3. kept \in 0..1 /\ Len(InHand) = kept
    BY DEF InHand
  <1>4. /\ Len(m_reply_queue) \in Nat
        /\ Len(pending) = kept + Len(m_reply_queue)
        /\ \A i \in 1..Len(pending) :
              pending[i] = IF i <= kept THEN InHand[i] ELSE m_reply_queue[i - kept]
    <2>1. Len(m_reply_queue) \in Nat
      BY <1>2, LenProperties
    <2>2. /\ Len(pending) = Len(InHand) + Len(m_reply_queue)
          /\ \A i \in 1..(Len(InHand) + Len(m_reply_queue)) :
                pending[i] = IF i <= Len(InHand) THEN InHand[i]
                             ELSE m_reply_queue[i - Len(InHand)]
      BY <1>2, ConcatProperties
    <2> HIDE DEF pending
    <2> QED BY <1>3, <2>1, <2>2
  <1>5. SubSeq(pending, 1, kept) = InHand
    <2>1. CASE kept = 0
      <3>1. InHand = <<>>
        BY <1>2, <1>3, <2>1, EmptySeq
      <3> QED BY <2>1, <3>1, SubSeqEmpty
    <2>2. CASE kept = 1
      <3>1. 1 \in 1..Len(pending) /\ pending[1] = InHand[1] /\ InHand[1] \in ReplyInfos
        BY <1>2, <1>3, <1>4, <2>2, ElementOfSeq
      <3>2. \A i \in 1..1 : pending[i] \in ReplyInfos
        BY <3>1
      <3>3. /\ SubSeq(pending, 1, 1) \in Seq(ReplyInfos)
            /\ Len(SubSeq(pending, 1, 1)) = 1
            /\ SubSeq(pending, 1, 1)[1] = pending[1]
        <4> HIDE DEF pending
        <4>1. /\ SubSeq(pending, 1, 1) \in Seq(ReplyInfos)
              /\ Len(SubSeq(pending, 1, 1)) = IF 1 <= 1 THEN 1 - 1 + 1 ELSE 0
              /\ \A i \in 1..(1 - 1 + 1) : SubSeq(pending, 1, 1)[i] = pending[1 + i - 1]
          BY <3>2, SubSeqProperties
        <4>2. 1 - 1 + 1 = 1 /\ 1 + 1 - 1 = 1 /\ 1 \in 1..1
          OBVIOUS
        <4> QED BY <4>1, <4>2
      <3>4. SubSeq(pending, 1, 1) = InHand
        <4>1. \A i \in 1..1 : SubSeq(pending, 1, 1)[i] = InHand[i]
          BY <3>1, <3>3
        <4> HIDE DEF pending
        <4> QED BY <1>2, <1>3, <2>2, <3>3, <4>1, SeqEqual
      <3> QED BY <2>2, <3>4
    <2> QED BY <1>3, <2>1, <2>2
  <1>6. UNCHANGED <<InHand, Left>>
    BY <1>1 DEF InHand, Left
  <1>7. Client' = ClientOf(seen, Prompting, InHand)
    <2>1. Prompting' = Prompting
      BY <1>1 DEF Prompting
    <2>2. InHand \o <<>> = InHand
      BY <1>2, ConcatEmptySeq
    <2> QED BY <1>1, <1>6, <2>1, <2>2 DEF Client
  <1>8. Client' = Contract!AfterDropping(Client, kept)
    <2>1. Contract!AfterDropping(Client, kept) =
             ClientOf(seen, Prompting, SubSeq(pending, 1, kept))
      <3> HIDE DEF kept
      <3> QED BY DroppingClient DEF Client
    <2> QED BY <1>5, <1>7, <2>1
  <1>9. \A i \in (kept + 1)..Len(pending) :
           Contract!Position(pending[i].id) < seen
    <2> SUFFICES ASSUME NEW i \in (kept + 1)..Len(pending)
                 PROVE  Contract!Position(pending[i].id) < seen
      OBVIOUS
    <2> DEFINE info == m_reply_queue[i - kept]
    <2>1. i - kept \in 1..Len(m_reply_queue) /\ pending[i] = info
      BY <1>3, <1>4
    <2>2. info \in ReplyInfos
      BY <1>2, <2>1, ElementOfSeq
    <2>3. PositionOf(info.id) \in Nat /\ IsRequest(PositionOf(info.id))
      BY <2>2, RequestsHaveOddPositions DEF ReplyInfos
    <2>4. PositionOf(info.id) \in clearSeen..seen
      BY <2>1 DEF IndInv, RepliesAreCurrent
    <2>5. PositionOf(info.id) /= seen
      BY <1>1, <2>3 DEF IndInv, CallbackInv
    <2>6. seen \in Nat /\ clearSeen \in Nat
      BY PositionsAreNumbers DEF IndInv, TypeOK
    <2> HIDE DEF info, pending
    <2>7. PositionOf(info.id) < seen
      BY <2>3, <2>4, <2>5, <2>6
    <2> QED BY <2>1, <2>7 DEF PositionOf, Contract!Position
  <1>10. Contract!CanDrop(Client, kept)
    BY <1>9 DEF Contract!CanDrop, Client, ClientOf
  <1> HIDE DEF kept, pending
  <1> QED BY <1>1, <1>3, <1>6, <1>8, <1>10
          DEF Contract!Drop, Client, ClientOf, Left, InHand, Prompting

\* What the contract does not see.
LEMMA Stutters ==
    ASSUME UNCHANGED <<shown, Client, sent, m_halt, Left>>
    PROVE  UNCHANGED Contract!vars
  BY DEF Contract!vars, Client, ClientOf, Left, InHand, Prompting

\* Taking a reply moves it from the queue to the hand of the delegatee.
LEMMA TakeReplyStutters ==
    ASSUME IndInv, WaitForWork, TakeReply, UNCHANGED clientVars
    PROVE  UNCHANGED Contract!vars
  <1>1. /\ delegatee = "wait" /\ delegatee' = "taken"
        /\ UNCHANGED <<m_halt, sent, shown, seen, callback>>
        /\ m_reply_queue /= <<>>
        /\ current' = Head(m_reply_queue)
        /\ m_reply_queue' = Tail(m_reply_queue)
        /\ takenAfterHalt' = takenAfterHalt + (IF m_halt THEN 1 ELSE 0)
    BY DEF WaitForWork, TakeReply, clientVars
  <1>2. m_reply_queue \in Seq(ReplyInfos)
    BY PendingType
  <1>3. InHand = <<>> /\ InHand' = <<Head(m_reply_queue)>>
    BY <1>1 DEF InHand
  <1>4. /\ InHand \o m_reply_queue = m_reply_queue
        /\ InHand' \o m_reply_queue' = m_reply_queue
    <2>1. InHand \o m_reply_queue = m_reply_queue
      BY <1>2, <1>3, ConcatEmptySeq
    <2>2. Len(m_reply_queue) \in Nat \ {0}
      BY <1>1, <1>2, EmptySeq
    <2>3. /\ SubSeq(m_reply_queue, 1, Len(m_reply_queue)) =
                <<m_reply_queue[1]>> \o SubSeq(m_reply_queue, 2, Len(m_reply_queue))
          /\ SubSeq(m_reply_queue, 1, Len(m_reply_queue)) = m_reply_queue
      <3>1. 1 \in 1..Len(m_reply_queue) /\ Len(m_reply_queue) \in 1..Len(m_reply_queue)
            /\ 1 + 1 = 2
        BY <2>2
      <3> QED BY <1>2, <3>1, SubSeqRecursiveFirst, SubSeqFull
    <2>4. Tail(m_reply_queue) = SubSeq(m_reply_queue, 2, Len(m_reply_queue))
      BY <1>1, <1>2, TailIsSubSeq
    <2>5. Head(m_reply_queue) = m_reply_queue[1]
      BY <1>1, <1>2
    <2> QED BY <1>1, <1>3, <2>1, <2>3, <2>4, <2>5
  <1>5. Left' = Left
    <2>1. takenAfterHalt = 0
      BY <1>1 DEF IndInv, HaltInv
    <2> QED BY <1>1, <2>1 DEF Left
  <1>6. Client' = Client
    <2>1. Prompting' = Prompting
      BY <1>1 DEF Prompting
    <2> QED BY <1>1, <1>4, <2>1 DEF Client
  <1> QED BY <1>1, <1>5, <1>6, Stutters

\* Calling m_reply_func is the sending of the contract.
LEMMA SendReplyRefines ==
    ASSUME IndInv, SendReply, UNCHANGED clientVars
    PROVE  Contract!Send
  <1>1. /\ delegatee = "taken" /\ delegatee' = "sending"
        /\ UNCHANGED <<m_reply_queue, m_halt, takenAfterHalt, shown, seen,
                       callback>>
        /\ sent' = Append(sent, current)
    BY DEF SendReply, clientVars
  <1>2. m_reply_queue \in Seq(ReplyInfos) /\ current \in ReplyInfos
    BY <1>1, PendingType DEF IndInv, ActiveReplyIsCurrent
  <1>3. InHand = <<current>> /\ InHand' = <<>>
    BY <1>1 DEF InHand
  <1>4. /\ InHand \o m_reply_queue /= <<>>
        /\ Head(InHand \o m_reply_queue) = current
        /\ Tail(InHand \o m_reply_queue) = m_reply_queue
        /\ InHand' \o m_reply_queue' = m_reply_queue
    <2> DEFINE p == <<current>> \o m_reply_queue
    <2>1. <<current>> \in Seq(ReplyInfos) /\ Len(<<current>>) = 1
          /\ <<current>>[1] = current
      BY <1>2
    <2>2. /\ p \in Seq(ReplyInfos)
          /\ Len(p) = 1 + Len(m_reply_queue)
          /\ \A i \in 1..(1 + Len(m_reply_queue)) :
                p[i] = IF i <= 1 THEN <<current>>[i] ELSE m_reply_queue[i - 1]
      BY <1>2, <2>1, ConcatProperties
    <2>3. Len(m_reply_queue) \in Nat
      BY <1>2, LenProperties
    <2> HIDE DEF p
    <2>4. p /= <<>> /\ p[1] = current
      BY <2>1, <2>2, <2>3
    <2>5. /\ Head(p) = current
          /\ Tail(p) \in Seq(ReplyInfos)
          /\ Len(Tail(p)) = Len(m_reply_queue)
          /\ \A i \in 1..Len(Tail(p)) : Tail(p)[i] = p[i + 1]
      BY <2>2, <2>3, <2>4, HeadTailProperties
    <2>6. \A i \in 1..Len(m_reply_queue) : p[i + 1] = m_reply_queue[i]
      BY <2>2, <2>3
    <2>7. Tail(p) = m_reply_queue
      BY <1>2, <2>5, <2>6, SeqEqual
    <2>8. InHand' \o m_reply_queue' = m_reply_queue
      BY <1>1, <1>2, <1>3, ConcatEmptySeq
    <2> QED BY <1>3, <2>4, <2>5, <2>7, <2>8 DEF p
  <1>5. Client' = Contract!AfterSending(Client)
    <2>1. Prompting' = Prompting
      BY <1>1 DEF Prompting
    <2>2. Client' = ClientOf(seen, Prompting, m_reply_queue)
      BY <1>1, <1>4, <2>1 DEF Client
    <2> QED BY <1>4, <2>2, SendingClient DEF Client
  <1>6. Contract!CanSend(Client) /\ Head(Client.pending) = current
    BY <1>4 DEF Contract!CanSend, Client, ClientOf
  <1>7. /\ m_halt => Left > 0
        /\ Left' = IF m_halt THEN Left - 1 ELSE Left
    <2>1. takenAfterHalt \in 0..1
      BY DEF IndInv, HaltInv
    <2> QED BY <1>1, <2>1 DEF Left
  <1> QED BY <1>1, <1>5, <1>6, <1>7
          DEF Contract!Send, Client, ClientOf, Left, InHand, Prompting

\* Halt is that of the contract.
LEMMA HaltRefines ==
    ASSUME IndInv, HaltDelegator
    PROVE  Contract!Halt
  <1>1. /\ UNCHANGED <<m_reply_queue, delegatee, current, sent, takenAfterHalt,
                       shown, seen, callback>>
        /\ m_halt' = TRUE /\ owner = "halt"
    BY DEF HaltDelegator, OwnerMoves, Halt
  <1>2. ~ m_halt /\ takenAfterHalt = 0
    BY <1>1 DEF IndInv, HaltInv
  <1>3. Left' \in 1..2
    BY <1>1, <1>2 DEF Left
  <1>4. Client' = Client
    BY <1>1 DEF Client, InHand, Prompting
  <1> QED BY <1>1, <1>2, <1>3, <1>4
          DEF Contract!Halt, Client, ClientOf, Left, InHand, Prompting

\* The other steps are none of the contract's.
LEMMA OtherSteps ==
    ASSUME IndInv,
           \/ UserAnswers \/ NotifyAnswer \/ InterruptReturns
           \/ WakeWithoutCause /\ UNCHANGED clientVars
           \/ DestroyClientPVs \/ NotifyHalt \/ Join
           \/ /\ UNCHANGED clientVars
              /\ \/ WaitForWork /\ (EndWhenHalted \/ Sleep)
                 \/ ReplySent \/ FinishReply
    PROVE  UNCHANGED Contract!vars
  <1>1. /\ UNCHANGED <<shown, seen, sent, m_halt, m_reply_queue, current,
                       takenAfterHalt>>
        /\ delegatee' = "taken" <=> delegatee = "taken"
    BY DEF UserAnswers, NotifyAnswer, InterruptReturns, WakeWithoutCause,
           clientVars, delegatorVars, DestroyClientPVs, NotifyHalt, Join,
           CallbackMoves, OwnerMoves, NotifyOne, InterruptFuncReturns,
           WaitForWork, EndWhenHalted, Sleep, ReplySent, FinishReply
  <1>2. UNCHANGED <<InHand, Left>>
    BY <1>1 DEF InHand, Left
  <1>3. \/ callback' = callback
        \/ callback = "prompt" /\ callback' = "queue"
        \/ callback \in {"notify", "interrupting"} /\ callback' = "idle"
    BY DEF UserAnswers, NotifyAnswer, InterruptReturns, WakeWithoutCause,
           clientVars, DestroyClientPVs, NotifyHalt, Join, CallbackMoves,
           OwnerMoves
  <1>4. Prompting' = Prompting
    <2>1. CASE callback' = callback
      BY <2>1 DEF Prompting
    <2>2. CASE callback = "prompt" /\ callback' = "queue"
      <3>1. Prompting = TRUE /\ Prompting' = TRUE
        BY <2>2 DEF Prompting
      <3> QED BY <3>1
    <2>3. CASE callback \in {"notify", "interrupting"} /\ callback' = "idle"
      <3>1. Prompting = FALSE /\ Prompting' = FALSE
        BY <2>3 DEF Prompting
      <3> QED BY <3>1
    <2> QED BY <1>3, <2>1, <2>2, <2>3
  <1>5. Client' = Client
    BY <1>1, <1>2, <1>4 DEF Client
  <1> QED BY <1>1, <1>2, <1>5, Stutters

\* The callback, the delegatee and the destructor of a client implement the
\* contract for any number of requests and deliveries: a reply leaves once and in
\* order, only replies to cleared requests are dropped, and a halted client sends
\* two replies at most.
THEOREM Refinement == Spec => ImplementsContract
  <1>1. IndInv /\ [Next]_vars => [Contract!Next]_(Contract!vars)
    <2> SUFFICES ASSUME IndInv, [Next]_vars
                 PROVE  Contract!Next \/ UNCHANGED Contract!vars
      OBVIOUS
    <2>1. CASE ServerUpdates \/ \E position \in Positions : Deliver(position)
      BY <2>1, MonitorRefines, ContractVars
    <2>2. CASE ReplyAnswer
      BY <2>2, ReplyAnswerRefines, ContractVars
    <2>3. CASE DropReplies
      BY <2>3, DropRepliesRefines, ContractVars
    <2>4. CASE Delegatee
      BY <2>4, TakeReplyStutters, SendReplyRefines, OtherSteps, ContractVars
      DEF Delegatee, HandleClientReply, WaitForWork
    <2>5. CASE HaltDelegator
      BY <2>5, HaltRefines, ContractVars
    <2>6. CASE \/ UserAnswers \/ NotifyAnswer \/ InterruptReturns
               \/ WakeWithoutCause /\ UNCHANGED clientVars
               \/ DestroyClientPVs \/ NotifyHalt \/ Join
      BY <2>6, OtherSteps
    <2>7. CASE UNCHANGED vars
      <3>1. /\ UNCHANGED <<shown, sent, m_halt, seen, callback, m_reply_queue,
                           delegatee, current, takenAfterHalt>>
        BY <2>7 DEF vars, delegatorVars, clientVars
      <3> QED BY <3>1, Stutters DEF Client, InHand, Prompting, Left
    <2> QED BY <2>1, <2>2, <2>3, <2>4, <2>5, <2>6, <2>7, NextCases
  <1> QED BY <1>1, ContractInit, IndInvariant, PTL
          DEF Spec, ImplementsContract, Contract!Spec

=============================================================================
