------------------------ MODULE UserInputManagerProofs ------------------------
(***************************************************************************)
(* Proofs about UserInputManager, for any sets of servers, calls, replies  *)
(* and threads.                                                            *)
(***************************************************************************)
EXTENDS UserInputManager, SequenceTheorems, TLAPS

\* A call is the pair of its server and its id.
LEMMA CallFields ==
    /\ \A c \in Calls : /\ ServerOf(c) \in Servers
                        /\ IdOf(c) \in Ids
                        /\ c = <<ServerOf(c), IdOf(c)>>
    /\ \A s, id : ServerOf(<<s, id>>) = s /\ IdOf(<<s, id>>) = id
    /\ \A c, d \in Calls :
          ServerOf(c) = ServerOf(d) /\ IdOf(c) = IdOf(d) => c = d
  BY CallsAssumption DEF ServerOf, IdOf

-----------------------------------------------------------------------------
(* Type correctness.                                                       *)

\* The initial values have their types.
LEMMA TypeInit == Init => TypeOK
  BY DEF Init, InputRequestServerInit, TypeOK, InputRequestServerTypeOK

\* Every step keeps the types.
LEMMA TypeStep == TypeOK /\ [Next]_vars => TypeOK'
  <1> SUFFICES ASSUME TypeOK, [Next]_vars
               PROVE  TypeOK'
    OBVIOUS
  <1> USE CallFields DEF TypeOK, InputRequestServerTypeOK, Goto, Push
  <1>1. ASSUME NEW s \in Servers, AddInputServer(s)
        PROVE  TypeOK'
    BY <1>1
    DEF AddInputServer, irsVars, serverVars, historyVars, callVars, pvVars
  <1>2. ASSUME NEW s \in Servers, AddRequestServer(s)
        PROVE  TypeOK'
    BY <1>2
    DEF AddRequestServer, irsVars, serverVars, historyVars, callVars, pvVars
  <1>3. ASSUME NEW s \in Servers, UpdateRequestPV(s)
        PROVE  TypeOK'
    BY <1>3
    DEF UpdateRequestPV, irsVars, serverVars, historyVars, callVars,
        handlerVars
  <1>4. ASSUME NEW c \in Calls, LockUserInput(c)
        PROVE  TypeOK'
    BY <1>4
    DEF LockUserInput, irsVars, serverVars, historyVars, handlerVars, pvVars
  <1>5. ASSUME NEW c \in Calls, FindServers(c)
        PROVE  TypeOK'
    BY <1>5
    DEF FindServers, irsVars, serverVars, historyVars, handlerVars, pvVars
  <1>6. ASSUME NEW c \in Calls, BeginRequest(c)
        PROVE  TypeOK'
    BY <1>6 DEF BeginRequest, InitNewRequest, historyVars, handlerVars, pvVars
  <1>7. ASSUME NEW c \in Calls, PublishRequest(c)
        PROVE  TypeOK'
    BY <1>7 DEF PublishRequest, irsVars, serverVars, historyVars, handlerVars
  <1>8. ASSUME NEW c \in Calls, BlockOnReply(c)
        PROVE  TypeOK'
    BY <1>8
    DEF BlockOnReply, FallAsleep, historyVars, callVars, handlerVars, pvVars
  <1>9. ASSUME NEW c \in Calls, WakeWithoutCause(c)
        PROVE  TypeOK'
    BY <1>9
    DEF WakeWithoutCause, SpuriousWakeup, historyVars, callVars, handlerVars,
        pvVars
  <1>10. ASSUME NEW c \in Calls, ReturnFromWait(c)
         PROVE  TypeOK'
    BY <1>10
    DEF ReturnFromWait, WaitResult, irsVars, serverVars, historyVars,
        handlerVars, pvVars
  <1>11. ASSUME NEW c \in Calls, ClearRequest(c)
         PROVE  TypeOK'
    BY <1>11 DEF ClearRequest, irsVars, serverVars, historyVars, handlerVars
  <1>12. ASSUME NEW c \in Calls, UnlockUserInput(c)
         PROVE  TypeOK'
    BY <1>12
    DEF UnlockUserInput, irsVars, serverVars, historyVars, handlerVars, pvVars
  <1>13. ASSUME NEW t \in Helpers, NEW s \in Servers, NEW id \in Ids,
                NEW reply \in Replies,
                SetClientReply(t, s, id, reply)
         PROVE  TypeOK'
    BY <1>13
    DEF SetClientReply, AcceptClientReply, callVars, handlerVars, pvVars
  <1>14. ASSUME NEW t \in Helpers, NEW s \in Servers, NEW id \in Ids,
                Interrupt(t, s, id)
         PROVE  TypeOK'
    <2>1. interruptCalled' \in SUBSET Calls
      BY <1>14 DEF Interrupt, InterruptRequest
    <2>2. /\ m_interrupt' \in [Servers -> BOOLEAN]
          /\ notifying' \in [Helpers -> Servers \cup {NoServer}]
      <3>1. CASE Interrupts(s, id)
        <4>1. /\ m_interrupt' = [m_interrupt EXCEPT ![s] = TRUE]
              /\ notifying' = [notifying EXCEPT ![t] = s]
          BY <1>14, <3>1 DEF Interrupt, InterruptRequest
        <4>2. m_interrupt' \in [Servers -> BOOLEAN]
          BY <4>1
        <4> QED
          BY <4>1, <4>2
      <3>2. CASE ~ Interrupts(s, id)
        BY <1>14, <3>2 DEF Interrupt, InterruptRequest, Interrupts
      <3> QED
        BY <3>1, <3>2
    <2> QED
      BY <1>14, <2>1, <2>2
      DEF Interrupt, InterruptRequest, callVars, handlerVars, pvVars
  <1>15. ASSUME NEW t \in Helpers, Notify(t)
         PROVE  TypeOK'
    BY <1>15 DEF Notify, NotifyOne, historyVars, callVars, handlerVars, pvVars
  <1>16. CASE UNCHANGED vars
    BY <1>16
    DEF vars, irsVars, serverVars, historyVars, callVars, handlerVars, pvVars
  <1> QED
    BY <1>1, <1>2, <1>3, <1>4, <1>5, <1>6, <1>7, <1>8, <1>9, <1>10, <1>11,
       <1>12, <1>13, <1>14, <1>15, <1>16 DEF Next, CallStep

\* Type correctness of the manager for every value of the constants.
THEOREM TypeCorrect == Spec => []TypeOK
  BY TypeInit, TypeStep, PTL DEF Spec

-----------------------------------------------------------------------------
(* The inductive invariant: TypeOK alone does not say which call the state *)
(* of a server belongs to.  The other conjuncts tie m_request_id, m_reply  *)
(* and m_interrupt to the one call that holds m_user_input_mtx.            *)

\* Every step keeps the inductive invariant.  In each case, the conjuncts over
\* variables the action leaves alone come first.
LEMMA IndStep == IndInv /\ [Next]_vars => IndInv'
  <1> SUFFICES ASSUME IndInv, [Next]_vars
               PROVE  IndInv'
    OBVIOUS
  <1> USE CallFields, InvalidReplyAssumption, NoServerAssumption,
          NoCallAssumption
      DEF TypeOK, InputRequestServerTypeOK, Goto, InGetUserInput, Returned,
          IsValid
  <1>0. TypeOK'
    BY TypeStep DEF IndInv
  <1>1. ASSUME UNCHANGED <<irsVars, callVars>>
        PROVE  IndInv'
    <2>1. /\ HoldsMutex'
          /\ RequestNotOverwritten'
          /\ SleeperWaits'
          /\ NotBegunIsFresh'
          /\ CurrentIsCall'
          /\ ReplyIsOfCurrent'
          /\ AcceptedIsStored'
          /\ InterruptIsOfCurrent'
      BY <1>1
      DEF IndInv, HoldsMutex, RequestNotOverwritten, SleeperWaits,
          NotBegunIsFresh, CurrentIsCall, ReplyIsOfCurrent, AcceptedIsStored,
          InterruptIsOfCurrent, irsVars, serverVars, historyVars, callVars
    <2>2. /\ ReturnedIsAnswered'
          /\ ResultAtReturn'
          /\ ReplyIsOwn'
          /\ OneReplyPerCall'
          /\ FailureHasCause'
          /\ AcceptedIsReturnedAtOnce'
          /\ NoLostWakeup'
      BY <1>1
      DEF IndInv, ReturnedIsAnswered, ResultAtReturn, ReplyIsOwn,
          OneReplyPerCall, FailureHasCause, AcceptedIsReturnedAtOnce,
          NoLostWakeup, ReplyOrInterrupt, irsVars, serverVars, historyVars,
          callVars
    <2> QED
      BY <1>0, <2>1, <2>2 DEF IndInv
  <1>2. ASSUME NEW c \in Calls, LockUserInput(c)
        PROVE  IndInv'
    <2>1. /\ CurrentIsCall'
          /\ ReplyIsOfCurrent'
          /\ AcceptedIsStored'
          /\ InterruptIsOfCurrent'
          /\ ReplyIsOwn'
          /\ OneReplyPerCall'
          /\ NoLostWakeup'
      BY <1>2
      DEF IndInv, CurrentIsCall, ReplyIsOfCurrent, AcceptedIsStored,
          InterruptIsOfCurrent, ReplyIsOwn, OneReplyPerCall, NoLostWakeup,
          ReplyOrInterrupt, LockUserInput, irsVars, serverVars, historyVars
    <2>2. HoldsMutex'
      BY <1>2
      DEF IndInv, HoldsMutex, LockUserInput, irsVars, serverVars, historyVars
    <2>3. RequestNotOverwritten'
      BY <1>2
      DEF IndInv, RequestNotOverwritten, LockUserInput, irsVars, serverVars,
          historyVars
    <2>4. SleeperWaits'
      BY <1>2
      DEF IndInv, SleeperWaits, LockUserInput, irsVars, serverVars,
          historyVars
    <2>5. NotBegunIsFresh'
      BY <1>2
      DEF IndInv, NotBegunIsFresh, LockUserInput, irsVars, serverVars,
          historyVars
    <2>6. ReturnedIsAnswered'
      BY <1>2
      DEF IndInv, ReturnedIsAnswered, LockUserInput, irsVars, serverVars,
          historyVars
    <2>7. ResultAtReturn'
      BY <1>2
      DEF IndInv, ResultAtReturn, LockUserInput, irsVars, serverVars,
          historyVars
    <2>8. FailureHasCause'
      BY <1>2
      DEF IndInv, FailureHasCause, LockUserInput, irsVars, serverVars,
          historyVars
    <2>9. AcceptedIsReturnedAtOnce'
      BY <1>2
      DEF IndInv, AcceptedIsReturnedAtOnce, LockUserInput, irsVars,
          serverVars, historyVars
    <2> QED
      BY <1>0, <2>1, <2>2, <2>3, <2>4, <2>5, <2>6, <2>7, <2>8, <2>9 DEF IndInv
  <1>3. ASSUME NEW c \in Calls, FindServers(c)
        PROVE  IndInv'
    <2>1. /\ CurrentIsCall'
          /\ ReplyIsOfCurrent'
          /\ AcceptedIsStored'
          /\ InterruptIsOfCurrent'
          /\ ReplyIsOwn'
          /\ OneReplyPerCall'
          /\ NoLostWakeup'
      BY <1>3
      DEF IndInv, CurrentIsCall, ReplyIsOfCurrent, AcceptedIsStored,
          InterruptIsOfCurrent, ReplyIsOwn, OneReplyPerCall, NoLostWakeup,
          ReplyOrInterrupt, FindServers, irsVars, serverVars, historyVars
    <2>2. HoldsMutex'
      BY <1>3
      DEF IndInv, HoldsMutex, FindServers, irsVars, serverVars, historyVars
    <2>3. RequestNotOverwritten'
      BY <1>3
      DEF IndInv, RequestNotOverwritten, FindServers, irsVars, serverVars,
          historyVars
    <2>4. SleeperWaits'
      BY <1>3
      DEF IndInv, SleeperWaits, FindServers, irsVars, serverVars, historyVars
    <2>5. NotBegunIsFresh'
      BY <1>3
      DEF IndInv, NotBegunIsFresh, FindServers, irsVars, serverVars,
          historyVars
    <2>6. ReturnedIsAnswered'
      BY <1>3
      DEF IndInv, NotBegunIsFresh, ReturnedIsAnswered, FindServers, irsVars,
          serverVars, historyVars
    <2>7. ResultAtReturn'
      <3>1. pc' = [pc EXCEPT ![c] = "init"] \/ pc' = [pc EXCEPT ![c] = "unlock"]
        BY <1>3 DEF FindServers
      <3>2. /\ pc[c] = "find"
            /\ UNCHANGED <<accepted, interruptCalled, result>>
        BY <1>3 DEF FindServers, irsVars, historyVars
      <3> QED
        BY <3>1, <3>2 DEF IndInv, NotBegunIsFresh, ResultAtReturn
    <2>8. FailureHasCause'
      BY <1>3
      DEF IndInv, FailureHasCause, FindServers, irsVars, serverVars,
          historyVars
    <2>9. AcceptedIsReturnedAtOnce'
      <3>1. pc' = [pc EXCEPT ![c] = "init"] \/ pc' = [pc EXCEPT ![c] = "unlock"]
        BY <1>3 DEF FindServers
      <3>2. /\ pc[c] = "find"
            /\ UNCHANGED <<accepted, interruptCalled, result>>
        BY <1>3 DEF FindServers, irsVars, historyVars
      <3> QED
        BY <3>1, <3>2 DEF IndInv, NotBegunIsFresh, AcceptedIsReturnedAtOnce
    <2> QED
      BY <1>0, <2>1, <2>2, <2>3, <2>4, <2>5, <2>6, <2>7, <2>8, <2>9 DEF IndInv
  <1>4. ASSUME NEW c \in Calls, BeginRequest(c)
        PROVE  IndInv'
    <2>1. /\ ReplyIsOwn'
          /\ OneReplyPerCall'
      BY <1>4
      DEF IndInv, ReplyIsOwn, OneReplyPerCall, BeginRequest, InitNewRequest,
          historyVars
    <2>2. HoldsMutex'
      BY <1>4 DEF IndInv, HoldsMutex, BeginRequest, InitNewRequest, historyVars
    <2>3. RequestNotOverwritten'
      BY <1>4
      DEF IndInv, HoldsMutex, RequestNotOverwritten, BeginRequest,
          InitNewRequest
    <2>4. SleeperWaits'
      BY <1>4
      DEF IndInv, SleeperWaits, BeginRequest, InitNewRequest, historyVars
    <2>5. NotBegunIsFresh'
      BY <1>4
      DEF IndInv, NotBegunIsFresh, BeginRequest, InitNewRequest, historyVars
    <2>6. CurrentIsCall'
      <3>1. /\ ServerOf(c) \in Servers
            /\ <<ServerOf(c), IdOf(c)>> \in Calls
        BY CallFields
      <3> QED
        BY <1>4, <3>1 DEF IndInv, CurrentIsCall, BeginRequest, InitNewRequest
    <2>7. ReplyIsOfCurrent'
      BY <1>4
      DEF IndInv, ReplyIsOfCurrent, BeginRequest, InitNewRequest, historyVars
    <2>8. AcceptedIsStored'
      BY <1>4
      DEF IndInv, NotBegunIsFresh, AcceptedIsStored, BeginRequest,
          InitNewRequest, historyVars
    <2>9. InterruptIsOfCurrent'
      BY <1>4
      DEF IndInv, InterruptIsOfCurrent, BeginRequest, InitNewRequest,
          historyVars
    <2>10. ReturnedIsAnswered'
      BY <1>4
      DEF IndInv, ReturnedIsAnswered, BeginRequest, InitNewRequest,
          historyVars
    <2>11. ResultAtReturn'
      BY <1>4
      DEF IndInv, ResultAtReturn, BeginRequest, InitNewRequest, historyVars
    <2>12. FailureHasCause'
      BY <1>4
      DEF IndInv, FailureHasCause, BeginRequest, InitNewRequest, historyVars
    <2>13. AcceptedIsReturnedAtOnce'
      BY <1>4
      DEF IndInv, AcceptedIsReturnedAtOnce, BeginRequest, InitNewRequest,
          historyVars
    <2>14. NoLostWakeup'
      BY <1>4
      DEF IndInv, NoLostWakeup, BeginRequest, InitNewRequest, historyVars,
          ReplyOrInterrupt
    <2> QED
      BY <1>0, <2>1, <2>2, <2>3, <2>4, <2>5, <2>6, <2>7, <2>8, <2>9, <2>10,
         <2>11, <2>12, <2>13, <2>14
      DEF IndInv
  <1>5. ASSUME NEW c \in Calls, PublishRequest(c)
        PROVE  IndInv'
    <2>1. /\ CurrentIsCall'
          /\ ReplyIsOfCurrent'
          /\ AcceptedIsStored'
          /\ InterruptIsOfCurrent'
          /\ ReplyIsOwn'
          /\ OneReplyPerCall'
          /\ NoLostWakeup'
      BY <1>5
      DEF IndInv, CurrentIsCall, ReplyIsOfCurrent, AcceptedIsStored,
          InterruptIsOfCurrent, ReplyIsOwn, OneReplyPerCall, NoLostWakeup,
          ReplyOrInterrupt, PublishRequest, irsVars, serverVars, historyVars
    <2>2. HoldsMutex'
      BY <1>5
      DEF IndInv, HoldsMutex, PublishRequest, irsVars, serverVars, historyVars
    <2>3. RequestNotOverwritten'
      BY <1>5
      DEF IndInv, RequestNotOverwritten, PublishRequest, irsVars, serverVars,
          historyVars
    <2>4. SleeperWaits'
      BY <1>5
      DEF IndInv, SleeperWaits, PublishRequest, irsVars, serverVars,
          historyVars
    <2>5. NotBegunIsFresh'
      BY <1>5
      DEF IndInv, NotBegunIsFresh, PublishRequest, irsVars, serverVars,
          historyVars
    <2>6. ReturnedIsAnswered'
      BY <1>5
      DEF IndInv, ReturnedIsAnswered, PublishRequest, irsVars, serverVars,
          historyVars
    <2>7. ResultAtReturn'
      BY <1>5
      DEF IndInv, ResultAtReturn, PublishRequest, irsVars, serverVars,
          historyVars
    <2>8. FailureHasCause'
      BY <1>5
      DEF IndInv, FailureHasCause, PublishRequest, irsVars, serverVars,
          historyVars
    <2>9. AcceptedIsReturnedAtOnce'
      BY <1>5
      DEF IndInv, AcceptedIsReturnedAtOnce, PublishRequest, irsVars,
          serverVars, historyVars
    <2> QED
      BY <1>0, <2>1, <2>2, <2>3, <2>4, <2>5, <2>6, <2>7, <2>8, <2>9 DEF IndInv
  <1>6. ASSUME NEW c \in Calls, BlockOnReply(c)
        PROVE  IndInv'
    <2>1. /\ HoldsMutex'
          /\ RequestNotOverwritten'
          /\ NotBegunIsFresh'
          /\ CurrentIsCall'
          /\ ReplyIsOfCurrent'
          /\ AcceptedIsStored'
          /\ InterruptIsOfCurrent'
          /\ ReturnedIsAnswered'
          /\ ResultAtReturn'
          /\ ReplyIsOwn'
          /\ OneReplyPerCall'
          /\ FailureHasCause'
          /\ AcceptedIsReturnedAtOnce'
      BY <1>6
      DEF IndInv, HoldsMutex, RequestNotOverwritten, NotBegunIsFresh,
          CurrentIsCall, ReplyIsOfCurrent, AcceptedIsStored,
          InterruptIsOfCurrent, ReturnedIsAnswered, ResultAtReturn,
          ReplyIsOwn, OneReplyPerCall, FailureHasCause,
          AcceptedIsReturnedAtOnce, BlockOnReply, FallAsleep, historyVars,
          callVars
    <2>2. SleeperWaits'
      BY <1>6
      DEF IndInv, SleeperWaits, BlockOnReply, FallAsleep, historyVars,
          callVars
    <2>3. NoLostWakeup'
      BY <1>6
      DEF IndInv, NoLostWakeup, BlockOnReply, FallAsleep, historyVars,
          callVars, ReplyOrInterrupt
    <2> QED
      BY <1>0, <2>1, <2>2, <2>3 DEF IndInv
  <1>7. ASSUME NEW c \in Calls, WakeWithoutCause(c)
        PROVE  IndInv'
    <2>1. /\ HoldsMutex'
          /\ RequestNotOverwritten'
          /\ NotBegunIsFresh'
          /\ CurrentIsCall'
          /\ ReplyIsOfCurrent'
          /\ AcceptedIsStored'
          /\ InterruptIsOfCurrent'
          /\ ReturnedIsAnswered'
          /\ ResultAtReturn'
          /\ ReplyIsOwn'
          /\ OneReplyPerCall'
          /\ FailureHasCause'
          /\ AcceptedIsReturnedAtOnce'
      BY <1>7
      DEF IndInv, HoldsMutex, RequestNotOverwritten, NotBegunIsFresh,
          CurrentIsCall, ReplyIsOfCurrent, AcceptedIsStored,
          InterruptIsOfCurrent, ReturnedIsAnswered, ResultAtReturn,
          ReplyIsOwn, OneReplyPerCall, FailureHasCause,
          AcceptedIsReturnedAtOnce, WakeWithoutCause, SpuriousWakeup,
          historyVars, callVars
    <2>2. SleeperWaits'
      BY <1>7
      DEF IndInv, SleeperWaits, WakeWithoutCause, SpuriousWakeup, historyVars,
          callVars
    <2>3. NoLostWakeup'
      BY <1>7
      DEF IndInv, NoLostWakeup, WakeWithoutCause, SpuriousWakeup, historyVars,
          callVars, ReplyOrInterrupt
    <2> QED
      BY <1>0, <2>1, <2>2, <2>3 DEF IndInv
  <1>8. ASSUME NEW c \in Calls, ReturnFromWait(c)
        PROVE  IndInv'
    <2>1. /\ CurrentIsCall'
          /\ ReplyIsOfCurrent'
          /\ AcceptedIsStored'
          /\ InterruptIsOfCurrent'
          /\ OneReplyPerCall'
          /\ NoLostWakeup'
      BY <1>8
      DEF IndInv, CurrentIsCall, ReplyIsOfCurrent, AcceptedIsStored,
          InterruptIsOfCurrent, OneReplyPerCall, NoLostWakeup,
          ReplyOrInterrupt, ReturnFromWait, irsVars, serverVars, historyVars
    <2>2. HoldsMutex'
      BY <1>8
      DEF IndInv, HoldsMutex, ReturnFromWait, WaitReturns, WaitResult,
          irsVars, serverVars, historyVars
    <2>3. RequestNotOverwritten'
      BY <1>8
      DEF IndInv, RequestNotOverwritten, ReturnFromWait, WaitReturns,
          WaitResult, irsVars, serverVars, historyVars
    <2>4. SleeperWaits'
      BY <1>8
      DEF IndInv, SleeperWaits, ReturnFromWait, WaitReturns, WaitResult,
          irsVars, serverVars, historyVars
    <2>5. NotBegunIsFresh'
      BY <1>8
      DEF IndInv, NotBegunIsFresh, ReturnFromWait, WaitReturns, WaitResult,
          irsVars, serverVars, historyVars
    <2>6. ReturnedIsAnswered'
      BY <1>8
      DEF IndInv, InterruptIsOfCurrent, ReturnedIsAnswered, ReplyOrInterrupt,
          ReturnFromWait, WaitReturns, irsVars, serverVars, historyVars
    <2>7. ResultAtReturn'
      BY <1>8
      DEF IndInv, ResultAtReturn, ReturnFromWait, WaitReturns, WaitResult,
          irsVars, serverVars, historyVars
    <2>8. ReplyIsOwn'
      BY <1>8
      DEF IndInv, ReplyIsOfCurrent, ReplyIsOwn, ReplyOrInterrupt,
          ReturnFromWait, WaitReturns, WaitResult, irsVars, historyVars
    <2>9. FailureHasCause'
      BY <1>8
      DEF IndInv, RequestNotOverwritten, InterruptIsOfCurrent,
          FailureHasCause, ReplyOrInterrupt, ReturnFromWait, WaitReturns,
          WaitResult, irsVars, historyVars
    <2>10. AcceptedIsReturnedAtOnce'
      BY <1>8
      DEF IndInv, RequestNotOverwritten, ReplyIsOfCurrent, AcceptedIsStored,
          InterruptIsOfCurrent, AcceptedIsReturnedAtOnce, ReturnFromWait,
          WaitResult, irsVars, historyVars
    <2> QED
      BY <1>0, <2>1, <2>2, <2>3, <2>4, <2>5, <2>6, <2>7, <2>8, <2>9, <2>10
      DEF IndInv
  <1>9. ASSUME NEW c \in Calls, ClearRequest(c)
        PROVE  IndInv'
    <2>1. /\ CurrentIsCall'
          /\ ReplyIsOfCurrent'
          /\ AcceptedIsStored'
          /\ InterruptIsOfCurrent'
          /\ ReplyIsOwn'
          /\ OneReplyPerCall'
          /\ NoLostWakeup'
      BY <1>9
      DEF IndInv, CurrentIsCall, ReplyIsOfCurrent, AcceptedIsStored,
          InterruptIsOfCurrent, ReplyIsOwn, OneReplyPerCall, NoLostWakeup,
          ReplyOrInterrupt, ClearRequest, irsVars, serverVars, historyVars
    <2>2. HoldsMutex'
      BY <1>9
      DEF IndInv, HoldsMutex, ClearRequest, irsVars, serverVars, historyVars
    <2>3. RequestNotOverwritten'
      BY <1>9
      DEF IndInv, RequestNotOverwritten, ClearRequest, irsVars, serverVars,
          historyVars
    <2>4. SleeperWaits'
      BY <1>9
      DEF IndInv, SleeperWaits, ClearRequest, irsVars, serverVars, historyVars
    <2>5. NotBegunIsFresh'
      BY <1>9
      DEF IndInv, NotBegunIsFresh, ClearRequest, irsVars, serverVars,
          historyVars
    <2>6. ReturnedIsAnswered'
      BY <1>9
      DEF IndInv, ReturnedIsAnswered, ClearRequest, irsVars, serverVars,
          historyVars
    <2>7. ResultAtReturn'
      BY <1>9
      DEF IndInv, ResultAtReturn, ClearRequest, irsVars, serverVars,
          historyVars
    <2>8. FailureHasCause'
      BY <1>9
      DEF IndInv, FailureHasCause, ClearRequest, irsVars, serverVars,
          historyVars
    <2>9. AcceptedIsReturnedAtOnce'
      BY <1>9
      DEF IndInv, AcceptedIsReturnedAtOnce, ClearRequest, irsVars, serverVars,
          historyVars
    <2> QED
      BY <1>0, <2>1, <2>2, <2>3, <2>4, <2>5, <2>6, <2>7, <2>8, <2>9 DEF IndInv
  <1>10. ASSUME NEW c \in Calls, UnlockUserInput(c)
        PROVE  IndInv'
    <2>1. /\ CurrentIsCall'
          /\ ReplyIsOfCurrent'
          /\ AcceptedIsStored'
          /\ InterruptIsOfCurrent'
          /\ ReplyIsOwn'
          /\ OneReplyPerCall'
          /\ NoLostWakeup'
      BY <1>10
      DEF IndInv, CurrentIsCall, ReplyIsOfCurrent, AcceptedIsStored,
          InterruptIsOfCurrent, ReplyIsOwn, OneReplyPerCall, NoLostWakeup,
          ReplyOrInterrupt, UnlockUserInput, irsVars, serverVars, historyVars
    <2>2. HoldsMutex'
      BY <1>10
      DEF IndInv, HoldsMutex, UnlockUserInput, irsVars, serverVars,
          historyVars
    <2>3. RequestNotOverwritten'
      BY <1>10
      DEF IndInv, RequestNotOverwritten, UnlockUserInput, irsVars, serverVars,
          historyVars
    <2>4. SleeperWaits'
      BY <1>10
      DEF IndInv, SleeperWaits, UnlockUserInput, irsVars, serverVars,
          historyVars
    <2>5. NotBegunIsFresh'
      BY <1>10
      DEF IndInv, NotBegunIsFresh, UnlockUserInput, irsVars, serverVars,
          historyVars
    <2>6. ReturnedIsAnswered'
      BY <1>10
      DEF IndInv, ReturnedIsAnswered, UnlockUserInput, irsVars, serverVars,
          historyVars
    <2>7. ResultAtReturn'
      BY <1>10
      DEF IndInv, ResultAtReturn, UnlockUserInput, irsVars, serverVars,
          historyVars
    <2>8. FailureHasCause'
      BY <1>10
      DEF IndInv, FailureHasCause, UnlockUserInput, irsVars, serverVars,
          historyVars
    <2>9. AcceptedIsReturnedAtOnce'
      BY <1>10
      DEF IndInv, AcceptedIsReturnedAtOnce, UnlockUserInput, irsVars,
          serverVars, historyVars
    <2> QED
      BY <1>0, <2>1, <2>2, <2>3, <2>4, <2>5, <2>6, <2>7, <2>8, <2>9 DEF IndInv
  <1>11. ASSUME NEW t \in Helpers, NEW s \in Servers, NEW id \in Ids,
                NEW reply \in Replies, SetClientReply(t, s, id, reply)
        PROVE  IndInv'
    <2>1. /\ HoldsMutex'
          /\ RequestNotOverwritten'
          /\ SleeperWaits'
          /\ CurrentIsCall'
          /\ InterruptIsOfCurrent'
          /\ ResultAtReturn'
          /\ FailureHasCause'
      BY <1>11
      DEF IndInv, HoldsMutex, RequestNotOverwritten, SleeperWaits,
          CurrentIsCall, InterruptIsOfCurrent, ResultAtReturn,
          FailureHasCause, SetClientReply, AcceptClientReply, callVars
    <2>2. NotBegunIsFresh'
      BY <1>11
      DEF IndInv, NotBegunIsFresh, SetClientReply, AcceptClientReply,
          TakesReply, callVars
    <2>3. ReplyIsOfCurrent'
      BY <1>11
      DEF IndInv, CurrentIsCall, ReplyIsOfCurrent, SetClientReply,
          AcceptClientReply, TakesReply
    <2>4. AcceptedIsStored'
      BY <1>11
      DEF IndInv, AcceptedIsStored, SetClientReply, AcceptClientReply,
          TakesReply, callVars
    <2>5. ReturnedIsAnswered'
      BY <1>11
      DEF IndInv, ReturnedIsAnswered, SetClientReply, AcceptClientReply,
          TakesReply, callVars
    <2>6. ReplyIsOwn'
      <3>1. result' = result
        BY <1>11 DEF SetClientReply, callVars
      <3>2. /\ accepted \in [Calls -> SUBSET Replies]
            /\ accepted' = [accepted EXCEPT ![<<s, id>>] = @ \cup {reply}]
        BY <1>11 DEF IndInv, SetClientReply, AcceptClientReply
      <3>3. \A c \in Calls : accepted[c] \subseteq accepted'[c]
        BY ONLY <3>2
      <3>4. \A c \in Calls : IsValid(result[c]) => result[c] \in accepted[c]
        BY DEF IndInv, ReplyIsOwn
      <3> QED
        BY <3>1, <3>3, <3>4 DEF ReplyIsOwn
    <2>7. OneReplyPerCall'
      BY <1>11, <1>0
      DEF IndInv, AcceptedIsStored, OneReplyPerCall, SetClientReply,
          AcceptClientReply, TakesReply
    <2>8. AcceptedIsReturnedAtOnce'
      BY <1>11
      DEF IndInv, ReturnedIsAnswered, AcceptedIsReturnedAtOnce,
          SetClientReply, AcceptClientReply, TakesReply, callVars
    <2>9. NoLostWakeup'
      BY <1>11
      DEF IndInv, NoLostWakeup, SetClientReply, AcceptClientReply, TakesReply,
          callVars, ReplyOrInterrupt
    <2> QED
      BY <1>0, <2>1, <2>2, <2>3, <2>4, <2>5, <2>6, <2>7, <2>8, <2>9 DEF IndInv
  <1>12. ASSUME NEW t \in Helpers, NEW s \in Servers, NEW id \in Ids,
                Interrupt(t, s, id)
        PROVE  IndInv'
    <2>1. /\ HoldsMutex'
          /\ RequestNotOverwritten'
          /\ SleeperWaits'
          /\ ResultAtReturn'
          /\ ReplyIsOwn'
          /\ OneReplyPerCall'
      BY <1>12
      DEF IndInv, HoldsMutex, RequestNotOverwritten, SleeperWaits,
          ResultAtReturn, ReplyIsOwn, OneReplyPerCall, Interrupt,
          InterruptRequest, callVars
    <2>2. /\ NotBegunIsFresh'
          /\ CurrentIsCall'
          /\ ReplyIsOfCurrent'
          /\ AcceptedIsStored'
      <3>1. UNCHANGED <<pc, accepted, m_request_id, m_reply>>
        BY <1>12 DEF Interrupt, InterruptRequest, callVars
      <3>2. /\ NotBegunIsFresh
            /\ CurrentIsCall
            /\ ReplyIsOfCurrent
            /\ AcceptedIsStored
        BY DEF IndInv
      <3> QED
        BY ONLY <3>1, <3>2
        DEF NotBegunIsFresh, CurrentIsCall, ReplyIsOfCurrent,
            AcceptedIsStored, ServerOf, IdOf, IsValid
    <2>3. InterruptIsOfCurrent'
      BY <1>12
      DEF IndInv, InterruptIsOfCurrent, Interrupt, InterruptRequest,
          Interrupts, callVars
    <2>4. ReturnedIsAnswered'
      BY <1>12
      DEF IndInv, ReturnedIsAnswered, Interrupt, InterruptRequest, Interrupts,
          callVars
    <2>5. FailureHasCause'
      BY <1>12
      DEF IndInv, FailureHasCause, Interrupt, InterruptRequest, Interrupts,
          callVars
    <2>6. AcceptedIsReturnedAtOnce'
      BY <1>12
      DEF IndInv, AcceptedIsReturnedAtOnce, Interrupt, InterruptRequest,
          Interrupts, callVars
    <2>7. NoLostWakeup'
      BY <1>12
      DEF IndInv, NoLostWakeup, Interrupt, InterruptRequest, Interrupts,
          callVars, ReplyOrInterrupt
    <2> QED
      BY <1>0, <2>1, <2>2, <2>3, <2>4, <2>5, <2>6, <2>7 DEF IndInv
  <1>13. ASSUME NEW t \in Helpers, Notify(t)
        PROVE  IndInv'
    <2>1. /\ HoldsMutex'
          /\ RequestNotOverwritten'
          /\ NotBegunIsFresh'
          /\ CurrentIsCall'
          /\ ReplyIsOfCurrent'
          /\ AcceptedIsStored'
          /\ InterruptIsOfCurrent'
          /\ ReturnedIsAnswered'
          /\ ResultAtReturn'
          /\ ReplyIsOwn'
          /\ OneReplyPerCall'
          /\ FailureHasCause'
          /\ AcceptedIsReturnedAtOnce'
      BY <1>13
      DEF IndInv, HoldsMutex, RequestNotOverwritten, NotBegunIsFresh,
          CurrentIsCall, ReplyIsOfCurrent, AcceptedIsStored,
          InterruptIsOfCurrent, ReturnedIsAnswered, ResultAtReturn,
          ReplyIsOwn, OneReplyPerCall, FailureHasCause,
          AcceptedIsReturnedAtOnce, Notify, NotifyOne, historyVars, callVars
    <2>2. SleeperWaits'
      BY <1>13
      DEF IndInv, SleeperWaits, Notify, NotifyOne, historyVars, callVars
    <2>3. NoLostWakeup'
      BY <1>13
      DEF IndInv, RequestNotOverwritten, SleeperWaits, NoLostWakeup,
          ReplyOrInterrupt, Notify, NotifyOne
    <2> QED
      BY <1>0, <2>1, <2>2, <2>3 DEF IndInv
  <1> QED
    BY <1>1, <1>2, <1>3, <1>4, <1>5, <1>6, <1>7, <1>8, <1>9, <1>10, <1>11,
       <1>12, <1>13
    DEF Next, CallStep, AddInputServer, AddRequestServer, UpdateRequestPV, vars

\* The inductive invariant holds initially.
LEMMA IndInit == Init => IndInv
  <1> SUFFICES ASSUME Init
               PROVE  IndInv
    OBVIOUS
  <1> USE CallFields DEF Init, InputRequestServerInit
  <1>1. TypeOK
    BY TypeInit
  <1>2. /\ HoldsMutex
        /\ RequestNotOverwritten
        /\ SleeperWaits
        /\ NotBegunIsFresh
        /\ CurrentIsCall
        /\ ReplyIsOfCurrent
        /\ AcceptedIsStored
    BY DEF HoldsMutex, InGetUserInput, RequestNotOverwritten, SleeperWaits,
           NotBegunIsFresh, CurrentIsCall, ReplyIsOfCurrent, IsValid,
           AcceptedIsStored
  <1>3. /\ InterruptIsOfCurrent
        /\ ReturnedIsAnswered
        /\ ResultAtReturn
        /\ ReplyIsOwn
        /\ OneReplyPerCall
        /\ FailureHasCause
        /\ AcceptedIsReturnedAtOnce
        /\ NoLostWakeup
    BY DEF InterruptIsOfCurrent, ReturnedIsAnswered, Returned, ResultAtReturn,
           ReplyIsOwn, IsValid, OneReplyPerCall, FailureHasCause,
           AcceptedIsReturnedAtOnce, NoLostWakeup
  <1> QED
    BY <1>1, <1>2, <1>3 DEF IndInv

\* The inductive invariant of the manager holds in every reachable state.
THEOREM IndInvariant == Spec => []IndInv
  BY IndInit, IndStep, PTL DEF Spec

\* The reply GetUserInput returns was accepted for this call, no call gets two
\* replies, and the requests of a server do not overwrite each other.
THEOREM RepliesMatchRequests ==
    Spec => [](RequestNotOverwritten /\ ReplyIsOwn /\ OneReplyPerCall)
  <1>1. IndInv => RequestNotOverwritten /\ ReplyIsOwn /\ OneReplyPerCall
    BY DEF IndInv
  <1> QED
    BY <1>1, IndInvariant, PTL

\* A call that waited fails only because this very call was interrupted.
THEOREM FailuresAreInterrupts == Spec => []FailureHasCause
  <1>1. IndInv => FailureHasCause
    BY DEF IndInv
  <1> QED
    BY <1>1, IndInvariant, PTL

\* An accepted reply is returned to its call unless an interrupt comes first.
THEOREM AcceptedRepliesAreReturned == Spec => []AcceptedReplyIsReturned
  <1>1. IndInv => AcceptedReplyIsReturned
    BY DEF IndInv, AcceptedIsReturnedAtOnce, AcceptedReplyIsReturned, Returned
  <1> QED
    BY <1>1, IndInvariant, PTL

\* A sleeping call that could go on has a notification coming.
THEOREM WakeupsAreNotLost == Spec => []NoLostWakeup
  <1>1. IndInv => NoLostWakeup
    BY DEF IndInv
  <1> QED
    BY <1>1, IndInvariant, PTL

-----------------------------------------------------------------------------
(* The request variable.                                                   *)

\* The value the request variable ends up with once its queue is empty.
LastShown(queue, shown) ==
    IF queue = <<>> THEN shown ELSE queue[Len(queue)]

\* A push sets that value.
LEMMA LastShownAfterPush ==
    ASSUME NEW S, NEW queue \in Seq(S), NEW shown, NEW value \in S
    PROVE  LastShown(Append(queue, value), shown) = value
  <1>1. /\ Len(Append(queue, value)) = Len(queue) + 1
        /\ Append(queue, value)[Len(queue) + 1] = value
        /\ Append(queue, value) /= <<>>
    OBVIOUS
  <1> QED
    BY <1>1 DEF LastShown

\* The update thread keeps it.
LEMMA LastShownAfterUpdate ==
    ASSUME NEW S, NEW queue \in Seq(S), queue /= <<>>, NEW shown
    PROVE  LastShown(Tail(queue), Head(queue)) = LastShown(queue, shown)
  <1>1. CASE Tail(queue) = <<>>
    <2>1. Len(queue) /= 0 /\ Len(queue) \in Nat
      OBVIOUS
    <2>2. Len(Tail(queue)) = Len(queue) - 1
      OBVIOUS
    <2>3. Len(Tail(queue)) = 0
      BY <1>1, EmptySeq
    <2>4. \A n \in Nat : n - 1 = 0 => n = 1
      OBVIOUS
    <2>5. Len(queue) = 1
      BY <2>1, <2>2, <2>3, <2>4, Zenon
    <2>6. Head(queue) = queue[Len(queue)]
      BY <2>5
    <2> QED
      BY <1>1, <2>6 DEF LastShown
  <1>2. CASE Tail(queue) /= <<>>
    <2>1. Tail(queue)[Len(Tail(queue))] = queue[Len(queue)]
      BY <1>2
    <2> QED
      BY <1>2, <2>1 DEF LastShown
  <1> QED
    BY <1>1, <1>2

\* NoStaleRequest in terms of LastShown.
LEMMA NoStaleRequestByLast ==
    NoStaleRequest <=>
        \A s \in Servers :
            (\A c \in Calls : ServerOf(c) = s => pc[c] \notin {"wait", "clear"})
                => LastShown(updates[s], requestPV[s]) = Clear
  BY DEF NoStaleRequest, LastShown

\* Every step keeps NoStaleRequest: a request becomes the last value only when
\* its call goes on to wait.
LEMMA NoStaleRequestStep ==
    TypeOK /\ NoStaleRequest /\ [Next]_vars => NoStaleRequest'
  <1> DEFINE Quiet(s) ==
               \A c \in Calls :
                 ServerOf(c) = s => pc[c] \notin {"wait", "clear"}
             Shown(s) == LastShown(updates[s], requestPV[s])
  <1> SUFFICES ASSUME TypeOK, NoStaleRequest, [Next]_vars,
                      NEW s \in Servers, Quiet(s)'
               PROVE  Shown(s)' = Clear
    BY DEF NoStaleRequest, LastShown
  <1>1. Quiet(s) => Shown(s) = Clear
    BY NoStaleRequestByLast
  <1>2. pc \in [Calls -> {"idle", "find", "init", "publish", "wait", "clear",
                         "unlock", "done"}]
    BY DEF TypeOK
  <1>3. updates[s] \in Seq(Ids \cup {Clear})
    BY DEF TypeOK
  <1> HIDE DEF Shown
  <1>4. CASE UNCHANGED <<pc, updates, requestPV>>
    BY <1>1, <1>4 DEF Shown
  <1>5. ASSUME NEW r \in Servers, UpdateRequestPV(r)
        PROVE  Shown(s)' = Clear
    <2>1. Quiet(s)
      BY <1>5 DEF UpdateRequestPV, callVars
    <2>2. CASE r = s
      <3>1. /\ updates[s] /= <<>>
            /\ updates'[s] = Tail(updates[s])
            /\ requestPV'[s] = Head(updates[s])
        BY <1>5, <2>2 DEF UpdateRequestPV, TypeOK
      <3>2. LastShown(Tail(updates[s]), Head(updates[s])) = Shown(s)
        BY <1>3, <3>1, LastShownAfterUpdate DEF Shown
      <3> QED
        BY <1>1, <2>1, <3>1, <3>2 DEF Shown
    <2>3. CASE r /= s
      <3>1. updates'[s] = updates[s] /\ requestPV'[s] = requestPV[s]
        BY <1>5, <2>3 DEF UpdateRequestPV, TypeOK
      <3> QED
        BY <1>1, <2>1, <3>1 DEF Shown
    <2> QED
      BY <2>2, <2>3
  <1>6. ASSUME NEW c \in Calls, PublishRequest(c)
        PROVE  Shown(s)' = Clear
    <2>1. ServerOf(c) /= s
      BY <1>2, <1>6 DEF PublishRequest, Goto
    <2>2. updates'[s] = updates[s] /\ requestPV'[s] = requestPV[s]
      BY <1>6, <2>1, CallFields DEF PublishRequest, Push, TypeOK
    <2>3. Quiet(s)
      BY <1>2, <1>6, <2>1 DEF PublishRequest, Goto
    <2> QED
      BY <1>1, <2>2, <2>3 DEF Shown
  <1>7. ASSUME NEW c \in Calls, ClearRequest(c)
        PROVE  Shown(s)' = Clear
    <2>1. CASE ServerOf(c) = s
      <3>1. updates'[s] = Append(updates[s], Clear)
        BY <1>7, <2>1 DEF ClearRequest, Push, TypeOK
      <3> QED
        BY <1>3, <3>1, LastShownAfterPush DEF Shown
    <2>2. CASE ServerOf(c) /= s
      <3>1. updates'[s] = updates[s] /\ requestPV'[s] = requestPV[s]
        BY <1>7, <2>2, CallFields DEF ClearRequest, Push, TypeOK
      <3>2. Quiet(s)
        BY <1>2, <1>7, <2>2 DEF ClearRequest, Goto
      <3> QED
        BY <1>1, <3>1, <3>2 DEF Shown
    <2> QED
      BY <2>1, <2>2
  <1>8. ASSUME NEW c \in Calls,
               \/ LockUserInput(c)
               \/ FindServers(c)
               \/ BeginRequest(c)
               \/ ReturnFromWait(c)
               \/ UnlockUserInput(c)
        PROVE  Shown(s)' = Clear
    <2>1. UNCHANGED <<updates, requestPV>>
      BY <1>8 DEF LockUserInput, FindServers, BeginRequest, ReturnFromWait,
                  UnlockUserInput, pvVars
    <2>2. /\ pc[c] \notin {"wait", "clear"} \/ pc'[c] \in {"wait", "clear"}
          /\ \A d \in Calls \ {c} : pc'[d] = pc[d]
      BY <1>2, <1>8 DEF LockUserInput, FindServers, BeginRequest,
                        ReturnFromWait, UnlockUserInput, Goto
    <2>3. Quiet(s)
      BY <2>2
    <2> QED
      BY <1>1, <2>1, <2>3 DEF Shown
  <1> QED
    BY <1>4, <1>5, <1>6, <1>7, <1>8
    DEF Next, CallStep, AddInputServer, AddRequestServer, BlockOnReply,
        WakeWithoutCause, SetClientReply, Interrupt, Notify, vars, callVars,
        pvVars

\* The request variable does not end up showing a request nobody waits for.
THEOREM RequestIsCleared == Spec => []NoStaleRequest
  <1>1. Init => NoStaleRequest
    BY DEF Init, NoStaleRequest
  <1> QED
    BY <1>1, NoStaleRequestStep, TypeCorrect, PTL DEF Spec

-----------------------------------------------------------------------------
(* The cleared value between two requests.                                 *)

\* Of two neighbours in a queue, behind the shown value, one is Clear.
Separated(queue, shown) ==
    /\ queue /= <<>> => shown = Clear \/ queue[1] = Clear
    /\ \A i \in 1..(Len(queue) - 1) :
          queue[i] = Clear \/ queue[i + 1] = Clear

RequestsAreSeparated == \A s \in Servers : Separated(updates[s], requestPV[s])

\* A push may follow the cleared value, or be one.
LEMMA SeparatedAfterPush ==
    ASSUME NEW S, NEW queue \in Seq(S), NEW shown, NEW value \in S,
           Separated(queue, shown),
           LastShown(queue, shown) = Clear \/ value = Clear
    PROVE  Separated(Append(queue, value), shown)
  <1> DEFINE longer == Append(queue, value)
  <1>1. /\ Len(queue) \in Nat
        /\ Len(longer) = Len(queue) + 1
        /\ longer[Len(queue) + 1] = value
        /\ \A i \in 1..Len(queue) : longer[i] = queue[i]
    OBVIOUS
  <1>2. queue = <<>> <=> Len(queue) = 0
    BY EmptySeq
  <1> HIDE DEF longer
  <1>3. shown = Clear \/ longer[1] = Clear
    <2>1. CASE queue = <<>>
      BY <1>1, <1>2, <2>1 DEF LastShown
    <2>2. CASE queue /= <<>>
      <3>1. longer[1] = queue[1]
        BY <1>1, <1>2, <2>2
      <3> QED
        BY <2>2, <3>1 DEF Separated
    <2> QED
      BY <2>1, <2>2
  <1>4. ASSUME NEW i \in 1..(Len(longer) - 1)
        PROVE  longer[i] = Clear \/ longer[i + 1] = Clear
    <2>1. CASE i = Len(queue)
      <3>1. queue /= <<>> /\ longer[i] = queue[Len(queue)]
        BY <1>1, <1>2, <2>1
      <3> QED
        BY <1>1, <2>1, <3>1 DEF LastShown
    <2>2. CASE i /= Len(queue)
      <3>1. i \in 1..(Len(queue) - 1)
        BY <1>1, <2>2
      <3>2. longer[i] = queue[i] /\ longer[i + 1] = queue[i + 1]
        BY <1>1, <3>1
      <3> QED
        BY <3>1, <3>2 DEF Separated
    <2> QED
      BY <2>1, <2>2
  <1> QED
    BY <1>3, <1>4 DEF Separated, longer

\* The update thread moves the queue on.
LEMMA SeparatedAfterUpdate ==
    ASSUME NEW S, NEW queue \in Seq(S), queue /= <<>>, NEW shown,
           Separated(queue, shown)
    PROVE  Separated(Tail(queue), Head(queue))
  <1>1. /\ Len(queue) \in Nat \ {0}
        /\ Head(queue) = queue[1]
        /\ Len(Tail(queue)) = Len(queue) - 1
        /\ \A i \in 1..(Len(queue) - 1) : Tail(queue)[i] = queue[i + 1]
    BY EmptySeq
  <1>2. Tail(queue) = <<>> \/ 1 \in 1..(Len(queue) - 1)
    BY <1>1, EmptySeq
  <1>3. ASSUME Tail(queue) /= <<>>
        PROVE  Head(queue) = Clear \/ Tail(queue)[1] = Clear
    BY <1>1, <1>2, <1>3 DEF Separated
  <1>4. ASSUME NEW i \in 1..(Len(Tail(queue)) - 1)
        PROVE  Tail(queue)[i] = Clear \/ Tail(queue)[i + 1] = Clear
    <2>1. /\ i + 1 \in 1..(Len(queue) - 1)
          /\ i \in 1..(Len(queue) - 1)
      BY <1>1
    <2>2. queue[i + 1] = Clear \/ queue[(i + 1) + 1] = Clear
      BY <2>1 DEF Separated
    <2> QED
      BY <1>1, <2>1, <2>2
  <1> QED
    BY <1>3, <1>4 DEF Separated

\* A request is queued behind the cleared value: its call holds
\* m_user_input_mtx, so that no call of the server waits or is about to clear.
LEMMA PublishFollowsClear ==
    ASSUME TypeOK, HoldsMutex, NoStaleRequest, NEW c \in Calls, PublishRequest(c)
    PROVE  LastShown(updates[ServerOf(c)], requestPV[ServerOf(c)]) = Clear
  <1>1. pc[c] = "publish" /\ m_user_input_mtx = c
    BY DEF PublishRequest, Goto, HoldsMutex, InGetUserInput
  <1>2. \A d \in Calls : pc[d] \notin {"wait", "clear"}
    BY <1>1 DEF HoldsMutex, InGetUserInput
  <1>3. ServerOf(c) \in Servers
    BY CallFields
  <1> QED
    BY <1>2, <1>3, NoStaleRequestByLast

\* Every step keeps the queues separated.
LEMMA RequestsAreSeparatedStep ==
    /\ TypeOK /\ HoldsMutex /\ NoStaleRequest
    /\ RequestsAreSeparated
    /\ [Next]_vars
    => RequestsAreSeparated'
  <1> DEFINE Sep(s) == Separated(updates[s], requestPV[s])
  <1> SUFFICES ASSUME TypeOK, HoldsMutex, NoStaleRequest, [Next]_vars,
                      NEW s \in Servers, Sep(s)
               PROVE  Sep(s)'
    BY DEF RequestsAreSeparated
  <1>1. updates[s] \in Seq(Ids \cup {Clear})
    BY DEF TypeOK
  <1>2. CASE UNCHANGED <<updates, requestPV>>
    BY <1>2
  <1>3. ASSUME NEW r \in Servers, UpdateRequestPV(r)
        PROVE  Sep(s)'
    <2>1. CASE r = s
      <3>1. /\ updates[s] /= <<>>
            /\ updates'[s] = Tail(updates[s])
            /\ requestPV'[s] = Head(updates[s])
        BY <1>3, <2>1 DEF UpdateRequestPV, TypeOK
      <3>2. Separated(Tail(updates[s]), Head(updates[s]))
        BY <1>1, <3>1, SeparatedAfterUpdate
      <3> QED
        BY <3>1, <3>2
    <2>2. CASE r /= s
      BY <1>3, <2>2 DEF UpdateRequestPV, TypeOK
    <2> QED
      BY <2>1, <2>2
  <1>4. ASSUME NEW c \in Calls, PublishRequest(c)
        PROVE  Sep(s)'
    <2>1. CASE ServerOf(c) = s
      <3>1. /\ updates'[s] = Append(updates[s], IdOf(c))
            /\ requestPV'[s] = requestPV[s]
            /\ IdOf(c) \in Ids \cup {Clear}
        BY <1>4, <2>1, CallFields DEF PublishRequest, Push, TypeOK
      <3>2. LastShown(updates[s], requestPV[s]) = Clear
        BY <1>4, <2>1, PublishFollowsClear
      <3>3. Separated(Append(updates[s], IdOf(c)), requestPV[s])
        BY <1>1, <3>1, <3>2, SeparatedAfterPush
      <3> QED
        BY <3>1, <3>3
    <2>2. CASE ServerOf(c) /= s
      BY <1>4, <2>2, CallFields DEF PublishRequest, Push, TypeOK
    <2> QED
      BY <2>1, <2>2
  <1>5. ASSUME NEW c \in Calls, ClearRequest(c)
        PROVE  Sep(s)'
    <2>1. CASE ServerOf(c) = s
      <3>1. /\ updates'[s] = Append(updates[s], Clear)
            /\ requestPV'[s] = requestPV[s]
        BY <1>5, <2>1 DEF ClearRequest, Push, TypeOK
      <3>2. Separated(Append(updates[s], Clear), requestPV[s])
        BY <1>1, SeparatedAfterPush
      <3> QED
        BY <3>1, <3>2
    <2>2. CASE ServerOf(c) /= s
      BY <1>5, <2>2, CallFields DEF ClearRequest, Push, TypeOK
    <2> QED
      BY <2>1, <2>2
  <1> QED
    BY <1>2, <1>3, <1>4, <1>5
    DEF Next, CallStep, AddInputServer, AddRequestServer, LockUserInput,
        FindServers, BeginRequest, BlockOnReply, ReturnFromWait,
        UnlockUserInput, WakeWithoutCause, SetClientReply, Interrupt, Notify,
        vars, callVars, pvVars

\* Clients see the cleared value between two requests of a server: what
\* EPICSIOClientImpl::HandleUserInput takes as the order to drop the first one.
THEOREM ClearSeparatesRequests == Spec => RequestsSeparatedByClear
  <1> DEFINE Inv == TypeOK /\ HoldsMutex /\ NoStaleRequest
  <1>1. Spec => []Inv
    <2>1. IndInv => HoldsMutex
      BY DEF IndInv
    <2> QED
      BY <2>1, TypeCorrect, IndInvariant, RequestIsCleared, PTL
  <1>2. Init => RequestsAreSeparated
    <2>1. ASSUME Init, NEW s \in Servers
          PROVE  Separated(updates[s], requestPV[s])
      <3>1. updates[s] = <<>> /\ Len(updates[s]) = 0
        BY <2>1 DEF Init
      <3>2. 1..(Len(updates[s]) - 1) = {}
        BY <3>1
      <3> QED
        BY <3>1, <3>2 DEF Separated
    <2> QED
      BY <2>1 DEF RequestsAreSeparated
  <1>3. RequestsAreSeparated /\ TypeOK /\ [Next]_vars =>
           [\A s \in Servers :
               requestPV'[s] /= requestPV[s] =>
                  (requestPV[s] = Clear \/ requestPV'[s] = Clear)]_vars
    <2> SUFFICES ASSUME RequestsAreSeparated, TypeOK, Next, NEW s \in Servers,
                        requestPV'[s] /= requestPV[s]
                 PROVE  requestPV[s] = Clear \/ requestPV'[s] = Clear
      OBVIOUS
    <2>1. PICK r \in Servers : UpdateRequestPV(r)
      BY DEF Next, CallStep, AddInputServer, AddRequestServer, LockUserInput,
             FindServers, BeginRequest, PublishRequest, BlockOnReply,
             ReturnFromWait, ClearRequest, UnlockUserInput, WakeWithoutCause,
             SetClientReply, Interrupt, Notify, Push, pvVars
    <2>2. /\ updates[s] /= <<>>
          /\ updates[s] \in Seq(Ids \cup {Clear})
          /\ requestPV'[s] = Head(updates[s])
      BY <2>1 DEF UpdateRequestPV, TypeOK
    <2>3. Head(updates[s]) = updates[s][1]
      BY <2>2
    <2> QED
      BY <2>2, <2>3 DEF RequestsAreSeparated, Separated
  <1>4. Inv /\ RequestsAreSeparated /\ [Next]_vars => RequestsAreSeparated'
    BY RequestsAreSeparatedStep
  <1>5. Spec => []RequestsAreSeparated
    BY <1>1, <1>2, <1>4, PTL DEF Spec
  <1>6. Inv => TypeOK
    OBVIOUS
  <1> HIDE DEF Inv
  <1> QED
    BY <1>1, <1>3, <1>5, <1>6, PTL DEF Spec, RequestsSeparatedByClear

-----------------------------------------------------------------------------
(* Refinement of UserInputContract.                                        *)

\* Nothing was called, answered or interrupted yet.
LEMMA ContractInit == Init => Contract!Init
  BY DEF Init, InputRequestServerInit, Contract!Init, Phase

\* Every step of the manager is a step of the contract or leaves its variables
\* alone: FindServers may Reject, BeginRequest Opens, ReturnFromWait Closes.
LEMMA ContractStep ==
    IndInv /\ [Next]_vars => [Contract!Next]_(Contract!vars)
  <1> DEFINE phase == [c \in Calls |-> Phase(c)]
  <1> SUFFICES ASSUME IndInv, [Next]_vars
               PROVE  Contract!Next \/ UNCHANGED Contract!vars
    OBVIOUS
  <1>0. TypeOK
    BY DEF IndInv
  <1>1. ASSUME UNCHANGED <<pc, accepted, interruptCalled, result>>
        PROVE  UNCHANGED Contract!vars
    BY <1>1 DEF Contract!vars, Phase
  <1>2. ASSUME NEW c \in Calls,
               \/ LockUserInput(c)
               \/ PublishRequest(c)
               \/ ClearRequest(c)
               \/ UnlockUserInput(c)
        PROVE  UNCHANGED Contract!vars
    <2>1. UNCHANGED <<accepted, interruptCalled, result>>
      BY <1>2 DEF LockUserInput, PublishRequest, ClearRequest,
                  UnlockUserInput, irsVars, historyVars
    <2>2. \A d \in Calls : Phase(d)' = Phase(d)
      BY <1>0, <1>2 DEF LockUserInput, PublishRequest, ClearRequest,
                        UnlockUserInput, Goto, Phase, TypeOK
    <2> QED
      BY <2>1, <2>2 DEF Contract!vars
  <1>3. ASSUME NEW c \in Calls, FindServers(c)
        PROVE  Contract!Next \/ UNCHANGED Contract!vars
    <2>1. UNCHANGED <<accepted, interruptCalled, result>>
      BY <1>3 DEF FindServers, irsVars, historyVars
    <2>2. CASE Goto(c, "find", "init")
      <3>1. \A d \in Calls : Phase(d)' = Phase(d)
        BY <1>0, <2>2 DEF Goto, Phase, TypeOK
      <3> QED
        BY <2>1, <3>1 DEF Contract!vars
    <2>3. CASE Goto(c, "find", "unlock")
      <3>1. phase[c] = "idle" /\ phase' = [phase EXCEPT ![c] = "closed"]
        BY <1>0, <2>3 DEF Goto, Phase, TypeOK
      <3>2. Contract!Reject(c)
        BY <2>1, <3>1 DEF Contract!Reject
      <3> QED
        BY <3>2 DEF Contract!Next
    <2> QED
      BY <1>3, <2>2, <2>3 DEF FindServers
  <1>4. ASSUME NEW c \in Calls, BeginRequest(c)
        PROVE  Contract!Next
    <2>1. UNCHANGED <<accepted, interruptCalled, result>>
      BY <1>4 DEF BeginRequest, InitNewRequest, historyVars
    <2>2. phase[c] = "idle" /\ phase' = [phase EXCEPT ![c] = "open"]
      BY <1>0, <1>4 DEF BeginRequest, Goto, Phase, TypeOK
    <2>3. ASSUME NEW d \in Calls
          PROVE  phase[d] /= "open"
      <3>1. pc[c] = "init" /\ m_user_input_mtx = c
        BY <1>4 DEF IndInv, BeginRequest, Goto, HoldsMutex, InGetUserInput
      <3>2. pc[d] \notin {"publish", "wait"}
        BY <3>1 DEF IndInv, HoldsMutex, InGetUserInput
      <3> QED
        BY <3>2 DEF Phase
    <2>4. Contract!Open(c)
      BY <2>1, <2>2, <2>3 DEF Contract!Open
    <2> QED
      BY <2>4 DEF Contract!Next
  <1>5. ASSUME NEW c \in Calls, ReturnFromWait(c)
        PROVE  Contract!Next
    <2>1. /\ UNCHANGED <<accepted, interruptCalled>>
          /\ result' = [result EXCEPT ![c] = WaitResult(c)]
          /\ pc[c] = "wait"
          /\ WaitReturns(c)
      BY <1>5 DEF ReturnFromWait, Goto, irsVars, historyVars
    <2>2. phase[c] = "open" /\ phase' = [phase EXCEPT ![c] = "closed"]
      BY <1>0, <1>5 DEF ReturnFromWait, Goto, Phase, TypeOK
    <2>3. /\ ServerOf(c) \in Servers
          /\ c = <<ServerOf(c), IdOf(c)>>
          /\ m_request_id[ServerOf(c)] = IdOf(c)
      BY <2>1, CallFields DEF IndInv, RequestNotOverwritten
    <2>4. CASE IdOf(c) = NoId \/ m_interrupt[ServerOf(c)]
      <3>1. WaitResult(c) = InvalidReply
        BY <2>4 DEF WaitResult
      <3>2. c \in interruptCalled \/ IdOf(c) = NoId
        BY <2>3, <2>4 DEF IndInv, InterruptIsOfCurrent
      <3>3. Contract!Close(c)
        BY <2>1, <2>2, <3>1, <3>2 DEF Contract!Close
      <3> QED
        BY <3>3 DEF Contract!Next
    <2>5. CASE ~ (IdOf(c) = NoId \/ m_interrupt[ServerOf(c)])
      <3>1. WaitResult(c) = m_reply[ServerOf(c)]
        BY <2>5 DEF WaitResult
      <3>2. IsValid(m_reply[ServerOf(c)])
        BY <2>1, <2>5 DEF WaitReturns, ReplyOrInterrupt
      <3>3. m_reply[ServerOf(c)] \in accepted[c]
        BY <2>3, <3>2 DEF IndInv, ReplyIsOfCurrent
      <3>4. Contract!Close(c)
        BY <2>1, <2>2, <3>1, <3>3 DEF Contract!Close
      <3> QED
        BY <3>4 DEF Contract!Next
    <2> QED
      BY <2>4, <2>5
  <1>6. ASSUME NEW t \in Helpers, NEW s \in Servers, NEW id \in Ids,
               NEW reply \in Replies, SetClientReply(t, s, id, reply)
        PROVE  Contract!Next
    <2> DEFINE c == <<s, id>>
    <2>1. /\ id /= NoId
          /\ m_request_id[s] = id
          /\ ~ IsValid(m_reply[s])
          /\ UNCHANGED <<pc, interruptCalled, result>>
          /\ accepted' = [accepted EXCEPT ![c] = @ \cup {reply}]
      BY <1>6 DEF SetClientReply, AcceptClientReply, TakesReply, callVars
    <2>2. c \in Calls /\ ServerOf(c) = s /\ IdOf(c) = id
      BY <2>1, CallFields DEF IndInv, CurrentIsCall
    <2> HIDE DEF c
    <2>3. accepted[c] = {}
      BY <2>1, <2>2 DEF IndInv, AcceptedIsStored
    <2>4. accepted' = [accepted EXCEPT ![c] = {reply}]
      BY <2>1, <2>3
    <2>5. Phase(c) = "open" \/ (Phase(c) = "closed" /\ c \in interruptCalled)
      <3>1. pc[c] \notin {"idle", "find", "init"}
        BY <2>1, <2>2 DEF IndInv, NotBegunIsFresh
      <3>2. pc[c] \in Returned => c \in interruptCalled
        BY <2>1, <2>2 DEF IndInv, ReturnedIsAnswered
      <3>3. CASE pc[c] \in {"publish", "wait"}
        BY <3>3 DEF Phase
      <3>4. CASE pc[c] \in Returned
        BY <3>2, <3>4 DEF Phase, Returned
      <3> QED
        BY <1>0, <2>2, <3>1, <3>3, <3>4 DEF Returned, TypeOK
    <2>6. phase' = phase
      BY <2>1 DEF Phase
    <2>7. Contract!Accept(c, reply)
      BY <2>1, <2>2, <2>3, <2>4, <2>5, <2>6 DEF Contract!Accept
    <2> QED
      BY <2>2, <2>7 DEF Contract!Next
  <1>7. ASSUME NEW t \in Helpers, NEW s \in Servers, NEW id \in Ids,
               Interrupt(t, s, id)
        PROVE  Contract!Next
    <2>1. /\ <<s, id>> \in Calls
          /\ interruptCalled' = interruptCalled \cup {<<s, id>>}
          /\ UNCHANGED <<pc, accepted, result>>
      BY <1>7 DEF Interrupt, InterruptRequest, callVars
    <2>2. phase' = phase
      BY <2>1 DEF Phase
    <2>3. Contract!Interrupt(<<s, id>>)
      BY <2>1, <2>2 DEF Contract!Interrupt
    <2> QED
      BY <2>1, <2>3 DEF Contract!Next
  <1> QED
    BY <1>1, <1>2, <1>3, <1>4, <1>5, <1>6, <1>7
    DEF Next, CallStep, AddInputServer, AddRequestServer, UpdateRequestPV,
        BlockOnReply, FallAsleep, WakeWithoutCause, SpuriousWakeup, Notify,
        NotifyOne, vars, irsVars, historyVars, callVars

\* GetUserInput implements the contract: one call at a time, one reply at most
\* for each call, returned unless the call was interrupted.
THEOREM Refinement == Spec => ImplementsContract
  BY ContractInit, ContractStep, IndInvariant, PTL
  DEF Spec, ImplementsContract, Contract!Spec

=============================================================================
