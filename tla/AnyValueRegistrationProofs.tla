---------------------- MODULE AnyValueRegistrationProofs ----------------------
(***************************************************************************)
(* Proofs about AnyValueRegistration, for any threads, names, lists of     *)
(* names and input servers.                                                *)
(***************************************************************************)
EXTENDS AnyValueRegistration, SequenceTheorems, TLAPS

\* The names a list may have.
LEMMA ListsOfNames ==
    ASSUME NEW list \in Seq(Names)
    PROVE  ToSet(list) \subseteq Names
  BY LenProperties DEF ToSet

\* The list of a request variable.
LEMMA RequestList ==
    ASSUME NEW s \in InputServers
    PROVE  /\ <<RequestName[s]>> \in Seq(Names)
           /\ ToSet(<<RequestName[s]>>) = {RequestName[s]}
           /\ IsInjective(<<RequestName[s]>>)
  <1>1. RequestName[s] \in Names
    BY RequestNameAssumption
  <1>2. DOMAIN <<RequestName[s]>> = {1} /\ <<RequestName[s]>>[1] = RequestName[s]
    OBVIOUS
  <1> QED BY <1>1, <1>2 DEF ToSet, IsInjective

\* What a list that passes the validation changes: a new server for its names,
\* and nothing for any other name or server.
Registered(list) ==
    /\ m_servers' \in Seq(SUBSET Names)
    /\ Len(m_servers) \in Nat
    /\ Len(m_servers') = Len(m_servers) + 1
    /\ \A i \in 1..Len(m_servers) : m_servers'[i] = m_servers[i]
    /\ m_servers'[Len(m_servers')] = ToSet(list)
    /\ \A n \in Names :
          IF n \in ToSet(list)
          THEN m_name_server_map[n] = Absent
               /\ m_name_server_map'[n] = Len(m_servers')
          ELSE m_name_server_map'[n] = m_name_server_map[n]
    /\ m_name_server_map' \in [Names -> {Absent} \cup DOMAIN m_servers']
    /\ DOMAIN m_servers = 1..Len(m_servers)
    /\ DOMAIN m_servers' = 1..Len(m_servers')

\* Serve of a validated list registers it.
LEMMA ServeRegisters ==
    ASSUME TypeOK, NEW list \in Seq(Names), ValidateNameValueSet(list),
           Serve(list)
    PROVE  Registered(list)
  <1>1. ToSet(list) \subseteq Names
    BY ListsOfNames
  <1>2. m_servers \in Seq(SUBSET Names) /\ Len(m_servers) \in Nat
    BY LenProperties DEF TypeOK
  <1>3. m_servers' = Append(m_servers, ToSet(list))
    BY DEF Serve
  <1>4. /\ m_servers' \in Seq(SUBSET Names)
        /\ Len(m_servers') = Len(m_servers) + 1
        /\ \A i \in 1..Len(m_servers) : m_servers'[i] = m_servers[i]
        /\ m_servers'[Len(m_servers) + 1] = ToSet(list)
    BY <1>1, <1>2, <1>3, AppendProperties
  <1>5. /\ DOMAIN m_servers = 1..Len(m_servers)
        /\ DOMAIN m_servers' = 1..Len(m_servers')
    BY <1>2, <1>4, LenProperties
  <1>6. m_name_server_map' = [n \in Names |->
            IF n \in ToSet(list) THEN Len(m_servers') ELSE m_name_server_map[n]]
    BY DEF Serve
  <1>7. \A n \in Names :
          IF n \in ToSet(list)
          THEN m_name_server_map[n] = Absent
               /\ m_name_server_map'[n] = Len(m_servers')
          ELSE m_name_server_map'[n] = m_name_server_map[n]
    BY <1>6 DEF ValidateNameValueSet
  <1>8. m_name_server_map' \in [Names -> {Absent} \cup DOMAIN m_servers']
    <2>1. Len(m_servers') \in DOMAIN m_servers'
      BY <1>2, <1>4, <1>5
    <2>2. DOMAIN m_servers \subseteq DOMAIN m_servers'
      BY <1>2, <1>4, <1>5
    <2>3. m_name_server_map \in [Names -> {Absent} \cup DOMAIN m_servers]
      BY DEF TypeOK
    <2> QED BY <1>6, <2>1, <2>2, <2>3
  <1> QED BY <1>2, <1>4, <1>5, <1>7, <1>8 DEF Registered

\* What is true of the maps and of what was found stays true of it when a list
\* is registered.
LEMMA RegisteredKeeps ==
    ASSUME IndInv, NEW list \in Seq(Names), Registered(list)
    PROVE  /\ EachNameServedOnce'
           /\ DOMAIN m_servers \subseteq DOMAIN m_servers'
           /\ ToSet(m_servers) \subseteq ToSet(m_servers')
           /\ ToSet(list) \in ToSet(m_servers')
           /\ \A n \in Names : m_name_server_map[n] /= Absent
                 => m_name_server_map'[n] = m_name_server_map[n]
  <1>1. /\ DOMAIN m_servers = 1..Len(m_servers)
        /\ DOMAIN m_servers' = 1..Len(m_servers')
        /\ Len(m_servers) \in Nat
        /\ Len(m_servers') = Len(m_servers) + 1
        /\ \A i \in 1..Len(m_servers) : m_servers'[i] = m_servers[i]
        /\ m_servers'[Len(m_servers')] = ToSet(list)
    BY DEF Registered
  <1>2. \A n \in Names :
          IF n \in ToSet(list)
          THEN m_name_server_map[n] = Absent
               /\ m_name_server_map'[n] = Len(m_servers')
          ELSE m_name_server_map'[n] = m_name_server_map[n]
    BY DEF Registered
  <1>3. \A n \in Names : m_name_server_map[n] = Absent
                         \/ m_name_server_map[n] \in 1..Len(m_servers)
    BY <1>1 DEF IndInv, TypeOK
  <1>4. ToSet(list) \subseteq Names
    BY ListsOfNames
  <1>5. ASSUME NEW i \in DOMAIN m_servers'
        PROVE  {n \in Names : m_name_server_map'[n] = i} = m_servers'[i]
    <2>1. CASE i \in DOMAIN m_servers
      <3>1. {n \in Names : m_name_server_map[n] = i} = m_servers[i]
        BY <2>1 DEF IndInv, EachNameServedOnce
      <3>2. i /= Len(m_servers') /\ i /= Absent
        BY <1>1, <2>1 DEF Absent
      <3>3. \A n \in Names :
               m_name_server_map'[n] = i <=> m_name_server_map[n] = i
        BY <1>2, <3>2
      <3> QED BY <1>1, <2>1, <3>1, <3>3
    <2>2. CASE i \notin DOMAIN m_servers
      <3>1. i = Len(m_servers')
        BY <1>1, <2>2
      <3>2. \A n \in Names : m_name_server_map[n] /= i
        BY <1>1, <1>3, <3>1 DEF Absent
      <3>3. \A n \in Names : m_name_server_map'[n] = i <=> n \in ToSet(list)
        BY <1>2, <3>1, <3>2
      <3> QED BY <1>1, <1>4, <3>1, <3>3
    <2> QED BY <2>1, <2>2
  <1>6. DOMAIN m_servers \subseteq DOMAIN m_servers'
    BY <1>1
  <1>7. ToSet(m_servers) \subseteq ToSet(m_servers')
    BY <1>1, <1>6 DEF ToSet
  <1>8. ToSet(list) \in ToSet(m_servers')
    <2>1. Len(m_servers') \in DOMAIN m_servers'
      BY <1>1
    <2> QED BY <1>1, <2>1 DEF ToSet
  <1> QED BY <1>2, <1>5, <1>6, <1>7, <1>8 DEF EachNameServedOnce

-----------------------------------------------------------------------------
(* Every step keeps the invariant.                                         *)

\* Nothing is registered.
LEMMA InvInit == Init => IndInv
  <1> SUFFICES ASSUME Init PROVE IndInv
    OBVIOUS
  <1>1. TypeOK
    <2>1. <<>> \in Seq(SUBSET Names)
      OBVIOUS
    <2> QED BY <2>1 DEF Init, TypeOK
  <1>2. EachNameServedOnce
    BY DEF Init, EachNameServedOnce
  <1>3. FoundServerIsCurrent /\ SuccessfulHandlerIsComplete
    BY DEF Init, FoundServerIsCurrent, SuccessfulHandlerIsComplete
  <1> QED BY <1>1, <1>2, <1>3 DEF Init, IndInv

\* What a call that was found, or a handler that was added, relies on survives a
\* registration.
LEMMA RegistrationStep ==
    ASSUME IndInv, NEW list \in Seq(Names), Registered(list), UNCHANGED found
    PROVE  FoundServerIsCurrent'
  <1>1. \A n \in Names : m_name_server_map[n] /= Absent
            => m_name_server_map'[n] = m_name_server_map[n]
    BY RegisteredKeeps
  <1>2. ASSUME NEW t \in Threads, found'[t] /= NotFound
        PROVE  m_name_server_map'[found'[t].name] = found'[t].server
    <2>1. found'[t] = found[t]
      OBVIOUS
    <2>2. /\ found[t].name \in Names
          /\ found[t].server \in DOMAIN m_servers
          /\ m_name_server_map[found[t].name] = found[t].server
      BY <1>2, <2>1 DEF IndInv, TypeOK, FoundServerIsCurrent
    <2>3. found[t].server /= Absent
      <3>1. DOMAIN m_servers = 1..Len(m_servers)
        BY LenProperties DEF IndInv, TypeOK
      <3> QED BY <2>2, <3>1 DEF Absent
    <2> QED BY <1>1, <2>1, <2>2, <2>3
  <1> QED BY <1>2 DEF FoundServerIsCurrent

\* The calls that were found stay typed when servers are only added.
LEMMA FoundType ==
    ASSUME TypeOK, DOMAIN m_servers \subseteq DOMAIN m_servers',
           UNCHANGED found
    PROVE  found' \in [Threads ->
              [name : Names, server : DOMAIN m_servers'] \cup {NotFound}]
  <1>1. [name : Names, server : DOMAIN m_servers]
            \subseteq [name : Names, server : DOMAIN m_servers']
    OBVIOUS
  <1> QED BY <1>1 DEF TypeOK

\* Returning from AddInputHandler keeps the type of its results.
LEMMA ReturnType ==
    ASSUME TypeOK, NEW s \in InputServers, NEW result \in BOOLEAN,
           Return(s, result)
    PROVE  handlerResults' \in [InputServers -> SUBSET BOOLEAN]
  <1>1. handlerResults[s] \cup {result} \in SUBSET BOOLEAN
    BY DEF TypeOK
  <1>2. handlerResults' = [handlerResults EXCEPT ![s] =
                              handlerResults[s] \cup {result}]
    BY DEF Return
  <1> QED BY <1>1, <1>2 DEF TypeOK

\* AddAnyValues keeps the invariant.
LEMMA AddAnyValuesStep ==
    ASSUME IndInv, NEW t \in Threads, NEW list \in NameLists,
           AddAnyValues(t, list)
    PROVE  IndInv'
  <1>1. list \in Seq(Names)
    BY NameListsAssumption
  <1>2. UNCHANGED <<m_name_input_server_map, adding, found, handlerResults>>
    BY DEF AddAnyValues
  <1>3. CASE ValidateNameValueSet(list) /\ Serve(list)
    <2>1. Registered(list)
      BY <1>1, <1>3, ServeRegisters DEF IndInv
    <2>2. /\ EachNameServedOnce'
          /\ DOMAIN m_servers \subseteq DOMAIN m_servers'
          /\ ToSet(m_servers) \subseteq ToSet(m_servers')
      BY <1>1, <2>1, RegisteredKeeps
    <2>3. FoundServerIsCurrent'
      BY <1>1, <1>2, <2>1, RegistrationStep
    <2>4. TypeOK'
      <3>1. found' \in [Threads ->
                [name : Names, server : DOMAIN m_servers'] \cup {NotFound}]
        BY <1>2, <2>2, FoundType DEF IndInv
      <3> QED BY <1>2, <2>1, <3>1 DEF IndInv, TypeOK, Registered
    <2>5. SuccessfulHandlerIsComplete'
      BY <1>2, <2>2 DEF IndInv, SuccessfulHandlerIsComplete
    <2> QED BY <1>2, <2>2, <2>3, <2>4, <2>5 DEF IndInv
  <1>4. CASE Refuse(list)
    BY <1>2, <1>4 DEF Refuse, IndInv, TypeOK, EachNameServedOnce,
       FoundServerIsCurrent, SuccessfulHandlerIsComplete
  <1> QED BY <1>3, <1>4 DEF AddAnyValues

\* The first section of AddInputHandler keeps the invariant.
LEMMA AddInputServerStep ==
    ASSUME IndInv, NEW t \in Threads, NEW s \in InputServers,
           AddInputServer(t, s)
    PROVE  IndInv'
  <1>1. UNCHANGED <<m_name_server_map, m_servers, found>>
    BY DEF AddInputServer
  <1>2. m_name_input_server_map \subseteq m_name_input_server_map'
    BY DEF AddInputServer
  <1>3. \A r \in InputServers :
           TRUE \in handlerResults'[r] => TRUE \in handlerResults[r]
    BY DEF AddInputServer, Return, IndInv, TypeOK
  <1>4. SuccessfulHandlerIsComplete'
    BY <1>1, <1>2, <1>3 DEF IndInv, SuccessfulHandlerIsComplete
  <1>5. TypeOK'
    <2>1. handlerResults' \in [InputServers -> SUBSET BOOLEAN]
      BY ReturnType DEF AddInputServer, IndInv, TypeOK
    <2>2. /\ m_name_input_server_map' \in SUBSET InputServers
          /\ adding' \in [Threads -> InputServers \cup {None}]
      BY DEF AddInputServer, IndInv, TypeOK
    <2> QED BY <1>1, <2>1, <2>2 DEF IndInv, TypeOK
  <1>6. \A u \in Threads :
           adding'[u] /= None => adding'[u] \in m_name_input_server_map'
    BY DEF AddInputServer, IndInv, TypeOK
  <1> QED BY <1>1, <1>4, <1>5, <1>6 DEF IndInv, EachNameServedOnce,
             FoundServerIsCurrent

\* The second section of AddInputHandler keeps the invariant.
LEMMA AddRequestVariableStep ==
    ASSUME IndInv, NEW t \in Threads, AddRequestVariable(t)
    PROVE  IndInv'
  <1> DEFINE s == adding[t]
             list == <<RequestName[s]>>
  <1>1. /\ s \in InputServers /\ s \in m_name_input_server_map
        /\ adding' = [adding EXCEPT ![t] = None]
        /\ UNCHANGED <<m_name_input_server_map, found>>
    BY DEF AddRequestVariable, IndInv, TypeOK
  <1>2. list \in Seq(Names) /\ ToSet(list) = {RequestName[s]}
    BY <1>1, RequestList
  <1>3. \/ ValidateNameValueSet(list) /\ Serve(list) /\ Return(s, TRUE)
        \/ Refuse(list) /\ Return(s, FALSE)
    BY DEF AddRequestVariable
  <1>4. \A u \in Threads :
           adding'[u] /= None => adding'[u] \in m_name_input_server_map'
    BY <1>1 DEF IndInv, TypeOK
  <1>5. /\ adding' \in [Threads -> InputServers \cup {None}]
        /\ handlerResults' \in [InputServers -> SUBSET BOOLEAN]
    <2>1. adding' \in [Threads -> InputServers \cup {None}]
      BY <1>1 DEF IndInv, TypeOK
    <2> QED BY <1>1, <1>3, <2>1, ReturnType DEF IndInv
  <1> HIDE DEF list
  <1>6. CASE ValidateNameValueSet(list) /\ Serve(list) /\ Return(s, TRUE)
    <2>1. Registered(list)
      BY <1>2, <1>6, ServeRegisters DEF IndInv
    <2>2. /\ EachNameServedOnce'
          /\ DOMAIN m_servers \subseteq DOMAIN m_servers'
          /\ ToSet(m_servers) \subseteq ToSet(m_servers')
          /\ {RequestName[s]} \in ToSet(m_servers')
      BY <1>2, <2>1, RegisteredKeeps
    <2>3. FoundServerIsCurrent'
      BY <1>1, <1>2, <2>1, RegistrationStep
    <2>4. TypeOK'
      <3>1. found' \in [Threads ->
                [name : Names, server : DOMAIN m_servers'] \cup {NotFound}]
        BY <1>1, <2>2, FoundType DEF IndInv
      <3> QED BY <1>1, <1>5, <2>1, <3>1 DEF IndInv, TypeOK, Registered
    <2>5. \A r \in InputServers \ {s} : handlerResults'[r] = handlerResults[r]
      BY <1>6 DEF Return, IndInv, TypeOK
    <2>6. SuccessfulHandlerIsComplete'
      BY <1>1, <2>2, <2>5 DEF IndInv, SuccessfulHandlerIsComplete
    <2> QED BY <1>4, <2>2, <2>3, <2>4, <2>6 DEF IndInv
  <1>7. CASE Refuse(list) /\ Return(s, FALSE)
    <2>1. UNCHANGED <<m_servers, m_name_server_map>>
      BY <1>7 DEF Refuse
    <2>2. \A r \in InputServers :
             TRUE \in handlerResults'[r] => TRUE \in handlerResults[r]
      BY <1>7 DEF Return, IndInv, TypeOK
    <2>3. SuccessfulHandlerIsComplete'
      BY <1>1, <2>1, <2>2 DEF IndInv, SuccessfulHandlerIsComplete
    <2>4. TypeOK'
      BY <1>1, <1>5, <2>1 DEF IndInv, TypeOK
    <2> QED BY <1>1, <1>4, <2>1, <2>3, <2>4 DEF IndInv, EachNameServedOnce,
               FoundServerIsCurrent
  <1> QED BY <1>3, <1>6, <1>7

\* The two steps of UpdateAnyValue keep the invariant.
LEMMA UpdateStep ==
    ASSUME IndInv, NEW t \in Threads,
           (\E name \in Names : FindServer(t, name)) \/ UpdateFound(t)
    PROVE  IndInv'
  <1>1. UNCHANGED <<m_name_server_map, m_servers, m_name_input_server_map,
                    adding, handlerResults>>
    BY DEF FindServer, UpdateFound, maps
  <1>2. CASE UpdateFound(t)
    <2>1. found' = [found EXCEPT ![t] = NotFound]
      BY <1>2 DEF UpdateFound
    <2>2. TypeOK' /\ FoundServerIsCurrent'
      BY <1>1, <2>1 DEF IndInv, TypeOK, FoundServerIsCurrent
    <2> QED BY <1>1, <2>2 DEF IndInv, EachNameServedOnce,
               SuccessfulHandlerIsComplete
  <1>3. ASSUME NEW name \in Names, FindServer(t, name)
        PROVE  IndInv'
    <2> DEFINE call == [name |-> name, server |-> m_name_server_map[name]]
    <2>1. found' = [found EXCEPT ![t] = call]
      BY <1>3 DEF FindServer
    <2>2. m_name_server_map[name] \in DOMAIN m_servers
      BY <1>3 DEF FindServer, IndInv, TypeOK
    <2>3. TypeOK'
      BY <1>1, <2>1, <2>2 DEF IndInv, TypeOK
    <2>4. \A u \in Threads \ {t} : found'[u] = found[u]
      BY <2>1 DEF IndInv, TypeOK
    <2>5. found'[t] = call
      BY <2>1 DEF IndInv, TypeOK
    <2>6. FoundServerIsCurrent'
      BY <1>1, <2>4, <2>5 DEF IndInv, FoundServerIsCurrent
    <2> QED BY <1>1, <2>3, <2>6 DEF IndInv, EachNameServedOnce,
               SuccessfulHandlerIsComplete
  <1> QED BY <1>2, <1>3

\* Every step keeps the invariant.
LEMMA InvStep == IndInv /\ [Next]_vars => IndInv'
  <1> SUFFICES ASSUME IndInv, [Next]_vars PROVE IndInv'
    OBVIOUS
  <1>1. CASE Next
    BY <1>1, AddAnyValuesStep, AddInputServerStep, AddRequestVariableStep,
       UpdateStep DEF Next
  <1>2. CASE UNCHANGED vars
    BY <1>2 DEF vars, maps, IndInv, TypeOK, EachNameServedOnce,
       FoundServerIsCurrent, SuccessfulHandlerIsComplete
  <1> QED BY <1>1, <1>2

-----------------------------------------------------------------------------

\* EPICSAnyValueManager (epics_anyvalue_manager.cpp) keeps its maps, its servers
\* and its calls consistent, whatever is registered by how many threads.
THEOREM IndInvariant == Spec => []IndInv
  BY InvInit, InvStep, PTL DEF Spec

\* No name is ever served by two servers, and the map leads to the one that
\* serves it, also after lists that repeat or overlap were refused.
THEOREM NamesAreServedOnce == Spec => []EachNameServedOnce
  <1>1. IndInv => EachNameServedOnce
    BY DEF IndInv
  <1> QED BY <1>1, IndInvariant, PTL

\* The pointer that FindServer returns stays the server of its name although
\* m_map_mtx is released before it is used.
THEOREM FoundServersAreCurrent == Spec => []FoundServerIsCurrent
  <1>1. IndInv => FoundServerIsCurrent
    BY DEF IndInv
  <1> QED BY <1>1, IndInvariant, PTL

\* An input handler that was reported as added has its request server and the
\* server of its request variable.
THEOREM SuccessfulHandlersAreComplete == Spec => []SuccessfulHandlerIsComplete
  <1>1. IndInv => SuccessfulHandlerIsComplete
    BY DEF IndInv
  <1> QED BY <1>1, IndInvariant, PTL

\* AddAnyValues and AddInputHandler register all names they are given, or none.
THEOREM ListsAreAddedAsAWhole == Spec => AddsAllOrNothing
  <1> DEFINE added == {n \in Names : m_name_server_map'[n] /= m_name_server_map[n]}
             Whole == added /= {} =>
                 \/ \E list \in NameLists :
                       IsInjective(list) /\ added = ToSet(list)
                 \/ \E s \in InputServers : added = {RequestName[s]}
  <1>1. IndInv /\ [Next]_vars => [Whole]_vars
    <2> SUFFICES ASSUME IndInv, Next PROVE Whole
      BY DEF vars, maps
    <2>1. ASSUME NEW list \in Seq(Names), ValidateNameValueSet(list), Serve(list)
          PROVE  added = ToSet(list)
      <3>1. Registered(list) /\ ToSet(list) \subseteq Names
        BY <2>1, ServeRegisters, ListsOfNames DEF IndInv
      <3>2. Len(m_servers') /= Absent
        BY <3>1 DEF Registered, Absent
      <3> QED BY <3>1, <3>2 DEF Registered
    <2>2. ASSUME NEW list, Refuse(list) PROVE added = {}
      BY <2>2 DEF Refuse
    <2>3. ASSUME NEW t \in Threads, NEW list \in NameLists, AddAnyValues(t, list)
          PROVE  Whole
      <3>1. list \in Seq(Names)
        BY NameListsAssumption
      <3> QED BY <2>1, <2>2, <2>3, <3>1 DEF AddAnyValues, ValidateNameValueSet
    <2>4. ASSUME NEW t \in Threads, AddRequestVariable(t)
          PROVE  Whole
      <3>1. adding[t] \in InputServers
        BY <2>4 DEF AddRequestVariable, IndInv, TypeOK
      <3>2. /\ <<RequestName[adding[t]]>> \in Seq(Names)
            /\ ToSet(<<RequestName[adding[t]]>>) = {RequestName[adding[t]]}
        BY <3>1, RequestList
      <3>3. added = {RequestName[adding[t]]} \/ added = {}
        BY <2>1, <2>2, <2>4, <3>2 DEF AddRequestVariable
      <3> QED BY <3>1, <3>3
    <2>5. CASE UNCHANGED m_name_server_map
      BY <2>5
    <2> QED BY <2>3, <2>4, <2>5 DEF Next, AddInputServer, FindServer,
               UpdateFound, maps
  <1> QED BY <1>1, IndInvariant, PTL DEF Spec, AddsAllOrNothing

=============================================================================
