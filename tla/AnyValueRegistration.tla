------------------------- MODULE AnyValueRegistration -------------------------
(***************************************************************************)
(* The registration side of EPICSAnyValueManager                           *)
(* (epics/epics_anyvalue_manager.cpp): threads add sets of named values    *)
(* and input handlers, and update values through the server they find.     *)
(*                                                                         *)
(* Each critical section of m_map_mtx is one step.  AddInputHandler has    *)
(* two of them, and the pointer FindServer returns is used after the lock  *)
(* is gone.  An EPICSServer is known by its position in m_servers.         *)
(***************************************************************************)
EXTENDS Naturals, Sequences, SequencesExt

CONSTANTS
    Threads,
    Names,          \* names of values
    InputServers,   \* names of input servers
    RequestName,    \* GetInputRequestPVName, [InputServers -> Names]
    NameLists,      \* the lists of names AddAnyValues may be called with
    None            \* no call in progress

ASSUME RequestNameAssumption == RequestName \in [InputServers -> Names]
ASSUME NameListsAssumption == NameLists \subseteq Seq(Names)
ASSUME NoneAssumption == None \notin InputServers

Absent == 0

VARIABLES
    m_name_server_map,  \* [Names -> position in m_servers, or Absent]
    m_servers,          \* the names each EPICSServer serves
    m_name_input_server_map,    \* the input servers it has an entry for
    adding,     \* the input server each thread is between the sections for
    found,      \* name and server of an UpdateAnyValue past FindServer
    handlerResults  \* history: what AddInputHandler returned per input server

maps == <<m_name_server_map, m_servers, m_name_input_server_map>>
vars == <<maps, adding, found, handlerResults>>

NotFound == [name |-> None, server |-> Absent]

\* The types: among others, the map never leads past the servers there are.
TypeOK ==
    /\ m_servers \in Seq(SUBSET Names)
    /\ m_name_server_map \in [Names -> {Absent} \cup DOMAIN m_servers]
    /\ m_name_input_server_map \in SUBSET InputServers
    /\ adding \in [Threads -> InputServers \cup {None}]
    /\ found \in [Threads ->
                    [name : Names, server : DOMAIN m_servers] \cup {NotFound}]
    /\ handlerResults \in [InputServers -> SUBSET BOOLEAN]

Init ==
    /\ m_name_server_map = [n \in Names |-> Absent]
    /\ m_servers = <<>>
    /\ m_name_input_server_map = {}
    /\ adding = [t \in Threads |-> None]
    /\ found = [t \in Threads |-> NotFound]
    /\ handlerResults = [s \in InputServers |-> {}]

Idle(t) == adding[t] = None /\ found[t] = NotFound

-----------------------------------------------------------------------------
(* Forms with a plausible bug, used by no action of Spec.                  *)

NoDuplicates(list) == IsInjective(list)

RefuseHalfAdded(list) ==
    LET taken == {i \in DOMAIN list : m_name_server_map[list[i]] /= Absent}
        added == {list[i] : i \in {j \in DOMAIN list : \A k \in taken : j < k}}
    IN  /\ taken /= {}
        /\ m_servers' = Append(m_servers, added)
        /\ m_name_server_map' = [n \in Names |->
              IF n \in added THEN Len(m_servers') ELSE m_name_server_map[n]]

ServePastTheEnd(list) ==
    /\ m_servers' = Append(m_servers, ToSet(list))
    /\ m_name_server_map' = [n \in Names |->
          IF n \in ToSet(list) THEN Len(m_servers') + 1
          ELSE m_name_server_map[n]]

IgnoreResult(s, result) ==
    handlerResults' = [handlerResults EXCEPT ![s] = @ \cup {TRUE}]

-----------------------------------------------------------------------------

\* ValidateNameValueSet: the names of the list differ and none is in the map.
ValidateNameValueSet(list) ==
    /\ IsInjective(list)
    /\ \A n \in ToSet(list) : m_name_server_map[n] = Absent

\* AddAnyValuesImpl past the validation.
Serve(list) ==
    /\ m_servers' = Append(m_servers, ToSet(list))
    /\ m_name_server_map' = [n \in Names |->
          IF n \in ToSet(list) THEN Len(m_servers') ELSE m_name_server_map[n]]

\* AddAnyValuesImpl that returns false.
Refuse(list) ==
    /\ ~ ValidateNameValueSet(list)
    /\ UNCHANGED <<m_servers, m_name_server_map>>

AddAnyValues(t, list) ==
    /\ Idle(t)
    /\ \/ ValidateNameValueSet(list) /\ Serve(list)
       \/ Refuse(list)
    /\ UNCHANGED <<m_name_input_server_map, adding, found, handlerResults>>

Return(s, result) ==
    handlerResults' = [handlerResults EXCEPT ![s] = @ \cup {result}]

\* AddInputHandler, first section: returns false for a known server.
AddInputServer(t, s) ==
    /\ Idle(t)
    /\ IF s \in m_name_input_server_map
       THEN /\ Return(s, FALSE)
            /\ UNCHANGED <<m_name_input_server_map, adding>>
       ELSE /\ m_name_input_server_map' = m_name_input_server_map \cup {s}
            /\ adding' = [adding EXCEPT ![t] = s]
            /\ UNCHANGED handlerResults
    /\ UNCHANGED <<m_name_server_map, m_servers, found>>

\* Second section: the request variable.  If it is refused the entry of the
\* first section stays.
AddRequestVariable(t) ==
    /\ adding[t] /= None
    /\ LET list == <<RequestName[adding[t]]>>
       IN  \/ /\ ValidateNameValueSet(list)
              /\ Serve(list)
              /\ Return(adding[t], TRUE)
           \/ /\ Refuse(list)
              /\ Return(adding[t], FALSE)
    /\ adding' = [adding EXCEPT ![t] = None]
    /\ UNCHANGED <<m_name_input_server_map, found>>

\* UpdateAnyValue: the lookup.  For an unknown name it returns false.
FindServer(t, name) ==
    /\ Idle(t)
    /\ m_name_server_map[name] /= Absent
    /\ found' = [found EXCEPT ![t] =
                    [name |-> name, server |-> m_name_server_map[name]]]
    /\ UNCHANGED <<maps, adding, handlerResults>>

\* UpdateAnyValue of the server that was found, and the return.
UpdateFound(t) ==
    /\ found[t] /= NotFound
    /\ found' = [found EXCEPT ![t] = NotFound]
    /\ UNCHANGED <<maps, adding, handlerResults>>

Next ==
    \E t \in Threads :
       \/ \E list \in NameLists : AddAnyValues(t, list)
       \/ \E s \in InputServers : AddInputServer(t, s)
       \/ AddRequestVariable(t)
       \/ \E name \in Names : FindServer(t, name)
       \/ UpdateFound(t)

Spec == Init /\ [][Next]_vars

-----------------------------------------------------------------------------

\* No two EPICSServers serve the same name, and the map leads to the one that
\* serves it: a second PvAccessServer with that channel would be ambiguous for
\* every client.
EachNameServedOnce ==
    \A i \in DOMAIN m_servers :
        {n \in Names : m_name_server_map[n] = i} = m_servers[i]

\* A list of names is registered as a whole, or not at all (i_anyvalue_io.h,
\* AddAnyValues), whatever other threads register at the same time.
AddsAllOrNothing ==
    [][LET added == {n \in Names :
                        m_name_server_map'[n] /= m_name_server_map[n]}
       IN  added /= {} =>
             \/ \E list \in NameLists :
                   IsInjective(list) /\ added = ToSet(list)
             \/ \E s \in InputServers : added = {RequestName[s]}]_vars

\* The server FindServer returned is still the one of the name when the update
\* reaches it, although m_map_mtx was released in between.
FoundServerIsCurrent ==
    \A t \in Threads :
        found[t] /= NotFound =>
            m_name_server_map[found[t].name] = found[t].server

\* After AddInputHandler returned true both lookups of GetUserInput succeed, and
\* the request variable has an EPICSServer of its own.
SuccessfulHandlerIsComplete ==
    \A s \in InputServers :
        TRUE \in handlerResults[s] =>
            /\ s \in m_name_input_server_map
            /\ {RequestName[s]} \in ToSet(m_servers)

\* The types, with what holds between the three maps, the servers and the calls
\* that are between their two critical sections.
IndInv ==
    /\ TypeOK
    /\ EachNameServedOnce
    /\ FoundServerIsCurrent
    /\ SuccessfulHandlerIsComplete
    /\ \A t \in Threads :
          adding[t] /= None => adding[t] \in m_name_input_server_map

\* i_anyvalue_io.h says of AddInputHandler that no handler is instantiated in
\* case of failure.
FailedHandlerIsNotInstantiated ==
    \A s \in InputServers :
        /\ handlerResults[s] = {FALSE}
        /\ \A t \in Threads : adding[t] /= s
        => s \notin m_name_input_server_map

=============================================================================
