------------------------------- MODULE JobMirror -------------------------------
(***************************************************************************)
(* A job and its mirror: ServerJobInfoIO and its EPICSServers on one side; *)
(* on the other a ClientJob (base/client_job.cpp) whose constructor fills a*)
(* ClientAnyValueManager through InitializeJobAndVariables and             *)
(* InitializeInstructions (base/anyvalue_io_helper.cpp) and starts one     *)
(* monitor per value (EPICSIOClient::AddAnyValues), the callbacks of these *)
(* monitors, and the destructor.  The user input side, which AddInputHandler*)
(* starts between the two sets, is EPICSIOClient.tla.                      *)
(***************************************************************************)
EXTENDS ClientAnyValueManager

CONSTANTS
    Workers,    \* the threads that run monitor callbacks
    NoUpdate    \* a worker that runs no callback

VARIABLES
    stage,      \* where the thread that owns the client job stands
    set,        \* the set it is adding
    done,       \* how many values of the set it has added
    monitors,   \* names with a monitor
    seen,       \* per name, the position of the last value delivered; from the
                \* start that of the initial value, which the constructor tells
    worker      \* per worker, the value its callback was called with

clientVars == <<stage, set, done>>
monitorVars == <<monitors, seen, worker>>
vars == <<serverVars, managerVars, clientVars, monitorVars>>

TypeOK ==
    /\ ServerTypeOK
    /\ ManagerTypeOK
    /\ stage \in {"rpc", "tell", "insert", "monitor", "alive", "destroy",
                  "destroyed", "failed"}
    /\ set \in Sets
    /\ done \in 0..Len(ValueSet[set])
    /\ monitors \in SUBSET Names
    /\ seen \in [Names -> Nat]
    /\ DOMAIN worker = Workers

Init ==
    /\ ServerInit
    /\ ManagerInit
    /\ stage = "rpc"
    /\ set = "job"
    /\ done = 0
    /\ monitors = {}
    /\ seen = [name \in Names |-> 1]
    /\ worker = [w \in Workers |-> NoUpdate]

-----------------------------------------------------------------------------
(* The constructor of ClientJobImpl.                                       *)

Goto(from, to, newSet, newDone) ==
    /\ stage = from
    /\ stage' = to
    /\ set' = newSet
    /\ done' = newDone

More == done < Len(ValueSet[set])
Pair == ValueSet[set][done + 1]

\* The calls of the job manager; one of them may throw (JobControl.tla).
AskServer ==
    /\ \/ Goto("rpc", "tell", "job", 0)
       \/ Goto("rpc", "failed", "job", 0)
    /\ UNCHANGED <<serverVars, managerVars, monitorVars>>

TellInitial ==
    /\ More
    /\ m_cb_map[Pair.name] = NoCallback
    /\ Goto("tell", "insert", set, done)
    /\ TellInitialValue(Pair)
    /\ UNCHANGED <<serverVars, monitorVars>>

Insert ==
    /\ Goto("insert", "tell", set, done + 1)
    /\ AddCallback(Pair)
    /\ UNCHANGED <<serverVars, monitorVars>>

Announce ==
    /\ ~ More
    /\ Goto("tell", "monitor", set, 0)
    /\ TellNumberOfInstructions(ValueSet[set])
    /\ UNCHANGED <<serverVars, monitorVars>>

\* AddMonitorPV of every name of the set, in one step: one that is added later
\* is one that delivers later.
AddMonitorPVs ==
    /\ IF set = "job" THEN Goto("monitor", "tell", "instructions", 0)
       ELSE Goto("monitor", "alive", "job", 0)
    /\ monitors' = monitors \cup NamesOf[set]
    /\ UNCHANGED <<serverVars, managerVars, seen, worker>>

Constructor == TellInitial \/ Insert \/ Announce \/ AddMonitorPVs

-----------------------------------------------------------------------------
(* Monitors (external) and their callbacks.                                *)

Idle(name) == \A w \in Workers : worker[w] /= NoUpdate => worker[w].name /= name

\* A monitor delivers a value no older than the last one, to one callback at a
\* time.  It may skip values, and deliver one again after a reconnection.
Deliver(w, name, position) ==
    /\ name \in monitors
    /\ worker[w] = NoUpdate
    /\ Idle(name)
    /\ position \in 1..Len(shown[name])
    /\ position >= seen[name]
    /\ seen' = [seen EXCEPT ![name] = position]
    /\ worker' = [worker EXCEPT ![w] =
          [name |-> name, update |-> shown[name][position]]]
    /\ UNCHANGED <<serverVars, managerVars, clientVars, monitors>>

\* The callback of AddMonitorPV: a value that can be decoded is passed on.
RunCallback(w) ==
    /\ worker[w] /= NoUpdate
    /\ \E av \in Base64DecodeAnyValue(worker[w].update.value) :
          \/ UpdateFound(worker[w].name, worker[w].update.serial, av)
          \/ UpdateMissed(worker[w].name, worker[w].update.serial,
                          stage = "insert")
    /\ worker' = [worker EXCEPT ![w] = NoUpdate]
    /\ UNCHANGED <<serverVars, clientVars, monitors, seen>>

-----------------------------------------------------------------------------
(* The destructor: m_anyvalue_io and with it the monitors, then m_av_mgr.   *)

\* Forms with a plausible bug, used by no action of Spec.
DestroyMonitorsAtOnce ==
    /\ Goto("alive", "destroy", set, 0)
    /\ monitors' = {}
    /\ UNCHANGED <<serverVars, managerVars, seen, worker>>

\* The destructor of a client variable waits for the end of its callback.
DestroyMonitors ==
    /\ \A name \in monitors : Idle(name)
    /\ Goto("alive", "destroy", set, 0)
    /\ monitors' = {}
    /\ UNCHANGED <<serverVars, managerVars, seen, worker>>

DestroyManager ==
    /\ Goto("destroy", "destroyed", set, 0)
    /\ m_cb_map' = [name \in Names |-> NoCallback]
    /\ UNCHANGED <<serverVars, told, missed, monitorVars>>

-----------------------------------------------------------------------------

Server == ServerNext /\ UNCHANGED <<managerVars, clientVars, monitorVars>>

Next ==
    \/ Server
    \/ AskServer
    \/ Constructor
    \/ \E w \in Workers, name \in Names :
          \E position \in 1..Len(shown[name]) : Deliver(w, name, position)
    \/ \E w \in Workers : RunCallback(w)
    \/ DestroyMonitors
    \/ DestroyManager

Spec == Init /\ [][Next]_vars

\* A monitor has a value it never delivered.
DeliverNew ==
    \E w \in Workers, name \in Names :
       /\ seen[name] < Len(shown[name])
       /\ Deliver(w, name, Len(shown[name]))

\* Every step that frees a worker is RunCallback, which is then enabled.
CallbackReturns(w) ==
    /\ worker[w] /= NoUpdate
    /\ worker' = [worker EXCEPT ![w] = NoUpdate]

\* The server shows what was published and a running callback goes on.  While
\* the connection stands the latest value of every monitor arrives in the end,
\* however often others are delivered again: hence SF.
FairSpec ==
    /\ Spec
    /\ WF_vars(ServerWorks /\ UNCHANGED <<managerVars, clientVars, monitorVars>>)
    /\ \A w \in Workers : WF_worker(CallbackReturns(w))
    /\ SF_vars(DeliverNew)

-----------------------------------------------------------------------------

\* The name of the value an object is reported in.
NameOf == [object \in Objects |->
    CASE object[1] = "JobStateUpdated" -> GetJobStatePVName(m_job_prefix)
      [] object[1] = "BreakpointInstructionUpdated" ->
            GetBreakpointInstructionPVName(m_job_prefix)
      [] object[1] = "Log" -> GetLogEntryName(m_job_prefix)
      [] object[1] = "Message" -> GetMessageEntryName(m_job_prefix)
      [] object[1] = "PutValue" -> GetOutputValueEntryName(m_job_prefix)
      [] object[1] = "VariableUpdated" -> GetVariablePVName(m_job_prefix, object[2])
      [] OTHER -> GetInstructionPVName(m_job_prefix, object[2])]

\* Every monitor has its callback in the map before it exists and for as long
\* as it does, so that a lookup misses only because of a concurrent insertion;
\* and no callback runs for a monitor that is gone.
CallbackIsThere ==
    /\ \A name \in monitors : m_cb_map[name] /= NoCallback
    /\ \A w \in Workers : worker[w] /= NoUpdate => worker[w].name \in monitors

\* What the listener is told when the constructor runs.
InitialArgs(object) ==
    CASE object[1] = "InitNumberOfInstructions" -> <<NInstr>>
      [] object[1] = "BreakpointInstructionUpdated" -> <<kInvalidInstructionIndex>>
      [] object[1] = "Log" -> <<0, 0>>
      [] object[1] = "PutValue" -> <<EmptyValue, 0>>
      [] OTHER -> <<kInitial>>

\* The arguments of a report; the report 0 is the initial value.
ArgsOf(object, serial) ==
    IF serial = 0 THEN InitialArgs(object) ELSE published[object][serial]

\* The listener's calls repeat the calls of the job: the same method, for the
\* same instruction or variable, with the same arguments, after encoding,
\* naming, parsing and decoding on the way.
ToldIsPublished ==
    \A object \in DOMAIN told : \A call \in told[object] :
        call.args = ArgsOf(object, call.serial)

\* The listener is never told an older report after a newer one about the same
\* state, instruction, variable or kind of entry: neither by the initial values
\* of the constructor, nor by skipped or repeated values.
NeverBackwards ==
    [][\A object \in DOMAIN told :
          \A old \in told[object], new \in told'[object] :
             new.serial >= old.serial]_vars

\* Once the destructor of ClientJob has destroyed its monitors nothing is
\* reported to the listener, which is free to go when the destructor returns.
NothingAfterDestruction ==
    [][(stage \in {"destroy", "destroyed"}) => told' = told]_vars

-----------------------------------------------------------------------------
(* The inductive invariant.                                                *)

\* A value leads to the call of the report it was made for, or to none.
Carries(name, serial, value) ==
    \E object \in Objects :
        /\ NameOf[object] = name
        /\ serial \in 0..Len(published[object])
        /\ \A call \in CreateCallback(InfoOf[name], value) :
              call = [object |-> object, args |-> ArgsOf(object, serial)]

ValuesCarryReports ==
    /\ \A s \in Sets : \A i \in DOMAIN updates[s] :
          LET update == updates[s][i]
          IN  /\ update.serial /= 0
              /\ Carries(update.name, update.serial, update.value)
    /\ \A name \in Names : \A i \in DOMAIN shown[name] :
          \E value \in Base64DecodeAnyValue(shown[name][i].value) :
             Carries(name, shown[name][i].serial, value)

\* The reports about an object are queued and shown in their order.
SerialsIncrease ==
    /\ \A name \in Names : \A i, j \in DOMAIN shown[name] :
          i < j => shown[name][i].serial < shown[name][j].serial
    /\ \A s \in Sets : \A i, j \in DOMAIN updates[s] :
          i < j /\ updates[s][i].name = updates[s][j].name
              => updates[s][i].serial < updates[s][j].serial
    /\ \A s \in Sets : \A j \in DOMAIN updates[s] :
          \A i \in DOMAIN shown[updates[s][j].name] :
             shown[updates[s][j].name][i].serial < updates[s][j].serial

\* The values of a set are served together.
ServedTogether ==
    \A s \in Sets : Served(s) \/ \A name \in NamesOf[s] : shown[name] = <<>>

\* A callback runs with the last value delivered of its name.
DeliveredIsSeen ==
    /\ \A name \in Names : seen[name] = 1 \/ seen[name] \in DOMAIN shown[name]
    /\ \A w \in Workers : worker[w] /= NoUpdate =>
          LET name == worker[w].name
          IN  /\ seen[name] \in DOMAIN shown[name]
              /\ worker[w].update = shown[name][seen[name]]
    /\ \A v, w \in Workers :
          /\ worker[v] /= NoUpdate /\ worker[w] /= NoUpdate
          /\ worker[v].name = worker[w].name
          => v = w

\* The listener was last told of a report that was delivered, by a callback; of
\* the number of instructions it is told by the constructor.
ToldIsSeen ==
    /\ \A object \in Objects : \A call \in told[object] : call.serial /= 0 =>
          LET name == NameOf[object]
          IN  /\ m_cb_map[name] /= NoCallback \/ stage = "destroyed"
              /\ seen[name] \in DOMAIN shown[name]
              /\ call.serial \in 1..shown[name][seen[name]].serial
    /\ \A call \in told[<<"InitNumberOfInstructions", 0>>] : call.serial = 0
    /\ \A object \in ListenerObjects : \A c, d \in told[object] : c = d

\* The constructor adds the callbacks of a set, then its monitors.
ConstructorInOrder ==
    /\ stage \in {"tell", "insert"} =>
          \A i \in 1..done : m_cb_map[ValueSet[set][i].name] /= NoCallback
    /\ stage = "insert" => More
    /\ stage = "monitor" => \A name \in NamesOf[set] : m_cb_map[name] /= NoCallback
    /\ stage \in {"destroy", "destroyed"} => monitors = {}

\* The types, the life of a callback, the indices of the entries, and the way of
\* a report from the job to the listener.
IndInv ==
    /\ TypeOK
    /\ CallbackIsThere
    /\ IndexIsSerial
    /\ ValuesCarryReports
    /\ SerialsIncrease
    /\ ServedTogether
    /\ DeliveredIsSeen
    /\ ToldIsSeen
    /\ ConstructorInOrder

-----------------------------------------------------------------------------
(* Liveness, under FairSpec.                                               *)

\* Reports of a variable without a value are ignored by the client.
Ignored(object) ==
    /\ object[1] = "VariableUpdated"
    /\ published[object] = <<>> \/ IsEmptyValue(Last(published[object])[1])

LastIsTold(object) ==
    ~ Ignored(object) =>
        \E call \in told[object] : call.serial = Len(published[object])

\* When the reports of a job end, its mirror settles on the last one of each
\* state, instruction, variable and kind of entry, unless the lookup of its
\* callback missed it.
LastReportIsTold ==
    <>[](stage = "alive" =>
            \A object \in Objects :
                LastIsTold(object) \/ NameOf[object] \in missed)

\* client_job.h says that a client job forwards all updates; this asks for the
\* last one of each.
UpdatesAreForwarded ==
    <>[](stage = "alive" => \A object \in Objects : LastIsTold(object))

=============================================================================
