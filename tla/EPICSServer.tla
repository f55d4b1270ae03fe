------------------------------ MODULE EPICSServer ------------------------------
(***************************************************************************)
(* EPICSServer (epics/epics_server.cpp) and its AnyValueUpdateQueue        *)
(* (epics/anyvalue_update_queue.cpp): any thread queues an update of a     *)
(* value, one asynchronous task shows the updates to the clients, and the  *)
(* destructor stops the task with an exit command.                         *)
(*                                                                         *)
(* Each critical section of the queue is one step; the notify_one after it *)
(* is a step of its own.                                                   *)
(***************************************************************************)
EXTENDS Naturals, Sequences

CONSTANTS
    Names,          \* names of the variables of this server
    Values,
    Initial,        \* the initial value of every variable
    NotServed,      \* what a client sees before the server has started
    Producers,      \* threads that update values
    Owner,          \* the thread that destroys the server
    Exit,           \* the exit command
    MaxUpdates      \* bound on the number of updates

ASSUME InitialAssumption == Initial \in Values /\ NotServed \notin Values
ASSUME OwnerAssumption == Owner \notin Producers
ASSUME ExitAssumption == Exit \notin Names \X Values
ASSUME MaxUpdatesAssumption == MaxUpdates \in Nat

Updates == Names \X Values
Commands == Updates \cup {Exit}
Threads == Producers \cup {Owner}

VARIABLES
    m_value_updates,    \* the queue
    notifying,          \* threads that pushed and still owe the notify_one
    asleep,             \* the task is blocked on the condition variable
    loop,               \* where the task stands in UpdateLoop
    batch,              \* the commands the task swapped out of the queue
    shown,              \* the values of the PvAccessServer
    destruction,        \* where the owner stands
    made,               \* history: number of updates pushed
    processed,          \* history: number of updates shown
    latest              \* history: the last value pushed for each name

queueVars == <<m_value_updates, notifying, asleep>>
taskVars == <<loop, batch, shown, processed>>
vars == <<queueVars, taskVars, destruction, made, latest>>

\* The types; an update is processed once, so processed stays within the bound.
TypeOK ==
    /\ m_value_updates \in Seq(Commands)
    /\ notifying \in SUBSET Threads
    /\ asleep \in BOOLEAN
    /\ loop \in {"start", "wait", "pop", "process", "exited"}
    /\ batch \in Seq(Commands)
    /\ shown \in [Names -> Values \cup {NotServed}]
    /\ destruction \in {"alive", "joining", "destroyed"}
    /\ made \in 0..MaxUpdates
    /\ processed \in 0..MaxUpdates
    /\ latest \in [Names -> Values]

Init ==
    /\ m_value_updates = <<>>
    /\ notifying = {}
    /\ asleep = FALSE
    /\ loop = "start"
    /\ batch = <<>>
    /\ shown = [n \in Names |-> NotServed]
    /\ destruction = "alive"
    /\ made = 0
    /\ processed = 0
    /\ latest = [n \in Names |-> Initial]

-----------------------------------------------------------------------------
(* Forms with a plausible bug, used by no action of Spec.                  *)

PushInFront(t, command) ==
    /\ t \notin notifying
    /\ m_value_updates' = <<command>> \o m_value_updates
    /\ notifying' = notifying \cup {t}
    /\ UNCHANGED <<asleep, taskVars>>

PushToEmptyNotifies(t, command) ==
    /\ t \notin notifying
    /\ m_value_updates' = Append(m_value_updates, command)
    /\ notifying' = IF m_value_updates = <<>> THEN notifying
                    ELSE notifying \cup {t}
    /\ UNCHANGED <<asleep, taskVars>>

ExitDropsBatch == batch /= <<>> /\ batch[Len(batch)] = Exit

PopWithoutSwap ==
    /\ loop = "pop"
    /\ batch' = m_value_updates
    /\ loop' = "process"
    /\ UNCHANGED <<m_value_updates, notifying, asleep, shown, processed>>

PushExitSilently ==
    /\ destruction = "alive"
    /\ notifying = {}
    /\ m_value_updates' = Append(m_value_updates, Exit)
    /\ destruction' = "joining"
    /\ UNCHANGED <<notifying, asleep, taskVars, made, latest>>

-----------------------------------------------------------------------------
(* AnyValueUpdateCommand: an update of a value, or the exit command.       *)

CreateValueUpdate(channel, value) == <<channel, value>>
CreateExitCommand == Exit
GetCommandType(command) == IF command = Exit THEN "kExit" ELSE "kUpdate"
Name(command) == command[1]
Value(command) == command[2]

-----------------------------------------------------------------------------
(* AnyValueUpdateQueue.                                                    *)

\* Push and PushExit up to the unlock.
Push(t, command) ==
    /\ t \notin notifying
    /\ m_value_updates' = Append(m_value_updates, command)
    /\ notifying' = notifying \cup {t}
    /\ UNCHANGED <<asleep, taskVars>>

\* notify_one: only the task ever waits.
Notify(t) ==
    /\ t \in notifying
    /\ notifying' = notifying \ {t}
    /\ asleep' = FALSE
    /\ UNCHANGED <<m_value_updates, taskVars, destruction, made, latest>>

\* WaitForNonEmpty checks its predicate: it returns, or falls asleep.
WaitForNonEmpty ==
    /\ loop = "wait"
    /\ ~ asleep
    /\ IF m_value_updates /= <<>>
       THEN loop' = "pop" /\ UNCHANGED asleep
       ELSE asleep' = TRUE /\ UNCHANGED loop
    /\ UNCHANGED <<m_value_updates, notifying, batch, shown, processed>>

SpuriousWakeup ==
    /\ asleep
    /\ asleep' = FALSE
    /\ UNCHANGED <<m_value_updates, notifying, taskVars>>

\* PopCommands swaps the whole queue out.
PopCommands ==
    /\ loop = "pop"
    /\ batch' = m_value_updates
    /\ m_value_updates' = <<>>
    /\ loop' = "process"
    /\ UNCHANGED <<notifying, asleep, shown, processed>>

-----------------------------------------------------------------------------
(* EPICSServer.                                                            *)

\* UpdateAnyValue by any thread that may still use the server.
UpdateAnyValue(t, n, v) ==
    /\ destruction = "alive"
    /\ made < MaxUpdates
    /\ Push(t, CreateValueUpdate(n, v))
    /\ made' = made + 1
    /\ latest' = [latest EXCEPT ![n] = v]
    /\ UNCHANGED destruction

\* The task adds the variables with their initial values and starts serving.
StartServer ==
    /\ loop = "start"
    /\ shown' = [n \in Names |-> Initial]
    /\ loop' = "wait"
    /\ UNCHANGED <<queueVars, batch, processed>>

\* The exit command is reached: what is left of the batch is dropped.
ExitReached == batch /= <<>> /\ GetCommandType(Head(batch)) = "kExit"

\* One round of the loop of ProcessCommandQueue, or its end.
ProcessCommand ==
    /\ loop = "process"
    /\ \/ /\ ExitReached
          /\ loop' = "exited"
          /\ batch' = <<>>
          /\ UNCHANGED <<shown, processed>>
       \/ /\ ~ ExitReached
          /\ batch /= <<>>
          /\ shown' = [shown EXCEPT ![Name(Head(batch))] = Value(Head(batch))]
          /\ processed' = processed + 1
          /\ batch' = Tail(batch)
          /\ UNCHANGED loop
       \/ /\ batch = <<>>
          /\ loop' = "wait"
          /\ UNCHANGED <<batch, shown, processed>>
    /\ UNCHANGED queueVars

\* The destructor, called when no thread uses the server any more.
PushExit ==
    /\ destruction = "alive"
    /\ notifying = {}
    /\ Push(Owner, CreateExitCommand)
    /\ destruction' = "joining"
    /\ UNCHANGED <<made, latest>>

\* The destructor of m_update_future waits for the end of the task.
Join ==
    /\ destruction = "joining"
    /\ Owner \notin notifying
    /\ loop = "exited"
    /\ destruction' = "destroyed"
    /\ UNCHANGED <<queueVars, taskVars, made, latest>>

Task ==
    /\ StartServer \/ WaitForNonEmpty \/ PopCommands \/ ProcessCommand
    /\ UNCHANGED <<destruction, made, latest>>

Next ==
    \/ \E t \in Producers, n \in Names, v \in Values : UpdateAnyValue(t, n, v)
    \/ \E t \in Threads : Notify(t)
    \/ Task
    \/ SpuriousWakeup /\ UNCHANGED <<destruction, made, latest>>
    \/ PushExit
    \/ Join

Spec == Init /\ [][Next]_vars

\* The task and the threads inside a call keep running.
FairSpec ==
    /\ Spec
    /\ WF_vars(Task)
    /\ WF_vars(Join)
    /\ \A t \in Threads : WF_vars(Notify(t))

-----------------------------------------------------------------------------

\* The commands the task has not processed, what it swapped out first.
Pending == batch \o m_value_updates

\* The exit command is queued and not reached.
ExitAwaited == destruction /= "alive" /\ loop /= "exited"

\* The updates not shown yet: nothing is queued behind the exit command.
PendingUpdates ==
    IF ExitAwaited THEN SubSeq(Pending, 1, Len(Pending) - 1) ELSE Pending

\* The task sleeps over a non-empty queue only if a notification is coming.
NoLostWakeup == asleep /\ m_value_updates /= <<>> => notifying /= {}

\* The exit command is queued once, as the last of all.
ExitIsLast ==
    /\ ExitAwaited => Pending /= <<>>
    /\ \A i \in 1..Len(Pending) :
           Pending[i] = Exit <=> ExitAwaited /\ i = Len(Pending)

\* The task holds commands only while it processes them, and it ends with
\* nothing left to do.
TaskInv ==
    /\ loop /= "process" => batch = <<>>
    /\ loop = "exited" => destruction /= "alive" /\ Pending = <<>>
    /\ destruction = "destroyed" => loop = "exited"
    /\ IF loop = "start" THEN shown = [n \in Names |-> NotServed]
       ELSE shown \in [Names -> Values]

\* Every update is either shown or waiting.
NoUpdateIsLost == processed + Len(PendingUpdates) = made

\* The last update of a name is the last one of it that waits; when none waits,
\* it is the value shown.
LastUpdateWins ==
    \A n \in Names :
        \/ /\ \A i \in 1..Len(PendingUpdates) : Name(PendingUpdates[i]) /= n
           /\ latest[n] = IF loop = "start" THEN Initial ELSE shown[n]
        \/ \E i \in 1..Len(PendingUpdates) :
               /\ PendingUpdates[i] = <<n, latest[n]>>
               /\ \A j \in 1..Len(PendingUpdates) :
                      j > i => Name(PendingUpdates[j]) /= n

\* The types with all that holds between queue, task and destructor: no command
\* is lost, doubled or queued behind the exit command.
IndInv ==
    /\ TypeOK
    /\ ExitIsLast
    /\ TaskInv
    /\ NoUpdateIsLost
    /\ LastUpdateWins

\* Shutting down loses no update: at the end of the task every variable has the
\* value of its last update.
FinalValuesAreLatest == loop = "exited" => shown = latest

\* The queue as its callers see it.
FIFO == INSTANCE UpdateFIFO WITH pending <- PendingUpdates

\* Updates are shown one by one in the order of the calls, also over the
\* batches the task swaps out.
ImplementsFIFO == FIFO!Spec

\* Every update is shown, whether or not the server is being destroyed.
UpdatesAreShown == \A k \in 1..MaxUpdates : made >= k ~> processed >= k

\* The destructor returns: its exit command ends the task.
DestructorReturns == destruction = "joining" ~> destruction = "destroyed"

=============================================================================
