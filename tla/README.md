# Verification of oac-tree-server

TLA+ modules that model the server and client library and the server
application, TLC configurations that check them on small instances, and proofs
for TLAPS that cover every instance. Paths below are relative to
`src/lib/sup/oac-tree-server/`.

## The system

The server runs *jobs* (procedures). Every job publishes its state, its
instructions and its variables as named values, takes commands over RPC, and
asks the user for input through a *request variable* and an RPC server for the
replies. A client mirrors the values of a job into its user interface, prompts
the user for each request and sends the answer back.

| Component | State | Operations | Hard part |
|---|---|---|---|
| `InputRequestServer` | current request id, reply, interrupt flag, condition variable | `InitNewRequest`, `SetClientReply`, `WaitForReply`, `Interrupt` | job thread, RPC threads and interrupting threads meet here |
| `EPICSAnyValueManager`, user input | `m_user_input_mtx`, the input servers, the request variables | `GetUserInput`, `Interrupt`, `AddInputHandler` | one call at a time by a mutex that `Interrupt` does not take |
| `EPICSAnyValueManager`, registration | two name maps under `m_map_mtx`, the lists of servers | `AddAnyValues`, `AddInputHandler`, `UpdateAnyValue` | check and insertion, pointers used after the lock, two sections |
| `EPICSServer`, `AnyValueUpdateQueue` | queue, condition variable, update task | `UpdateAnyValue`, `UpdateLoop`, destructor | order over batches, wakeups, shutdown by an exit command |
| `EPICSIOClient` | one monitor per variable, input client, delegator | `AddAnyValues`, `AddInputHandler`, `HandleUserInput` | monitor events are skipped, repeated, late; the callback blocks |
| `ClientReplyDelegator` | reply queue, active id, halt flag, thread | `QueueReply`, `InterruptAll`, `HandleClientReply`, `Halt` | a reply between the queue and the RPC; a callback under the lock |
| `EPICSInputServer`, `InputProtocolServer`, `EPICSInputClient` | none | `SetClientReply` over RPC | time-out of an RPC the server has served |
| `ClientAnyValueManager`, `ClientJob` | map of callbacks, job index, job information | `AddAnyValues`, `UpdateAnyValue`, `GetUserInput`; constructor, methods of `IJob`, destructor | map without a mutex, initial values against updates, three RPCs for one constructor, order of destruction |
| `ServerJobInfoIO` | job prefix, an `IndexGenerator` per kind of entry | the methods of `IJobInfoIO` | reports from several threads; an index taken before it is published |
| `AutomationServer` | job list, their information objects | `AddJob`, `GetJobInfo`, `EditBreakpoint`, `SendJobCommand` | reference used after the lock, failing constructor |
| `EPICSAnyValueManagerRegistry` | the managers | `GetAnyValueManager` | jobs that share a manager share its mutex |
| `InfoProtocolServer`, `ControlProtocolServer`, `AutomationProtocolClient`, `AutomationClientStack` | none | argument checks, calls of the job manager, error mapping | checks against a job list that may change; a call that timed out at the client and goes on at the server |
| names, `AnyValue` codecs | none | `Get...Name`, `ParseValueName`, `Encode...`, `Decode...` | one side must read what the other one wrote |
| server application (`main.cpp`, `utils.cpp`) | the RPC servers | list of procedures, jobs, start of the servers | nothing may be served before all jobs are there |
| `IndexGenerator` | last index | `NewIndex` | wrap around, index taken before it is published |

How they interact: a job thread calls `ServerJobInfoIO`, which calls the
`EPICSAnyValueManager` of the job. `GetUserInput` holds `m_user_input_mtx`,
starts a request on the `InputRequestServer`, queues it for the request
variable and blocks. The update task of the `EPICSServer` shows it. The monitor
callback of each client prompts its user and hands the answer to the
`ClientReplyDelegator`, whose thread sends it by RPC. The RPC thread of the
server stores it in the `InputRequestServer` and notifies the job thread, which
queues the cleared value and returns. A client that sees the cleared value
drops the replies it still has.

A job's other reports take the same way without the answer: `ServerJobInfoIO`
encodes and names them, the `EPICSServer` of their set shows them, the
monitors of an `EPICSIOClient` pass them to `ClientAnyValueManager`, which
parses the name, decodes the value and calls the user's `IJobInfoIO`. The
commands go the other way: `ClientJob` calls an `AutomationClientStack`, whose
`AutomationProtocolClient` calls one of two RPC servers, whose handler checks
the arguments against the `AutomationServer` and calls it.

What makes each component correct is listed with its module below; the hazards
that led to those properties are in `PROJECT.json`, each at its line.

## Modules

| Module | What it is |
|---|---|
| `InputRequestServer` | the request servers of a manager: state and operations |
| `UserInputManager` | composes them with `GetUserInput`, `AddInputHandler`, `Interrupt`, the RPC threads and the update queue of the request variable; properties; inductive invariant |
| `UserInputContract` | abstract specification of `GetUserInput` |
| `UserInputManagerProofs` | theorems and proofs about `UserInputManager` |
| `EPICSServer` | one server of named values with its update queue and task; properties; inductive invariant |
| `UpdateFIFO` | abstract specification: updates are shown one by one in order |
| `EPICSServerProofs` | theorems and proofs about `EPICSServer` |
| `ClientReplyDelegator` | the delegator: state and operations |
| `EPICSIOClient` | composes it with the monitor callback and the destructor; properties; inductive invariant |
| `ReplyClient`, `ReplyClientContract` | abstract specification of a client of an input server |
| `EPICSIOClientProofs` | theorems and proofs about `EPICSIOClient` |
| `InputRequestHelper` | requests and replies of user input and their codecs |
| `UserInputRoundTrip` | user input from the job to two users and back, on top of `UserInputContract` and `ReplyClient` |
| `UserInputRoundTripProofs` | inductive invariant, theorems and proofs about `UserInputRoundTrip` |
| `AnyValueRegistration` | the name maps of `EPICSAnyValueManager`; properties; inductive invariant |
| `AnyValueRegistrationProofs` | theorems and proofs about `AnyValueRegistration` |
| `OacTreeProtocol` | names, scalar and structured values, results, argument checks |
| `ValueNames` | `ParseValueName` against the functions that make names |
| `ValueNamesProofs` | proof that it inverts them, for any name |
| `AnyValueIO`, `OutputEntryHelper` | the lists of initial values; the codecs of log, message and output entries |
| `ServerJobInfoIO` | the reports of a job up to what its servers show |
| `ClientAnyValueManager` | the callback map and the calls of the listener |
| `JobMirror` | composes both with the constructor, the monitors and the destructor of a `ClientJob`; properties; inductive invariant |
| `JobMirrorProofs` | theorems and proofs about `JobMirror` |
| `ProcedureFiles` | the list of procedures `main` makes jobs of |
| `AutomationServer` | `main`, the job list and the handlers of the two RPC servers |
| `JobControl` | composes it with the calls of clients and with `ClientJob`; properties; inductive invariant |
| `JobControlContract` | abstract specification of the calls of a job manager |
| `JobControlProofs` | theorems and proofs about `JobControl`: the server, the client jobs, and that it implements its contract |
| `MC*` | constants of the instances for TLC |

Conventions. A critical section of a mutex is one action, because nobody can
see its middle; a `notify_one` after the unlock is an action of its own; a wait
on a condition variable falls asleep in the same action that finds its
predicate false, and may also wake up without cause. A mutex is a variable only
where it is held over several actions (`m_user_input_mtx`, the delegator's
mutex during `m_interrupt_func`). Variables named `m_...` are those of the
code; the others are program counters and, where marked so, history. Modules
hold a few forms that contain a plausible bug; no specification uses them, they
show that the properties notice it.

A name is the sequence of its tokens (words, dashes, the text of an index), an
`AnyValue` a record of its fields or of its type and value. What may fail to
decode returns a set: the result, or nothing.

### UserInputManager

A call of `GetUserInput` is a pair of server and id, and `pc` follows it line
by line: `LockUserInput` (line 96), `FindServers` (98-104), `BeginRequest`
(105), `PublishRequest` (106-107), `BlockOnReply`, `ReturnFromWait` (109),
`ClearRequest` (110), `UnlockUserInput`. The ids of a server are taken as
unique: they come from outside, from the input instructions of oac-tree, and
the interface identifies a request by them. The null id is a call that
`WaitForReply` does not wait for.

Abstractions. The two lookups of `FindServers` are one step: handlers are only
added, the input server first, so the pair has the outcome of one lookup. The
contents of a request is its id. Refused replies change nothing and are not
steps. A failing second half of `AddInputHandler` is in `AnyValueRegistration`
instead. The initial value of the request variable is taken as shown from the
start, since the client treats no value and the cleared value alike.

Properties: replies go to their own request (`ReplyIsOwn`), one per call, and
requests do not overwrite each other (both parts of `IndInv`), failures have their cause in an interrupt of the
same call (`FailureHasCause`, `AcceptedReplyIsReturned`), no wakeup is lost,
clients are not left with a stale request (`NoStaleRequest`) and see the
cleared value between requests (`RequestsSeparatedByClear`); the contract; and,
with fairness, answered and interrupted calls return and requests are shown.

The contract shows two facts a caller should know. After an interrupt a reply
may still be accepted: the client is told so although the call failed. And a
reply is accepted after the call returned only in that case.

### EPICSServer

The queue holds updates and the exit command; `Push` and `PushExit` are a
critical section and a later `Notify`. `PopCommands` swaps the queue into
`batch`, `ProcessCommand` is one round of the loop of `ProcessCommandQueue`.
The destructor runs when no thread uses the server (its guard `notifying = {}`
says that every call has returned). Names and values are model values; the
encoding in base 64 does not matter to any property.

### EPICSIOClient

The server shows cleared, 1, cleared, 2, ...: what `RequestsSeparatedByClear`
of `UserInputManager` allows. A monitor event (`Deliver`) brings any value
from the last one seen to the current one, so values are skipped, late, or
delivered again after a reconnection. One callback runs at a time and the
destructor of the variable waits for it; both are properties of the library
`sup-epics`, which is not part of the repository, and the comment at
`epics/epics_io_client.cpp:63` relies on the second. `ReplySent` is the end of
the RPC, with whatever result: the code ignores it.

`StaleReplyIsInterrupted` is the property of `InterruptAll`: once it has
handled the cleared value, a reply to an earlier request is sent only if it was
active then and was interrupted. It holds because `m_active_id` is set in the
critical section that takes the reply out of the queue. The model also shows
what the code does not do: a prompt that is still open is never interrupted by
`InterruptAll`, since the callback that would call it is the one that waits.

`ReplyClientContract` says what is left without threads and locks: prompts one
at a time, replies in the order they were made, dropped only after the clearing
of their request was seen, at most two more once the client is being destroyed.
A reply that the delegatee has taken counts as pending until it is sent.

### AnyValueRegistration

Lists of names stand for the value sets. The positions of `m_servers` stand for
the `EPICSServer` pointers. Lists are not empty: an empty one would add a
server without variables at every call.

### UserInputRoundTrip

The manager is its contract and a client is a `ReplyClient`, which the two
detailed modules implement, so that the whole way fits into one model: the
encoding of the request, two clients that see the request variable at their own
pace, a listener that is called as the job made its call, the encoding of the
reply, an RPC that may be handled at any later time or once be lost, the
function map and decoding at the server, and what `GetUserValue` and
`GetUserChoice` of `ServerJobInfoIO` make of the answer.

`Published` is the last value `GetUserInput` queued; a client that sees it
later does not know whether the queue or the network was slow. Seeing a cleared
value and dropping replies is one step, so is sending a reply and being done
with it: the steps in between are in `EPICSIOClient`. A value delivered again
leads to the same prompt as it does for the second client.

A user gives a value of any type or declines; declining leaves the value as the
job sent it. `GetUserValue` does not return the reply but assigns it to the value
of the job (`TryAssign`), and that may fail: the reply was accepted, nobody
interrupted, and the job sees a failure. Which types can be assigned, and the type
the value has then, is a matter of sup-dto: `AssignedType` may be any such rule, as
long as a type can be assigned to itself.

`AnswerIsForRequest` is what a job relies on: what it gets is due (`Due`) for what
a user gave who was asked exactly that, for that call, whatever late replies there
are: the choice, the value as it was assigned, or a failure when the user declined
or the types do not fit. Only a call that was interrupted fails without an answer.
`RequestIsAnswered` holds although the other user may leave a prompt open for
ever, and it needs its exception: `m_reply_func`'s result is ignored, so a lost
reply leaves the job waiting.

### ValueNames

Every sequence of up to five tokens is a state; the invariant compares
`ParseValueName` with the functions that make names. An index is parsed only if
`std::to_string` gives the same text back, which excludes leading zeros,
trailing letters and numbers out of range.

### ServerJobInfoIO, ClientAnyValueManager, JobMirror

`ServerJobInfoIO` has one action per method of `IJobInfoIO`; an entry is two,
because its index is taken from the `IndexGenerator` before it is queued and
several threads may be in between. The width of the index is `IndexModulus`.
`shown` keeps all values a server showed, so that a monitor can deliver an old
one late; each carries the number of its report, which no client sees.

`JobMirror` follows the constructor of `ClientJobImpl` value by value: the
initial value is told (`TellInitial`), then its callback is inserted
(`Insert`), the number of instructions is announced, the monitors of the set
start, and the same for the second set. Monitors deliver values no older than
the last one, may skip and repeat, and run one callback per variable at a time.
The destructor first destroys the monitors, each waiting for its callback.

Abstractions. Adding the monitors of a set is one step, since one that is added
later is one that delivers later; so is destroying them, since after a wait for
all of them none has a callback left. `seen` starts at the initial value, which
the constructor tells as well: a monitor may deliver it or not. The state of
the job and the text of entries are numbers that tell reports apart.

The two sets are added one after the other, and the monitors of the first look
names up in `m_cb_map` while the second is inserted. The map has no mutex; such
a lookup is modelled to find its entry or to miss it. (An insertion into a
`std::map` during a find is undefined behaviour; a missed entry is the mildest
outcome.) `LastReportIsTold` therefore excepts the names whose lookup missed,
and the run `job_mirror_race` shows that they exist.

Properties: the listener is told what the job reported, with the same method,
index and arguments (`ToldIsPublished`), never an older report after a newer
one (`NeverBackwards`), in the end the last one (`LastReportIsTold`), and
nothing after the destruction (`NothingAfterDestruction`). `IndexIsSerial`,
part of `IndInv`, is the one of `IndexGenerator` over its wrap around.

### AutomationServer, JobControl

`phase` is where `main` stands. `AddJob` appends the information object, then
the job or, when the constructor of `LocalJob` throws, ends the process. A call
goes through the steps of its handler; each call of the job manager takes
`m_mtx` anew, so a handler has one step per call: `check_job` (the number of
jobs and the index), `get_info` and `use_info` (the reference that `GetJob`
returned, and its use without the lock), `check_call` (the rest of the
arguments), `get_job` and `use_job`. `ref` is the length of `m_jobs` when the
reference was taken: the vector grew since if it differs. `Service` of the two
servers, which answers which protocol they speak, is a branch of `Invoke`.

`JobControl` adds the clients: a `ClientJob` with the three calls of its
constructor and the methods of `IJob`, users who call the job manager directly,
and users who ask for the protocol. A call may fail at the client at any time
(time-out, no connection) while the server goes on with it. `executed` records
what each job was told and by which call.

Abstractions. The handler of a call starts any time after the call was made,
which covers delays. Whether a job accepts a command in its state is the
library's matter. `CreateClientJob` catches a `MessageException` and returns
nothing: stage `failed`. `GetJobInfo` of the client catches
`InvalidOperationException` of this library, which the conversion it guards
does not throw; the model has no such outcome. Results for malformed input
(`ServerProtocolDecodingError`, `NotSupported`) are in the handlers, although
no client of the repository sends such input. So is `ServerProtocolEncodingError`
of the information server (`ReplyWith`): a handler returns it when the output it
was given takes no value, and every call gives it an empty output, which does.

Properties. No handler runs before all jobs are there (`ServedWhenComplete`),
references are valid when used (`JobReferenceIsValid`), an index stays valid
after its check and no handler meets the exception of `GetJob`
(`CheckedIndexIsValid`), replies say what `main` set up (`ReplyIsRight`); a
client job has the prefix and the numbers its values are registered under
(`MirrorMatchesJob`). The contract: a command is carried out at most once, on
the job it names, before its call returns; it is refused only for what does not
exist and then never carried out; after a time-out it may still be. `IndInv` joins
all of this but the contract, and adds the relation of calls to handlers that the
contract follows from (`ContractInv`).

These hold because `main` starts the RPC servers after the last `AddJob`. The
tests of the repository also add jobs to an `AutomationServer` that is served;
then the reference that `GetJob` returns could dangle. The mutant
`StartInfoServerEarly` is that program, and TLC finds `IndInv` violated.

## Runs

| Run | Instance | Result |
|---|---|---|
| `user_input` | 2 servers, calls `<<s1,1>>`, `<<s1,2>>`, `<<s2,0>>`, 2 replies, 2 helper threads; 219,168 states with symmetry | holds |
| `user_input_liveness` | 1 server, 2 calls, 1 reply, 2 helpers; 5,944 states, no symmetry | holds |
| `early_interrupt` | 1 server, 1 call, 1 helper | violated |
| `epics_server` | 2 names, 2 values, 2 producers, 3 updates; 5,722 states | holds |
| `epics_io_client` | 2 requests, 5 monitor events; 36,535 states | holds |
| `registration` | 2 threads, 5 names, 2 input servers, 4 lists; 2,375 states with symmetry | holds |
| `failed_handler` | the same | violated |
| `value_names` | 14 tokens, names of up to 5; 372,120 states | holds |
| `job_mirror` | 1 variable, 1 instruction, 1 reporting thread, 2 reports on 1 object, index modulo 2; 37,079 states | holds |
| `job_mirror_race` | 1 instruction, 1 report | violated |
| `job_control` | 2 jobs, 2 users, 4 calls, 1 failure; 484,526 states with symmetry | holds |
| `round_trip` | 2 requests, 2 users, one of them fair, values of 2 types, 1 loss; 269,652 states | holds |

Why the bounds are enough to meet the hard cases. Two calls on one server make
every reply and interrupt possibly late for the first and early for the second;
a second server makes a wrong delivery between servers possible and the null id
its special case; two helpers let a reply and an interrupt, or two replies,
race, and keep two notifications pending at once. Three updates allow one being
shown, one in the batch and one in the queue behind it. Five events allow each
of two requests to be delivered twice or the first to be answered after the
second was shown. The lists of `registration` overlap, repeat a name and take
the name of a request variable. Five tokens hold a prefix token, an identifier
with its dash and an index, and one token more, so that identifiers also occur
in prefixes. Two reports on one object let a monitor skip, repeat and be late,
and let an index wrap; the objects range over every kind of report, and the
initial values of all others are told meanwhile. Four calls let one user build
a client job, which takes three, while the other one's call is handled, or use
the job once; `MaxDirectCalls = 2` leaves calls of a job manager outside a
client job to the first two calls. Job indices 1 and 2 and, for that
job, instruction indices 1 and 2 are the last valid and the first invalid one,
and `kTerminate` is the first command that is refused. Two requests of two
kinds with two users make every reply possibly late for the first. The users give
values of two types, of which one can be assigned to the value the job asks for,
with a conversion, and the other cannot.

Symmetry is used for replies, helpers, threads and users, which only occur in
sets, and never with liveness. `CHECK_DEADLOCK FALSE` is set where the system
really ends: with the destructor (`epics_server`, `epics_io_client`, the
mirrors), with the last call or a failed start (`job_control`), with the last
request (`round_trip`), with the longest name (`value_names`). `MaxUpdates`,
`MaxDeliveries`, `MaxReports`, `MaxObjects`, `MaxFailures`, `MaxDirectCalls`,
`Requests` and `MaxLength` are bounds of the instances, not of the code.

Fairness. `UserInputManager`: a call that holds the mutex, a helper that owes a
notification and the update tasks keep running: they are running threads, and
weak fairness is enough because nothing disables their next step for ever.
Nobody has to call, answer or interrupt. `EPICSServer`: the task, the
notifications and the join. `EPICSIOClient`: the callback once the user has
answered, the delegatee and a destructor that started; the RPC has a time-out
(`epics/epics_input_client.cpp:34`) and `m_interrupt_func` only informs the
user interface. The user is not fair. `JobMirror`: the servers and a running
callback (WF), and the delivery of the latest value of a monitor (SF: older
values may be delivered again and again in between); the constructor, the
destructor and the job are not. `UserInputRoundTrip`: the job's thread and the
server's RPC threads, and the client of one user who answers; the second user
never has to.

## Findings

- `early_interrupt`: `i_anyvalue_manager.h:81` tells implementations to take
  care of an interrupt that comes before the call it is for. The code drops
  it: `InputRequestServer::Interrupt` ignores any id but the current one, and
  `InitNewRequest` resets the flag. The call then waits although its procedure
  was interrupted.
- `failed_handler`: `i_anyvalue_io.h:69` says that no handler is instantiated
  when `AddInputHandler` fails. The input server stays when its request
  variable is refused.
- `job_mirror_race`: `client_job.h:70` says that a client job forwards all
  updates. `m_cb_map` is read by monitor callbacks while the constructor
  inserts into it, without a mutex, and an update may be lost for good.

Seen and not made a run: `input_request_server.h:81` speaks of a time-out of
`WaitForReply`, which has none. `i_anyvalue_io.h:61` says that `AddAnyValues`
adds nothing when it fails; `ClientAnyValueManager::AddAnyValues` keeps what it
added before a repeated name, but no caller in the repository repeats one.

## Proofs

`UserInputManagerProofs` proves, for any sets of servers, ids, calls, replies
and threads that meet the named assumptions (ids are naturals, calls are pairs
of a server and an id, the special values are none of the ordinary ones):

- `TypeCorrect`: `TypeOK`;
- `IndInvariant`: `IndInv`, and from it `RepliesMatchRequests`,
  `FailuresAreInterrupts`, `AcceptedRepliesAreReturned` and `WakeupsAreNotLost`;
- `RequestIsCleared`: `NoStaleRequest`, and from it `ClearSeparatesRequests`:
  `RequestsSeparatedByClear`;
- `Refinement`: `UserInputManager` implements `UserInputContract`.

The argument. The properties are not inductive: the state of an
`InputRequestServer` does not say which call it belongs to. `IndInv` adds that
a call inside `GetUserInput` holds the mutex (`HoldsMutex`), so that only one
call can change the request; that a call which has not begun is nowhere the
current one and has no reply (`NotBegunIsFresh`), so that `InitNewRequest`
starts from nothing; that the stored reply and the interrupt flag belong to
the current request (`ReplyIsOfCurrent`, `AcceptedIsStored`,
`InterruptIsOfCurrent`); and that the request of a call which returned without
an interrupt keeps its reply (`ReturnedIsAnswered`), so that no second one is
taken. `NoLostWakeup` needs that only the holder of the mutex sleeps, which is
why one `notify_one` is enough. `NoStaleRequest` is proved from the types
alone, through the last value of the queue. It is also why a request is queued
behind the cleared value: the call that publishes holds the mutex, so no other
waits or is about to clear; and two neighbours of a queue that are kept apart
stay so while it moves on. The proof that a step keeps the
invariant has a case for each action. The refinement maps `publish` and `wait`
to an open call; `FindServers` may reject, `BeginRequest` opens,
`ReturnFromWait` closes, and the other steps of the call stutter.

`EPICSServerProofs` proves, for any names, values, producers and number of
updates:

- `IndInvariant`: `IndInv`;
- `WakeupsAreNotLost`: `NoLostWakeup`;
- `ShutdownLosesNothing`: `FinalValuesAreLatest`;
- `Refinement`: `EPICSServer` implements `UpdateFIFO`.

The argument is about one sequence, `PendingUpdates`: what is left of the batch,
then the queue. `PopCommands` only moves the border between the two, and a
producer appends to it. `NoUpdateIsLost` counts: the updates that were shown and
the pending ones are those that were made. `ExitIsLast` says that the exit
command has nothing behind it, since the destructor queues it when all calls
have returned; so a task that meets it has shown everything. `LastUpdateWins`
says of every name that its last update is shown or is the last pending one.
The refinement maps the pending updates of the abstract specification to
`PendingUpdates`.

`AnyValueRegistrationProofs` proves, for any threads, names, lists and input
servers (lists are not empty):

- `IndInvariant`: `IndInv`;
- `NamesAreServedOnce`: `EachNameServedOnce`;
- `FoundServersAreCurrent`: `FoundServerIsCurrent`;
- `SuccessfulHandlersAreComplete`: `SuccessfulHandlerIsComplete`;
- `ListsAreAddedAsAWhole`: `AddsAllOrNothing`.

The argument: a new server gets a new position, so the positions in the maps and
in the hands of threads keep their meaning; the map of values and the lists of
the servers say the same (`IndInv`), and a list that is refused changes neither.
Between the two sections of `AddInputHandler` its input server is in its map,
and nothing ever leaves the maps.

`EPICSIOClientProofs` proves, for any number of requests and of monitor events:

- `IndInvariant`: `IndInv`;
- `InterruptsAreForActiveReplies`: `InterruptIsForActiveReply`;
- `DroppedRepliesAreStale`: `OnlyStaleRepliesAreDropped`;
- `StaleRepliesAreInterrupted`: `StaleReplyIsInterrupted`;
- `Refinement`: `EPICSIOClient` implements `ReplyClientContract`.

The argument: `m_active_id` is the id of the reply the delegatee has in hand
(`ActiveReplyIsCurrent`), and the callback holds the mutex while it runs
`m_interrupt_func` (`InterruptInCallback`), so the reply stays active until it
is through. The replies that are still queued are to requests between the last
one that was seen cleared and the last one seen (`RepliesAreCurrent`), which is
why `InterruptAll` drops no reply of a later request. After `Halt` the queue is
not read again (`HaltInv`). In the refinement the delegatee's taking a reply
is a stutter, for the contract counts it as pending until it is sent.

`JobControlProofs` proves, for any list of procedures, any sets of calls, users
and indices and any number of failures (procedures have natural numbers of
variables and instructions, arguments fit in the `uint32` of the interface, the
name of the server is a sequence, the special values are none of the ordinary
ones):

- `ServerAndClients`: the first two parts of `IndInv`, and from them
  `MirrorsMatchJobs`: `MirrorMatchesJob`;
- `IndInvariant`: `IndInv`;
- `Refinement`: `JobControl` implements `JobControlContract`.

The argument has three parts. `ServerInv` is about the handlers and inductive
without the clients. While `main` adds jobs every call still waits for its
server (`NoHandlerWhileAdding`), so `AddJob` disturbs no handler; once the
servers run no job is added, so the list that was checked is the list that is
used. `ExtractedIndexIsValid` says that the check establishes the index; the
step lemmas `ReplyStep`, `GotoStep` and `GetJobStep` say that the rest of a
handler keeps it. `MirrorInv` is about what clients know. That a client job
fits its job is not inductive: its constructor believes three replies. So
`ReplyIsRight` says of every reply, waited for or not, that it is what `main`
set up; `WaitsForOwnCall` that the thread waits for the very call it made, with
that call's input, however many other calls are under way or were given up;
`JobsAreProcs` that jobs and information objects follow the list of procedures,
also when a constructor throws in between; `KnownSoFar` what each stage of the
constructor has found out. A step of a handler disturbs one reply
(`HandlerFrameMirror`), a call adds one that has no reply (`CallMirror`), and
an answer teaches one client (`AnswerMirror`).

`ContractInv` relates the calls as clients made them to where their handlers
stand: the input is the encoding of what was asked (`InputIsAsked`), at the
server that has its function (`IsAtItsServer`); what a handler has checked is
no fault (`FaultsAreFound`); a call was carried out if and only if its reply
says so (`ReplyIsDue`); nobody but the thread that waits is told of the end,
and before the reply only that it failed (`EndIsTold`). The lemmas `JobCheck`
and `CallCheck` say that the two checks of a handler, on the encoded input, find
exactly the faults of the call, and `CalledServerHasFunction` that no call of
the repository's clients is `NotSupported`, since the names of the two servers
differ. `UseJob` is the contract's `Execute`, the steps of the clients are
`Ask`, `Return`, `Refuse` and `Fail`, and everything else stutters.

`ValueNamesProofs` proves `ParsingInvertsNaming`, that `ParseInvertsNaming` holds
of every sequence of tokens of any length. It assumes of `std::stoul` and
`std::to_string` what the code relies on: the text of an index is read as that
index, what is read has that very text (`StoulReadsText`, the comparison in
`ParseIndex`), and no number is one of the words of the protocol
(`NumbersAreNoWords`). The argument: a name made from a prefix ends in the words
of exactly one row of the two tables; the last dash stands right before the
index, since the index is one token and no dash; and the front up to the dash
ends in `INSTR-` or `VAR-` after at least one token more. `NameIsParsed` is that
direction. Conversely every branch of `ParseValueName` that does not return
`Unknown` has found such an ending, so what precedes it is the prefix.

`JobMirrorProofs` proves, for any numbers of variables, instructions, reports
and threads, and any `IndexModulus` above 1 (the prefix of the server is a
sequence, the protocol has names for all variables and instructions, the threads
are finite in number, the special values are none of the ordinary ones):

- `IndInvariant`: `IndInv`;
- `ReportsArriveAsMade`: `ToldIsPublished`;
- `ReportsNeverGoBack`: `NeverBackwards`;
- `NothingIsToldAfterDestruction`: `NothingAfterDestruction`.

The argument follows a report. `NamesIdentify` takes from `NameIsParsed` that the
names of a job's objects differ and lead back to them, and `SetsListObjects` says
that the two lists of initial values hold exactly these names: so a report is
queued at the server that has its name, or dropped when its set is not
registered. The lemmas `...IsDecoded` undo the codec of each kind of report.
`ValuesCarryReports` joins the two: whatever is queued or shown leads, in the
callback of its name, to the call of its own report or to none; histories only
grow, so it stays so (`HistoryGrows`). `SerialsIncrease` says that per name what
was shown comes before what is queued, both in the order of the reports, and
`ServedTogether` that a server never starts anew. For the monitors,
`DeliveredIsSeen` says that a callback runs with the last value delivered of its
name, because one callback per name runs at a time. `ToldIsSeen` ties the
listener to that: what it was last told is no newer than what was delivered, and
a name whose callback is not in the map has only told its initial value. That is
why the initial value, which the constructor tells before the callback exists,
can hide no report; it needs `ConstructorInOrder`, that callbacks come before
monitors. `CallbackIsThere` gives the last theorem: after the monitors are gone
no callback runs. For `IndexIsSerial`, the entries published and those between
their two steps are counted together; `NewIndexIsNext` is the arithmetic of the
wrap around that skips zero.

`UserInputRoundTripProofs` proves, for any number of requests, any set of clients
(an infinite one too) and any users:

- `IndInvariant`: `IndInv`;
- `AnswersAreForRequests`: `AnswerIsForRequest`.

The argument follows a reply. `Given` relates a reply to the history of what
users were asked and gave; it holds of the replies queued at a client
(`QueuedRepliesWereGiven`), on the network (`SentRepliesWereGiven`, which speaks
of what the server will decode) and accepted by the manager
(`AcceptedRepliesWereGiven`), and as histories only grow it stays. A reply enters
the first when a user answers: the client prompts for a request
(`SeenIsPublished`), decodes what the job encoded (`RequestIsDecoded`), and the
reply leads `GetUserValue` or `GetUserChoice` to what is due for what the user
gave (`AnswerMatchesReply`; `ValueIsAssigned` is about the assignment, whose rule
`AssignedType` is any). `ReplyIsDecoded` takes it over the network. As the job
asks one thing after the other (`RequestsInOrder`), a position of the request
variable determines a request that has been made (`PublishedRequestIsMade`); so
nobody answers what was not asked (`AnswersAreToRequests`), and a reply the
server receives is for one of its calls. The manager and the clients are their
contracts here; that the code implements them is the refinement of
`UserInputManagerProofs` and of `EPICSIOClientProofs`. TLC finds this `IndInv`
to hold on the instance of `round_trip`, with `Nat` and `Seq` made finite and
users who give values of one of the two types.

Only model-checked: the liveness properties, for fairness is beyond the prover.
The three runs that expect a violation are about single behaviours and have no
theorem.

## Not modelled

- The EPICS and protocol libraries and the oac-tree library (jobs, procedures,
  instructions), beyond what their callers depend on: marked external.
- The command line and usage text of `main.cpp` and of `utils.cpp`, logging,
  exception texts, and factory functions and accessors that only construct or
  return an object.
- `ProcedureTicked`, empty on both sides, and `Interrupt` of
  `ClientAnyValueManager`, which only calls its listener.
- `Service` of the input server: that of the other two servers, with other
  constants.
- Sizes and layouts of encoded data; the real values of
  `GENERIC_APPLICATION_ERROR_START` and `SPECIFIC_APPLICATION_ERROR_START`, of
  which only the order of results matters.
- The rules of sup-dto for assigning and converting values. `AssignedType` stands
  for those of `TryAssign`; what `TryAssignIfEmptyOrConvert` does to an output that
  is not empty is left out, for no call of the application has one.
- The contents of values beyond a type and a number that says who gave it. A value
  that cannot be assigned because of its contents, such as a number too large for
  the value of the job, is one of a type that cannot be assigned.
- The order in which `directory_iterator` lists the procedures: unspecified, and
  constant while a server runs.

## Plan

Every safety property that a run checks has its theorem. What could still be
proved without liveness: that the steps of `UserInputRoundTrip` stay within
`UserInputContract` with the numbers of answers bounded by `Answers` (a counting
argument over clients and requests), and that what one client sees of the
request variable, in `EPICSServer` and `EPICSIOClient` together, is the
`ReplyClient` of the round trip.
