--------------------------- MODULE UserInputRoundTrip ---------------------------
(***************************************************************************)
(* User input from the job to the users and back: GetUserValue and         *)
(* GetUserChoice of ServerJobInfoIO, the manager's GetUserInput, the       *)
(* request variable, the clients of several users, and their replies over  *)
(* the RPC of InputProtocolClient and InputProtocolServer.                 *)
(*                                                                         *)
(* The manager is its contract (UserInputContract, which UserInputManager  *)
(* implements); a client is a ReplyClient (which EPICSIOClient implements). *)
(* A client sees the clearing of a request and drops replies in one step,   *)
(* and it sends a reply and is done with it in one step.                    *)
(***************************************************************************)
EXTENDS InputRequestHelper, ReplyClient, Integers, FiniteSets

CONSTANTS
    Requests,       \* number of requests of the job, one after the other
    Clients,        \* clients of the input server of the job
    FairClients,    \* those whose users answer
    ValueTypes,     \* the types of the values users give
    AskedType,      \* the type of the value the job asks for
    AssignedType    \* per type of a value and type of what is assigned to it, the
                    \* type it has then; its domain is what can be assigned

ASSUME RequestsAssumption == Requests \in Nat
ASSUME FairClientsAssumption == FairClients \subseteq Clients
ASSUME AssignedTypeAssumption ==
    /\ <<AskedType, AskedType>> \in DOMAIN AssignedType
    /\ AssignedType[<<AskedType, AskedType>>] = AskedType

Ids == 1..Requests

\* A user gives a number that nobody gave before.
Answers == 1..Requests * Cardinality(Clients)

VARIABLES
    phase, accepted, interrupted, result,   \* the manager's contract
    returned,   \* per id, what the job was given
    clients,    \* per client, its ReplyClient
    inflight,   \* the messages the server has not handled
    lost,       \* history: a message was lost
    answers     \* history: what users were asked and what they gave

managerVars == <<phase, accepted, interrupted, result>>
rpcVars == <<inflight, lost>>
vars == <<managerVars, returned, clients, rpcVars, answers>>

Manager == INSTANCE UserInputContract WITH
    Calls <- Ids,
    NullCalls <- {},
    Replies <- {CreateUserValueReply(ok, Scalar(t, n)) :
                   ok \in BOOLEAN, t \in ValueTypes, n \in Answers \cup {0}}
               \cup {CreateUserChoiceReply(TRUE, n) : n \in Answers},
    InvalidReply <- kInvalidUserInputReply

-----------------------------------------------------------------------------
(* The job: ServerJobInfoIO.                                               *)

\* External (oac-tree): the job asks for a value, for a choice, and so on.
AsksForValue(id) == id % 2 = 1
AskedValue == Scalar(AskedType, 0)

JobRequest(id) ==
    IF AsksForValue(id)
    THEN CreateUserValueRequest(AskedValue, id)
    ELSE CreateUserChoiceRequest(id, EmptyValue)

\* External (sup-dto): what an assignment leaves in the value, or nothing when
\* the types do not allow it.
TryAssign(value, reply) ==
    {Scalar(AssignedType[types], reply.value) :
        types \in {<<value.type, reply.type>>} \cap DOMAIN AssignedType}

\* What GetUserValue and GetUserChoice make of the manager's answer.
NoChoice == -1
GetUserValue(value, response) ==
    LET assigned == UNION {TryAssign(value, reply) :
                              reply \in ParseUserValueReply(response)}
    IN  IF assigned = {} THEN <<FALSE>>
        ELSE <<TRUE, CHOOSE v \in assigned : TRUE>>
GetUserChoice(response) ==
    IF ParseUserChoiceReply(response) = {} THEN <<NoChoice>>
    ELSE <<CHOOSE choice \in ParseUserChoiceReply(response) : TRUE>>
Outcome(id, response) ==
    IF AsksForValue(id)
    THEN GetUserValue(AskedValue, response)
    ELSE GetUserChoice(response)

JobAsks(id) ==
    /\ \A earlier \in 1..(id - 1) : phase[earlier] = "closed"
    /\ Manager!Open(id)
    /\ UNCHANGED <<returned, clients, rpcVars, answers>>

JobReturns(id) ==
    /\ Manager!Close(id)
    /\ returned' = [returned EXCEPT ![id] = Outcome(id, result'[id])]
    /\ UNCHANGED <<clients, rpcVars, answers>>

Interrupt(id) ==
    /\ phase[id] = "open"
    /\ id \notin interrupted
    /\ Manager!Interrupt(id)
    /\ UNCHANGED <<returned, clients, rpcVars, answers>>

-----------------------------------------------------------------------------
(* The request variable: Clear, request 1, Clear, request 2, ...           *)

\* The position of the last value GetUserInput queued.  The server shows it
\* later: a client that sees it later does not know the difference.
Published ==
    Cardinality({id \in Ids : phase[id] /= "idle"})
        + Cardinality({id \in Ids : phase[id] = "closed"})

ValueAt(position) ==
    Base64EncodeAnyValue(
        IF IsRequestAt(position)
        THEN EncodeInputRequest(IdAt(position), JobRequest(IdAt(position)))
        ELSE kInputRequestAnyValue)

-----------------------------------------------------------------------------
(* The clients.                                                            *)

Step(c, client) == clients' = [clients EXCEPT ![c] = client]

\* HandleUserInput: a request leads to a prompt; the clearing of one drops what
\* is queued, but not a reply the delegatee has taken already.
Kept(c, position) ==
    IF IsRequestAt(position) THEN {Len(clients[c].pending)}
    ELSE {0} \cup {i \in {1} : CanSend(clients[c])}

\* A value that is delivered once more leads to the same prompt as it does for
\* another client.
See(c, position) ==
    /\ CanSee(clients[c], position, Published)
    /\ position > clients[c].seen
    /\ \E kept \in Kept(c, position) :
          LET client == AfterSeeing(clients[c], position)
          IN  /\ CanDrop(client, kept)
              /\ Step(c, AfterDropping(client, kept))
    /\ UNCHANGED <<managerVars, returned, rpcVars, answers>>

\* ClientAnyValueManager::GetUserInput: the listener is called as the job made
\* its call, and what the user gives becomes the reply: a value of any type, or
\* the value as it was when the user declines.
AskUserValue(request, n) ==
    UNION {
        {[asked |-> request, gave |-> <<TRUE, Scalar(t, n)>>,
          reply |-> CreateUserValueReply(TRUE, Scalar(t, n))] : t \in ValueTypes}
        \cup
        {[asked |-> request, gave |-> <<FALSE>>,
          reply |-> CreateUserValueReply(FALSE, r.m_input_value)]} :
        r \in ParseRequest(request, kUserValue)}
AskUserChoice(request, n) ==
    {[asked |-> request, gave |-> <<n>>, reply |-> CreateUserChoiceReply(TRUE, n)] :
        r \in ParseRequest(request, kUserChoice)}
Invalid(request) ==
    [asked |-> request, gave |-> <<>>, reply |-> kInvalidUserInputReply]

\* Forms with a plausible bug, used by no action of Spec.
GetUserInputValuesOnly(request, n) ==
    IF request.m_request_type = kUserValue
    THEN AskUserValue(request, n)
    ELSE {Invalid(request)}

GetUserInput(request, n) ==
    CASE request.m_request_type = kUserValue -> AskUserValue(request, n)
      [] request.m_request_type = kUserChoice -> AskUserChoice(request, n)
      [] OTHER -> {Invalid(request)}

\* The rest of HandleUserInput: the answer of the user is queued.
Answer(c) ==
    \E av \in Base64DecodeAnyValue(ValueAt(clients[c].seen)) :
    \E decoded \in DecodeInputRequest(av) :
    \E answer \in GetUserInput(decoded.request, Cardinality(answers) + 1) :
        LET info == [id |-> decoded.id, reply |-> answer.reply]
        IN  /\ CanAnswer(clients[c], info)
            /\ Step(c, AfterAnswer(clients[c], info))
            /\ answers' = answers \cup
                  {[id |-> decoded.id, asked |-> answer.asked, gave |-> answer.gave]}
            /\ UNCHANGED <<managerVars, returned, rpcVars>>

-----------------------------------------------------------------------------
(* The RPC of a reply.                                                     *)

\* The one function of InputProtocolServer.
KSetReplyFunctionName == "SetReply"
FunctionMap == {KSetReplyFunctionName}

\* InputProtocolClient::SetClientReply.
Message(c, info) ==
    [client |-> c, function |-> KSetReplyFunctionName,
     value |-> EncodeInputReply(info.id, info.reply)]

\* The delegatee takes the next reply when m_reply_func returns, and that may
\* be at any time: the RPC may time out, and its result is ignored.
Send(c) ==
    /\ CanSend(clients[c])
    /\ inflight' = inflight \cup {Message(c, Head(clients[c].pending))}
    /\ Step(c, AfterSending(clients[c]))
    /\ UNCHANGED <<managerVars, returned, lost, answers>>

\* Forms with a plausible bug, used by no action of Spec.
TargetIsOpenCall(decoded) ==    \* does not look at the id of the reply
    IF \E id \in Ids : phase[id] = "open"
    THEN CHOOSE id \in Ids : phase[id] = "open" ELSE decoded.id

Target(decoded) == decoded.id

\* A reply the server takes for certain.
MustAccept(decoded) ==
    /\ phase[Target(decoded)] = "open"
    /\ accepted[Target(decoded)] = {}
    /\ decoded.reply.m_request_type /= kInvalid

\* InputProtocolServer::SetClientReply, as late as it may be.
SetClientReply(message) ==
    /\ inflight' = inflight \ {message}
    /\ \E decoded \in DecodeInputReply(message.value) :
          \/ /\ decoded.reply.m_request_type /= kInvalid
             /\ Manager!Accept(Target(decoded), decoded.reply)
          \/ /\ ~ MustAccept(decoded)
             /\ UNCHANGED managerVars
    /\ UNCHANGED <<returned, clients, lost, answers>>

Invoke(message) == message.function \in FunctionMap /\ SetClientReply(message)

Lose(message) ==
    /\ ~ lost
    /\ lost' = TRUE
    /\ inflight' = inflight \ {message}
    /\ UNCHANGED <<managerVars, returned, clients, answers>>

-----------------------------------------------------------------------------

Init ==
    /\ Manager!Init
    /\ returned = [id \in Ids |-> <<>>]
    /\ clients = [c \in Clients |-> NewClient]
    /\ inflight = {}
    /\ lost = FALSE
    /\ answers = {}

Client(c) ==
    \/ \E position \in 0..Published : See(c, position)
    \/ Answer(c)
    \/ Send(c)

Next ==
    \/ \E id \in Ids : JobAsks(id) \/ JobReturns(id) \/ Interrupt(id)
    \/ \E c \in Clients : Client(c)
    \/ \E message \in inflight : Invoke(message) \/ Lose(message)

Spec == Init /\ [][Next]_vars

\* The server works; the clients whose users answer see the latest value, and
\* their delegatees run.
FairSpec ==
    /\ Spec
    /\ WF_vars(\E id \in Ids : JobReturns(id))
    /\ WF_vars(\E message \in inflight : Invoke(message))
    /\ \A c \in FairClients :
          /\ WF_vars(See(c, Published))
          /\ WF_vars(Answer(c))
          /\ WF_vars(Send(c))

-----------------------------------------------------------------------------

\* What the job is due when a user gave this: a choice as it was given; a value
\* as it fits into the one the job asked for, and a failure when it does not fit
\* or the user declined.
Due(id, gave) ==
    IF ~ AsksForValue(id) THEN gave
    ELSE IF gave[1] /\ <<AskedType, gave[2].type>> \in DOMAIN AssignedType
    THEN <<TRUE, Scalar(AssignedType[<<AskedType, gave[2].type>>], gave[2].value)>>
    ELSE <<FALSE>>
Failure(id) == IF AsksForValue(id) THEN <<FALSE>> ELSE <<NoChoice>>

\* What GetUserValue or GetUserChoice returns is due for what one user gave who
\* was asked exactly that, for that call; late replies, replies to earlier
\* requests and those of a second user never get into it.  Without an answer the
\* call was interrupted, and the job sees a failure.
AnswerIsForRequest ==
    \A id \in Ids :
        phase[id] = "closed" =>
            \/ \E answer \in answers :
                  /\ answer.id = id
                  /\ answer.asked = JobRequest(id)
                  /\ returned[id] = Due(id, answer.gave)
            \/ id \in interrupted /\ returned[id] = Failure(id)

\* A request is answered when the user of one client answers, whatever the
\* others do, unless a reply was lost: its result is ignored and nobody is asked
\* again.
RequestIsAnswered ==
    \A id \in Ids : phase[id] = "open" ~> (phase[id] = "closed" \/ lost)

=============================================================================
