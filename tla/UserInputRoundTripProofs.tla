------------------------ MODULE UserInputRoundTripProofs ------------------------
(***************************************************************************)
(* Proofs about UserInputRoundTrip, for any number of requests of the job, *)
(* any clients of its input server and whatever their users do.            *)
(***************************************************************************)
EXTENDS UserInputRoundTrip, SequenceTheorems, FiniteSetTheorems, TLAPS

-----------------------------------------------------------------------------
(* The inductive invariant.                                                *)

\* What ClientAnyValueManager::GetUserInput makes of the answers of users.
UserValues == [type : ValueTypes, value : Nat]
UserReplies ==
    {CreateUserValueReply(TRUE, value) : value \in UserValues}
        \cup {CreateUserValueReply(FALSE, AskedValue)}
        \cup {CreateUserChoiceReply(TRUE, n) : n \in Nat}
ReplyInfos == [id : Nat, reply : UserReplies]

ClientType == [seen : Nat, prompting : BOOLEAN, pending : Seq(ReplyInfos)]

TypeOK ==
    /\ phase \in [Ids -> {"idle", "open", "closed"}]
    /\ accepted \in [Ids -> SUBSET UserReplies]
    /\ result \in [Ids -> UserReplies \cup {kInvalidUserInputReply}]
    /\ DOMAIN returned = Ids
    /\ clients \in [Clients -> ClientType]
    /\ inflight \subseteq {Message(c, info) : c \in Clients, info \in ReplyInfos}
    /\ IsFiniteSet(answers)

\* The job makes its requests one after the other.
RequestsInOrder ==
    \A id \in Ids :
        phase[id] /= "idle" =>
            \A earlier \in 1..(id - 1) : phase[earlier] = "closed"

\* A client is never ahead of the request variable, and it prompts for requests.
SeenIsPublished ==
    \A c \in Clients :
        /\ clients[c].seen <= Published
        /\ clients[c].prompting => IsRequestAt(clients[c].seen)

\* Users are asked only what the job has asked already.
AnswersAreToRequests ==
    \A answer \in answers : answer.id \in Ids /\ phase[answer.id] /= "idle"

\* One of the answers given belongs to the reply: the user was asked exactly what
\* the job asked with this id, and what the job makes of the reply is due for what
\* the user gave.
Given(given, info) ==
    \E answer \in given :
        /\ answer.id = info.id
        /\ answer.asked = JobRequest(info.id)
        /\ Outcome(info.id, info.reply) = Due(info.id, answer.gave)

\* A reply is the same one in the queue of its client, on the network and in the
\* hands of the manager.
QueuedRepliesWereGiven ==
    \A c \in Clients : \A i \in 1..Len(clients[c].pending) :
        Given(answers, clients[c].pending[i])
SentRepliesWereGiven ==
    \A message \in inflight :
        \A decoded \in DecodeInputReply(message.value) : Given(answers, decoded)
AcceptedRepliesWereGiven ==
    \A id \in Ids : \A reply \in accepted[id] :
        Given(answers, [id |-> id, reply |-> reply])

IndInv ==
    /\ TypeOK
    /\ RequestsInOrder
    /\ SeenIsPublished
    /\ AnswersAreToRequests
    /\ QueuedRepliesWereGiven
    /\ SentRepliesWereGiven
    /\ AcceptedRepliesWereGiven
    /\ AnswerIsForRequest

-----------------------------------------------------------------------------
(* The codecs.                                                             *)

\* The value taken from what was parsed, when there is just one.
LEMMA TheOnlyElement == ASSUME NEW x PROVE (CHOOSE y \in {x} : TRUE) = x
  OBVIOUS

\* DecodeInputReply undoes EncodeInputReply.
LEMMA ReplyIsDecoded ==
    ASSUME NEW id, NEW reply \in UserReplies
    PROVE  DecodeInputReply(EncodeInputReply(id, reply)) =
               {[id |-> id, reply |-> reply]}
  <1> DEFINE payload == [idx |-> UInt64(id),
                         Reply_type |-> UInt32(reply.m_request_type),
                         result |-> Bool(reply.m_result),
                         payload |-> reply.m_payload]
  <1>1. reply = UserInputReply(reply.m_request_type, reply.m_result, reply.m_payload)
    BY DEF UserReplies, CreateUserValueReply, CreateUserChoiceReply, UserInputReply
  <1>2. Base64DecodeAnyValue(EncodeInputReply(id, reply)) = {payload}
    BY DEF Base64DecodeAnyValue, Base64EncodeAnyValue, EncodeInputReply, HasField
  <1>3. ValidateInputReplyPayload(payload)
    BY DEF ValidateInputReplyPayload, ValidateMemberType, HasField, UInt64, UInt32,
           Bool, Scalar, kInputReplyIndexField, kInputReplyTypeField,
           kInputReplyResultField, kInputReplyPayloadField
  <1>4. /\ payload.idx.value = id
        /\ payload.Reply_type.value = reply.m_request_type
        /\ payload.result.value = reply.m_result
        /\ payload.payload = reply.m_payload
    BY DEF UInt64, UInt32, Bool, Scalar
  <1> HIDE DEF payload
  <1> QED BY <1>1, <1>2, <1>3, <1>4 DEF DecodeInputReply

\* A client that sees a request decodes the request of the job.
LEMMA RequestIsDecoded ==
    ASSUME NEW position, IsRequestAt(position),
           NEW av \in Base64DecodeAnyValue(ValueAt(position)),
           NEW decoded \in DecodeInputRequest(av)
    PROVE  decoded = [id |-> IdAt(position), request |-> JobRequest(IdAt(position))]
  <1> DEFINE id == IdAt(position)
             request == JobRequest(id)
  <1>1. av = EncodeInputRequest(id, request)
    BY DEF ValueAt, Base64DecodeAnyValue, Base64EncodeAnyValue, HasField
  <1>2. request = UserInputRequest(request.m_request_type, request.m_meta_data,
                                   request.m_input_value)
    BY DEF JobRequest, CreateUserValueRequest, CreateUserChoiceRequest,
           UserInputRequest
  <1>3. /\ av.idx.value = id
        /\ av.request_type.value = request.m_request_type
        /\ av.metadata = request.m_meta_data
        /\ av.input_value = request.m_input_value
    BY <1>1 DEF EncodeInputRequest, UInt64, UInt32, Scalar
  <1> HIDE DEF request
  <1>4. decoded = [id |-> av.idx.value,
                   request |-> UserInputRequest(av.request_type.value,
                                                av.metadata, av.input_value)]
    BY DEF DecodeInputRequest
  <1> QED BY <1>2, <1>3, <1>4 DEF request

\* The replies GetUserInput makes.
LEMMA UserRepliesOfUsers ==
    ASSUME NEW n \in Nat
    PROVE  /\ \A t \in ValueTypes :
                 CreateUserValueReply(TRUE, Scalar(t, n)) \in UserReplies
           /\ CreateUserValueReply(FALSE, AskedValue) \in UserReplies
           /\ CreateUserChoiceReply(TRUE, n) \in UserReplies
  <1> DEFINE ValueReplies == {CreateUserValueReply(TRUE, value) : value \in UserValues}
             Refusals == {CreateUserValueReply(FALSE, AskedValue)}
             ChoiceReplies == {CreateUserChoiceReply(TRUE, m) : m \in Nat}
  <1>1. ASSUME NEW t \in ValueTypes
        PROVE  CreateUserValueReply(TRUE, Scalar(t, n)) \in ValueReplies
    <2>1. Scalar(t, n) \in UserValues
      BY DEF Scalar, UserValues
    <2> QED BY <2>1, Zenon
  <1>2. CreateUserValueReply(FALSE, AskedValue) \in Refusals
    OBVIOUS
  <1>3. CreateUserChoiceReply(TRUE, n) \in ChoiceReplies
    BY Zenon
  <1>4. UserReplies = ValueReplies \cup Refusals \cup ChoiceReplies
    BY DEF UserReplies
  <1> HIDE DEF ValueReplies, Refusals, ChoiceReplies
  <1> QED BY <1>1, <1>2, <1>3, <1>4, Zenon

\* GetUserValue assigns a value to the one it was called with, if the types allow
\* it.
LEMMA ValueIsAssigned ==
    ASSUME NEW t, NEW n
    PROVE  GetUserValue(AskedValue, CreateUserValueReply(TRUE, Scalar(t, n))) =
               IF <<AskedType, t>> \in DOMAIN AssignedType
               THEN <<TRUE, Scalar(AssignedType[<<AskedType, t>>], n)>>
               ELSE <<FALSE>>
  <1> DEFINE reply == CreateUserValueReply(TRUE, Scalar(t, n))
             value == Scalar(AssignedType[<<AskedType, t>>], n)
             assigned == UNION {TryAssign(AskedValue, r) : r \in ParseUserValueReply(reply)}
  <1>1. ParseUserValueReply(reply) = {Scalar(t, n)}
    <2>1. /\ reply.m_request_type = kUserValue /\ reply.m_result
          /\ reply.m_payload = Scalar(t, n)
      BY DEF CreateUserValueReply, UserInputReply
    <2> HIDE DEF reply
    <2> QED BY <2>1 DEF ParseUserValueReply
  <1>2. AskedValue.type = AskedType /\ Scalar(t, n).type = t /\ Scalar(t, n).value = n
    BY DEF AskedValue, Scalar
  <1>3. assigned = TryAssign(AskedValue, Scalar(t, n))
    <2> HIDE DEF reply
    <2> QED BY <1>1
  <1>4. assigned = IF <<AskedType, t>> \in DOMAIN AssignedType THEN {value} ELSE {}
    BY <1>2, <1>3 DEF TryAssign
  <1> HIDE DEF value
  <1>5. GetUserValue(AskedValue, reply) =
            IF assigned = {} THEN <<FALSE>> ELSE <<TRUE, CHOOSE v \in assigned : TRUE>>
    BY DEF GetUserValue
  <1> HIDE DEF assigned, reply
  <1>6. CASE <<AskedType, t>> \in DOMAIN AssignedType
    <2>1. assigned = {value}
      BY <1>4, <1>6
    <2> QED BY <1>5, <1>6, <2>1, TheOnlyElement DEF value, reply
  <1>7. CASE <<AskedType, t>> \notin DOMAIN AssignedType
    <2>1. assigned = {}
      BY <1>4, <1>7
    <2> QED BY <1>5, <1>7, <2>1 DEF reply
  <1> QED BY <1>6, <1>7

\* The invalid reply is a failure for the job.
LEMMA InvalidIsFailure ==
    ASSUME NEW id
    PROVE  Outcome(id, kInvalidUserInputReply) = Failure(id)
  <1>1. /\ ParseUserValueReply(kInvalidUserInputReply) = {}
        /\ ParseUserChoiceReply(kInvalidUserInputReply) = {}
    BY DEF ParseUserValueReply, ParseUserChoiceReply, kInvalidUserInputReply,
           UserInputReply
  <1> QED BY <1>1 DEF Outcome, Failure, GetUserValue, GetUserChoice

\* What a user gives to a request of the job makes a reply, and what the job makes
\* of that reply is due for what the user gave.
LEMMA AnswerMatchesReply ==
    ASSUME NEW id, NEW n \in Nat, NEW answer \in GetUserInput(JobRequest(id), n)
    PROVE  /\ answer.asked = JobRequest(id)
           /\ answer.reply \in UserReplies
           /\ Outcome(id, answer.reply) = Due(id, answer.gave)
  <1>1. CASE AsksForValue(id)
    <2>1. /\ JobRequest(id).m_request_type = kUserValue
          /\ JobRequest(id).m_input_value = AskedValue
      BY <1>1 DEF JobRequest, CreateUserValueRequest, UserInputRequest
    <2> DEFINE Gave(t) == [asked |-> JobRequest(id), gave |-> <<TRUE, Scalar(t, n)>>,
                           reply |-> CreateUserValueReply(TRUE, Scalar(t, n))]
               Declined == [asked |-> JobRequest(id), gave |-> <<FALSE>>,
                            reply |-> CreateUserValueReply(FALSE, AskedValue)]
    <2>2. \/ \E t \in ValueTypes : answer = Gave(t)
          \/ answer = Declined
      <3>1. answer \in AskUserValue(JobRequest(id), n)
        <4>1. JobRequest(id).m_request_type /= kUserChoice
          BY <2>1 DEF kUserValue, kUserChoice
        <4> QED BY <2>1, <4>1, Zenon DEF GetUserInput
      <3>2. ParseRequest(JobRequest(id), kUserValue) = {JobRequest(id)}
        BY <2>1 DEF ParseRequest
      <3>3. AskUserValue(JobRequest(id), n) = {Gave(t) : t \in ValueTypes} \cup {Declined}
        BY <2>1, <3>2 DEF AskUserValue
      <3> QED BY <3>1, <3>3
    <2>3. CASE \E t \in ValueTypes : answer = Gave(t)
      <3>1. PICK t \in ValueTypes : answer = Gave(t)
        BY <2>3
      <3> DEFINE due == IF <<AskedType, t>> \in DOMAIN AssignedType
                        THEN <<TRUE, Scalar(AssignedType[<<AskedType, t>>], n)>>
                        ELSE <<FALSE>>
      <3>2. /\ answer.asked = JobRequest(id)
            /\ answer.gave = <<TRUE, Scalar(t, n)>>
            /\ answer.reply = CreateUserValueReply(TRUE, Scalar(t, n))
        BY <3>1
      <3>3. answer.reply \in UserReplies
        BY <3>2, UserRepliesOfUsers, Zenon
      <3>4. Outcome(id, answer.reply) = due
        BY <1>1, <3>2, ValueIsAssigned, Zenon DEF Outcome
      <3>5. /\ answer.gave[1]
            /\ answer.gave[2].type = t /\ answer.gave[2].value = n
        BY <3>2 DEF Scalar
      <3>6. Due(id, answer.gave) = due
        BY <1>1, <3>5, Zenon DEF Due
      <3> HIDE DEF due
      <3> QED BY <3>2, <3>3, <3>4, <3>6, Zenon
    <2>4. CASE answer = Declined
      <3>1. /\ answer.asked = JobRequest(id)
            /\ answer.gave = <<FALSE>>
            /\ answer.reply = CreateUserValueReply(FALSE, AskedValue)
        BY <2>4
      <3>2. answer.reply \in UserReplies
        BY <3>1, UserRepliesOfUsers, Zenon
      <3>3. ParseUserValueReply(answer.reply) = {}
        BY <3>1 DEF ParseUserValueReply, CreateUserValueReply, UserInputReply
      <3>4. Outcome(id, answer.reply) = <<FALSE>>
        BY <1>1, <3>3 DEF Outcome, GetUserValue
      <3>5. ~ answer.gave[1]
        BY <3>1
      <3>6. Due(id, answer.gave) = <<FALSE>>
        BY <1>1, <3>5, Zenon DEF Due
      <3> QED BY <3>1, <3>2, <3>4, <3>6
    <2> QED BY <2>2, <2>3, <2>4
  <1>2. CASE ~ AsksForValue(id)
    <2>1. JobRequest(id).m_request_type = kUserChoice
      BY <1>2 DEF JobRequest, CreateUserChoiceRequest, UserInputRequest
    <2>2. /\ answer.asked = JobRequest(id)
          /\ answer.gave = <<n>>
          /\ answer.reply = CreateUserChoiceReply(TRUE, n)
      <3>1. answer \in AskUserChoice(JobRequest(id), n)
        <4>1. JobRequest(id).m_request_type /= kUserValue
          BY <2>1 DEF kUserValue, kUserChoice
        <4> QED BY <2>1, <4>1, Zenon DEF GetUserInput
      <3>2. answer = [asked |-> JobRequest(id), gave |-> <<n>>,
                      reply |-> CreateUserChoiceReply(TRUE, n)]
        BY <3>1, Zenon DEF AskUserChoice
      <3> QED BY <3>2, Zenon
    <2>3. ParseUserChoiceReply(answer.reply) = {n}
      BY <2>2 DEF ParseUserChoiceReply, CreateUserChoiceReply, UserInputReply,
                  Int32, Scalar
    <2>4. GetUserChoice(answer.reply) = answer.gave
      BY <2>2, <2>3, TheOnlyElement DEF GetUserChoice
    <2>5. answer.reply \in UserReplies
      BY <2>2, UserRepliesOfUsers, Zenon
    <2> QED BY <1>2, <2>2, <2>4, <2>5, Zenon DEF Outcome, Due
  <1> QED BY <1>1, <1>2

-----------------------------------------------------------------------------
(* The request variable.                                                   *)

\* The ids, and those of the calls in some phases, are finite in number.
LEMMA IdsAreFinite ==
    /\ Ids \subseteq Nat
    /\ \A S \in SUBSET Ids : IsFiniteSet(S) /\ Cardinality(S) \in Nat
  <1>1. IsFiniteSet(Ids)
    BY RequestsAssumption, FS_Interval DEF Ids
  <1>2. ASSUME NEW S \in SUBSET Ids
        PROVE  IsFiniteSet(S) /\ Cardinality(S) \in Nat
    <2>1. IsFiniteSet(S)
      BY <1>1, FS_Subset, Zenon
    <2> QED BY <2>1, FS_CardinalityType, Zenon
  <1>3. Ids \subseteq Nat
    BY RequestsAssumption DEF Ids
  <1> QED BY <1>2, <1>3, Zenon

\* Published is a position.
LEMMA PublishedIsPosition == Published \in Nat
  BY IdsAreFinite DEF Published

\* The position grows with the phases of the calls.
LEMMA PublishedGrows ==
    ASSUME TypeOK,
           \A id \in Ids : phase[id] /= "idle" => phase'[id] /= "idle",
           \A id \in Ids : phase[id] = "closed" => phase'[id] = "closed"
    PROVE  Published' \in Nat /\ Published <= Published'
  <1> DEFINE Asked == {id \in Ids : phase[id] /= "idle"}
             Closed == {id \in Ids : phase[id] = "closed"}
             NowAsked == {id \in Ids : phase'[id] /= "idle"}
             NowClosed == {id \in Ids : phase'[id] = "closed"}
  <1>1. Asked \subseteq NowAsked /\ Closed \subseteq NowClosed
    OBVIOUS
  <1>2. /\ IsFiniteSet(NowAsked) /\ Cardinality(NowAsked) \in Nat
        /\ IsFiniteSet(NowClosed) /\ Cardinality(NowClosed) \in Nat
        /\ Cardinality(Asked) \in Nat
        /\ Cardinality(Closed) \in Nat
    BY IdsAreFinite
  <1>3. /\ Cardinality(Asked) <= Cardinality(NowAsked)
        /\ Cardinality(Closed) <= Cardinality(NowClosed)
    BY <1>1, <1>2, FS_Subset
  <1>4. /\ Published = Cardinality(Asked) + Cardinality(Closed)
        /\ Published' = Cardinality(NowAsked) + Cardinality(NowClosed)
    BY DEF Published, Ids
  <1> QED BY <1>2, <1>3, <1>4

\* A request that was published is one that the job has made.
LEMMA PublishedRequestIsMade ==
    ASSUME TypeOK, RequestsInOrder,
           NEW position \in Nat, position <= Published, IsRequestAt(position)
    PROVE  IdAt(position) \in Ids /\ phase[IdAt(position)] /= "idle"
  <1> DEFINE id == IdAt(position)
             Asked == {i \in Ids : phase[i] /= "idle"}
             Closed == {i \in Ids : phase[i] = "closed"}
  <1>1. id \in Nat /\ id >= 1 /\ position = 2 * id - 1
    BY DEF IsRequestAt, IdAt
  <1> SUFFICES ASSUME ~ (id \in Ids /\ phase[id] /= "idle")
               PROVE  FALSE
    OBVIOUS
  <1>2. ASSUME NEW i \in Asked
        PROVE  i \in 1..(id - 1)
    <2>1. i \in Nat /\ i >= 1 /\ i <= Requests
      BY RequestsAssumption DEF Ids
    <2>2. ~ i > id
      <3> SUFFICES ASSUME i > id PROVE FALSE
        OBVIOUS
      <3>1. id \in Ids /\ id \in 1..(i - 1)
        BY <1>1, <2>1, RequestsAssumption DEF Ids
      <3>2. phase[id] = "closed"
        BY <3>1 DEF RequestsInOrder
      <3> QED BY <3>1, <3>2
    <2>3. i /= id
      OBVIOUS
    <2> HIDE DEF id
    <2> QED BY <1>1, <2>1, <2>2, <2>3
  <1> HIDE DEF id
  <1>3. Asked \subseteq 1..(id - 1) /\ Closed \subseteq Asked
    BY <1>2
  <1>4. IsFiniteSet(1..(id - 1)) /\ Cardinality(1..(id - 1)) = id - 1
    BY <1>1, FS_Interval
  <1>5. /\ Cardinality(Asked) \in Nat /\ Cardinality(Asked) <= id - 1
        /\ Cardinality(Closed) \in Nat /\ Cardinality(Closed) <= id - 1
    <2>1. Closed \subseteq 1..(id - 1)
      BY <1>3
    <2>2. /\ Cardinality(Asked) <= Cardinality(1..(id - 1))
          /\ Cardinality(Closed) <= Cardinality(1..(id - 1))
      BY <1>3, <1>4, <2>1, FS_Subset, Zenon
    <2>3. Cardinality(Asked) \in Nat /\ Cardinality(Closed) \in Nat
      <3>1. Asked \in SUBSET Ids /\ Closed \in SUBSET Ids
        OBVIOUS
      <3> QED BY <3>1, IdsAreFinite, Zenon
    <2> QED BY <1>4, <2>2, <2>3
  <1>6. Published = Cardinality(Asked) + Cardinality(Closed)
    BY DEF Published
  <1> HIDE DEF Asked, Closed
  <1> QED BY <1>1, <1>5, <1>6, PublishedIsPosition

-----------------------------------------------------------------------------
(* The invariant holds initially, and the history only grows.              *)

\* Nobody asked or answered yet.
LEMMA InitInv == Init => IndInv
  <1> SUFFICES ASSUME Init PROVE IndInv
    OBVIOUS
  <1>1. TypeOK
    <2>1. NewClient \in ClientType
      BY EmptySeq DEF NewClient, ClientType
    <2>2. IsFiniteSet(answers)
      BY FS_EmptySet DEF Init
    <2> QED BY <2>1, <2>2 DEF Init, Manager!Init, TypeOK
  <1>2. SeenIsPublished
    BY PublishedIsPosition DEF Init, SeenIsPublished, NewClient
  <1>3. QueuedRepliesWereGiven
    BY DEF Init, QueuedRepliesWereGiven, NewClient
  <1> QED
    BY <1>1, <1>2, <1>3
    DEF IndInv, Init, Manager!Init, RequestsInOrder, AnswersAreToRequests,
        SentRepliesWereGiven, AcceptedRepliesWereGiven, AnswerIsForRequest

\* What was given stays given.
LEMMA GivenStays ==
    ASSUME NEW given, NEW more, given \subseteq more, NEW info, Given(given, info)
    PROVE  Given(more, info)
  BY DEF Given

\* A step that leaves the clients and the network alone keeps what they know.
LEMMA UsersFrame ==
    ASSUME IndInv, UNCHANGED <<clients, inflight, answers>>,
           \A id \in Ids : phase[id] /= "idle" => phase'[id] /= "idle",
           \A id \in Ids : phase[id] = "closed" => phase'[id] = "closed"
    PROVE  /\ SeenIsPublished'
           /\ AnswersAreToRequests'
           /\ QueuedRepliesWereGiven'
           /\ SentRepliesWereGiven'
  <1>1. SeenIsPublished'
    <2>1. Published' \in Nat /\ Published \in Nat /\ Published <= Published'
      BY PublishedIsPosition, PublishedGrows DEF IndInv
    <2>2. \A c \in Clients : clients[c].seen \in Nat
      BY DEF IndInv, TypeOK, ClientType
    <2> QED BY <2>1, <2>2 DEF IndInv, SeenIsPublished
  <1>2. AnswersAreToRequests'
    BY DEF IndInv, AnswersAreToRequests
  <1>3. QueuedRepliesWereGiven' /\ SentRepliesWereGiven'
    BY DEF IndInv, QueuedRepliesWereGiven, SentRepliesWereGiven
  <1> QED BY <1>1, <1>2, <1>3

\* A step that leaves the job and the manager alone keeps what they know.
LEMMA JobFrame ==
    ASSUME IndInv, UNCHANGED <<managerVars, returned>>, answers \subseteq answers'
    PROVE  /\ RequestsInOrder'
           /\ AcceptedRepliesWereGiven'
           /\ AnswerIsForRequest'
  <1>1. RequestsInOrder'
    BY DEF IndInv, RequestsInOrder, managerVars
  <1>2. AcceptedRepliesWereGiven'
    <2> SUFFICES ASSUME NEW id \in Ids, NEW reply \in accepted[id]
                 PROVE  Given(answers', [id |-> id, reply |-> reply])
      BY DEF AcceptedRepliesWereGiven, managerVars
    <2>1. Given(answers, [id |-> id, reply |-> reply])
      BY DEF IndInv, AcceptedRepliesWereGiven
    <2> QED BY <2>1, GivenStays
  <1>3. AnswerIsForRequest'
    BY DEF IndInv, AnswerIsForRequest, managerVars
  <1> QED BY <1>1, <1>2, <1>3

-----------------------------------------------------------------------------
(* The steps of the job.                                                   *)

\* A call opens after the calls before it have closed.
LEMMA JobAsksStep ==
    ASSUME IndInv, NEW id \in Ids, JobAsks(id)
    PROVE  IndInv'
  <1>1. /\ phase[id] = "idle"
        /\ phase' = [phase EXCEPT ![id] = "open"]
        /\ \A earlier \in 1..(id - 1) : phase[earlier] = "closed"
        /\ UNCHANGED <<accepted, interrupted, result, returned, rpcVars>>
        /\ UNCHANGED <<clients, inflight, answers>>
    BY DEF JobAsks, Manager!Open, rpcVars
  <1>2. TypeOK'
    BY <1>1 DEF IndInv, TypeOK
  <1>3. /\ \A i \in Ids : phase[i] /= "idle" => phase'[i] /= "idle"
        /\ \A i \in Ids : phase[i] = "closed" => phase'[i] = "closed"
        /\ \A i \in Ids : phase'[i] = "closed" => phase[i] = "closed"
        /\ \A i \in Ids : i /= id => phase'[i] = phase[i]
        /\ phase'[id] = "open"
    BY <1>1 DEF IndInv, TypeOK
  <1>4. RequestsInOrder'
    <2> SUFFICES ASSUME NEW i \in Ids, phase'[i] /= "idle",
                        NEW earlier \in 1..(i - 1)
                 PROVE  phase'[earlier] = "closed"
      BY DEF RequestsInOrder
    <2>1. earlier \in Ids
      BY RequestsAssumption DEF Ids
    <2>2. phase[earlier] = "closed"
      BY <1>1, <1>3 DEF IndInv, RequestsInOrder
    <2> QED BY <1>3, <2>1, <2>2
  <1>5. AcceptedRepliesWereGiven'
    BY <1>1 DEF IndInv, AcceptedRepliesWereGiven
  <1>6. AnswerIsForRequest'
    BY <1>1, <1>3 DEF IndInv, AnswerIsForRequest
  <1> QED BY <1>1, <1>2, <1>3, <1>4, <1>5, <1>6, UsersFrame DEF IndInv

\* The result of a call is the reply that was accepted for it, and that is one a
\* user gave; without one the call was interrupted.
LEMMA JobReturnsStep ==
    ASSUME IndInv, NEW id \in Ids, JobReturns(id)
    PROVE  IndInv'
  <1>1. /\ phase[id] = "open"
        /\ phase' = [phase EXCEPT ![id] = "closed"]
        /\ returned' = [returned EXCEPT ![id] = Outcome(id, result'[id])]
        /\ UNCHANGED <<accepted, interrupted, rpcVars>>
        /\ UNCHANGED <<clients, inflight, answers>>
    BY DEF JobReturns, Manager!Close, rpcVars
  <1>2. \/ \E reply \in accepted[id] : result' = [result EXCEPT ![id] = reply]
        \/ /\ id \in interrupted
           /\ result' = [result EXCEPT ![id] = kInvalidUserInputReply]
    BY DEF JobReturns, Manager!Close
  <1>3. TypeOK'
    <2>1. result' \in [Ids -> UserReplies \cup {kInvalidUserInputReply}]
      BY <1>2 DEF IndInv, TypeOK
    <2>2. phase' \in [Ids -> {"idle", "open", "closed"}]
      BY <1>1 DEF IndInv, TypeOK
    <2>3. DOMAIN returned' = Ids
      BY <1>1 DEF IndInv, TypeOK
    <2> QED BY <1>1, <2>1, <2>2, <2>3 DEF IndInv, TypeOK
  <1>4. /\ \A i \in Ids : phase[i] /= "idle" => phase'[i] /= "idle"
        /\ \A i \in Ids : phase[i] = "closed" => phase'[i] = "closed"
        /\ \A i \in Ids : i /= id => phase'[i] = phase[i]
        /\ phase'[id] = "closed"
    BY <1>1 DEF IndInv, TypeOK
  <1>5. RequestsInOrder'
    <2> SUFFICES ASSUME NEW i \in Ids, phase'[i] /= "idle",
                        NEW earlier \in 1..(i - 1)
                 PROVE  phase'[earlier] = "closed"
      BY DEF RequestsInOrder
    <2>1. earlier \in Ids
      BY RequestsAssumption DEF Ids
    <2>2. phase[earlier] = "closed"
      BY <1>1, <1>4 DEF IndInv, RequestsInOrder
    <2> QED BY <1>4, <2>1, <2>2
  <1>6. AcceptedRepliesWereGiven'
    BY <1>1 DEF IndInv, AcceptedRepliesWereGiven
  <1>7. AnswerIsForRequest'
    <2> SUFFICES ASSUME NEW i \in Ids, phase'[i] = "closed"
                 PROVE  \/ Given(answers, [id |-> i, reply |-> result'[i]])
                           /\ returned'[i] = Outcome(i, result'[i])
                        \/ \E answer \in answers :
                              /\ answer.id = i
                              /\ answer.asked = JobRequest(i)
                              /\ returned'[i] = Due(i, answer.gave)
                        \/ i \in interrupted /\ returned'[i] = Failure(i)
      BY <1>1 DEF AnswerIsForRequest, Given
    <2>1. CASE i = id
      <3>1. returned'[id] = Outcome(id, result'[id])
        BY <1>1 DEF IndInv, TypeOK
      <3>2. CASE \E reply \in accepted[id] : result' = [result EXCEPT ![id] = reply]
        <4>1. result'[id] \in accepted[id]
          BY <3>2 DEF IndInv, TypeOK
        <4>2. Given(answers, [id |-> id, reply |-> result'[id]])
          BY <4>1 DEF IndInv, AcceptedRepliesWereGiven
        <4> QED BY <2>1, <3>1, <4>2
      <3>3. CASE /\ id \in interrupted
                 /\ result' = [result EXCEPT ![id] = kInvalidUserInputReply]
        <4>1. result'[id] = kInvalidUserInputReply
          BY <3>3 DEF IndInv, TypeOK
        <4> QED BY <2>1, <3>1, <3>3, <4>1, InvalidIsFailure
      <3> QED BY <1>2, <3>2, <3>3
    <2>2. CASE i /= id
      <3>1. phase[i] = "closed" /\ returned'[i] = returned[i]
        BY <1>1, <1>4, <2>2 DEF IndInv, TypeOK
      <3> QED BY <3>1 DEF IndInv, AnswerIsForRequest
    <2> QED BY <2>1, <2>2
  <1> QED BY <1>1, <1>3, <1>4, <1>5, <1>6, <1>7, UsersFrame DEF IndInv

\* An interrupt changes nothing but the cause of a failure.
LEMMA InterruptStep ==
    ASSUME IndInv, NEW id \in Ids, Interrupt(id)
    PROVE  IndInv'
  <1>1. /\ interrupted' = interrupted \cup {id}
        /\ UNCHANGED <<phase, accepted, result, returned, rpcVars>>
        /\ UNCHANGED <<clients, inflight, answers>>
    BY DEF Interrupt, Manager!Interrupt, rpcVars
  <1>2. TypeOK'
    BY <1>1 DEF IndInv, TypeOK
  <1>3. RequestsInOrder' /\ AcceptedRepliesWereGiven'
    BY <1>1 DEF IndInv, RequestsInOrder, AcceptedRepliesWereGiven
  <1>4. AnswerIsForRequest'
    BY <1>1 DEF IndInv, AnswerIsForRequest
  <1> QED BY <1>1, <1>2, <1>3, <1>4, UsersFrame DEF IndInv

-----------------------------------------------------------------------------
(* The steps of the clients.                                               *)

\* A client after it saw a value and dropped replies.
LEMMA ClientAfterSeeing ==
    ASSUME NEW client \in ClientType, NEW position \in Nat, NEW kept,
           SubSeq(client.pending, 1, kept) \in Seq(ReplyInfos)
    PROVE  LET next == AfterDropping(AfterSeeing(client, position), kept)
           IN  /\ next \in ClientType
               /\ next.seen = position
               /\ next.prompting => IsRequestAt(position)
               /\ next.pending = SubSeq(client.pending, 1, kept)
  BY DEF ClientType, AfterDropping, AfterSeeing, IsRequestAt

\* A client after its user answered.
LEMMA ClientAfterAnswer ==
    ASSUME NEW client \in ClientType, NEW info,
           Append(client.pending, info) \in Seq(ReplyInfos)
    PROVE  LET next == AfterAnswer(client, info)
           IN  /\ next \in ClientType
               /\ next.seen = client.seen
               /\ ~ next.prompting
               /\ next.pending = Append(client.pending, info)
  BY DEF ClientType, AfterAnswer

\* A client after its delegatee sent a reply.
LEMMA ClientAfterSending ==
    ASSUME NEW client \in ClientType, Tail(client.pending) \in Seq(ReplyInfos)
    PROVE  LET next == AfterSending(client)
           IN  /\ next \in ClientType
               /\ next.seen = client.seen
               /\ next.prompting => client.prompting
               /\ next.pending = Tail(client.pending)
  BY DEF ClientType, AfterSending

\* What a client has to keep, one client at a time.
LEMMA ClientFrame ==
    ASSUME IndInv, NEW c \in Clients, NEW client \in ClientType,
           clients' = [clients EXCEPT ![c] = client],
           client.seen <= Published,
           client.prompting => IsRequestAt(client.seen),
           UNCHANGED phase, answers \subseteq answers',
           \A i \in 1..Len(client.pending) : Given(answers', client.pending[i])
    PROVE  /\ clients' \in [Clients -> ClientType]
           /\ SeenIsPublished'
           /\ QueuedRepliesWereGiven'
  <1>1. clients' \in [Clients -> ClientType]
    BY DEF IndInv, TypeOK
  <1>2. /\ clients'[c] = client
        /\ \A d \in Clients : d /= c => clients'[d] = clients[d]
    BY DEF IndInv, TypeOK
  <1>3. Published' = Published
    BY DEF Published
  <1>4. SeenIsPublished'
    BY <1>2, <1>3 DEF IndInv, SeenIsPublished
  <1>5. QueuedRepliesWereGiven'
    <2> SUFFICES ASSUME NEW d \in Clients, NEW i \in 1..Len(clients'[d].pending)
                 PROVE  Given(answers', clients'[d].pending[i])
      BY DEF QueuedRepliesWereGiven
    <2>1. CASE d = c
      BY <1>2, <2>1
    <2>2. CASE d /= c
      <3>1. clients'[d] = clients[d]
        BY <1>2, <2>2
      <3>2. Given(answers, clients[d].pending[i])
        BY <3>1 DEF IndInv, QueuedRepliesWereGiven
      <3> QED BY <3>1, <3>2, GivenStays
    <2> QED BY <2>1, <2>2
  <1> QED BY <1>1, <1>4, <1>5

\* A client that sees a value has no replies it did not have before.
LEMMA SeeStep ==
    ASSUME IndInv, NEW c \in Clients, NEW position \in 0..Published, See(c, position)
    PROVE  IndInv'
  <1> DEFINE pending == clients[c].pending
  <1>1. /\ clients[c] \in ClientType /\ pending \in Seq(ReplyInfos)
        /\ Len(pending) \in Nat /\ position \in Nat
    BY PublishedIsPosition DEF IndInv, TypeOK, ClientType
  <1>2. PICK kept \in Kept(c, position) :
           clients' = [clients EXCEPT ![c] =
               AfterDropping(AfterSeeing(clients[c], position), kept)]
    BY DEF See, Step
  <1>3. kept \in 0..Len(pending)
    <2>1. pending /= <<>> => Len(pending) >= 1
      BY <1>1, EmptySeq
    <2> QED BY <1>1, <1>2, <2>1 DEF Kept, CanSend
  <1> DEFINE client == AfterDropping(AfterSeeing(clients[c], position), kept)
  <1>4. /\ SubSeq(pending, 1, kept) \in Seq(ReplyInfos)
        /\ Len(SubSeq(pending, 1, kept)) = kept
        /\ \A i \in 1..kept : SubSeq(pending, 1, kept)[i] = pending[i]
    BY <1>1, <1>3, SubSeqProperties
  <1>5. /\ client \in ClientType
        /\ client.seen = position
        /\ client.prompting => IsRequestAt(position)
        /\ client.pending = SubSeq(pending, 1, kept)
    BY <1>1, <1>4, ClientAfterSeeing
  <1>6. ASSUME NEW i \in 1..Len(client.pending)
        PROVE  Given(answers, client.pending[i])
    <2>1. i \in 1..Len(pending) /\ client.pending[i] = pending[i]
      BY <1>1, <1>3, <1>4, <1>5
    <2> QED BY <2>1 DEF IndInv, QueuedRepliesWereGiven
  <1>7. UNCHANGED <<managerVars, returned, rpcVars, answers>>
    BY DEF See
  <1>8. /\ client.seen <= Published
        /\ client.prompting => IsRequestAt(client.seen)
    BY <1>1, <1>5, PublishedIsPosition
  <1> HIDE DEF client
  <1>9. /\ clients' \in [Clients -> ClientType]
        /\ SeenIsPublished'
        /\ QueuedRepliesWereGiven'
    BY <1>2, <1>5, <1>6, <1>7, <1>8, ClientFrame DEF client, managerVars
  <1>10. TypeOK' /\ AnswersAreToRequests' /\ SentRepliesWereGiven'
    BY <1>7, <1>9
    DEF IndInv, TypeOK, AnswersAreToRequests, SentRepliesWereGiven, managerVars,
        rpcVars
  <1> QED BY <1>7, <1>9, <1>10, JobFrame DEF IndInv

\* The user is asked the request of the job whose id the answer gets.
LEMMA AnswerStep ==
    ASSUME IndInv, NEW c \in Clients, Answer(c)
    PROVE  IndInv'
  <1> DEFINE pending == clients[c].pending
             id == IdAt(clients[c].seen)
             n == Cardinality(answers) + 1
             Answered(decoded, answer) ==
                 LET info == [id |-> decoded.id, reply |-> answer.reply]
                 IN  /\ CanAnswer(clients[c], info)
                     /\ Step(c, AfterAnswer(clients[c], info))
                     /\ answers' = answers \cup
                           {[id |-> decoded.id, asked |-> answer.asked,
                             gave |-> answer.gave]}
                     /\ UNCHANGED <<managerVars, returned, rpcVars>>
  <1>1. PICK av \in Base64DecodeAnyValue(ValueAt(clients[c].seen)) :
           \E decoded \in DecodeInputRequest(av) :
              \E answer \in GetUserInput(decoded.request, n) :
                 Answered(decoded, answer)
    BY DEF Answer
  <1>2. PICK decoded \in DecodeInputRequest(av) :
           \E answer \in GetUserInput(decoded.request, n) :
              Answered(decoded, answer)
    BY <1>1
  <1>3. PICK answer \in GetUserInput(decoded.request, n) :
           Answered(decoded, answer)
    BY <1>2
  <1> DEFINE info == [id |-> decoded.id, reply |-> answer.reply]
  <1>4. /\ clients[c] \in ClientType /\ pending \in Seq(ReplyInfos)
        /\ clients[c].seen \in Nat
        /\ n \in Nat
    BY FS_CardinalityType DEF IndInv, TypeOK, ClientType
  <1>5. IsRequestAt(clients[c].seen) /\ clients[c].seen <= Published
    BY <1>3 DEF IndInv, SeenIsPublished, CanAnswer
  <1>6. decoded = [id |-> id, request |-> JobRequest(id)]
    BY <1>5, RequestIsDecoded
  <1>7. /\ answer.asked = JobRequest(id)
        /\ answer.reply \in UserReplies
        /\ Outcome(id, answer.reply) = Due(id, answer.gave)
    BY <1>4, <1>6, AnswerMatchesReply
  <1>8. id \in Ids /\ phase[id] /= "idle" /\ id \in Nat
    BY <1>4, <1>5, PublishedRequestIsMade, IdsAreFinite DEF IndInv
  <1>9. info = [id |-> id, reply |-> answer.reply] /\ info \in ReplyInfos
    BY <1>6, <1>7, <1>8 DEF ReplyInfos
  <1> DEFINE entry == [id |-> id, asked |-> answer.asked, gave |-> answer.gave]
  <1>10. /\ answers' = answers \cup {entry}
         /\ clients' = [clients EXCEPT ![c] = AfterAnswer(clients[c], info)]
         /\ UNCHANGED <<managerVars, returned, rpcVars>>
    BY <1>3, <1>6 DEF Step
  <1>11. Given(answers', info)
    <2>1. /\ entry.id = info.id
          /\ entry.asked = JobRequest(info.id)
          /\ Outcome(info.id, info.reply) = Due(info.id, entry.gave)
      BY <1>7, <1>9
    <2>2. entry \in answers'
      BY <1>10
    <2> HIDE DEF entry, info
    <2> QED BY <2>1, <2>2 DEF Given
  <1> DEFINE client == AfterAnswer(clients[c], info)
  <1>12. entry.id = id
    OBVIOUS
  <1> HIDE DEF info, id, n, entry
  <1>13. /\ Append(pending, info) \in Seq(ReplyInfos)
         /\ Len(Append(pending, info)) = Len(pending) + 1
         /\ Len(pending) \in Nat
         /\ \A i \in 1..Len(pending) : Append(pending, info)[i] = pending[i]
         /\ Append(pending, info)[Len(pending) + 1] = info
    BY <1>4, <1>9, AppendProperties
  <1>14. /\ client \in ClientType
         /\ client.seen = clients[c].seen
         /\ ~ client.prompting
         /\ client.pending = Append(pending, info)
    BY <1>4, <1>13, ClientAfterAnswer
  <1>15. ASSUME NEW i \in 1..Len(client.pending)
         PROVE  Given(answers', client.pending[i])
    <2>1. CASE i = Len(pending) + 1
      BY <1>11, <1>13, <1>14, <2>1
    <2>2. CASE i \in 1..Len(pending)
      <3>1. Given(answers, pending[i])
        BY <2>2 DEF IndInv, QueuedRepliesWereGiven
      <3>2. Given(answers', pending[i])
        BY <1>10, <3>1, GivenStays
      <3> QED BY <1>13, <1>14, <2>2, <3>2
    <2> QED BY <1>13, <1>14, <2>1, <2>2
  <1>16. /\ client.seen <= Published
         /\ client.prompting => IsRequestAt(client.seen)
    BY <1>5, <1>14
  <1> HIDE DEF client
  <1>17. /\ clients' \in [Clients -> ClientType]
         /\ SeenIsPublished'
         /\ QueuedRepliesWereGiven'
    BY <1>10, <1>14, <1>15, <1>16, ClientFrame DEF client, managerVars
  <1>18. AnswersAreToRequests'
    BY <1>8, <1>10, <1>12 DEF IndInv, AnswersAreToRequests, managerVars
  <1>19. SentRepliesWereGiven'
    <2> SUFFICES ASSUME NEW message \in inflight,
                        NEW reply \in DecodeInputReply(message.value)
                 PROVE  Given(answers', reply)
      BY <1>10 DEF SentRepliesWereGiven, rpcVars
    <2>1. Given(answers, reply)
      BY DEF IndInv, SentRepliesWereGiven
    <2> QED BY <1>10, <2>1, GivenStays
  <1>20. TypeOK'
    <2>1. IsFiniteSet(answers')
      BY <1>10, FS_AddElement DEF IndInv, TypeOK
    <2> QED BY <1>10, <1>17, <2>1 DEF IndInv, TypeOK, managerVars, rpcVars
  <1> QED BY <1>10, <1>17, <1>18, <1>19, <1>20, JobFrame DEF IndInv

\* The codec of the reply gives the server what the client had queued.
LEMMA SendStep ==
    ASSUME IndInv, NEW c \in Clients, Send(c)
    PROVE  IndInv'
  <1> DEFINE pending == clients[c].pending
             info == Head(pending)
             client == AfterSending(clients[c])
  <1>1. /\ pending /= <<>>
        /\ clients' = [clients EXCEPT ![c] = client]
        /\ inflight' = inflight \cup {Message(c, info)}
        /\ UNCHANGED <<managerVars, returned, lost, answers>>
    BY DEF Send, CanSend, Step
  <1>2. clients[c] \in ClientType /\ pending \in Seq(ReplyInfos)
    BY DEF IndInv, TypeOK, ClientType
  <1>3. /\ info \in ReplyInfos
        /\ info = pending[1]
        /\ Len(pending) \in Nat /\ Len(pending) >= 1
        /\ Tail(pending) \in Seq(ReplyInfos)
        /\ Len(Tail(pending)) = Len(pending) - 1
        /\ \A i \in 1..Len(Tail(pending)) : Tail(pending)[i] = pending[i + 1]
    BY <1>1, <1>2, HeadTailProperties, EmptySeq
  <1>4. /\ client \in ClientType
        /\ client.seen = clients[c].seen
        /\ client.prompting => clients[c].prompting
        /\ client.pending = Tail(pending)
    BY <1>2, <1>3, ClientAfterSending
  <1>5. /\ client.seen <= Published
        /\ client.prompting => IsRequestAt(client.seen)
    BY <1>4 DEF IndInv, SeenIsPublished
  <1>6. ASSUME NEW i \in 1..Len(client.pending)
        PROVE  Given(answers, client.pending[i])
    <2>1. i + 1 \in 1..Len(pending) /\ client.pending[i] = pending[i + 1]
      BY <1>3, <1>4
    <2> QED BY <2>1 DEF IndInv, QueuedRepliesWereGiven
  <1>7. Given(answers, info)
    BY <1>3 DEF IndInv, QueuedRepliesWereGiven
  <1> HIDE DEF client, info
  <1>8. /\ clients' \in [Clients -> ClientType]
        /\ SeenIsPublished'
        /\ QueuedRepliesWereGiven'
    BY <1>1, <1>4, <1>5, <1>6, ClientFrame DEF managerVars
  <1>9. SentRepliesWereGiven'
    <2> SUFFICES ASSUME NEW message \in inflight',
                        NEW decoded \in DecodeInputReply(message.value)
                 PROVE  Given(answers, decoded)
      BY <1>1 DEF SentRepliesWereGiven
    <2>1. CASE message \in inflight
      BY <2>1 DEF IndInv, SentRepliesWereGiven
    <2>2. CASE message = Message(c, info)
      <3>1. info = [id |-> info.id, reply |-> info.reply] /\ info.reply \in UserReplies
        BY <1>3 DEF ReplyInfos
      <3>2. message.value = EncodeInputReply(info.id, info.reply)
        BY <2>2 DEF Message
      <3>3. decoded = info
        BY <3>1, <3>2, ReplyIsDecoded
      <3> QED BY <1>7, <3>3
    <2> QED BY <1>1, <2>1, <2>2
  <1>10. TypeOK'
    <2>1. inflight' \subseteq {Message(d, i) : d \in Clients, i \in ReplyInfos}
      BY <1>1, <1>3 DEF IndInv, TypeOK
    <2> QED BY <1>1, <1>8, <2>1 DEF IndInv, TypeOK, managerVars
  <1>11. AnswersAreToRequests'
    BY <1>1 DEF IndInv, AnswersAreToRequests, managerVars
  <1> QED BY <1>1, <1>8, <1>9, <1>10, <1>11, JobFrame DEF IndInv

-----------------------------------------------------------------------------
(* The steps of the network and of the server.                             *)

\* The server passes on the reply that was encoded, to the call it is for.
LEMMA InvokeStep ==
    ASSUME IndInv, NEW message \in inflight, Invoke(message)
    PROVE  IndInv'
  <1>1. /\ inflight' = inflight \ {message}
        /\ UNCHANGED <<returned, clients, lost, answers>>
    BY DEF Invoke, SetClientReply
  <1>2. PICK c \in Clients, info \in ReplyInfos : message = Message(c, info)
    BY DEF IndInv, TypeOK
  <1>3. DecodeInputReply(message.value) = {info} /\ info.reply \in UserReplies
    <2>1. info = [id |-> info.id, reply |-> info.reply] /\ info.reply \in UserReplies
      BY DEF ReplyInfos
    <2>2. message.value = EncodeInputReply(info.id, info.reply)
      BY <1>2 DEF Message
    <2> QED BY <2>1, <2>2, ReplyIsDecoded
  <1>4. Given(answers, info)
    BY <1>3 DEF IndInv, SentRepliesWereGiven
  <1>5. info.id \in Ids
    BY <1>4 DEF Given, IndInv, AnswersAreToRequests
  <1>6. \/ UNCHANGED managerVars
        \/ /\ accepted' = [accepted EXCEPT ![info.id] = {info.reply}]
           /\ UNCHANGED <<phase, interrupted, result>>
    <2>1. \/ Manager!Accept(Target(info), info.reply)
          \/ UNCHANGED managerVars
      BY <1>3 DEF Invoke, SetClientReply
    <2> QED BY <2>1 DEF Manager!Accept, Target
  <1>7. TypeOK'
    <2>1. accepted' \in [Ids -> SUBSET UserReplies]
      BY <1>3, <1>5, <1>6 DEF IndInv, TypeOK, managerVars
    <2>2. UNCHANGED <<phase, result>>
      BY <1>6 DEF managerVars
    <2> QED BY <1>1, <2>1, <2>2 DEF IndInv, TypeOK
  <1>8. AcceptedRepliesWereGiven'
    <2> SUFFICES ASSUME NEW id \in Ids, NEW reply \in accepted'[id]
                 PROVE  Given(answers, [id |-> id, reply |-> reply])
      BY <1>1 DEF AcceptedRepliesWereGiven
    <2>1. CASE reply \in accepted[id]
      BY <2>1 DEF IndInv, AcceptedRepliesWereGiven
    <2>2. CASE id = info.id /\ reply = info.reply
      <3>1. [id |-> id, reply |-> reply] = info
        BY <2>2 DEF ReplyInfos
      <3> QED BY <1>4, <3>1
    <2> QED BY <1>5, <1>6, <2>1, <2>2 DEF IndInv, TypeOK, managerVars
  <1>9. UNCHANGED <<phase, interrupted, returned>>
    BY <1>1, <1>6 DEF managerVars
  <1>10. RequestsInOrder' /\ AnswerIsForRequest'
    BY <1>1, <1>9 DEF IndInv, RequestsInOrder, AnswerIsForRequest
  <1>11. SeenIsPublished' /\ AnswersAreToRequests' /\ QueuedRepliesWereGiven'
    BY <1>1, <1>9
    DEF IndInv, SeenIsPublished, AnswersAreToRequests, QueuedRepliesWereGiven,
        Published
  <1>12. SentRepliesWereGiven'
    BY <1>1 DEF IndInv, SentRepliesWereGiven
  <1> QED BY <1>7, <1>8, <1>10, <1>11, <1>12 DEF IndInv

\* A lost reply is missing, and nothing else changes.
LEMMA LoseStep ==
    ASSUME IndInv, NEW message \in inflight, Lose(message)
    PROVE  IndInv'
  <1>1. /\ inflight' \subseteq inflight
        /\ UNCHANGED <<managerVars, returned, clients, answers>>
    BY DEF Lose
  <1>2. TypeOK'
    BY <1>1 DEF IndInv, TypeOK, managerVars
  <1>3. SentRepliesWereGiven'
    BY <1>1 DEF IndInv, SentRepliesWereGiven
  <1>4. SeenIsPublished' /\ AnswersAreToRequests' /\ QueuedRepliesWereGiven'
    BY <1>1
    DEF IndInv, SeenIsPublished, AnswersAreToRequests, QueuedRepliesWereGiven,
        Published, managerVars
  <1> QED BY <1>1, <1>2, <1>3, <1>4, JobFrame DEF IndInv

\* A step that changes nothing.
LEMMA StutterStep ==
    ASSUME IndInv, UNCHANGED vars
    PROVE  IndInv'
  <1>1. /\ UNCHANGED <<managerVars, returned, clients, inflight, answers>>
        /\ UNCHANGED phase
    BY DEF vars, rpcVars, managerVars
  <1>2. TypeOK'
    BY <1>1 DEF IndInv, TypeOK, managerVars
  <1> QED BY <1>1, <1>2, UsersFrame, JobFrame DEF IndInv

-----------------------------------------------------------------------------
(* The theorems.                                                           *)

\* The inductive invariant (IndInv) of the job, its users and what is between them.
THEOREM IndInvariant == Spec => []IndInv
  <1>1. IndInv /\ [Next]_vars => IndInv'
    <2> SUFFICES ASSUME IndInv, [Next]_vars PROVE IndInv'
      OBVIOUS
    <2>1. ASSUME NEW id \in Ids, JobAsks(id) \/ JobReturns(id) \/ Interrupt(id)
          PROVE  IndInv'
      BY <2>1, JobAsksStep, JobReturnsStep, InterruptStep
    <2>2. ASSUME NEW c \in Clients, Client(c)
          PROVE  IndInv'
      BY <2>2, SeeStep, AnswerStep, SendStep DEF Client
    <2>3. ASSUME NEW message \in inflight, Invoke(message) \/ Lose(message)
          PROVE  IndInv'
      BY <2>3, InvokeStep, LoseStep
    <2> QED BY <2>1, <2>2, <2>3, StutterStep DEF Next
  <1> QED BY <1>1, InitInv, PTL DEF Spec

\* GetUserValue and GetUserChoice return what is due for what a user gave who was
\* asked exactly that, for that call, or the call was interrupted and failed,
\* however many users answer, whatever the types of their values, however late and
\* in whatever order, and whatever replies are lost.
THEOREM AnswersAreForRequests == Spec => []AnswerIsForRequest
  <1>1. IndInv => AnswerIsForRequest
    BY DEF IndInv
  <1> QED BY <1>1, IndInvariant, PTL

================================================================================
