--------------------------- MODULE InputRequestHelper ---------------------------
(***************************************************************************)
(* Requests and replies of user input and their AnyValues                  *)
(* (base/input_request_helper.cpp, base/input_reply_helper.cpp).  Decoding *)
(* returns the set of what it decoded, or nothing.                         *)
(***************************************************************************)
EXTENDS OacTreeProtocol

\* External (oac-tree): InputRequestType, UserInputRequest and UserInputReply.
kInvalid == 0
kUserValue == 1
kUserChoice == 2
UserInputRequest(t, meta_data, input_value) ==
    [m_request_type |-> t, m_meta_data |-> meta_data, m_input_value |-> input_value]
UserInputReply(t, result, payload) ==
    [m_request_type |-> t, m_result |-> result, m_payload |-> payload]
kInvalidUserInputReply == UserInputReply(kInvalid, FALSE, EmptyValue)

\* External (oac-tree): the requests and replies of the two kinds of input.
CreateUserValueRequest(value, description) ==
    UserInputRequest(kUserValue, String(description), value)
CreateUserChoiceRequest(options, metadata) ==
    UserInputRequest(kUserChoice, metadata, String(options))
ParseRequest(request, t) == {r \in {request} : r.m_request_type = t}
CreateUserValueReply(result, value) == UserInputReply(kUserValue, result, value)
CreateUserChoiceReply(result, choice) ==
    UserInputReply(kUserChoice, result, Int32(choice))
ParseUserValueReply(reply) ==
    {r.m_payload : r \in {x \in {reply} : x.m_request_type = kUserValue /\ x.m_result}}
ParseUserChoiceReply(reply) ==
    {r.m_payload.value :
        r \in {x \in {reply} : x.m_request_type = kUserChoice /\ x.m_result}}

-----------------------------------------------------------------------------
(* The fields.                                                             *)

kInputRequestIndexField == "idx"
kInputRequestTypeField == "request_type"
kInputRequestMetadataField == "metadata"
kInputRequestInputValueField == "input_value"
kInputReplyIndexField == "idx"
kInputReplyTypeField == "Reply_type"
kInputReplyResultField == "result"
kInputReplyPayloadField == "payload"

-----------------------------------------------------------------------------

EncodeInputRequest(id, input_request) ==
    [idx |-> UInt64(id), request_type |-> UInt32(input_request.m_request_type),
     metadata |-> input_request.m_meta_data,
     input_value |-> input_request.m_input_value]

ValidateInputRequestPayload(payload) ==
    /\ ValidateMemberType(payload, kInputRequestIndexField, "uint64")
    /\ ValidateMemberType(payload, kInputRequestTypeField, "uint32")
    /\ HasField(payload, kInputRequestMetadataField)
    /\ HasField(payload, kInputRequestInputValueField)

DecodeInputRequest(encoded) ==
    IF ValidateInputRequestPayload(encoded)
    THEN {[id |-> encoded.idx.value,
           request |-> UserInputRequest(encoded.request_type.value,
                                        encoded.metadata, encoded.input_value)]}
    ELSE {}

EncodeInputReply(id, input_reply) ==
    Base64EncodeAnyValue(
        [idx |-> UInt64(id), Reply_type |-> UInt32(input_reply.m_request_type),
         result |-> Bool(input_reply.m_result), payload |-> input_reply.m_payload])

ValidateInputReplyPayload(payload) ==
    /\ ValidateMemberType(payload, kInputReplyIndexField, "uint64")
    /\ ValidateMemberType(payload, kInputReplyTypeField, "uint32")
    /\ ValidateMemberType(payload, kInputReplyResultField, "bool")
    /\ HasField(payload, kInputReplyPayloadField)

DecodeInputReply(encoded) ==
    {[id |-> payload.idx.value,
      reply |-> UserInputReply(payload.Reply_type.value, payload.result.value,
                               payload.payload)] :
        payload \in {av \in Base64DecodeAnyValue(encoded) :
                        ValidateInputReplyPayload(av)}}

=============================================================================
