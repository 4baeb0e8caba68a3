------------------------------- MODULE WmsMessages -------------------------------
(***************************************************************************)
(* The operations and decoders of the WMS service (pkg/qmi/wms.go).  Many  *)
(* requests are tried in the forms that different modems understand.       *)
(***************************************************************************)
EXTENDS QmiSteps

parseWMSSupportedMessagesResponse == Result \o Tlv("fail", List(2, 1, "fail"))
GetSupportedMessages              == Ask \o parseWMSSupportedMessagesResponse

\* The messages that are there; without the list, none.
ListMessages == Query \o Tlv("skip", Need(4, "skip") \o Count(4) \o Each(Field(5, "skip")))
ListMessagesAuto ==
    Try(ListMessages, Try(ListMessages, Try(ListMessages, Try(ListMessages, Try(ListMessages, ListMessages)))))

\* Three layouts: a length first, a tag and a length, or neither.
parseRawReadMessageValue ==
    Need(3, "fail") \o Take(1) \o Count(2)
    \o Either(NeedTimes(1, "fail") \o TakeTimes(1),
              If(1, Either(Count(1) \o NeedTimes(1, "skip") \o TakeTimes(1), <<>>)))
RawReadMessage     == Query \o Tlv("fail", parseRawReadMessageValue)
RawReadMessageMeta == Query \o Tlv("fail", parseRawReadMessageValue)

DeleteMessageByIndex == Try(Query, Query)
DeleteMessagesByTag  == Try(Query, Query)
\* Mutant: the answer to the last form is not looked at.
ModifyMessageTagBlind == Try(Query, Try(Query, Try(Query, Try(Query, Ask))))
ModifyMessageTag     == Try(Query, Try(Query, Try(Query, Try(Query, Query))))

GetSMSCAddress      == Query \o Tlv("fail", <<>>)
RegisterEventReport == Query
IndicationRegister  == Query

buildRawWriteMessageTLVs     == Length(2)
parseRawWriteMessageResponse == Result \o Must(4)
RawWriteMessage              == buildRawWriteMessageTLVs \o Ask \o parseRawWriteMessageResponse

\* The causes are read of the refusal.
summarizeRawSendResponse == May(2) \o May(2) \o May(1) \o May(3) \o May(1)
SendRawMessage           == Length(2) \o Ask \o Try(Result, summarizeRawSendResponse \o Fail)

parseGetMessageProtocolResponse == Result \o Must(1)
GetMessageProtocol              == Ask \o parseGetMessageProtocolResponse

buildSetRoutesTLVs     == Length(2)
SetRoutes              == buildSetRoutesTLVs \o Query
parseRouteList         == List(2, 4, "fail")
parseGetRoutesResponse == Result \o Tlv("skip", parseRouteList) \o Tlv("skip", Field(1, "fail"))
GetRoutes              == Ask \o parseGetRoutesResponse

\* The causes of a failure are read before the result.
parseSendAckResponse         == Tlv("skip", Field(1, "fail")) \o Result
SendAck                      == Ask \o parseSendAckResponse
parseSendFromStorageResponse ==
    Tlv("skip", Field(2, "fail")) \o Tlv("skip", Field(2, "fail")) \o Tlv("skip", Field(1, "fail"))
    \o Tlv("skip", Field(3, "fail")) \o Tlv("skip", Field(1, "fail")) \o Result
SendFromStorage              == Ask \o parseSendFromStorageResponse

parseTransportNetworkRegistrationStatusResponse == Result \o Must(1)
GetTransportNetworkRegistrationStatus           == Ask \o parseTransportNetworkRegistrationStatusResponse

parseWMSSMSCAddressValue == Need(4, "fail") \o Take(3) \o Count(1) \o NeedTimes(1, "fail") \o TakeTimes(1)
ParseWMSSMSCAddressIndication == Tlv("fail", parseWMSSMSCAddressValue)
ParseWMSTransportNetworkRegistrationStatusIndication == Must(1)

Operations ==
    [GetSupportedMessages |-> GetSupportedMessages, ListMessages |-> ListMessages,
     ListMessagesAuto |-> ListMessagesAuto, RawReadMessage |-> RawReadMessage,
     RawReadMessageMeta |-> RawReadMessageMeta, DeleteMessageByIndex |-> DeleteMessageByIndex,
     DeleteMessagesByTag |-> DeleteMessagesByTag, ModifyMessageTag |-> ModifyMessageTag,
     GetSMSCAddress |-> GetSMSCAddress, RegisterEventReport |-> RegisterEventReport,
     IndicationRegister |-> IndicationRegister, RawWriteMessage |-> RawWriteMessage,
     SendRawMessage |-> SendRawMessage, GetMessageProtocol |-> GetMessageProtocol,
     SetRoutes |-> SetRoutes, GetRoutes |-> GetRoutes, SendAck |-> SendAck,
     SendFromStorage |-> SendFromStorage,
     GetTransportNetworkRegistrationStatus |-> GetTransportNetworkRegistrationStatus]

Indications ==
    [ParseWMSSMSCAddressIndication |-> ParseWMSSMSCAddressIndication,
     ParseWMSTransportNetworkRegistrationStatusIndication |-> ParseWMSTransportNetworkRegistrationStatusIndication]
=================================================================================
