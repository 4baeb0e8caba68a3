------------------------------- MODULE VoiceMessages -------------------------------
(***************************************************************************)
(* The operations and decoders of the VOICE service (pkg/qmi/voice.go).    *)
(***************************************************************************)
EXTENDS QmiSteps

IndicationRegister == Query

parseVoiceSupportedMessagesResponse == Result \o Tlv("fail", List(2, 1, "fail"))
GetSupportedMessages                == Ask \o parseVoiceSupportedMessagesResponse

parseVoiceCallIDResponse == Result \o Must(1)
DialCall            == Ask \o parseVoiceCallIDResponse
EndCall             == Ask \o parseVoiceCallIDResponse
AnswerCall          == Ask \o parseVoiceCallIDResponse
buildVoiceBurstDTMFTLV == Length(1)
BurstDTMF           == buildVoiceBurstDTMFTLV \o Ask \o parseVoiceCallIDResponse
StartContinuousDTMF == Ask \o parseVoiceCallIDResponse
StopContinuousDTMF  == Ask \o parseVoiceCallIDResponse

\* The list of calls is compared at once, that of numbers entry by entry.
parseVoiceCallInfoArray          == List(1, 7, "fail")
parseVoiceRemotePartyNumberArray ==
    Need(1, "fail") \o Count(1)
    \o Each(Need(3, "fail") \o Take(2) \o Count(1) \o NeedTimes(1, "fail") \o TakeTimes(1))
\* An indication has no result, an answer need not have one.
parseVoiceAllCallInfoPacket ==
    ResultIfThere \o Tlv("skip", parseVoiceCallInfoArray) \o Tlv("skip", parseVoiceRemotePartyNumberArray)
parseVoiceAllCallInfoResponse == parseVoiceAllCallInfoPacket
GetAllCallInfo                == Ask \o parseVoiceAllCallInfoResponse

ManageCalls == Query

parseVoiceSupplementaryServiceStatusResponse == Result \o Must(2)
SetSupplementaryService == Ask \o parseVoiceSupplementaryServiceStatusResponse
GetCallWaiting          == Query \o Must(1)

parseVoiceUSSDPayloadTLV         == Need(2, "fail") \o Take(1) \o Count(1) \o NeedTimes(1, "fail") \o TakeTimes(1)
parseUint16ArrayWithUint8Length  == List(1, 2, "fail")
buildVoiceUSSDRequestTLV         == Length(1)

\* Mutant: the length inside the payload is taken for the truth.
parseVoiceUSSDResponseTrusting ==
    May(2) \o Tlv("skip", Need(2, "fail") \o Take(1) \o Count(1) \o TakeTimes(1))
    \o Tlv("skip", parseVoiceUSSDPayloadTLV) \o May(1) \o May(1)
    \o Tlv("skip", Field(1, "skip") \o If(1, Take(1)))
    \o Tlv("skip", parseUint16ArrayWithUint8Length) \o Result
\* Mutant: the result, which comes last, is not looked at.
parseVoiceUSSDResponseBlind ==
    May(2) \o Tlv("skip", parseVoiceUSSDPayloadTLV) \o Tlv("skip", parseVoiceUSSDPayloadTLV)
    \o May(1) \o May(1) \o Tlv("skip", Field(1, "skip") \o If(1, Take(1)))
    \o Tlv("skip", parseUint16ArrayWithUint8Length)
\* What a refusal says is decoded before the result is looked at.
parseVoiceUSSDResponse ==
    May(2) \o Tlv("skip", parseVoiceUSSDPayloadTLV) \o Tlv("skip", parseVoiceUSSDPayloadTLV)
    \o May(1) \o May(1) \o Tlv("skip", Field(1, "skip") \o If(1, Take(1)))
    \o Tlv("skip", parseUint16ArrayWithUint8Length) \o Result

OriginateUSSD       == buildVoiceUSSDRequestTLV \o Ask \o parseVoiceUSSDResponse
AnswerUSSD          == buildVoiceUSSDRequestTLV \o Query
CancelUSSD          == Query
OriginateUSSDNoWait == buildVoiceUSSDRequestTLV \o Query

parseVoiceConfigResponse ==
    Result \o May(1) \o May(5) \o May(5) \o May(1) \o May(8) \o May(2) \o May(1) \o May(1)
GetConfig == Ask \o parseVoiceConfigResponse

ParseVoiceAllCallStatus                  == parseVoiceAllCallInfoPacket
ParseVoiceSupplementaryServiceIndication == Must(2)
ParseVoiceSupplementaryServiceRequestIndication ==
    Tlv("skip", Field(2, "fail")) \o May(1) \o May(1) \o Tlv("skip", parseVoiceUSSDPayloadTLV)
    \o May(1) \o Tlv("skip", parseVoiceUSSDPayloadTLV) \o May(1) \o May(2)
    \o Tlv("skip", parseUint16ArrayWithUint8Length) \o May(1)
ParseVoiceUSSDIndication ==
    May(1) \o Tlv("skip", parseVoiceUSSDPayloadTLV) \o Tlv("skip", parseUint16ArrayWithUint8Length)
ParseVoiceUSSDNoWaitIndication ==
    May(2) \o May(2) \o Tlv("skip", parseVoiceUSSDPayloadTLV) \o Tlv("skip", parseVoiceUSSDPayloadTLV)
    \o Tlv("skip", parseUint16ArrayWithUint8Length)

Operations ==
    [IndicationRegister |-> IndicationRegister, GetSupportedMessages |-> GetSupportedMessages,
     DialCall |-> DialCall, EndCall |-> EndCall, AnswerCall |-> AnswerCall,
     BurstDTMF |-> BurstDTMF, StartContinuousDTMF |-> StartContinuousDTMF,
     StopContinuousDTMF |-> StopContinuousDTMF, GetAllCallInfo |-> GetAllCallInfo,
     ManageCalls |-> ManageCalls, SetSupplementaryService |-> SetSupplementaryService,
     GetCallWaiting |-> GetCallWaiting, OriginateUSSD |-> OriginateUSSD,
     AnswerUSSD |-> AnswerUSSD, CancelUSSD |-> CancelUSSD,
     OriginateUSSDNoWait |-> OriginateUSSDNoWait, GetConfig |-> GetConfig]

Indications ==
    [ParseVoiceAllCallStatus |-> ParseVoiceAllCallStatus,
     ParseVoiceSupplementaryServiceIndication |-> ParseVoiceSupplementaryServiceIndication,
     ParseVoiceSupplementaryServiceRequestIndication |-> ParseVoiceSupplementaryServiceRequestIndication,
     ParseVoiceUSSDIndication |-> ParseVoiceUSSDIndication,
     ParseVoiceUSSDNoWaitIndication |-> ParseVoiceUSSDNoWaitIndication]
=================================================================================
