------------------------------- MODULE OtherMessages -------------------------------
(***************************************************************************)
(* The operations and decoders of the PDC, LOC, OMA, SAR, IMS, IMSA and    *)
(* IMSP services (pkg/qmi/pdc.go, loc.go, oma.go, sar.go, ims.go, imsa.go, *)
(* imsp.go).  Of PDC and LOC some answers come as an indication that the   *)
(* operation waits for; IndicationWaits says why the wait ends with the    *)
(* context only.                                                           *)
(***************************************************************************)
EXTENDS QmiSteps

waitForIndication == Query \o Fail

\* PDC.
buildPDCTypeWithID     == Length(1)
buildPDCIDTLV          == Length(1)
buildPDCLoadConfigChunk == Length(1) \o Length(2)
parsePDCConfigID       == If(1, Count(1) \o Block(NeedTimes(1, "skip") \o TakeTimes(1)))
parsePDCConfigEntries  ==
    Need(1, "skip") \o Count(1)
    \o Each(Need(5, "skip") \o Take(4) \o Count(1) \o NeedTimes(1, "skip") \o TakeTimes(1))

Reset                == Query
Register             == Query
GetConfigLimits      == Query \o May(8) \o May(8)
GetDefaultConfigInfo == Query \o May(4) \o May(4) \o Whole
ListConfigs          == waitForIndication \o Tlv("return", Need(1, "return") \o parsePDCConfigEntries)
GetSelectedConfig    == waitForIndication \o Tlv("skip", parsePDCConfigID) \o Tlv("skip", parsePDCConfigID)
SetSelectedConfig    == buildPDCTypeWithID \o waitForIndication
ActivateConfig       == waitForIndication
DeactivateConfig     == waitForIndication
GetConfigInfo        == buildPDCTypeWithID \o waitForIndication \o May(4) \o Whole \o May(4)
DeleteConfig         == buildPDCIDTLV \o Query
LoadConfig           == buildPDCLoadConfigChunk \o Query

ParsePDCRefreshIndication      == May(4) \o May(4) \o May(4)
ParsePDCConfigChangeIndication == Tlv("return", Need(5, "return") \o Take(4) \o parsePDCConfigID)

\* LOC.
RegisterEvents       == Query
Start                == Query
Stop                 == Query
SetEngineLock        == Query
GetEngineLock        == Query \o May(4)
DeleteAssistanceData == Query
SetOperationMode     == Query
GetOperationMode     == Query \o May(4)
InjectUTCTime        == Query
SetNMETypes          == Query
GetNMETypes          == Query \o May(4)
InjectPosition       == Query
SetServer            == Query
GetServer            == Query \o May(7)
parseLOCStringArray  ==
    Need(1, "skip") \o Count(1) \o Each(Need(1, "skip") \o Count(1) \o NeedTimes(1, "skip") \o TakeTimes(1))
GetPredictedOrbitsDataSource ==
    waitForIndication \o May(8) \o Tlv("skip", Need(1, "skip") \o parseLOCStringArray)

ParseLOCPositionReport ==
    May(4) \o May(1) \o May(8) \o May(8) \o May(4) \o May(4) \o May(4) \o May(4) \o May(4) \o May(8)
    \o May(1) \o May(4) \o May(1)
ParseLOCNMEA == Whole

\* OMA.
SetEventReport    == Query
StartSession      == Query
CancelSession     == Query
GetSessionInfo    == Query \o May(2) \o May(1) \o May(5)
SendSelection     == Query
GetFeatureSetting == Query \o May(1) \o May(1) \o May(1) \o May(1)
SetFeatureSetting == Query

\* SAR.
RFSetState == Query
RFGetState == Query \o May(4)

\* IMS: one byte for each setting that is there.
setIMSBoolField == May(1)
parseIMSGetServicesEnabledSettingResponse ==
    Result \o setIMSBoolField \o setIMSBoolField \o setIMSBoolField \o setIMSBoolField
    \o setIMSBoolField \o setIMSBoolField \o setIMSBoolField
parseIMSSettingsChangedIndication ==
    setIMSBoolField \o setIMSBoolField \o setIMSBoolField \o setIMSBoolField \o setIMSBoolField
    \o setIMSBoolField \o setIMSBoolField \o setIMSBoolField \o setIMSBoolField \o setIMSBoolField
    \o setIMSBoolField \o setIMSBoolField
Bind                           == Query
GetServicesEnabledSetting      == Ask \o parseIMSGetServicesEnabledSettingResponse
SetServicesEnabledSetting      == Query
\* With a result the packet is an answer, without one an indication.
ParseIMSServicesEnabledSetting ==
    Either(parseIMSGetServicesEnabledSettingResponse, parseIMSSettingsChangedIndication)

\* IMSA: a status is needed, the rest is optional.
parseIMSARegistrationStatusPacket ==
    Tlv("skip", Field(4, "skip") \o Found) \o May(2) \o Whole \o May(4) \o NeedFound("fail")
parseIMSAServicesStatusPacket ==
    May(4) \o May(4) \o May(4) \o May(4) \o May(4) \o May(4) \o May(4) \o May(4) \o May(4) \o May(4)
parseIMSARegistrationStatusResponse == Result \o parseIMSARegistrationStatusPacket
parseIMSAServicesStatusResponse     == Result \o parseIMSAServicesStatusPacket
GetIMSRegistrationStatus            == Ask \o parseIMSARegistrationStatusResponse
GetIMSServicesStatus                == Ask \o parseIMSAServicesStatusResponse
RegisterIndications                 == Query
ParseIMSARegistrationStatusChanged  == parseIMSARegistrationStatusPacket
ParseIMSAServicesStatusChanged      == parseIMSAServicesStatusPacket

\* IMSP.
parseIMSPGetEnablerStateResponse == Result \o Must(4)
GetEnablerState                  == Ask \o parseIMSPGetEnablerStateResponse

Operations ==
    [Reset |-> Reset, Register |-> Register, GetConfigLimits |-> GetConfigLimits,
     GetDefaultConfigInfo |-> GetDefaultConfigInfo, ListConfigs |-> ListConfigs,
     GetSelectedConfig |-> GetSelectedConfig, SetSelectedConfig |-> SetSelectedConfig,
     ActivateConfig |-> ActivateConfig, DeactivateConfig |-> DeactivateConfig,
     GetConfigInfo |-> GetConfigInfo, DeleteConfig |-> DeleteConfig, LoadConfig |-> LoadConfig,
     RegisterEvents |-> RegisterEvents, Start |-> Start, Stop |-> Stop,
     SetEngineLock |-> SetEngineLock, GetEngineLock |-> GetEngineLock,
     DeleteAssistanceData |-> DeleteAssistanceData, SetOperationMode |-> SetOperationMode,
     GetOperationMode |-> GetOperationMode, InjectUTCTime |-> InjectUTCTime,
     SetNMETypes |-> SetNMETypes, GetNMETypes |-> GetNMETypes,
     InjectPosition |-> InjectPosition, SetServer |-> SetServer, GetServer |-> GetServer,
     GetPredictedOrbitsDataSource |-> GetPredictedOrbitsDataSource,
     SetEventReport |-> SetEventReport, StartSession |-> StartSession,
     CancelSession |-> CancelSession, GetSessionInfo |-> GetSessionInfo,
     SendSelection |-> SendSelection, GetFeatureSetting |-> GetFeatureSetting,
     SetFeatureSetting |-> SetFeatureSetting, RFSetState |-> RFSetState,
     RFGetState |-> RFGetState,
     Bind |-> Bind, GetServicesEnabledSetting |-> GetServicesEnabledSetting,
     SetServicesEnabledSetting |-> SetServicesEnabledSetting,
     GetIMSRegistrationStatus |-> GetIMSRegistrationStatus,
     GetIMSServicesStatus |-> GetIMSServicesStatus, RegisterIndications |-> RegisterIndications,
     GetEnablerState |-> GetEnablerState]

Indications ==
    [ParsePDCRefreshIndication |-> ParsePDCRefreshIndication,
     ParsePDCConfigChangeIndication |-> ParsePDCConfigChangeIndication,
     ParseLOCPositionReport |-> ParseLOCPositionReport, ParseLOCNMEA |-> ParseLOCNMEA,
     ParseIMSServicesEnabledSetting |-> ParseIMSServicesEnabledSetting,
     ParseIMSARegistrationStatusChanged |-> ParseIMSARegistrationStatusChanged,
     ParseIMSAServicesStatusChanged |-> ParseIMSAServicesStatusChanged]
=================================================================================
