------------------------------- MODULE NasMessages -------------------------------
(***************************************************************************)
(* The operations and decoders of the NAS service (pkg/qmi/nas.go,         *)
(* pkg/qmi/nas_event_report.go), in the vocabulary of QmiSteps.            *)
(***************************************************************************)
EXTENDS QmiSteps

parseServingSystemPacket ==
    Tlv("skip", Need(3, "skip") \o Take(3)
                \o If(3, Take(1) \o Count(1) \o Either(Skip, NeedTimes(1, "skip") \o Take(1))))
    \o May(1) \o May(4)

GetServingSystem             == Ask \o Result \o parseServingSystemPacket
ParseServingSystemIndication == parseServingSystemPacket

\* Mutant: one of the measurements is read without a look at its length.
GetSignalStrengthUnguarded == Query \o May(1) \o May(1) \o Tlv("skip", Need(1, "skip") \o Take(2)) \o May(2)
GetSignalStrength          == Query \o May(1) \o May(1) \o May(2) \o May(2)

\* The thresholds are a second request; without any, the first is all.
RegisterIndicationsWithConfig == Query \o Either(Return, Length(1) \o Query)
buildNASEventReportTLVs       == Length(1) \o Length(1) \o Length(1)
SetEventReportExtended        == buildNASEventReportTLVs \o Query

InitiateNetworkRegister == Query
ForceNetworkSearch      == Query
AttachDetach            == Query

parseSignalInfoPacket     == May(6) \o May(4) \o May(2)
GetSignalInfo             == Query \o parseSignalInfoPacket
ParseSignalInfoIndication == parseSignalInfoPacket

parseSysInfoPacket ==
    Tlv("skip", Field(16, "skip") \o If(13, Take(13)))
    \o May(1) \o May(29) \o May(1) \o May(1)
GetSysInfo             == Query \o parseSysInfoPacket
ParseSysInfoIndication == parseSysInfoPacket

parseOperatorNamePacket     == Tlv("skip", Field(1, "skip")) \o Whole
GetOperatorName             == Ask \o Result \o parseOperatorNamePacket
ParseOperatorNameIndication == parseOperatorNamePacket

GetPLMNName == Query \o Tlv("skip", List(1, 1, "skip")) \o Tlv("skip", List(1, 1, "skip"))

ConfigSignalInfoV2 == Refuse \o Query

\* A list that ends early keeps the networks before.
parseNetworkScanResults ==
    Tlv("skip", Need(2, "skip") \o Count(2)
                \o Each(Need(6, "skip") \o Take(5) \o Count(1) \o NeedTimes(1, "skip") \o TakeTimes(1)))
    \o Tlv("skip", Need(2, "skip") \o Count(2) \o Each(Field(5, "skip")))
PerformNetworkScan                     == Query \o parseNetworkScanResults
ParseIncrementalNetworkScanIndication == parseNetworkScanResults \o May(1)

\* Entries of n bytes after their number, each compared by itself.
Entries(n) == Need(1, "skip") \o Count(1) \o Each(Field(n, "skip") \o Found)

parseRFBandInfoResponse ==
    Result \o Either(Tlv("skip", Entries(7)), Tlv("skip", Entries(5)))
    \o Tlv("skip", Entries(5)) \o NeedFound("fail")
GetRFBandInfo == Ask \o parseRFBandInfoResponse

parseTechnologyPreferenceResponse == Result \o May(3) \o May(2)
GetTechnologyPreference           == Ask \o parseTechnologyPreferenceResponse
SetTechnologyPreference           == Query

parseUint64Sequence(count) == Field(8 * count, "fail")
parseSystemSelectionPreferenceResponse ==
    Result \o May(1) \o May(2) \o May(8) \o May(2) \o May(2) \o May(8) \o May(8) \o May(1) \o May(4) \o May(4)
    \o May(5) \o Tlv("skip", List(1, 1, "skip")) \o May(4) \o May(4) \o May(4) \o May(2)
    \o Tlv("skip", parseUint64Sequence(4)) \o Tlv("skip", parseUint64Sequence(8))
    \o Tlv("skip", parseUint64Sequence(8))
GetSystemSelectionPreference        == Ask \o parseSystemSelectionPreferenceResponse
buildSystemSelectionPreferenceTLVs == Length(1)
SetSystemSelectionPreference        == buildSystemSelectionPreferenceTLVs \o Refuse \o Query

parseLTECellNeighbor == 10
parseCellLocationInfoPacket ==
    Tlv("skip", Field(18, "skip") \o Found) \o Tlv("skip", Field(15, "skip") \o Found)
    \o Tlv("skip", Field(18, "skip") \o Found
                   \o If(1, Count(1) \o NeedTimes(parseLTECellNeighbor, "skip") \o TakeTimes(parseLTECellNeighbor)))
    \o Tlv("skip", Need(2, "skip") \o Take(1) \o Count(1) \o Found
                   \o Each(Need(6, "skip") \o Take(5) \o Count(1)
                           \o NeedTimes(parseLTECellNeighbor, "skip") \o TakeTimes(parseLTECellNeighbor)))
    \o Tlv("skip", Field(4, "skip") \o Found) \o Tlv("skip", Field(4, "skip") \o Found)
    \o Tlv("skip", Field(4, "skip") \o Found)
    \o Tlv("skip", Need(20, "skip") \o Found \o Take(20) \o If(2, Take(2)))
    \o NeedFound("fail")
GetCellLocationInfo             == Ask \o Result \o parseCellLocationInfoPacket
ParseCellLocationInfoIndication == parseCellLocationInfoPacket

parseNetworkTimePacket ==
    Tlv("skip", Field(11, "fail") \o Found) \o Tlv("skip", Field(11, "fail") \o Found) \o NeedFound("fail")
GetNetworkTime == Ask \o Result \o parseNetworkTimePacket
\* The split form, or the form of the response.
ParseNetworkTimeIndication ==
    Either(Tlv("fail", Field(8, "fail") \o If(3, Take(3)))
               \o Tlv("skip", Field(1, "fail")) \o Tlv("skip", Field(1, "fail")) \o Tlv("skip", Field(1, "fail")),
           parseNetworkTimePacket)

ParseNetworkRejectIndication == May(5) \o Whole

GetLTECphyCAInfo ==
    Query \o May(4) \o May(10) \o May(1) \o Either(Tlv("skip", Entries(15)), May(14))

parseChain  == May(21)
GetTxRxInfo == Query \o parseChain \o parseChain \o parseChain \o parseChain \o May(5)

Operations ==
    [GetServingSystem |-> GetServingSystem, GetSignalStrength |-> GetSignalStrength,
     RegisterIndicationsWithConfig |-> RegisterIndicationsWithConfig,
     SetEventReportExtended |-> SetEventReportExtended,
     InitiateNetworkRegister |-> InitiateNetworkRegister, ForceNetworkSearch |-> ForceNetworkSearch,
     AttachDetach |-> AttachDetach, GetSignalInfo |-> GetSignalInfo, GetSysInfo |-> GetSysInfo,
     GetOperatorName |-> GetOperatorName, GetPLMNName |-> GetPLMNName,
     ConfigSignalInfoV2 |-> ConfigSignalInfoV2, PerformNetworkScan |-> PerformNetworkScan,
     GetRFBandInfo |-> GetRFBandInfo, GetTechnologyPreference |-> GetTechnologyPreference,
     SetTechnologyPreference |-> SetTechnologyPreference,
     GetSystemSelectionPreference |-> GetSystemSelectionPreference,
     SetSystemSelectionPreference |-> SetSystemSelectionPreference,
     GetCellLocationInfo |-> GetCellLocationInfo, GetNetworkTime |-> GetNetworkTime,
     GetLTECphyCAInfo |-> GetLTECphyCAInfo, GetTxRxInfo |-> GetTxRxInfo]

Indications ==
    [ServingSystem |-> ParseServingSystemIndication, SysInfo |-> ParseSysInfoIndication,
     OperatorName |-> ParseOperatorNameIndication, SignalInfo |-> ParseSignalInfoIndication,
     IncrementalNetworkScan |-> ParseIncrementalNetworkScanIndication,
     CellLocationInfo |-> ParseCellLocationInfoIndication,
     NetworkTime |-> ParseNetworkTimeIndication, NetworkReject |-> ParseNetworkRejectIndication]
=============================================================================
