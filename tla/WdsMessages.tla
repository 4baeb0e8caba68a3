------------------------------- MODULE WdsMessages -------------------------------
(***************************************************************************)
(* The operations and decoders of the data services: WDS (pkg/qmi/wds.go,  *)
(* wds_lte_attach.go), WDA (wda.go) and DSD (dsd.go).                      *)
(***************************************************************************)
EXTENDS QmiSteps

SetIPFamilyPreference == Query

\* The preference may fail; a refusal is an error that carries the reason of the modem.
StartNetworkInterface ==
    Try(SetIPFamilyPreference, <<>>) \o Ask \o Try(Result, May(4) \o Fail) \o Must(4)

StopNetworkInterfaceWithOptions == Query

parsePacketServiceStatusPacket     == Must(1)
GetPacketServiceStatus             == Ask \o Result \o parsePacketServiceStatusPacket
ParsePacketServiceStatusIndication == parsePacketServiceStatusPacket

\* Reads 16 bytes, two by two.
parseIPv6DelegatedPrefixAddress == Take(16)

\* Lists end early where the entries do.
parseRuntimeSettings ==
    May(4) \o May(4) \o May(4) \o May(4) \o May(4)
    \o May(17) \o May(16) \o May(16) \o May(16)
    \o Tlv("skip", Need(17, "skip") \o parseIPv6DelegatedPrefixAddress \o Take(1))
    \o May(4) \o May(1)
    \o Tlv("skip", Need(1, "skip") \o Count(1) \o Each(Field(4, "skip")))
    \o Tlv("skip", Need(1, "skip") \o Count(1) \o Each(Field(16, "skip")))
    \o Tlv("skip", Need(1, "skip") \o Count(1)
                   \o Each(Need(2, "skip") \o Count(2) \o NeedTimes(1, "skip") \o TakeTimes(1)))
    \o May(1)
GetRuntimeSettings == SetIPFamilyPreference \o Query \o parseRuntimeSettings

RegisterEventReport == Query
BindMuxDataPort     == Query

parseProfileList ==
    Tlv("skip", Need(1, "skip") \o Count(1)
                \o Each(Need(3, "skip") \o Take(2) \o Count(1) \o NeedTimes(1, "skip") \o TakeTimes(1)))

\* Mutant: the answer to the last form is not looked at.
GetProfileListBlind == Try(Query, Try(Query, Ask)) \o parseProfileList
\* The request is tried in three forms, until one is granted.
GetProfileList == Try(Query, Try(Query, Query)) \o parseProfileList

parseProfileSettings == Whole \o May(1) \o Whole \o May(1)
GetProfileSettings   == Try(Query, Query) \o parseProfileSettings

\* A profile that cannot be read is passed over.
pickIMSProfileIndex     == AnyCount \o Each(Try(GetProfileSettings, <<>>))
DiscoverIMSProfileIndex == GetProfileList \o pickIMSProfileIndex

parseChannelRatesResponse    == Result \o Must(16)
GetChannelRates              == Ask \o parseChannelRatesResponse

\* The counters are read before the result is looked at: those of the last call come with
\* an error.
parsePacketStatisticsResponse ==
    May(4) \o May(4) \o May(4) \o May(4) \o May(4) \o May(4)
    \o May(8) \o May(8) \o May(8) \o May(8) \o May(4) \o May(4) \o Result
GetPacketStatistics == Ask \o parsePacketStatisticsResponse

parseAutoconnectSettingsResponse ==
    Result \o Tlv("skip", Field(1, "skip") \o Found) \o May(1) \o NeedFound("fail")
GetAutoconnectSettings == Ask \o parseAutoconnectSettingsResponse
SetAutoconnectSettings == Refuse \o Query

parseDataBearerTechnologyResponse ==
    Tlv("skip", Field(1, "skip") \o Found) \o May(1) \o Result \o NeedFound("fail")
GetDataBearerTechnology == Ask \o parseDataBearerTechnologyResponse

parseBearerTechnologyTLV == Field(9, "fail")
parseCurrentBearerTechnologyResponse ==
    Tlv("skip", parseBearerTechnologyTLV \o Found) \o Tlv("skip", parseBearerTechnologyTLV)
    \o Result \o NeedFound("fail")
GetCurrentDataBearerTechnology == Ask \o parseCurrentBearerTechnologyResponse

parseCreateProfileResponse == Result \o Must(2)
CreateProfile              == Ask \o parseCreateProfileResponse
ModifyProfileSettings      == Refuse \o Query
DeleteProfile              == Query

GetLTEAttachParameters        == Query \o Whole \o May(1) \o May(1)
parseUint8PrefixedUint16Array == List(1, 2, "skip")
GetLTEAttachPDNList           ==
    Query \o Tlv("skip", Need(1, "skip") \o parseUint8PrefixedUint16Array)
          \o Tlv("skip", Need(1, "skip") \o parseUint8PrefixedUint16Array)

(***************************************************************************)
(* WDA.                                                                    *)
(***************************************************************************)
SetDataFormat          == Query
parseDataFormatDetails == May(1) \o May(4) \o May(4) \o May(4) \o May(4) \o May(4) \o May(4) \o May(4)
GetDataFormatDetails   == Query \o parseDataFormatDetails
SetQMAPSettings        == Query
GetQMAPSettings        == Query \o May(1)
SetLoopbackConfig      == Query

(***************************************************************************)
(* DSD.                                                                    *)
(***************************************************************************)
parseDSDSystems                == List(1, 16, "skip")
GetSystemStatus                == Query \o Tlv("skip", Need(1, "skip") \o parseDSDSystems)
SystemStatusChange             == Query
GetAPNInfo                     == Query \o Whole
ParseDSDSystemStatusIndication == Tlv("skip", Need(1, "skip") \o parseDSDSystems)

Operations ==
    [SetIPFamilyPreference |-> SetIPFamilyPreference,
     StartNetworkInterface |-> StartNetworkInterface,
     DiscoverIMSProfileIndex |-> DiscoverIMSProfileIndex,
     StopNetworkInterfaceWithOptions |-> StopNetworkInterfaceWithOptions,
     GetPacketServiceStatus |-> GetPacketServiceStatus,
     GetRuntimeSettings |-> GetRuntimeSettings, RegisterEventReport |-> RegisterEventReport,
     BindMuxDataPort |-> BindMuxDataPort, GetProfileList |-> GetProfileList,
     GetProfileSettings |-> GetProfileSettings, GetChannelRates |-> GetChannelRates,
     GetPacketStatistics |-> GetPacketStatistics,
     GetAutoconnectSettings |-> GetAutoconnectSettings,
     SetAutoconnectSettings |-> SetAutoconnectSettings,
     GetDataBearerTechnology |-> GetDataBearerTechnology,
     GetCurrentDataBearerTechnology |-> GetCurrentDataBearerTechnology,
     CreateProfile |-> CreateProfile, ModifyProfileSettings |-> ModifyProfileSettings,
     DeleteProfile |-> DeleteProfile, GetLTEAttachParameters |-> GetLTEAttachParameters,
     GetLTEAttachPDNList |-> GetLTEAttachPDNList, SetDataFormat |-> SetDataFormat,
     GetDataFormatDetails |-> GetDataFormatDetails, SetQMAPSettings |-> SetQMAPSettings,
     GetQMAPSettings |-> GetQMAPSettings, SetLoopbackConfig |-> SetLoopbackConfig,
     GetSystemStatus |-> GetSystemStatus, SystemStatusChange |-> SystemStatusChange,
     GetAPNInfo |-> GetAPNInfo]

Indications ==
    [ParsePacketServiceStatusIndication |-> ParsePacketServiceStatusIndication,
     ParseDSDSystemStatusIndication |-> ParseDSDSystemStatusIndication]
=================================================================================
