------------------------------- MODULE UimMessages -------------------------------
(***************************************************************************)
(* The operations and decoders of the UIM service (pkg/qmi/uim.go,         *)
(* uim_misc.go, uim_application.go), with the files of the card that they  *)
(* decode.  Paths and identifiers are arguments whose length is one byte.  *)
(***************************************************************************)
EXTENDS QmiSteps

(***************************************************************************)
(* The card and its applications.                                          *)
(***************************************************************************)
\* The fixed part, up to the number of applications, which body reads.
getCardStatusValue(body) == Query \o Tlv("fail", Need(15, "fail") \o Take(14) \o Count(1) \o body)

\* Mutant: the PIN state of an application is taken to be there.
parseUIMCardStatusAppsTrusting ==
    Each(Need(7, "skip") \o Take(6) \o Count(1) \o NeedTimes(1, "skip") \o TakeTimes(1) \o Take(7))
\* The list ends at the first application that is cut off.
parseUIMCardStatusApps ==
    Each(Need(7, "skip") \o Take(6) \o Count(1) \o NeedTimes(1, "skip") \o TakeTimes(1) \o Field(7, "skip"))

GetCardStatusDetails == getCardStatusValue(parseUIMCardStatusApps)
GetCardStatus        == GetCardStatusDetails
ListApplications     == getCardStatusValue(parseUIMCardStatusApps)
getCardStatusAID     == getCardStatusValue(parseUIMCardStatusApps) \o Either(Fail, <<>>)

VerifyPIN        == Length(1) \o Query
SetPINProtection == Length(1) \o Query
ChangePIN        == Length(1) \o Length(1) \o Query
UnblockPIN       == Length(1) \o Length(1) \o Query

buildUIMSessionTLV == Length(1)
buildUIMFileTLV    == Length(1)

parseUIMCardResult       == Must(2)
parseSupportedMessagesTLV == Tlv("fail", List(2, 1, "fail"))
GetSupportedMessages      == Query \o parseSupportedMessagesTLV

(***************************************************************************)
(* Logical channels.                                                       *)
(***************************************************************************)
buildOpenLogicalChannelTLVs     == Length(1)
parseOpenLogicalChannelResponse == Result \o Must(1)
OpenLogicalChannel              == buildOpenLogicalChannelTLVs \o Ask \o parseOpenLogicalChannelResponse
parseCloseLogicalChannelResponse == Result
CloseLogicalChannel              == Ask \o parseCloseLogicalChannelResponse
buildSendAPDUTLVs                == Length(2)
parseSendAPDUResponse            == Result \o Tlv("fail", List(2, 1, "fail"))
SendAPDU                         == buildSendAPDUTLVs \o Ask \o parseSendAPDUResponse

(***************************************************************************)
(* Slots.                                                                  *)
(***************************************************************************)
parseSlotStatusTLVs ==
    Tlv("fail", Need(1, "fail") \o Count(1)
                \o Each(Need(10, "fail") \o Take(9) \o Count(1) \o NeedTimes(1, "fail") \o TakeTimes(1)))
    \o Tlv("skip", Need(1, "skip") \o Count(1)
                   \o Each(Need(7, "fail") \o Take(5) \o Count(1)
                           \o NeedTimesMore(1, 1, "fail") \o TakeTimes(1) \o Take(1)))
    \o Tlv("skip", Need(1, "skip") \o Count(1) \o Each(List(1, 1, "fail")))
parseGetSlotStatusResponse   == Result \o parseSlotStatusTLVs
GetSlotStatus                == Ask \o parseGetSlotStatusResponse
ParseUIMSlotStatusIndication == parseSlotStatusTLVs
SwitchSlot                   == Query
PowerOffSIM                  == Query
PowerOnSIM                   == Query

(***************************************************************************)
(* Events, refreshes and provisioning.                                     *)
(***************************************************************************)
RegisterEvents                     == Query \o May(4)
Reset                              == Query
buildChangeProvisioningSessionTLVs == Length(1)
ChangeProvisioningSession          == buildChangeProvisioningSessionTLVs \o Query

buildRefreshRegisterInfoTLV == LengthUpTo(65535) \o LengthUpTo(255)
RefreshRegister             == buildRefreshRegisterInfoTLV \o buildUIMSessionTLV \o Query
RefreshComplete             == buildUIMSessionTLV \o Query
RefreshRegisterAll          == buildUIMSessionTLV \o Query

\* Nothing may follow the files.
parseRefreshEventTLV ==
    Need(6, "fail") \o Take(3) \o Count(1) \o NeedTimesMore(1, 2, "fail") \o TakeTimes(1) \o Count(2)
    \o Each(Need(3, "fail") \o Take(2) \o Count(1) \o NeedTimes(1, "fail") \o TakeTimes(1))
    \o Either(Fail, <<>>)
ParseUIMRefreshIndication == Refuse \o Tlv("fail", parseRefreshEventTLV)

(***************************************************************************)
(* Files.                                                                  *)
(***************************************************************************)
parseReadRecordResponse ==
    Result \o Tlv("skip", Field(2, "fail")) \o Tlv("skip", List(2, 1, "fail"))
    \o Tlv("skip", List(2, 1, "fail")) \o May(4)
ReadRecordWithSession == buildUIMSessionTLV \o buildUIMFileTLV \o Ask \o parseReadRecordResponse

parseGetFileAttributesResponse ==
    Result \o Tlv("skip", Field(2, "fail"))
    \o Tlv("fail", Need(26, "fail") \o Take(24) \o Count(2) \o NeedTimes(1, "fail") \o TakeTimes(1)) \o May(4)
GetFileAttributesWithSession ==
    buildUIMSessionTLV \o buildUIMFileTLV \o Ask \o parseGetFileAttributesResponse

\* 2+contentLen is computed in 16 bits before it is compared with the length of the TLV.
ReadTransparentWithSession ==
    buildUIMSessionTLV \o buildUIMFileTLV \o Query
    \o Either(Tlv("skip", Need(2, "fail") \o Count(2) \o NeedTimesInWord(2, "fail") \o TakeTimes(1)),
              Whole)

\* The file is looked for at three paths.
readSIMTransparentFallback ==
    Try(ReadTransparentWithSession, Try(ReadTransparentWithSession, ReadTransparentWithSession))
readRecordAtPath == ReadRecordWithSession

buildUIMWriteRecordTLV == Length(2)
WriteRecordWithSession == buildUIMWriteRecordTLV \o buildUIMSessionTLV \o buildUIMFileTLV \o Query

Depersonalization             == Ask \o Try(Result, May(2) \o Fail)
parseUIMPersonalizationStatus == Need(1, "skip") \o Count(1) \o Each(Field(3, "skip"))
GetConfiguration              ==
    Query \o May(1) \o Tlv("skip", Need(1, "skip") \o parseUIMPersonalizationStatus) \o May(1)

(***************************************************************************)
(* What the files hold.  Tlv stands for the bytes that were read.          *)
(***************************************************************************)
\* Swapped digits: any number of bytes.
decodeSwappedBCD == <<>>

GetICCID ==
    Try(ReadTransparentWithSession, ReadTransparentWithSession)
    \o Tlv("fail", Need(1, "fail") \o decodeSwappedBCD)
GetIMSI ==
    readSIMTransparentFallback
    \o Tlv("fail", Need(2, "fail") \o Count(1) \o Block(NeedTimes(1, "skip") \o TakeTimes(1) \o decodeSwappedBCD))
    \o Either(Fail, <<>>)

decodeSPNGSM            == Either(Fail, <<>>)
decodeSPNUCS2           == Either(Fail, If(2, Take(2)))
decodeSPNCompressedUCS2(baseBytes) ==
    Need(2 + baseBytes, "fail") \o Take(1) \o Take(1) \o Take(baseBytes) \o Either(decodeSPNGSM, <<>>)

decodeEFSPN ==
    Need(1, "fail") \o If(2, Take(1))
    \o Tlv("fail",
           Need(1, "fail")
             \o Either(Take(1) \o decodeSPNUCS2,
                       Either(Either(decodeSPNCompressedUCS2(1), decodeSPNCompressedUCS2(2)), decodeSPNGSM)))
    \o Either(Fail, <<>>)
GetNativeSPN == readSIMTransparentFallback \o Tlv("fail", decodeEFSPN)

GetGID1 == readSIMTransparentFallback
GetGID2 == readSIMTransparentFallback

\* A bit of the table is a service.
decodeSIMServiceTable == Block(Need(1, "skip") \o If(1, Take(1)))
GetSIMServiceTable    == readSIMTransparentFallback \o Tlv("skip", decodeSIMServiceTable)

decodeSIMAlphaIdentifier ==
    Need(1, "fail")
    \o Either(Take(1) \o decodeSPNUCS2,
              Either(Either(decodeSPNCompressedUCS2(1), decodeSPNCompressedUCS2(2)), decodeSPNGSM))
decodePackedGSM7     == Either(Fail, decodeSPNGSM)
decodePNNNetworkName ==
    Need(1, "fail")
    \o Either(If(2, Take(1) \o Either(decodePackedGSM7, decodeSPNUCS2)), decodeSIMAlphaIdentifier)

\* Tags and lengths; a name that cannot be decoded is left out.
decodePNNRecord ==
    Need(1, "skip") \o AnyCount
    \o Each(Need(2, "skip") \o Take(1) \o Count(1) \o NeedTimes(1, "skip") \o TakeTimes(1)
            \o Tlv("skip", Try(decodePNNNetworkName, <<>>)))
decodeOPLPLMN   == Take(3)
decodeOPLRecord == Need(8, "skip") \o decodeOPLPLMN \o Take(5)

\* The records' size and number, of the file at the first path that has them; else the
\* first record itself is tried, with a length that is assumed.
recordLayout ==
    Try(GetFileAttributesWithSession \o Either(Fail, <<>>),
        Try(readRecordAtPath, Try(readRecordAtPath, readRecordAtPath)))

\* Up to 32 of them, to the first that is empty.
readPNNRecords ==
    recordLayout \o AnyCount \o Block(Each(readRecordAtPath \o Either(Skip, Tlv("skip", decodePNNRecord))))
readOPLRecords ==
    recordLayout \o AnyCount \o Block(Each(readRecordAtPath \o Either(Skip, Tlv("skip", decodeOPLRecord))))
GetPNNRecords == readPNNRecords
GetOPLRecords == readOPLRecords

\* The length of the MNC is in a file that may be missing; it is two digits then.
getNativeMCCMNCFromIMSI ==
    GetIMSI \o Either(Fail, <<>>) \o Try(readSIMTransparentFallback, <<>>) \o May(4) \o Either(Fail, <<>>)
nativeMCCMNCFromOPLRecords == Either(Fail, <<>>)
GetNativeMCCMNC            ==
    Try(GetOPLRecords \o nativeMCCMNCFromOPLRecords, getNativeMCCMNCFromIMSI)

\* Whatever can be read; it is an error if nothing can.
GetSIMMetadata ==
    Try(GetGID1, <<>>) \o Try(GetGID2, <<>>) \o Try(GetSIMServiceTable, <<>>) \o Try(GetPNNRecords, <<>>)
    \o Try(GetOPLRecords, <<>>) \o Either(<<>>, Try(getNativeMCCMNCFromIMSI, <<>>)) \o Either(Fail, <<>>)

Operations ==
    [GetCardStatusDetails |-> GetCardStatusDetails, ListApplications |-> ListApplications,
     getCardStatusAID |-> getCardStatusAID, VerifyPIN |-> VerifyPIN,
     SetPINProtection |-> SetPINProtection, ChangePIN |-> ChangePIN, UnblockPIN |-> UnblockPIN,
     GetSupportedMessages |-> GetSupportedMessages, OpenLogicalChannel |-> OpenLogicalChannel,
     CloseLogicalChannel |-> CloseLogicalChannel, SendAPDU |-> SendAPDU,
     GetSlotStatus |-> GetSlotStatus, SwitchSlot |-> SwitchSlot, PowerOffSIM |-> PowerOffSIM,
     PowerOnSIM |-> PowerOnSIM, RegisterEvents |-> RegisterEvents, Reset |-> Reset,
     ChangeProvisioningSession |-> ChangeProvisioningSession,
     RefreshRegister |-> RefreshRegister, RefreshComplete |-> RefreshComplete,
     RefreshRegisterAll |-> RefreshRegisterAll, ReadRecordWithSession |-> ReadRecordWithSession,
     GetFileAttributesWithSession |-> GetFileAttributesWithSession,
     ReadTransparentWithSession |-> ReadTransparentWithSession,
     WriteRecordWithSession |-> WriteRecordWithSession, Depersonalization |-> Depersonalization,
     GetConfiguration |-> GetConfiguration, GetICCID |-> GetICCID, GetIMSI |-> GetIMSI,
     GetNativeSPN |-> GetNativeSPN, GetGID1 |-> GetGID1, GetGID2 |-> GetGID2,
     GetSIMServiceTable |-> GetSIMServiceTable, GetPNNRecords |-> GetPNNRecords,
     GetOPLRecords |-> GetOPLRecords, GetNativeMCCMNC |-> GetNativeMCCMNC,
     GetSIMMetadata |-> GetSIMMetadata]

Indications ==
    [ParseUIMSlotStatusIndication |-> ParseUIMSlotStatusIndication,
     ParseUIMRefreshIndication |-> ParseUIMRefreshIndication]
=================================================================================
