------------------------------- MODULE DmsMessages -------------------------------
(***************************************************************************)
(* The operations and decoders of the DMS service (pkg/qmi/dms.go,         *)
(* dms_misc.go, dms_ck.go, dms_event_report.go, dms_get_ids.go).           *)
(***************************************************************************)
EXTENDS QmiSteps

CONSTANT GetCardStatus   \* the operation of the UIM service

GetPINStatus == Query \o Must(3)

\* A modem that has no DMS UIM state is asked through the UIM service, which is opened for
\* it.  The state of the PIN is asked only when the card is locked, and may stay unknown.
GetSIMStatus ==
    Ask \o Try(Result, Either(Fail, Query \o GetCardStatus \o Return))
    \o Must(1) \o Either(<<>>, Try(GetPINStatus, <<>>))

\* How many tries are left is read of the refusal.
VerifyPIN == LengthUpTo(8) \o Ask \o Try(Result, May(1) \o Fail)

GetOperatingMode == Query \o Must(1)
SetOperatingMode == Query
RadioPower       == SetOperatingMode

SetPINProtection == Length(1) \o Query
ChangePIN        == Length(1) \o Length(1) \o Query
UnblockPIN       == Length(1) \o Length(1) \o Query

GetDeviceSerialNumbers == Query \o Whole \o Whole \o Whole
getStringValue         == Query \o Tlv("fail", <<>>)
GetManufacturer        == getStringValue
GetModel               == getStringValue
GetHardwareRevision    == getStringValue
GetSoftwareVersion     == getStringValue
GetMSISDN              == getStringValue
GetFactorySKU          == getStringValue
GetIMSI                == Query \o Tlv("fail", Need(1, "fail"))
GetICCID               == Query \o Tlv("fail", Need(1, "fail"))
GetDeviceRevision      == Query \o Whole \o Whole

\* Mutant: the list of radio interfaces is taken to be complete.
parseDeviceCapabilitiesTrusting ==
    Result \o Tlv("fail", Need(11, "fail") \o Take(10) \o Count(1) \o TakeTimes(1))
parseDeviceCapabilitiesResponse ==
    Result \o Tlv("fail", Need(11, "fail") \o Take(10) \o Count(1) \o NeedTimes(1, "fail") \o TakeTimes(1))
GetCapabilities == Ask \o parseDeviceCapabilitiesResponse

parsePowerStateResponse == Result \o Must(2)
GetPowerState           == Ask \o parsePowerStateResponse

parseUint48LE     == Take(6)
parseTimeResponse == Result \o Tlv("fail", Need(8, "fail") \o parseUint48LE \o Take(2)) \o May(8) \o May(8)
GetTime           == Ask \o parseTimeResponse

parsePRLVersionResponse      == Result \o Must(2) \o May(1)
GetPRLVersion                == Ask \o parsePRLVersionResponse
parseActivationStateResponse == Result \o Must(2)
GetActivationState           == Ask \o parseActivationStateResponse
parseUserLockStateResponse   == Result \o Must(1)
GetUserLockState             == Ask \o parseUserLockStateResponse
SetUserLockState             == Refuse \o Query
SetUserLockCode              == Refuse \o Query

parsePrefixedBytesResponse(prefixSize) == Result \o Tlv("fail", List(prefixSize, 1, "fail"))
ReadUserData                           == Ask \o parsePrefixedBytesResponse(2)
WriteUserData                          == LengthUpTo(65535) \o Query

parseMACAddressResponse == Result \o Tlv("fail", List(1, 1, "fail"))
GetMACAddress           == Ask \o parseMACAddressResponse

parseUint16Array              == List(2, 2, "fail")
parseBandCapabilitiesResponse ==
    Result \o Tlv("skip", Field(8, "skip") \o Found) \o Tlv("skip", Field(8, "skip") \o Found)
    \o Tlv("skip", parseUint16Array \o Either(Found, <<>>))
    \o Tlv("skip", parseUint16Array \o Either(Found, <<>>)) \o NeedFound("fail")
GetBandCapabilities == Ask \o parseBandCapabilitiesResponse

(***************************************************************************)
(* Firmware images, files and activation.                                  *)
(***************************************************************************)
ResetService           == Query
ReadERIFile            == Query \o Tlv("skip", List(2, 1, "skip"))
RestoreFactoryDefaults == Query
ValidateSPC            == Query
SetFirmwareID          == Query
UIMGetState            == Query \o May(1)

\* A build id ends with a null, which the last one may not have.
BuildId                == If(1, Take(1))
parseDMSFirmwareImages == Need(1, "skip") \o Count(1) \o Each(Field(17, "skip") \o BuildId)
GetFirmwarePreference  == Query \o Tlv("skip", Need(1, "skip") \o parseDMSFirmwareImages)
SetFirmwarePreference  == Length(1) \o Query

\* A list of builds that ends early does not end the list of images.
parseDMSStoredImages ==
    Need(1, "skip") \o Count(1)
    \o Each(Need(4, "skip") \o Take(3) \o Count(1) \o Block(Each(Field(18, "skip") \o BuildId)))
ListStoredImages   == Query \o Tlv("skip", Need(1, "skip") \o parseDMSStoredImages)
DeleteStoredImage  == Query
GetStoredImageInfo == Query

ActivateAutomatic == Query
ActivateManual    == Query

GetCKStatus      == Query \o May(3) \o May(1)
SetCKProtection  == Query \o May(1)
UnblockCK        == Query \o May(1)
IsFacilityLocked == GetCKStatus

SetEventReport                == Query
ParseDMSEventReportIndication == May(2) \o May(1) \o May(1)
GetIDs                        == Query \o Whole \o Whole \o Whole \o Whole

Operations ==
    [GetPINStatus |-> GetPINStatus, GetSIMStatus |-> GetSIMStatus, VerifyPIN |-> VerifyPIN,
     GetOperatingMode |-> GetOperatingMode, SetOperatingMode |-> SetOperatingMode,
     SetPINProtection |-> SetPINProtection, ChangePIN |-> ChangePIN, UnblockPIN |-> UnblockPIN,
     GetDeviceSerialNumbers |-> GetDeviceSerialNumbers, getStringValue |-> getStringValue,
     GetIMSI |-> GetIMSI, GetICCID |-> GetICCID, GetDeviceRevision |-> GetDeviceRevision,
     GetCapabilities |-> GetCapabilities, GetPowerState |-> GetPowerState, GetTime |-> GetTime,
     GetPRLVersion |-> GetPRLVersion, GetActivationState |-> GetActivationState,
     GetUserLockState |-> GetUserLockState, SetUserLockState |-> SetUserLockState,
     SetUserLockCode |-> SetUserLockCode, ReadUserData |-> ReadUserData,
     WriteUserData |-> WriteUserData, GetMACAddress |-> GetMACAddress,
     GetBandCapabilities |-> GetBandCapabilities, ResetService |-> ResetService,
     ReadERIFile |-> ReadERIFile, RestoreFactoryDefaults |-> RestoreFactoryDefaults,
     ValidateSPC |-> ValidateSPC, SetFirmwareID |-> SetFirmwareID, UIMGetState |-> UIMGetState,
     GetFirmwarePreference |-> GetFirmwarePreference,
     SetFirmwarePreference |-> SetFirmwarePreference, ListStoredImages |-> ListStoredImages,
     DeleteStoredImage |-> DeleteStoredImage, GetStoredImageInfo |-> GetStoredImageInfo,
     ActivateAutomatic |-> ActivateAutomatic, ActivateManual |-> ActivateManual,
     GetCKStatus |-> GetCKStatus, SetCKProtection |-> SetCKProtection, UnblockCK |-> UnblockCK,
     SetEventReport |-> SetEventReport, GetIDs |-> GetIDs]

Indications ==
    [ParseDMSEventReportIndication |-> ParseDMSEventReportIndication]
=================================================================================
