------------------------------ MODULE SmscMessages ------------------------------
(***************************************************************************)
(* The address of the SMS centre, read from the card (pkg/manager/smsc.go) *)
(* with commands to the card on two channels or with the modem's file      *)
(* operations, and the length of a received message (sms_trim.go).  What   *)
(* happens once an address was found is the argument found.                *)
(***************************************************************************)
EXTENDS UimMessages

(***************************************************************************)
(* What the bytes of the card hold.                                        *)
(***************************************************************************)
\* Swapped digits, any number of them; the address must look like one.
decodeAddressValue == Need(1, "skip") \o Take(1) \o Either(Skip, <<>>)
isLikelySMSC(found) == Either(Skip, found)

parseSMSCFromTSServiceCentreAddress(found) ==
    Block(Need(1, "skip") \o Count(1) \o AtLeast(2, "skip") \o Either(Skip, <<>>)
          \o NeedTimes(1, "skip") \o decodeAddressValue \o isLikelySMSC(found))

\* Mutant: the length is not compared with what is left of the record.
decodeSMSCAtOffsetTrusting(offset, found) ==
    Block(Need(offset + 2, "skip") \o Take(offset) \o Count(1) \o AtLeast(2, "skip")
          \o Either(Skip, <<>>) \o TakeTimes(1) \o isLikelySMSC(found))

decodeSMSCAtOffset(offset, found) ==
    Block(Need(offset + 2, "skip") \o Take(offset) \o Count(1) \o AtLeast(2, "skip")
          \o Either(Skip, <<>>) \o NeedTimes(1, "skip") \o decodeAddressValue \o isLikelySMSC(found))

\* At its usual place, and then anywhere.
parseSMSCFromSMSPRecord(found) ==
    decodeSMSCAtOffset(13, found) \o AnyCount \o Each(decodeSMSCAtOffset(0, found))

\* Tags and lengths; a long length is the next bytes, added up in an int, which wraps
\* when there are more of them than it has.
parseLinearFixedMetaFromFCP ==
    Block(Need(2, "skip") \o Either(Take(2), <<>>) \o AnyCount
          \o Each(Need(2, "skip") \o Take(1) \o Count(1)
                  \o Either(AtLeast(1, "skip") \o NeedTimes(1, "skip") \o TakeTimes(1)
                              \o AnyWord \o NeedTimesInWord(2, "skip") \o TakeTimes(1),
                            Either(NeedTimes(1, "skip") \o TakeTimes(1),
                                   Field(5, "skip") \o Either(Skip, <<>>)))))

(***************************************************************************)
(* Commands to the card.  An answer ends with two bytes of status.         *)
(***************************************************************************)
apduStatusFromResp == Tlv("fail", Field(2, "fail"))
isAPDUSuccess == Field(2, "fail") \o Either(Fail, <<>>)

\* Mutant: the answer to a repeated command is taken for a success.
transmitBasicAPDUOnce == SendAPDU \o apduStatusFromResp \o Either(Ask, <<>>)

\* The command is repeated with the length the card asks for, and what the card holds
\* back is fetched.
transmitBasicAPDUWithFollowUp ==
    SendAPDU \o apduStatusFromResp \o Either(SendAPDU \o apduStatusFromResp, <<>>)
    \o Either(SendAPDU, <<>>)

extractAPDUSuccessData(body) == Tlv("fail", isAPDUSuccess \o body)
command(body) == transmitBasicAPDUWithFollowUp \o extractAPDUSuccessData(body)

\* By the application's name, else by the directories of a GSM card.
selectUSIMOrFallback == Try(command(<<>>), command(<<>>) \o command(<<>>))

\* A record whose length was wrong is read again; the first that is not there ends it.
readSMSCFromEFSMSP(found) ==
    command(parseLinearFixedMetaFromFCP) \o AnyCount
    \o Block(Each(Try(transmitBasicAPDUWithFollowUp
                        \o Either(transmitBasicAPDUWithFollowUp, <<>>) \o Either(Skip, <<>>)
                        \o extractAPDUSuccessData(parseSMSCFromSMSPRecord(found)), <<>>)))
    \o Fail

readSMSCFromEFPSISMSC(found) ==
    command(<<>>) \o command(parseSMSCFromTSServiceCentreAddress(found)) \o Fail

getSMSCFromSelectedFiles(found) ==
    Try(readSMSCFromEFSMSP(found), <<>>) \o readSMSCFromEFPSISMSC(found)

getSMSCFromUIM == Try(selectUSIMOrFallback, <<>>) \o getSMSCFromSelectedFiles(Return)

\* The channel is closed whatever comes of the reading, and so is what comes of that.
getSMSCFromUIMLogicalChannel ==
    LET closed == Try(CloseLogicalChannel, <<>>) IN
    OpenLogicalChannel \o Try(getSMSCFromSelectedFiles(closed \o Return), <<>>) \o closed \o Fail

(***************************************************************************)
(* The modem's file operations, at each of several paths.                  *)
(***************************************************************************)
readSMSCFromEFSMSPWithUIMRead ==
    Try(GetFileAttributesWithSession, <<>>) \o AnyCount
    \o Each(Try(ReadRecordWithSession \o Tlv("skip", parseSMSCFromSMSPRecord(Return)), <<>>)) \o Fail

readSMSCFromEFPSISMSCWithUIMRead ==
    ReadTransparentWithSession \o Tlv("fail", parseSMSCFromTSServiceCentreAddress(Return)) \o Fail

getSMSCFromUIMFiles ==
    AnyCount \o Each(Try(readSMSCFromEFSMSPWithUIMRead, <<>>))
    \o AnyCount \o Each(Try(readSMSCFromEFPSISMSCWithUIMRead, <<>>)) \o Fail

\* One way after the other, while the context has not ended.
querySMSCFromDevice ==
    Refuse \o Try(getSMSCFromUIM, <<>>) \o Refuse \o Try(getSMSCFromUIMLogicalChannel, <<>>)
    \o Refuse \o getSMSCFromUIMFiles

\* The fixed fields of a message, and its data.
deliverTPDUDeclaredLength ==
    Tlv("fail", Need(1, "fail") \o Take(1) \o Need(2, "fail") \o Count(1) \o Take(1)
                \o NeedTimes(1, "fail") \o TakeTimes(1) \o Need(10, "fail") \o Take(9) \o Count(1)
                \o Either(Fail, <<>>) \o NeedTimes(1, "fail") \o TakeTimes(1))

Readers ==
    [querySMSCFromDevice |-> querySMSCFromDevice,
     trimDeliverTPDUToDeclaredLength |-> deliverTPDUDeclaredLength]
=================================================================================
