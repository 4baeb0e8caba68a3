------------------------------- MODULE FrameMessages -------------------------------
(***************************************************************************)
(* The framing (pkg/qmi/frame.go), the version list of the control service *)
(* (ctl.go) and the QRTR wire format (qrtr_wire.go).  Here the bytes left  *)
(* are those of the packet.                                                *)
(***************************************************************************)
EXTENDS QmiSteps

\* A header after its first byte, the length in it read last.
UnmarshalQmuxHeader        == Need(6, "fail") \o Either(Fail, Take(1) \o Count(2) \o Take(3))
UnmarshalQrtrVirtualHeader == Need(7, "fail") \o Either(Fail, Take(1) \o Count(2) \o Take(4))

\* The length counts what follows the marker: with it, the header and the body must fit.
unmarshalFrameHeader ==
    Need(1, "fail")
    \o Either(Fail, Either(UnmarshalQmuxHeader \o AtLeast(5, "fail") \o NeedTimesMore(1, -5, "fail"),
                           UnmarshalQrtrVirtualHeader \o AtLeast(6, "fail") \o NeedTimesMore(1, -6, "fail")))

UnmarshalCTLHeader     == Need(6, "fail") \o Take(4) \o Count(2)
UnmarshalServiceHeader == Need(7, "fail") \o Take(5) \o Count(2)

\* Mutant: the length of a TLV is taken for the truth.
UnmarshalTLVTrusting == Need(3, "fail") \o Take(1) \o Count(2) \o TakeTimes(1)
UnmarshalTLV         == Need(3, "fail") \o Take(1) \o Count(2) \o NeedTimes(1, "fail") \o TakeTimes(1)

\* Zeros that are too short for a TLV end the packet.
ParseTLVs == AnyCount \o Each(UnmarshalTLV) \o Either(Need(3, "fail"), <<>>)

UnmarshalPacket ==
    unmarshalFrameHeader
    \o Either(UnmarshalCTLHeader, UnmarshalServiceHeader) \o NeedTimes(1, "fail") \o ParseTLVs

marshalFrameHeader == Length(2)
Marshal            == Length(2) \o marshalFrameHeader

GetResultCode           == Tlv("fail", Field(4, "fail"))
decodeCTLServiceOnlyTLV     == Tlv("fail", Need(1, "fail") \o Either(Take(1), Need(2, "fail") \o Take(2)))
decodeCTLServiceClientIDTLV == Tlv("fail", Need(2, "fail") \o Either(Take(2), Need(3, "fail") \o Take(3)))

parseServiceVersionList == Tlv("fail", List(1, 5, "fail"))
GetServiceVersions      == Query \o parseServiceVersionList

unmarshalSockaddrQRTR == Need(12, "fail") \o Take(2) \o Either(Fail, Take(10))
unmarshalQRTRCtrlPkt  == Need(20, "fail") \o Take(20)

Operations ==
    [Marshal |-> Marshal, GetServiceVersions |-> GetServiceVersions]

Indications ==
    [UnmarshalPacket |-> UnmarshalPacket, decodeCTLServiceOnlyTLV |-> decodeCTLServiceOnlyTLV,
     decodeCTLServiceClientIDTLV |-> decodeCTLServiceClientIDTLV,
     unmarshalSockaddrQRTR |-> unmarshalSockaddrQRTR,
     unmarshalQRTRCtrlPkt |-> unmarshalQRTRCtrlPkt]
=================================================================================
