----------------------------- MODULE SysExCodec -----------------------------
(***************************************************************************)
(* The SysEx wire format (pygt1000/sysex_codec.py): framing a DT1 or RQ1   *)
(* message and reading a data reply or an identity reply.  Bytes are       *)
(* naturals, messages sequences of them.                                   *)
(***************************************************************************)
EXTENDS Integers, Sequences

SysexStart == <<240>>
SysexEnd == <<247>>
ManufacturerId == <<65>>
DeviceIdBcast == 127
ModelId == <<0, 0, 0, 79>>
Rq1CommandId == <<17>>
Dt1CommandId == <<18>>
Rq1SysexHeader == ManufacturerId \o <<DeviceIdBcast>> \o ModelId \o Rq1CommandId
Dt1SysexHeader == ManufacturerId \o <<DeviceIdBcast>> \o ModelId \o Dt1CommandId
Gt1000Family == <<79, 3>>

-----------------------------------------------------------------------------
(* Slips this code could have had.  Nothing uses them: each shows that a    *)
(* property notices the slip.                                              *)

\* One byte too early.
DeviceIdByteEarly(message) == message[2]
\* The broadcast address stays.
HeaderAsIs(header, device_id) == header

-----------------------------------------------------------------------------
ByteSum(bytes) ==
    LET sum[i \in 0..Len(bytes)] ==
          IF i = 0 THEN 0 ELSE sum[i - 1] + bytes[i]
    IN sum[Len(bytes)]

CalculateChecksum(data) == <<128 - (ByteSum(data) % 128)>>

\* The negotiated device id takes the place of the broadcast address.
HeaderFor(header, device_id) == [header EXCEPT ![2] = device_id]

Framed(device_id, header, payload) ==
    SysexStart \o HeaderFor(header, device_id) \o payload
        \o CalculateChecksum(payload) \o SysexEnd

EncodeDt1(device_id, payload) == Framed(device_id, Dt1SysexHeader, payload)

EncodeRq1(device_id, address, length) ==
    Framed(device_id, Rq1SysexHeader, address \o length)

-----------------------------------------------------------------------------
ReplyHeader(device_id) ==
    SysexStart \o ManufacturerId \o <<device_id>> \o ModelId \o Dt1CommandId

\* The bytes between the address and the checksum.
ReplyData(message) == SubSeq(message, 13, Len(message) - 2)

\* Whether parse_data_reply takes the frame for a data reply to us ...
IsDataReply(device_id, message) ==
    /\ Len(message) >= 12
    /\ SubSeq(message, 1, 8) = ReplyHeader(device_id)

\* ... and the address and data it makes of it.
ParseDataReply(message) ==
    [offset |-> SubSeq(message, 9, 12), data |-> ReplyData(message)]

-----------------------------------------------------------------------------
IsIdentityReply(message) ==
    /\ Len(message) = 15
    /\ SubSeq(message, 1, 2) = <<240, 126>>
    /\ SubSeq(message, 4, 8) = <<6, 2>> \o ManufacturerId \o Gt1000Family

\* The model of the two software revision bytes; any other is unknown.
ModelOf == [revs \in {<<0, 1>>, <<1, 1>>, <<2, 0>>} |->
              IF revs = <<0, 1>> THEN "GT-1000"
              ELSE IF revs = <<1, 1>> THEN "GT-1000L" ELSE "GT-1000CORE"]

DeviceIdByte(message) == message[3]

ParseIdentityReply(message) ==
    LET revs == <<message[11], message[13]>> IN
    [device_id |-> DeviceIdByte(message),
     model |-> IF revs \in DOMAIN ModelOf THEN ModelOf[revs] ELSE "unknown"]

=============================================================================
