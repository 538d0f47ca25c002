------------------------------- MODULE Codecs -------------------------------
(***************************************************************************)
(* The codecs of src/core: WebSocket frames (websocket_server.cpp), RCON   *)
(* packets (rcon.cpp), MCX packets (protocol.cpp) and the PacketSerializer.*)
(* A payload is its length; the bytes before it, where the lengths are,    *)
(* are bytes.  One packet is encoded, a part of the stream that begins     *)
(* with it is received, and what was received is decoded.                  *)
(***************************************************************************)
EXTENDS Integers, Sequences, SequencesExt

CONSTANTS Sizes,    \* payload sizes; an RCON packet's length is an int32_t
          Parts,    \* differences between what arrives and the packet
          Values    \* what a serializer is given: numbers, lengths of strings
SizesAssumption == /\ Sizes \subseteq Nat /\ \A n \in Sizes : n + 10 <= 2147483647
                   /\ Parts \subseteq Int
ValuesAssumption == Values \subseteq Nat /\ \A n \in Values : n \div 16777216 < 256   \* uint32_t

VARIABLES codec, size, head, arrived, got,
          stream, offset, put, taken   \* of the PacketSerializer
vars == <<codec, size, head, arrived, got, stream, offset, put, taken>>

Byte(n, i) == (n \div <<1, 256, 65536, 16777216>>[i + 1]) % 256
LittleEndian(n) == <<Byte(n, 0), Byte(n, 1), Byte(n, 2), Byte(n, 3)>>
Two(bytes, i) == bytes[i] + 256 * bytes[i + 1]
Four(bytes, i) == Two(bytes, i) + 65536 * Two(bytes, i + 2)
Signed(b) == IF b < 128 THEN b ELSE b - 256
Huge == 1024 * 1024 * 1024   \* stands for a size_t near 2^64

Got(how, n, real) == [how |-> how, size |-> n, real |-> real]
NotYet == Got("none", 0, 0)
Refused == Got("refused", 0, 0)
\* More is read than has arrived: what is read then is not defined.
Beyond == Got("beyond", 0, 0)
Throws == Got("throws", 0, 0)

---------------------------------------------------------------------------
McxWhole(len, p) == len >= 5 + p
McxSerialize(n) == <<77, 1, 16, Byte(n, 0), Byte(n, 1)>>
McxDeserialize(h, len) ==
  IF len < 5 \/ h[1] # 77 \/ h[2] # 1 THEN Refused
  ELSE LET p == Two(h, 4)
       IN IF ~McxWhole(len, p) THEN Refused ELSE Got("data", p, p)

\* RCON: the length counts the two ints and the two zeros after it.
RconSerialize(n) == LittleEndian(10 + n) \o LittleEndian(1) \o LittleEndian(2)
RconPayload(p) == p - 2
\* recv is called once for the payload: what has not arrived stays zero.
RconReceive(h, len) ==
  IF len < 12 THEN Refused
  ELSE LET p == Four(h, 1) - 8
       IN IF p <= 0 THEN Got("data", 0, 0)
          ELSE IF p < 2 THEN Throws
          ELSE Got("data", RconPayload(p), IF len - 12 < p - 2 THEN len - 12 ELSE p - 2)

WsEncode(n, mask) ==
  LET m == IF mask THEN 128 ELSE 0 IN
  <<129>> \o (IF n < 126 THEN <<m + n>>
              ELSE IF n < 65536 THEN <<m + 126, Byte(n, 1), Byte(n, 0)>>
              ELSE <<m + 127, 0, 0, 0, 0, Byte(n, 3), Byte(n, 2), Byte(n, 1), Byte(n, 0)>>)
          \o (IF mask THEN <<7, 7, 7, 7>> ELSE <<>>)
\* (frame[2] << 8) | frame[3] of two signed chars, converted to uint64_t.
\* Faulty variant: the bytes are swapped.
WsSwapped(b2, b3) == Signed(b3) * 256 + b2
WsLength16(b2, b3) ==
  IF Signed(b3) < 0 \/ Signed(b2) < 0 THEN Huge ELSE b2 * 256 + b3
WsDecode(h, len) ==
  IF len < 2 THEN Refused
  ELSE IF h[2] % 128 = 126 /\ len < 4 THEN Beyond
  ELSE LET short == h[2] % 128
           p == IF short = 126 THEN WsLength16(h[3], h[4]) ELSE short
           start == (IF short = 126 THEN 4 ELSE IF short = 127 THEN 10 ELSE 2)
                    + (IF h[2] >= 128 THEN 4 ELSE 0)
       IN IF h[2] >= 128 THEN IF start + p > len THEN Beyond ELSE Got("data", p, p)
          ELSE IF start > len THEN Throws   \* substr
          ELSE LET q == IF p < len - start THEN p ELSE len - start IN Got("data", q, q)

---------------------------------------------------------------------------
\* PacketSerializer: values one after the other, read back with an offset.
Item == [kind : {"string", "uint32"}, n : Values]
Bytes(item) == LittleEndian(item.n)
               \o (IF item.kind = "string" THEN [i \in 1..item.n |-> 255] ELSE <<>>)
Width(item) == IF item.kind = "string" THEN 4 + item.n ELSE 4

Serialize(item) == /\ codec = "serializer" /\ Len(put) < 3 /\ taken = <<>>
                   /\ stream' = stream \o Bytes(item) /\ put' = Append(put, item)
                   /\ UNCHANGED <<codec, size, head, arrived, got, offset, taken>>

\* The reader knows the kinds, and no lengths.
Deserialize == /\ codec = "serializer" /\ Len(taken) < Len(put)
               /\ LET item == [kind |-> put[Len(taken) + 1].kind,
                               n |-> Four(stream, offset + 1)]
                  IN taken' = Append(taken, item) /\ offset' = offset + Width(item)
               /\ UNCHANGED <<codec, size, head, arrived, got, stream, put>>

---------------------------------------------------------------------------
Init == /\ codec \in {"mcx", "rcon", "masked", "unmasked", "serializer"}
        /\ size \in (IF codec = "serializer" THEN {0} ELSE Sizes)
        /\ head = <<>> /\ arrived = 0 /\ got = NotYet
        /\ stream = <<>> /\ offset = 0 /\ put = <<>> /\ taken = <<>>

Encode == /\ codec # "serializer" /\ head = <<>>
          /\ head' = CASE codec = "mcx" -> McxSerialize(size)
                       [] codec = "rcon" -> RconSerialize(size)
                       [] OTHER -> WsEncode(size, codec = "masked")
          /\ UNCHANGED <<codec, size, arrived, got, stream, offset, put, taken>>

\* RCON ends its payload with two zeros.  HandleClient receives at most
\* 1024 bytes at a time; the others are given what the caller has.
Total == Len(head) + size + (IF codec = "rcon" THEN 2 ELSE 0)
Limit == IF codec \in {"masked", "unmasked"} THEN 1024 ELSE 1024 * 1024
Arrive == /\ head # <<>> /\ arrived = 0
          /\ arrived' \in {n \in {Total + d : d \in Parts} \cup {1, 3, Len(head)} : n > 0 /\ n <= Limit}
          /\ UNCHANGED <<codec, size, head, got, stream, offset, put, taken>>

Decode == /\ arrived > 0
          /\ got' = CASE codec = "mcx" -> McxDeserialize(head, arrived)
                      [] codec = "rcon" -> RconReceive(head, arrived)
                      [] OTHER -> WsDecode(head, arrived)
          /\ UNCHANGED <<codec, size, head, arrived, stream, offset, put, taken>>

Next == Encode \/ Arrive \/ Decode \/ Deserialize \/ \E item \in Item : Serialize(item)
Spec == Init /\ [][Next]_vars

---------------------------------------------------------------------------
Decoded == got # NotYet
Whole == arrived >= Total

(* An MCX packet of up to 65535 bytes is decoded exactly when the whole of *)
(* it has arrived; of a longer one the size modulo 2^16 is decoded.        *)
McxExact == codec = "mcx" /\ Decoded =>
  LET p == size % 65536 IN got = IF arrived >= 5 + p THEN Got("data", p, p) ELSE Refused

(* The payload of a whole RCON packet comes back; of one that is cut, the  *)
(* size comes back and zeros stand for the rest.                           *)
RconExact == codec = "rcon" /\ Decoded /\ arrived >= 12 =>
  got = Got("data", size, IF arrived - 12 < size THEN arrived - 12 ELSE size)

(* A browser's frame, masked, is decoded when it has arrived whole, unless *)
(* the lower of its two length bytes is 128 or more: a negative char.      *)
MaskedExact == codec = "masked" /\ Decoded /\ Whole =>
  \/ got = Got("data", size, size)
  \/ size > 126 /\ size % 256 >= 128

(* Without a mask a misread length does no harm when the frame is all that *)
(* has arrived: substr stops at the end.                                   *)
UnmaskedExact == codec = "unmasked" /\ Decoded /\ arrived = Total /\ size < 65536 => got = Got("data", size, size)

(* Values are read back in the order and with the values they were         *)
(* serialised with: every reader leaves the offset where the next begins.  *)
ReadsBack == IsPrefix(taken, put)
=============================================================================
