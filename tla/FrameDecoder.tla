---------------------------- MODULE FrameDecoder ----------------------------
(***************************************************************************)
(* The framing of the SSL VPN tunnel (h3csvpn/tunnel.py): encode_frame, and *)
(* FrameDecoder.feed, which makes frames again of a TLS byte stream that   *)
(* splits and coalesces them anywhere.  This is what lets module Tunnel    *)
(* speak of whole frames.                                                  *)
(*                                                                         *)
(* A byte is a number below Base (256 in the code), so that a small Base   *)
(* makes short payloads use both bytes of the length field.                *)
(***************************************************************************)
EXTENDS Naturals, Sequences

CONSTANTS
  Base,       \* values of a byte
  Types,      \* the frame types and subtypes that are sent
  Values,     \* the bytes of the payloads
  MaxFrames,  \* bound: frames on the stream
  MaxPayload  \* bound: bytes of a payload

ASSUME ByteAssumption ==
  /\ Base \in Nat \ {0, 1} /\ MaxFrames \in Nat /\ MaxPayload \in Nat
  /\ Types \subseteq 0..(Base - 1) /\ Values \subseteq 0..(Base - 1)

Byte == 0..(Base - 1)
HeaderLen == 4
MaxLength == Base * Base - 1

Payloads == UNION {[1..n -> Values] : n \in 0..MaxPayload}
Packets == [type : Types, sub : Types, payload : Payloads]

\* encode_frame raises ValueError on a payload the length field cannot hold.
Encodable(f) == Len(f.payload) <= MaxLength

Header(f) ==
  <<f.type, f.sub, Len(f.payload) \div Base, Len(f.payload) % Base>>
EncodeFrame(f) == Header(f) \o f.payload

VARIABLES
  sent,     \* history: the frames put on the stream
  stream,   \* bytes not yet received
  buf,      \* _buf
  feeding,  \* feed is in its loop
  out       \* frames feed has decoded, all calls together
streamVars == <<sent, stream, buf, feeding, out>>

StreamInit == sent = <<>> /\ stream = <<>> /\ buf = <<>> /\ feeding = FALSE /\ out = <<>>

\* The peer sends a frame.
SendFrame(f) ==
  /\ Len(sent) < MaxFrames /\ Encodable(f)
  /\ sent' = Append(sent, f) /\ stream' = stream \o EncodeFrame(f)
  /\ UNCHANGED <<buf, feeding, out>>

\* feed is called with the n bytes a recv has returned.
Feed(n) ==
  /\ ~feeding
  /\ buf' = buf \o SubSeq(stream, 1, n)
  /\ stream' = SubSeq(stream, n + 1, Len(stream))
  /\ feeding' = TRUE
  /\ UNCHANGED <<sent, out>>

\* Faulty variant: the low byte alone.
LengthLow(b) == b[4]
LengthAt(b) == b[3] * Base + b[4]

\* The buffer starts with a whole frame.
Complete(b) == Len(b) >= HeaderLen /\ Len(b) >= HeaderLen + LengthAt(b)

FirstFrame(b) == [type |-> b[1], sub |-> b[2],
                  payload |-> SubSeq(b, HeaderLen + 1, HeaderLen + LengthAt(b))]
Behind(b) == SubSeq(b, HeaderLen + LengthAt(b) + 1, Len(b))

\* One turn of the loop.
DecodeOne ==
  /\ feeding /\ Complete(buf)
  /\ out' = Append(out, FirstFrame(buf)) /\ buf' = Behind(buf)
  /\ UNCHANGED <<sent, stream, feeding>>

FeedReturns ==
  /\ feeding /\ ~Complete(buf)
  /\ feeding' = FALSE
  /\ UNCHANGED <<sent, stream, buf, out>>

StreamNext == \/ \E f \in Packets : SendFrame(f)
              \/ \E n \in 1..Len(stream) : Feed(n)
              \/ DecodeOne \/ FeedReturns

StreamSpec == StreamInit /\ [][StreamNext]_streamVars

-----------------------------------------------------------------------------

StreamTypeOK ==
  /\ sent \in Seq(Packets) /\ stream \in Seq(Byte) /\ buf \in Seq(Byte)
  /\ feeding \in BOOLEAN /\ out \in Seq(Packets)

\* tunnel.py:35 "Reassembles frames from a byte stream that may split/coalesce
\* them": however recv cuts the stream, the frames that come out are those that
\* were sent, in order; a frame that has arrived is returned by the feed that
\* completes it and does not wait for the bytes of the next one, since an
\* acknowledgement counts when it comes; and once all bytes have been fed, no frame
\* is missing and no byte is left.
FramesSurvive ==
  /\ Len(out) <= Len(sent) /\ \A k \in 1..Len(out) : out[k] = sent[k]
  /\ ~feeding => ~(Len(buf) >= HeaderLen /\ Len(buf) >= HeaderLen + buf[3] * Base + buf[4])
  /\ ~feeding /\ stream = <<>> => out = sent /\ buf = <<>>
=============================================================================
