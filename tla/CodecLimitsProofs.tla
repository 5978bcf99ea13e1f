-------------------------- MODULE CodecLimitsProofs --------------------------
(***************************************************************************)
(* That no gate refuses what the first gate took, for every choice of the  *)
(* limits under which the largest payload in the largest envelope fits in  *)
(* a line and in a file.                                                   *)
(*                                                                         *)
(* The lemmas are about lengths: what base64 makes of n bytes and back,    *)
(* and how far the estimate of decode_template_data and decode_frame_data  *)
(* is from the bytes that are decoded.                                     *)
(***************************************************************************)
EXTENDS CodecLimits, TLAPS

\* Encoded data is whole blocks, at most two bytes of which are padding, and it
\* decodes to as many bytes as were encoded.
LEMMA EncodedDecodes ==
  ASSUME NEW n \in Nat
  PROVE  /\ Encoded(n) \in AnyText /\ WellFormed(Encoded(n)) /\ Encoded(n).valid
         /\ DecodedLength(Encoded(n)) = n
         /\ Encoded(n).chars = Base64Length(n) /\ Base64Length(n) \in Nat
         /\ ((Base64Length(n) + 3) \div 4) * 3 <= n + 2
<1>1. PICK q \in Nat, r \in 0..2 : n = 3 * q + r
  <2>1. n = 3 * (n \div 3) + (n % 3) /\ n \div 3 \in Nat /\ n % 3 \in 0..2
    OBVIOUS
  <2>. QED BY <2>1
<1>2. (n + 2) \div 3 = IF r = 0 THEN q ELSE q + 1
  BY <1>1
<1>3. (2 * n) % 3 = IF r = 0 THEN 0 ELSE 3 - r
  BY <1>1
<1>. QED BY <1>1, <1>2, <1>3 DEF Encoded, Base64Length, AnyText, WellFormed, DecodedLength

\* More bytes never make a shorter text.
LEMMA LongerIsLonger ==
  ASSUME NEW n \in Nat, NEW m \in Nat, n <= m
  PROVE  Base64Length(n) <= Base64Length(m)
<1>1. (n + 2) \div 3 <= (m + 2) \div 3 /\ (n + 2) \div 3 \in Nat /\ (m + 2) \div 3 \in Nat
  OBVIOUS
<1>. QED BY <1>1 DEF Base64Length

\* The estimate is never below the bytes that are decoded, and at most two bytes
\* above them.
LEMMA EstimateIsClose ==
  ASSUME NEW b64 \in AnyText, WellFormed(b64), b64.valid
  PROVE  /\ DecodedLength(b64) \in Nat
         /\ DecodedLength(b64) <= ((b64.chars + 3) \div 4) * 3
         /\ ((b64.chars + 3) \div 4) * 3 <= DecodedLength(b64) + 2
<1>1. PICK k \in Nat : b64.chars = 4 * k
  <2>1. b64.chars \in Nat /\ b64.chars % 4 = 0
    BY DEF AnyText, WellFormed
  <2>2. b64.chars = 4 * (b64.chars \div 4) /\ b64.chars \div 4 \in Nat
    BY <2>1
  <2>. QED BY <2>2
<1>2. b64.chars \div 4 = k /\ (b64.chars + 3) \div 4 = k
  BY <1>1
<1>3. b64.pads \in 0..2 /\ (k = 0 => b64.pads = 0)
  BY <1>1 DEF AnyText, WellFormed
<1>. QED BY <1>2, <1>3 DEF DecodedLength

\* The limits are numbers.
LEMMA LimitsAreNat == \A of \in Kinds : MaxBytes[of] \in Nat
BY LimitsAssumption DEF MaxBytes, Kinds

\* The estimate refuses nothing of a size that is taken, and lets nothing through
\* that decodes to more than two bytes over the limit.
LEMMA EstimateDecides ==
  ASSUME NEW of \in Kinds, NEW b64 \in AnyText, WellFormed(b64)
  PROVE  /\ b64.valid /\ Within(of, DecodedLength(b64)) => Decodes(of, b64)
         /\ Allocates(of, b64) <= MaxBytes[of] + 2
<1>1. MaxBytes[of] \in Nat /\ b64.chars \in Nat
  BY LimitsAreNat DEF AnyText
<1>2. CASE b64.valid
  <2>1. /\ DecodedLength(b64) \in Nat
        /\ DecodedLength(b64) <= ((b64.chars + 3) \div 4) * 3
        /\ ((b64.chars + 3) \div 4) * 3 <= DecodedLength(b64) + 2
    BY <1>2, EstimateIsClose
  <2> DEFINE estimate == ((b64.chars + 3) \div 4) * 3
  <2>2. estimate \in Nat
    BY <1>1
  <2>3. Estimated(of, b64.chars) <=> estimate <= MaxBytes[of] + 2
    BY DEF Estimated
  <2> HIDE DEF estimate
  <2>4. DecodedLength(b64) <= estimate /\ estimate <= DecodedLength(b64) + 2
    BY <2>1 DEF estimate
  <2>5. Within(of, DecodedLength(b64)) => Estimated(of, b64.chars)
    BY <1>1, <2>1, <2>2, <2>3, <2>4 DEF Within
  <2>. QED BY <1>1, <1>2, <2>1, <2>2, <2>3, <2>4, <2>5 DEF Decodes, Allocates
<1>3. CASE ~b64.valid
  BY <1>1, <1>3 DEF Allocates
<1>. QED BY <1>2, <1>3

\* A payload that the first gate takes: its text decodes to it, and fits in a
\* line and in a file.
LEMMA TakenFits ==
  ASSUME NEW of \in Kinds, NEW n \in Nat, Within(of, n)
  PROVE  /\ Encoded(n) \in AnyText /\ WellFormed(Encoded(n)) /\ Encoded(n).valid
         /\ DecodedLength(Encoded(n)) = n /\ Decodes(of, Encoded(n))
         /\ Encoded(n).chars \in Nat
         /\ Encoded(n).chars + MaxEnvelope < MaxLine
         /\ of = "template" => Encoded(n).chars + MaxEnvelope <= MaxFile
<1>1. /\ Encoded(n) \in AnyText /\ WellFormed(Encoded(n)) /\ Encoded(n).valid
      /\ DecodedLength(Encoded(n)) = n
      /\ Encoded(n).chars = Base64Length(n) /\ Base64Length(n) \in Nat
  BY EncodedDecodes
<1>2. Decodes(of, Encoded(n))
  BY <1>1, EstimateDecides
<1>3. MaxBytes[of] \in Nat /\ n <= MaxBytes[of]
  BY LimitsAreNat DEF Within
<1>4. Base64Length(n) <= Base64Length(MaxBytes[of]) /\ Base64Length(MaxBytes[of]) \in Nat
  BY <1>3, LongerIsLonger, EncodedDecodes
<1>5. Base64Length(MaxBytes[of]) + MaxEnvelope < MaxLine
  BY LimitsAssumption
<1>6. of = "template" => Base64Length(MaxBytes[of]) + MaxEnvelope <= MaxFile
  BY LimitsAssumption DEF MaxBytes
<1>. QED BY <1>1, <1>2, <1>4, <1>5, <1>6, LimitsAssumption
-----------------------------------------------------------------------------
(* The invariant *)

\* Nothing is on its way at first.
LEMMA InitOnItsWay == Init => OnItsWay
<1>. SUFFICES ASSUME Init PROVE OnItsWay
  OBVIOUS
<1>1. TypeOK
  BY DEF Init, TypeOK, Places, Gates, NoText, AnyText, WellFormed, EndingBytes
<1>. QED BY <1>1
  DEF Init, OnItsWay, RefusedAtOnce, RefusedForItsSize, NeverOver

\* The sensor hands a payload over.
LEMMA HandStep == OnItsWay /\ Hand => OnItsWay'
<1>. SUFFICES ASSUME OnItsWay, Hand PROVE OnItsWay'
  OBVIOUS
<1>1. TypeOK'
  BY InputsAssumption DEF OnItsWay, TypeOK, Hand, Places
<1>. QED BY <1>1, InputsAssumption
  DEF OnItsWay, TypeOK, Hand, InHand, Unknown, RefusedAtOnce, RefusedForItsSize, NeverOver

\* A peer that is not this code sends a message.
LEMMA SendStep == OnItsWay /\ Send => OnItsWay'
<1>. SUFFICES ASSUME OnItsWay, Send PROVE OnItsWay'
  OBVIOUS
<1>1. TypeOK'
  BY InputsAssumption DEF OnItsWay, TypeOK, Send, Places
<1>. QED BY <1>1
  DEF OnItsWay, Send, InText, RefusedAtOnce, RefusedForItsSize, NeverOver

\* A file is put in place that this code did not save.
LEMMA PlaceStep == OnItsWay /\ Place => OnItsWay'
<1>. SUFFICES ASSUME OnItsWay, Place PROVE OnItsWay'
  OBVIOUS
<1>1. TypeOK'
  BY InputsAssumption DEF OnItsWay, TypeOK, Place, Places
<1>. QED BY <1>1
  DEF OnItsWay, Place, InText, RefusedAtOnce, RefusedForItsSize, NeverOver

\* encode_template_data takes again what load_template took.
LEMMA EncodeDataStep == OnItsWay /\ EncodeData => OnItsWay'
<1>. SUFFICES ASSUME OnItsWay, EncodeData PROVE OnItsWay'
  OBVIOUS
<1>1. /\ bytes \in Nat /\ kind \in Kinds /\ InHand /\ TypeOK
      /\ kind' = kind /\ size' = size /\ bytes' = bytes /\ leg' = leg /\ gate = "none"
  BY DEF OnItsWay, TypeOK, EncodeData
<1>2. CASE Within(kind, bytes)
  <2>1. at' = "text" /\ text' = Encoded(bytes) /\ gate' = gate
    BY <1>2 DEF EncodeData
  <2>2. text' \in AnyText /\ WellFormed(text')
    BY <1>1, <2>1, EncodedDecodes
  <2>3. TypeOK'
    BY <1>1, <2>1, <2>2 DEF TypeOK, EncodeData, Places
  <2>. QED BY <1>1, <1>2, <2>1, <2>3
    DEF OnItsWay, InHand, RefusedAtOnce, RefusedForItsSize, NeverOver
<1>3. CASE ~Within(kind, bytes)
  <2>1. at' = "refused" /\ gate' = "encode" /\ text' = text
    BY <1>3 DEF EncodeData, Refuse
  <2>2. leg = "out" /\ size = bytes
    BY <1>1, <1>3 DEF InHand, TypeOK
  <2>3. TypeOK'
    BY <1>1, <2>1 DEF TypeOK, EncodeData, Places, Gates
  <2>. QED BY <1>1, <1>3, <2>1, <2>2, <2>3
    DEF OnItsWay, RefusedAtOnce, RefusedForItsSize, NeverOver
<1>. QED BY <1>2, <1>3

\* encode_request and encode_response refuse only a frame without a pixel.
LEMMA EncodeLineStep == OnItsWay /\ EncodeLine => OnItsWay'
<1>. SUFFICES ASSUME OnItsWay, EncodeLine PROVE OnItsWay'
  OBVIOUS
<1>1. /\ bytes \in Nat /\ kind \in Kinds /\ InHand /\ TypeOK
      /\ text = Encoded(bytes) /\ Within(kind, bytes) /\ gate = "none"
      /\ kind' = kind /\ size' = size /\ bytes' = bytes /\ leg' = leg /\ text' = text
  BY DEF OnItsWay, TypeOK, EncodeLine
<1>2. /\ DecodedLength(text) = bytes /\ Decodes(kind, text) /\ text.chars \in Nat
      /\ text.chars + MaxEnvelope < MaxLine
  BY <1>1, TakenFits
<1>3. body' \in Nat /\ body' <= text.chars + MaxEnvelope
  BY <1>2, LimitsAssumption DEF EncodeLine
<1>4. body' <= MaxLine
  BY <1>2, <1>3, LimitsAssumption
<1>5. CASE ValidMessage(kind, text)
  <2>1. at' = "line" /\ gate' = gate
    BY <1>4, <1>5 DEF EncodeLine
  <2>2. TypeOK'
    BY <1>1, <1>3, <2>1 DEF TypeOK, EncodeLine, Places
  <2>3. kind = "frame" => bytes > 0
    BY <1>2, <1>5 DEF ValidMessage
  <2>4. InText'
    BY <1>1, <1>3, <2>3 DEF InHand, InText
  <2>. QED BY <1>1, <2>1, <2>2, <2>4
    DEF OnItsWay, RefusedAtOnce, RefusedForItsSize, NeverOver
<1>6. CASE ~ValidMessage(kind, text)
  <2>1. at' = "refused" /\ gate' = "message"
    BY <1>6 DEF EncodeLine, Refuse
  <2>2. kind = "frame" /\ bytes = 0
    BY <1>1, <1>2, <1>6 DEF ValidMessage
  <2>3. TypeOK'
    BY <1>1, <1>3, <2>1 DEF TypeOK, EncodeLine, Places, Gates
  <2>. QED BY <1>1, <2>1, <2>2, <2>3
    DEF OnItsWay, InHand, RefusedAtOnce, RefusedForItsSize, NeverOver
<1>. QED BY <1>5, <1>6

\* A line arrives, with or without its end.
LEMMA CarryStep == OnItsWay /\ Carry => OnItsWay'
<1>. SUFFICES ASSUME OnItsWay, Carry PROVE OnItsWay'
  OBVIOUS
<1>1. TypeOK'
  BY DEF OnItsWay, TypeOK, Carry, Places
<1>. QED BY <1>1
  DEF OnItsWay, Carry, InText, RefusedAtOnce, RefusedForItsSize, NeverOver

\* decode_request and decode_response refuse nothing that was encoded, and nothing
\* of a peer that is within the limits.
LEMMA ReceiveStep == OnItsWay /\ Receive => OnItsWay'
<1>. SUFFICES ASSUME OnItsWay, Receive PROVE OnItsWay'
  OBVIOUS
<1>1. /\ kind \in Kinds /\ text \in AnyText /\ WellFormed(text) /\ body \in Nat
      /\ ending \in DOMAIN EndingBytes /\ InText /\ TypeOK /\ gate = "none"
      /\ kind' = kind /\ size' = size /\ leg' = leg /\ text' = text /\ body' = body
      /\ ending' = ending
  BY DEF OnItsWay, TypeOK, Receive
<1>2. Allocates(kind, text) <= MaxBytes[kind] + 2
  BY <1>1, EstimateDecides
<1>3. ASSUME size # Unknown
      PROVE  /\ TakesLine(body, ending) /\ ValidMessage(kind, text)
             /\ DecodedLength(text) = size
  <2>1. /\ size \in Nat /\ text = Encoded(size) /\ Within(kind, size)
        /\ kind = "frame" => size > 0
        /\ body <= text.chars + MaxEnvelope
    BY <1>1, <1>3, InputsAssumption DEF TypeOK, InText
  <2>2. /\ DecodedLength(text) = size /\ Decodes(kind, text) /\ text.chars \in Nat
        /\ text.chars + MaxEnvelope < MaxLine
    BY <1>1, <2>1, TakenFits
  <2>3. body < MaxLine
    BY <1>1, <2>1, <2>2, LimitsAssumption
  <2>4. EndingBytes[ending] \in 0..2
    BY <1>1 DEF EndingBytes
  <2>5. TakesLine(body, ending)
    BY <1>1, <2>3, <2>4, LimitsAssumption DEF TakesLine
  <2>. QED BY <2>1, <2>2, <2>5 DEF ValidMessage
<1>4. CASE TakesLine(body, ending) /\ ValidMessage(kind, text)
  <2>1. at' = "received" /\ bytes' = DecodedLength(text) /\ gate' = gate
    BY <1>4 DEF Receive
  <2>2. bytes' \in Nat /\ Within(kind, bytes')
    BY <1>1, <1>4, <2>1, EstimateIsClose DEF ValidMessage, Decodes
  <2>3. TypeOK'
    BY <1>1, <2>1, <2>2 DEF TypeOK, Places
  <2>. QED BY <1>1, <1>2, <1>3, <2>1, <2>2, <2>3
    DEF OnItsWay, ArrivesWhole, RefusedAtOnce, RefusedForItsSize, NeverOver
<1>5. CASE ~(TakesLine(body, ending) /\ ValidMessage(kind, text))
  <2>1. at' = "refused" /\ gate' = "receive" /\ bytes' = bytes
    BY <1>5 DEF Receive, Refuse
  <2>2. size = Unknown
    BY <1>3, <1>5
  <2>3. TypeOK'
    BY <1>1, <2>1 DEF TypeOK, Places, Gates
  <2>4. RefusedForItsSize'
    <3>1. CASE ~TakesLine(body, ending)
      <4>1. EndingBytes[ending] \in 0..2 /\ (EndingBytes[ending] = 2 => ending = "crlf")
        BY <1>1 DEF EndingBytes
      <4>2. body > MaxLine \/ (body = MaxLine /\ ending = "crlf")
        BY <1>1, <3>1, <4>1, LimitsAssumption DEF TakesLine
      <4>. QED BY <1>1, <2>1, <4>2 DEF RefusedForItsSize
    <3>2. CASE ~ValidMessage(kind, text) /\ text.valid
      <4>1. DecodedLength(text) \in Nat /\ MaxBytes[kind] \in Nat
        BY <1>1, <3>2, EstimateIsClose, LimitsAreNat
      <4>2. ~Within(kind, DecodedLength(text)) \/ DecodedLength(text) = 0
        BY <1>1, <3>2, <4>1, EstimateDecides DEF ValidMessage
      <4>3. DecodedLength(text) = 0 \/ DecodedLength(text) > MaxBytes[kind]
        BY <4>1, <4>2 DEF Within
      <4>. QED BY <1>1, <2>1, <4>3 DEF RefusedForItsSize
    <3>3. CASE ~text.valid
      BY <1>1, <2>1, <3>3 DEF RefusedForItsSize
    <3>. QED BY <1>5, <3>1, <3>2, <3>3
  <2>. QED BY <1>1, <1>2, <2>1, <2>2, <2>3, <2>4 DEF OnItsWay, RefusedAtOnce, NeverOver
<1>. QED BY <1>4, <1>5

\* save_template refuses no template that was received.
LEMMA SaveStep == OnItsWay /\ Save => OnItsWay'
<1>. SUFFICES ASSUME OnItsWay, Save PROVE OnItsWay'
  OBVIOUS
<1>1. /\ kind = "template" /\ kind \in Kinds /\ bytes \in Nat /\ Within(kind, bytes)
      /\ ArrivesWhole /\ at = "received" /\ TypeOK /\ gate = "none"
      /\ kind' = kind /\ size' = size /\ bytes' = bytes /\ leg' = leg /\ ending' = ending
      /\ text' = Encoded(bytes)
  BY DEF OnItsWay, TypeOK, Save, NeverOver
<1>2. /\ text' \in AnyText /\ WellFormed(text') /\ text'.chars \in Nat
      /\ text'.chars + MaxEnvelope <= MaxFile
  BY <1>1, TakenFits
<1>3. body' \in Nat /\ body' <= text'.chars + MaxEnvelope
  BY <1>2, LimitsAssumption DEF Save
<1>4. body' <= MaxFile
  BY <1>2, <1>3, LimitsAssumption
<1>5. at' = "file" /\ gate' = gate
  BY <1>1, <1>4 DEF Save
<1>6. TypeOK'
  BY <1>1, <1>2, <1>3, <1>5 DEF TypeOK, Places
<1>7. InText'
  BY <1>1, <1>3 DEF InText, ArrivesWhole
<1>. QED BY <1>1, <1>5, <1>6, <1>7
  DEF OnItsWay, RefusedAtOnce, RefusedForItsSize, NeverOver

\* load_template refuses no template that was saved.
LEMMA LoadStep == OnItsWay /\ Load => OnItsWay'
<1>. SUFFICES ASSUME OnItsWay, Load PROVE OnItsWay'
  OBVIOUS
<1>1. /\ kind = "template" /\ kind \in Kinds /\ text \in AnyText /\ WellFormed(text)
      /\ body \in Nat /\ InText /\ TypeOK /\ gate = "none"
      /\ kind' = kind /\ size' = size /\ text' = text /\ body' = body /\ ending' = ending
  BY DEF OnItsWay, TypeOK, Load
<1>2. ASSUME size # Unknown
      PROVE  /\ body <= MaxFile /\ text.valid /\ Within(kind, DecodedLength(text))
             /\ DecodedLength(text) = size
  <2>1. /\ size \in Nat /\ text = Encoded(size) /\ Within(kind, size)
        /\ body <= text.chars + MaxEnvelope
    BY <1>1, <1>2, InputsAssumption DEF TypeOK, InText
  <2>2. /\ DecodedLength(text) = size /\ text.valid /\ text.chars \in Nat
        /\ text.chars + MaxEnvelope <= MaxFile
    BY <1>1, <2>1, TakenFits
  <2>. QED BY <1>1, <2>1, <2>2, LimitsAssumption
<1>3. CASE body <= MaxFile /\ text.valid /\ Within(kind, DecodedLength(text))
  <2>1. at' = "bytes" /\ leg' = "back" /\ bytes' = DecodedLength(text) /\ gate' = gate
    BY <1>3 DEF Load
  <2>2. bytes' \in Nat
    BY <1>1, <1>3, <2>1, EstimateIsClose
  <2>3. TypeOK'
    BY <1>1, <2>1, <2>2 DEF TypeOK, Places
  <2>. QED BY <1>1, <1>2, <1>3, <2>1, <2>3
    DEF OnItsWay, InHand, RefusedAtOnce, RefusedForItsSize, NeverOver
<1>4. CASE ~(body <= MaxFile /\ text.valid /\ Within(kind, DecodedLength(text)))
  <2>1. at' = "refused" /\ gate' = "load" /\ bytes' = bytes /\ leg' = leg
    BY <1>4 DEF Load, Refuse
  <2>2. size = Unknown
    BY <1>2, <1>4
  <2>3. TypeOK'
    BY <1>1, <2>1 DEF TypeOK, Places, Gates
  <2>4. RefusedForItsSize'
    <3>1. MaxBytes[kind] \in Nat /\ (text.valid => DecodedLength(text) \in Nat)
      BY <1>1, LimitsAreNat, EstimateIsClose
    <3>. QED BY <1>1, <1>4, <2>1, <3>1, LimitsAssumption DEF RefusedForItsSize, Within
  <2>. QED BY <1>1, <2>1, <2>2, <2>3, <2>4 DEF OnItsWay, RefusedAtOnce, NeverOver
<1>. QED BY <1>3, <1>4

\* Wherever a payload is, it is whole, and no limit that is still ahead refuses it.
THEOREM PayloadsOnTheirWay == Spec => []OnItsWay
<1>1. OnItsWay /\ [Next]_vars => OnItsWay'
  <2>. SUFFICES ASSUME OnItsWay, [Next]_vars PROVE OnItsWay'
    OBVIOUS
  <2>1. CASE UNCHANGED vars
    BY <2>1 DEF vars, OnItsWay, TypeOK, InHand, InText, ArrivesWhole, RefusedAtOnce,
                RefusedForItsSize, NeverOver
  <2>. QED BY <2>1, HandStep, SendStep, PlaceStep, EncodeDataStep, EncodeLineStep,
              CarryStep, ReceiveStep, SaveStep, LoadStep
           DEF Next
<1>. QED BY InitOnItsWay, <1>1, PTL DEF Spec

\* What the first gate takes of a sensor's payload, no later gate refuses.
THEOREM FirstGateDecides == Spec => []RefusedAtOnce
<1>1. OnItsWay => RefusedAtOnce
  BY DEF OnItsWay
<1>. QED BY <1>1, PayloadsOnTheirWay, PTL

\* A payload arrives with as many bytes as it had.
THEOREM PayloadsArriveWhole == Spec => []ArrivesWhole
<1>1. OnItsWay => ArrivesWhole
  BY DEF OnItsWay, ArrivesWhole
<1>. QED BY <1>1, PayloadsOnTheirWay, PTL

\* The estimate and the line's end refuse nothing that is within the limits.
THEOREM RefusalsAreForSize == Spec => []RefusedForItsSize
<1>1. OnItsWay => RefusedForItsSize
  BY DEF OnItsWay
<1>. QED BY <1>1, PayloadsOnTheirWay, PTL

\* No peer makes the codec decode more than two bytes over the limit.
THEOREM DecodingIsBounded == Spec => []NeverOver
<1>1. OnItsWay => NeverOver
  BY DEF OnItsWay
<1>. QED BY <1>1, PayloadsOnTheirWay, PTL
=============================================================================
