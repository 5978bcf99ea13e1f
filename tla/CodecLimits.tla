----------------------------- MODULE CodecLimits -----------------------------
(***************************************************************************)
(* The limits a payload meets on its way: of its bytes, of the base64 text *)
(* in a message, of the JSON line (src/src/protocol.rs) and of the         *)
(* template file (src/src/template.rs).  A frame goes from a worker to the *)
(* host.  The template of a sensor goes from the worker to the host, into  *)
(* a file, out of it and back to the worker.                               *)
(*                                                                         *)
(* A payload is its length in bytes, a text its length in characters, and  *)
(* no input or output fails: whatever is refused is refused by a limit.    *)
(* A peer or a file may hold texts that this code never makes.             *)
(***************************************************************************)
EXTENDS Integers

CONSTANTS
  MaxTemplate,  \* MAX_DECODED_TEMPLATE_BYTES and MAX_DEVICE_TEMPLATE_BYTES
  MaxFrame,     \* MAX_DECODED_FRAME_BYTES
  MaxLine,      \* MAX_LINE_BYTES
  MaxFile,      \* MAX_TEMPLATE_BYTES
  Payloads,     \* bytes of what a sensor hands over
  Texts,        \* base64 texts of a peer, or in a file
  Bodies,       \* bytes of the JSON of a peer, or in a file
  Envelopes,    \* bytes of the JSON this code puts around a text
  MaxEnvelope   \* no envelope is larger: identifiers have 128 bytes at most

Kinds == {"template", "frame"}

MaxBytes == [kind \in Kinds |-> IF kind = "template" THEN MaxTemplate ELSE MaxFrame]

\* Characters, of which the last few only pad; whether it is base64 at all.
AnyText == [chars : Nat, pads : 0..2, valid : BOOLEAN]

WellFormed(text) ==
  text.valid => text.chars % 4 = 0 /\ (text.chars = 0 => text.pads = 0)

Base64Length(n) == 4 * ((n + 2) \div 3)

ASSUME LimitsAssumption ==
  /\ MaxTemplate \in Nat /\ MaxFrame \in Nat /\ MaxLine \in Nat /\ MaxFile \in Nat
  /\ MaxEnvelope \in Nat /\ Envelopes \subseteq 0..MaxEnvelope
  /\ \A kind \in Kinds : Base64Length(MaxBytes[kind]) + MaxEnvelope < MaxLine
  /\ Base64Length(MaxTemplate) + MaxEnvelope <= MaxFile
ASSUME InputsAssumption ==
  /\ Payloads \subseteq Nat /\ Bodies \subseteq Nat
  /\ Texts \subseteq AnyText /\ \A text \in Texts : WellFormed(text)

VARIABLES
  at,     \* where the payload is
  leg,    \* "out" to the host, or "back" to the worker
  kind,
  size,   \* bytes handed over by the sensor; Unknown if this code made no text of them
  bytes,  \* bytes in hand
  text,   \* their base64
  body,   \* bytes of the JSON that holds the text
  ending, \* what the receiver is given of the line's end
  gate    \* where the payload was refused

vars == <<at, leg, kind, size, bytes, text, body, ending, gate>>
-----------------------------------------------------------------------------
(* Lengths *)

Unknown == -1

\* Faulty: as many bytes of padding as there are bytes in the last block.
EncodedSwapped(n) == [chars |-> Base64Length(n), pads |-> n % 3, valid |-> TRUE]

\* Standard base64 of n bytes
Encoded(n) == [chars |-> Base64Length(n), pads |-> (2 * n) % 3, valid |-> TRUE]

DecodedLength(b64) == 3 * (b64.chars \div 4) - b64.pads

\* What encode_template_data, validate_device_template and encode_frame_data take
Within(of, n) == n <= MaxBytes[of] /\ (of = "template" => n > 0)

\* Faulty: the estimate is compared with the limit itself.
EstimatedTight(of, chars) == ((chars + 3) \div 4) * 3 <= MaxBytes[of]

\* Faulty: everything is decoded before its size is looked at.
EstimatedLate(of, chars) == TRUE

\* The estimate that is made before anything is decoded
Estimated(of, chars) == ((chars + 3) \div 4) * 3 <= MaxBytes[of] + 2

\* decode_template_data, decode_frame_data
Decodes(of, b64) ==
  Estimated(of, b64.chars) /\ b64.valid /\ Within(of, DecodedLength(b64))

\* The base64 decoder is run, and fills this many bytes.
Allocates(of, b64) == IF Estimated(of, b64.chars) /\ b64.valid THEN DecodedLength(b64) ELSE 0

\* validate_request, validate_response: what the receiver decodes, and for a
\* frame that has as many bytes as its geometry, which has a pixel at least.
ValidMessage(of, b64) == Decodes(of, b64) /\ (of = "frame" => DecodedLength(b64) > 0)

EndingBytes == [none |-> 0, lf |-> 1, crlf |-> 2]

\* Faulty: the line's end counts.
TakesLineWithEnd(length, end) == length + EndingBytes[end] <= MaxLine

\* decode_line
TakesLine(length, end) ==
  length + EndingBytes[end] <= MaxLine + 1 /\ length <= MaxLine
-----------------------------------------------------------------------------
(* The way of a payload *)

NoText == [chars |-> 0, pads |-> 0, valid |-> TRUE]

Init ==
  /\ at = "start" /\ leg = "out" /\ kind \in Kinds /\ size = Unknown
  /\ bytes = 0 /\ text = NoText /\ body = 0 /\ ending = "none" /\ gate = "none"

Refuse(by) == at' = "refused" /\ gate' = by

\* A sensor hands over a template or a frame.
Hand ==
  /\ at = "start"
  /\ \E n \in Payloads : size' = n /\ bytes' = n
  /\ at' = "bytes"
  /\ UNCHANGED <<leg, kind, text, body, ending, gate>>

\* A peer that is not this code sends a message, to the host or to the worker.
Send ==
  /\ at = "start"
  /\ text' \in Texts
  /\ body' \in Bodies /\ body' >= text'.chars
  /\ leg' \in {"out", "back"} /\ (leg' = "back" => kind = "template")
  /\ at' = "line"
  /\ UNCHANGED <<kind, size, bytes, ending, gate>>

\* A file is put in place that this code did not save.
Place ==
  /\ at = "start" /\ kind = "template"
  /\ text' \in Texts
  /\ body' \in Bodies /\ body' >= text'.chars
  /\ at' = "file"
  /\ UNCHANGED <<leg, kind, size, bytes, ending, gate>>

\* encode_template_data, encode_frame_data
EncodeData ==
  /\ at = "bytes"
  /\ IF Within(kind, bytes)
       THEN text' = Encoded(bytes) /\ at' = "text" /\ UNCHANGED gate
       ELSE Refuse("encode") /\ UNCHANGED text
  /\ UNCHANGED <<leg, kind, size, bytes, body, ending>>

\* encode_request, encode_response
EncodeLine ==
  /\ at = "text"
  /\ body' \in {text.chars + envelope : envelope \in Envelopes}
  /\ IF ValidMessage(kind, text) /\ body' <= MaxLine
       THEN at' = "line" /\ UNCHANGED gate
       ELSE Refuse("message")
  /\ UNCHANGED <<leg, kind, size, bytes, text, ending>>

\* The worker and the host strip the line's end before they decode; who decodes
\* a line as it was written, or as a transport made it, need not.
Carry ==
  /\ at = "line"
  /\ ending' \in DOMAIN EndingBytes
  /\ at' = "read"
  /\ UNCHANGED <<leg, kind, size, bytes, text, body, gate>>

\* decode_request, decode_response, and then the decoding of the data
Receive ==
  /\ at = "read"
  /\ IF TakesLine(body, ending) /\ ValidMessage(kind, text)
       THEN bytes' = DecodedLength(text) /\ at' = "received" /\ UNCHANGED gate
       ELSE Refuse("receive") /\ UNCHANGED bytes
  /\ UNCHANGED <<leg, kind, size, text, body, ending>>

\* save_template of a match-on-chip template
Save ==
  /\ at = "received" /\ kind = "template" /\ leg = "out"
  /\ text' = Encoded(bytes)
  /\ body' \in {text'.chars + envelope : envelope \in Envelopes}
  /\ IF Within(kind, bytes) /\ body' <= MaxFile
       THEN at' = "file" /\ UNCHANGED gate
       ELSE Refuse("save")
  /\ UNCHANGED <<leg, kind, size, bytes, ending>>

\* load_template, of which the worker is then given what was loaded
Load ==
  /\ at = "file"
  /\ IF body <= MaxFile /\ text.valid /\ Within(kind, DecodedLength(text))
       THEN /\ bytes' = DecodedLength(text) /\ leg' = "back" /\ at' = "bytes"
            /\ UNCHANGED gate
       ELSE Refuse("load") /\ UNCHANGED <<bytes, leg>>
  /\ UNCHANGED <<kind, size, text, body, ending>>

Next ==
  \/ Hand \/ Send \/ Place
  \/ EncodeData \/ EncodeLine \/ Carry \/ Receive \/ Save \/ Load

Spec == Init /\ [][Next]_vars
-----------------------------------------------------------------------------
(* Properties *)

Places == {"start", "bytes", "text", "line", "read", "received", "file", "refused"}
Gates == {"encode", "message", "receive", "save", "load"}

\* Whatever is decoded is base64 in whole blocks.
TypeOK ==
  /\ at \in Places /\ leg \in {"out", "back"} /\ kind \in Kinds
  /\ size \in Payloads \cup {Unknown} /\ bytes \in Nat
  /\ text \in AnyText /\ WellFormed(text)
  /\ body \in Nat /\ ending \in DOMAIN EndingBytes
  /\ gate \in Gates \cup {"none"}

\* What is refused of a sensor's payload is refused at the first gate: nothing
\* is enrolled that some later limit keeps from the line, from the file, or from
\* the sensor that is to verify.  Only a frame without a pixel gets one gate
\* further.
RefusedAtOnce ==
  at = "refused" /\ size # Unknown =>
    \/ gate = "encode" /\ leg = "out" /\ ~Within(kind, size)
    \/ gate = "message" /\ kind = "frame" /\ size = 0

\* The host receives as many bytes as the sensor handed over, and so does the
\* sensor that verifies, two texts, two lines and a file later.
ArrivesWhole ==
  at = "received" /\ size # Unknown => bytes = size

\* Whoever sent a message or wrote a file: no payload within the limits is
\* refused for its size, neither by the estimate nor for the line's end, except
\* that of a line as long as may be that ends in a carriage return too.
RefusedForItsSize ==
  at = "refused" /\ gate \in {"receive", "load"} =>
    \/ ~text.valid \/ DecodedLength(text) = 0 \/ DecodedLength(text) > MaxBytes[kind]
    \/ gate = "receive" /\ (body > MaxLine \/ (body = MaxLine /\ ending = "crlf"))
    \/ gate = "load" /\ body > MaxFile

\* Whoever sent the message: no more than two bytes over the limit are ever
\* decoded, and a device is asked about a template within the limits only.
NeverOver ==
  /\ at = "received" \/ gate = "receive" => Allocates(kind, text) <= MaxBytes[kind] + 2
  /\ at = "received" => Within(kind, bytes)
-----------------------------------------------------------------------------
(* Why: the inductive invariant *)

\* A payload of the sensor, or a template that was loaded, in hand
InHand ==
  /\ size # Unknown => bytes = size
  /\ leg = "out" => size = bytes
  /\ leg = "back" => kind = "template" /\ Within(kind, bytes)

\* A payload of the sensor, in a text in an envelope
InText ==
  size # Unknown =>
    /\ text = Encoded(size) /\ Within(kind, size)
    /\ kind = "frame" => size > 0
    /\ body <= text.chars + MaxEnvelope

\* Wherever a payload is, it is what the sensor handed over, within the limits
\* that are still ahead of it.
OnItsWay ==
  /\ TypeOK
  /\ at # "refused" => gate = "none"
  /\ at = "start" => size = Unknown /\ leg = "out"
  /\ at = "bytes" => InHand
  /\ at = "text" => InHand /\ text = Encoded(bytes) /\ Within(kind, bytes)
  /\ at \in {"line", "read", "file"} => InText
  /\ at = "file" => kind = "template"
  /\ at = "received" => ArrivesWhole
  /\ RefusedAtOnce /\ RefusedForItsSize /\ NeverOver
=============================================================================
