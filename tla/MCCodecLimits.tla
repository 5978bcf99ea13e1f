---------------------------- MODULE MCCodecLimits ----------------------------
(* The limits are those of the code; lengths are on both sides of each.     *)
EXTENDS CodecLimits

Around(n) == (IF n < 3 THEN 0 ELSE n - 3)..(n + 3)

SomePayloads == Around(0) \cup Around(MaxTemplate) \cup Around(MaxFrame)

\* Whole blocks of any padding, one character more, and what is no base64.
SomeTexts ==
  UNION {
    LET chars == Base64Length(n) IN
    {[chars |-> chars, pads |-> pads, valid |-> TRUE] :
        pads \in IF chars = 0 THEN {0} ELSE 0..2}
      \cup {[chars |-> chars + 1, pads |-> 0, valid |-> FALSE]} : n \in SomePayloads}

SomeBodies ==
  {b64.chars + 50 : b64 \in SomeTexts} \cup Around(MaxLine) \cup Around(MaxFile)

SomeEnvelopes == {50, MaxEnvelope}
=============================================================================
