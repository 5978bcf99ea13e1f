---------------------------- MODULE MatchingPolicy ----------------------------
(***************************************************************************)
(* What the host accepts of the minutiae found in a capture: when they are *)
(* found (detect_capture and analyze, src/src/engine.rs), and when they    *)
(* are saved in a template or loaded from one                              *)
(* (validate_host_image_template, src/src/template.rs).                    *)
(*                                                                         *)
(* Of minutiae only their number, the sum of their qualities and the       *)
(* ranges they are in matter.  A quality is a signed number to the         *)
(* detector, a byte to the program and a percentage to a template.         *)
(*                                                                         *)
(* The code compares the mean in floating point.  That is exact here: the  *)
(* division is correctly rounded, and the nearest quotient below the       *)
(* minimum is farther from it than a rounding error.                       *)
(***************************************************************************)
EXTENDS Integers

CONSTANTS
  MinMinutiae,  \* MIN_COMPUTABLE_BOZORTH_MINUTIAE
  MaxMinutiae,  \* MAX_MINUTIAE_PER_SAMPLE
  MinQuality    \* MIN_MEAN_MINUTIA_QUALITY

ASSUME PolicyAssumption ==
  MinMinutiae \in Nat \ {0} /\ MaxMinutiae \in Nat /\ MinQuality \in 0..100

Byte == 0..255
Percent == 0..100

\* Half of the count is added to round to the nearest.
Rounded(sum, count) == (sum + count \div 2) \div count
-----------------------------------------------------------------------------
(* Minutiae: what detect_minutiae returned, or what a template lists *)

Minutiae ==
  [count : Nat, sum : Nat,
   bytes : BOOLEAN,     \* every quality is a byte
   percents : BOOLEAN,  \* every quality is a percentage
   inside : BOOLEAN]    \* positions and angles are in range

NoMinutiae ==
  [count |-> 0, sum |-> 0, bytes |-> TRUE, percents |-> TRUE, inside |-> TRUE]

\* A negative quality does not count towards the sum.
WithMinutia(m, quality, inside) ==
  [count |-> m.count + 1,
   sum |-> m.sum + (IF quality < 0 THEN 0 ELSE quality),
   bytes |-> m.bytes /\ quality \in Byte,
   percents |-> m.percents /\ quality \in Percent,
   inside |-> m.inside /\ inside]
-----------------------------------------------------------------------------
(* The engine *)

\* detect_capture: mean_quality of the sample, and u8::try_from of a quality
RoundedQuality(m) ==
  CASE m.count = 0 -> 0
    [] m.count > 0 /\ Rounded(m.sum, m.count) \in Byte -> Rounded(m.sum, m.count)
    [] OTHER -> 100

Detects(m) == m.bytes

\* Faulty: it is the rounded mean that is compared.
AnalyzesRounded(m) ==
  /\ Detects(m)
  /\ m.count >= MinMinutiae
  /\ RoundedQuality(m) >= MinQuality

\* analyze: enough minutiae, of a mean quality that is not below the minimum
Analyzes(m) ==
  /\ Detects(m)
  /\ m.count >= MinMinutiae
  /\ m.sum >= MinQuality * m.count

SampleOf(m) == [mean |-> RoundedQuality(m), minutiae |-> m]
-----------------------------------------------------------------------------
(* The template *)

ValidSample(s) ==
  LET m == s.minutiae IN
  /\ m.count \in MinMinutiae..MaxMinutiae
  /\ s.mean \in MinQuality..100
  /\ m.inside /\ m.percents
  /\ m.sum >= MinQuality * m.count
  /\ s.mean = Rounded(m.sum, m.count)
=============================================================================
