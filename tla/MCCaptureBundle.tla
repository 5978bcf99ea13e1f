--------------------------- MODULE MCCaptureBundle ---------------------------
(* Three saves, of which one is of a capture whose metadata does not match  *)
(* its image, and two loads; two captures have the same dimensions.         *)
EXTENDS CaptureBundle

CONSTANTS c1, c2, c3, s1, s2, s3

SomeOffers == [s \in {s1, s2, s3} |-> CASE s = s1 -> c1 [] s = s2 -> c2 [] s = s3 -> c3]

SomeSizes == [c \in {c1, c2, c3} |-> IF c = c3 THEN "large" ELSE "small"]
=============================================================================
