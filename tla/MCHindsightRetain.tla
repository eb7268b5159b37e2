-------------------------- MODULE MCHindsightRetain --------------------------
(* HindsightRetain on an upload of few files; every constant is a bound or  *)
(* a number, so the configurations give their values directly.              *)
EXTENDS HindsightRetain
=============================================================================
