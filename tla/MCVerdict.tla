----------------------------- MODULE MCVerdict -----------------------------
EXTENDS Verdict
=============================================================================
