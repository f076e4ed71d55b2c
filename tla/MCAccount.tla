------------------------------ MODULE MCAccount -----------------------------
EXTENDS Account
=============================================================================
