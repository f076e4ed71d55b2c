----------------------------- MODULE MCSessions -----------------------------
EXTENDS Sessions

CONSTANTS ann, bob
=============================================================================
