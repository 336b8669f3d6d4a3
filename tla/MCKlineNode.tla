----------------------------- MODULE MCKlineNode -----------------------------
EXTENDS KlineNode
=============================================================================
