----------------------------- MODULE MCExtractChain -----------------------------
EXTENDS ExtractChain
=============================================================================
