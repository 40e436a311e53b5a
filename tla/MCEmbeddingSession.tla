------------------------- MODULE MCEmbeddingSession -------------------------
EXTENDS EmbeddingSession
=============================================================================
