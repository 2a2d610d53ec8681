--------------------------- MODULE MC_BatchResults ---------------------------
EXTENDS BatchResults

MCExecutors == {"pipeline", "batch_pipeline", "transaction"}
=============================================================================
