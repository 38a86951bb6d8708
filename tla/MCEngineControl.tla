--------------------------- MODULE MCEngineControl ---------------------------
EXTENDS EngineControl

=============================================================================
