--------------------------- MODULE MCRuntimeService ---------------------------
EXTENDS RuntimeService

================================================================================
