-------------------------- MODULE MCFileRetention --------------------------
EXTENDS FileRetention

CONSTANTS f1, f2, j1, j2
=============================================================================
