----------------------------- MODULE MCCtlSocket -----------------------------
\* Two daemons on one socket path.
EXTENDS CtlSocket

CONSTANTS d1, d2

=============================================================================
