--------------------------- MODULE MC_VsockClient ---------------------------
EXTENDS VsockClient, TLC

CONSTANTS s1, k1, k2, k3

=============================================================================
