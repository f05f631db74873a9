--------------------------- MODULE MC_VsockServer ---------------------------
EXTENDS VsockServer, TLC

CONSTANTS w1, w2

=============================================================================
