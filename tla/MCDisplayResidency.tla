------------------------- MODULE MCDisplayResidency -------------------------
EXTENDS DisplayResidency

\* Three display states; the node may hold a text naming one state, a text
\* in which two state names occur (the lower index wins), or an unknown one.
MCReads == {{0}, {1}, {0, 2}, {}}

=============================================================================
