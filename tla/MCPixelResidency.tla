-------------------------- MODULE MCPixelResidency --------------------------
EXTENDS PixelResidency

CONSTANTS e1, e2

\* Two entities, in addEntity order.
MCEntityNames == <<e1, e2>>

=============================================================================
