--------------------------- MODULE MCAidlResidency --------------------------
EXTENDS AidlResidency

CONSTANTS e1, e2, eUnknown, s1, s2, sUnknown, c1, c2

\* Two entities (the service adds one, Citadel; a second one exercises the
\* erase loop of unregisterCallbackInternal), with two and one states.
MCEntities == {e1, e2}
MCEntityStates == (e1 :> {s1, s2}) @@ (e2 :> {s1})
MCStateNames == {s1, s2, sUnknown}

\* Stats a callback may return: complete, partial, with an unknown state,
\* with a state reported twice.
MCReplies == {<<s1, s2>>, <<s2>>, <<sUnknown, s1>>, <<s1, s1>>}

=============================================================================
