--------------------------- MODULE MCFocusGroup ---------------------------
EXTENDS FocusGroup
CONSTANTS s1, s2
=============================================================================
