--------------------------- MODULE MCFrameReader ---------------------------
EXTENDS FrameReader

\* A status line and a header field, with a partial match in between.
ResponseBytes == <<"x", "r", "n", "x", "r", "n", "r", "n">>
=============================================================================
