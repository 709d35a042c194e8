------------------------- MODULE MCBackgroundOutput -------------------------
\* Logs that cross the read limit inside a code point of every width, that
\* end inside one, and that are malformed where the limit falls.
EXTENDS BackgroundOutput, TLC

MCLogs == {<<"a", "3", "c", "c">>, <<"4", "c", "c", "c">>, <<"o", "4", "x">>,
           <<"c", "c", "c">>, <<"a", "a", "a">>}

\* The callers are interchangeable (safety only).
MCSymmetry == Permutations(Reader)

\* For the liveness run: a code point that the limit falls into, so that a
\* wait may find nothing to take yet.
MCShortLogs == {<<"2", "c">>}
=============================================================================
