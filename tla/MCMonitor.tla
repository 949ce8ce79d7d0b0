------------------------------ MODULE MCMonitor ------------------------------
(***************************************************************************)
(* An instance of Monitor for TLC: a screen of three rows of four columns. *)
(***************************************************************************)
EXTENDS Monitor, TLC

\* A wrap, a tab and a backspace that come to a line's end or its start, a
\* return, and enough new lines to scroll.
MCTexts == {<<"a", "b", "c", "d", "e">>, <<"f", TAB, "g", BS, BS, BS, "h">>,
            <<"i", NL, NL>>, <<"j", "k", "l", TAB, CR, "m">>}

\* Threads are interchangeable.
Symmetry == Permutations(Threads)

\* A panic ends its first line, and a failed Assert begins with two new lines; one
\* message wraps, the other scrolls.
MCPanicTexts == {<<"P", "Q", "R", "S", "T", NL, "U", NL>>, <<NL, NL, "V", "W", NL, "X">>}
=============================================================================
