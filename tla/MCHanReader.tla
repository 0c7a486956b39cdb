---------------------------- MODULE MCHanReader ----------------------------
(* HanReader on small buffers: frames of 3 bytes, lines of 4 with the        *)
(* terminator, a window of 2.                                                *)
EXTENDS HanReader, TLC

\* One byte; bytes that need stuffing; exactly as long as the buffer, with and
\* without stuffing; one and two bytes too long, with a line in the part that is
\* left over.
MCPayloads == {<<"a">>, <<"esc", "a">>, <<"a", "flag", "esc">>,
               <<"a", "A", "nl">>, <<"a", "a", "a", "a", "nl^", "nl">>,
               <<"esc", "flag", "esc", "flag">>}
MCKaifa == {<<"a">>, <<"esc", "a">>, <<"a", "flag", "esc">>}
\* "A" stands for the token that tells a FRAME line.
MCTyped == {<<"A", "a">>, <<"A">>, <<"a">>, <<"a", "a", "a">>}
MCPreformatted == <<"A", "a">> :> <<"a">> @@ <<"A">> :> <<>>
MCCsv == {<<"a">>}
=============================================================================
