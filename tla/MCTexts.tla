------------------------------ MODULE MCTexts ------------------------------
EXTENDS CoreText

Line(h, l, c, b) == [hangul |-> h, latin |-> l, chars |-> c, boilerplate |-> b]

Korean == Line(20, 0, 26, FALSE)
Grey == Line(8, 12, 26, FALSE)          \* doubtful: two fifths Korean
Short == Line(0, 2, 2, FALSE)           \* doubtful: "OK"
Noise == Line(0, 60, 70, FALSE)         \* excluded: English where nobody spoke
Rush == Line(40, 60, 130, FALSE)        \* excluded: too fast to be speech
Closing == Line(12, 0, 14, TRUE)        \* excluded: "thanks for watching"
Digits == Line(0, 0, 3, FALSE)
Blank == Line(0, 0, 0, FALSE)

All == {Korean, Grey, Short, Noise, Rush, Closing, Digits, Blank}
Few == {Korean, Grey, Noise}

Transcripts(S, n) == UNION {[1..k -> S] : k \in 1..n}

Row(of, no) == [of |-> of, no |-> no]

\* One block with its number, another one or none on its row, or no row.
OneBlock == {[nos |-> <<3>>, rows |-> r] : r \in {<<Row(1, 3)>>, <<Row(1, 1)>>, <<>>}}

\* Two blocks: every number on its block's row, with the rows in order, the other
\* way round or one missing; two blocks of one number; numbers crossed.
TwoBlocks ==
    [nos : {<<2, 1>>}, rows : {<<Row(1, 2), Row(2, 1)>>, <<Row(2, 1), Row(1, 2)>>, <<Row(2, 1)>>}]
      \cup {[nos |-> <<1, 1>>, rows |-> <<Row(1, 1), Row(2, 1)>>],
            [nos |-> <<1, 2>>, rows |-> <<Row(1, 1), Row(2, 2)>>],
            [nos |-> <<1, 2>>, rows |-> <<Row(1, 2), Row(2, 1)>>]}

AllNumberings == OneBlock \cup TwoBlocks
FewNumberings == [nos : {<<1, 2>>}, rows : {<<Row(1, 1), Row(2, 2)>>, <<Row(1, 1)>>}]

Of(transcripts, backends, numberings) ==
    [lines : transcripts, backends : backends, numberings : {numberings}]

\* Two windows, for the rows of answers that are concatenated.
LongMeetings == Of({<<Korean, Korean, Korean>>}, {{"summarize"}}, AllNumberings)

MCMeetings ==
    LongMeetings
      \cup Of(Transcripts(All, 2), {{"summarize"}}, AllNumberings)
      \cup Of(Transcripts(Few, 3), {{"summarize"}}, FewNumberings)
      \cup Of(Transcripts(All, 2) \cup Transcripts(Few, 3), {{"extract"}}, {})
      \cup Of(Transcripts({Korean, Short, Noise}, 2), {{"summarize", "extract"}}, FewNumberings)
=============================================================================
