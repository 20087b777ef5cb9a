---------------------------- MODULE MCWording ----------------------------
EXTENDS Handoff

Hoeui == <<"hoe", "ui">>            \* meeting
Rok == <<"hoe", "ui", "rok">>       \* minutes: a longer word with the first in it
HoeuiEul == Hoeui \o <<"eul">>      \* the word with a particle, an entry of its own
Miting == <<"mi", "ting">>
Ap == <<"a", "p">>

MCHangul == {"hoe", "ui", "rok", "mi", "ting", "oh", "tam", "je", "eul"}
MCSeed == (Ap :> <<"a", "p", "i">>)
MCEntries == {<<Hoeui, Miting>>, <<Miting, Hoeui>>, <<HoeuiEul, <<"mi">>>>, <<Ap, <<"rok", "a">>>>}

MCRawLines == {
    <<Hoeui, Miting>>,
    <<Rok, Ap>>,
    <<HoeuiEul, <<"1", "5">>>>,
    <<<<"hoe">> \o Hoeui, Ap \o <<"i">>>>,
    <<<<"5", "tam">>, <<"5", "hoe">>, Ap \o <<"eul">>>>,
    <<<<"1", "5", "tam">>, Miting \o <<"rok">>>> }

MCRecordings == {<< <<Ap>> >>, << <<<<"5", "tam">>>>, <<Ap>> >>}

(* 0 is no line of the work-order.                                         *)
MCAgentItems ==
    {[text |-> "do", ev |-> ev, flag |-> flag, inferred |-> inferred] :
        ev \in {{0}, {1}}, flag \in {"none", "ambiguous"}, inferred \in BOOLEAN}
      \cup {[text |-> "call", ev |-> {0, 1}, flag |-> "none", inferred |-> TRUE]}

(* The instance is of the setting of the theorem about the lines.          *)
ASSUME InstanceIsWritten == Written(Hangul \cup Letters \cup Digits)
=============================================================================
