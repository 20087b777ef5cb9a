------------------------------ MODULE MCSpeech ------------------------------
(* The speech pipeline, or the way of the lines it wrote.                  *)
EXTENDS MCWording, Transcription

VARIABLE side       \* what this behaviour is about: "speech" or "lines"

SpeechInit ==
    /\ HandInit /\ Init
    /\ \/ side = "speech" /\ recording = CHOOSE r \in Recordings : TRUE
       \/ side = "lines" /\ \A u \in 1..Length : audio[u] = Silence

SpeechNext ==
    \/ side = "speech" /\ Next /\ UNCHANGED <<wordVars, hand, side>>
    \/ side = "lines" /\ WordingNext /\ UNCHANGED <<vars, side>>

SpeechSpec == SpeechInit /\ [][SpeechNext]_<<vars, wordVars, hand, side>>
=============================================================================
