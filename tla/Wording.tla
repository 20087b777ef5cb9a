------------------------------ MODULE Wording ------------------------------
(***************************************************************************)
(* The words of a transcript before the meeting core reads them: the       *)
(* layered glossary (file, company, own), the dictionary a job takes when  *)
(* it is submitted, the correction of a line by it in one pass, the number *)
(* that was heard for a syllable, the cleaning by a model and the gate     *)
(* that publishes its answer or the original.                              *)
(*                                                                         *)
(* A text is a sequence of characters, an entry maps a text to a text, a   *)
(* raw line is a sequence of words that the recogniser put blanks between. *)
(* Two requests of the settings page may overlap each other and the        *)
(* submission.                                                             *)
(***************************************************************************)
EXTENDS Integers, SequencesExt

CONSTANTS
    Hangul, Letters, Digits,    \* the characters
    JosaHeads,          \* syllables a particle or an ending starts with
    Seed,               \* entries of the glossary file
    Entries,            \* <<source, target>> the requests may save
    RawLines,           \* lines the recogniser may write
    Requests,           \* threads that serve the settings page
    MaxTerms,           \* GLOSSARY_MAX_TERMS
    MaxEdits            \* bound on the edits of a behaviour

ASSUME WordingAssumption ==
    /\ JosaHeads \subseteq Hangul /\ MaxTerms \in Nat /\ MaxEdits \in Nat
    /\ \A e \in Entries : e[1] # e[2] /\ e[1] # <<>> /\ e[2] # <<>>

VARIABLES
    terms,      \* scope -> entries stored for it
    pending,    \* request -> the save it has checked, as a sequence of at most one
    edits,      \* how many edits were made
    job         \* one job, from its submission to its published line

wordVars == <<terms, pending, edits, job>>

Scopes == {"global", "user"}

(* Two dictionaries, the first one's entry where both have one.            *)
Over(f, g) == [k \in DOMAIN f \cup DOMAIN g |-> IF k \in DOMAIN f THEN f[k] ELSE g[k]]

Blank == " "
ShortKeyLen == 2
Sources == {e[1] : e \in Entries}

-----------------------------------------------------------------------------
(* Correction: at each place the longest entry whose boundaries fit, and   *)
(* what was written is never read again.                                   *)

Matches(t, p, k) ==
    LET end == p + Len(k) - 1
        before == {t[q] : q \in {p - 1} \cap DOMAIN t}
        after == {t[q] : q \in {end + 1} \cap DOMAIN t}
        word == Letters \cup Digits
    IN  /\ end <= Len(t) /\ SubSeq(t, p, end) = k
        /\ IF ToSet(k) \cap Hangul = {} THEN (before \cup after) \cap word = {}
           ELSE \/ Len(k) > ShortKeyLen
                \/ before \cap Hangul = {} /\ after \cap Hangul \subseteq JosaHeads

(* A mutant: the shortest entry that fits.                                 *)
CorrectedAtShortest(a, t, p, dict) ==
    LET fits == {k \in DOMAIN dict : Matches(t, p, k)}
        key == CHOOSE k \in fits : \A j \in fits : Len(k) <= Len(j)
    IN  IF p < a.next THEN a
        ELSE IF fits = {} THEN [text |-> Append(a.text, t[p]), next |-> p + 1, applied |-> a.applied]
        ELSE [text |-> a.text \o dict[key], next |-> p + Len(key), applied |-> a.applied \cup {dict[key]}]

(* One place of the pass.                                                  *)
CorrectedAt(a, t, p, dict) ==
    LET fits == {k \in DOMAIN dict : Matches(t, p, k)}
        key == CHOOSE k \in fits : \A j \in fits : Len(k) >= Len(j)
    IN  IF p < a.next THEN a
        ELSE IF fits = {} THEN [text |-> Append(a.text, t[p]), next |-> p + 1, applied |-> a.applied]
        ELSE [text |-> a.text \o dict[key], next |-> p + Len(key), applied |-> a.applied \cup {dict[key]}]

Correct(t, dict) ==
    LET upto[p \in 0..Len(t)] ==
            IF p = 0 THEN [text |-> <<>>, next |-> 1, applied |-> {}]
            ELSE CorrectedAt(upto[p - 1], t, p, dict)
    IN  upto[Len(t)]

(* "5" heard for the syllable "oh" before "tam", but not as part of a      *)
(* number or an ordinal.                                                   *)
Homophone(t) ==
    [p \in DOMAIN t |->
        IF /\ t[p] = "5" /\ p < Len(t) /\ t[p + 1] = "tam"
           /\ p = 1 \/ t[p - 1] \notin Digits \cup {"je"}
        THEN "oh" ELSE t[p]]

-----------------------------------------------------------------------------
(* The gate. *)

Occurs(t, u) == \E p \in 1..(Len(t) - Len(u) + 1) : SubSeq(t, p, p + Len(u) - 1) = u

Numbers(t) ==
    {SubSeq(t, r[1], r[2]) : r \in
        {s \in (DOMAIN t) \X (DOMAIN t) :
            /\ s[1] <= s[2] /\ \A p \in s[1]..s[2] : t[p] \in Digits
            /\ s[1] = 1 \/ t[s[1] - 1] \notin Digits
            /\ s[2] = Len(t) \/ t[s[2] + 1] \notin Digits}}

ExcusedDigits(original, cleaned) ==
    IF Occurs(original, <<"5", "tam">>) /\ Occurs(cleaned, <<"oh", "tam">>) THEN {<<"5">>} ELSE {}

(* A mutant: a number may go.                                              *)
ContentPreservedTerms(original, cleaned, mustKeep) ==
    \A t \in mustKeep : Occurs(original, t) => Occurs(cleaned, t)

ContentPreserved(original, cleaned, mustKeep) ==
    /\ \A t \in mustKeep : Occurs(original, t) => Occurs(cleaned, t)
    /\ Numbers(original) \ ExcusedDigits(original, cleaned) \subseteq Numbers(cleaned)

ValidSegment(original, answer, mustKeep, requireEdit) ==
    /\ answer.text # <<>>
    /\ ~answer.overEdited
    /\ requireEdit => answer.text # original
    /\ ContentPreserved(original, answer.text, mustKeep)

(* Answers that fail are replaced by the original, which a person checks.  *)
RepairOrDegrade(original, answer, mustKeep, requireEdit) ==
    IF ValidSegment(original, answer, mustKeep, requireEdit)
    THEN [text |-> answer.text, flagged |-> FALSE]
    ELSE [text |-> original, flagged |-> TRUE]

-----------------------------------------------------------------------------
WordInit ==
    /\ terms = [s \in Scopes |-> <<>>]
    /\ pending = [r \in Requests |-> <<>>]
    /\ edits = 0
    /\ job = [at |-> "idle"]

(* What is edited while the job reads its dictionary is not steady.        *)
Unsettled(j, scope, source) ==
    IF j.at = "reading" THEN [j EXCEPT !.steady = @ \ {<<scope, source>>}] ELSE j

(* The bound: MaxEdits edits, and none once the job has its dictionary,    *)
(* which later edits cannot reach.                                         *)
Watched == edits < MaxEdits /\ job.at \in {"idle", "reading"}

(* A save counts the entries in one step and writes in another.            *)
CheckTerm(r, scope, e) ==
    /\ pending[r] = <<>> /\ Watched
    /\ e[1] \in DOMAIN terms[scope] \/ Cardinality(DOMAIN terms[scope]) < MaxTerms
    /\ pending' = [pending EXCEPT ![r] = <<[scope |-> scope, source |-> e[1], target |-> e[2]]>>]
    /\ edits' = edits + 1
    /\ UNCHANGED <<terms, job>>

SaveTerm(r) ==
    /\ pending[r] # <<>> /\ job.at \in {"idle", "reading"}
    /\ LET p == pending[r][1]
       IN  /\ terms' = [terms EXCEPT ![p.scope] = Over([k \in {p.source} |-> p.target], @)]
           /\ job' = Unsettled(job, p.scope, p.source)
    /\ pending' = [pending EXCEPT ![r] = <<>>]
    /\ UNCHANGED edits

DeleteTerm(scope, source) ==
    /\ source \in DOMAIN terms[scope] /\ Watched
    /\ terms' = [terms EXCEPT ![scope] = [k \in DOMAIN @ \ {source} |-> @[k]]]
    /\ job' = Unsettled(job, scope, source)
    /\ edits' = edits + 1
    /\ UNCHANGED pending

(* A submission reads the file and the company's entries, then the user's. *)
ReadGlobal ==
    /\ job.at = "idle"
    /\ job' = [at |-> "reading", merged |-> Over(terms["global"], Seed),
               begun |-> terms, steady |-> Scopes \X Sources]
    /\ UNCHANGED <<terms, pending, edits>>

(* A mutant: the company's entry before the user's own.                    *)
LayeredBelow(j, personal) == Over(j.merged, personal)

Layered(j, personal) == Over(personal, j.merged)

ReadPersonal ==
    /\ job.at = "reading"
    /\ job' = [at |-> "queued", glossary |-> Layered(job, terms["user"]),
               begun |-> job.begun, steady |-> job.steady]
    /\ UNCHANGED <<terms, pending, edits>>

(* The dictionary could not be read: the job goes on with the file.        *)
FallBack ==
    /\ job.at = "reading"
    /\ job' = [at |-> "queued", glossary |-> Seed, begun |-> job.begun, steady |-> {}]
    /\ UNCHANGED <<terms, pending, edits>>

Spaced(words) == FlattenSeq([i \in DOMAIN words |-> IF i = 1 THEN words[i] ELSE <<Blank>> \o words[i]])

(* The transcribed line by a dictionary, and the targets it wrote.         *)
Glossed(words, dict) ==
    LET c == Correct(Spaced(words), dict) IN [text |-> Homophone(c.text), applied |-> c.applied]

Transcribe ==
    /\ job.at = "queued"
    /\ \E words \in RawLines :
          LET line == Glossed(words, job.glossary)
          IN  job' = [at |-> "corrected", glossary |-> job.glossary, words |-> words,
                      text |-> line.text, applied |-> line.applied]
    /\ UNCHANGED <<terms, pending, edits>>

(* The model may leave the line, drop a character or answer nothing, which *)
(* counts as leaving it; a rewording may be heavier than the gate allows.  *)
Answers(t) ==
    {[text |-> t, overEdited |-> FALSE]}
      \cup [text : {RemoveAt(t, p) : p \in DOMAIN t}, overEdited : BOOLEAN]

Clean ==
    /\ job.at = "corrected"
    /\ \E passthrough \in BOOLEAN :
       \E a \in IF passthrough THEN {[text |-> job.text, overEdited |-> FALSE]} ELSE Answers(job.text) :
          LET line == RepairOrDegrade(job.text, a, job.applied, ~passthrough)
          IN  job' = [at |-> "done", glossary |-> job.glossary, words |-> job.words,
                      text |-> job.text, line |-> line]
    /\ UNCHANGED <<terms, pending, edits>>

WordNext ==
    \/ \E r \in Requests :
          \/ \E s \in Scopes, e \in Entries : CheckTerm(r, s, e)
          \/ SaveTerm(r)
    \/ \E s \in Scopes, k \in Sources : DeleteTerm(s, k)
    \/ ReadGlobal \/ ReadPersonal \/ FallBack
    \/ Transcribe \/ Clean

-----------------------------------------------------------------------------
(* An entry nobody touched while the job read its dictionary is the one    *)
(* the job corrects by: the user's own, else the company's, else the       *)
(* file's.                                                                 *)
SteadyEntriesApply ==
    job.at = "queued" =>
        \A k \in Sources :
            <<"user", k>> \in job.steady =>
                LET own == job.begun["user"]
                    all == Over(own, Over(job.begun["global"], Seed))
                IN  /\ k \in DOMAIN job.glossary <=> k \in DOMAIN all
                    /\ k \in DOMAIN all => job.glossary[k] = all[k]

(* A word that is an entry becomes its target and nothing else, also when  *)
(* the target or a part of the word is an entry too; what a word becomes   *)
(* does not depend on the words around it.                                 *)
EntriesWin ==
    job.at \in {"corrected", "done"} =>
        job.text = Homophone(Spaced([i \in DOMAIN job.words |->
            LET w == job.words[i]
            IN  IF w \in DOMAIN job.glossary THEN job.glossary[w] ELSE Correct(w, job.glossary).text]))

Survives(words, dict, text) ==
    /\ \A n \in Numbers(Spaced(words)) :
          \/ n \in Numbers(text)
          \/ n = <<"5">> /\ Occurs(Spaced(words), <<"5", "tam">>)
    /\ \A i \in DOMAIN words : words[i] \in DOMAIN dict => Occurs(text, dict[words[i]])

(* Whatever the model answers, the published line has every number that    *)
(* was heard, but the 5 of the listed word, and every target the glossary  *)
(* wrote into it.                                                          *)
ContentSurvives ==
    job.at = "done" => Survives(job.words, job.glossary, job.line.text)
=============================================================================
