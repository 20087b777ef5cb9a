------------------------------ MODULE Handoff ------------------------------
(***************************************************************************)
(* The command line's way to the words of a transcript (run_postprocess,   *)
(* run_extract): a command writes a work-order into a file, an agent       *)
(* fills it, another command checks what was filled by the gate of the     *)
(* server and writes it to several files.  A second work-order, made from  *)
(* the first one's result, asks for the action items.                      *)
(*                                                                         *)
(* One command runs at a time, the agent whenever it likes; a command may  *)
(* stop between the files it writes.                                       *)
(***************************************************************************)
EXTENDS Wording

CONSTANTS
    Recordings,     \* sequences of raw lines: what was transcribed
    AgentItems,     \* action items an agent may fill in
    MaxItems,       \* bound on the items of a work-order
    MaxCommands,    \* bound on the commands
    Nil

VARIABLES
    recording,  \* text-*.json
    order,      \* the work-order of the cleaning: a line and its slot each
    xorder,     \* the work-order of the extraction: its lines and its items
    files,      \* output file -> the command it was written by, 0 for none
    found,      \* what the JSON of each kind of output holds
    task,       \* the command that is writing
    count,      \* how many commands were given
    torn        \* history: outputs a command began to write and did not finish

hand == <<recording, order, xorder, files, found, task, count, torn>>

Outputs == [clean |-> <<"cleaned.json", "minutes", "diff">>, extract |-> <<"actionitems.json", "list">>]

Files == UNION {ToSet(Outputs[g]) : g \in DOMAIN Outputs}

HandInit ==
    /\ WordInit /\ recording \in Recordings
    /\ order = Nil /\ xorder = Nil
    /\ files = [f \in Files |-> 0] /\ found = [g \in DOMAIN Outputs |-> <<>>]
    /\ task = Nil /\ count = 0 /\ torn = {}

Given == task = Nil /\ count < MaxCommands /\ count' = count + 1

-----------------------------------------------------------------------------
(* Cleaning.                                                               *)

(* emit: slots that were filled before are lost.                           *)
Emit ==
    /\ Given
    /\ order' = [i \in DOMAIN recording |-> [original |-> Glossed(recording[i], Seed).text, slot |-> Nil]]
    /\ UNCHANGED <<recording, xorder, files, found, task, torn>>

Fill(i, answer) ==
    /\ order[i].slot # answer
    /\ order' = [order EXCEPT ![i].slot = answer]
    /\ UNCHANGED <<recording, xorder, files, found, task, count, torn>>

(* collect: every target of the glossary is kept that occurs, and a slot   *)
(* left empty is the original, for a person to check.                      *)
Collected(line, requireEdit) ==
    LET keep == {t \in Range(Seed) : Occurs(line.original, t)}
    IN  IF line.slot = Nil THEN [text |-> line.original, flagged |-> TRUE]
        ELSE RepairOrDegrade(line.original, line.slot, keep, requireEdit)

Writing(kind, result, overwrite) ==
    task' = [kind |-> kind, next |-> 1, by |-> count + 1, result |-> result, overwrite |-> overwrite]

Collect(requireEdit, overwrite) ==
    /\ Given /\ order # Nil
    /\ Writing("clean", [i \in DOMAIN order |-> Collected(order[i], requireEdit)], overwrite)
    /\ UNCHANGED <<recording, order, xorder, files, found, torn>>

(* auto: the model answers instead of the agent.                           *)
AutoClean(passthrough, overwrite) ==
    LET glossed == [i \in DOMAIN recording |-> Glossed(recording[i], Seed)]
        same(i) == [text |-> glossed[i].text, overEdited |-> FALSE]
    IN  /\ Given
        /\ \E i \in DOMAIN recording :
           \E a \in IF passthrough THEN {same(i)} ELSE Answers(glossed[i].text) :
              Writing("clean",
                      [j \in DOMAIN recording |->
                          RepairOrDegrade(glossed[j].text, IF j = i THEN a ELSE same(j),
                                          glossed[j].applied, ~passthrough)],
                      overwrite)
        /\ UNCHANGED <<recording, order, xorder, files, found, torn>>

-----------------------------------------------------------------------------
(* Extraction.                                                             *)

ExtractEmit ==
    /\ Given /\ found.clean # <<>>
    /\ xorder' = [lines |-> DOMAIN found.clean, items |-> <<>>]
    /\ UNCHANGED <<recording, order, files, found, task, torn>>

ExtractFill(item) ==
    /\ Len(xorder.items) < MaxItems
    /\ xorder' = [xorder EXCEPT !.items = Append(@, item)]
    /\ UNCHANGED <<recording, order, files, found, task, count, torn>>

Meant == {"ambiguous", "inferred"}

(* An item without a line is to be reviewed; the marks of the agent are    *)
(* kept, and an owner that was inferred is marked so.                      *)
Checked(item, lines) ==
    LET ev == item.ev \cap lines
        meant == IF item.flag \in Meant THEN item.flag ELSE "none"
    IN  [text |-> item.text, ev |-> ev, meant |-> meant,
         flag |-> IF ev = {} THEN "review"
                  ELSE IF meant # "none" THEN meant
                  ELSE IF item.inferred THEN "inferred" ELSE "none"]

(* A mutant: a second item of one text brings its lines only.              *)
MergedByLines(first, later) ==
    LET ev == first.ev \cup later.ev
    IN  [first EXCEPT !.ev = ev, !.flag = IF ev # {} /\ @ = "review" THEN "none" ELSE @]

(* A second item of one text brings its lines, which end the review, and   *)
(* its mark where there is none.                                           *)
MergedInto(first, later) ==
    LET ev == first.ev \cup later.ev
        flag == IF ev # {} /\ first.flag = "review" THEN "none" ELSE first.flag
    IN  [first EXCEPT !.ev = ev, !.flag = IF flag = "none" THEN later.meant ELSE flag]

Added(collated, it) ==
    LET same == {k \in DOMAIN collated : collated[k].text = it.text}
    IN  IF same = {} THEN Append(collated, it)
        ELSE [k \in DOMAIN collated |->
                IF k \in same THEN MergedInto(collated[k], it) ELSE collated[k]]

Collation(items, lines) ==
    LET upto[n \in 0..Len(items)] ==
            IF n = 0 THEN <<>> ELSE Added(upto[n - 1], Checked(items[n], lines))
    IN  upto[Len(items)]

ExtractCollect(overwrite) ==
    /\ Given /\ xorder # Nil
    /\ Writing("extract", [asked |-> xorder, items |-> Collation(xorder.items, xorder.lines)], overwrite)
    /\ UNCHANGED <<recording, order, xorder, files, found, torn>>

-----------------------------------------------------------------------------
(* Writing.                                                                *)

(* A mutant: an output that is there keeps its JSON only.                  *)
SkippedJsonOnly ==
    /\ task # Nil /\ task.next = 1 /\ ~task.overwrite /\ files[Outputs[task.kind][1]] # 0
    /\ task' = [task EXCEPT !.next = 2]
    /\ UNCHANGED <<recording, order, xorder, files, found, count, torn>>

(* An output that is there is left as it is, if the command says so.       *)
Skipped ==
    /\ task # Nil /\ task.next = 1 /\ ~task.overwrite /\ files[Outputs[task.kind][1]] # 0
    /\ task' = Nil
    /\ UNCHANGED <<recording, order, xorder, files, found, count, torn>>

Write ==
    LET names == Outputs[task.kind] IN
    /\ task # Nil /\ (task.next = 1 => task.overwrite \/ files[names[1]] = 0)
    /\ files' = [files EXCEPT ![names[task.next]] = task.by]
    /\ found' = IF task.next = 1 THEN [found EXCEPT ![task.kind] = task.result] ELSE found
    /\ IF task.next < Len(names)
       THEN task' = [task EXCEPT !.next = @ + 1] /\ torn' = torn \cup {task.kind}
       ELSE task' = Nil /\ torn' = torn \ {task.kind}
    /\ UNCHANGED <<recording, order, xorder, count>>

Interrupted ==
    /\ task # Nil /\ task' = Nil
    /\ UNCHANGED <<recording, order, xorder, files, found, count, torn>>

HandNext ==
    \/ Emit
    \/ order # Nil /\ \E i \in DOMAIN order : \E a \in Answers(order[i].original) : Fill(i, a)
    \/ \E requireEdit, overwrite \in BOOLEAN : Collect(requireEdit, overwrite)
    \/ \E passthrough, overwrite \in BOOLEAN : AutoClean(passthrough, overwrite)
    \/ ExtractEmit
    \/ xorder # Nil /\ \E item \in AgentItems : ExtractFill(item)
    \/ \E overwrite \in BOOLEAN : ExtractCollect(overwrite)
    \/ Skipped \/ Write \/ Interrupted

(* The command line and the server share the operators and no state: a     *)
(* behaviour is of the one or of the other.                                *)
WordingNext ==
    \/ count = 0 /\ WordNext /\ UNCHANGED hand
    \/ edits = 0 /\ job.at = "idle" /\ HandNext /\ UNCHANGED wordVars

WordingSpec == HandInit /\ [][WordingNext]_<<wordVars, hand>>

-----------------------------------------------------------------------------
(* The setting in which a line loses nothing: words and entries are texts  *)
(* of one alphabet and have no blank; entries have no digit either, and no *)
(* target begins with what makes a digit before it look misheard.          *)

Alphabet(signs) ==
    /\ Blank \notin signs \cup Hangul \cup Letters \cup Digits
    /\ "5" \in Digits /\ {"oh", "tam"} \cap Digits = {}

Plain(s, signs) == s \in Seq(signs \ Digits) /\ s # <<>>

PlainGlossary(dict, signs) ==
    \A k \in DOMAIN dict : Plain(k, signs) /\ Plain(dict[k], signs) /\ dict[k][1] # "tam"

Written(signs) ==
    /\ Alphabet(signs) /\ PlainGlossary(Seed, signs)
    /\ \A e \in Entries : Plain(e[1], signs) /\ Plain(e[2], signs) /\ e[2][1] # "tam"
    /\ RawLines \subseteq Seq(Seq(signs)) /\ Recordings \subseteq Seq(Seq(Seq(signs)))

-----------------------------------------------------------------------------
(* A word that is an entry is written as its target, and whatever the      *)
(* model or the agent answers, and whichever slots it leaves, every        *)
(* published line has the numbers that were heard and the targets of the   *)
(* glossary.                                                               *)
LinesSurvive ==
    /\ EntriesWin /\ ContentSurvives
    /\ \A i \in DOMAIN found.clean : Survives(recording[i], Seed, found.clean[i].text)

(* The files of one output are of one command, whatever was given with or  *)
(* without leave to overwrite, unless a command was stopped among them and *)
(* none has written them since.                                            *)
OutputsAgree ==
    \A g \in DOMAIN Outputs \ torn : \A f, h \in ToSet(Outputs[g]) : files[f] = files[h]

(* What the agent marked and could show a line for is marked in the list,  *)
(* with all its lines, however it was merged; what has no line is to be    *)
(* reviewed.                                                               *)
MarksSurvive ==
    found.extract # <<>> =>
        LET lines == found.extract.asked.lines
        IN  \A a \in ToSet(found.extract.asked.items) :
                \E x \in ToSet(found.extract.items) :
                    /\ x.text = a.text /\ a.ev \cap lines \subseteq x.ev
                    /\ a.flag \in Meant /\ a.ev \cap lines # {} => x.flag # "none"
                    /\ x.ev = {} => x.flag = "review"
=============================================================================
