------------------------------ MODULE CoreText ------------------------------
(***************************************************************************)
(* What the meeting core makes of a transcript: which lines its agents     *)
(* read, and what of their answers reaches the minutes.  MeetingCore       *)
(* models how the calls run, fail and are cancelled; here every call has   *)
(* answered (or has been lost) and the text itself is followed through     *)
(*                                                                         *)
(*   language gate -> windows -> summarise and extract per window          *)
(*   -> reduce or concatenate -> critic -> output language -> grounding    *)
(*   -> the contract the web shows                                         *)
(*                                                                         *)
(* A line is what the gate measures of it; a text the agents write is a    *)
(* name and whether it is Korean; a citation is a set of line numbers,     *)
(* with Ghost for a number no line has.  The three sections of an agenda   *)
(* block are treated alike by the code and are one sequence here.  Blocks  *)
(* and rows of the index carry the number their agent gave them, whatever  *)
(* it is, and a tag that says which block a row was written for.           *)
(***************************************************************************)
EXTENDS Integers, SequencesExt

CONSTANTS
    Meetings,       \* records [lines, backends, numberings]: what the core is started
                    \* with, and how its agents may number: a record [nos, rows] has
                    \* the numbers of the blocks and, of each row of the index, the
                    \* block it is written for and its number
    ExcludeRatio, MinHangul, MinChars, MaxCps, CpsRatio, LowConfRatio,
                    \* LANG_GATE_*, ratios in per cent
    LineSec,        \* length of a line in seconds
    WindowSegments, WindowOverlap, LongFormSec,     \* CORE_WINDOW_*, CORE_LONG_FORM_SEC
    GateListMax,    \* GATE_SUMMARY_MAX_ITEMS
    WithCritic, WithLocalize,
    None            \* no value, and a text of blanks

ASSUME TextAssumption ==
    /\ WindowSegments \in Nat /\ {WindowOverlap, GateListMax} \subseteq Int
    /\ \A m \in Meetings :
          Len(m.lines) \in Nat /\ m.backends \subseteq {"summarize", "extract"}
    /\ \A m \in Meetings : \A n \in m.numberings :
          /\ n.nos \in Seq(Int) /\ n.nos # <<>>
          /\ n.rows \in Seq([of : DOMAIN n.nos, no : Int])

VARIABLES
    meeting,        \* the transcript, the backends that are configured, the numberings
    pc,             \* the stage the core is in
    parts,          \* answers of the summaries, by window
    extracts,       \* answers of the extractions, by window
    summary, actions,
    raw,            \* history: the summary as the one agent that wrote it numbered
                    \* it, None when the answers of several were concatenated
    cut,            \* names of the actions the critic dropped
    out             \* the contract, once it is made

textVars == <<meeting, pc, parts, extracts, summary, actions, raw, cut, out>>

Ghost == 0
Lines == meeting.lines
NoSummary == [agenda |-> <<>>, index |-> <<>>]

-----------------------------------------------------------------------------
(* The language gate. *)

Below(line, percent) == line.hangul * 100 < percent * (line.hangul + line.latin)

Foreign(line) == Below(line, ExcludeRatio) /\ line.hangul < MinHangul

Flood(line) == line.chars > MaxCps * LineSec /\ Below(line, CpsRatio)

Excluded(line) ==
    /\ line.chars > 0
    /\ \/ line.boilerplate
       \/ Foreign(line) /\ line.chars >= MinChars
       \/ ~Foreign(line) /\ Flood(line)

Doubtful(line) ==
    /\ line.chars > 0
    /\ ~Excluded(line)
    /\ Foreign(line) \/ Below(line, LowConfRatio)

(* The k-th of a set of numbers, and the entries of a sequence at some of   *)
(* its places, in their order.                                             *)
Nth(places, k) == CHOOSE p \in places : Cardinality({q \in places : q < p}) = k - 1
Only(s, places) == [k \in 1..Cardinality(places) |-> s[Nth(places, k)]]

KeptIds == {i \in 1..Len(Lines) : ~Excluded(Lines[i])}
Kept == [k \in 1..Cardinality(KeptIds) |-> Nth(KeptIds, k)]
LowConf == {i \in KeptIds : Doubtful(Lines[i])}
ExcludedIds == {i \in 1..Len(Lines) : Excluded(Lines[i])}

-----------------------------------------------------------------------------
(* Windows of a long meeting, each overlapping the one before. *)

Least(a, b) == IF a < b THEN a ELSE b
Most(a, b) == IF a > b THEN a ELSE b

(* A mutant: it stops one line early.                                      *)
SplitWindowsEarly(ids) ==
    LET step == Most(1, WindowSegments - Most(0, WindowOverlap))
        starts == {k \in 0..Len(ids) : k = 0 \/ (k - 1) * step + WindowSegments < Len(ids) - 1}
    IN  IF WindowSegments <= 0 \/ Len(ids) <= WindowSegments THEN <<ids>>
        ELSE [k \in 1..Cardinality(starts) |->
                SubSeq(ids, (k - 1) * step + 1, Least((k - 1) * step + WindowSegments, Len(ids)))]

SplitWindows(ids) ==
    LET step == Most(1, WindowSegments - Most(0, WindowOverlap))
        starts == {k \in 0..Len(ids) : k = 0 \/ (k - 1) * step + WindowSegments < Len(ids)}
    IN  IF WindowSegments <= 0 \/ Len(ids) <= WindowSegments THEN <<ids>>
        ELSE [k \in 1..Cardinality(starts) |->
                SubSeq(ids, (k - 1) * step + 1, Least((k - 1) * step + WindowSegments, Len(ids)))]

LongForm ==
    \/ (Last(Kept) - Head(Kept) + 1) * LineSec > LongFormSec
    \/ Len(Kept) > WindowSegments

Windows == IF Kept = <<>> THEN <<>> ELSE IF LongForm THEN SplitWindows(Kept) ELSE <<Kept>>

-----------------------------------------------------------------------------
(* What an agent may answer for a window: it may cite a line of the        *)
(* window, the whole window, a line it was not shown or one that does not  *)
(* exist.  An answer that was lost is None, one that could not be parsed   *)
(* is empty.                                                               *)

Cites(w) == {{Ghost}, ToSet(w)} \cup {{i} : i \in 1..Len(Lines)}

Said == {[name |-> "point", korean |-> k] : k \in BOOLEAN}

Asked == {[name |-> "task", korean |-> TRUE], [name |-> "other", korean |-> FALSE], None}

Block(k, tag, items) == [no |-> k, tag |-> tag, items |-> items]

(* The answer to window k, 0 for the reduce, with these items: the numbers *)
(* of blocks and rows are kept as they come.                               *)
Numbered(k, n, items) ==
    [agenda |-> [j \in DOMAIN n.nos |-> Block(n.nos[j], <<k, j>>, items[j])],
     index |-> [r \in DOMAIN n.rows |-> [no |-> n.rows[r].no, tag |-> <<k, n.rows[r].of>>]]]

(* What a block says and cites is varied in one block, numbers in any.     *)
SummaryAnswers(k) ==
    LET w == Windows[k]
        plain == [nos |-> <<1>>, rows |-> <<[of |-> 1, no |-> 1]>>]
        point(t, e) == <<[text |-> t, ev |-> e]>>
        points(n) == [j \in DOMAIN n.nos |->
                        point([name |-> "point", korean |-> TRUE], IF j = 1 THEN ToSet(w) ELSE {Head(w)})]
    IN  {None, NoSummary}
          \cup {Numbered(k, plain, <<point(t, e)>>) : t \in Said, e \in Cites(w)}
          \cup {Numbered(k, n, points(n)) : n \in meeting.numberings}

ExtractAnswers(k) ==
    {None, <<>>}
      \cup {<<[text |-> t, ev |-> e, flagged |-> FALSE]>> : t \in Asked, e \in Cites(Windows[k])}

-----------------------------------------------------------------------------
TextInit ==
    /\ meeting \in Meetings
    /\ pc = "analyze"
    /\ parts = <<>> /\ extracts = <<>>
    /\ summary = None /\ actions = <<>> /\ raw = None
    /\ cut = {}
    /\ out = None

Runs(stage) == stage \in meeting.backends

(* Every window is one task per backend; the answers are put back in the   *)
(* order of the windows, however they came.                                *)
Summarize ==
    /\ pc = "analyze" /\ Runs("summarize") /\ Len(parts) < Len(Windows)
    /\ \E a \in SummaryAnswers(Len(parts) + 1) : parts' = Append(parts, a)
    /\ UNCHANGED <<meeting, pc, extracts, summary, actions, raw, cut, out>>

AllSummarized == Runs("summarize") => Len(parts) = Len(Windows)

Extract ==
    /\ pc = "analyze" /\ AllSummarized
    /\ Runs("extract") /\ Len(extracts) < Len(Windows)
    /\ \E a \in ExtractAnswers(Len(extracts) + 1) : extracts' = Append(extracts, a)
    /\ UNCHANGED <<meeting, pc, parts, summary, actions, raw, cut, out>>

(* The fallback of a failed reduce: the blocks one after another, blocks   *)
(* and rows of the index numbered each on their own.                       *)
Renumber(s) == [k \in DOMAIN s |-> [s[k] EXCEPT !.no = k]]

ConcatSummaries(answers) ==
    [agenda |-> Renumber(FlattenSeq([k \in DOMAIN answers |-> answers[k].agenda])),
     index |-> Renumber(FlattenSeq([k \in DOMAIN answers |-> answers[k].index]))]

(* A reduce that works is one more answer of an agent, with numbers of its *)
(* own: here it keeps everything the parts say, from the first in its      *)
(* first block and so on, and the rest in its last.                        *)
InBlocks(answers, n) ==
    LET items(s) == FlattenSeq([k \in DOMAIN s |-> s[k].items])
        block(k) == Least(k, Len(n.nos))
        dealt(j) == [k \in DOMAIN answers |-> IF block(k) = j THEN items(answers[k].agenda) ELSE <<>>]
    IN  Numbered(0, n, [j \in DOMAIN n.nos |-> FlattenSeq(dealt(j))])

(* An action without a text is none.                                       *)
Named(items) == Only(items, {k \in DOMAIN items : items[k].text # None})

Firsts(items) == {k \in DOMAIN items : \A j \in 1..(k - 1) : items[j].text # items[k].text}

(* A mutant: the second of two windows loses what it cites.                *)
MergeActionsFirst(answers) ==
    LET all == Named(FlattenSeq(answers)) IN Only(all, Firsts(all))

(* Actions of one text are one action that cites what each of them cites.  *)
MergeActions(answers) ==
    LET all == Named(FlattenSeq(answers))
        evidence(t) == UNION {all[k].ev : k \in {j \in DOMAIN all : all[j].text = t}}
        whole == [k \in DOMAIN all |-> [all[k] EXCEPT !.ev = evidence(all[k].text)]]
    IN  Only(whole, Firsts(all))

Answered(s) == Only(s, {k \in DOMAIN s : s[k] # None})

Reduce ==
    /\ pc = "analyze" /\ Kept # <<>> /\ AllSummarized
    /\ Runs("extract") => Len(extracts) = Len(Windows)
    /\ LET answers == Answered(parts) IN
          \/ answers = <<>> /\ summary' = None /\ raw' = None
          \/ Len(answers) = 1 /\ summary' = answers[1] /\ raw' = answers[1]
          \/ /\ Len(answers) > 1
             /\ summary' \in {InBlocks(answers, n) : n \in meeting.numberings} /\ raw' = summary'
          \/ Len(answers) > 1 /\ summary' = ConcatSummaries(answers) /\ raw' = None
    /\ actions' = MergeActions(Answered(extracts))
    /\ pc' = "critic"
    /\ UNCHANGED <<meeting, parts, extracts, cut, out>>

-----------------------------------------------------------------------------
Verdicts == {"keep", "drop", "flag"}

(* The critic may drop items of the summary, drop or flag actions, and     *)
(* name an action the extraction missed if it cites something.             *)
Places(s) == IF s = None THEN {}
             ELSE UNION {{b} \X DOMAIN s.agenda[b].items : b \in DOMAIN s.agenda}

WithItems(s, items) ==
    [s EXCEPT !.agenda = [b \in DOMAIN s.agenda |-> [s.agenda[b] EXCEPT !.items = items[b]]]]

Without(s, places) ==
    LET items(b) == s.agenda[b].items
        left(b) == {k \in DOMAIN items(b) : <<b, k>> \notin places}
    IN  IF s = None THEN None
        ELSE WithItems(s, [b \in DOMAIN s.agenda |-> Only(items(b), left(b))])

Judged(verdict) ==
    Only([k \in DOMAIN actions |-> [actions[k] EXCEPT !.flagged = @ \/ verdict[k] = "flag"]],
         {k \in DOMAIN actions : verdict[k] # "drop"})

Missing ==
    {<<>>} \cup {<<[text |-> [name |-> "missed", korean |-> TRUE], ev |-> e, flagged |-> FALSE]>> :
                    e \in {{Ghost}, {Head(Kept)}}}

Criticize ==
    /\ pc = "critic"
    /\ WithCritic /\ Runs("summarize") /\ (Places(summary) # {} \/ actions # <<>>)
    /\ \E dropped \in SUBSET Places(summary), missing \in Missing,
          verdict \in [DOMAIN actions -> Verdicts] :
          /\ summary' = Without(summary, dropped)
          /\ actions' = Judged(verdict) \o missing
          /\ cut' = {actions[k].text.name : k \in {j \in DOMAIN actions : verdict[j] = "drop"}}
    /\ pc' = "localize"
    /\ UNCHANGED <<meeting, parts, extracts, raw, out>>

(* No verdict: the call was lost, said nothing, or was not made.           *)
NotCriticized ==
    /\ pc = "critic"
    /\ pc' = "localize"
    /\ UNCHANGED <<meeting, parts, extracts, summary, actions, raw, cut, out>>

-----------------------------------------------------------------------------
BadPlaces == {p \in Places(summary) : ~summary.agenda[p[1]].items[p[2]].text.korean}
BadActions == {k \in DOMAIN actions : ~actions[k].text.korean}

(* The one call answers for some of them, or fails.                        *)
Translated(bad) == IF WithLocalize THEN SUBSET bad ELSE {{}}

(* The summary with some of these places rewritten, and what must go then. *)
Mended(fixed) ==
    LET items(b) == summary.agenda[b].items
        new(b) == [k \in DOMAIN items(b) |->
                     IF <<b, k>> \in fixed THEN [items(b)[k] EXCEPT !.text.korean = TRUE]
                     ELSE items(b)[k]]
    IN  WithItems(summary, [b \in DOMAIN summary.agenda |-> new(b)])

TextAt(s, p) == s.agenda[p[1]].items[p[2]].text

Stubborn(fixed) ==
    {p \in Places(summary) :
        \E q \in BadPlaces \ fixed : TextAt(Mended(fixed), p) = TextAt(Mended(fixed), q)}

(* Output language: what is not Korean is sent once to be rewritten; an    *)
(* item of the summary that still is not goes, with every item of the same *)
(* text, and an action is flagged.                                         *)
EnforceKorean ==
    /\ pc = "localize"
    /\ \E fixedItems \in Translated(BadPlaces), fixedActions \in Translated(BadActions) :
          /\ summary' = IF summary = None THEN None
                        ELSE Without(Mended(fixedItems), Stubborn(fixedItems))
          /\ actions' = [k \in DOMAIN actions |->
                IF k \in fixedActions THEN [actions[k] EXCEPT !.text.korean = TRUE]
                ELSE [actions[k] EXCEPT !.flagged = @ \/ k \in BadActions]]
    /\ pc' = "ground"
    /\ UNCHANGED <<meeting, parts, extracts, raw, cut, out>>

-----------------------------------------------------------------------------
(* A mutant: a doubtful line is as good as any.                            *)
GroundedAnywhere(items) ==
    LET valid == [k \in DOMAIN items |-> [items[k] EXCEPT !.ev = @ \cap KeptIds]]
    IN  Only(valid, {k \in DOMAIN valid : valid[k].ev # {}})

(* Grounding: citations of lines the agents did not have are removed; an   *)
(* item left with none, or with doubtful lines only, goes, a block without *)
(* items goes, and with it its row of the index; an action is flagged.     *)
Grounded(items) ==
    LET valid == [k \in DOMAIN items |-> [items[k] EXCEPT !.ev = @ \cap KeptIds]]
    IN  Only(valid, {k \in DOMAIN valid : ~(valid[k].ev \subseteq LowConf)})

BlocksLeft(s) ==
    LET blocks == [b \in DOMAIN s.agenda |-> [s.agenda[b] EXCEPT !.items = Grounded(@)]]
    IN  Only(blocks, {b \in DOMAIN blocks : blocks[b].items # <<>>})

RowsOf(index, agenda) ==
    Only(index, {k \in DOMAIN index : \E b \in DOMAIN agenda : agenda[b].no = index[k].no})

(* A mutant: the blocks that are left are numbered again.                  *)
GroundSummaryRenumbered(s) ==
    LET left == Renumber(BlocksLeft(s)) IN [agenda |-> left, index |-> RowsOf(s.index, left)]

GroundSummary(s) ==
    [agenda |-> BlocksLeft(s), index |-> RowsOf(s.index, BlocksLeft(s))]

GroundActions(items) ==
    [k \in DOMAIN items |->
        LET ev == items[k].ev \cap KeptIds
        IN  [items[k] EXCEPT !.ev = ev, !.flagged = @ \/ ev \subseteq LowConf]]

(* What the reader is told of the lines the gate kept from the agents.     *)
GateSummary ==
    [count |-> Cardinality(ExcludedIds),
     listed |-> {i \in ExcludedIds : Cardinality({j \in ExcludedIds : j < i}) < GateListMax},
     truncated |-> Cardinality(ExcludedIds) > GateListMax]

Shown == {i \in 1..Len(Lines) : Lines[i].chars > 0}

Contract(s, a) == [agenda |-> s.agenda, index |-> s.index, actions |-> a,
                   transcript |-> Shown, gate |-> GateSummary]

Finalize ==
    /\ pc = "ground"
    /\ out' = Contract(IF summary = None THEN NoSummary ELSE GroundSummary(summary),
                       GroundActions(actions))
    /\ pc' = "done"
    /\ UNCHANGED <<meeting, parts, extracts, summary, actions, raw, cut>>

(* Nothing is left for the agents to read.                                 *)
NoSegments ==
    /\ pc = "analyze" /\ Kept = <<>>
    /\ out' = Contract(NoSummary, <<>>)
    /\ pc' = "done"
    /\ UNCHANGED <<meeting, parts, extracts, summary, actions, raw, cut>>

TextNext ==
    \/ Summarize \/ Extract \/ Reduce
    \/ Criticize \/ NotCriticized
    \/ EnforceKorean \/ Finalize \/ NoSegments

TextSpec == TextInit /\ [][TextNext]_textVars

-----------------------------------------------------------------------------
Finished == pc = "done"

(* Every item of the minutes is Korean and rests on a line the agents were *)
(* given and the gate does not doubt, whatever the agents wrote, cited or  *)
(* were unable to translate.  An action stays, but one nobody can trace to *)
(* a line that was understood, or that is not Korean, is put before a      *)
(* person; so is one the critic added.                                     *)
MinutesAreGrounded ==
    Finished =>
        /\ \A b \in ToSet(out.agenda) : b.items # <<>> /\ \A it \in ToSet(b.items) :
               it.text.korean /\ it.ev \subseteq KeptIds /\ it.ev \ LowConf # {}
        /\ \A a \in ToSet(out.actions) :
               /\ a.ev \subseteq KeptIds
               /\ (a.ev \subseteq LowConf \/ ~a.text.korean) => a.flagged

(* No action is lost on the way: one that any window's extraction found is *)
(* in the minutes with all the lines it was found in, unless the critic    *)
(* dropped it.                                                             *)
ActionsSurvive ==
    Finished =>
        \A k \in DOMAIN extracts : extracts[k] # None =>
            \A a \in ToSet(extracts[k]) : a.text # None =>
                \/ a.text.name \in cut
                \/ \E x \in ToSet(out.actions) :
                      x.text.name = a.text.name /\ (a.ev \cap KeptIds) \subseteq x.ev

(* The number of a row is that of exactly one block, and that is the block *)
(* the row was written for.                                                *)
RowsKeyed(s) ==
    \A r \in ToSet(s.index) :
        \E b \in DOMAIN s.agenda :
            s.agenda[b].tag = r.tag /\ {c \in DOMAIN s.agenda : s.agenda[c].no = r.no} = {b}

(* One row for each block, in the order of the blocks.                     *)
RowForRow(s) ==
    Len(s.index) = Len(s.agenda) /\ \A k \in DOMAIN s.index : s.index[k].tag = s.agenda[k].tag

(* The rows of the index lead to the blocks they were written for, through *)
(* the critic, the translation and the blocks that grounding drops, if     *)
(* they did so in the answer of the one agent that numbered them; and, if  *)
(* a failed reduce left the answers of several windows to be concatenated, *)
(* whatever their numbers, if each had one row for each block, in order.   *)
(* Without that last condition it does not hold: see JoinIsKept.           *)
RowsNameTheirBlock ==
    (Finished /\ IF raw = None THEN \A p \in ToSet(Answered(parts)) : RowForRow(p)
                 ELSE RowsKeyed(raw)) => RowsKeyed(out)

(* _coerce_no says that the number joins rows and blocks, and that the one *)
(* the agent gave is kept because one given by position would lose it: so  *)
(* rows that lead to their blocks in every answer do so in the minutes.    *)
(* It does not hold: _concat_summaries numbers both by position.           *)
JoinIsKept ==
    (Finished /\ \A p \in ToSet(Answered(parts)) \cup ({raw} \ {None}) : RowsKeyed(p))
        => RowsKeyed(out)

(* Every line with text was in a window of some agent, two lines that      *)
(* follow each other in one window together, or the reader is told that it *)
(* was left out: by number, and by name up to the length of the list.      *)
UnseenIsTold ==
    Finished =>
        LET seen == UNION {ToSet(Windows[k]) : k \in DOMAIN Windows}
            unseen == Shown \ seen
        IN  /\ out.gate.count = Cardinality(unseen)
            /\ out.gate.listed \subseteq unseen
            /\ out.gate.listed = unseen \/ out.gate.truncated
            /\ WindowOverlap > 0 /\ WindowSegments # 1 => \A j \in 1..(Len(Kept) - 1) :
                   \E k \in DOMAIN Windows : {Kept[j], Kept[j + 1]} \subseteq ToSet(Windows[k])
=============================================================================
