----------------------------- MODULE Transcription -----------------------------
(***************************************************************************)
(* One run of the speech pipeline (pipeline.py, run_pipeline): silence may *)
(* be cut out of the recording, the speech regions are grouped into chunks *)
(* that fit the model (chunker.py), the chunks are decoded in batches      *)
(* (backends/cohere.py), those whose text left Korean are decoded again in *)
(* shorter pieces, and the texts are merged where chunks overlap.          *)
(*                                                                         *)
(* Time runs in units of one frame of the detector.  A unit of the         *)
(* recording holds silence, a word that is said only there, or the filler, *)
(* a word that is said again and again.  A decoder that is handed a        *)
(* stretch of it writes down its words: in Korean, or, when it drifts, in  *)
(* Latin letters.  Enhancers, which keep the length of the signal, the     *)
(* fixed segmentation of the command line and the files written at the end *)
(* are left out, and so are words a decoder makes up.                      *)
(***************************************************************************)
EXTENDS Integers, Sequences, FiniteSets, SequencesExt

CONSTANTS
  Length,             \* of the recording: a bound
  Target,             \* target_sec: no chunk is longer
  SegPad,             \* pad_sec of vad_segment_chunks
  SegOverlap,         \* overlap_sec of a speech that is cut
  MinSpeech, MinSilence, \* of the detector
  VadPad, VadSilence, \* VAD_PAD_SEC, VAD_MAX_SILENCE_SEC
  PieceTarget,        \* STT_REDECODE_TARGET_SEC
  MinWords,           \* STT_REDECODE_MIN_CHARS, in words
  ModelLimit,         \* the model cuts a longer input by itself
  BatchSize,          \* STT_BATCH_SIZE
  DedupMax,           \* SEAM_DEDUP_MAX_WORDS
  MaxRepeat,          \* REPETITION_MAX_REPEAT
  MaxFills,           \* units that hold the filler: a bound
  MaxDrifts           \* inputs whose text drifts in one run: a bound

ASSUME TargetAssumption == Target \in Nat \ {0} /\ SegOverlap \in Nat /\ 2 * SegOverlap <= Target
ASSUME PadAssumption == SegPad \in Nat /\ MinSilence \in Nat /\ SegPad <= MinSilence
ASSUME CountAssumption ==
  {Length, MinSpeech, PieceTarget, ModelLimit, BatchSize, MaxRepeat} \subseteq Nat \ {0}
    /\ {VadPad, VadSilence, MinWords, DedupMax, MaxFills, MaxDrifts} \subseteq Nat

\* What a unit holds: its own word, named by the unit, or one of these.
Silence == 0
Filler == Length + 1
Words == 1 .. (Length + 1)

VARIABLES
  audio,    \* what is said in each unit of the recording
  kept,     \* the units left after preprocess, in order; Len(kept) frames
  stage,
  todo,     \* padded regions the grouping has not reached
  group,    \* spans made so far, and the one that may still grow
  inputs,   \* what the decoder is handed: chunks, later pieces of chunks
  taken,    \* inputs whose batches are done
  decoded,  \* its texts so far, one per row of its output
  texts,    \* the text of each chunk
  drifts,   \* inputs that drifted
  cancel,   \* the cancel event of the job
  out       \* the segments of the result

decoding == <<inputs, taken, decoded, drifts>>
vars == <<audio, kept, stage, todo, group, decoding, texts, cancel, out>>

MinOf(a, b) == IF a <= b THEN a ELSE b
MaxOf(a, b) == IF a >= b THEN a ELSE b
CeilDiv(a, b) == (a + b - 1) \div b

\* A finite set of numbers in its order.
InOrder(T) == [i \in 1..Cardinality(T) |-> CHOOSE u \in T : Cardinality({v \in T : v <= u}) = i]

NoSpan == [s |-> 0, e |-> 0]
Ends == {"done", "failed", "cancelled"}

----------------------------------------------------------------------------
(* Speech regions: half-open stretches [s, e) of frames 0 .. Len(f) - 1.   *)

\* EnergyVAD.detect: runs of voiced frames, joined over short silences; a
\* run that reaches the end stops at the last frame; short ones are dropped.
Voiced(f) == {p \in 0..(Len(f) - 1) : audio[f[p + 1]] # Silence}

Joined(voiced, n) == {p \in 0..(n - 1) : \E a, b \in voiced :
                        a <= p /\ p <= b /\ (a = b \/ b - a - 1 <= MinSilence)}

Runs(joined, n) == {r \in [s : 0..(n - 1), e : 1..n] :
                      /\ r.s < r.e /\ r.s .. (r.e - 1) \subseteq joined
                      /\ (r.s - 1) \notin joined /\ r.e \notin joined}

Regions(f) ==
  LET joined == Joined(Voiced(f), Len(f))
  IN {r \in {[s |-> q.s, e |-> MinOf(q.e, Len(f) - 1)] : q \in Runs(joined, Len(f))} :
        r.e - r.s >= MinSpeech}

\* _compress_silence keeps the regions with their pads and the short gaps
\* between them; without a region it keeps everything.
Compressed ==
  LET wide == {[s |-> MaxOf(0, r.s - VadPad), e |-> MinOf(Length, r.e + VadPad)] : r \in Regions(kept)}
      stays == {u \in 1..Length :
                  \/ wide = {}
                  \/ \E a \in wide : a.s < u /\ u <= a.e
                  \/ \E a, b \in wide : a.e < u /\ u <= b.s /\ b.s - a.e <= VadSilence}
  IN InOrder(stays)

\* Mutant: times are left as they are after the cut.
RemapNot(t) == t + 1

\* remap_time: a time after the cut is the time of the unit it falls on.
Remap(t) == IF t < Len(kept) THEN kept[t + 1] ELSE kept[Len(kept)] + 1

Padded(R) == {[s |-> MaxOf(0, r.s - SegPad), e |-> MinOf(Len(kept), r.e + SegPad)] : r \in R}

----------------------------------------------------------------------------
(* vad_segment_chunks *)

\* The loop of the hard split: each piece starts overlap before the last end.
Pieces(r, target, overlap) ==
  LET step == target - overlap
      n == CeilDiv(r.e - r.s - target, step)
      from(k) == r.s + (k - 1) * step
  IN [k \in 1..(n + 1) |-> [lo |-> from(k), hi |-> MinOf(from(k) + target, r.e), seam |-> k > 1]]

\* flush()
Flushed(g) ==
  IF g.cur = NoSpan THEN g.spans
  ELSE Append(g.spans, [lo |-> g.cur.s, hi |-> g.cur.e, seam |-> FALSE])

\* Mutant: a hard split forgets the span that is still open.
GroupedUnflushed(g, r, target, overlap) ==
  IF r.e - r.s > target
  THEN [spans |-> g.spans \o Pieces(r, target, overlap), cur |-> NoSpan]
  ELSE IF g.cur # NoSpan /\ r.e - g.cur.s <= target
  THEN [g EXCEPT !.cur.e = r.e]
  ELSE [spans |-> Flushed(g), cur |-> r]

Grouped(g, r, target, overlap) ==
  IF r.e - r.s > target
  THEN [spans |-> Flushed(g) \o Pieces(r, target, overlap), cur |-> NoSpan]
  ELSE IF g.cur # NoSpan /\ r.e - g.cur.s <= target
  THEN [g EXCEPT !.cur.e = r.e]
  ELSE [spans |-> Flushed(g), cur |-> r]

Ungrouped == [spans |-> <<>>, cur |-> NoSpan]

(* subdivide_chunk: regions that reach less than a unit (0.05 s) into the   *)
(* chunk are left out.                                                     *)

\* Equal parts, of which the last may be shorter.
EqualParts(c, parts) ==
  LET step == CeilDiv(c.hi - c.lo, parts)
  IN [k \in 1..CeilDiv(c.hi - c.lo, step) |->
        [lo |-> c.lo + (k - 1) * step, hi |-> MinOf(c.lo + k * step, c.hi), seam |-> FALSE]]

Subdivided(c, R) ==
  LET clip(r) == [s |-> MaxOf(r.s, c.lo), e |-> MinOf(r.e, c.hi)]
      local == {q \in {clip(r) : r \in R} : q.s < q.e}
      starts == InOrder({q.s : q \in local})
      from(n) == CHOOSE q \in local : q.s = starts[n]
      upto[n \in 0..Len(starts)] ==
        IF n = 0 THEN Ungrouped ELSE Grouped(upto[n - 1], from(n), PieceTarget, 0)
      sub == Flushed(upto[Len(starts)])
  IN IF c.hi - c.lo <= PieceTarget THEN <<c>>
     ELSE IF Len(sub) > 1 THEN sub
     ELSE EqualParts(c, MaxOf(2, CeilDiv(c.hi - c.lo, PieceTarget)))

----------------------------------------------------------------------------
(* Texts: sequences of words, each with the unit it was said in. *)

Heard(c, korean) ==
  LET units == InOrder({u \in {kept[p + 1] : p \in c.lo .. (c.hi - 1)} : audio[u] # Silence})
  IN [i \in 1..Len(units) |-> [at |-> units[i], word |-> audio[units[i]], ko |-> korean]]

Token(w) == <<w.word, w.ko>>
Tokens(t) == [i \in DOMAIN t |-> Token(t[i])]

\* hangul_ratio as a pair: Korean words and all words.
Korean(t) == Cardinality({i \in DOMAIN t : t[i].ko})
LessKorean(t, u) == Korean(t) * Len(u) < Korean(u) * Len(t)

\* The rows the model makes of one input of a batch; a single input is joined.
Rows(c, korean) ==
  IF c.hi - c.lo <= ModelLimit \/ BatchSize <= 1 THEN <<Heard(c, korean)>>
  ELSE LET parts == EqualParts(c, CeilDiv(c.hi - c.lo, ModelLimit))
       IN [k \in DOMAIN parts |-> Heard(parts[k], korean)]

\* _redecode_candidates: long enough, and less than 0.45 of it Korean.
Candidates(ts) == {i \in DOMAIN ts : Len(ts[i]) >= MaxOf(1, MinWords)
                                        /\ 100 * Korean(ts[i]) < 45 * Len(ts[i])}

\* Mutant: the start of b is compared with the start of a.
SeamLengthAtStart(a, b) ==
  LET fits == {k \in 1..MinOf(DedupMax, MinOf(Len(a), Len(b))) :
                 Tokens(SubSeq(a, 1, k)) = Tokens(SubSeq(b, 1, k))}
  IN IF fits = {} THEN 0 ELSE CHOOSE k \in fits : \A j \in fits : j <= k

\* The number of words at the start of b that repeat the end of a.
SeamLength(a, b) ==
  LET fits == {k \in 1..MinOf(DedupMax, MinOf(Len(a), Len(b))) :
                 Tokens(SubSeq(a, Len(a) - k + 1, Len(a))) = Tokens(SubSeq(b, 1, k))}
  IN IF fits = {} THEN 0 ELSE CHOOSE k \in fits : \A j \in fits : j <= k

\* merge_vad_segments: a seam drops what the merged text before it ends with.
Merged(chunks, ts) ==
  LET text[i \in DOMAIN ts] ==
        LET cut == IF i > 1 /\ chunks[i].seam THEN SeamLength(text[i - 1], ts[i]) ELSE 0
        IN SubSeq(ts[i], cut + 1, Len(ts[i]))
  IN text

\* collapse_repetitions: from the left, the unit of up to six words whose
\* repetitions cover most, when there are more than MaxRepeat, is kept once.
Collapsed(t) ==
  LET n == Len(t)
      times(i, u) ==
        LET ok == {r \in 1..n : i + u * r - 1 <= n
                     /\ \A k \in 0..(u * r - 1) : Token(t[i + k]) = Token(t[i + (k % u)])}
        IN CHOOSE r \in ok : \A q \in ok : q <= r
      loops(i) == {u \in 1..MinOf(6, n - i + 1) : times(i, u) > MaxRepeat}
      best(i) == CHOOSE u \in loops(i) : \A v \in loops(i) :
                   u * times(i, u) > v * times(i, v) \/ (u * times(i, u) = v * times(i, v) /\ u <= v)
      from[i \in 1..(n + 1)] ==
        IF i > n THEN <<>>
        ELSE IF loops(i) = {} THEN <<t[i]>> \o from[i + 1]
        ELSE SubSeq(t, i, i + best(i) - 1) \o from[i + best(i) * times(i, best(i))]
  IN from[1]

----------------------------------------------------------------------------
\* Something is silent: the threshold of the detector lies above the quietest
\* tenth of the recording.  A filler that is said once is a word as any other.
Init ==
  /\ \E quiet \in SUBSET (1..Length) \ {{}} : \E filled \in SUBSET ((1..Length) \ quiet) :
       /\ Cardinality(filled) \in {0} \cup 2..MaxFills
       /\ audio = [u \in 1..Length |-> IF u \in quiet THEN Silence
                                      ELSE IF u \in filled THEN Filler ELSE u]
  /\ kept = [u \in 1..Length |-> u]
  /\ stage = "prepare" /\ todo = {} /\ group = Ungrouped
  /\ inputs = <<>> /\ taken = 0 /\ decoded = <<>> /\ texts = <<>> /\ drifts = 0
  /\ cancel = FALSE /\ out = <<>>

\* preprocess: VAD_BACKEND cuts long silences out, or is empty and leaves the
\* signal.  Of its two detectors the energy one is modelled.
Preprocess ==
  /\ stage = "prepare" /\ stage' = "detect"
  /\ kept' \in {kept, Compressed}
  /\ UNCHANGED <<audio, todo, group, decoding, texts, cancel, out>>

Detect ==
  /\ stage = "detect" /\ stage' = "group"
  /\ todo' = Padded(Regions(kept))
  /\ UNCHANGED <<audio, kept, group, decoding, texts, cancel, out>>

\* One turn of the loop over the padded regions, in their order.
GroupRegion ==
  /\ stage = "group"
  /\ \E r \in todo :
       /\ \A q \in todo : r.s <= q.s
       /\ todo' = todo \ {r}
       /\ group' = Grouped(group, r, Target, SegOverlap)
  /\ UNCHANGED <<audio, kept, stage, decoding, texts, cancel, out>>

\* The last flush; then the model is loaded and handed the chunks.
Chunk ==
  /\ stage = "group" /\ todo = {} /\ stage' = "decode"
  /\ group' = [spans |-> Flushed(group), cur |-> NoSpan]
  /\ inputs' = [i \in DOMAIN Flushed(group) |->
                  [lo |-> Flushed(group)[i].lo, hi |-> Flushed(group)[i].hi, of |-> i]]
  /\ UNCHANGED <<audio, kept, todo, taken, decoded, texts, drifts, cancel, out>>

\* One batch of transcribe_arrays; raise_if_cancelled comes before it.
Batch == (taken + 1) .. MinOf(taken + BatchSize, Len(inputs))

DecodeBatch ==
  /\ stage \in {"decode", "redecode"} /\ taken < Len(inputs) /\ ~cancel
  /\ \E odd \in SUBSET {k \in Batch : Heard(inputs[k], TRUE) # <<>>} :
       /\ drifts' = drifts + Cardinality(odd) /\ drifts' <= MaxDrifts
       /\ decoded' = decoded \o FlattenSeq([k \in 1..Cardinality(Batch) |->
                                              Rows(inputs[taken + k], (taken + k) \notin odd)])
  /\ taken' = taken + Cardinality(Batch)
  /\ UNCHANGED <<audio, kept, stage, todo, group, inputs, texts, cancel, out>>

\* zip(audios, offsets, texts): the segments transcribe_arrays returns.
Zipped == SubSeq(decoded, 1, MinOf(Len(inputs), Len(decoded)))

\* _adaptive_redecode: the pieces of the candidates that can be cut, unless
\* there are none or too many.
PiecesOf(i) ==
  LET sub == Subdivided(group.spans[i], Regions(kept))
  IN IF Len(sub) = 1 THEN <<>> ELSE [k \in DOMAIN sub |-> [lo |-> sub[k].lo, hi |-> sub[k].hi, of |-> i]]

Redecoded(ts) ==
  IF Cardinality(Candidates(ts)) > MaxOf(1, Len(ts) \div 2) THEN <<>>
  ELSE FlattenSeq([i \in DOMAIN ts |-> IF i \in Candidates(ts) THEN PiecesOf(i) ELSE <<>>])

\* _assert_chunk_alignment, and the choice of what is decoded again.
Align ==
  /\ stage = "decode" /\ taken = Len(inputs)
  /\ texts' = Zipped
  /\ stage' = IF Len(Zipped) # Len(inputs) THEN "failed"
              ELSE IF Redecoded(Zipped) = <<>> THEN "merge" ELSE "redecode"
  /\ IF stage' = "redecode"
     THEN inputs' = Redecoded(Zipped) /\ taken' = 0 /\ decoded' = <<>>
     ELSE UNCHANGED <<inputs, taken, decoded>>
  /\ UNCHANGED <<audio, kept, todo, group, drifts, cancel, out>>

\* Mutant: the pieces of a chunk are taken one place too late.
RescuedLate(i) ==
  LET new == FlattenSeq([k \in DOMAIN Zipped |->
                           IF inputs[k].of = i /\ k > 1 THEN Zipped[k] ELSE <<>>])
  IN IF new # <<>> /\ LessKorean(texts[i], new) THEN new ELSE texts[i]

\* A text is replaced only by one that is more Korean.
Rescued(i) ==
  LET new == FlattenSeq([k \in DOMAIN Zipped |-> IF inputs[k].of = i THEN Zipped[k] ELSE <<>>])
  IN IF new # <<>> /\ LessKorean(texts[i], new) THEN new ELSE texts[i]

Replace ==
  /\ stage = "redecode" /\ taken = Len(inputs) /\ stage' = "merge"
  /\ texts' = [i \in DOMAIN texts |-> Rescued(i)]
  /\ UNCHANGED <<audio, kept, todo, group, decoding, cancel, out>>

\* Merge, times of the recording, repetitions, and the payload; the text
\* before it was collapsed stays with the segment as original_text.
Finish ==
  /\ stage = "merge" /\ stage' = "done"
  /\ LET merged == Merged(group.spans, texts)
     IN out' = [i \in DOMAIN merged |->
                  [start |-> Remap(group.spans[i].lo), end |-> Remap(group.spans[i].hi),
                   text |-> Collapsed(merged[i]), original |-> merged[i]]]
  /\ UNCHANGED <<audio, kept, todo, group, decoding, texts, cancel>>

\* An exception unwinds run_pipeline: what it had read and made is gone.
Unwound ==
  /\ kept' = <<>> /\ todo' = {} /\ group' = Ungrouped
  /\ inputs' = <<>> /\ taken' = 0 /\ decoded' = <<>> /\ texts' = <<>> /\ drifts' = 0
  /\ UNCHANGED <<audio, cancel, out>>

\* An exception of a detector, of the load or of a batch ends the run, and
\* so does a cancel that is seen before a batch.
Fail == stage \notin Ends \cup {"merge"} /\ stage' = "failed" /\ Unwound

Stop ==
  /\ stage \in {"decode", "redecode"} /\ taken < Len(inputs) /\ cancel
  /\ stage' = "cancelled" /\ Unwound

Cancel ==
  /\ stage \notin Ends /\ ~cancel /\ cancel' = TRUE
  /\ UNCHANGED <<audio, kept, stage, todo, group, decoding, texts, out>>

Next ==
  \/ Preprocess \/ Detect \/ GroupRegion \/ Chunk \/ DecodeBatch \/ Align \/ Replace \/ Finish
  \/ Fail \/ Stop \/ Cancel

Spec == Init /\ [][Next]_vars

----------------------------------------------------------------------------
Speech(r) == r.s .. (r.e - 1)

SpeechFrames == UNION {Speech(r) : r \in Regions(kept)}

Inside(p, c) == c.lo <= p /\ p < c.hi

\* No chunk is longer than the target, however the regions lie: the model
\* cuts longer inputs by itself (vad_segment_chunks).
ChunksFitTarget == \A i \in DOMAIN group.spans : group.spans[i].hi - group.spans[i].lo <= Target

\* Every frame of every speech region is handed to the decoder.
SpeechIsCovered ==
  stage \in {"decode", "redecode", "merge", "done"} =>
    \A p \in SpeechFrames : \E i \in DOMAIN group.spans : Inside(p, group.spans[i])

\* Through batches, pieces, merge and the cut of silences, each word ends in
\* a segment whose times it was said in.
TextWithinItsTimes ==
  \A i \in DOMAIN out : \A k \in DOMAIN out[i].original :
    out[i].start <= out[i].original[k].at /\ out[i].original[k].at < out[i].end

\* A word of the speech is in the result, unless the merge took it for a
\* repetition of the same word: then that one is, in the segment of a chunk
\* that holds the word or in the one before.
LostOnlyIntoItsLike ==
  stage = "done" =>
    \A p \in SpeechFrames : audio[kept[p + 1]] # Silence =>
      \E i, j \in DOMAIN out : \E k \in DOMAIN out[j].original :
        /\ Inside(p, group.spans[i]) /\ j \in {i - 1, i}
        /\ out[j].original[k].word = audio[kept[p + 1]]

\* When no word is said twice, each is in the result at most once, unless a
\* text drifted: the merge takes out what overlaps, however chunks were cut.
OncePerWord ==
  (drifts = 0 /\ \A u \in 1..Length : audio[u] # Filler) =>
    \A i, j \in DOMAIN out : \A k \in DOMAIN out[i].original : \A l \in DOMAIN out[j].original :
      out[i].original[k].at = out[j].original[l].at => i = j /\ k = l
=============================================================================
