---------------------------- MODULE SpeechChunks ----------------------------
(***************************************************************************)
(* Where a long recording is cut before it is transcribed                   *)
(* (asr/engine/chunker.py) and how its language is voted on                 *)
(* (asr/engine/lid.py, IndicASREngine.transcribe_long).                     *)
(*                                                                         *)
(* A recording is a sequence of units of one hop each, every unit either    *)
(* Quiet or the language spoken in it.  Quiet and speech are two energies    *)
(* at least 28 dB apart, so the threshold min(floor + 8, peak - 20) lies     *)
(* between them exactly when there is speech.  LID is a function of what is  *)
(* spoken: the share of the voiced units of each language, in percent.       *)
(***************************************************************************)
EXTENDS Integers, Sequences, FiniteSets, FiniteSetsExt, SequencesExt, Selection

CONSTANTS
    Langs,      \* the language tokens of the vocabulary, in the order of their ids
    Quiet,      \* a unit without speech
    Win,        \* units in an energy frame
    MinSil,     \* frames a pause must last
    MinChunk,   \* preferred length of a chunk, from below
    MaxChunk,   \* and its largest
    Relax,      \* where a pause must lie if none is past MinChunk
    MinTail,    \* a shorter last chunk is merged
    Probes      \* pieces asked for the language of a long recording

ASSUME ChunkAssumption ==
    /\ {Win, MinSil, MinChunk, MaxChunk, Relax, MinTail, Probes} \subseteq Nat \ {0}
    /\ MinChunk <= MaxChunk /\ Relax < MaxChunk
    /\ Langs \in Seq(ToSet(Langs))

AllLangs == ToSet(Langs)

\* The members of a set of places among n, in their order.
Ascending(n, S) == PickAt([i \in 1..n |-> i], S)

(***************************************************************************)
(* Chunking.                                                                *)
(***************************************************************************)
Padded(wav) == wav \o [i \in 1..Max({0, Win - Len(wav)}) |-> Quiet]

\* frame_db: which frames hold speech, one frame per hop.
FrameLoud(wav) ==
    LET w == Padded(wav) IN
    [f \in 1..(Len(w) - Win + 1) |-> \E i \in f..(f + Win - 1) : w[i] # Quiet]

\* silence_runs: the maximal silent frame ranges [a, b), counted from 0.
SilenceRuns(wav) ==
    LET loud == FrameLoud(wav)
        silent(f) == ~loud[f + 1] /\ \E g \in DOMAIN loud : loud[g]
        n == Len(loud)
    IN  {r \in (0..n) \X (0..n) :
            /\ r[2] - r[1] >= MinSil
            /\ \A f \in r[1]..(r[2] - 1) : silent(f)
            /\ r[1] > 0 => ~silent(r[1] - 1)
            /\ r[2] < n => ~silent(r[2])}

Cuts(wav) == {(r[1] + r[2]) \div 2 : r \in SilenceRuns(wav)}

\* Where the chunk that begins at pos ends, more than MaxChunk before the end.
CutAfter(cuts, pos) ==
    LET hi == pos + MaxChunk
        fitting == {c \in cuts : pos + MinChunk <= c /\ c <= hi}
        relaxed == {c \in cuts : pos + Relax < c /\ c <= hi}
    IN  IF fitting # {} THEN Max(fitting) ELSE IF relaxed # {} THEN Max(relaxed) ELSE hi

\* The same without a place for the tail that is too short.
MergeTailDrops(pieces) ==
    LET n == Len(pieces) IN
    IF n >= 2 /\ pieces[n][2] - pieces[n][1] < MinTail THEN SubSeq(pieces, 1, n - 1) ELSE pieces

MergeTail(pieces) ==
    LET n == Len(pieces) IN
    IF n >= 2 /\ pieces[n][2] - pieces[n][1] < MinTail
    THEN Append(SubSeq(pieces, 1, n - 2), <<pieces[n - 1][1], pieces[n][2]>>)
    ELSE pieces

\* The ranges cut greedily from the start, by how much is left at each.
Greedy(n, cuts) ==
    LET from[left \in 0..n] ==
            IF left <= MaxChunk THEN <<<<n - left, n>>>>
            ELSE LET cut == CutAfter(cuts, n - left) IN <<<<n - left, cut>>>> \o from[n - cut]
    IN  from[n]

\* split_points: the ranges [a, b) the recording is cut into.
SplitPoints(wav) ==
    LET n == Len(wav)
    IN  IF n <= MaxChunk THEN <<<<0, n>>>> ELSE MergeTail(Greedy(n, Cuts(wav)))

Piece(wav, range) == SubSeq(wav, range[1] + 1, range[2])

(***************************************************************************)
(* Language identification.                                                 *)
(***************************************************************************)
\* language_token_map: the candidates under a restriction (NoSet for none).
Candidates(allowed, NoSet) == IF allowed = NoSet THEN AllLangs ELSE AllLangs \cap allowed

Share(wav, l) ==
    LET voiced == Cardinality({i \in DOMAIN wav : wav[i] # Quiet}) IN
    IF voiced = 0 THEN 0
    ELSE (100 * Cardinality({i \in DOMAIN wav : wav[i] = l})) \div voiced

\* Languages by falling weight, ties in the order given.
Ranked(tally) ==
    LET above(i, j) == \/ tally[i].prob > tally[j].prob
                       \/ tally[i].prob = tally[j].prob /\ i < j
    IN  [k \in DOMAIN tally |->
            tally[CHOOSE i \in DOMAIN tally :
                      Cardinality({j \in DOMAIN tally : above(j, i)}) = k - 1]]

Best(k, ranked) == SubSeq(ranked, 1, Min({k, Len(ranked)}))

\* lid_from_encoder_states: the k best candidates of one row, with their weight.
Top(wav, k, candidates) ==
    LET order == PickAt(Langs, {i \in DOMAIN Langs : Langs[i] \in candidates})
    IN  Best(k, Ranked([i \in DOMAIN order |-> [lang |-> order[i], prob |-> Share(wav, order[i])]]))

\* probe_indices: up to k positions spread over n pieces, counted from 1.
ProbeIndices(n, k) ==
    IF n <= k THEN 1..n
    ELSE {1 + Min({n - 1, (n * (i + 1)) \div (k + 1)}) : i \in 0..(k - 1)}

Weight(entries, places) == SumOver([i \in places |-> entries[i].prob], places)

\* The tally over the tops of the probes: every language they name with the sum of its
\* weights, best first, ties in the order in which they appear.  (Reported as means.)
Vote(tops) ==
    LET entries == FlattenSeq(tops)
        naming(l) == {i \in DOMAIN entries : entries[i].lang = l}
        first == Ascending(Len(entries), {Min(naming(e.lang)) : e \in ToSet(entries)})
    IN  Ranked([k \in DOMAIN first |->
            [lang |-> entries[first[k]].lang,
             prob |-> Weight(entries, naming(entries[first[k]].lang))]])
=============================================================================
