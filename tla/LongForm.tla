------------------------------- MODULE LongForm -------------------------------
(***************************************************************************)
(* One long text or dialogue through ChunkedIndicStreamingTTS                *)
(* (tts/engine/chunked.py): budgets, plan, one batch over the engine and the *)
(* combination of its results.  The streaming calls end here with their plan,   *)
(* which ChunkedTts then emits chunk by chunk.                               *)
(*                                                                         *)
(* What a chunk sounds like is what is inked in it, each character with who   *)
(* says it (0 for the one speaker of a text); trimming and levels only touch *)
(* silence and loudness and are left out.                                    *)
(*                                                                         *)
(* A text is a sequence of characters, each standing for its class: "a" and  *)
(* "A" letters, "Dr" and "No" the last letter of an abbreviation and of a     *)
(* numeric one, "5" a digit, " " and "\n" white space, "," a clause mark, "." *)
(* "?" and "|" (danda) terminators, "q" a closing quote.                      *)
(***************************************************************************)
EXTENDS Integers, Sequences, FiniteSets, FiniteSetsExt, SequencesExt

CONSTANTS
    TagOverhead,    \* _TAG_OVERHEAD
    Sep,            \* _SEP
    MinBudget,      \* the least text a turn must have room for
    Jobs,           \* the calls made: [dialogue, stream, input, cfg]
    Pace,           \* time units each character takes (estimate_speech_seconds)
    LeastMax,       \* the floor of a budget given in seconds: 16 characters
    LeastFirst      \* and of the ramp's: 8

ASSUME LongFormAssumption ==
    {TagOverhead, Sep, MinBudget, LeastMax, LeastFirst} \subseteq Nat \ {0}

VARIABLES
    job,        \* the call
    stage,      \* "planning", "synthesizing", "combining", "over" or "raised"
    chunks,     \* its chunks: texts, or lists of messages
    lost,       \* chunks the engine could not synthesize
    said        \* the audio the caller was given

longVars == <<job, stage, chunks, lost, said>>

White == {" ", "\n"}
Terminators == {".", "?", "|"}
Inked(s) == {i \in DOMAIN s : s[i] \notin White}
Ink(s) == SelectSeq(s, LAMBDA c : c \notin White)

LStrip(s) == IF Inked(s) = {} THEN <<>> ELSE SubSeq(s, Min(Inked(s)), Len(s))
RStrip(s) == IF Inked(s) = {} THEN <<>> ELSE SubSeq(s, 1, Max(Inked(s)))
Strip(s) == LStrip(RStrip(s))

(***************************************************************************)
(* Sentences.  A position is the number of characters before it.            *)
(***************************************************************************)
\* The white space from position i on, and whether it holds a blank line.
InkAfter(s, i) == Min({j \in Inked(s) : j > i} \cup {Len(s) + 1})
InkBefore(s, i) == Max({j \in Inked(s) : j <= i} \cup {0})
BlankLine(s, i, j) == Cardinality({k \in (i + 1)..(j - 1) : s[k] = "\n"}) >= 2

\* The next character within the paragraph, 0 if there is none.
NextInk(s, i) ==
    LET j == InkAfter(s, i) IN IF j > Len(s) \/ BlankLine(s, i, j) THEN 0 ELSE j
Ahead(s, i, class) == NextInk(s, i) # 0 /\ s[NextInk(s, i)] \in class
DotBehind(s, i) ==
    LET j == InkBefore(s, i) IN j \in 1..(i - 1) /\ s[j] = "." /\ ~BlankLine(s, j, i + 1)

WsOrEnd(s, i) == i >= Len(s) \/ s[i + 1] \in White

\* Maximal runs of terminators, as positions <<from, to>>, and what closes them.
Runs(s) ==
    {r \in (0..Len(s)) \X (0..Len(s)) :
        /\ r[1] < r[2] /\ \A i \in (r[1] + 1)..r[2] : s[i] \in Terminators
        /\ r[1] > 0 => s[r[1]] \notin Terminators
        /\ r[2] < Len(s) => s[r[2] + 1] \notin Terminators}
Closed(s, e) == Max({j \in e..Len(s) : \A i \in (e + 1)..j : s[i] = "q"})

\* _period_is_boundary: guards G1 to G5 on a single full stop after position p.
PeriodIsBoundary(s, p, e, e2) ==
    /\ WsOrEnd(s, e2)
    /\ ~Ahead(s, e2, {"."}) /\ ~DotBehind(s, p)
    /\ ~(p > 0 /\ s[p] = "A" /\ (p = 1 \/ s[p - 1] \in White \cup {".", "q"}))
    /\ ~(p > 0 /\ s[p] = "Dr")
    /\ ~(p > 0 /\ s[p] = "No" /\ Ahead(s, e2, {"5"}))
    /\ ~(e2 > e /\ Ahead(s, e2, {"a"}))

\* _split_para: does the run end a sentence (R1 to R5)?
EndsSentence(s, r) ==
    LET run == {s[i] : i \in (r[1] + 1)..r[2]}
        e2 == Closed(s, r[2])
    IN  \/ "|" \in run
        \/ /\ "|" \notin run /\ "?" \in run
           /\ WsOrEnd(s, e2) /\ ~(e2 > r[2] /\ Ahead(s, e2, {"a"}))
        \/ run = {"."} /\ r[2] = r[1] + 1 /\ PeriodIsBoundary(s, r[1], r[2], e2)

\* split_sentences: cut after every run that ends one and at every blank line.
SplitSentences(s) ==
    LET ends == {Closed(s, r[2]) : r \in {x \in Runs(s) : EndsSentence(s, x)}}
        blank == {i \in 1..(Len(s) - 1) : s[i] \notin White /\ s[i + 1] \in White
                                          /\ BlankLine(s, i, InkAfter(s, i))}
        at == SetToSortSeq(ends \cup blank \cup {0, Len(s)}, <)
        parts == [k \in 1..(Len(at) - 1) |-> Strip(SubSeq(s, at[k] + 1, at[k + 1]))]
    IN  SelectSeq(parts, LAMBDA p : p # <<>>)

(***************************************************************************)
(* Laddering and packing.                                                   *)
(***************************************************************************)
\* Ends of the clause marks: a Latin mark needs white space after it.
ClauseEnds(s) == {i \in 1..(Len(s) - 1) : s[i] = "," /\ s[i + 1] \in White}

\* _ladder_cut: clause mark, newline, white space, or hard.
LadderCut(s, max) ==
    LET clause == {i \in ClauseEnds(s) : Max({1, max \div 4}) <= i /\ i <= max}
        newline == {i \in 1..max : s[i + 1] = "\n"}
        space == {i \in 1..max : s[i + 1] \in White}
    IN  IF clause # {} THEN Max(clause)
        ELSE IF newline # {} THEN Max(newline)
        ELSE IF space # {} THEN Max(space) ELSE max

\* The same, taking the character at the cut for the space there usually is.
AfterCutSkips(s, cut) == LStrip(SubSeq(s, cut + 2, Len(s)))
AfterCut(s, cut) == LStrip(SubSeq(s, cut + 1, Len(s)))

RECURSIVE Laddered(_, _)
Laddered(s, max) ==
    IF Len(s) <= max THEN IF s = <<>> THEN <<>> ELSE <<s>>
    ELSE LET cut == LadderCut(s, max)
             head == RStrip(SubSeq(s, 1, cut))
         IN  (IF head = <<>> THEN <<>> ELSE <<head>>) \o Laddered(AfterCut(s, cut), max)

LadderPieces(sentences, max) == FlattenSeq([i \in DOMAIN sentences |-> Laddered(sentences[i], max)])

\* Does a piece of m characters fit behind n, with the blank between them?
Fits(n, m, max) == n + 1 + m <= max

Join(s, t) == s \o <<" ">> \o t

GreedyPack(pieces, max) ==
    FoldLeft(LAMBDA packed, p :
                IF packed # <<>> /\ Fits(Len(Last(packed)), Len(p), max)
                THEN Append(Front(packed), Join(Last(packed), p)) ELSE Append(packed, p),
             <<>>, pieces)

\* chunk_text: first = 0 for no ramp.
ChunkText(text, max, first) ==
    LET s == Strip(text)
        sentences == IF SplitSentences(s) = <<>> THEN <<s>> ELSE SplitSentences(s)
        pieces == LadderPieces(sentences, max)
        cut == LadderPieces(<<pieces[1]>>, first)
        taken == GreedyPack(pieces, first)[1]
        n == CHOOSE k \in DOMAIN pieces :
                FoldLeft(Join, pieces[1], SubSeq(pieces, 2, k)) = taken
    IN  IF s = <<>> THEN <<>>
        ELSE IF first = 0 \/ first >= max THEN GreedyPack(pieces, max)
        ELSE IF Len(pieces[1]) > first
             THEN <<cut[1]>> \o GreedyPack(Tail(cut) \o Tail(pieces), max)
             ELSE <<taken>> \o GreedyPack(SubSeq(pieces, n + 1, Len(pieces)), max)

(***************************************************************************)
(* Dialogues.  A message is a speaker, whose name has a length, and a text.  *)
(***************************************************************************)
Cost(m) == TagOverhead + m.name + Len(m.text)

\* The length of a chunk as format_messages writes it.
RECURSIVE Serialized(_)
Serialized(chunk) ==
    IF chunk = <<>> THEN 0
    ELSE Cost(Last(chunk)) + (IF Len(chunk) > 1 THEN Sep ELSE 0) + Serialized(Front(chunk))

Turns(messages) ==
    LET stripped == [i \in DOMAIN messages |-> [messages[i] EXCEPT !.text = Strip(@)]]
    IN  SelectSeq(stripped, LAMBDA m : m.text # <<>>)

Budget(m, turn) == turn - (TagOverhead + m.name)

\* A turn over its budget becomes several of the same speaker.
Exploded(m, turn) ==
    LET budget == Budget(m, turn)
        sentences == SplitSentences(m.text)
        groups == GreedyPack(LadderPieces(sentences, budget), budget)
    IN  IF Len(m.text) <= budget THEN <<m>>
        ELSE [i \in DOMAIN groups |-> [m EXCEPT !.text = groups[i]]]

\* A dialogue that cannot be planned: a turn without a speaker, or without room.
Unplannable(messages, turn) ==
    \E m \in ToSet(Turns(messages)) : m.name = 0 \/ Budget(m, turn) < MinBudget

\* plan_dialogue_chunks: turn = 0 for no long_turn_chars, first = 0 for no ramp.
PlanDialogue(messages, max, turn, first) ==
    LET turns == Turns(messages)
        segments == FlattenSeq([i \in DOMAIN turns |-> Exploded(turns[i], IF turn = 0 THEN max ELSE turn)])
        limit(made) == IF Len(made) <= 1 /\ first # 0 THEN Min({first, max}) ELSE max
    IN  FoldLeft(LAMBDA made, m :
                    IF made = <<>> \/ Serialized(Last(made)) + Sep + Cost(m) > limit(made)
                    THEN Append(made, <<m>>)
                    ELSE Append(Front(made), Append(Last(made), m)),
                 <<>>, segments)

(***************************************************************************)
(* The calls.                                                               *)
(***************************************************************************)
LongInit == job \in Jobs /\ stage = "planning" /\ chunks = <<>> /\ lost = {} /\ said = <<>>

Cfg == job.cfg

\* What _char_budgets measures: the text, or the dialogue's texts with a blank between.
Sample == IF job.dialogue
          THEN FoldLeft(LAMBDA s, m : IF s = <<>> THEN m.text ELSE Join(s, m.text), <<>>, job.input)
          ELSE job.input

Estimate(s) == MapThenSumSet(LAMBDA i : Pace[s[i]], DOMAIN s)

\* Budgets in seconds become characters at the pace of this very text.
InChars(s, seconds, least) == Max({least, (Len(s) * seconds) \div Estimate(s)})

MaxChars == IF Cfg.maxSeconds # 0 /\ Estimate(Sample) > 0
            THEN InChars(Sample, Cfg.maxSeconds, LeastMax) ELSE Cfg.max
FirstChars == IF ~job.stream THEN 0
              ELSE IF Cfg.firstSeconds # 0 /\ Estimate(Sample) > 0
                   THEN InChars(Sample, Cfg.firstSeconds, LeastFirst) ELSE Cfg.first

Raise == stage' = "raised" /\ UNCHANGED said

\* chunk, chunk_dialogue and _check_chunk_budget.
TurnLimit == IF Cfg.turn = 0 THEN MaxChars ELSE Cfg.turn
NewPlan == IF job.dialogue THEN PlanDialogue(job.input, MaxChars, Cfg.turn, FirstChars)
                           ELSE ChunkText(job.input, MaxChars, FirstChars)

Plan ==
    /\ stage = "planning" /\ UNCHANGED <<job, lost>>
    /\ IF job.dialogue /\ Unplannable(job.input, TurnLimit) THEN Raise /\ UNCHANGED chunks
       ELSE /\ chunks' = NewPlan
            /\ IF (chunks' = <<>> /\ ~job.stream) \/ Len(chunks') > Cfg.maxChunks THEN Raise
               ELSE stage' = (IF job.stream THEN "over" ELSE "synthesizing") /\ UNCHANGED said

\* One synthesize_batch or synthesize_conversation_batch over the plan: any of its
\* chunks may fail on its own.
SynthesizeChunks ==
    /\ stage = "synthesizing" /\ stage' = "combining"
    /\ lost' \in SUBSET DOMAIN chunks /\ UNCHANGED <<job, chunks, said>>

Sound(who, text) == LET s == Ink(text) IN [i \in DOMAIN s |-> <<who, s[i]>>]
MessagesSound(ms) == FlattenSeq([i \in DOMAIN ms |-> Sound(ms[i].name, ms[i].text)])
ChunkSound(chunk) == IF job.dialogue THEN MessagesSound(chunk) ELSE Sound(0, chunk)

GivesUp(bad) == bad # {}

\* The results joined in order, or an error naming every chunk that failed.
Combine ==
    /\ stage = "combining" /\ UNCHANGED <<job, chunks, lost>>
    /\ IF GivesUp(lost) THEN Raise
       ELSE /\ stage' = "over"
            /\ said' = FlattenSeq([k \in DOMAIN chunks |-> IF k \in lost THEN <<>>
                                                         ELSE ChunkSound(chunks[k])])

LongNext == Plan \/ SynthesizeChunks \/ Combine

(***************************************************************************)
(* Properties.                                                              *)
(***************************************************************************)
Whole == IF job.dialogue THEN MessagesSound(job.input) ELSE Sound(0, job.input)

\* The words of a long text: every plan, streamed or not, holds the whole of it in order,
\* across every cut the ladder makes, the ramp's first chunk included; no chunk is longer
\* than its limit ("max_chars is a STRICT upper bound"; the first of a streamed text stays
\* within the ramp, a dialogue's chunks fit as they are serialized unless longer turns are
\* asked to be kept whole); and what an offline call returns is the whole text, nothing
\* twice, every word by its speaker ("partial audio is never silently glued together").
WholeText ==
    /\ stage = "over" /\ ~job.stream => said = Whole
    /\ chunks # <<>> => FlattenSeq([k \in DOMAIN chunks |-> ChunkSound(chunks[k])]) = Whole
    /\ \A k \in DOMAIN chunks :
        IF job.dialogue
        THEN TurnLimit <= MaxChars => Serialized(chunks[k]) <= MaxChars
        ELSE /\ Len(chunks[k]) <= MaxChars
             /\ k = 1 /\ FirstChars # 0 => Len(chunks[k]) <= FirstChars
=============================================================================
