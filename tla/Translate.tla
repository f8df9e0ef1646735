------------------------------- MODULE Translate ------------------------------
(***************************************************************************)
(* The commands that translate a list of segments: through a server         *)
(* (mt/serving/client.py), with an engine of their own                      *)
(* (mt/engine/offline.py under mt/inference/offline_vllm.py and             *)
(* mt/inference/hf_generate.py, with its prompt loop), and the benchmark    *)
(* that translates a parallel corpus in both directions (mt/eval/in22.py).  *)
(*                                                                         *)
(* A translation is known by the conversation it answers: the text and the  *)
(* target language the prompt names.  Scores are left out.                  *)
(***************************************************************************)
EXTENDS FanOut, Selection

CONSTANTS
    LanguageNames,  \* code to prompt name
    ByName,         \* casefolded prompt name to prompt name
    DefaultScript,  \* bare name of a language of two scripts to code
    HfBatch,        \* hf_generate --batch-size
    Pivot,          \* "eng_Latn"
    In22Rows,       \* rows of the benchmark
    In22Columns,    \* its columns
    MtCommands      \* the commands that may be run

ASSUME TranslateAssumption ==
    /\ HfBatch \in Nat \ {0} /\ In22Rows \in Nat
    /\ Pivot \in In22Columns /\ In22Columns \subseteq DOMAIN LanguageNames
    /\ \A bare \in DOMAIN DefaultScript : DefaultScript[bare] \in DOMAIN LanguageNames
    /\ \A c \in MtCommands : c.lines \in Seq(ToSet(c.lines)) /\ c.langs \in Seq(ToSet(c.langs))

VARIABLES
    ask,        \* the command: kind, lines, document, to, langs, directions, toFile, up
    mtPc,       \* where it is
    segments,   \* the texts being translated
    target,     \* the language they are translated into
    output,     \* the records written, Nothing yet if it is <<>>
    tasks,      \* directions of the benchmark still to run
    predictions,\* by direction
    references

mtVars == <<ask, mtPc, segments, target, output, tasks, predictions, references>>
scored == <<predictions, references>>

TranslateInit ==
    /\ ask \in MtCommands /\ mtPc = "start"
    /\ segments = <<>> /\ target = Pivot /\ output = <<>>
    /\ tasks = <<>> /\ predictions = << >> /\ references = << >>

(***************************************************************************)
(* The prompt contract (mt/templates/prompt.py): a code, a name, or a bare  *)
(* name; nothing else is a language.                                        *)
(***************************************************************************)
Known(value) == value \in DOMAIN LanguageNames \cup DOMAIN ByName \cup DOMAIN DefaultScript

ResolveLanguage(value) ==
    IF value \in DOMAIN LanguageNames THEN LanguageNames[value]
    ELSE IF value \in DOMAIN ByName THEN ByName[value]
    ELSE LanguageNames[DefaultScript[value]]

BuildConversation(text, to) == [text |-> text, to |-> ResolveLanguage(to)]

AskFor(list, to) ==
    /\ segments' = list /\ target' = to
    /\ Ask([i \in DOMAIN list |-> BuildConversation(list[i], to)])

(***************************************************************************)
(* Input and output (mt/inference/common.py).  A segment is a sequence of   *)
(* lines: one of them, or all of a document.                                *)
(***************************************************************************)
Blank(line) == line = ""
Written(lines) == {i \in DOMAIN lines : ~Blank(lines[i])}

ReadInputs ==
    LET said == Written(ask.lines)
        kept == PickAt(ask.lines, said)
    IN  IF ask.document
        THEN <<IF said = {} THEN <<>> ELSE SubSeq(ask.lines, Min(said), Max(said))>>
        ELSE [i \in DOMAIN kept |-> <<kept[i]>>]

\* The prompt loop reads up to a blank line or the end.
ReadPrompt ==
    LET blank == {i \in DOMAIN ask.lines : Blank(ask.lines[i])}
        upTo == IF blank = {} THEN Len(ask.lines) ELSE Min(blank) - 1
    IN  [i \in 1..upTo |-> <<ask.lines[i]>>]

Result(i) ==
    [source |-> segments[i], to |-> ResolveLanguage(target), ok |-> flight[i] = "ok",
     text |-> IF texts[i] = 0 THEN <<>> ELSE <<asked[texts[i]]>>]
Results == [i \in DOMAIN segments |-> Result(i)]

\* write_results: every record to a file, or only the translations to stdout.
WriteResults == IF ask.toFile THEN Results ELSE PickAt(Results, {i \in DOMAIN Results : Results[i].ok})

(***************************************************************************)
(* A command.                                                               *)
(***************************************************************************)
OnServer == ask.kind \in {"client", "in22"}

\* The client and the benchmark ask for the served model first; the others check the
\* language before anything is loaded.
BeginTranslate ==
    /\ mtPc = "start" /\ UNCHANGED <<ask, output, scored>>
    /\ \/ /\ OnServer /\ ~ask.up
          /\ mtPc' = "exit1" /\ UNCHANGED <<segments, target, tasks, fanVars>>
       \/ /\ ask.kind # "in22" /\ ~Known(ask.to) /\ (OnServer => ask.up)
          /\ mtPc' = "raised" /\ UNCHANGED <<segments, target, tasks, fanVars>>
       \/ /\ ask.kind # "in22" /\ Known(ask.to) /\ (OnServer => ask.up)
          /\ mtPc' = "translate" /\ UNCHANGED tasks
          /\ AskFor(IF ask.kind = "talk" THEN ReadPrompt ELSE ReadInputs, ask.to)

\* The client's threads: a failure lands in the result, but a reply without choices raises.
ClientTranslates ==
    /\ mtPc = "translate" /\ OnServer /\ UNCHANGED mtVars
    /\ Take \/ \E i \in DOMAIN flight : Reply(i, {"ok", "failed", "broken"})

\* The engine: the whole list at once, batches of it, or one line of the prompt.
EngineTranslates ==
    /\ mtPc = "translate" /\ ~OnServer /\ UNCHANGED mtVars
    /\ Generate(CASE ask.kind = "vllm" -> Len(asked) [] ask.kind = "hf" -> HfBatch [] OTHER -> 1,
                {"ok", "failed"})

\* Only the client's exit code tells of a failure.
Exit == IF ask.kind = "client" /\ \E i \in DOMAIN flight : flight[i] # "ok" THEN "exit1" ELSE "exit0"

Translated ==
    /\ mtPc = "translate" /\ ask.kind # "in22" /\ AllAnswered
    /\ UNCHANGED <<ask, segments, target, tasks, scored, fanVars>>
    /\ IF Count("broken") > 0 THEN mtPc' = "raised" /\ UNCHANGED output
       ELSE mtPc' = Exit /\ output' = WriteResults

(***************************************************************************)
(* The benchmark.                                                           *)
(***************************************************************************)
Column(lang) == [row \in 1..In22Rows |-> <<row, lang>>]
Direction(from, to) == [from |-> from, to |-> to, sources |-> Column(from), refs |-> Column(to)]

BuildTasks ==
    LET langs == PickAt(ask.langs, {i \in DOMAIN ask.langs : ask.langs[i] \in In22Columns \ {Pivot}})
        of(l) == (IF "en-xx" \in ask.directions THEN <<Direction(Pivot, l)>> ELSE <<>>)
                 \o (IF "xx-en" \in ask.directions THEN <<Direction(l, Pivot)>> ELSE <<>>)
    IN  FlattenSeq([i \in DOMAIN langs |-> of(langs[i])])

Start22(todo) ==
    /\ tasks' = todo /\ mtPc' = "translate" /\ AskFor(todo[1].sources, todo[1].to)

BeginIn22 ==
    /\ mtPc = "start" /\ ask.kind = "in22" /\ ask.up /\ UNCHANGED <<ask, output, scored>>
    /\ IF BuildTasks # <<>> THEN Start22(BuildTasks)
       ELSE mtPc' = "exit1" /\ UNCHANGED <<segments, target, tasks, fanVars>>

\* A direction that is run twice replaces what it had.
Store(scores, pair, rows) ==
    [p \in DOMAIN scores \cup {pair} |-> IF p = pair THEN rows ELSE scores[p]]

\* run_task: a failed row is scored as an empty translation.
TaskDone ==
    /\ mtPc = "translate" /\ ask.kind = "in22" /\ AllAnswered /\ UNCHANGED <<ask, output>>
    /\ LET task == tasks[1]
           pair == <<ResolveLanguage(task.from), ResolveLanguage(task.to)>>
       IN  IF Count("broken") > 0
           THEN mtPc' = "raised" /\ UNCHANGED <<segments, target, tasks, scored, fanVars>>
           ELSE /\ predictions' = Store(predictions, pair, [i \in DOMAIN segments |-> Result(i).text])
                /\ references' = Store(references, pair, task.refs)
                /\ IF Len(tasks) > 1 THEN Start22(Tail(tasks))
                   ELSE mtPc' = "exit0" /\ UNCHANGED <<segments, target, tasks, fanVars>>

TranslateNext ==
    \/ BeginTranslate \/ ClientTranslates \/ EngineTranslates \/ Translated \/ BeginIn22 \/ TaskDone

(***************************************************************************)
(* Properties.                                                              *)
(***************************************************************************)
\* Whatever order the answers come in and whichever fail: a file holds one record for each
\* segment in its order, and stdout the translated ones; a record is its own source's
\* translation into the language that was asked for, or has failed; the client exits with 0
\* only if none failed; and the benchmark scores a row's translation, in each direction,
\* against the same row of the target's column.
Aligned ==
    /\ mtPc \in {"exit0", "exit1"} /\ segments # <<>> /\ ask.kind # "in22" =>
        /\ \A i \in DOMAIN output :
            /\ output[i].to = ResolveLanguage(ask.to)
            /\ output[i].ok => output[i].text = <<[text |-> output[i].source, to |-> output[i].to]>>
            /\ ~output[i].ok => output[i].text = <<>> /\ ask.toFile
        /\ LET answered == {i \in DOMAIN segments : ask.toFile \/ flight[i] = "ok"}
           IN  [i \in DOMAIN output |-> output[i].source] = PickAt(segments, answered)
        /\ ask.kind = "client" /\ ask.toFile =>
            ((mtPc = "exit0") <=> \A i \in DOMAIN output : output[i].ok)
    /\ \A pair \in DOMAIN predictions : \A i \in 1..In22Rows :
        LET ref == references[pair][i]
            pred == predictions[pair][i]
        IN  /\ ref[1] = i /\ LanguageNames[ref[2]] = pair[2]
            /\ pred # <<>> =>
                /\ pred[1].to = pair[2]
                /\ pred[1].text[1] = i /\ LanguageNames[pred[1].text[2]] = pair[1]
===============================================================================
