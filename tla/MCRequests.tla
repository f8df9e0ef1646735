------------------------------ MODULE MCRequests ------------------------------
(* What answers a caller: the ASR server's handlers, its live sessions and     *)
(* the batch command; document OCR; translation; and the TTS server.  None     *)
(* sees another, so one is chosen to run.                                      *)
EXTENDS AsrRequests, TranscribeShard, VadStream, PageOcr, Translate, TtsService, DemoPage

CONSTANTS c1, c2
VARIABLE part

MCLangs == <<"hi", "ta", "bgc", "zz">>
MCAudio ==
    [short |-> <<"hi", "ta", "hi">>, hush |-> <<Quiet, Quiet>>,
     talk |-> <<"ta", "ta", "hi", Quiet, Quiet, "hi", "hi", "bgc", "ta", "ta", Quiet, Quiet, "ta", "ta", "hi">>,
     drone |-> <<"bgc", "bgc", "bgc", "bgc", "hi", "bgc", "bgc", "hi", "hi", "ta", "ta">>,
     noise |-> <<"hi">>, empty |-> <<"hi">>, huge |-> <<"hi">>, away |-> <<"hi">>]
MCUploadSize ==
    [short |-> 1, hush |-> 1, talk |-> 2, drone |-> 2, noise |-> 1, empty |-> 0, huge |-> 3, away |-> 1]

Asked(kind, paths, l, modes) ==
    [kind |-> kind, paths |-> paths, lang |-> l, above |-> Nothing, modes |-> modes,
     report |-> (l = Nothing), lidOnly |-> FALSE, allowed |-> Nothing]

Tongues == {"hi", "ta", "qq", Nothing}
Sets == {Nothing, <<"recommended">>, <<"trained", "hi">>, <<"hin">>}
Paths == {<<>>, <<"short">>, <<"talk", "short">>, <<"short", "talk", "hush", "drone", "short">>,
          <<"short", "drone", "short", "talk">>, <<"short", "noise">>, <<"away">>}
MCRequests ==
    {[Asked("transcribe", p, l, <<"mixed">>) EXCEPT !.above = a, !.allowed = s] :
        p \in Paths, l \in Tongues, a \in {Nothing, 0}, s \in Sets}
    \cup {[Asked("upload", <<f>>, l, m) EXCEPT !.lidOnly = o, !.allowed = s] :
        f \in {"short", "hush", "talk", "drone", "noise", "empty", "huge"}, l \in Tongues,
        m \in {<<>>, <<"native", "mixed", "romanised">>, <<"shout">>}, o \in BOOLEAN, s \in Sets}
    \cup {[Asked("detect", p, Nothing, <<"native">>) EXCEPT !.allowed = s] :
        p \in Paths, s \in Sets}
    \cup {Asked("stream", <<>>, l, <<"native">>) : l \in Tongues}

(* Pages with a duplicate, a header and a footer, a caption in a diagram, a    *)
(* rule thinner than a pixel, equations in a paragraph, and a blank one.       *)
Query(label, from, to, turn) == [label |-> label, box |-> <<from, to>>, turn |-> turn, sure |-> TRUE]

MCDetected ==
    [plain |-> <<Query("Paragraph", 20, 38, 3), Query("Header", -2, 8, 1), Query("Paragraph", 1, 6, 2),
                 Query("Header", 0, 4, 6), Query("Paragraph", 21, 38, 5), Query("Page-number", 36, 44, 4),
                 [Query("Paragraph", 9, 19, 7) EXCEPT !.sure = FALSE]>>,
     figure |-> <<Query("Table", 22, 28, 6), Query("Diagram", 0, 20, 2), Query("Image-caption", 14, 20, 3),
                  Query("Diagram", 2, 10, 1), Query("Footer", 30, 40, 5), Query("Paragraph", 20, 21, 4)>>,
     maths |-> <<Query("Equation", 26, 31, 3), Query("Paragraph", 0, 24, 1), Query("Equation", 10, 30, 2)>>,
     blank |-> <<>>]

OcrCommand(kind, images, mode) ==
    [kind |-> kind, images |-> images, mode |-> mode, nest |-> TRUE, save |-> FALSE, strict |-> TRUE, up |-> TRUE]

MCOcrCommands ==
    {OcrCommand("parse", images, mode) :
        images \in {<<"plain", "figure">>, <<"blank", "maths">>}, mode \in {"both", "text_only", "eq_only"}}
    \cup {[OcrCommand("client", <<"figure", "plain">>, "both") EXCEPT !.strict = s, !.save = s, !.up = u] :
        s \in BOOLEAN, u \in BOOLEAN}
    \cup {OcrCommand(kind, <<"figure", "plain">>, "both") : kind \in {"layout", "replay"}}
    \cup {OcrCommand("layout", <<"maths">>, "both"), [OcrCommand("parse", <<"maths">>, "both") EXCEPT !.nest = FALSE]}

(* The languages of the benchmark, and one with two scripts.                   *)
MCLanguageNames ==
    [eng_Latn |-> "English", hin_Deva |-> "Hindi", snd_Deva |-> "Sindhi (Devanagari script)",
     snd_Arab |-> "Sindhi (Perso-Arabic script)"]
MCByName == "hindi" :> "Hindi" @@ "sindhi (perso-arabic script)" :> "Sindhi (Perso-Arabic script)"
MCDefaultScript == "sindhi" :> "snd_Deva"

MtCommand(kind, lines, to) ==
    [kind |-> kind, lines |-> lines, document |-> FALSE, to |-> to, langs |-> <<>>, directions |-> {},
     toFile |-> TRUE, up |-> TRUE]
MCMtCommands ==
    {[MtCommand(kind, lines, to) EXCEPT !.toFile = f] : kind \in {"client", "vllm", "hf"},
        lines \in {<<>>, <<"", "a", "b", "", "a", "c">>}, to \in {"hin_Deva", "sindhi"}, f \in BOOLEAN}
    \cup {MtCommand("talk", lines, "sindhi") : lines \in {<<"a", "b", "a">>, <<"b", "", "a">>}}
    \cup {MtCommand(kind, <<"a">>, to) : kind \in {"client", "hf"}, to \in {"klingon", "hindi"}}
    \cup {[MtCommand(kind, <<"", "a", "", "b">>, "hin_Deva") EXCEPT !.document = TRUE, !.up = u] :
            kind \in {"client", "vllm"}, u \in BOOLEAN}
    \cup {[MtCommand("in22", <<>>, "") EXCEPT !.langs = l, !.directions = d, !.up = u] :
            l \in {<<"hin_Deva", "eng_Latn", "snd_Arab">>, <<"snd_Deva">>},
            d \in {{"en-xx"}, {"en-xx", "xx-en"}}, u \in BOOLEAN}

TtsCall(path, n) ==
    [path |-> path, valid |-> TRUE, dialogue |-> FALSE, chunked |-> "default", frames |-> n, known |-> TRUE]
MCCallChoices ==
    {TtsCall("/tts", 0)} \cup {TtsCall(path, 2) : path \in {"/tts", "/tts/sse", "/tts/offline"}}
    \cup {[TtsCall(path, 1) EXCEPT !.dialogue = TRUE, !.chunked = "yes"] : path \in {"/tts", "/tts/chunked"}}
    \cup {[TtsCall(path, 1) EXCEPT !.valid = FALSE] : path \in {"/tts", "/tts/offline"}}
    \cup {[TtsCall("/tts/sse", 1) EXCEPT !.known = FALSE]}

(* Neither caller of the TTS server is special.                                *)
CallersAlike == Permutations(Callers)

(* Only the part that runs has a choice of inputs.                             *)
In(p, choices) == IF part = p THEN choices ELSE {CHOOSE x \in choices : TRUE}
PartInit ==
    /\ part \in {"server", "shard", "live", "pages", "text", "speech", "page"}
    /\ req \in IF part = "server" THEN Requests ELSE {Asked("stream", <<>>, "hi", <<"native">>)}
    /\ cmd \in In("pages", OcrCommands)
    /\ ask \in In("text", MtCommands)
    /\ auth \in In("speech", {"unset", "good", "malformed"})
    /\ recording \in In("speech", BOOLEAN)
    /\ call \in In("speech", [Callers -> CallChoices])
    /\ Arriving /\ Init /\ ListenInit /\ OcrInit /\ TranslateInit /\ FanInit /\ ServiceInit
    /\ selector \in In("page", Spoken) /\ DemoInit

asrVars == <<requestVars, vars, listenVars>>
textVars == <<ocrVars, mtVars, fanVars>>
speechVars == <<ttsServiceVars, demoVars>>

PartNext ==
    /\ UNCHANGED part
    /\ \/ part = "server" /\ RequestNext /\ UNCHANGED <<vars, listenVars, textVars, speechVars>>
       \/ part = "shard" /\ Next /\ UNCHANGED <<requestVars, listenVars, textVars, speechVars>>
       \/ part = "live" /\ ListenNext /\ UNCHANGED <<requestVars, vars, textVars, speechVars>>
       \/ part = "pages" /\ OcrNext /\ UNCHANGED <<asrVars, mtVars, speechVars>>
       \/ part = "text" /\ TranslateNext /\ UNCHANGED <<asrVars, ocrVars, speechVars>>
       \/ part = "speech" /\ ServiceNext /\ UNCHANGED <<asrVars, textVars, demoVars>>
       \/ part = "page" /\ DemoNext /\ UNCHANGED <<asrVars, textVars, ttsServiceVars>>

PartSpec == PartInit /\ [][PartNext]_<<part, asrVars, textVars, speechVars>>

(* Pages alone.                                                                *)
PagesSpec == part = "pages" /\ PartSpec
===============================================================================
