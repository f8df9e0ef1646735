------------------------------- MODULE PageOcr --------------------------------
(***************************************************************************)
(* The two stages of document OCR: a page image becomes a layout of blocks  *)
(* (ocr/layout/infer.py, engine/layout.py, engine/blocks.py), and the       *)
(* blocks become text (engine/offline.py with engine/crops.py,              *)
(* engine/recognizer.py and engine/reconstruct.py), in one command, in two  *)
(* with a layout file between them that somebody may edit, or against a     *)
(* server (inference/cli.py, serving/client.py).                            *)
(*                                                                         *)
(* Boxes are intervals down the page in half pixels: every rule about boxes *)
(* compares an overlap with an extent.  A reading is known by the image,    *)
(* the crop and the prompt it was made from; the scaling of crops and the   *)
(* repair of its LaTeX are left out.                                        *)
(***************************************************************************)
EXTENDS FanOut

CONSTANTS
    Detected,       \* per image, the model's queries: label, box, sure (above conf), turn
    PageEnd,        \* the page's height
    PadPixels,      \* cfg.pad_px
    RecognizerBatch,\* cfg.batch_size of the backend in the process
    Beside,         \* images that lie beside their layout file
    OcrCommands     \* the commands that may be run

ASSUME OcrAssumption ==
    /\ PageEnd \in Nat /\ PadPixels \in Nat /\ RecognizerBatch \in Nat \ {0}
    /\ \A p \in DOMAIN Detected : IsInjective([i \in DOMAIN Detected[p] |-> Detected[p][i].turn])

VARIABLES
    cmd,        \* the command: kind, images, mode, nest, save, strict, up
    pageAt,     \* the page it is at
    ocrPc,      \* where it is
    saved,      \* <name>.layout.json by image
    laid,       \* history: the layout each page was transcribed against
    read        \* <name>.json and <name>.md by image

ocrVars == <<cmd, pageAt, ocrPc, saved, laid, read>>

OcrInit ==
    /\ cmd \in OcrCommands /\ pageAt = 1 /\ ocrPc = "start"
    /\ saved = << >> /\ laid = << >> /\ read = << >>

(***************************************************************************)
(* Labels and types (ocr/templates/contract.py).                            *)
(***************************************************************************)
Marginalia == {"Header", "Footer", "Page-number", "Folio"}
HeadFoot == {"Header", "Footer"}
DropTypes == {"Figure", "Picture"}
TextLike == {"Text", "Title", "SectionHeader", "Caption", "Footnote"}

IsTranscribed(label) ==
    label \notin {"Header", "Footer", "Diagram", "Image", "Chart", "Advertisement"}

MapLabel(label) ==
    CASE label \in {"Table", "Equation"} -> label
      [] label \in {"Diagram", "Chart"} -> "Figure"
      [] label = "Image" -> "Picture"
      [] label = "Image-caption" -> "Caption"
      [] label \in {"Header", "Footer"} -> "Page" \o label
      [] label \in {"Page-number", "Folio"} -> "PageNumber"
      [] OTHER -> "Text"

PromptFor(type) == IF type \in {"Table", "Equation"} THEN type ELSE "Text"

(***************************************************************************)
(* Boxes (ocr/engine/blocks.py).                                            *)
(***************************************************************************)
Extent(box) == Max({0, box[2] - box[1]})
Overlap(a, b) == Max({0, Min({a[2], b[2]}) - Max({a[1], b[1]})})
ClampToPage(box) == <<Max({0, box[1]}), Min({PageEnd, box[2]})>>

\* contained_frac(small, big) >= tenths / 10.
Contained(small, big, tenths) ==
    Extent(small) > 0 /\ 10 * Overlap(small, big) >= tenths * Extent(small)

\* An absorption that ignores what is transcribed.
AbsorbsAny(big, small) == Contained(small.box, big.box, 9)

\* A block is not absorbed into one that will not itself be transcribed.
Absorbs(big, small) ==
    /\ Contained(small.box, big.box, 9)
    /\ IsTranscribed(big.label) \/ ~IsTranscribed(small.label)

\* Rule 1 of clean_layout, from the largest box of a group to the smallest.
Unabsorbed(blocks, group) ==
    LET larger(i, j) == \/ Extent(blocks[i].box) > Extent(blocks[j].box)
                        \/ Extent(blocks[i].box) = Extent(blocks[j].box) /\ i < j
        keep(kept, i) == IF \E j \in kept : Absorbs(blocks[j], blocks[i]) THEN kept ELSE kept \cup {i}
    IN  FoldLeft(keep, {}, SetToSortSeq({i \in DOMAIN blocks : blocks[i].label \in group}, larger))

\* Rules 2 and 3: the largest header and footer, if it wraps anything at all.
Frame(blocks, label) ==
    LET group == {i \in DOMAIN blocks : blocks[i].label = label}
        size(i) == Extent(blocks[i].box)
    IN  {i \in group :
            /\ \A j \in group : size(i) > size(j) \/ (size(i) = size(j) /\ i <= j)
            /\ \E k \in DOMAIN blocks :
                blocks[k].label # label /\ Contained(blocks[k].box, blocks[i].box, 5)}

CleanLayout(blocks) ==
    LET labels == {blocks[i].label : i \in DOMAIN blocks}
        kept == Unabsorbed(blocks, labels \ Marginalia)
                \cup Unabsorbed(blocks, Marginalia \ HeadFoot)
                \cup UNION {Frame(blocks, label) : label \in HeadFoot}
        order == SetToSortSeq(kept, <)
    IN  [i \in DOMAIN order |-> blocks[order[i]]]

Nested(inner, outer) ==
    Contained(inner, outer, 7) /\ 100 * Extent(inner) < 95 * Extent(outer)

AbsorbsEquation(type) ==
    \/ type = "Equation" /\ cmd.mode # "text_only"
    \/ type \in TextLike /\ cmd.mode # "eq_only"

NestedEquation(b, blocks) ==
    /\ cmd.nest /\ MapLabel(b.label) = "Equation"
    /\ \E c \in ToSet(blocks) :
        c # b /\ Nested(b.box, c.box) /\ AbsorbsEquation(MapLabel(c.label))

ResolveNestedEquations(blocks) == SelectSeq(blocks, LAMBDA b : ~NestedEquation(b, blocks))

(***************************************************************************)
(* Stage 1.  Reading order is decoded over the kept queries.                *)
(***************************************************************************)
Infer(image) ==
    LET kept == SelectSeq(Detected[image], LAMBDA q : q.sure)
        rank(q) == Cardinality({r \in ToSet(kept) : r.turn <= q.turn})
    IN  [i \in DOMAIN kept |->
            [order |-> rank(kept[i]), label |-> kept[i].label, box |-> ClampToPage(kept[i].box)]]

InOrder(blocks) == SortSeq(blocks, LAMBDA a, b : a.order < b.order)
Densify(blocks) ==
    LET ordered == InOrder(blocks) IN [i \in DOMAIN ordered |-> [ordered[i] EXCEPT !.order = i - 1]]

Detect(image) == Densify(CleanLayout(Infer(image)))

(***************************************************************************)
(* Stage 2.                                                                 *)
(***************************************************************************)
\* Python's round, of half pixels: to even.
Pixel(v) == IF v % 2 = 1 /\ (v \div 2) % 2 = 1 THEN v \div 2 + 1 ELSE v \div 2

CropBox(box) ==
    <<Max({0, Pixel(box[1]) - PadPixels}), Min({PageEnd \div 2, Pixel(box[2]) + PadPixels})>>

\* A thin rule may round to nothing.
Croppable(b) ==
    /\ MapLabel(b.label) \notin DropTypes /\ IsTranscribed(b.label)
    /\ LET crop == CropBox(b.box) IN crop[1] < crop[2]

Request(image, b) ==
    [order |-> b.order, image |-> image, crop |-> CropBox(b.box), prompt |-> PromptFor(MapLabel(b.label))]

BuildRequests(image, blocks) ==
    LET cropped == SelectSeq(blocks, Croppable)
    IN  [i \in DOMAIN cropped |-> Request(image, cropped[i])]

Transcribe(image, blocks) ==
    /\ laid' = laid @@ image :> blocks
    /\ Ask(BuildRequests(image, ResolveNestedEquations(SelectSeq(blocks, LAMBDA b : IsTranscribed(b.label)))))
    /\ ocrPc' = "recognize"

\* by_order: the reading of a block is the one of the request with its rank.
TextOf(b) ==
    LET at == {i \in DOMAIN asked : asked[i].order = b.order}
    IN  IF at = {} \/ texts[Max(at)] = 0 THEN <<>> ELSE <<asked[texts[Max(at)]]>>

Reconstruct(blocks) ==
    LET kept == InOrder(SelectSeq(blocks, LAMBDA b : MapLabel(b.label) \notin DropTypes))
    IN  FlattenSeq([i \in DOMAIN kept |-> kept[i].text])

(***************************************************************************)
(* The commands: layout and then ocr, parse, client, and a replay of a      *)
(* stored layout through JsonLayoutBackend.                                 *)
(***************************************************************************)
Image == cmd.images[pageAt]
PagesOver == pageAt > Len(cmd.images)
Stay == UNCHANGED <<cmd, laid, read, fanVars>>

\* The client asks for the served model before it reads a page.
BeginOcr ==
    /\ ocrPc = "start" /\ UNCHANGED <<cmd, pageAt, saved, laid, read, fanVars>>
    /\ ocrPc' = IF cmd.kind = "client" /\ ~cmd.up THEN "refused" ELSE "detect"

SaveLayout ==
    /\ ocrPc = "detect" /\ ~PagesOver /\ cmd.kind \in {"layout", "replay"} /\ Stay
    /\ saved' = saved @@ Image :> Detect(Image)
    /\ pageAt' = pageAt + 1 /\ UNCHANGED ocrPc

LayoutsSaved ==
    /\ ocrPc = "detect" /\ PagesOver /\ cmd.kind \in {"layout", "replay"} /\ Stay
    /\ ocrPc' = "edit" /\ pageAt' = 1 /\ UNCHANGED saved

\* A person takes a block out of a layout file, or lists its blocks differently.
EditLayout ==
    /\ ocrPc = "edit" /\ ~PagesOver /\ Stay /\ UNCHANGED ocrPc
    /\ pageAt' = pageAt + 1
    /\ \/ \E i \in DOMAIN saved[Image] : saved' = [saved EXCEPT ![Image] = RemoveAt(@, i)]
       \/ saved' = [saved EXCEPT ![Image] = Reverse(@)]
       \/ UNCHANGED saved

Edited ==
    /\ ocrPc = "edit" /\ PagesOver /\ Stay /\ UNCHANGED saved
    /\ ocrPc' = "load" /\ pageAt' = 1

\* cmd_ocr reads a file as it is; JsonLayoutBackend renumbers it.
LoadLayout ==
    /\ ocrPc = "load" /\ ~PagesOver /\ UNCHANGED <<cmd, pageAt, saved, read>>
    /\ IF cmd.kind = "layout" /\ Image \notin Beside
       THEN ocrPc' = "exited" /\ UNCHANGED <<laid, fanVars>>
       ELSE Transcribe(Image, IF cmd.kind = "replay" THEN Densify(saved[Image]) ELSE saved[Image])

DetectPage ==
    /\ ocrPc = "detect" /\ ~PagesOver /\ cmd.kind \in {"parse", "client"}
    /\ UNCHANGED <<cmd, pageAt, read>>
    /\ saved' = IF cmd.save THEN saved @@ Image :> Detect(Image) ELSE saved
    /\ Transcribe(Image, Detect(Image))

\* The crops of the page, at the server or in the process, where a call may raise.
Recognize ==
    /\ ocrPc = "recognize" /\ UNCHANGED <<cmd, pageAt, saved, laid, read>>
    /\ IF cmd.kind = "client" THEN UNCHANGED ocrPc /\ (Take \/ \E i \in DOMAIN flight : Reply(i, {"ok", "failed"}))
       ELSE /\ ~AllAnswered
            /\ \/ Generate(RecognizerBatch, {"ok"}) /\ UNCHANGED ocrPc
               \/ ocrPc' = "raised" /\ UNCHANGED fanVars

\* A failed crop fails the page, and with it the command, unless --best-effort.
WritePage ==
    /\ ocrPc = "recognize" /\ AllAnswered /\ UNCHANGED <<cmd, saved, laid, fanVars>>
    /\ IF cmd.strict /\ Count("failed") > 0 THEN ocrPc' = "raised" /\ UNCHANGED <<pageAt, read>>
       ELSE LET page == [i \in DOMAIN laid[Image] |-> laid[Image][i] @@ [text |-> TextOf(laid[Image][i])]]
            IN  /\ read' = read @@ Image :> [blocks |-> page, markdown |-> Reconstruct(page)]
                /\ ocrPc' = (IF cmd.kind \in {"parse", "client"} THEN "detect" ELSE "load")
                /\ pageAt' = pageAt + 1

OcrReturns ==
    /\ PagesOver /\ ocrPc \in {"load", "detect"} /\ cmd.kind \in {"layout", "replay"} => ocrPc = "load"
    /\ ocrPc' = "returned" /\ UNCHANGED <<cmd, pageAt, saved, laid, read, fanVars>>

OcrNext ==
    \/ BeginOcr \/ SaveLayout \/ LayoutsSaved \/ EditLayout \/ Edited \/ LoadLayout \/ DetectPage
    \/ Recognize \/ WritePage \/ OcrReturns

(***************************************************************************)
(* Properties.                                                              *)
(***************************************************************************)
Own(image, b) == [image |-> image, crop |-> CropBox(b.box), prompt |-> PromptFor(MapLabel(b.label)),
                  order |-> b.order]

\* What a page says, and where: every block of the layout it was transcribed against is in
\* the page in its place; its text is the reading of its own crop under its own prompt
\* whatever order the answers came in, and it has none only if it is not to be read, has no
\* pixels, is an equation inside another block, or failed under --best-effort; the markdown
\* is the texts in reading order; and a detection that is to be read is missing from a page
\* only for a block that is on it, is read, and all but contains it.
OwnText ==
    \A image \in DOMAIN read :
        LET page == read[image].blocks
            said == SelectSeq(InOrder(page), LAMBDA b : b.text # <<>>)
        IN  /\ [i \in DOMAIN page |-> [order |-> page[i].order, label |-> page[i].label, box |-> page[i].box]]
               = laid[image]
            /\ \A b \in ToSet(page) :
                \/ b.text = <<Own(image, b)>> /\ IsTranscribed(b.label)
                \/ b.text = <<>> /\ (\/ ~Croppable(b) \/ ~cmd.strict
                                     \/ NestedEquation([order |-> b.order, label |-> b.label, box |-> b.box], laid[image]))
            /\ read[image].markdown = [i \in DOMAIN said |-> said[i].text[1]]
            /\ cmd.kind \in {"parse", "client"} =>
                \A q \in ToSet(Detected[image]) : q.sure /\ IsTranscribed(q.label) =>
                    \E b \in ToSet(page) :
                        /\ IsTranscribed(b.label)
                        /\ \/ b.label = q.label /\ b.box = ClampToPage(q.box)
                           \/ Contained(ClampToPage(q.box), b.box, 9)

\* An equation block left unread is nested in a block of the page that is read.
EquationCovered ==
    \A image \in DOMAIN read :
        LET page == read[image].blocks
        IN  \A b \in ToSet(page) :
                MapLabel(b.label) = "Equation" /\ b.text = <<>> /\ Croppable(b) /\ cmd.strict =>
                    \E c \in ToSet(page) : c.text # <<>> /\ Nested(b.box, c.box)
===============================================================================
