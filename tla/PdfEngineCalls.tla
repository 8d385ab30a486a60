--------------------------- MODULE PdfEngineCalls ---------------------------
(***************************************************************************)
(* The PDF tools (tools/pdf) as programs over engine handles: what each    *)
(* opens and closes on every path, which failures it reports, and whether  *)
(* it says that it passed.                                                 *)
(*                                                                         *)
(* A routine is a table from a label to the engine call made there and the *)
(* labels that follow; "begin" is its first label and "end" its return.    *)
(* A call is refused when it answers null, false, a negative number, an    *)
(* empty size or text, or fewer bytes than it has just announced; the      *)
(* answer that ends an enumeration is the end of a loop, never a refusal.  *)
(* Calls in a row whose refusal the tool ignores are one quiet step.  Left *)
(* out are calls that cannot be refused, or give no answer, and the        *)
(* evidence written; the options that ask for a check are all given.       *)
(***************************************************************************)
EXTENDS Naturals, Sequences

CONSTANTS
    PageCount,    \* pages of the document
    Iterations,   \* iterations that a tool is asked for
    Warmups,      \* warm-up iterations of the benchmark
    MaxFound      \* bound: links, hits or requests the engine enumerates

ASSUME CallsAssumption ==
    /\ PageCount \in Nat /\ Iterations \in Nat \ {0}
    /\ Warmups \in Nat /\ MaxFound \in Nat

VARIABLES
    frames,   \* the routines being run, innermost first
    opened,   \* <<handle, the handle it was opened from>>
    refused   \* history: a call did not succeed, other than an Unreported one

callVars == <<frames, opened, refused>>

-----------------------------------------------------------------------------
(* The kinds of step: what a step does, and the labels after it.           *)

Start(h, next) == [does |-> "start", handle |-> h, ok |-> next]

(* A null handle, and a call that is no success, are reported as failures  *)
(* unless the step is quiet about it.                                      *)
Open(h, from, ok, no) ==
    [does |-> "open", handle |-> h, from |-> from, ok |-> ok, no |-> no,
     reports |-> TRUE]
Use(ok, no) == [does |-> "use", ok |-> ok, no |-> no, reports |-> TRUE]
Quiet(step) == [step EXCEPT !.reports = FALSE]

Close(h, next) == [does |-> "close", handle |-> h, ok |-> next]
CloseIfOpen(h, next) == [does |-> "closeIfOpen", handle |-> h, ok |-> next]

(* A loop over a known number, a loop the engine ends, a call, a branch.   *)
Each(n, body, done) == [does |-> "each", most |-> n, ok |-> body, no |-> done]
While(body, done) == [does |-> "while", most |-> MaxFound, ok |-> body, no |-> done]
Call(r, ok, no) == [does |-> "call", routine |-> r, ok |-> ok, no |-> no]
IfClean(ok, no) == [does |-> "ifClean", ok |-> ok, no |-> no]

-----------------------------------------------------------------------------
(* pdfium_stress: the work done per iteration and per request, and what    *)
(* the worker thread does with the library.                                *)

(* Defect: a bitmap that cannot be made leaves the page open.              *)
RunPdfiumWork_KeepsPage ==
    [begin     |-> Open("document", "library", "count", "end"),
     count     |-> Use("page", "close"),
     page      |-> Open("page", "document", "bitmap", "close"),
     bitmap    |-> Open("bitmap", "library", "fill", "close"),
     fill      |-> Quiet(Use("render", "render")),
     render    |-> Use("textPage", "textPage"),
     textPage  |-> Open("textPage", "page", "chars", "destroy"),
     chars     |-> Use("closeText", "closeText"),
     closeText |-> Close("textPage", "destroy"),
     destroy   |-> Close("bitmap", "closePage"),
     closePage |-> Close("page", "close"),
     close     |-> Close("document", "end")]

RunPdfiumWork ==
    [begin     |-> Open("document", "library", "count", "end"),
     count     |-> Use("page", "close"),
     page      |-> Open("page", "document", "bitmap", "close"),
     bitmap    |-> Open("bitmap", "library", "fill", "closePage"),
     fill      |-> Quiet(Use("render", "render")),
     render    |-> Use("textPage", "textPage"),
     textPage  |-> Open("textPage", "page", "chars", "destroy"),
     chars     |-> Use("closeText", "closeText"),
     closeText |-> Close("textPage", "destroy"),
     destroy   |-> Close("bitmap", "closePage"),
     closePage |-> Close("page", "close"),
     close     |-> Close("document", "end")]

RunLifetime ==
    [begin |-> Each(Iterations, "work", "end"),
     work  |-> Call("RunPdfiumWork", "begin", "begin")]

StressWorker ==
    [begin    |-> Start("library", "lifetime"),
     lifetime |-> Call("RunLifetime", "task", "task"),
     task     |-> While("work", "destroy"),
     work     |-> Call("RunPdfiumWork", "task", "task"),
     destroy  |-> Close("library", "end")]

(* pdfium_bench: each operation is run once, then for the warm-up, then    *)
(* for the samples; the first failure ends a loop.                         *)

OpenOnce ==
    [begin |-> Open("opened", "library", "count", "end"),
     count |-> Use("close", "close"),
     close |-> Close("opened", "end")]

ExtractAllPages ==
    [begin     |-> Each(PageCount, "page", "end"),
     page      |-> Open("page", "document", "textPage", "begin"),
     textPage  |-> Open("textPage", "page", "text", "closePage"),
     text      |-> Use("closeText", "closeText"),
     closeText |-> Close("textPage", "closePage"),
     closePage |-> Close("page", "begin")]

SearchOnce ==
    [begin       |-> Each(PageCount, "page", "expected"),
     page        |-> Open("page", "document", "textPage", "begin"),
     textPage    |-> Open("textPage", "page", "search", "closePage"),
     search      |-> Open("search", "textPage", "find", "closeText"),
     find        |-> While("find", "closeSearch"),
     closeSearch |-> Close("search", "closeText"),
     closeText   |-> Close("textPage", "closePage"),
     closePage   |-> Close("page", "begin"),
     expected    |-> Use("end", "end")]

RenderOnce ==
    [begin     |-> Open("page", "document", "bitmap", "bitmap"),
     bitmap    |-> Open("bitmap", "library", "valid", "valid"),
     valid     |-> IfClean("fill", "destroy"),
     fill      |-> Quiet(Use("draw", "draw")),
     draw      |-> Use("destroy", "destroy"),
     destroy   |-> CloseIfOpen("bitmap", "closePage"),
     closePage |-> CloseIfOpen("page", "end")]

ExtractFirst(extract) ==
    [begin  |-> Call(extract, "length", "length"),
     length |-> Use("end", "end")]

Measure(first, operation) ==
    [begin    |-> Call(first, "warmup", "warmup"),
     warmup   |-> Each(Warmups, "warm", "sampling"),
     warm     |-> Call(operation, "warmup", "sampling"),
     sampling |-> Each(Iterations, "sample", "end"),
     sample   |-> Call(operation, "sampling", "end")]

Bench ==
    [begin    |-> Use("start", "end"),
     start    |-> Start("library", "opening"),
     opening  |-> Call("MeasureOpen", "load", "load"),
     load     |-> Open("document", "library", "range", "destroy"),
     range    |-> Use("extract", "extract"),
     extract  |-> Call("MeasureExtract", "search", "search"),
     search   |-> Call("MeasureSearch", "render", "render"),
     render   |-> Call("MeasureRender", "close", "close"),
     close    |-> Close("document", "destroy"),
     destroy  |-> Close("library", "end")]

(* pdfium_search_probe: the hits are collected page by page, without a     *)
(* rectangle that cannot be read, then compared with the expected count    *)
(* and first hit.                                                          *)

SearchProbe ==
    [begin       |-> Use("start", "end"),
     start       |-> Start("library", "load"),
     load        |-> Open("document", "library", "pages", "destroy"),
     pages       |-> Each(PageCount, "page", "count"),
     page        |-> Open("page", "document", "textPage", "pages"),
     textPage    |-> Open("textPage", "page", "search", "closePage"),
     search      |-> Open("search", "textPage", "find", "closeText"),
     find        |-> While("rect", "closeSearch"),
     rect        |-> Quiet(Use("find", "find")),
     closeSearch |-> Close("search", "closeText"),
     closeText   |-> Close("textPage", "closePage"),
     closePage   |-> Close("page", "pages"),
     count       |-> Use("firstHit", "firstHit"),
     firstHit    |-> Use("close", "close"),
     close       |-> Close("document", "destroy"),
     destroy     |-> Close("library", "end")]

(* pdfium_probe: text and labels of every page, the outline, the links of  *)
(* every page, one rendering.  A text, a label or a title that cannot be   *)
(* read counts as empty; a link whose rectangle, destination or address    *)
(* cannot be read is listed without it.                                    *)

PageText ==
    [begin |-> Open("textPage", "page", "chars", "end"),
     chars |-> Use("text", "close"),
     text  |-> Quiet(Use("close", "close")),
     close |-> Close("textPage", "end")]

(* Defect: a page that does not load has no links.                         *)
CollectLinks_SkipsQuietly ==
    [begin |-> Each(PageCount, "page", "end"),
     page  |-> Quiet(Open("page", "document", "link", "begin")),
     link  |-> While("read", "close"),
     read  |-> Quiet(Use("link", "link")),
     close |-> Close("page", "begin")]

CollectLinks ==
    [begin |-> Each(PageCount, "page", "end"),
     page  |-> Open("page", "document", "link", "begin"),
     link  |-> While("read", "close"),
     read  |-> Quiet(Use("link", "link")),
     close |-> Close("page", "begin")]

RenderRequest ==
    [begin     |-> Use("page", "end"),
     page      |-> Open("page", "document", "bitmap", "bitmap"),
     bitmap    |-> Open("bitmap", "library", "valid", "valid"),
     valid     |-> IfClean("draw", "destroy"),
     draw      |-> Quiet(Use("destroy", "destroy")),
     destroy   |-> CloseIfOpen("bitmap", "closePage"),
     closePage |-> CloseIfOpen("page", "end")]

Probe ==
    [begin     |-> Use("start", "end"),
     start     |-> Start("library", "load"),
     load      |-> Open("document", "library", "expected", "destroy"),
     expected  |-> Use("pages", "pages"),
     pages     |-> Each(PageCount, "page", "labels"),
     page      |-> Open("page", "document", "label", "pages"),
     label     |-> Quiet(Use("text", "text")),
     text      |-> Call("PageText", "closePage", "closePage"),
     closePage |-> Close("page", "pages"),
     labels    |-> Use("bookmarks", "bookmarks"),
     bookmarks |-> Quiet(Use("outline", "outline")),
     outline   |-> Use("links", "links"),
     links     |-> Call("CollectLinks", "linked", "linked"),
     linked    |-> Use("render", "render"),
     render    |-> Call("RenderRequest", "close", "close"),
     close     |-> Close("document", "destroy"),
     destroy   |-> Close("library", "end")]

(* pdfium_security_probe: a document that does not load may be what is     *)
(* expected; assertions about its pages then fail.                         *)

SecurityProbe ==
    [begin      |-> Use("start", "end"),
     start      |-> Start("library", "load"),
     load       |-> Quiet(Open("document", "library", "loadError", "failedAs")),
     loadError  |-> Use("pages", "pages"),
     pages      |-> Use("read", "read"),
     read       |-> Quiet(Use("labels", "labels")),
     labels     |-> Use("close", "close"),
     close      |-> Close("document", "destroy"),
     failedAs   |-> Use("assertions", "assertions"),
     assertions |-> Use("destroy", "destroy"),
     destroy    |-> Close("library", "end")]

(* pdfium_coordinate_probe: three documents at once; nothing is collected  *)
(* unless all of them loaded.                                              *)

CollectA003Links ==
    [begin   |-> Open("page", "a003", "links", "end"),
     links   |-> While("rect", "close"),
     rect    |-> Use("convert", "links"),
     convert |-> Use("target", "target"),
     target  |-> Quiet(Use("links", "links")),
     close   |-> Close("page", "count"),
     count   |-> Use("end", "end")]

CollectA012Destinations ==
    [begin       |-> Open("sourcePage", "a012", "links", "end"),
     links       |-> While("destination", "closeSource"),
     destination |-> Quiet(Use("pageIndex", "links")),
     pageIndex   |-> Quiet(Use("location", "location")),
     location    |-> Use("target", "links"),
     target      |-> Open("targetPage", "a012", "convert", "links"),
     convert     |-> Use("closeTarget", "closeTarget"),
     closeTarget |-> Close("targetPage", "links"),
     closeSource |-> Close("sourcePage", "count"),
     count       |-> Use("end", "end")]

SearchOne ==
    [begin       |-> Open("page", "a011", "textPage", "end"),
     textPage    |-> Open("textPage", "page", "search", "dropPage"),
     search      |-> Open("search", "textPage", "first", "dropText"),
     first       |-> Use("rects", "dropSearch"),
     dropSearch  |-> Close("search", "dropText"),
     dropText    |-> Close("textPage", "dropPage"),
     dropPage    |-> Close("page", "end"),
     rects       |-> While("rect", "closeSearch"),
     rect        |-> Use("rects", "rects"),
     closeSearch |-> Close("search", "closeText"),
     closeText   |-> Close("textPage", "closePage"),
     closePage   |-> Close("page", "anyRect"),
     anyRect     |-> Use("end", "end")]

CoordinateProbe ==
    [begin     |-> Start("library", "a003"),
     a003      |-> Open("a003", "library", "a011", "a011"),
     a011      |-> Open("a011", "library", "a012", "a012"),
     a012      |-> Open("a012", "library", "loaded", "loaded"),
     loaded    |-> IfClean("links", "closeA003"),
     links     |-> Call("CollectA003Links", "targets", "targets"),
     targets   |-> Call("CollectA012Destinations", "searches", "searches"),
     searches  |-> Each(3, "search", "closeA003"),
     search    |-> Call("SearchOne", "searches", "searches"),
     closeA003 |-> CloseIfOpen("a003", "closeA011"),
     closeA011 |-> CloseIfOpen("a011", "closeA012"),
     closeA012 |-> CloseIfOpen("a012", "destroy"),
     destroy   |-> Close("library", "end")]

(* pdfium_content_probe: one page, searched and rendered at two scales; a  *)
(* search that cannot start counts as no hits.                             *)

RenderOne ==
    [begin |-> Open("bitmap", "library", "draw", "end"),
     draw  |-> Quiet(Use("save", "save")),
     save  |-> Use("close", "close"),
     close |-> Close("bitmap", "end")]

ContentProbe ==
    [begin       |-> Use("start", "start"),
     start       |-> Start("library", "readable"),
     readable    |-> IfClean("load", "destroy"),
     load        |-> Open("document", "library", "count", "destroy"),
     count       |-> Use("page", "close"),
     page        |-> Open("page", "document", "textPage", "close"),
     textPage    |-> Open("textPage", "page", "chars", "renders"),
     chars       |-> Quiet(Use("search", "search")),
     search      |-> Quiet(Open("search", "textPage", "find", "closeText")),
     find        |-> While("find", "closeSearch"),
     closeSearch |-> Close("search", "closeText"),
     closeText   |-> Close("textPage", "renders"),
     renders     |-> Each(2, "render", "closePage"),
     render      |-> Call("RenderOne", "renders", "renders"),
     closePage   |-> Close("page", "close"),
     close       |-> Close("document", "destroy"),
     destroy     |-> Close("library", "end")]

(* pdfium_fidelity_probe: renderings of each page; a bitmap that cannot be *)
(* allocated is noted in the evidence only.                                *)

RenderPage ==
    [begin |-> Quiet(Open("bitmap", "library", "draw", "end")),
     draw  |-> Quiet(Use("close", "close")),
     close |-> Close("bitmap", "end")]

FidelityProbe ==
    [begin     |-> Use("start", "end"),
     start     |-> Start("library", "load"),
     load      |-> Open("document", "library", "count", "destroy"),
     count     |-> Use("pages", "close"),
     pages     |-> Each(PageCount, "page", "close"),
     page      |-> Open("page", "document", "renders", "pages"),
     renders   |-> Each(2, "render", "closePage"),
     render    |-> Call("RenderPage", "renders", "renders"),
     closePage |-> Close("page", "pages"),
     close     |-> Close("document", "destroy"),
     destroy   |-> Close("library", "end")]

(* The Qt PDF tools: a QPdfDocument or a model of it is an object of its   *)
(* scope, and a document that did not load is still asked.  A text, a label*)
(* or a size that is not there is taken for an empty one.                  *)

QtOpenOnce ==
    [begin  |-> Use("create", "end"),
     create |-> Start("opened", "load"),
     load   |-> Use("drop", "drop"),
     drop   |-> Close("opened", "end")]

QtExtract ==
    [begin |-> Each(PageCount, "page", "end"),
     page  |-> Quiet(Use("begin", "begin"))]

QtSearchOnce ==
    [begin |-> Start("search", "hits"),
     hits  |-> Use("drop", "drop"),
     drop  |-> Close("search", "end")]

QtRenderOnce == [begin |-> Use("end", "end")]

QtBench ==
    [begin    |-> Use("opening", "end"),
     opening  |-> Call("MeasureQtOpen", "create", "create"),
     create   |-> Start("document", "load"),
     load     |-> Use("range", "range"),
     range    |-> Use("extract", "extract"),
     extract  |-> Call("MeasureQtExtract", "search", "search"),
     search   |-> Call("MeasureQtSearch", "render", "render"),
     render   |-> Call("MeasureQtRender", "drop", "drop"),
     drop     |-> Close("document", "end")]

QtStress ==
    [begin  |-> Each(Iterations, "create", "end"),
     create |-> Start("document", "load"),
     load   |-> Use("render", "drop"),
     render |-> Use("text", "text"),
     text   |-> Use("drop", "drop"),
     drop   |-> Close("document", "begin")]

QtCollectLinks ==
    [begin |-> Start("links", "pages"),
     pages |-> Each(PageCount, "rows", "drop"),
     rows  |-> While("rows", "pages"),
     drop  |-> Close("links", "end")]

QtProbe ==
    [begin    |-> Use("create", "end"),
     create   |-> Start("document", "load"),
     load     |-> Use("expected", "drop"),
     expected |-> Use("pages", "pages"),
     pages    |-> Each(PageCount, "page", "labels"),
     page     |-> Quiet(Use("pages", "pages")),
     labels   |-> Use("outline", "outline"),
     outline  |-> Use("links", "links"),
     links    |-> Call("QtCollectLinks", "linked", "linked"),
     linked   |-> Use("render", "render"),
     render   |-> Call("QtRenderOnce", "drop", "drop"),
     drop     |-> Close("document", "end")]

QtSearchProbe ==
    [begin      |-> Use("create", "end"),
     create     |-> Start("document", "load"),
     load       |-> Use("timeout", "drop"),
     timeout    |-> Use("search", "search"),
     search     |-> Start("search", "settle"),
     settle     |-> Use("rows", "rows"),
     rows       |-> While("rows", "count"),
     count      |-> Use("firstHit", "firstHit"),
     firstHit   |-> Use("dropSearch", "dropSearch"),
     dropSearch |-> Close("search", "drop"),
     drop       |-> Close("document", "end")]

QtSecurityProbe ==
    [begin      |-> Use("create", "end"),
     create     |-> Start("document", "load"),
     load       |-> Quiet(Use("loadError", "failedAs")),
     loadError  |-> Use("pages", "pages"),
     pages      |-> Use("read", "read"),
     read       |-> Quiet(Use("labels", "labels")),
     labels     |-> Use("drop", "drop"),
     failedAs   |-> Use("assertions", "assertions"),
     assertions |-> Use("drop", "drop"),
     drop       |-> Close("document", "end")]

(* qt_pdf_coordinate_probe: its two collections of links are alike.        *)
QtLinksOfFirstPage ==
    [begin |-> Start("links", "rows"),
     rows  |-> While("rows", "count"),
     count |-> Use("drop", "drop"),
     drop  |-> Close("links", "end")]

QtSearchOne ==
    [begin  |-> Start("search", "settle"),
     settle |-> Use("hit", "drop"),
     hit    |-> Use("size", "drop"),
     size   |-> Quiet(Use("rects", "rects")),
     rects  |-> Use("drop", "drop"),
     drop   |-> Close("search", "end")]

QtCoordinateProbe ==
    [begin    |-> Use("a003", "end"),
     a003     |-> Start("a003", "load003"),
     load003  |-> Use("a011", "a011"),
     a011     |-> Start("a011", "load011"),
     load011  |-> Use("a012", "a012"),
     a012     |-> Start("a012", "load012"),
     load012  |-> Use("loaded", "loaded"),
     loaded   |-> IfClean("links", "drop012"),
     links    |-> Call("QtLinksOfFirstPage", "targets", "targets"),
     targets  |-> Call("QtLinksOfFirstPage", "searches", "searches"),
     searches |-> Each(3, "search", "drop012"),
     search   |-> Call("QtSearchOne", "searches", "searches"),
     drop012  |-> Close("a012", "drop011"),
     drop011  |-> Close("a011", "drop003"),
     drop003  |-> Close("a003", "end")]

QtRenderOne ==
    [begin |-> Quiet(Use("image", "image")),
     image |-> Use("save", "end"),
     save  |-> Use("end", "end")]

QtContentProbe ==
    [begin      |-> Use("create", "end"),
     create     |-> Start("document", "load"),
     load       |-> Use("count", "drop"),
     count      |-> Use("read", "drop"),
     read       |-> Quiet(Use("search", "search")),
     search     |-> Start("search", "settle"),
     settle     |-> Use("renders", "renders"),
     renders    |-> Each(2, "render", "dropSearch"),
     render     |-> Call("QtRenderOne", "renders", "renders"),
     dropSearch |-> Close("search", "drop"),
     drop       |-> Close("document", "end")]

(* A null image is noted in the evidence only.                             *)
QtRenderPage == [begin |-> Quiet(Use("end", "end"))]

QtFidelityProbe ==
    [begin   |-> Use("create", "end"),
     create  |-> Start("document", "load"),
     load    |-> Use("count", "drop"),
     count   |-> Use("pages", "drop"),
     pages   |-> Each(PageCount, "size", "drop"),
     size    |-> Quiet(Use("renders", "renders")),
     renders |-> Each(2, "render", "pages"),
     render  |-> Call("QtRenderPage", "renders", "renders"),
     drop    |-> Close("document", "end")]

(* The fixture generator: whether the page was laid out and drawn is not   *)
(* looked at.                                                              *)
FixtureGenerator ==
    [begin   |-> Use("fonts", "end"),
     fonts   |-> Use("family", "end"),
     family  |-> Use("writer", "end"),
     writer  |-> Start("writer", "layout"),
     layout  |-> Quiet(Use("painter", "painter")),
     painter |-> Open("painter", "writer", "draw", "drop"),
     draw    |-> Quiet(Use("finish", "finish")),
     finish  |-> Close("painter", "drop"),
     drop    |-> Close("writer", "end")]

-----------------------------------------------------------------------------

Tools ==
    {"StressWorker", "Bench", "SearchProbe", "Probe", "SecurityProbe",
     "CoordinateProbe", "ContentProbe", "FidelityProbe", "QtBench", "QtStress",
     "QtProbe", "QtSearchProbe", "QtSecurityProbe", "QtCoordinateProbe",
     "QtContentProbe", "QtFidelityProbe", "FixtureGenerator"}

Routine ==
    [RunPdfiumWork |-> RunPdfiumWork, RunLifetime |-> RunLifetime,
     StressWorker |-> StressWorker,
     OpenOnce |-> OpenOnce, ExtractAllPages |-> ExtractAllPages,
     SearchOnce |-> SearchOnce, RenderOnce |-> RenderOnce,
     ExtractFirst |-> ExtractFirst("ExtractAllPages"),
     MeasureOpen |-> Measure("OpenOnce", "OpenOnce"),
     MeasureExtract |-> Measure("ExtractFirst", "ExtractAllPages"),
     MeasureSearch |-> Measure("SearchOnce", "SearchOnce"),
     MeasureRender |-> Measure("RenderOnce", "RenderOnce"), Bench |-> Bench,
     SearchProbe |-> SearchProbe, PageText |-> PageText,
     CollectLinks |-> CollectLinks, RenderRequest |-> RenderRequest,
     Probe |-> Probe, SecurityProbe |-> SecurityProbe,
     CollectA003Links |-> CollectA003Links,
     CollectA012Destinations |-> CollectA012Destinations,
     SearchOne |-> SearchOne, CoordinateProbe |-> CoordinateProbe,
     RenderOne |-> RenderOne, ContentProbe |-> ContentProbe,
     RenderPage |-> RenderPage, FidelityProbe |-> FidelityProbe,
     QtOpenOnce |-> QtOpenOnce, QtExtract |-> QtExtract,
     QtSearchOnce |-> QtSearchOnce, QtRenderOnce |-> QtRenderOnce,
     QtExtractFirst |-> ExtractFirst("QtExtract"),
     MeasureQtOpen |-> Measure("QtOpenOnce", "QtOpenOnce"),
     MeasureQtExtract |-> Measure("QtExtractFirst", "QtExtract"),
     MeasureQtSearch |-> Measure("QtSearchOnce", "QtSearchOnce"),
     MeasureQtRender |-> Measure("QtRenderOnce", "QtRenderOnce"),
     QtBench |-> QtBench, QtStress |-> QtStress,
     QtCollectLinks |-> QtCollectLinks, QtProbe |-> QtProbe,
     QtSearchProbe |-> QtSearchProbe, QtSecurityProbe |-> QtSecurityProbe,
     QtLinksOfFirstPage |-> QtLinksOfFirstPage,
     QtSearchOne |-> QtSearchOne, QtCoordinateProbe |-> QtCoordinateProbe,
     QtRenderOne |-> QtRenderOne, QtContentProbe |-> QtContentProbe,
     QtRenderPage |-> QtRenderPage, QtFidelityProbe |-> QtFidelityProbe,
     FixtureGenerator |-> FixtureGenerator]

(* A frame: the routine, where it is, whether it has reported nothing, and *)
(* the turns made in each of its loops.                                    *)
Frame(r) ==
    [in |-> r, at |-> "begin", clean |-> TRUE,
     turns |-> [l \in DOMAIN Routine[r] |-> 0]]

Running == frames # <<>> /\ Head(frames).at # "end"
Returned == Len(frames) > 1 /\ Head(frames).at = "end"
Exited == Len(frames) = 1 /\ Head(frames).at = "end"

StepAt(f) == Routine[f.in][f.at]
Step == StepAt(Head(frames))
Doing(kind) == Running /\ Step.does = kind

GoTo(l) == frames' = [frames EXCEPT ![1].at = l]

Handles == {pair[1] : pair \in opened}

(* The calls whose failure a tool does not hold against the document.      *)
Unreported ==
    {<<"RunPdfiumWork", "fill">>, <<"RenderOnce", "fill">>,
     <<"SearchProbe", "rect">>,
     <<"PageText", "text">>, <<"CollectLinks", "read">>,
     <<"RenderRequest", "draw">>, <<"Probe", "label">>, <<"Probe", "bookmarks">>,
     <<"SecurityProbe", "load">>, <<"SecurityProbe", "read">>,
     <<"CollectA003Links", "target">>,
     <<"CollectA012Destinations", "destination">>,
     <<"CollectA012Destinations", "pageIndex">>,
     <<"RenderOne", "draw">>, <<"ContentProbe", "chars">>,
     <<"ContentProbe", "search">>,
     <<"RenderPage", "begin">>, <<"RenderPage", "draw">>,
     <<"QtExtract", "page">>, <<"QtProbe", "page">>,
     <<"QtSecurityProbe", "load">>, <<"QtSecurityProbe", "read">>,
     <<"QtSearchOne", "size">>,
     <<"QtRenderOne", "begin">>, <<"QtContentProbe", "read">>,
     <<"QtRenderPage", "begin">>, <<"QtFidelityProbe", "size">>,
     <<"FixtureGenerator", "layout">>, <<"FixtureGenerator", "draw">>}

CallsIdle == frames = <<>> /\ opened = {} /\ refused = FALSE

CallsInit == \E t \in Tools : frames = <<Frame(t)>> /\ opened = {} /\ refused = FALSE

OpenHandle ==
    /\ Doing("start") \/ Doing("open")
    /\ LET from == IF Step.does = "start" THEN "process" ELSE Step.from
       IN  opened' = opened \union {<<Step.handle, from>>}
    /\ GoTo(Step.ok)
    /\ UNCHANGED refused

Succeed == Doing("use") /\ GoTo(Step.ok) /\ UNCHANGED <<opened, refused>>

Miss ==
    /\ Doing("open") \/ Doing("use")
    /\ frames' = [frames EXCEPT ![1].at = Step.no,
                                ![1].clean = @ /\ ~Step.reports]
    /\ refused' = (refused \/ <<Head(frames).in, Head(frames).at>> \notin Unreported)
    /\ UNCHANGED opened

CloseHandle ==
    /\ Doing("close") \/ Doing("closeIfOpen")
    /\ opened' = {pair \in opened : pair[1] # Step.handle}
    /\ GoTo(Step.ok)
    /\ UNCHANGED refused

TakeTurn ==
    /\ Doing("each") \/ Doing("while")
    /\ LET f == Head(frames) IN
       /\ f.turns[f.at] < Step.most
       /\ frames' = [frames EXCEPT ![1].at = Step.ok, ![1].turns[f.at] = @ + 1]
    /\ UNCHANGED <<opened, refused>>

LeaveLoop ==
    LET f == Head(frames) IN
    /\ Doing("while") \/ (Doing("each") /\ f.turns[f.at] = Step.most)
    /\ frames' = [frames EXCEPT ![1].at = Step.no, ![1].turns[f.at] = 0]
    /\ UNCHANGED <<opened, refused>>

Branch ==
    /\ Doing("ifClean")
    /\ GoTo(IF Head(frames).clean THEN Step.ok ELSE Step.no)
    /\ UNCHANGED <<opened, refused>>

CallRoutine ==
    /\ Doing("call")
    /\ frames' = <<Frame(Step.routine)>> \o frames
    /\ UNCHANGED <<opened, refused>>

(* A caller reports what its routine has reported.                         *)
Return ==
    /\ Returned
    /\ LET clean == Head(frames).clean
           caller == frames[2]
           next == IF clean THEN StepAt(caller).ok ELSE StepAt(caller).no
       IN  frames' = [Tail(frames) EXCEPT ![1].at = next,
                                          ![1].clean = @ /\ clean]
    /\ UNCHANGED <<opened, refused>>

CallsNext ==
    \/ OpenHandle \/ Succeed \/ Miss \/ CloseHandle
    \/ TakeTurn \/ LeaveLoop \/ Branch \/ CallRoutine \/ Return

CallsFairness == WF_callVars(CallsNext)

CallsSpec == CallsInit /\ [][CallsNext]_callVars /\ CallsFairness

-----------------------------------------------------------------------------
(* Properties.                                                             *)

(* On every path of every tool, a handle is opened from one that is open,  *)
(* never a second time before it is closed, and closed once, after all     *)
(* that was opened from it; when a tool exits, nothing is left open and    *)
(* the library has been destroyed.                                         *)
HandlesNest ==
    /\ \A pair \in opened : pair[2] \in Handles \union {"process"}
    /\ Doing("open") => Step.from \in Handles
    /\ Doing("start") \/ Doing("open") => Step.handle \notin Handles
    /\ Doing("close") => Step.handle \in Handles
    /\ Exited => opened = {}

(* A tool that says it passed was refused nothing by the engine anywhere,  *)
(* however deep in its loops, apart from the Unreported calls.             *)
PassMeansComplete == Exited /\ Head(frames).clean => ~refused
=============================================================================
