-------------------------- MODULE PdfEngineProofs --------------------------
(***************************************************************************)
(* Proofs about the PDF tools over engine handles, for every number of     *)
(* pages, iterations, warm-ups and enumerated links and hits, and every    *)
(* answer of the engine.                                                   *)
(*                                                                         *)
(* Held annotates each label of each routine with the handles that are     *)
(* open there.  That the annotation fits a routine, step by step, is       *)
(* Sound, proved of every routine; CallsInv says of a run that each frame  *)
(* is where its routine's annotation says, that a caller waits for a       *)
(* routine with what that found open, and that a refusal is reported by a  *)
(* frame that has not returned yet.                                        *)
(***************************************************************************)
EXTENDS PdfEngineCalls, SequenceTheorems, TLAPS

(* Handles that may be open together, by the innermost of them.            *)
HoldNothing == {}
HoldLibrary == {<<"library", "process">>}
HoldOpened == HoldLibrary \union {<<"opened", "library">>}
HoldDocument == HoldLibrary \union {<<"document", "library">>}
HoldPage == HoldDocument \union {<<"page", "document">>}
HoldTextPage == HoldPage \union {<<"textPage", "page">>}
HoldSearch == HoldTextPage \union {<<"search", "textPage">>}
HoldBitmap == HoldPage \union {<<"bitmap", "library">>}
HoldBitmapText == HoldBitmap \union {<<"textPage", "page">>}
HoldA003 == HoldLibrary \union {<<"a003", "library">>}
HoldA011 == HoldA003 \union {<<"a011", "library">>}
HoldThree == HoldA011 \union {<<"a012", "library">>}
HoldWithoutA011 == HoldLibrary \union {<<"a012", "library">>}
HoldWithoutA003 == HoldWithoutA011 \union {<<"a011", "library">>}
HoldLinkPage == HoldThree \union {<<"page", "a003">>}
HoldSourcePage == HoldThree \union {<<"sourcePage", "a012">>}
HoldTargetPage == HoldSourcePage \union {<<"targetPage", "a012">>}
HoldSearchedPage == HoldThree \union {<<"page", "a011">>}
HoldSearchedText == HoldSearchedPage \union {<<"textPage", "page">>}
HoldPageSearch == HoldSearchedText \union {<<"search", "textPage">>}
HoldQtOpened == {<<"opened", "process">>}
HoldQtDocument == {<<"document", "process">>}
HoldQtSearch == HoldQtDocument \union {<<"search", "process">>}
HoldQtLinks == HoldQtDocument \union {<<"links", "process">>}
HoldQtA003 == {<<"a003", "process">>}
HoldQtA011 == HoldQtA003 \union {<<"a011", "process">>}
HoldQtThree == HoldQtA011 \union {<<"a012", "process">>}
HoldQtThreeLinks == HoldQtThree \union {<<"links", "process">>}
HoldQtThreeSearch == HoldQtThree \union {<<"search", "process">>}
HoldWriter == {<<"writer", "process">>}
HoldPainter == HoldWriter \union {<<"painter", "writer">>}

(* A routine that holds the same handles at each of its labels.            *)
Throughout(r, held) == [l \in DOMAIN Routine[r] \union {"end"} |-> held]

RunPdfiumWorkHolds ==
    [begin |-> HoldLibrary, count |-> HoldDocument, page |-> HoldDocument,
     bitmap |-> HoldPage, fill |-> HoldBitmap, render |-> HoldBitmap,
     textPage |-> HoldBitmap, chars |-> HoldBitmapText,
     closeText |-> HoldBitmapText, destroy |-> HoldBitmap,
     closePage |-> HoldPage, close |-> HoldDocument, end |-> HoldLibrary]

StressWorkerHolds ==
    [begin |-> HoldNothing, lifetime |-> HoldLibrary, task |-> HoldLibrary,
     work |-> HoldLibrary, destroy |-> HoldLibrary, end |-> HoldNothing]

OpenOnceHolds ==
    [begin |-> HoldLibrary, count |-> HoldOpened, close |-> HoldOpened,
     end |-> HoldLibrary]

ExtractAllPagesHolds ==
    [begin |-> HoldDocument, page |-> HoldDocument, textPage |-> HoldPage,
     text |-> HoldTextPage, closeText |-> HoldTextPage, closePage |-> HoldPage,
     end |-> HoldDocument]

SearchOnceHolds ==
    [begin |-> HoldDocument, page |-> HoldDocument, textPage |-> HoldPage,
     search |-> HoldTextPage, find |-> HoldSearch, closeSearch |-> HoldSearch,
     closeText |-> HoldTextPage, closePage |-> HoldPage,
     expected |-> HoldDocument, end |-> HoldDocument]

RenderOnceHolds ==
    [begin |-> HoldDocument, bitmap |-> HoldPage, valid |-> HoldBitmap,
     fill |-> HoldBitmap, draw |-> HoldBitmap, destroy |-> HoldBitmap,
     closePage |-> HoldPage, end |-> HoldDocument]

BenchHolds ==
    [begin |-> HoldNothing, start |-> HoldNothing, opening |-> HoldLibrary,
     load |-> HoldLibrary, range |-> HoldDocument, extract |-> HoldDocument,
     search |-> HoldDocument, render |-> HoldDocument, close |-> HoldDocument,
     destroy |-> HoldLibrary, end |-> HoldNothing]

SearchProbeHolds ==
    [begin |-> HoldNothing, start |-> HoldNothing, load |-> HoldLibrary,
     pages |-> HoldDocument, page |-> HoldDocument, textPage |-> HoldPage,
     search |-> HoldTextPage, find |-> HoldSearch, rect |-> HoldSearch,
     closeSearch |-> HoldSearch, closeText |-> HoldTextPage,
     closePage |-> HoldPage, count |-> HoldDocument,
     firstHit |-> HoldDocument, close |-> HoldDocument,
     destroy |-> HoldLibrary, end |-> HoldNothing]

PageTextHolds ==
    [begin |-> HoldPage, chars |-> HoldTextPage, text |-> HoldTextPage,
     close |-> HoldTextPage, end |-> HoldPage]

CollectLinksHolds ==
    [begin |-> HoldDocument, page |-> HoldDocument, link |-> HoldPage,
     read |-> HoldPage, close |-> HoldPage, end |-> HoldDocument]

RenderRequestHolds ==
    [begin |-> HoldDocument, page |-> HoldDocument, bitmap |-> HoldPage,
     valid |-> HoldBitmap, draw |-> HoldBitmap, destroy |-> HoldBitmap,
     closePage |-> HoldPage, end |-> HoldDocument]

ProbeHolds ==
    [begin |-> HoldNothing, start |-> HoldNothing, load |-> HoldLibrary,
     expected |-> HoldDocument, pages |-> HoldDocument, page |-> HoldDocument,
     label |-> HoldPage, text |-> HoldPage, closePage |-> HoldPage,
     labels |-> HoldDocument, bookmarks |-> HoldDocument,
     outline |-> HoldDocument, links |-> HoldDocument,
     linked |-> HoldDocument, render |-> HoldDocument, close |-> HoldDocument,
     destroy |-> HoldLibrary, end |-> HoldNothing]

SecurityProbeHolds ==
    [begin |-> HoldNothing, start |-> HoldNothing, load |-> HoldLibrary,
     loadError |-> HoldDocument, pages |-> HoldDocument,
     read |-> HoldDocument, labels |-> HoldDocument, close |-> HoldDocument,
     failedAs |-> HoldLibrary, assertions |-> HoldLibrary,
     destroy |-> HoldLibrary, end |-> HoldNothing]

CollectA003LinksHolds ==
    [begin |-> HoldThree, links |-> HoldLinkPage, rect |-> HoldLinkPage,
     convert |-> HoldLinkPage, target |-> HoldLinkPage,
     close |-> HoldLinkPage, count |-> HoldThree, end |-> HoldThree]

CollectA012DestinationsHolds ==
    [begin |-> HoldThree, links |-> HoldSourcePage,
     destination |-> HoldSourcePage, pageIndex |-> HoldSourcePage,
     location |-> HoldSourcePage, target |-> HoldSourcePage,
     convert |-> HoldTargetPage, closeTarget |-> HoldTargetPage,
     closeSource |-> HoldSourcePage, count |-> HoldThree, end |-> HoldThree]

SearchOneHolds ==
    [begin |-> HoldThree, textPage |-> HoldSearchedPage,
     search |-> HoldSearchedText, first |-> HoldPageSearch,
     dropSearch |-> HoldPageSearch, dropText |-> HoldSearchedText,
     dropPage |-> HoldSearchedPage, rects |-> HoldPageSearch,
     rect |-> HoldPageSearch, closeSearch |-> HoldPageSearch,
     closeText |-> HoldSearchedText, closePage |-> HoldSearchedPage,
     anyRect |-> HoldThree, end |-> HoldThree]

CoordinateProbeHolds ==
    [begin |-> HoldNothing, a003 |-> HoldLibrary, a011 |-> HoldA003,
     a012 |-> HoldA011, loaded |-> HoldThree, links |-> HoldThree,
     targets |-> HoldThree, searches |-> HoldThree, search |-> HoldThree,
     closeA003 |-> HoldThree, closeA011 |-> HoldWithoutA003,
     closeA012 |-> HoldWithoutA011, destroy |-> HoldLibrary,
     end |-> HoldNothing]

RenderOneHolds ==
    [begin |-> HoldPage, draw |-> HoldBitmap, save |-> HoldBitmap,
     close |-> HoldBitmap, end |-> HoldPage]

ContentProbeHolds ==
    [begin |-> HoldNothing, start |-> HoldNothing, readable |-> HoldLibrary,
     load |-> HoldLibrary, count |-> HoldDocument, page |-> HoldDocument,
     textPage |-> HoldPage, chars |-> HoldTextPage, search |-> HoldTextPage,
     find |-> HoldSearch, closeSearch |-> HoldSearch,
     closeText |-> HoldTextPage, renders |-> HoldPage, render |-> HoldPage,
     closePage |-> HoldPage, close |-> HoldDocument, destroy |-> HoldLibrary,
     end |-> HoldNothing]

RenderPageHolds ==
    [begin |-> HoldPage, draw |-> HoldBitmap, close |-> HoldBitmap,
     end |-> HoldPage]

FidelityProbeHolds ==
    [begin |-> HoldNothing, start |-> HoldNothing, load |-> HoldLibrary,
     count |-> HoldDocument, pages |-> HoldDocument, page |-> HoldDocument,
     renders |-> HoldPage, render |-> HoldPage, closePage |-> HoldPage,
     close |-> HoldDocument, destroy |-> HoldLibrary, end |-> HoldNothing]

QtOpenOnceHolds ==
    [begin |-> HoldNothing, create |-> HoldNothing, load |-> HoldQtOpened,
     drop |-> HoldQtOpened, end |-> HoldNothing]

QtSearchOnceHolds ==
    [begin |-> HoldQtDocument, hits |-> HoldQtSearch, drop |-> HoldQtSearch,
     end |-> HoldQtDocument]

QtBenchHolds ==
    [begin |-> HoldNothing, opening |-> HoldNothing, create |-> HoldNothing,
     load |-> HoldQtDocument, range |-> HoldQtDocument,
     extract |-> HoldQtDocument, search |-> HoldQtDocument,
     render |-> HoldQtDocument, drop |-> HoldQtDocument, end |-> HoldNothing]

QtStressHolds ==
    [begin |-> HoldNothing, create |-> HoldNothing, load |-> HoldQtDocument,
     render |-> HoldQtDocument, text |-> HoldQtDocument,
     drop |-> HoldQtDocument, end |-> HoldNothing]

QtCollectLinksHolds ==
    [begin |-> HoldQtDocument, pages |-> HoldQtLinks, rows |-> HoldQtLinks,
     drop |-> HoldQtLinks, end |-> HoldQtDocument]

QtProbeHolds ==
    [begin |-> HoldNothing, create |-> HoldNothing, load |-> HoldQtDocument,
     expected |-> HoldQtDocument, pages |-> HoldQtDocument,
     page |-> HoldQtDocument, labels |-> HoldQtDocument,
     outline |-> HoldQtDocument, links |-> HoldQtDocument,
     linked |-> HoldQtDocument, render |-> HoldQtDocument,
     drop |-> HoldQtDocument, end |-> HoldNothing]

QtSearchProbeHolds ==
    [begin |-> HoldNothing, create |-> HoldNothing, load |-> HoldQtDocument,
     timeout |-> HoldQtDocument, search |-> HoldQtDocument,
     settle |-> HoldQtSearch, rows |-> HoldQtSearch, count |-> HoldQtSearch,
     firstHit |-> HoldQtSearch, dropSearch |-> HoldQtSearch,
     drop |-> HoldQtDocument, end |-> HoldNothing]

QtSecurityProbeHolds ==
    [begin |-> HoldNothing, create |-> HoldNothing, load |-> HoldQtDocument,
     loadError |-> HoldQtDocument, pages |-> HoldQtDocument,
     read |-> HoldQtDocument, labels |-> HoldQtDocument,
     failedAs |-> HoldQtDocument, assertions |-> HoldQtDocument,
     drop |-> HoldQtDocument, end |-> HoldNothing]

QtLinksOfFirstPageHolds ==
    [begin |-> HoldQtThree, rows |-> HoldQtThreeLinks,
     count |-> HoldQtThreeLinks, drop |-> HoldQtThreeLinks, end |-> HoldQtThree]

QtSearchOneHolds ==
    [begin |-> HoldQtThree, settle |-> HoldQtThreeSearch,
     hit |-> HoldQtThreeSearch, size |-> HoldQtThreeSearch,
     rects |-> HoldQtThreeSearch, drop |-> HoldQtThreeSearch,
     end |-> HoldQtThree]

QtCoordinateProbeHolds ==
    [begin |-> HoldNothing, a003 |-> HoldNothing, load003 |-> HoldQtA003,
     a011 |-> HoldQtA003, load011 |-> HoldQtA011, a012 |-> HoldQtA011,
     load012 |-> HoldQtThree, loaded |-> HoldQtThree, links |-> HoldQtThree,
     targets |-> HoldQtThree, searches |-> HoldQtThree, search |-> HoldQtThree,
     drop012 |-> HoldQtThree, drop011 |-> HoldQtA011, drop003 |-> HoldQtA003,
     end |-> HoldNothing]

QtContentProbeHolds ==
    [begin |-> HoldNothing, create |-> HoldNothing, load |-> HoldQtDocument,
     count |-> HoldQtDocument, read |-> HoldQtDocument,
     search |-> HoldQtDocument, settle |-> HoldQtSearch,
     renders |-> HoldQtSearch, render |-> HoldQtSearch,
     dropSearch |-> HoldQtSearch, drop |-> HoldQtDocument, end |-> HoldNothing]

QtFidelityProbeHolds ==
    [begin |-> HoldNothing, create |-> HoldNothing, load |-> HoldQtDocument,
     count |-> HoldQtDocument, pages |-> HoldQtDocument,
     size |-> HoldQtDocument, renders |-> HoldQtDocument,
     render |-> HoldQtDocument, drop |-> HoldQtDocument, end |-> HoldNothing]

FixtureGeneratorHolds ==
    [begin |-> HoldNothing, fonts |-> HoldNothing, family |-> HoldNothing,
     writer |-> HoldNothing, layout |-> HoldWriter, painter |-> HoldWriter,
     draw |-> HoldPainter, finish |-> HoldPainter, drop |-> HoldWriter,
     end |-> HoldNothing]

Held ==
    [RunPdfiumWork |-> RunPdfiumWorkHolds,
     RunLifetime |-> Throughout("RunLifetime", HoldLibrary),
     StressWorker |-> StressWorkerHolds, OpenOnce |-> OpenOnceHolds,
     ExtractAllPages |-> ExtractAllPagesHolds, SearchOnce |-> SearchOnceHolds,
     RenderOnce |-> RenderOnceHolds,
     ExtractFirst |-> Throughout("ExtractFirst", HoldDocument),
     MeasureOpen |-> Throughout("MeasureOpen", HoldLibrary),
     MeasureExtract |-> Throughout("MeasureExtract", HoldDocument),
     MeasureSearch |-> Throughout("MeasureSearch", HoldDocument),
     MeasureRender |-> Throughout("MeasureRender", HoldDocument),
     Bench |-> BenchHolds, SearchProbe |-> SearchProbeHolds,
     PageText |-> PageTextHolds, CollectLinks |-> CollectLinksHolds,
     RenderRequest |-> RenderRequestHolds, Probe |-> ProbeHolds,
     SecurityProbe |-> SecurityProbeHolds,
     CollectA003Links |-> CollectA003LinksHolds,
     CollectA012Destinations |-> CollectA012DestinationsHolds,
     SearchOne |-> SearchOneHolds, CoordinateProbe |-> CoordinateProbeHolds,
     RenderOne |-> RenderOneHolds, ContentProbe |-> ContentProbeHolds,
     RenderPage |-> RenderPageHolds, FidelityProbe |-> FidelityProbeHolds,
     QtOpenOnce |-> QtOpenOnceHolds,
     QtExtract |-> Throughout("QtExtract", HoldQtDocument),
     QtSearchOnce |-> QtSearchOnceHolds,
     QtRenderOnce |-> Throughout("QtRenderOnce", HoldQtDocument),
     QtExtractFirst |-> Throughout("QtExtractFirst", HoldQtDocument),
     MeasureQtOpen |-> Throughout("MeasureQtOpen", HoldNothing),
     MeasureQtExtract |-> Throughout("MeasureQtExtract", HoldQtDocument),
     MeasureQtSearch |-> Throughout("MeasureQtSearch", HoldQtDocument),
     MeasureQtRender |-> Throughout("MeasureQtRender", HoldQtDocument),
     QtBench |-> QtBenchHolds, QtStress |-> QtStressHolds,
     QtCollectLinks |-> QtCollectLinksHolds, QtProbe |-> QtProbeHolds,
     QtSearchProbe |-> QtSearchProbeHolds,
     QtSecurityProbe |-> QtSecurityProbeHolds,
     QtLinksOfFirstPage |-> QtLinksOfFirstPageHolds,
     QtSearchOne |-> QtSearchOneHolds,
     QtCoordinateProbe |-> QtCoordinateProbeHolds,
     QtRenderOne |-> Throughout("QtRenderOne", HoldQtSearch),
     QtContentProbe |-> QtContentProbeHolds,
     QtRenderPage |-> Throughout("QtRenderPage", HoldQtDocument),
     QtFidelityProbe |-> QtFidelityProbeHolds,
     FixtureGenerator |-> FixtureGeneratorHolds]

(* What a routine finds open when it is called, and leaves open.           *)
Entry ==
    [RunPdfiumWork |-> HoldLibrary, RunLifetime |-> HoldLibrary,
     StressWorker |-> HoldNothing, OpenOnce |-> HoldLibrary,
     ExtractAllPages |-> HoldDocument, SearchOnce |-> HoldDocument,
     RenderOnce |-> HoldDocument, ExtractFirst |-> HoldDocument,
     MeasureOpen |-> HoldLibrary, MeasureExtract |-> HoldDocument,
     MeasureSearch |-> HoldDocument, MeasureRender |-> HoldDocument,
     Bench |-> HoldNothing, SearchProbe |-> HoldNothing, PageText |-> HoldPage,
     CollectLinks |-> HoldDocument, RenderRequest |-> HoldDocument,
     Probe |-> HoldNothing, SecurityProbe |-> HoldNothing,
     CollectA003Links |-> HoldThree, CollectA012Destinations |-> HoldThree,
     SearchOne |-> HoldThree, CoordinateProbe |-> HoldNothing,
     RenderOne |-> HoldPage, ContentProbe |-> HoldNothing, RenderPage |-> HoldPage,
     FidelityProbe |-> HoldNothing, QtOpenOnce |-> HoldNothing,
     QtExtract |-> HoldQtDocument, QtSearchOnce |-> HoldQtDocument,
     QtRenderOnce |-> HoldQtDocument, QtExtractFirst |-> HoldQtDocument,
     MeasureQtOpen |-> HoldNothing, MeasureQtExtract |-> HoldQtDocument,
     MeasureQtSearch |-> HoldQtDocument, MeasureQtRender |-> HoldQtDocument,
     QtBench |-> HoldNothing, QtStress |-> HoldNothing,
     QtCollectLinks |-> HoldQtDocument, QtProbe |-> HoldNothing,
     QtSearchProbe |-> HoldNothing, QtSecurityProbe |-> HoldNothing,
     QtLinksOfFirstPage |-> HoldQtThree, QtSearchOne |-> HoldQtThree,
     QtCoordinateProbe |-> HoldNothing, QtRenderOne |-> HoldQtSearch,
     QtContentProbe |-> HoldNothing, QtRenderPage |-> HoldQtDocument,
     QtFidelityProbe |-> HoldNothing, FixtureGenerator |-> HoldNothing]

(* Where a handle that could not be opened may be missing.                 *)
Unsure(r) ==
    CASE r = "CoordinateProbe" ->
            {"a011", "a012", "closeA003", "closeA011", "closeA012", "loaded"}
      [] r \in {"RenderOnce", "RenderRequest"} ->
            {"bitmap", "closePage", "destroy", "valid"}
      [] OTHER -> {}

(* What is certainly open where a handle may be missing.                   *)
Least(r) == IF r = "CoordinateProbe" THEN HoldLibrary ELSE Entry[r]

Sure(r, l) == l \notin Unsure(r)

With(held, h, from) == held \union {<<h, from>>}
Without(held, h) == {pair \in held : pair[1] # h}
Has(held, h) == \E pair \in held : pair[1] = h

(* Whatever is held was opened from something held.                        *)
RestsOn(held, base) == \A pair \in held : pair[2] = "process" \/ Has(base, pair[2])
Rooted(held) == RestsOn(held, held)

ProperLabels(r) ==
    /\ DOMAIN Held[r] = DOMAIN Routine[r] \union {"end"}
    /\ "begin" \in DOMAIN Routine[r] /\ "end" \notin DOMAIN Routine[r]
    /\ Held[r]["begin"] = Entry[r] /\ Held[r]["end"] = Entry[r]
    /\ Sure(r, "begin") /\ Sure(r, "end")

SoundHoldings(r) ==
    \A l \in DOMAIN Held[r] :
        IF Sure(r, l) THEN Rooted(Held[r][l])
        ELSE RestsOn(Held[r][l], Least(r)) /\ Least(r) \subseteq Held[r][l]

(* From label l the routine goes on to m with what it held.                *)
Keeps(r, l, m) ==
    /\ m \in DOMAIN Held[r]
    /\ Held[r][m] = Held[r][l]
    /\ Sure(r, m) => Sure(r, l)

(* What is done at label l is allowed by what is held there, and leads to  *)
(* labels at which that is held which then is.                             *)
SoundOpening(r, l, s, from) ==
    /\ IF Sure(r, l) THEN from = "process" \/ Has(Held[r][l], from)
       ELSE Has(Least(r), from)
    /\ ~Has(Held[r][l], s.handle)
    /\ s.ok \in DOMAIN Held[r]
    /\ Held[r][s.ok] = With(Held[r][l], s.handle, from)
    /\ Sure(r, s.ok) => Sure(r, l)

SoundOpen(r, l, s) ==
    /\ SoundOpening(r, l, s, s.from) /\ s.from # "process"
    /\ \/ Keeps(r, l, s.no)
       \/ s.no = s.ok /\ ~Sure(r, s.ok) /\ s.reports /\ Least(r) \subseteq Held[r][l]

SoundClose(r, l, s) ==
    /\ Has(Held[r][l], s.handle)
    /\ s.ok \in DOMAIN Held[r]
    /\ Held[r][s.ok] = Without(Held[r][l], s.handle)
    /\ Sure(r, s.ok) => Sure(r, l) \/ Held[r][s.ok] = Least(r)
    /\ ~Sure(r, l) => ~Has(Least(r), s.handle)

SoundBranch(r, l, s) ==
    /\ s.ok \in DOMAIN Held[r] /\ Held[r][s.ok] = Held[r][l]
    /\ Keeps(r, l, s.no)

SoundCall(r, l, s) ==
    /\ Sure(r, l)
    /\ s.routine \in DOMAIN Routine
    /\ Entry[s.routine] = Held[r][l]
    /\ Keeps(r, l, s.ok) /\ Keeps(r, l, s.no)

SoundStep(r, l, s) ==
    /\ s.does \in {"start", "open", "use", "close", "closeIfOpen", "each", "while",
                   "call", "ifClean"}
    /\ s.does = "start" => Sure(r, l) /\ SoundOpening(r, l, s, "process")
    /\ s.does = "open" => SoundOpen(r, l, s)
    /\ s.does \in {"use", "each", "while"} => Keeps(r, l, s.ok) /\ Keeps(r, l, s.no)
    /\ s.does = "close" => Sure(r, l) /\ SoundClose(r, l, s)
    /\ s.does = "closeIfOpen" => SoundClose(r, l, s)
    /\ s.does = "ifClean" => SoundBranch(r, l, s)
    /\ s.does = "call" => SoundCall(r, l, s)

SoundSteps(r) == \A l \in DOMAIN Routine[r] : SoundStep(r, l, Routine[r][l])

(* A failure is kept quiet only where a tool does not report it.           *)
Outspoken(r) ==
    \A l \in DOMAIN Routine[r] :
        LET s == Routine[r][l] IN
        s.does \in {"open", "use"} => s.reports \/ <<r, l>> \in Unreported

Sound(r) == ProperLabels(r) /\ SoundHoldings(r) /\ SoundSteps(r) /\ Outspoken(r)

(* What the tables say of a routine.                                       *)
Annotated(r, routine, held, entry, unsure) ==
    /\ Routine[r] = routine /\ Held[r] = held
    /\ Entry[r] = entry /\ Unsure(r) = unsure

-----------------------------------------------------------------------------

(* What is held after a handle is opened or closed.                        *)
LEMMA PdfHoldings ==
    /\ \A h : Has(HoldNothing, h) <=> h \in {}
    /\ \A h : Has(HoldLibrary, h) <=> h \in {"library"}
    /\ \A h : Has(HoldOpened, h) <=> h \in {"library", "opened"}
    /\ \A h : Has(HoldDocument, h) <=> h \in {"document", "library"}
    /\ \A h : Has(HoldPage, h) <=> h \in {"document", "library", "page"}
    /\ \A h : Has(HoldTextPage, h) <=>
           h \in {"document", "library", "page", "textPage"}
    /\ \A h : Has(HoldSearch, h) <=>
           h \in {"document", "library", "page", "search", "textPage"}
    /\ \A h : Has(HoldBitmap, h) <=>
           h \in {"bitmap", "document", "library", "page"}
    /\ \A h : Has(HoldBitmapText, h) <=>
           h \in {"bitmap", "document", "library", "page", "textPage"}
    /\ Rooted(HoldNothing)
    /\ Rooted(HoldLibrary)
    /\ Rooted(HoldOpened)
    /\ Rooted(HoldDocument)
    /\ Rooted(HoldPage)
    /\ Rooted(HoldTextPage)
    /\ Rooted(HoldSearch)
    /\ Rooted(HoldBitmap)
    /\ Rooted(HoldBitmapText)
    /\ With(HoldBitmap, "textPage", "page") = HoldBitmapText
    /\ With(HoldDocument, "page", "document") = HoldPage
    /\ With(HoldLibrary, "document", "library") = HoldDocument
    /\ With(HoldLibrary, "opened", "library") = HoldOpened
    /\ With(HoldPage, "bitmap", "library") = HoldBitmap
    /\ With(HoldPage, "textPage", "page") = HoldTextPage
    /\ With(HoldTextPage, "search", "textPage") = HoldSearch
    /\ With(HoldNothing, "library", "process") = HoldLibrary
    /\ Without(HoldBitmap, "bitmap") = HoldPage
    /\ Without(HoldBitmapText, "textPage") = HoldBitmap
    /\ Without(HoldDocument, "document") = HoldLibrary
    /\ Without(HoldLibrary, "library") = HoldNothing
    /\ Without(HoldOpened, "opened") = HoldLibrary
    /\ Without(HoldPage, "page") = HoldDocument
    /\ Without(HoldSearch, "search") = HoldTextPage
    /\ Without(HoldTextPage, "textPage") = HoldPage
BY DEF Has, With, Without, Rooted, RestsOn, HoldNothing, HoldLibrary, HoldOpened,
       HoldDocument, HoldPage, HoldTextPage, HoldSearch, HoldBitmap, HoldBitmapText

LEMMA CoordinateHoldings ==
    /\ \A h : Has(HoldNothing, h) <=> h \in {}
    /\ \A h : Has(HoldLibrary, h) <=> h \in {"library"}
    /\ \A h : Has(HoldA003, h) <=> h \in {"a003", "library"}
    /\ \A h : Has(HoldA011, h) <=> h \in {"a003", "a011", "library"}
    /\ \A h : Has(HoldThree, h) <=> h \in {"a003", "a011", "a012", "library"}
    /\ \A h : Has(HoldWithoutA011, h) <=> h \in {"a012", "library"}
    /\ \A h : Has(HoldWithoutA003, h) <=> h \in {"a011", "a012", "library"}
    /\ \A h : Has(HoldLinkPage, h) <=>
           h \in {"a003", "a011", "a012", "library", "page"}
    /\ \A h : Has(HoldSourcePage, h) <=>
           h \in {"a003", "a011", "a012", "library", "sourcePage"}
    /\ \A h : Has(HoldTargetPage, h) <=>
           h \in {"a003", "a011", "a012", "library", "sourcePage", "targetPage"}
    /\ \A h : Has(HoldSearchedPage, h) <=>
           h \in {"a003", "a011", "a012", "library", "page"}
    /\ \A h : Has(HoldSearchedText, h) <=>
           h \in {"a003", "a011", "a012", "library", "page", "textPage"}
    /\ \A h : Has(HoldPageSearch, h) <=>
           h \in {"a003", "a011", "a012", "library", "page", "search", "textPage"}
    /\ Rooted(HoldNothing)
    /\ Rooted(HoldLibrary)
    /\ Rooted(HoldA003)
    /\ Rooted(HoldA011)
    /\ Rooted(HoldThree)
    /\ Rooted(HoldWithoutA011)
    /\ Rooted(HoldWithoutA003)
    /\ Rooted(HoldLinkPage)
    /\ Rooted(HoldSourcePage)
    /\ Rooted(HoldTargetPage)
    /\ Rooted(HoldSearchedPage)
    /\ Rooted(HoldSearchedText)
    /\ Rooted(HoldPageSearch)
    /\ With(HoldA003, "a011", "library") = HoldA011
    /\ With(HoldA011, "a012", "library") = HoldThree
    /\ With(HoldLibrary, "a003", "library") = HoldA003
    /\ With(HoldSearchedPage, "textPage", "page") = HoldSearchedText
    /\ With(HoldSearchedText, "search", "textPage") = HoldPageSearch
    /\ With(HoldSourcePage, "targetPage", "a012") = HoldTargetPage
    /\ With(HoldThree, "page", "a003") = HoldLinkPage
    /\ With(HoldThree, "page", "a011") = HoldSearchedPage
    /\ With(HoldThree, "sourcePage", "a012") = HoldSourcePage
    /\ With(HoldNothing, "library", "process") = HoldLibrary
    /\ Without(HoldLibrary, "library") = HoldNothing
    /\ Without(HoldLinkPage, "page") = HoldThree
    /\ Without(HoldPageSearch, "search") = HoldSearchedText
    /\ Without(HoldSearchedPage, "page") = HoldThree
    /\ Without(HoldSearchedText, "textPage") = HoldSearchedPage
    /\ Without(HoldSourcePage, "sourcePage") = HoldThree
    /\ Without(HoldTargetPage, "targetPage") = HoldSourcePage
    /\ Without(HoldThree, "a003") = HoldWithoutA003
    /\ Without(HoldWithoutA003, "a011") = HoldWithoutA011
    /\ Without(HoldWithoutA011, "a012") = HoldLibrary
BY DEF Has, With, Without, Rooted, RestsOn, HoldNothing, HoldLibrary, HoldA003,
       HoldA011, HoldThree, HoldWithoutA011, HoldWithoutA003, HoldLinkPage,
       HoldSourcePage, HoldTargetPage, HoldSearchedPage, HoldSearchedText,
       HoldPageSearch

LEMMA QtHoldings ==
    /\ \A h : Has(HoldNothing, h) <=> h \in {}
    /\ \A h : Has(HoldQtOpened, h) <=> h \in {"opened"}
    /\ \A h : Has(HoldQtDocument, h) <=> h \in {"document"}
    /\ \A h : Has(HoldQtSearch, h) <=> h \in {"document", "search"}
    /\ \A h : Has(HoldQtLinks, h) <=> h \in {"document", "links"}
    /\ \A h : Has(HoldQtA003, h) <=> h \in {"a003"}
    /\ \A h : Has(HoldQtA011, h) <=> h \in {"a003", "a011"}
    /\ \A h : Has(HoldQtThree, h) <=> h \in {"a003", "a011", "a012"}
    /\ \A h : Has(HoldQtThreeLinks, h) <=>
           h \in {"a003", "a011", "a012", "links"}
    /\ \A h : Has(HoldQtThreeSearch, h) <=>
           h \in {"a003", "a011", "a012", "search"}
    /\ Rooted(HoldNothing)
    /\ Rooted(HoldQtOpened)
    /\ Rooted(HoldQtDocument)
    /\ Rooted(HoldQtSearch)
    /\ Rooted(HoldQtLinks)
    /\ Rooted(HoldQtA003)
    /\ Rooted(HoldQtA011)
    /\ Rooted(HoldQtThree)
    /\ Rooted(HoldQtThreeLinks)
    /\ Rooted(HoldQtThreeSearch)
    /\ With(HoldQtA003, "a011", "process") = HoldQtA011
    /\ With(HoldQtA011, "a012", "process") = HoldQtThree
    /\ With(HoldQtDocument, "links", "process") = HoldQtLinks
    /\ With(HoldQtDocument, "search", "process") = HoldQtSearch
    /\ With(HoldQtThree, "links", "process") = HoldQtThreeLinks
    /\ With(HoldQtThree, "search", "process") = HoldQtThreeSearch
    /\ With(HoldNothing, "a003", "process") = HoldQtA003
    /\ With(HoldNothing, "document", "process") = HoldQtDocument
    /\ With(HoldNothing, "opened", "process") = HoldQtOpened
    /\ Without(HoldQtA003, "a003") = HoldNothing
    /\ Without(HoldQtA011, "a011") = HoldQtA003
    /\ Without(HoldQtDocument, "document") = HoldNothing
    /\ Without(HoldQtLinks, "links") = HoldQtDocument
    /\ Without(HoldQtOpened, "opened") = HoldNothing
    /\ Without(HoldQtSearch, "search") = HoldQtDocument
    /\ Without(HoldQtThree, "a012") = HoldQtA011
    /\ Without(HoldQtThreeLinks, "links") = HoldQtThree
    /\ Without(HoldQtThreeSearch, "search") = HoldQtThree
BY DEF Has, With, Without, Rooted, RestsOn, HoldNothing, HoldQtOpened,
       HoldQtDocument, HoldQtSearch, HoldQtLinks, HoldQtA003, HoldQtA011,
       HoldQtThree, HoldQtThreeLinks, HoldQtThreeSearch

LEMMA WriterHoldings ==
    /\ \A h : Has(HoldNothing, h) <=> h \in {}
    /\ \A h : Has(HoldWriter, h) <=> h \in {"writer"}
    /\ \A h : Has(HoldPainter, h) <=> h \in {"painter", "writer"}
    /\ Rooted(HoldNothing)
    /\ Rooted(HoldWriter)
    /\ Rooted(HoldPainter)
    /\ With(HoldWriter, "painter", "writer") = HoldPainter
    /\ With(HoldNothing, "writer", "process") = HoldWriter
    /\ Without(HoldPainter, "painter") = HoldWriter
    /\ Without(HoldWriter, "writer") = HoldNothing
BY DEF Has, With, Without, Rooted, RestsOn, HoldNothing, HoldWriter, HoldPainter

(* Where a handle may be missing, what is open does not rest on it.        *)
LEMMA Slack ==
    /\ RestsOn(HoldA003, HoldLibrary) /\ HoldLibrary \subseteq HoldA003
    /\ RestsOn(HoldA011, HoldLibrary) /\ HoldLibrary \subseteq HoldA011
    /\ RestsOn(HoldBitmap, HoldDocument) /\ HoldDocument \subseteq HoldBitmap
    /\ RestsOn(HoldPage, HoldDocument) /\ HoldDocument \subseteq HoldPage
    /\ RestsOn(HoldThree, HoldLibrary) /\ HoldLibrary \subseteq HoldThree
    /\ RestsOn(HoldWithoutA003, HoldLibrary)
    /\ HoldLibrary \subseteq HoldWithoutA003
    /\ RestsOn(HoldWithoutA011, HoldLibrary)
    /\ HoldLibrary \subseteq HoldWithoutA011
BY PdfHoldings, CoordinateHoldings DEF RestsOn, HoldA003, HoldLibrary, HoldA011,
       HoldBitmap, HoldDocument, HoldPage, HoldThree, HoldWithoutA003,
       HoldWithoutA011

(* The routines of pdfium_stress.                                          *)
LEMMA StressRoutinesAreSound ==
    \A r \in {"RunPdfiumWork", "RunLifetime", "StressWorker"} : Sound(r)
<1> USE DEF Start, Open, Use, Quiet, Close, CloseIfOpen, Each, While, Call, IfClean
<1>1. Sound("RunPdfiumWork")
  <2>1. Annotated("RunPdfiumWork", RunPdfiumWork, RunPdfiumWorkHolds, HoldLibrary, {})
    BY DEF Annotated, Routine, Held, Entry, Unsure
  <2>2. /\ ProperLabels("RunPdfiumWork")
        /\ SoundHoldings("RunPdfiumWork")
        /\ Outspoken("RunPdfiumWork")
    BY <2>1, PdfHoldings DEF Annotated, ProperLabels, SoundHoldings, Outspoken,
       Unreported, Sure, RunPdfiumWork, RunPdfiumWorkHolds
  <2>3. SoundSteps("RunPdfiumWork")
    BY <2>1, PdfHoldings, SMTT(30) DEF Annotated, SoundSteps, SoundStep, SoundOpening,
       SoundOpen, SoundClose, SoundBranch, SoundCall, Keeps, Sure, RunPdfiumWork,
       RunPdfiumWorkHolds
  <2> QED
    BY <2>2, <2>3 DEF Sound
<1>2. Sound("RunLifetime")
  <2>1. Annotated("RunLifetime", RunLifetime,
                  Throughout("RunLifetime", HoldLibrary), HoldLibrary, {})
    BY DEF Annotated, Routine, Held, Entry, Unsure
  <2>2. /\ "RunPdfiumWork" \in DOMAIN Routine
        /\ Entry["RunPdfiumWork"] = HoldLibrary
    BY DEF Routine, Entry
  <2>3. /\ ProperLabels("RunLifetime")
        /\ SoundHoldings("RunLifetime")
        /\ Outspoken("RunLifetime")
    BY <2>1, PdfHoldings DEF Annotated, ProperLabels, SoundHoldings, Outspoken,
       Unreported, Sure, RunLifetime, Throughout
  <2>4. SoundSteps("RunLifetime")
    BY <2>1, <2>2, PdfHoldings DEF Annotated, SoundSteps, SoundStep, SoundOpening,
       SoundOpen, SoundClose, SoundBranch, SoundCall, Keeps, Sure, RunLifetime,
       Throughout
  <2> QED
    BY <2>3, <2>4 DEF Sound
<1>3. Sound("StressWorker")
  <2>1. Annotated("StressWorker", StressWorker, StressWorkerHolds, HoldNothing, {})
    BY DEF Annotated, Routine, Held, Entry, Unsure
  <2>2. /\ "RunLifetime" \in DOMAIN Routine
        /\ Entry["RunLifetime"] = HoldLibrary
        /\ "RunPdfiumWork" \in DOMAIN Routine
        /\ Entry["RunPdfiumWork"] = HoldLibrary
    BY DEF Routine, Entry
  <2>3. /\ ProperLabels("StressWorker")
        /\ SoundHoldings("StressWorker")
        /\ Outspoken("StressWorker")
    BY <2>1, PdfHoldings DEF Annotated, ProperLabels, SoundHoldings, Outspoken,
       Unreported, Sure, StressWorker, StressWorkerHolds
  <2>4. SoundSteps("StressWorker")
    BY <2>1, <2>2, PdfHoldings DEF Annotated, SoundSteps, SoundStep, SoundOpening,
       SoundOpen, SoundClose, SoundBranch, SoundCall, Keeps, Sure, StressWorker,
       StressWorkerHolds
  <2> QED
    BY <2>3, <2>4 DEF Sound
<1> QED
  BY <1>1, <1>2, <1>3

(* The routines of pdfium_bench.                                           *)
LEMMA BenchRoutinesAreSound ==
    \A r \in {"OpenOnce", "ExtractAllPages", "ExtractFirst", "SearchOnce",
          "RenderOnce", "MeasureOpen", "MeasureExtract", "MeasureSearch",
          "MeasureRender", "Bench"} : Sound(r)
<1> USE DEF Start, Open, Use, Quiet, Close, CloseIfOpen, Each, While, Call, IfClean
<1>1. Sound("OpenOnce")
  <2>1. Annotated("OpenOnce", OpenOnce, OpenOnceHolds, HoldLibrary, {})
    BY DEF Annotated, Routine, Held, Entry, Unsure
  <2>2. /\ ProperLabels("OpenOnce")
        /\ SoundHoldings("OpenOnce")
        /\ Outspoken("OpenOnce")
    BY <2>1, PdfHoldings DEF Annotated, ProperLabels, SoundHoldings, Outspoken,
       Unreported, Sure, OpenOnce, OpenOnceHolds
  <2>3. SoundSteps("OpenOnce")
    BY <2>1, PdfHoldings DEF Annotated, SoundSteps, SoundStep, SoundOpening,
       SoundOpen, SoundClose, SoundBranch, SoundCall, Keeps, Sure, OpenOnce,
       OpenOnceHolds
  <2> QED
    BY <2>2, <2>3 DEF Sound
<1>2. Sound("ExtractAllPages")
  <2>1. Annotated("ExtractAllPages", ExtractAllPages,
                  ExtractAllPagesHolds, HoldDocument, {})
    BY DEF Annotated, Routine, Held, Entry, Unsure
  <2>2. /\ ProperLabels("ExtractAllPages")
        /\ SoundHoldings("ExtractAllPages")
        /\ Outspoken("ExtractAllPages")
    BY <2>1, PdfHoldings DEF Annotated, ProperLabels, SoundHoldings, Outspoken,
       Unreported, Sure, ExtractAllPages, ExtractAllPagesHolds
  <2>3. SoundSteps("ExtractAllPages")
    BY <2>1, PdfHoldings DEF Annotated, SoundSteps, SoundStep, SoundOpening,
       SoundOpen, SoundClose, SoundBranch, SoundCall, Keeps, Sure, ExtractAllPages,
       ExtractAllPagesHolds
  <2> QED
    BY <2>2, <2>3 DEF Sound
<1>3. Sound("ExtractFirst")
  <2>1. Annotated("ExtractFirst", ExtractFirst("ExtractAllPages"),
                  Throughout("ExtractFirst", HoldDocument), HoldDocument, {})
    BY DEF Annotated, Routine, Held, Entry, Unsure
  <2>2. /\ "ExtractAllPages" \in DOMAIN Routine
        /\ Entry["ExtractAllPages"] = HoldDocument
    BY DEF Routine, Entry
  <2>3. /\ ProperLabels("ExtractFirst")
        /\ SoundHoldings("ExtractFirst")
        /\ Outspoken("ExtractFirst")
    BY <2>1, PdfHoldings DEF Annotated, ProperLabels, SoundHoldings, Outspoken,
       Unreported, Sure, ExtractFirst, Throughout
  <2>4. SoundSteps("ExtractFirst")
    BY <2>1, <2>2, PdfHoldings DEF Annotated, SoundSteps, SoundStep, SoundOpening,
       SoundOpen, SoundClose, SoundBranch, SoundCall, Keeps, Sure, ExtractFirst,
       Throughout
  <2> QED
    BY <2>3, <2>4 DEF Sound
<1>4. Sound("SearchOnce")
  <2>1. Annotated("SearchOnce", SearchOnce, SearchOnceHolds, HoldDocument, {})
    BY DEF Annotated, Routine, Held, Entry, Unsure
  <2>2. /\ ProperLabels("SearchOnce")
        /\ SoundHoldings("SearchOnce")
        /\ Outspoken("SearchOnce")
    BY <2>1, PdfHoldings DEF Annotated, ProperLabels, SoundHoldings, Outspoken,
       Unreported, Sure, SearchOnce, SearchOnceHolds
  <2>3. SoundSteps("SearchOnce")
    BY <2>1, PdfHoldings, SMTT(30) DEF Annotated, SoundSteps, SoundStep, SoundOpening,
       SoundOpen, SoundClose, SoundBranch, SoundCall, Keeps, Sure, SearchOnce,
       SearchOnceHolds
  <2> QED
    BY <2>2, <2>3 DEF Sound
<1>5. Sound("RenderOnce")
  <2>1. Annotated("RenderOnce", RenderOnce,
                  RenderOnceHolds, HoldDocument,
                  {"bitmap", "closePage", "destroy", "valid"})
    BY DEF Annotated, Routine, Held, Entry, Unsure
  <2>2. Least("RenderOnce") = HoldDocument
    BY <2>1 DEF Annotated, Least
  <2>3. /\ ProperLabels("RenderOnce")
        /\ SoundHoldings("RenderOnce")
        /\ Outspoken("RenderOnce")
    BY <2>1, <2>2, PdfHoldings, Slack DEF Annotated, ProperLabels, SoundHoldings,
       Outspoken, Unreported, Sure, RenderOnce, RenderOnceHolds
  <2>4. SoundSteps("RenderOnce")
    BY <2>1, <2>2, PdfHoldings, Slack DEF Annotated, SoundSteps, SoundStep,
       SoundOpening, SoundOpen, SoundClose, SoundBranch, SoundCall, Keeps, Sure,
       RenderOnce, RenderOnceHolds
  <2> QED
    BY <2>3, <2>4 DEF Sound
<1>6. Sound("MeasureOpen")
  <2>1. Annotated("MeasureOpen", Measure("OpenOnce", "OpenOnce"),
                  Throughout("MeasureOpen", HoldLibrary), HoldLibrary, {})
    BY DEF Annotated, Routine, Held, Entry, Unsure
  <2>2. "OpenOnce" \in DOMAIN Routine /\ Entry["OpenOnce"] = HoldLibrary
    BY DEF Routine, Entry
  <2>3. /\ ProperLabels("MeasureOpen")
        /\ SoundHoldings("MeasureOpen")
        /\ Outspoken("MeasureOpen")
    BY <2>1, PdfHoldings DEF Annotated, ProperLabels, SoundHoldings, Outspoken,
       Unreported, Sure, Measure, Throughout
  <2>4. SoundSteps("MeasureOpen")
    BY <2>1, <2>2, PdfHoldings DEF Annotated, SoundSteps, SoundStep, SoundOpening,
       SoundOpen, SoundClose, SoundBranch, SoundCall, Keeps, Sure, Measure, Throughout
  <2> QED
    BY <2>3, <2>4 DEF Sound
<1>7. Sound("MeasureExtract")
  <2>1. Annotated("MeasureExtract", Measure("ExtractFirst", "ExtractAllPages"),
                  Throughout("MeasureExtract", HoldDocument), HoldDocument, {})
    BY DEF Annotated, Routine, Held, Entry, Unsure
  <2>2. /\ "ExtractFirst" \in DOMAIN Routine
        /\ Entry["ExtractFirst"] = HoldDocument
        /\ "ExtractAllPages" \in DOMAIN Routine
        /\ Entry["ExtractAllPages"] = HoldDocument
    BY DEF Routine, Entry
  <2>3. /\ ProperLabels("MeasureExtract")
        /\ SoundHoldings("MeasureExtract")
        /\ Outspoken("MeasureExtract")
    BY <2>1, PdfHoldings DEF Annotated, ProperLabels, SoundHoldings, Outspoken,
       Unreported, Sure, Measure, Throughout
  <2>4. SoundSteps("MeasureExtract")
    BY <2>1, <2>2, PdfHoldings DEF Annotated, SoundSteps, SoundStep, SoundOpening,
       SoundOpen, SoundClose, SoundBranch, SoundCall, Keeps, Sure, Measure, Throughout
  <2> QED
    BY <2>3, <2>4 DEF Sound
<1>8. Sound("MeasureSearch")
  <2>1. Annotated("MeasureSearch", Measure("SearchOnce", "SearchOnce"),
                  Throughout("MeasureSearch", HoldDocument), HoldDocument, {})
    BY DEF Annotated, Routine, Held, Entry, Unsure
  <2>2. "SearchOnce" \in DOMAIN Routine /\ Entry["SearchOnce"] = HoldDocument
    BY DEF Routine, Entry
  <2>3. /\ ProperLabels("MeasureSearch")
        /\ SoundHoldings("MeasureSearch")
        /\ Outspoken("MeasureSearch")
    BY <2>1, PdfHoldings DEF Annotated, ProperLabels, SoundHoldings, Outspoken,
       Unreported, Sure, Measure, Throughout
  <2>4. SoundSteps("MeasureSearch")
    BY <2>1, <2>2, PdfHoldings DEF Annotated, SoundSteps, SoundStep, SoundOpening,
       SoundOpen, SoundClose, SoundBranch, SoundCall, Keeps, Sure, Measure, Throughout
  <2> QED
    BY <2>3, <2>4 DEF Sound
<1>9. Sound("MeasureRender")
  <2>1. Annotated("MeasureRender", Measure("RenderOnce", "RenderOnce"),
                  Throughout("MeasureRender", HoldDocument), HoldDocument, {})
    BY DEF Annotated, Routine, Held, Entry, Unsure
  <2>2. "RenderOnce" \in DOMAIN Routine /\ Entry["RenderOnce"] = HoldDocument
    BY DEF Routine, Entry
  <2>3. /\ ProperLabels("MeasureRender")
        /\ SoundHoldings("MeasureRender")
        /\ Outspoken("MeasureRender")
    BY <2>1, PdfHoldings DEF Annotated, ProperLabels, SoundHoldings, Outspoken,
       Unreported, Sure, Measure, Throughout
  <2>4. SoundSteps("MeasureRender")
    BY <2>1, <2>2, PdfHoldings DEF Annotated, SoundSteps, SoundStep, SoundOpening,
       SoundOpen, SoundClose, SoundBranch, SoundCall, Keeps, Sure, Measure, Throughout
  <2> QED
    BY <2>3, <2>4 DEF Sound
<1>10. Sound("Bench")
  <2>1. Annotated("Bench", Bench, BenchHolds, HoldNothing, {})
    BY DEF Annotated, Routine, Held, Entry, Unsure
  <2>2. /\ "MeasureOpen" \in DOMAIN Routine
        /\ Entry["MeasureOpen"] = HoldLibrary
        /\ "MeasureExtract" \in DOMAIN Routine
        /\ Entry["MeasureExtract"] = HoldDocument
        /\ "MeasureSearch" \in DOMAIN Routine
        /\ Entry["MeasureSearch"] = HoldDocument
        /\ "MeasureRender" \in DOMAIN Routine
        /\ Entry["MeasureRender"] = HoldDocument
    BY DEF Routine, Entry
  <2>3. ProperLabels("Bench") /\ SoundHoldings("Bench") /\ Outspoken("Bench")
    BY <2>1, PdfHoldings DEF Annotated, ProperLabels, SoundHoldings, Outspoken,
       Unreported, Sure, Bench, BenchHolds
  <2>4. SoundSteps("Bench")
    BY <2>1, <2>2, PdfHoldings, SMTT(30) DEF Annotated, SoundSteps, SoundStep,
       SoundOpening, SoundOpen, SoundClose, SoundBranch, SoundCall, Keeps, Sure,
       Bench, BenchHolds
  <2> QED
    BY <2>3, <2>4 DEF Sound
<1> QED
  BY <1>1, <1>2, <1>3, <1>4, <1>5, <1>6, <1>7, <1>8, <1>9, <1>10

(* The PDFium probes of whole documents.                                   *)
LEMMA ProbeRoutinesAreSound ==
    \A r \in {"SearchProbe", "PageText", "CollectLinks", "RenderRequest", "Probe",
          "SecurityProbe", "RenderPage", "FidelityProbe", "RenderOne",
          "ContentProbe"} : Sound(r)
<1> USE DEF Start, Open, Use, Quiet, Close, CloseIfOpen, Each, While, Call, IfClean
<1>1. Sound("SearchProbe")
  <2>1. Annotated("SearchProbe", SearchProbe, SearchProbeHolds, HoldNothing, {})
    BY DEF Annotated, Routine, Held, Entry, Unsure
  <2>2. /\ ProperLabels("SearchProbe")
        /\ SoundHoldings("SearchProbe")
        /\ Outspoken("SearchProbe")
    BY <2>1, PdfHoldings DEF Annotated, ProperLabels, SoundHoldings, Outspoken,
       Unreported, Sure, SearchProbe, SearchProbeHolds
  <2>3. SoundSteps("SearchProbe")
    BY <2>1, PdfHoldings, SMTT(30) DEF Annotated, SoundSteps, SoundStep, SoundOpening,
       SoundOpen, SoundClose, SoundBranch, SoundCall, Keeps, Sure, SearchProbe,
       SearchProbeHolds
  <2> QED
    BY <2>2, <2>3 DEF Sound
<1>2. Sound("PageText")
  <2>1. Annotated("PageText", PageText, PageTextHolds, HoldPage, {})
    BY DEF Annotated, Routine, Held, Entry, Unsure
  <2>2. /\ ProperLabels("PageText")
        /\ SoundHoldings("PageText")
        /\ Outspoken("PageText")
    BY <2>1, PdfHoldings DEF Annotated, ProperLabels, SoundHoldings, Outspoken,
       Unreported, Sure, PageText, PageTextHolds
  <2>3. SoundSteps("PageText")
    BY <2>1, PdfHoldings DEF Annotated, SoundSteps, SoundStep, SoundOpening,
       SoundOpen, SoundClose, SoundBranch, SoundCall, Keeps, Sure, PageText,
       PageTextHolds
  <2> QED
    BY <2>2, <2>3 DEF Sound
<1>3. Sound("CollectLinks")
  <2>1. Annotated("CollectLinks", CollectLinks, CollectLinksHolds, HoldDocument, {})
    BY DEF Annotated, Routine, Held, Entry, Unsure
  <2>2. /\ ProperLabels("CollectLinks")
        /\ SoundHoldings("CollectLinks")
        /\ Outspoken("CollectLinks")
    BY <2>1, PdfHoldings DEF Annotated, ProperLabels, SoundHoldings, Outspoken,
       Unreported, Sure, CollectLinks, CollectLinksHolds
  <2>3. SoundSteps("CollectLinks")
    BY <2>1, PdfHoldings DEF Annotated, SoundSteps, SoundStep, SoundOpening,
       SoundOpen, SoundClose, SoundBranch, SoundCall, Keeps, Sure, CollectLinks,
       CollectLinksHolds
  <2> QED
    BY <2>2, <2>3 DEF Sound
<1>4. Sound("RenderRequest")
  <2>1. Annotated("RenderRequest", RenderRequest,
                  RenderRequestHolds, HoldDocument,
                  {"bitmap", "closePage", "destroy", "valid"})
    BY DEF Annotated, Routine, Held, Entry, Unsure
  <2>2. Least("RenderRequest") = HoldDocument
    BY <2>1 DEF Annotated, Least
  <2>3. /\ ProperLabels("RenderRequest")
        /\ SoundHoldings("RenderRequest")
        /\ Outspoken("RenderRequest")
    BY <2>1, <2>2, PdfHoldings, Slack DEF Annotated, ProperLabels, SoundHoldings,
       Outspoken, Unreported, Sure, RenderRequest, RenderRequestHolds
  <2>4. SoundSteps("RenderRequest")
    BY <2>1, <2>2, PdfHoldings, Slack DEF Annotated, SoundSteps, SoundStep,
       SoundOpening, SoundOpen, SoundClose, SoundBranch, SoundCall, Keeps, Sure,
       RenderRequest, RenderRequestHolds
  <2> QED
    BY <2>3, <2>4 DEF Sound
<1>5. Sound("Probe")
  <2>1. Annotated("Probe", Probe, ProbeHolds, HoldNothing, {})
    BY DEF Annotated, Routine, Held, Entry, Unsure
  <2>2. /\ "PageText" \in DOMAIN Routine /\ Entry["PageText"] = HoldPage
        /\ "CollectLinks" \in DOMAIN Routine
        /\ Entry["CollectLinks"] = HoldDocument
        /\ "RenderRequest" \in DOMAIN Routine
        /\ Entry["RenderRequest"] = HoldDocument
    BY DEF Routine, Entry
  <2>3. ProperLabels("Probe") /\ SoundHoldings("Probe") /\ Outspoken("Probe")
    BY <2>1, PdfHoldings DEF Annotated, ProperLabels, SoundHoldings, Outspoken,
       Unreported, Sure, Probe, ProbeHolds
  <2>4. SoundSteps("Probe")
    BY <2>1, <2>2, PdfHoldings, SMTT(30) DEF Annotated, SoundSteps, SoundStep,
       SoundOpening, SoundOpen, SoundClose, SoundBranch, SoundCall, Keeps, Sure,
       Probe, ProbeHolds
  <2> QED
    BY <2>3, <2>4 DEF Sound
<1>6. Sound("SecurityProbe")
  <2>1. Annotated("SecurityProbe", SecurityProbe, SecurityProbeHolds, HoldNothing, {})
    BY DEF Annotated, Routine, Held, Entry, Unsure
  <2>2. /\ ProperLabels("SecurityProbe")
        /\ SoundHoldings("SecurityProbe")
        /\ Outspoken("SecurityProbe")
    BY <2>1, PdfHoldings DEF Annotated, ProperLabels, SoundHoldings, Outspoken,
       Unreported, Sure, SecurityProbe, SecurityProbeHolds
  <2>3. SoundSteps("SecurityProbe")
    BY <2>1, PdfHoldings, SMTT(30) DEF Annotated, SoundSteps, SoundStep, SoundOpening,
       SoundOpen, SoundClose, SoundBranch, SoundCall, Keeps, Sure, SecurityProbe,
       SecurityProbeHolds
  <2> QED
    BY <2>2, <2>3 DEF Sound
<1>7. Sound("RenderPage")
  <2>1. Annotated("RenderPage", RenderPage, RenderPageHolds, HoldPage, {})
    BY DEF Annotated, Routine, Held, Entry, Unsure
  <2>2. /\ ProperLabels("RenderPage")
        /\ SoundHoldings("RenderPage")
        /\ Outspoken("RenderPage")
    BY <2>1, PdfHoldings DEF Annotated, ProperLabels, SoundHoldings, Outspoken,
       Unreported, Sure, RenderPage, RenderPageHolds
  <2>3. SoundSteps("RenderPage")
    BY <2>1, PdfHoldings DEF Annotated, SoundSteps, SoundStep, SoundOpening,
       SoundOpen, SoundClose, SoundBranch, SoundCall, Keeps, Sure, RenderPage,
       RenderPageHolds
  <2> QED
    BY <2>2, <2>3 DEF Sound
<1>8. Sound("FidelityProbe")
  <2>1. Annotated("FidelityProbe", FidelityProbe, FidelityProbeHolds, HoldNothing, {})
    BY DEF Annotated, Routine, Held, Entry, Unsure
  <2>2. "RenderPage" \in DOMAIN Routine /\ Entry["RenderPage"] = HoldPage
    BY DEF Routine, Entry
  <2>3. /\ ProperLabels("FidelityProbe")
        /\ SoundHoldings("FidelityProbe")
        /\ Outspoken("FidelityProbe")
    BY <2>1, PdfHoldings DEF Annotated, ProperLabels, SoundHoldings, Outspoken,
       Unreported, Sure, FidelityProbe, FidelityProbeHolds
  <2>4. SoundSteps("FidelityProbe")
    BY <2>1, <2>2, PdfHoldings, SMTT(30) DEF Annotated, SoundSteps, SoundStep,
       SoundOpening, SoundOpen, SoundClose, SoundBranch, SoundCall, Keeps, Sure,
       FidelityProbe, FidelityProbeHolds
  <2> QED
    BY <2>3, <2>4 DEF Sound
<1>9. Sound("RenderOne")
  <2>1. Annotated("RenderOne", RenderOne, RenderOneHolds, HoldPage, {})
    BY DEF Annotated, Routine, Held, Entry, Unsure
  <2>2. /\ ProperLabels("RenderOne")
        /\ SoundHoldings("RenderOne")
        /\ Outspoken("RenderOne")
    BY <2>1, PdfHoldings DEF Annotated, ProperLabels, SoundHoldings, Outspoken,
       Unreported, Sure, RenderOne, RenderOneHolds
  <2>3. SoundSteps("RenderOne")
    BY <2>1, PdfHoldings DEF Annotated, SoundSteps, SoundStep, SoundOpening,
       SoundOpen, SoundClose, SoundBranch, SoundCall, Keeps, Sure, RenderOne,
       RenderOneHolds
  <2> QED
    BY <2>2, <2>3 DEF Sound
<1>10. Sound("ContentProbe")
  <2>1. Annotated("ContentProbe", ContentProbe, ContentProbeHolds, HoldNothing, {})
    BY DEF Annotated, Routine, Held, Entry, Unsure
  <2>2. "RenderOne" \in DOMAIN Routine /\ Entry["RenderOne"] = HoldPage
    BY DEF Routine, Entry
  <2>3. /\ ProperLabels("ContentProbe")
        /\ SoundHoldings("ContentProbe")
        /\ Outspoken("ContentProbe")
    BY <2>1, PdfHoldings DEF Annotated, ProperLabels, SoundHoldings, Outspoken,
       Unreported, Sure, ContentProbe, ContentProbeHolds
  <2>4. SoundSteps("ContentProbe")
    <3> USE <2>1, <2>2, PdfHoldings DEF Annotated, SoundStep, SoundOpening, SoundOpen,
           SoundClose, SoundBranch, SoundCall, Keeps, Sure, ContentProbe,
           ContentProbeHolds
    <3>1. SoundStep("ContentProbe", "begin", Routine["ContentProbe"]["begin"])
      BY SMTT(20)
    <3>2. SoundStep("ContentProbe", "start", Routine["ContentProbe"]["start"])
      BY SMTT(20)
    <3>3. SoundStep("ContentProbe", "readable", Routine["ContentProbe"]["readable"])
      BY SMTT(20)
    <3>4. SoundStep("ContentProbe", "load", Routine["ContentProbe"]["load"])
      BY SMTT(20)
    <3>5. SoundStep("ContentProbe", "count", Routine["ContentProbe"]["count"])
      BY SMTT(20)
    <3>6. SoundStep("ContentProbe", "page", Routine["ContentProbe"]["page"])
      BY SMTT(20)
    <3>7. SoundStep("ContentProbe", "textPage", Routine["ContentProbe"]["textPage"])
      BY SMTT(20)
    <3>8. SoundStep("ContentProbe", "search", Routine["ContentProbe"]["search"])
      BY SMTT(20)
    <3>9. SoundStep("ContentProbe", "find", Routine["ContentProbe"]["find"])
      BY SMTT(20)
    <3>10. SoundStep("ContentProbe", "closeSearch",
                     Routine["ContentProbe"]["closeSearch"])
      BY SMTT(20)
    <3>11. SoundStep("ContentProbe", "closeText", Routine["ContentProbe"]["closeText"])
      BY SMTT(20)
    <3>12. SoundStep("ContentProbe", "renders", Routine["ContentProbe"]["renders"])
      BY SMTT(20)
    <3>13. SoundStep("ContentProbe", "render", Routine["ContentProbe"]["render"])
      BY SMTT(20)
    <3>14. SoundStep("ContentProbe", "closePage", Routine["ContentProbe"]["closePage"])
      BY SMTT(20)
    <3>15. SoundStep("ContentProbe", "close", Routine["ContentProbe"]["close"])
      BY SMTT(20)
    <3>16. SoundStep("ContentProbe", "destroy", Routine["ContentProbe"]["destroy"])
      BY SMTT(20)
    <3>17. SoundStep("ContentProbe", "chars", Routine["ContentProbe"]["chars"])
      BY SMTT(20)
    <3> HIDE PdfHoldings DEF SoundStep, ContentProbeHolds
    <3> QED
      BY <3>1, <3>2, <3>3, <3>4, <3>5, <3>6, <3>7, <3>8, <3>9, <3>10, <3>11, <3>12,
         <3>13, <3>14, <3>15, <3>16, <3>17 DEF SoundSteps
  <2> QED
    BY <2>3, <2>4 DEF Sound
<1> QED
  BY <1>1, <1>2, <1>3, <1>4, <1>5, <1>6, <1>7, <1>8, <1>9, <1>10

(* The routines of pdfium_coordinate_probe.                                *)
LEMMA CoordinateRoutinesAreSound ==
    \A r \in {"CollectA003Links", "CollectA012Destinations", "SearchOne",
          "CoordinateProbe"} : Sound(r)
<1> USE DEF Start, Open, Use, Quiet, Close, CloseIfOpen, Each, While, Call, IfClean
<1>1. Sound("CollectA003Links")
  <2>1. Annotated("CollectA003Links", CollectA003Links,
                  CollectA003LinksHolds, HoldThree, {})
    BY DEF Annotated, Routine, Held, Entry, Unsure
  <2>2. /\ ProperLabels("CollectA003Links")
        /\ SoundHoldings("CollectA003Links")
        /\ Outspoken("CollectA003Links")
    BY <2>1, CoordinateHoldings DEF Annotated, ProperLabels, SoundHoldings, Outspoken,
       Unreported, Sure, CollectA003Links, CollectA003LinksHolds
  <2>3. SoundSteps("CollectA003Links")
    BY <2>1, CoordinateHoldings DEF Annotated, SoundSteps, SoundStep, SoundOpening,
       SoundOpen, SoundClose, SoundBranch, SoundCall, Keeps, Sure, CollectA003Links,
       CollectA003LinksHolds
  <2> QED
    BY <2>2, <2>3 DEF Sound
<1>2. Sound("CollectA012Destinations")
  <2>1. Annotated("CollectA012Destinations", CollectA012Destinations,
                  CollectA012DestinationsHolds, HoldThree, {})
    BY DEF Annotated, Routine, Held, Entry, Unsure
  <2>2. /\ ProperLabels("CollectA012Destinations")
        /\ SoundHoldings("CollectA012Destinations")
        /\ Outspoken("CollectA012Destinations")
    BY <2>1, CoordinateHoldings DEF Annotated, ProperLabels, SoundHoldings, Outspoken,
       Unreported, Sure, CollectA012Destinations, CollectA012DestinationsHolds
  <2>3. SoundSteps("CollectA012Destinations")
    BY <2>1, CoordinateHoldings DEF Annotated, SoundSteps, SoundStep, SoundOpening,
       SoundOpen, SoundClose, SoundBranch, SoundCall, Keeps, Sure,
       CollectA012Destinations, CollectA012DestinationsHolds
  <2> QED
    BY <2>2, <2>3 DEF Sound
<1>3. Sound("SearchOne")
  <2>1. Annotated("SearchOne", SearchOne, SearchOneHolds, HoldThree, {})
    BY DEF Annotated, Routine, Held, Entry, Unsure
  <2>2. /\ ProperLabels("SearchOne")
        /\ SoundHoldings("SearchOne")
        /\ Outspoken("SearchOne")
    BY <2>1, CoordinateHoldings DEF Annotated, ProperLabels, SoundHoldings, Outspoken,
       Unreported, Sure, SearchOne, SearchOneHolds
  <2>3. SoundSteps("SearchOne")
    BY <2>1, CoordinateHoldings, SMTT(30) DEF Annotated, SoundSteps, SoundStep,
       SoundOpening, SoundOpen, SoundClose, SoundBranch, SoundCall, Keeps, Sure,
       SearchOne, SearchOneHolds
  <2> QED
    BY <2>2, <2>3 DEF Sound
<1>4. Sound("CoordinateProbe")
  <2>1. Annotated("CoordinateProbe", CoordinateProbe,
                  CoordinateProbeHolds, HoldNothing,
                  {"a011", "a012", "closeA003", "closeA011", "closeA012", "loaded"})
    BY DEF Annotated, Routine, Held, Entry, Unsure
  <2>2. Least("CoordinateProbe") = HoldLibrary
    BY <2>1 DEF Annotated, Least
  <2>3. /\ "CollectA003Links" \in DOMAIN Routine
        /\ Entry["CollectA003Links"] = HoldThree
        /\ "CollectA012Destinations" \in DOMAIN Routine
        /\ Entry["CollectA012Destinations"] = HoldThree
        /\ "SearchOne" \in DOMAIN Routine /\ Entry["SearchOne"] = HoldThree
    BY DEF Routine, Entry
  <2>4. /\ ProperLabels("CoordinateProbe")
        /\ SoundHoldings("CoordinateProbe")
        /\ Outspoken("CoordinateProbe")
    BY <2>1, <2>2, CoordinateHoldings, Slack DEF Annotated, ProperLabels,
       SoundHoldings, Outspoken, Unreported, Sure, CoordinateProbe,
       CoordinateProbeHolds
  <2>5. SoundSteps("CoordinateProbe")
    BY <2>1, <2>2, <2>3, CoordinateHoldings, Slack, SMTT(30) DEF Annotated,
       SoundSteps, SoundStep, SoundOpening, SoundOpen, SoundClose, SoundBranch,
       SoundCall, Keeps, Sure, CoordinateProbe, CoordinateProbeHolds
  <2> QED
    BY <2>4, <2>5 DEF Sound
<1> QED
  BY <1>1, <1>2, <1>3, <1>4

(* The Qt benchmark and stress tool.                                       *)
LEMMA QtBenchRoutinesAreSound ==
    \A r \in {"QtOpenOnce", "QtExtract", "QtSearchOnce", "QtRenderOnce",
          "QtExtractFirst", "MeasureQtOpen", "MeasureQtExtract", "MeasureQtSearch",
          "MeasureQtRender", "QtBench", "QtStress"} : Sound(r)
<1> USE DEF Start, Open, Use, Quiet, Close, CloseIfOpen, Each, While, Call, IfClean
<1>1. Sound("QtOpenOnce")
  <2>1. Annotated("QtOpenOnce", QtOpenOnce, QtOpenOnceHolds, HoldNothing, {})
    BY DEF Annotated, Routine, Held, Entry, Unsure
  <2>2. /\ ProperLabels("QtOpenOnce")
        /\ SoundHoldings("QtOpenOnce")
        /\ Outspoken("QtOpenOnce")
    BY <2>1, QtHoldings DEF Annotated, ProperLabels, SoundHoldings, Outspoken,
       Unreported, Sure, QtOpenOnce, QtOpenOnceHolds
  <2>3. SoundSteps("QtOpenOnce")
    BY <2>1, QtHoldings DEF Annotated, SoundSteps, SoundStep, SoundOpening, SoundOpen,
       SoundClose, SoundBranch, SoundCall, Keeps, Sure, QtOpenOnce, QtOpenOnceHolds
  <2> QED
    BY <2>2, <2>3 DEF Sound
<1>2. Sound("QtExtract")
  <2>1. Annotated("QtExtract", QtExtract,
                  Throughout("QtExtract", HoldQtDocument), HoldQtDocument, {})
    BY DEF Annotated, Routine, Held, Entry, Unsure
  <2>2. /\ ProperLabels("QtExtract")
        /\ SoundHoldings("QtExtract")
        /\ Outspoken("QtExtract")
    BY <2>1, QtHoldings DEF Annotated, ProperLabels, SoundHoldings, Outspoken,
       Unreported, Sure, QtExtract, Throughout
  <2>3. SoundSteps("QtExtract")
    BY <2>1, QtHoldings DEF Annotated, SoundSteps, SoundStep, SoundOpening, SoundOpen,
       SoundClose, SoundBranch, SoundCall, Keeps, Sure, QtExtract, Throughout
  <2> QED
    BY <2>2, <2>3 DEF Sound
<1>3. Sound("QtSearchOnce")
  <2>1. Annotated("QtSearchOnce", QtSearchOnce, QtSearchOnceHolds, HoldQtDocument, {})
    BY DEF Annotated, Routine, Held, Entry, Unsure
  <2>2. /\ ProperLabels("QtSearchOnce")
        /\ SoundHoldings("QtSearchOnce")
        /\ Outspoken("QtSearchOnce")
    BY <2>1, QtHoldings DEF Annotated, ProperLabels, SoundHoldings, Outspoken,
       Unreported, Sure, QtSearchOnce, QtSearchOnceHolds
  <2>3. SoundSteps("QtSearchOnce")
    BY <2>1, QtHoldings DEF Annotated, SoundSteps, SoundStep, SoundOpening, SoundOpen,
       SoundClose, SoundBranch, SoundCall, Keeps, Sure, QtSearchOnce,
       QtSearchOnceHolds
  <2> QED
    BY <2>2, <2>3 DEF Sound
<1>4. Sound("QtRenderOnce")
  <2>1. Annotated("QtRenderOnce", QtRenderOnce,
                  Throughout("QtRenderOnce", HoldQtDocument), HoldQtDocument, {})
    BY DEF Annotated, Routine, Held, Entry, Unsure
  <2>2. /\ ProperLabels("QtRenderOnce")
        /\ SoundHoldings("QtRenderOnce")
        /\ Outspoken("QtRenderOnce")
    BY <2>1, QtHoldings DEF Annotated, ProperLabels, SoundHoldings, Outspoken,
       Unreported, Sure, QtRenderOnce, Throughout
  <2>3. SoundSteps("QtRenderOnce")
    BY <2>1, QtHoldings DEF Annotated, SoundSteps, SoundStep, SoundOpening, SoundOpen,
       SoundClose, SoundBranch, SoundCall, Keeps, Sure, QtRenderOnce, Throughout
  <2> QED
    BY <2>2, <2>3 DEF Sound
<1>5. Sound("QtExtractFirst")
  <2>1. Annotated("QtExtractFirst", ExtractFirst("QtExtract"),
                  Throughout("QtExtractFirst", HoldQtDocument), HoldQtDocument, {})
    BY DEF Annotated, Routine, Held, Entry, Unsure
  <2>2. "QtExtract" \in DOMAIN Routine /\ Entry["QtExtract"] = HoldQtDocument
    BY DEF Routine, Entry
  <2>3. /\ ProperLabels("QtExtractFirst")
        /\ SoundHoldings("QtExtractFirst")
        /\ Outspoken("QtExtractFirst")
    BY <2>1, QtHoldings DEF Annotated, ProperLabels, SoundHoldings, Outspoken,
       Unreported, Sure, ExtractFirst, Throughout
  <2>4. SoundSteps("QtExtractFirst")
    BY <2>1, <2>2, QtHoldings DEF Annotated, SoundSteps, SoundStep, SoundOpening,
       SoundOpen, SoundClose, SoundBranch, SoundCall, Keeps, Sure, ExtractFirst,
       Throughout
  <2> QED
    BY <2>3, <2>4 DEF Sound
<1>6. Sound("MeasureQtOpen")
  <2>1. Annotated("MeasureQtOpen", Measure("QtOpenOnce", "QtOpenOnce"),
                  Throughout("MeasureQtOpen", HoldNothing), HoldNothing, {})
    BY DEF Annotated, Routine, Held, Entry, Unsure
  <2>2. "QtOpenOnce" \in DOMAIN Routine /\ Entry["QtOpenOnce"] = HoldNothing
    BY DEF Routine, Entry
  <2>3. /\ ProperLabels("MeasureQtOpen")
        /\ SoundHoldings("MeasureQtOpen")
        /\ Outspoken("MeasureQtOpen")
    BY <2>1, PdfHoldings DEF Annotated, ProperLabels, SoundHoldings, Outspoken,
       Unreported, Sure, Measure, Throughout
  <2>4. SoundSteps("MeasureQtOpen")
    BY <2>1, <2>2, PdfHoldings DEF Annotated, SoundSteps, SoundStep, SoundOpening,
       SoundOpen, SoundClose, SoundBranch, SoundCall, Keeps, Sure, Measure, Throughout
  <2> QED
    BY <2>3, <2>4 DEF Sound
<1>7. Sound("MeasureQtExtract")
  <2>1. Annotated("MeasureQtExtract", Measure("QtExtractFirst", "QtExtract"),
                  Throughout("MeasureQtExtract", HoldQtDocument), HoldQtDocument, {})
    BY DEF Annotated, Routine, Held, Entry, Unsure
  <2>2. /\ "QtExtractFirst" \in DOMAIN Routine
        /\ Entry["QtExtractFirst"] = HoldQtDocument
        /\ "QtExtract" \in DOMAIN Routine /\ Entry["QtExtract"] = HoldQtDocument
    BY DEF Routine, Entry
  <2>3. /\ ProperLabels("MeasureQtExtract")
        /\ SoundHoldings("MeasureQtExtract")
        /\ Outspoken("MeasureQtExtract")
    BY <2>1, QtHoldings DEF Annotated, ProperLabels, SoundHoldings, Outspoken,
       Unreported, Sure, Measure, Throughout
  <2>4. SoundSteps("MeasureQtExtract")
    BY <2>1, <2>2, QtHoldings DEF Annotated, SoundSteps, SoundStep, SoundOpening,
       SoundOpen, SoundClose, SoundBranch, SoundCall, Keeps, Sure, Measure, Throughout
  <2> QED
    BY <2>3, <2>4 DEF Sound
<1>8. Sound("MeasureQtSearch")
  <2>1. Annotated("MeasureQtSearch", Measure("QtSearchOnce", "QtSearchOnce"),
                  Throughout("MeasureQtSearch", HoldQtDocument), HoldQtDocument, {})
    BY DEF Annotated, Routine, Held, Entry, Unsure
  <2>2. /\ "QtSearchOnce" \in DOMAIN Routine
        /\ Entry["QtSearchOnce"] = HoldQtDocument
    BY DEF Routine, Entry
  <2>3. /\ ProperLabels("MeasureQtSearch")
        /\ SoundHoldings("MeasureQtSearch")
        /\ Outspoken("MeasureQtSearch")
    BY <2>1, QtHoldings DEF Annotated, ProperLabels, SoundHoldings, Outspoken,
       Unreported, Sure, Measure, Throughout
  <2>4. SoundSteps("MeasureQtSearch")
    BY <2>1, <2>2, QtHoldings DEF Annotated, SoundSteps, SoundStep, SoundOpening,
       SoundOpen, SoundClose, SoundBranch, SoundCall, Keeps, Sure, Measure, Throughout
  <2> QED
    BY <2>3, <2>4 DEF Sound
<1>9. Sound("MeasureQtRender")
  <2>1. Annotated("MeasureQtRender", Measure("QtRenderOnce", "QtRenderOnce"),
                  Throughout("MeasureQtRender", HoldQtDocument), HoldQtDocument, {})
    BY DEF Annotated, Routine, Held, Entry, Unsure
  <2>2. /\ "QtRenderOnce" \in DOMAIN Routine
        /\ Entry["QtRenderOnce"] = HoldQtDocument
    BY DEF Routine, Entry
  <2>3. /\ ProperLabels("MeasureQtRender")
        /\ SoundHoldings("MeasureQtRender")
        /\ Outspoken("MeasureQtRender")
    BY <2>1, QtHoldings DEF Annotated, ProperLabels, SoundHoldings, Outspoken,
       Unreported, Sure, Measure, Throughout
  <2>4. SoundSteps("MeasureQtRender")
    BY <2>1, <2>2, QtHoldings DEF Annotated, SoundSteps, SoundStep, SoundOpening,
       SoundOpen, SoundClose, SoundBranch, SoundCall, Keeps, Sure, Measure, Throughout
  <2> QED
    BY <2>3, <2>4 DEF Sound
<1>10. Sound("QtBench")
  <2>1. Annotated("QtBench", QtBench, QtBenchHolds, HoldNothing, {})
    BY DEF Annotated, Routine, Held, Entry, Unsure
  <2>2. /\ "MeasureQtOpen" \in DOMAIN Routine
        /\ Entry["MeasureQtOpen"] = HoldNothing
        /\ "MeasureQtExtract" \in DOMAIN Routine
        /\ Entry["MeasureQtExtract"] = HoldQtDocument
        /\ "MeasureQtSearch" \in DOMAIN Routine
        /\ Entry["MeasureQtSearch"] = HoldQtDocument
        /\ "MeasureQtRender" \in DOMAIN Routine
        /\ Entry["MeasureQtRender"] = HoldQtDocument
    BY DEF Routine, Entry
  <2>3. /\ ProperLabels("QtBench")
        /\ SoundHoldings("QtBench")
        /\ Outspoken("QtBench")
    BY <2>1, QtHoldings DEF Annotated, ProperLabels, SoundHoldings, Outspoken,
       Unreported, Sure, QtBench, QtBenchHolds
  <2>4. SoundSteps("QtBench")
    BY <2>1, <2>2, QtHoldings, SMTT(30) DEF Annotated, SoundSteps, SoundStep,
       SoundOpening, SoundOpen, SoundClose, SoundBranch, SoundCall, Keeps, Sure,
       QtBench, QtBenchHolds
  <2> QED
    BY <2>3, <2>4 DEF Sound
<1>11. Sound("QtStress")
  <2>1. Annotated("QtStress", QtStress, QtStressHolds, HoldNothing, {})
    BY DEF Annotated, Routine, Held, Entry, Unsure
  <2>2. /\ ProperLabels("QtStress")
        /\ SoundHoldings("QtStress")
        /\ Outspoken("QtStress")
    BY <2>1, QtHoldings DEF Annotated, ProperLabels, SoundHoldings, Outspoken,
       Unreported, Sure, QtStress, QtStressHolds
  <2>3. SoundSteps("QtStress")
    BY <2>1, QtHoldings DEF Annotated, SoundSteps, SoundStep, SoundOpening, SoundOpen,
       SoundClose, SoundBranch, SoundCall, Keeps, Sure, QtStress, QtStressHolds
  <2> QED
    BY <2>2, <2>3 DEF Sound
<1> QED
  BY <1>1, <1>2, <1>3, <1>4, <1>5, <1>6, <1>7, <1>8, <1>9, <1>10, <1>11

(* The Qt probes and the fixture generator.                                *)
LEMMA QtProbeRoutinesAreSound ==
    \A r \in {"QtCollectLinks", "QtProbe", "QtSearchProbe", "QtSecurityProbe",
          "QtLinksOfFirstPage", "QtSearchOne", "QtCoordinateProbe", "QtRenderOne",
          "QtContentProbe", "QtRenderPage", "QtFidelityProbe", "FixtureGenerator"} :
          Sound(r)
<1> USE DEF Start, Open, Use, Quiet, Close, CloseIfOpen, Each, While, Call, IfClean
<1>1. Sound("QtCollectLinks")
  <2>1. Annotated("QtCollectLinks", QtCollectLinks,
                  QtCollectLinksHolds, HoldQtDocument, {})
    BY DEF Annotated, Routine, Held, Entry, Unsure
  <2>2. /\ ProperLabels("QtCollectLinks")
        /\ SoundHoldings("QtCollectLinks")
        /\ Outspoken("QtCollectLinks")
    BY <2>1, QtHoldings DEF Annotated, ProperLabels, SoundHoldings, Outspoken,
       Unreported, Sure, QtCollectLinks, QtCollectLinksHolds
  <2>3. SoundSteps("QtCollectLinks")
    BY <2>1, QtHoldings DEF Annotated, SoundSteps, SoundStep, SoundOpening, SoundOpen,
       SoundClose, SoundBranch, SoundCall, Keeps, Sure, QtCollectLinks,
       QtCollectLinksHolds
  <2> QED
    BY <2>2, <2>3 DEF Sound
<1>2. Sound("QtProbe")
  <2>1. Annotated("QtProbe", QtProbe, QtProbeHolds, HoldNothing, {})
    BY DEF Annotated, Routine, Held, Entry, Unsure
  <2>2. /\ "QtCollectLinks" \in DOMAIN Routine
        /\ Entry["QtCollectLinks"] = HoldQtDocument
        /\ "QtRenderOnce" \in DOMAIN Routine
        /\ Entry["QtRenderOnce"] = HoldQtDocument
    BY DEF Routine, Entry
  <2>3. /\ ProperLabels("QtProbe")
        /\ SoundHoldings("QtProbe")
        /\ Outspoken("QtProbe")
    BY <2>1, QtHoldings DEF Annotated, ProperLabels, SoundHoldings, Outspoken,
       Unreported, Sure, QtProbe, QtProbeHolds
  <2>4. SoundSteps("QtProbe")
    BY <2>1, <2>2, QtHoldings, SMTT(30) DEF Annotated, SoundSteps, SoundStep,
       SoundOpening, SoundOpen, SoundClose, SoundBranch, SoundCall, Keeps, Sure,
       QtProbe, QtProbeHolds
  <2> QED
    BY <2>3, <2>4 DEF Sound
<1>3. Sound("QtSearchProbe")
  <2>1. Annotated("QtSearchProbe", QtSearchProbe, QtSearchProbeHolds, HoldNothing, {})
    BY DEF Annotated, Routine, Held, Entry, Unsure
  <2>2. /\ ProperLabels("QtSearchProbe")
        /\ SoundHoldings("QtSearchProbe")
        /\ Outspoken("QtSearchProbe")
    BY <2>1, QtHoldings DEF Annotated, ProperLabels, SoundHoldings, Outspoken,
       Unreported, Sure, QtSearchProbe, QtSearchProbeHolds
  <2>3. SoundSteps("QtSearchProbe")
    BY <2>1, QtHoldings, SMTT(30) DEF Annotated, SoundSteps, SoundStep, SoundOpening,
       SoundOpen, SoundClose, SoundBranch, SoundCall, Keeps, Sure, QtSearchProbe,
       QtSearchProbeHolds
  <2> QED
    BY <2>2, <2>3 DEF Sound
<1>4. Sound("QtSecurityProbe")
  <2>1. Annotated("QtSecurityProbe", QtSecurityProbe,
                  QtSecurityProbeHolds, HoldNothing, {})
    BY DEF Annotated, Routine, Held, Entry, Unsure
  <2>2. /\ ProperLabels("QtSecurityProbe")
        /\ SoundHoldings("QtSecurityProbe")
        /\ Outspoken("QtSecurityProbe")
    BY <2>1, QtHoldings DEF Annotated, ProperLabels, SoundHoldings, Outspoken,
       Unreported, Sure, QtSecurityProbe, QtSecurityProbeHolds
  <2>3. SoundSteps("QtSecurityProbe")
    BY <2>1, QtHoldings, SMTT(30) DEF Annotated, SoundSteps, SoundStep, SoundOpening,
       SoundOpen, SoundClose, SoundBranch, SoundCall, Keeps, Sure, QtSecurityProbe,
       QtSecurityProbeHolds
  <2> QED
    BY <2>2, <2>3 DEF Sound
<1>5. Sound("QtLinksOfFirstPage")
  <2>1. Annotated("QtLinksOfFirstPage", QtLinksOfFirstPage,
                  QtLinksOfFirstPageHolds, HoldQtThree, {})
    BY DEF Annotated, Routine, Held, Entry, Unsure
  <2>2. /\ ProperLabels("QtLinksOfFirstPage")
        /\ SoundHoldings("QtLinksOfFirstPage")
        /\ Outspoken("QtLinksOfFirstPage")
    BY <2>1, QtHoldings DEF Annotated, ProperLabels, SoundHoldings, Outspoken,
       Unreported, Sure, QtLinksOfFirstPage, QtLinksOfFirstPageHolds
  <2>3. SoundSteps("QtLinksOfFirstPage")
    BY <2>1, QtHoldings DEF Annotated, SoundSteps, SoundStep, SoundOpening, SoundOpen,
       SoundClose, SoundBranch, SoundCall, Keeps, Sure, QtLinksOfFirstPage,
       QtLinksOfFirstPageHolds
  <2> QED
    BY <2>2, <2>3 DEF Sound
<1>6. Sound("QtSearchOne")
  <2>1. Annotated("QtSearchOne", QtSearchOne, QtSearchOneHolds, HoldQtThree, {})
    BY DEF Annotated, Routine, Held, Entry, Unsure
  <2>2. /\ ProperLabels("QtSearchOne")
        /\ SoundHoldings("QtSearchOne")
        /\ Outspoken("QtSearchOne")
    BY <2>1, QtHoldings DEF Annotated, ProperLabels, SoundHoldings, Outspoken,
       Unreported, Sure, QtSearchOne, QtSearchOneHolds
  <2>3. SoundSteps("QtSearchOne")
    BY <2>1, QtHoldings DEF Annotated, SoundSteps, SoundStep, SoundOpening, SoundOpen,
       SoundClose, SoundBranch, SoundCall, Keeps, Sure, QtSearchOne, QtSearchOneHolds
  <2> QED
    BY <2>2, <2>3 DEF Sound
<1>7. Sound("QtCoordinateProbe")
  <2>1. Annotated("QtCoordinateProbe", QtCoordinateProbe,
                  QtCoordinateProbeHolds, HoldNothing, {})
    BY DEF Annotated, Routine, Held, Entry, Unsure
  <2>2. /\ "QtLinksOfFirstPage" \in DOMAIN Routine
        /\ Entry["QtLinksOfFirstPage"] = HoldQtThree
        /\ "QtSearchOne" \in DOMAIN Routine
        /\ Entry["QtSearchOne"] = HoldQtThree
    BY DEF Routine, Entry
  <2>3. /\ ProperLabels("QtCoordinateProbe")
        /\ SoundHoldings("QtCoordinateProbe")
        /\ Outspoken("QtCoordinateProbe")
    BY <2>1, QtHoldings DEF Annotated, ProperLabels, SoundHoldings, Outspoken,
       Unreported, Sure, QtCoordinateProbe, QtCoordinateProbeHolds
  <2>4. SoundSteps("QtCoordinateProbe")
    BY <2>1, <2>2, QtHoldings, SMTT(30) DEF Annotated, SoundSteps, SoundStep,
       SoundOpening, SoundOpen, SoundClose, SoundBranch, SoundCall, Keeps, Sure,
       QtCoordinateProbe, QtCoordinateProbeHolds
  <2> QED
    BY <2>3, <2>4 DEF Sound
<1>8. Sound("QtRenderOne")
  <2>1. Annotated("QtRenderOne", QtRenderOne,
                  Throughout("QtRenderOne", HoldQtSearch), HoldQtSearch, {})
    BY DEF Annotated, Routine, Held, Entry, Unsure
  <2>2. /\ ProperLabels("QtRenderOne")
        /\ SoundHoldings("QtRenderOne")
        /\ Outspoken("QtRenderOne")
    BY <2>1, QtHoldings DEF Annotated, ProperLabels, SoundHoldings, Outspoken,
       Unreported, Sure, QtRenderOne, Throughout
  <2>3. SoundSteps("QtRenderOne")
    BY <2>1, QtHoldings DEF Annotated, SoundSteps, SoundStep, SoundOpening, SoundOpen,
       SoundClose, SoundBranch, SoundCall, Keeps, Sure, QtRenderOne, Throughout
  <2> QED
    BY <2>2, <2>3 DEF Sound
<1>9. Sound("QtContentProbe")
  <2>1. Annotated("QtContentProbe", QtContentProbe,
                  QtContentProbeHolds, HoldNothing, {})
    BY DEF Annotated, Routine, Held, Entry, Unsure
  <2>2. "QtRenderOne" \in DOMAIN Routine /\ Entry["QtRenderOne"] = HoldQtSearch
    BY DEF Routine, Entry
  <2>3. /\ ProperLabels("QtContentProbe")
        /\ SoundHoldings("QtContentProbe")
        /\ Outspoken("QtContentProbe")
    BY <2>1, QtHoldings DEF Annotated, ProperLabels, SoundHoldings, Outspoken,
       Unreported, Sure, QtContentProbe, QtContentProbeHolds
  <2>4. SoundSteps("QtContentProbe")
    BY <2>1, <2>2, QtHoldings, SMTT(30) DEF Annotated, SoundSteps, SoundStep,
       SoundOpening, SoundOpen, SoundClose, SoundBranch, SoundCall, Keeps, Sure,
       QtContentProbe, QtContentProbeHolds
  <2> QED
    BY <2>3, <2>4 DEF Sound
<1>10. Sound("QtRenderPage")
  <2>1. Annotated("QtRenderPage", QtRenderPage,
                  Throughout("QtRenderPage", HoldQtDocument), HoldQtDocument, {})
    BY DEF Annotated, Routine, Held, Entry, Unsure
  <2>2. /\ ProperLabels("QtRenderPage")
        /\ SoundHoldings("QtRenderPage")
        /\ Outspoken("QtRenderPage")
    BY <2>1, QtHoldings DEF Annotated, ProperLabels, SoundHoldings, Outspoken,
       Unreported, Sure, QtRenderPage, Throughout
  <2>3. SoundSteps("QtRenderPage")
    BY <2>1, QtHoldings DEF Annotated, SoundSteps, SoundStep, SoundOpening, SoundOpen,
       SoundClose, SoundBranch, SoundCall, Keeps, Sure, QtRenderPage, Throughout
  <2> QED
    BY <2>2, <2>3 DEF Sound
<1>11. Sound("QtFidelityProbe")
  <2>1. Annotated("QtFidelityProbe", QtFidelityProbe,
                  QtFidelityProbeHolds, HoldNothing, {})
    BY DEF Annotated, Routine, Held, Entry, Unsure
  <2>2. /\ "QtRenderPage" \in DOMAIN Routine
        /\ Entry["QtRenderPage"] = HoldQtDocument
    BY DEF Routine, Entry
  <2>3. /\ ProperLabels("QtFidelityProbe")
        /\ SoundHoldings("QtFidelityProbe")
        /\ Outspoken("QtFidelityProbe")
    BY <2>1, QtHoldings DEF Annotated, ProperLabels, SoundHoldings, Outspoken,
       Unreported, Sure, QtFidelityProbe, QtFidelityProbeHolds
  <2>4. SoundSteps("QtFidelityProbe")
    BY <2>1, <2>2, QtHoldings DEF Annotated, SoundSteps, SoundStep, SoundOpening,
       SoundOpen, SoundClose, SoundBranch, SoundCall, Keeps, Sure, QtFidelityProbe,
       QtFidelityProbeHolds
  <2> QED
    BY <2>3, <2>4 DEF Sound
<1>12. Sound("FixtureGenerator")
  <2>1. Annotated("FixtureGenerator", FixtureGenerator,
                  FixtureGeneratorHolds, HoldNothing, {})
    BY DEF Annotated, Routine, Held, Entry, Unsure
  <2>2. /\ ProperLabels("FixtureGenerator")
        /\ SoundHoldings("FixtureGenerator")
        /\ Outspoken("FixtureGenerator")
    BY <2>1, WriterHoldings DEF Annotated, ProperLabels, SoundHoldings, Outspoken,
       Unreported, Sure, FixtureGenerator, FixtureGeneratorHolds
  <2>3. SoundSteps("FixtureGenerator")
    BY <2>1, WriterHoldings DEF Annotated, SoundSteps, SoundStep, SoundOpening,
       SoundOpen, SoundClose, SoundBranch, SoundCall, Keeps, Sure, FixtureGenerator,
       FixtureGeneratorHolds
  <2> QED
    BY <2>2, <2>3 DEF Sound
<1> QED
  BY <1>1, <1>2, <1>3, <1>4, <1>5, <1>6, <1>7, <1>8, <1>9, <1>10, <1>11, <1>12

LEMMA EveryRoutineIsSound == \A r \in DOMAIN Routine : Sound(r)
<1>1. DOMAIN Routine =
        {"RunPdfiumWork", "RunLifetime", "StressWorker", "OpenOnce",
         "ExtractAllPages", "SearchOnce", "RenderOnce", "ExtractFirst",
         "MeasureOpen", "MeasureExtract", "MeasureSearch", "MeasureRender", "Bench",
         "SearchProbe", "PageText", "CollectLinks", "RenderRequest", "Probe",
         "SecurityProbe", "CollectA003Links", "CollectA012Destinations",
         "SearchOne", "CoordinateProbe", "RenderOne", "ContentProbe", "RenderPage",
         "FidelityProbe", "QtOpenOnce", "QtExtract", "QtSearchOnce", "QtRenderOnce",
         "QtExtractFirst", "MeasureQtOpen", "MeasureQtExtract", "MeasureQtSearch",
         "MeasureQtRender", "QtBench", "QtStress", "QtCollectLinks", "QtProbe",
         "QtSearchProbe", "QtSecurityProbe", "QtLinksOfFirstPage", "QtSearchOne",
         "QtCoordinateProbe", "QtRenderOne", "QtContentProbe", "QtRenderPage",
         "QtFidelityProbe", "FixtureGenerator"}
  BY DEF Routine
<1> QED
  BY <1>1, StressRoutinesAreSound, BenchRoutinesAreSound, ProbeRoutinesAreSound,
     CoordinateRoutinesAreSound, QtBenchRoutinesAreSound, QtProbeRoutinesAreSound

-----------------------------------------------------------------------------
(* The frames of a run, what is open below them, and what they report.     *)

Turns == UNION {[DOMAIN Routine[r] -> Nat] : r \in DOMAIN Routine}
Label == UNION {DOMAIN Held[r] : r \in DOMAIN Routine}
AllFrames == [in : DOMAIN Routine, at : Label, clean : BOOLEAN, turns : Turns]

Placed(f) == f.at \in DOMAIN Held[f.in]

(* What is open when f runs.                                               *)
IsHeld(f, open) ==
    /\ open \subseteq Held[f.in][f.at]
    /\ f.clean \/ Sure(f.in, f.at) => open = Held[f.in][f.at]
    /\ ~Sure(f.in, f.at) => Least(f.in) \subseteq open

(* f has called g and waits for it.                                        *)
Awaits(f, g) ==
    /\ f.at \in DOMAIN Routine[f.in]
    /\ StepAt(f).does = "call"
    /\ Entry[g.in] = Held[f.in][f.at]

FramesNest ==
    /\ \A i \in 1 .. Len(frames) : Placed(frames[i])
    /\ \A i \in 1 .. Len(frames) : i < Len(frames) => Awaits(frames[i + 1], frames[i])
    /\ frames # <<>> => Entry[frames[Len(frames)].in] = {}

(* A refusal is reported by a frame that has not returned yet.             *)
RefusalIsReported == refused => \E i \in 1 .. Len(frames) : ~frames[i].clean

CallsInv ==
    /\ frames \in Seq(AllFrames) /\ refused \in BOOLEAN
    /\ FramesNest
    /\ frames = <<>> => opened = {}
    /\ frames # <<>> => IsHeld(frames[1], opened)
    /\ RefusalIsReported

LEMMA FrameParts ==
    ASSUME CallsInv, frames # <<>>
    PROVE  /\ Len(frames) \in Nat \ {0} /\ 1 \in 1 .. Len(frames)
           /\ Head(frames) = frames[1] /\ frames[1] \in AllFrames
           /\ Placed(frames[1])
BY HeadTailProperties, EmptySeq, LenProperties DEF CallsInv, FramesNest

LEMMA RunningIsSound ==
    ASSUME NEW f \in AllFrames, Placed(f), f.at # "end"
    PROVE  /\ f.at \in DOMAIN Routine[f.in]
           /\ SoundStep(f.in, f.at, StepAt(f))
           /\ StepAt(f).does \in {"open", "use"}
                => StepAt(f).reports \/ <<f.in, f.at>> \in Unreported
<1>1. f.in \in DOMAIN Routine /\ Sound(f.in)
  BY EveryRoutineIsSound DEF AllFrames
<1>2. f.at \in DOMAIN Routine[f.in]
  BY <1>1 DEF Sound, ProperLabels, Placed
<1> QED
  BY <1>1, <1>2 DEF Sound, SoundSteps, Outspoken, StepAt

(* A frame that keeps what it held still has it open.                      *)
LEMMA KeptIsHeld ==
    ASSUME NEW f \in AllFrames, NEW g \in AllFrames, NEW open,
           Placed(f), IsHeld(f, open), g.in = f.in,
           Keeps(f.in, f.at, g.at), g.clean => f.clean
    PROVE  Placed(g) /\ IsHeld(g, open)
<1>1. Sound(f.in)
  BY EveryRoutineIsSound DEF AllFrames
<1>2. ~Sure(g.in, g.at) => Least(g.in) \subseteq Held[g.in][g.at]
  BY <1>1 DEF Sound, SoundHoldings, Keeps
<1> QED
  BY <1>2 DEF Placed, IsHeld, Keeps

(* A step of the routine that is running: its frame becomes g.             *)
LEMMA StepWithin ==
    ASSUME CallsInv, frames # <<>>, NEW g \in AllFrames,
           g.in = frames[1].in, Placed(g), IsHeld(g, opened'),
           frames' = [frames EXCEPT ![1] = g],
           g.clean => frames[1].clean,
           refused' \in BOOLEAN, refused' => refused \/ ~g.clean
    PROVE  CallsInv'
<1>1. /\ frames' \in Seq(AllFrames) /\ Len(frames') = Len(frames)
      /\ frames'[1] = g
      /\ \A i \in 1 .. Len(frames) : i > 1 => frames'[i] = frames[i]
  BY FrameParts, ExceptSeq DEF CallsInv
<1>2. Len(frames) \in Nat \ {0} /\ Len(<<>>) = 0
  BY FrameParts, EmptySeq
<1>3. frames' # <<>>
  BY <1>1, <1>2
<1>4. FramesNest'
  <2>1. \A i \in 1 .. Len(frames) : frames'[i].in = frames[i].in /\ Placed(frames'[i])
    BY <1>1 DEF CallsInv, FramesNest
  <2>2. \A i \in 1 .. Len(frames) :
           i < Len(frames) => frames'[i + 1] = frames[i + 1] /\ i + 1 \in 1 .. Len(frames)
    BY <1>1, <1>2
  <2>3. \A i \in 1 .. Len(frames) : i < Len(frames) => Awaits(frames'[i + 1], frames'[i])
    BY <2>1, <2>2 DEF CallsInv, FramesNest, Awaits
  <2>4. Len(frames) \in 1 .. Len(frames)
    BY <1>2
  <2>5. Entry[frames'[Len(frames')].in] = {}
    BY <1>1, <2>1, <2>4 DEF CallsInv, FramesNest
  <2> QED
    BY <1>1, <2>1, <2>3, <2>5 DEF FramesNest
<1>5. RefusalIsReported'
  <2>1. CASE ~g.clean
    BY <1>1, <1>2, <2>1 DEF RefusalIsReported
  <2>2. CASE g.clean
    <3>1. ASSUME refused PROVE \E i \in 1 .. Len(frames') : ~frames'[i].clean
      <4>1. PICK i \in 1 .. Len(frames) : ~frames[i].clean
        BY <3>1 DEF CallsInv, RefusalIsReported
      <4>2. i > 1
        BY <2>2, <4>1, <1>2
      <4> QED
        BY <1>1, <4>1, <4>2
    <3> QED
      BY <2>2, <3>1 DEF RefusalIsReported
  <2> QED
    BY <2>1, <2>2
<1> QED
  BY <1>1, <1>3, <1>4, <1>5 DEF CallsInv

(* The frame that goes on at label m.                                      *)
LEMMA GoingOn ==
    ASSUME CallsInv, frames # <<>>, NEW m, m \in DOMAIN Held[frames[1].in], GoTo(m)
    PROVE  \E g \in AllFrames :
             /\ frames' = [frames EXCEPT ![1] = g]
             /\ g.in = frames[1].in /\ g.at = m /\ g.clean = frames[1].clean
<1> DEFINE g == [frames[1] EXCEPT !.at = m]
<1>1. frames[1] \in AllFrames
  BY FrameParts
<1>2. m \in Label
  BY <1>1 DEF AllFrames, Label
<1>3. g \in AllFrames /\ g.in = frames[1].in /\ g.at = m /\ g.clean = frames[1].clean
  BY <1>1, <1>2 DEF AllFrames
<1>4. frames' = [frames EXCEPT ![1] = g]
  BY DEF GoTo
<1> QED
  BY <1>3, <1>4

(* What the kinds of step leave open.                                      *)
LEMMA OpeningIsHeld ==
    ASSUME NEW f \in AllFrames, NEW g \in AllFrames, NEW open, NEW s, NEW from,
           Placed(f), IsHeld(f, open), g.in = f.in,
           SoundOpening(f.in, f.at, s, from), g.at = s.ok, g.clean => f.clean
    PROVE  Placed(g) /\ IsHeld(g, open \union {<<s.handle, from>>})
<1>1. Sound(f.in)
  BY EveryRoutineIsSound DEF AllFrames
<1>2. Placed(g) /\ Held[g.in][g.at] = Held[f.in][f.at] \union {<<s.handle, from>>}
  BY DEF SoundOpening, Placed, With
<1>3. ~Sure(g.in, g.at) => Least(g.in) \subseteq Held[g.in][g.at]
  BY <1>1, <1>2 DEF Sound, SoundHoldings, Placed
<1> QED
  BY <1>2, <1>3 DEF IsHeld, SoundOpening

LEMMA MissedIsHeld ==
    ASSUME NEW f \in AllFrames, NEW g \in AllFrames, NEW open, NEW s,
           Placed(f), IsHeld(f, open), g.in = f.in,
           SoundOpen(f.in, f.at, s), g.at = s.no, g.clean => f.clean /\ ~s.reports
    PROVE  Placed(g) /\ IsHeld(g, open)
<1>1. CASE Keeps(f.in, f.at, s.no)
  BY <1>1, KeptIsHeld
<1>2. CASE /\ s.no = s.ok /\ ~Sure(f.in, s.ok) /\ s.reports
           /\ Least(f.in) \subseteq Held[f.in][f.at]
  <2>1. Placed(g) /\ Held[g.in][g.at] = Held[f.in][f.at] \union {<<s.handle, s.from>>}
    BY <1>2 DEF SoundOpen, SoundOpening, Placed, With
  <2>2. ~g.clean /\ ~Sure(g.in, g.at)
    BY <1>2
  <2>3. Least(g.in) \subseteq open
    BY <1>2 DEF IsHeld
  <2> QED
    BY <2>1, <2>2, <2>3 DEF IsHeld
<1> QED
  BY <1>1, <1>2 DEF SoundOpen

LEMMA ClosingIsHeld ==
    ASSUME NEW f \in AllFrames, NEW g \in AllFrames, NEW open, NEW s,
           Placed(f), IsHeld(f, open), g.in = f.in,
           SoundClose(f.in, f.at, s), g.at = s.ok, g.clean => f.clean
    PROVE  Placed(g) /\ IsHeld(g, {pair \in open : pair[1] # s.handle})
<1> DEFINE left == {pair \in open : pair[1] # s.handle}
<1>1. Sound(f.in)
  BY EveryRoutineIsSound DEF AllFrames
<1>2. /\ Placed(g)
      /\ Held[g.in][g.at] = {pair \in Held[f.in][f.at] : pair[1] # s.handle}
  BY DEF SoundClose, Placed, Without
<1>3. left \subseteq Held[g.in][g.at]
  BY <1>2 DEF IsHeld
<1>4. open = Held[f.in][f.at] => left = Held[g.in][g.at]
  BY <1>2
<1>5. ~Sure(f.in, f.at) => Least(f.in) \subseteq left
  BY DEF IsHeld, SoundClose, Has
<1>6. ~Sure(g.in, g.at) => Least(g.in) \subseteq Held[g.in][g.at]
  BY <1>1, <1>2 DEF Sound, SoundHoldings, Placed
<1>7. CASE Sure(f.in, f.at) \/ f.clean
  BY <1>2, <1>3, <1>4, <1>6, <1>7 DEF IsHeld
<1>8. CASE ~Sure(f.in, f.at) /\ ~f.clean
  <2>1. Sure(g.in, g.at) => left = Held[g.in][g.at]
    BY <1>3, <1>5, <1>8 DEF SoundClose
  <2> QED
    BY <1>2, <1>3, <1>5, <1>8, <2>1 DEF IsHeld
<1> QED
  BY <1>7, <1>8

-----------------------------------------------------------------------------

(* Every step of a tool keeps the invariant.                               *)
LEMMA ChangedFirst ==
    ASSUME NEW S, NEW n, NEW s \in [1 .. n -> S], NEW t, t = [i \in 1 .. n |-> t[i]],
           \A i \in 1 .. n : i # 1 => t[i] = s[i]
    PROVE  t = [s EXCEPT ![1] = t[1]]
OBVIOUS

LEMMA OpenHandleKept == CallsInv /\ OpenHandle => CallsInv'
<1> SUFFICES ASSUME CallsInv, OpenHandle PROVE CallsInv'
  OBVIOUS
<1> DEFINE f == frames[1]
           s == StepAt(f)
           from == IF s.does = "start" THEN "process" ELSE s.from
<1>1. /\ frames # <<>> /\ f \in AllFrames
      /\ Placed(f) /\ f.at # "end" /\ IsHeld(f, opened)
      /\ s.does \in {"start", "open"} /\ GoTo(s.ok) /\ UNCHANGED refused
      /\ opened' = opened \union {<<s.handle, from>>}
  BY FrameParts DEF OpenHandle, Doing, Running, Step, CallsInv
<1>2. SoundOpening(f.in, f.at, s, from)
  BY <1>1, RunningIsSound DEF SoundStep, SoundOpen
<1>3. PICK g \in AllFrames :
        /\ frames' = [frames EXCEPT ![1] = g]
        /\ g.in = f.in /\ g.at = s.ok /\ g.clean = f.clean
  BY <1>1, <1>2, GoingOn DEF SoundOpening
<1>4. g.in = f.in /\ g.at = s.ok /\ (g.clean => f.clean)
  BY <1>3
<1> HIDE DEF f, s, from
<1>5. Placed(g) /\ IsHeld(g, opened \union {<<s.handle, from>>})
  BY <1>1, <1>2, <1>4, OpeningIsHeld
<1>6. Placed(g) /\ IsHeld(g, opened')
  BY <1>1, <1>5
<1> QED
  BY <1>1, <1>3, <1>6, StepWithin DEF CallsInv, f

LEMMA SucceedKept == CallsInv /\ Succeed => CallsInv'
<1> SUFFICES ASSUME CallsInv, Succeed PROVE CallsInv'
  OBVIOUS
<1> DEFINE f == frames[1]
           s == StepAt(f)
<1>1. /\ frames # <<>> /\ f \in AllFrames
      /\ Placed(f) /\ f.at # "end" /\ IsHeld(f, opened)
      /\ s.does = "use" /\ GoTo(s.ok) /\ UNCHANGED <<opened, refused>>
  BY FrameParts DEF Succeed, Doing, Running, Step, CallsInv
<1>2. Keeps(f.in, f.at, s.ok)
  BY <1>1, RunningIsSound DEF SoundStep
<1>3. PICK g \in AllFrames :
        /\ frames' = [frames EXCEPT ![1] = g]
        /\ g.in = f.in /\ g.at = s.ok /\ g.clean = f.clean
  BY <1>1, <1>2, GoingOn DEF Keeps
<1>4. g.in = f.in /\ Keeps(f.in, f.at, g.at) /\ (g.clean => f.clean)
  BY <1>2, <1>3
<1>5. Placed(g) /\ IsHeld(g, opened)
  BY <1>1, <1>4, KeptIsHeld
<1>6. opened' = opened
  BY <1>1
<1>7. Placed(g) /\ IsHeld(g, opened')
  BY <1>5, <1>6
<1> QED
  BY <1>1, <1>3, <1>7, StepWithin DEF CallsInv

LEMMA MissKept == CallsInv /\ Miss => CallsInv'
<1> SUFFICES ASSUME CallsInv, Miss PROVE CallsInv'
  OBVIOUS
<1> DEFINE f == frames[1]
           s == StepAt(f)
           g == [f EXCEPT !.at = s.no, !.clean = @ /\ ~s.reports]
<1>1. /\ frames # <<>> /\ f \in AllFrames
      /\ Placed(f) /\ f.at # "end" /\ IsHeld(f, opened)
      /\ s.does \in {"open", "use"} /\ UNCHANGED opened
      /\ refused' = (refused \/ <<f.in, f.at>> \notin Unreported)
  BY FrameParts DEF Miss, Doing, Running, Step, CallsInv
<1>2. frames' = [frames EXCEPT ![1] = g]
  <2>1. frames \in [1 .. Len(frames) -> AllFrames] /\ 1 \in 1 .. Len(frames)
    BY <1>1, FrameParts, LenProperties DEF CallsInv
  <2>2. /\ frames' = [i \in 1 .. Len(frames) |-> frames'[i]]
        /\ \A i \in 1 .. Len(frames) : i # 1 => frames'[i] = frames[i]
    BY <2>1 DEF Miss
  <2>3. frames'[1] = g
    BY <1>1, <2>1, FrameParts DEF Miss, Step, AllFrames
  <2> QED
    BY <2>1, <2>2, <2>3, ChangedFirst
<1>3. SoundStep(f.in, f.at, s) /\ (s.reports \/ <<f.in, f.at>> \in Unreported)
  BY <1>1, RunningIsSound
<1>4. g.in = f.in /\ g.at = s.no /\ (g.clean <=> f.clean /\ ~s.reports)
  BY <1>1 DEF AllFrames
<1>5. s.no \in DOMAIN Held[f.in]
  BY <1>1, <1>3 DEF SoundStep, SoundOpen, SoundOpening, Keeps
<1>6. g \in AllFrames
  <2>1. s.no \in Label
    BY <1>1, <1>5 DEF AllFrames, Label
  <2>2. (f.clean /\ ~s.reports) \in BOOLEAN
    OBVIOUS
  <2> QED
    BY <1>1, <2>1, <2>2 DEF AllFrames
<1>7. Placed(g) /\ IsHeld(g, opened)
  <2>1. CASE s.does = "open"
    BY <1>1, <1>3, <1>4, <1>6, <2>1, MissedIsHeld DEF SoundStep
  <2>2. CASE s.does = "use"
    BY <1>1, <1>3, <1>4, <1>6, <2>2, KeptIsHeld DEF SoundStep
  <2> QED
    BY <1>1, <2>1, <2>2
<1>8. refused' \in BOOLEAN /\ (refused' => refused \/ ~g.clean)
  BY <1>1, <1>3, <1>4 DEF CallsInv
<1> HIDE DEF g
<1> QED
  BY <1>1, <1>2, <1>4, <1>6, <1>7, <1>8, StepWithin

LEMMA CloseHandleKept == CallsInv /\ CloseHandle => CallsInv'
<1> SUFFICES ASSUME CallsInv, CloseHandle PROVE CallsInv'
  OBVIOUS
<1> DEFINE f == frames[1]
           s == StepAt(f)
<1>1. /\ frames # <<>> /\ f \in AllFrames
      /\ Placed(f) /\ f.at # "end" /\ IsHeld(f, opened)
      /\ s.does \in {"close", "closeIfOpen"} /\ GoTo(s.ok) /\ UNCHANGED refused
      /\ opened' = {pair \in opened : pair[1] # s.handle}
  BY FrameParts DEF CloseHandle, Doing, Running, Step, CallsInv
<1>2. SoundClose(f.in, f.at, s)
  BY <1>1, RunningIsSound DEF SoundStep
<1>3. PICK g \in AllFrames :
        /\ frames' = [frames EXCEPT ![1] = g]
        /\ g.in = f.in /\ g.at = s.ok /\ g.clean = f.clean
  BY <1>1, <1>2, GoingOn DEF SoundClose
<1>4. g.in = f.in /\ g.at = s.ok /\ (g.clean => f.clean)
  BY <1>3
<1>5. Placed(g) /\ IsHeld(g, {pair \in opened : pair[1] # s.handle})
  BY <1>1, <1>2, <1>4, ClosingIsHeld
<1>6. Placed(g) /\ IsHeld(g, opened')
  BY <1>1, <1>5
<1> QED
  BY <1>1, <1>3, <1>6, StepWithin DEF CallsInv

LEMMA LoopKept == CallsInv /\ (TakeTurn \/ LeaveLoop) => CallsInv'
<1> SUFFICES ASSUME CallsInv, TakeTurn \/ LeaveLoop PROVE CallsInv'
  OBVIOUS
<1> DEFINE f == frames[1]
           s == StepAt(f)
           g == frames'[1]
<1>1. /\ frames # <<>> /\ f \in AllFrames
      /\ Placed(f) /\ f.at # "end" /\ IsHeld(f, opened)
      /\ s.does \in {"each", "while"} /\ UNCHANGED <<opened, refused>>
  BY FrameParts DEF TakeTurn, LeaveLoop, Doing, Running, Step, CallsInv
<1>2. frames \in [1 .. Len(frames) -> AllFrames] /\ 1 \in 1 .. Len(frames)
  BY <1>1, FrameParts, LenProperties DEF CallsInv
<1>3. /\ Keeps(f.in, f.at, s.ok) /\ Keeps(f.in, f.at, s.no)
      /\ s.ok \in Label /\ s.no \in Label
  BY <1>1, RunningIsSound DEF SoundStep, Keeps, AllFrames, Label
<1>4. frames' = [frames EXCEPT ![1] = g]
  <2>1. /\ frames' = [i \in 1 .. Len(frames) |-> frames'[i]]
        /\ \A i \in 1 .. Len(frames) : i # 1 => frames'[i] = frames[i]
    BY <1>2 DEF TakeTurn, LeaveLoop
  <2> QED
    BY <1>2, <2>1, ChangedFirst
<1>5. \E m \in {s.ok, s.no}, t \in Turns : g = [f EXCEPT !.at = m, !.turns = t]
  <2>1. \A n \in Nat : [f.turns EXCEPT ![f.at] = n] \in Turns
    BY <1>1 DEF AllFrames, Turns
  <2>2. f.turns \in Turns /\ (f.at \in DOMAIN f.turns => f.turns[f.at] \in Nat)
    BY <1>1 DEF AllFrames, Turns
  <2>3. CASE TakeTurn
    <3> DEFINE t == [f.turns EXCEPT ![f.at] = f.turns[f.at] + 1]
    <3>1. t \in Turns
      <4>1. CASE f.at \in DOMAIN f.turns
        BY <2>1, <2>2, <4>1
      <4>2. CASE f.at \notin DOMAIN f.turns
        <5>1. t = f.turns
          BY <2>2, <4>2 DEF Turns
        <5> QED
          BY <2>2, <5>1
      <4> QED
        BY <4>1, <4>2
    <3>2. g = [f EXCEPT !.at = s.ok, !.turns = t]
      BY <1>1, <1>2, <2>3, FrameParts DEF TakeTurn, Step, AllFrames
    <3> QED
      BY <3>1, <3>2
  <2>4. CASE LeaveLoop
    <3> DEFINE t == [f.turns EXCEPT ![f.at] = 0]
    <3>1. t \in Turns
      BY <2>1
    <3>2. g = [f EXCEPT !.at = s.no, !.turns = t]
      BY <1>1, <1>2, <2>4, FrameParts DEF LeaveLoop, Step, AllFrames
    <3> QED
      BY <3>1, <3>2
  <2> QED
    BY <2>3, <2>4
<1>6. PICK m \in {s.ok, s.no}, t \in Turns : g = [f EXCEPT !.at = m, !.turns = t]
  BY <1>5
<1>7. g \in AllFrames /\ g.in = f.in /\ g.at = m /\ g.clean = f.clean
  BY <1>1, <1>3, <1>6 DEF AllFrames
<1>8. Placed(g) /\ IsHeld(g, opened')
  BY <1>1, <1>3, <1>7, KeptIsHeld
<1> HIDE DEF g
<1> QED
  BY <1>1, <1>4, <1>7, <1>8, StepWithin DEF CallsInv

LEMMA BranchKept == CallsInv /\ Branch => CallsInv'
<1> SUFFICES ASSUME CallsInv, Branch PROVE CallsInv'
  OBVIOUS
<1> DEFINE f == frames[1]
           s == StepAt(f)
           m == IF f.clean THEN s.ok ELSE s.no
<1>1. /\ frames # <<>> /\ f \in AllFrames
      /\ Placed(f) /\ f.at # "end" /\ IsHeld(f, opened)
      /\ s.does = "ifClean" /\ GoTo(m) /\ UNCHANGED <<opened, refused>>
  BY FrameParts DEF Branch, Doing, Running, Step, CallsInv
<1>2. SoundBranch(f.in, f.at, s)
  BY <1>1, RunningIsSound DEF SoundStep
<1>3. m \in DOMAIN Held[f.in]
  BY <1>2 DEF SoundBranch, Keeps
<1>4. PICK g \in AllFrames :
        /\ frames' = [frames EXCEPT ![1] = g]
        /\ g.in = f.in /\ g.at = m /\ g.clean = f.clean
  BY <1>1, <1>3, GoingOn
<1>5. Placed(g) /\ IsHeld(g, opened')
  <2>1. CASE f.clean
    <3>1. Sound(f.in)
      BY <1>1, EveryRoutineIsSound DEF AllFrames
    <3>2. Placed(g) /\ Held[g.in][g.at] = Held[f.in][f.at]
      BY <1>2, <1>4, <2>1 DEF SoundBranch, Placed
    <3>3. ~Sure(g.in, g.at) => Least(g.in) \subseteq Held[g.in][g.at]
      BY <3>1, <3>2, <1>4 DEF Sound, SoundHoldings, Placed
    <3> QED
      BY <1>1, <2>1, <3>2, <3>3 DEF IsHeld
  <2>2. CASE ~f.clean
    BY <1>1, <1>2, <1>4, <2>2, KeptIsHeld DEF SoundBranch
  <2> QED
    BY <2>1, <2>2
<1> QED
  BY <1>1, <1>4, <1>5, StepWithin DEF CallsInv

LEMMA CallRoutineKept == CallsInv /\ CallRoutine => CallsInv'
<1> SUFFICES ASSUME CallsInv, CallRoutine PROVE CallsInv'
  OBVIOUS
<1> DEFINE f == frames[1]
           s == StepAt(f)
           g == Frame(s.routine)
           n == Len(frames)
<1>1. /\ frames # <<>> /\ f \in AllFrames
      /\ Placed(f) /\ f.at # "end" /\ IsHeld(f, opened)
      /\ s.does = "call" /\ UNCHANGED <<opened, refused>>
      /\ frames' = <<g>> \o frames
  BY FrameParts DEF CallRoutine, Doing, Running, Step, CallsInv
<1>2. SoundCall(f.in, f.at, s) /\ f.at \in DOMAIN Routine[f.in]
  BY <1>1, RunningIsSound DEF SoundStep
<1>3. Sound(s.routine)
  BY <1>2, EveryRoutineIsSound DEF SoundCall
<1>4. /\ g \in AllFrames /\ g.in = s.routine /\ g.at = "begin" /\ g.clean
      /\ Placed(g) /\ Held[g.in][g.at] = Entry[s.routine] /\ Sure(g.in, g.at)
  <2>1. "begin" \in DOMAIN Held[s.routine]
    BY <1>3 DEF Sound, ProperLabels
  <2>2. "begin" \in Label
    BY <1>2, <2>1 DEF Label, SoundCall
  <2>3. [l \in DOMAIN Routine[s.routine] |-> 0] \in Turns
    BY <1>2 DEF Turns, SoundCall
  <2> QED
    BY <1>2, <1>3, <2>1, <2>2, <2>3
       DEF Frame, AllFrames, Placed, Sound, ProperLabels, SoundCall
<1>5. IsHeld(g, opened')
  BY <1>1, <1>2, <1>4 DEF IsHeld, SoundCall
<1>6. Awaits(f, g)
  BY <1>1, <1>2, <1>4 DEF Awaits, SoundCall
<1> HIDE DEF g
<1>7. n \in Nat \ {0} /\ frames \in Seq(AllFrames)
  BY <1>1, FrameParts DEF CallsInv
<1>8. /\ frames' \in Seq(AllFrames) /\ Len(frames') = n + 1
      /\ frames'[1] = g
      /\ \A i \in 1 .. n : frames'[i + 1] = frames[i]
  BY <1>1, <1>4, <1>7
<1>9. frames' # <<>>
  BY <1>7, <1>8, EmptySeq
<1>10. FramesNest'
  <2>1. \A i \in 1 .. n + 1 : Placed(frames'[i])
    <3> TAKE i \in 1 .. n + 1
    <3>1. CASE i = 1
      BY <1>4, <1>8, <3>1
    <3>2. CASE i # 1
      <4>1. i - 1 \in 1 .. n /\ frames'[(i - 1) + 1] = frames[i - 1]
        BY <1>7, <1>8, <3>2
      <4>2. (i - 1) + 1 = i
        BY <1>7
      <4> QED
        BY <4>1, <4>2 DEF CallsInv, FramesNest
    <3> QED
      BY <3>1, <3>2
  <2>2. \A i \in 1 .. n + 1 : i < n + 1 => Awaits(frames'[i + 1], frames'[i])
    <3> SUFFICES ASSUME NEW i \in 1 .. n + 1, i < n + 1
                 PROVE  Awaits(frames'[i + 1], frames'[i])
      OBVIOUS
    <3>1. i \in 1 .. n /\ frames'[i + 1] = frames[i]
      BY <1>7, <1>8
    <3>2. CASE i = 1
      BY <1>6, <1>8, <3>1, <3>2
    <3>3. CASE i # 1
      <4>1. i - 1 \in 1 .. n /\ i - 1 < n /\ (i - 1) + 1 = i
        BY <1>7, <3>1, <3>3
      <4>2. frames'[i] = frames[i - 1]
        BY <1>8, <4>1
      <4>3. Awaits(frames[(i - 1) + 1], frames[i - 1])
        BY <4>1 DEF CallsInv, FramesNest
      <4> QED
        BY <3>1, <4>1, <4>2, <4>3
    <3> QED
      BY <3>2, <3>3
  <2>3. frames'[n + 1] = frames[n]
    BY <1>7, <1>8
  <2> QED
    BY <1>1, <1>8, <2>1, <2>2, <2>3 DEF CallsInv, FramesNest
<1>11. RefusalIsReported'
  <2> SUFFICES ASSUME refused PROVE \E i \in 1 .. Len(frames') : ~frames'[i].clean
    BY <1>1 DEF RefusalIsReported
  <2>1. PICK i \in 1 .. n : ~frames[i].clean
    BY DEF CallsInv, RefusalIsReported
  <2>2. i + 1 \in 1 .. n + 1 /\ ~frames'[i + 1].clean
    BY <1>7, <1>8, <2>1
  <2> QED
    BY <1>8, <2>2
<1> QED
  BY <1>1, <1>5, <1>8, <1>9, <1>10, <1>11 DEF CallsInv

(* A routine returns to the caller that awaits it, with what that held.    *)
LEMMA ReturnKept == CallsInv /\ Return => CallsInv'
<1> SUFFICES ASSUME CallsInv, Return PROVE CallsInv'
  OBVIOUS
<1> DEFINE f == frames[1]
           c == frames[2]
           next == IF f.clean THEN StepAt(c).ok ELSE StepAt(c).no
           rest == Tail(frames)
           g == frames'[1]
           n == Len(frames)
<1>1. n \in Nat /\ n > 1 /\ frames \in Seq(AllFrames) /\ frames # <<>>
  <2>1. frames \in Seq(AllFrames) /\ Len(frames) \in Nat /\ n > 1
    BY LenProperties DEF Return, Returned, CallsInv
  <2> QED
    BY <2>1, EmptySeq
<1>2. f \in AllFrames /\ c \in AllFrames /\ Head(frames) = f
  BY <1>1
<1>3. /\ Placed(f) /\ f.at = "end" /\ Placed(c) /\ Awaits(c, f)
      /\ IsHeld(f, opened) /\ UNCHANGED <<opened, refused>>
  BY <1>1, <1>2 DEF Return, Returned, CallsInv, FramesNest
<1>4. c.at # "end"
  <2>1. Sound(c.in)
    BY <1>2, EveryRoutineIsSound DEF AllFrames
  <2> QED
    BY <1>3, <2>1 DEF Awaits, Sound, ProperLabels
<1>5. SoundCall(c.in, c.at, StepAt(c))
  BY <1>2, <1>3, <1>4, RunningIsSound DEF SoundStep, Awaits
<1>6. opened = Held[c.in][c.at]
  <2>1. Sound(f.in)
    BY <1>2, EveryRoutineIsSound DEF AllFrames
  <2>2. Sure(f.in, f.at) /\ Held[f.in][f.at] = Entry[f.in]
    BY <1>3, <2>1 DEF Sound, ProperLabels
  <2> QED
    BY <1>3, <2>2 DEF IsHeld, Awaits
<1>7. IsHeld(c, opened)
  BY <1>5, <1>6 DEF IsHeld, SoundCall
<1>8. Keeps(c.in, c.at, next) /\ next \in Label
  BY <1>2, <1>5 DEF SoundCall, Keeps, Label, AllFrames
<1>9. /\ rest \in Seq(AllFrames) /\ Len(rest) = n - 1
      /\ \A i \in 1 .. n - 1 : rest[i] = frames[i + 1]
  BY <1>1
<1>10. rest \in [1 .. n - 1 -> AllFrames] /\ 1 \in 1 .. n - 1 /\ rest[1] = c
  <2>1. 1 \in 1 .. n - 1 /\ 1 + 1 = 2
    BY <1>1
  <2>2. rest[1] = c
    BY <1>9, <2>1
  <2>3. rest \in [1 .. n - 1 -> AllFrames]
    BY <1>9, LenProperties
  <2> QED
    BY <2>1, <2>2, <2>3
<1>11. /\ frames' = [i \in 1 .. n - 1 |-> frames'[i]]
       /\ \A i \in 1 .. n - 1 : i # 1 => frames'[i] = rest[i]
  BY <1>10 DEF Return
<1>12. g = [c EXCEPT !.at = next, !.clean = c.clean /\ f.clean]
  BY <1>2, <1>10 DEF Return, AllFrames
<1>13. /\ g \in AllFrames /\ g.in = c.in /\ g.at = next
       /\ g.clean <=> c.clean /\ f.clean
  <2>1. (c.clean /\ f.clean) \in BOOLEAN
    OBVIOUS
  <2> QED
    BY <1>2, <1>8, <1>12, <2>1 DEF AllFrames
<1>14. Placed(g) /\ IsHeld(g, opened)
  BY <1>2, <1>3, <1>7, <1>8, <1>13, KeptIsHeld
<1>15. IsHeld(g, opened')
  <2>1. opened' = opened
    BY <1>3
  <2> QED
    BY <1>14, <2>1
<1> HIDE DEF g
<1>16. /\ frames' \in Seq(AllFrames) /\ Len(frames') = n - 1 /\ frames'[1] = g
       /\ \A i \in 2 .. n - 1 : frames'[i] = frames[i + 1]
  <2>1. frames' \in [1 .. n - 1 -> AllFrames]
    BY <1>1, <1>9, <1>10, <1>11, <1>13 DEF g
  <2>2. frames' \in Seq(AllFrames) /\ Len(frames') = n - 1
    BY <1>1, <2>1
  <2> QED
    BY <1>1, <1>9, <1>11, <2>2 DEF g
<1>17. frames' # <<>>
  BY <1>1, <1>16, EmptySeq
<1>18. \A i \in 1 .. n - 1 : frames'[i].in = frames[i + 1].in /\ Placed(frames'[i])
  <2> TAKE i \in 1 .. n - 1
  <2>1. CASE i = 1
    BY <1>13, <1>14, <1>16, <2>1
  <2>2. CASE i # 1
    <3>1. i \in 2 .. n - 1 /\ i + 1 \in 1 .. n
      BY <1>1, <2>2
    <3> QED
      BY <1>16, <3>1 DEF CallsInv, FramesNest
  <2> QED
    BY <2>1, <2>2
<1>19. FramesNest'
  <2>1. \A i \in 1 .. n - 1 : i < n - 1 => Awaits(frames'[i + 1], frames'[i])
    <3> SUFFICES ASSUME NEW i \in 1 .. n - 1, i < n - 1
                 PROVE  Awaits(frames'[i + 1], frames'[i])
      OBVIOUS
    <3>1. /\ i + 1 \in 2 .. n - 1 /\ i + 1 \in 1 .. n /\ i + 1 < n
      BY <1>1
    <3>2. frames'[i + 1] = frames[(i + 1) + 1] /\ frames'[i].in = frames[i + 1].in
      BY <1>16, <1>18, <3>1
    <3>3. Awaits(frames[(i + 1) + 1], frames[i + 1])
      BY <3>1 DEF CallsInv, FramesNest
    <3> QED
      BY <3>2, <3>3 DEF Awaits
  <2>2. n - 1 \in 1 .. n - 1 /\ (n - 1) + 1 = n
    BY <1>1
  <2>3. frames'[n - 1].in = frames[n].in
    BY <1>18, <2>2
  <2> QED
    BY <1>1, <1>16, <1>18, <2>1, <2>3 DEF CallsInv, FramesNest
<1>20. RefusalIsReported'
  <2> SUFFICES ASSUME refused PROVE \E i \in 1 .. n - 1 : ~frames'[i].clean
    BY <1>3, <1>16 DEF RefusalIsReported
  <2>1. PICK i \in 1 .. n : ~frames[i].clean
    BY DEF CallsInv, RefusalIsReported
  <2>2. CASE i \in {1, 2}
    BY <1>1, <1>13, <1>16, <2>1, <2>2
  <2>3. CASE i \notin {1, 2}
    <3>1. i - 1 \in 2 .. n - 1 /\ i - 1 \in 1 .. n - 1 /\ (i - 1) + 1 = i
      BY <1>1, <2>3
    <3>2. frames'[i - 1] = frames[(i - 1) + 1]
      BY <1>16, <3>1
    <3> QED
      BY <2>1, <3>1, <3>2
  <2> QED
    BY <2>2, <2>3
<1> QED
  BY <1>3, <1>15, <1>16, <1>17, <1>19, <1>20 DEF CallsInv

(* The tools begin with nothing open.                                      *)
LEMMA ToolsBeginWithNothing ==
    \A t \in Tools : t \in DOMAIN Routine /\ Entry[t] = {}
BY DEF Tools, Routine, Entry, HoldNothing

LEMMA CallsStart == CallsInit \/ CallsIdle => CallsInv
<1>1. ASSUME CallsIdle PROVE CallsInv
  <2>1. frames = <<>> /\ opened = {} /\ refused = FALSE
    BY <1>1 DEF CallsIdle
  <2>2. frames \in Seq(AllFrames) /\ Len(frames) = 0
    BY <2>1, EmptySeq
  <2>3. FramesNest
    BY <2>1, <2>2 DEF FramesNest
  <2> QED
    BY <2>1, <2>2, <2>3 DEF CallsInv, RefusalIsReported
<1>2. ASSUME CallsInit PROVE CallsInv
  <2>1. PICK t \in Tools : frames = <<Frame(t)>>
    BY <1>2 DEF CallsInit
  <2>2. opened = {} /\ refused = FALSE
    BY <1>2 DEF CallsInit
  <2> DEFINE g == Frame(t)
  <2>3. t \in DOMAIN Routine /\ Entry[t] = {} /\ Sound(t)
    BY ToolsBeginWithNothing, EveryRoutineIsSound
  <2>4. /\ "begin" \in DOMAIN Held[t] /\ "begin" \in Label
        /\ Held[t]["begin"] = {} /\ Sure(t, "begin")
    BY <2>3 DEF Sound, ProperLabels, Label
  <2>5. [l \in DOMAIN Routine[t] |-> 0] \in Turns
    BY <2>3 DEF Turns
  <2>6. g \in AllFrames /\ g.in = t /\ g.at = "begin"
    BY <2>3, <2>4, <2>5 DEF Frame, AllFrames
  <2> HIDE DEF g
  <2>7. /\ frames \in Seq(AllFrames) /\ Len(frames) = 1 /\ frames[1] = g /\ frames # <<>>
    BY <2>1, <2>6, EmptySeq DEF g
  <2>8. Placed(g) /\ IsHeld(g, opened)
    BY <2>2, <2>4, <2>6 DEF Placed, IsHeld
  <2>9. FramesNest
    BY <2>3, <2>6, <2>7, <2>8 DEF FramesNest
  <2> QED
    BY <2>2, <2>7, <2>8, <2>9 DEF CallsInv, RefusalIsReported
<1> QED
  BY <1>1, <1>2

LEMMA CallsStep == CallsInv /\ [CallsNext]_callVars => CallsInv'
<1> SUFFICES ASSUME CallsInv, [CallsNext]_callVars PROVE CallsInv'
  OBVIOUS
<1>1. CASE CallsNext
  BY <1>1, OpenHandleKept, SucceedKept, MissKept, CloseHandleKept, LoopKept,
     BranchKept, CallRoutineKept, ReturnKept DEF CallsNext
<1>2. CASE UNCHANGED callVars
  BY <1>2 DEF callVars, CallsInv, FramesNest, RefusalIsReported
<1> QED
  BY <1>1, <1>2

LEMMA HasIsHandle == \A h : Has(opened, h) <=> h \in Handles
BY DEF Has, Handles

LEMMA CallsInvNests == CallsInv => HandlesNest
<1> SUFFICES ASSUME CallsInv PROVE HandlesNest
  OBVIOUS
<1> DEFINE f == frames[1]
           s == StepAt(f)
           held == Held[f.in][f.at]
<1>1. CASE frames = <<>>
  BY <1>1, EmptySeq DEF CallsInv, HandlesNest, Doing, Running, Exited
<1>2. CASE frames # <<>>
  <2>1. /\ f \in AllFrames /\ Placed(f) /\ Head(frames) = f /\ IsHeld(f, opened)
        /\ Sound(f.in) /\ Step = s
    BY <1>2, FrameParts, EveryRoutineIsSound DEF CallsInv, AllFrames, Step
  <2>2. opened \subseteq held /\ (Sure(f.in, f.at) => opened = held)
    BY <2>1 DEF IsHeld
  <2>3. ~Sure(f.in, f.at) => Least(f.in) \subseteq opened
    BY <2>1 DEF IsHeld
  <2>4. \A pair \in opened : pair[2] \in Handles \union {"process"}
    <3>1. CASE Sure(f.in, f.at)
      <4>1. Rooted(opened)
        BY <2>1, <2>2, <3>1 DEF Sound, SoundHoldings, Placed
      <4> QED
        BY <4>1, HasIsHandle DEF Rooted, RestsOn
    <3>2. CASE ~Sure(f.in, f.at)
      <4>1. RestsOn(held, Least(f.in))
        BY <2>1, <3>2 DEF Sound, SoundHoldings, Placed
      <4>2. \A pair \in opened : pair[2] = "process" \/ Has(opened, pair[2])
        BY <2>2, <2>3, <3>2, <4>1 DEF RestsOn, Has
      <4> QED
        BY <4>2, HasIsHandle
    <3> QED
      BY <3>1, <3>2
  <2>5. Running => SoundStep(f.in, f.at, s)
    BY <2>1, RunningIsSound DEF Running
  <2>6. Doing("open") => s.from \in Handles /\ s.handle \notin Handles
    <3> SUFFICES ASSUME Doing("open") PROVE s.from \in Handles /\ s.handle \notin Handles
      OBVIOUS
    <3>1. SoundOpening(f.in, f.at, s, s.from) /\ s.from # "process"
      BY <2>1, <2>5 DEF Doing, SoundStep, SoundOpen
    <3>2. Has(opened, s.from)
      BY <2>2, <2>3, <3>1 DEF SoundOpening, Has
    <3>3. ~Has(opened, s.handle)
      BY <2>2, <3>1 DEF SoundOpening, Has
    <3> QED
      BY <3>2, <3>3, HasIsHandle
  <2>7. Doing("start") => s.handle \notin Handles
    <3> SUFFICES ASSUME Doing("start") PROVE s.handle \notin Handles
      OBVIOUS
    <3>1. SoundOpening(f.in, f.at, s, "process")
      BY <2>1, <2>5 DEF Doing, SoundStep
    <3>2. ~Has(opened, s.handle)
      BY <2>2, <3>1 DEF SoundOpening, Has
    <3> QED
      BY <3>2, HasIsHandle
  <2>8. Doing("close") => s.handle \in Handles
    <3> SUFFICES ASSUME Doing("close") PROVE s.handle \in Handles
      OBVIOUS
    <3>1. Sure(f.in, f.at) /\ Has(held, s.handle)
      BY <2>1, <2>5 DEF Doing, SoundStep, SoundClose
    <3> QED
      BY <2>2, <3>1, HasIsHandle
  <2>9. Exited => opened = {}
    <3> SUFFICES ASSUME Exited PROVE opened = {}
      OBVIOUS
    <3>1. f.at = "end" /\ Entry[f.in] = {}
      BY <1>2, <2>1 DEF Exited, CallsInv, FramesNest
    <3> QED
      BY <2>1, <2>2, <3>1 DEF Sound, ProperLabels
  <2> QED
    BY <2>1, <2>4, <2>6, <2>7, <2>8, <2>9 DEF HandlesNest
<1> QED
  BY <1>1, <1>2

LEMMA CallsInvReports == CallsInv => PassMeansComplete
<1> SUFFICES ASSUME CallsInv, Exited, refused PROVE ~Head(frames).clean
  BY DEF PassMeansComplete
<1>1. Len(frames) = 1 /\ frames # <<>>
  BY EmptySeq DEF Exited
<1>2. PICK i \in 1 .. Len(frames) : ~frames[i].clean
  BY DEF CallsInv, RefusalIsReported
<1>3. i = 1
  BY <1>1
<1> QED
  BY <1>1, <1>2, <1>3, FrameParts
============================================================================
