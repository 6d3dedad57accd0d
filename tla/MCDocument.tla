------------------------------ MODULE MCDocument ------------------------------
(***************************************************************************)
(* The session history, and the parts of the web API layer that are books  *)
(* about a document and its drawings and run to their end in one call.     *)
(* They share no state: a behaviour is one of them, picked in the initial  *)
(* state, so one run explores the sum of them.                             *)
(***************************************************************************)
EXTENDS MCTabNav, TLC

VARIABLES
  part,
  value, attrs, nodeOf, parsed, forsaken, lastOp, attrOps,
  treeKids, named, tree, attr, untracked, childVer, watched, memory, treeOps,
  holds, lightOrder, emptied, declared, wants, children, astray, strayed, shadowOps,
  glVersion, firstTarget, bufferSize, topIndex, glBound, vao, indexBuffer, vertexAttrib, deadBuffers, glError, drawReads, bufferCalls,
  compiled, deadShaders, doomed, attachedCount, attached, deadProgs, attribBind, linkOf, places, uniforms, inUse, locations, deletedAgain, programCalls,
  texVersion, texTarget, imgs, immutableLevels, baseLevel, texUnits, activeUnit, sampler, renderImage, renderbuffer, attachments, drawFb, readFb, deadImages, texError, imageOp, imageCalls,
  preserve, contexts, transferred, doubled, canvasSize, placeholderResized, glState, glStates, glTasks, glHandler, canvasShows, bitmaps, otherScreen, copiedFrames, framesDrawn, glEvents, glOps,
  corners, middle, turned, pointAt, pointSize, strip,
  stencilState, depthState, shader, pixel, samplesPassed, painted,
  rangeKids, texts, liveRange, mirrorOf, freshTexts, selectedChars, rangeAstray, rangeSteps, hasRange, backward, changeQueued, reported, silently, asked,
  xParent, xKind, xAttr, xContext, xPath,
  xText,
  audioState, audioClosed, userSuspended, audioTick, lastWall, audioFrame, wallTime, activated, audioTasks, resumes, processor, heardBlocks, ranFor, audioCall,
  offlineState, renderStarted, renderPaused, quantaDone, quantaWritten, suspends, offlineTasks, offlineEvents, offlineCalls,
  paramEvents, initialValue, baseValue, paramRate, paramFrame, paramFilled, paramCalls,
  nodeOuts, nodeIns, autoPull, playState, delayRing, graphFrame, graphRendered, graphCalls,
  numbers, is2D, nan, did, matrixOps,
  xmlPieces,
  cssRules, ruleLists, styleText, syncedText, appendedRules, rewriteSheets, disabledSheets, savedText, sheetMedia, adoptedSheets, adopterRoots, dirtySheets, adoptedDirty, flushQueued, appliedRules, textOutside, sheetOp, sheetOps,
  pathSink, userSink, drawMatrix, steady, pathOps,
  segments,
  canvasWidth, ctxWidth, drawState, savedStates, drawn, surface, styleAsked, canvasOps

attributes == <<value, attrs, nodeOf, parsed, forsaken, lastOp, attrOps>>
collections == <<treeKids, named, tree, attr, untracked, childVer, watched, memory, treeOps>>
shadows == <<holds, lightOrder, emptied, declared, wants, children, astray, strayed, shadowOps>>
buffers == <<glVersion, firstTarget, bufferSize, topIndex, glBound, vao, indexBuffer, vertexAttrib, deadBuffers, glError, drawReads, bufferCalls>>
programs == <<compiled, deadShaders, doomed, attachedCount, attached, deadProgs, attribBind, linkOf, places, uniforms, inUse, locations, deletedAgain, programCalls>>
images == <<texVersion, texTarget, imgs, immutableLevels, baseLevel, texUnits, activeUnit, sampler, renderImage, renderbuffer, attachments, drawFb, readFb, deadImages, texError, imageOp, imageCalls>>
context == <<preserve, contexts, transferred, doubled, canvasSize, placeholderResized, glState, glStates, glTasks, glHandler, canvasShows, bitmaps, otherScreen, copiedFrames, framesDrawn, glEvents, glOps>>
mesh == <<corners, middle, turned, pointAt, pointSize, strip>>
fragments == <<stencilState, depthState, shader, pixel, samplesPassed, painted>>
selection == <<rangeKids, texts, liveRange, mirrorOf, freshTexts, selectedChars, rangeAstray, rangeSteps, hasRange, backward, changeQueued, reported, silently, asked>>
xpath == <<xParent, xKind, xAttr, xContext, xPath>>
xparse == <<xText>>
audioClock == <<audioState, audioClosed, userSuspended, audioTick, lastWall, audioFrame, wallTime, activated, audioTasks, resumes, processor, heardBlocks, ranFor, audioCall>>
offlineAudio == <<offlineState, renderStarted, renderPaused, quantaDone, quantaWritten, suspends, offlineTasks, offlineEvents, offlineCalls>>
paramTimeline == <<paramEvents, initialValue, baseValue, paramRate, paramFrame, paramFilled, paramCalls>>
nodeGraph == <<nodeOuts, nodeIns, autoPull, playState, delayRing, graphFrame, graphRendered, graphCalls>>
matrices == <<numbers, is2D, nan, did, matrixOps>>
xml == <<xmlPieces>>
styleSheets == <<cssRules, ruleLists, styleText, syncedText, appendedRules, rewriteSheets, disabledSheets, savedText, sheetMedia, adoptedSheets, adopterRoots, dirtySheets, adoptedDirty, flushQueued, appliedRules, textOutside, sheetOp, sheetOps>>
drawPaths == <<pathSink, userSink, drawMatrix, steady, pathOps>>
svgText == <<segments>>
canvas2d == <<canvasWidth, ctxWidth, drawState, savedStates, drawn, surface, styleAsked, canvasOps>>
allVars == <<part, vars, attributes, collections, shadows, buffers, programs, images, context, mesh, fragments, selection, xpath, xparse, audioClock, offlineAudio, paramTimeline, nodeGraph, matrices, xml, styleSheets, drawPaths, svgText, canvas2d>>

NV == INSTANCE NodeViews WITH
        AttrElements <- {"e1"}, Names <- {"class"}, Listed <- "class", Values <- {<<"t">>, <<"u", "t", "u">>}, Tokens <- {"t", "u"},
        MaxAttrs <- 2, MaxAttrOps <- 5, Root <- "R", Frag <- "F", TreeElements <- {"E"}, Texts <- {"t", "u"}, Fresh <- "u", MaxTreeOps <- 2,
        Shape <- ("R" :> <<"E", "t">>) @@ ("F" :> << >>) @@ ("E" :> << >>)
(* Two elements side by side, a third outside.                             *)
Selectable(k) == [kids |-> k @@ ("H" :> << >>) @@ ("F" :> << >>), fresh |-> {"w"}, text |-> ("t" :> <<1, 2>>) @@ ("u" :> <<3>>) @@ ("w" :> << >>),
                  range |-> [start |-> <<"R", 0>>, end |-> <<"R", 0>>]]
DT == INSTANCE DomTree WITH
        Root <- "R", Elements <- {"E", "G", "H"}, Frag <- "F", Texts <- {"t", "u", "w"}, Chars <- 1 .. 3, MaxSteps <- 2,
        Starts <- {Selectable(("R" :> <<"E", "G">>) @@ ("E" :> <<"t">>) @@ ("G" :> <<"u">>))},
        kids <- rangeKids, text <- texts, range <- liveRange, mirror <- mirrorOf, fresh <- freshTexts, selected <- selectedChars, astray <- rangeAstray, steps <- rangeSteps
SS == INSTANCE ShadowSlots WITH
        Slots <- {"s", "t"}, SlotName <- ("s" :> "") @@ ("t" :> "n"), Lights <- {"a", "b", "w"}, Wrapped <- "w", MaxShadowOps <- 4,
        order <- lightOrder, lost <- astray, cleared <- emptied
GL == INSTANCE GLObjects WITH
        Buffers <- {"b1", "b2"}, Arrays <- {"d", "v"}, DefaultVao <- "d", MaxSize <- 2, BufferMaxGlCalls <- 4, Programs <- {"p", "q"},
        Vertex <- {"v"}, Fragment <- {"f"}, Attributes <- <<"a", "b">>, Slots <- ("a" :> 1) @@ ("b" :> 2), MaxAttribs <- 3,
        ProgramMaxGlCalls <- 4
GI == INSTANCE GLImages WITH
        Textures <- {"t", "u"}, Renderbuffers <- {"r"}, Framebuffers <- {"f", "g"}, Units <- {0, 1}, Sizes <- {2, 3}, MaxLevel <- 1, MaxGlCalls <- 3,
        version <- texVersion, target <- texTarget, base <- baseLevel, active <- activeUnit, dead <- deadImages, glError <- texError, op <- imageOp, glCalls <- imageCalls, storage <- renderImage, rb <- renderbuffer, att <- attachments, samples <- sampler, units <- texUnits, immutable <- immutableLevels
(* A target of three by three pixels, four triangles around a middle.      *)
MeshCorners == << {<<0, 0>>, <<1, 0>>, <<1, 1>>}, {<<6, 0>>, <<5, 1>>, <<6, 1>>}, {<<6, 6>>, <<5, 5>>}, {<<0, 6>>, <<1, 5>>, <<0, 3>>} >>
Stencil(func, op) == [enabled |-> TRUE, func |-> func, ref |-> 2, vmask |-> 3, mask |-> 1, fail |-> op, zfail |-> "incr", zpass |-> "invert"]
NoStencil == [Stencil("always", "keep") EXCEPT !.enabled = FALSE]
Depth(on, func, mask) == [enabled |-> on, func |-> func, mask |-> mask]
Shader(discards, depth, query) == [discards |-> discards, setsDepth |-> depth, asked |-> query]
GC == INSTANCE GLContext WITH
        Bitmaps <- {"b", "c"}, Sizes <- {1, 2}, MaxStates <- 3, MaxGlOps <- 5,
        Sub <- 2, Corners <- MeshCorners, Middles <- {<<3, 3>>, <<3, 2>>, <<2, 4>>, <<5, 3>>}, Pixels <- 0 .. 2, PointSizes <- 1 .. 3, Strip <- 7,
        StencilBits <- 2, Depths <- {-1, 3, 4, 7}, Levels <- 2, DepthMax <- 3, MaxFragments <- 3,
        StencilStates <- {NoStencil, Stencil("less", "incr wrap"), Stencil("always", "decr"), Stencil("never", "decr wrap")},
        DepthStates <- {Depth(TRUE, "less", TRUE), Depth(TRUE, "lequal", TRUE), Depth(TRUE, "greater", FALSE), Depth(FALSE, "less", TRUE)},
        Shaders <- {Shader(FALSE, FALSE, FALSE), Shader(TRUE, FALSE, FALSE), Shader(FALSE, TRUE, FALSE), Shader(FALSE, FALSE, TRUE)},
        sequence <- strip, samples <- samplesPassed,
        states <- glStates, current <- glState, posted <- glTasks, handler <- glHandler, events <- glEvents, copied <- copiedFrames, frames <- framesDrawn, screen <- otherScreen, shown <- canvasShows, resized <- placeholderResized

(* XPath: trees of four nodes (an attribute of one of them between), steps *)
(* of most axes with and without predicates, and how expressions start.    *)
XStep(axis, test) == [axis |-> axis, test |-> test, preds |-> << >>]
XPicks(axis, test, pred) == [axis |-> axis, test |-> test, preds |-> <<pred>>]
XPred(k, n, a, b) == [k |-> k, n |-> n, a |-> a, b |-> b]
XAt(k, n) == XPred(k, n, XStep("descendant-or-self", "node"), XStep("descendant-or-self", "node"))
XTrees == {(2 :> 0) @@ (4 :> 2) @@ (6 :> s[1]) @@ (8 :> s[2]) : s \in {<<2, 6>>, <<4, 4>>, <<4, 2>>}}
XSteps == {XStep("child", "x"), XStep("following", "node"), XStep("preceding", "*"), XStep("ancestor-or-self", "node"),
           XStep("parent", "node"), XStep("attribute", "x"),
           XPicks("child", "*", XAt("num", 1)), XPicks("child", "node", XAt("pos", 2)), XPicks("preceding", "node", XAt("num", 1)),
           XPicks("ancestor", "*", XAt("num", 2)), XPicks("descendant", "x", XAt("last", 0)),
           XPicks("child", "x", XPred("has", 0, XPicks("child", "node", XAt("last", 0)), XPicks("child", "node", XAt("last", 0)))),
           XPicks("self", "*", XPred("=", 0, XStep("child", "node"), XStep("following-sibling", "node"))),
           XPicks("child", "node", XPred("!=", 0, XStep("self", "node"), XStep("preceding-sibling", "node")))}
XStarts == {<<"f", "(">>, <<"n", "-">>, <<"n", "[">>, <<"(", "n">>, <<"//", "n">>, <<"n", "and">>, <<"n", "|">>, <<"*", "*">>,
            <<"1", "=">>, <<"-", "n">>, <<".", "/">>, <<"n", "div">>, <<"n", "(">>}
XP == INSTANCE XPath WITH
        Shapes <- XTrees, Kinds <- {"x", "t"}, Steps <- XSteps, MaxSteps <- 2, Starts <- XStarts, Symbols <- {"*", "n", "1", "-", "/", ")",
        "]", "["}, MaxLength <- 5, text <- xText
AC == INSTANCE AudioContexts WITH
        CatchUp <- 2, BufferSize <- 1, MaxTime <- 4, MaxAudioCalls <- 2, Total <- 5, Batch <- 2, MaxOfflineCalls <- 5
(* Audio graphs: a source heard and modulating, a diamond with a delay, and a *)
(* delay in a cycle with an analyser.                                      *)
AEdge(n, m) == <<n, <<m, "input">>>>
AWirings == {<<AEdge("s", "g"), AEdge("g", "D"), <<"s", <<"g", "param">>>>>>,
             <<AEdge("s", "d"), AEdge("s", "g"), AEdge("d", "g"), AEdge("g", "D")>>,
             <<AEdge("g", "d"), AEdge("d", "g"), AEdge("g", "a"), AEdge("s", "D")>>}
AN == INSTANCE AudioNodes WITH
        Default <- 9, ParamQuantum <- 2, ParamMaxTime <- 2, MaxParamCalls <- 3, Sources <- {"s"}, Gains <- {"g"}, Delays <- {"d"},
        Analysers <- {"a"}, Destination <- "D", Wirings <- AWirings, GraphQuantum <- 2, GraphMaxTime <- 3, MaxGraphCalls <- 3
(* Matrices: numbers that stay small integers.                             *)
MScales == {[by |-> <<2, 1, 1>>, at |-> <<1, 0, 0>>], [by |-> <<-1, 2, 2>>, at |-> <<0, 1, 1>>]}
MIdent == [i \in 0 .. 15 |-> IF i % 5 = 0 THEN 1 ELSE 0]
MOthers == {[n |-> [MIdent EXCEPT ![0] = 0, ![4] = -1, ![12] = 1], flat |-> TRUE], [n |-> [MIdent EXCEPT ![8] = 1, ![10] = 2], flat |-> FALSE]}
MFn(fn, by) == [fn |-> fn, by |-> by]
MLists == {<<MFn("translate", <<1, 2, 0>>), MFn("rotate", <<1>>)>>, <<MFn("scale", <<2, 1, 1>>), MFn("translate", <<1, 0, 1>>)>>,
           <<MFn("skewX", <<1>>), MFn("scale", <<1, 2, 2>>)>>}
MX == INSTANCE Matrices WITH
        Vectors <- {<<2, -1, 0>>, <<0, 1, 1>>}, Scales <- MScales, Others <- MOthers, Lists <- MLists, Points <- {<<1, 2, 3>>, <<-1, 0, 2>>}, Bound <- 4, MaxMatrixOps <- 3
XTag(prefix, decls, empty) == [prefix |-> prefix, decls |-> decls, empty |-> empty]
XTags == {XTag("", << >>, FALSE), XTag("", "" :> "u", FALSE), XTag("", "" :> "none", TRUE), XTag("p", << >>, TRUE), XTag("p", ("p" :> "w") @@ ("" :> "u"), FALSE)}
XM == INSTANCE XmlParse WITH
        Tags <- XTags, Kinds <- {"text", "cdata", "pi"}, MaxPieces <- 5,
        pieces <- xmlPieces
(* Style sheets.                                                           *)
CItem(k, vs) == [k |-> k, vs |-> vs]
CS == INSTANCE StyleSheets WITH
        Roots <- {"doc"}, FirstText <- <<CItem("style", <<"a">>), CItem("layer", <<"a">>)>>,
        Items <- {CItem("style", <<"b">>), CItem("media", <<"a", "b">>)}, Texts <- {<<CItem("style", <<"b">>)>>}, MaxSheetOps <- 3,
        rules <- cssRules, list <- ruleLists, elementText <- styleText, syncedText <- syncedText, pending <- appendedRules, rewrite <- rewriteSheets, disabled <- disabledSheets, savedText <- savedText, adopted <- adoptedSheets, adopters <- adopterRoots, applied <- appliedRules, outside <- textOutside
(* Canvas: a transform that turns, one that mirrors and one that skews.    *)
CSeg(c, nums) == [c |-> c, nums |-> nums]
CSegments == {CSeg("M", <<1, 0>>), CSeg("m", <<1, 2>>), CSeg("", <<2, 1>>), CSeg("l", <<1, 1>>), CSeg("h", <<2>>), CSeg("V", <<3>>),
              CSeg("c", <<1, 0, 2, 1, 0, 3>>), CSeg("S", <<4, 1, 2, 2>>), CSeg("q", <<1, 1, 2, 0>>), CSeg("t", <<1, 2>>), CSeg("z", << >>)}
C2 == INSTANCE Canvas2D WITH
        Corners <- {<<0, 0>>, <<2, 0>>, <<1, 3>>}, Transforms <- {<<0, 1, -1, 0, 3, 0>>, <<-1, 0, 0, 1, 0, 1>>, <<1, 0, 1, 2, 0, 0>>},
        Pieces <- 4, MaxPathOps <- 3, Segments <- CSegments, MaxSegments <- 4, Widths <- {1, 2}, Styles <- {"red"}, Shapes <- {"s"}, MaxCanvasOps <- 5,
        sink <- pathSink, matrix <- drawMatrix, ctx <- drawState, saved <- savedStates, asked <- styleAsked

-----------------------------------------------------------------------------
MCInit ==
  /\ part \in {"tabs", "attributes", "collections", "shadows", "buffers", "programs", "images", "context", "mesh", "strips", "fragments", "selection", "xpath", "xparse", "audio", "offline", "timeline", "graph", "matrix", "xml", "sheets", "path", "svg", "canvas"}
  /\ Init
  /\ NV!AttrInit
  /\ NV!TreeInit /\ (part # "collections" => watched = <<"body", "R">>)
  /\ SS!Init /\ (part # "shadows" => children = << >>)
  /\ GL!BufferInit /\ (part # "buffers" => glVersion = 1 /\ glBound.array = "b1")
  /\ GL!ProgramInit /\ (part # "programs" => places[1]["a"] = 0)
  /\ GI!Init /\ (part # "images" => texVersion = 1)
  /\ GC!Init /\ (part # "context" => preserve)
  /\ DT!SelectionInit
  /\ GC!MeshInit
  /\ part # "mesh" => corners = [i \in 1 .. 4 |-> CHOOSE c \in MeshCorners[i] : TRUE] /\ middle = <<3, 3>>
  /\ GC!PixelInit
  /\ part # "fragments" => stencilState = NoStencil /\ depthState = Depth(TRUE, "less", TRUE) /\ shader = Shader(FALSE, FALSE, FALSE)
  /\ XP!StepInit /\ (part # "xpath" => xParent[8] = 6 /\ xAttr = {} /\ xContext = 0 /\ \A n \in DOMAIN xKind : xKind[n] = "x")
  /\ XP!ParseInit /\ (part # "xparse" => xText = <<"n", "(">>)
  /\ AC!LiveInit /\ (part # "audio" => ~activated)
  /\ AC!OfflineInit
  /\ AN!ParamInit /\ (part # "timeline" => paramRate = "a-rate")
  /\ AN!GraphInit /\ (part # "graph" => Len(nodeIns[<<"g", "input">>]) = 2)
  /\ MX!Init
  /\ XM!Init
  /\ CS!Init
  /\ C2!PathInit /\ C2!SvgInit
  /\ C2!CanvasInit /\ (part # "canvas" => canvasWidth = 1)

(* What the other parts keep.                                              *)
Others ==
  /\ IF part = "tabs" THEN TRUE ELSE UNCHANGED vars
  /\ IF part = "attributes" THEN TRUE ELSE UNCHANGED attributes
  /\ IF part = "collections" THEN TRUE ELSE UNCHANGED collections
  /\ IF part = "shadows" THEN TRUE ELSE UNCHANGED shadows
  /\ IF part = "buffers" THEN TRUE ELSE UNCHANGED buffers
  /\ IF part = "programs" THEN TRUE ELSE UNCHANGED programs
  /\ IF part = "images" THEN TRUE ELSE UNCHANGED images
  /\ IF part = "context" THEN TRUE ELSE UNCHANGED context
  /\ IF part \in {"mesh", "strips"} THEN TRUE ELSE UNCHANGED mesh
  /\ IF part = "fragments" THEN TRUE ELSE UNCHANGED fragments
  /\ IF part = "selection" THEN TRUE ELSE UNCHANGED selection
  /\ IF part = "xpath" THEN TRUE ELSE UNCHANGED xpath
  /\ IF part = "xparse" THEN TRUE ELSE UNCHANGED xparse
  /\ IF part = "audio" THEN TRUE ELSE UNCHANGED audioClock
  /\ IF part = "offline" THEN TRUE ELSE UNCHANGED offlineAudio
  /\ IF part = "timeline" THEN TRUE ELSE UNCHANGED paramTimeline
  /\ IF part = "graph" THEN TRUE ELSE UNCHANGED nodeGraph
  /\ IF part = "matrix" THEN TRUE ELSE UNCHANGED matrices
  /\ IF part = "xml" THEN TRUE ELSE UNCHANGED xml
  /\ IF part = "sheets" THEN TRUE ELSE UNCHANGED styleSheets
  /\ IF part = "path" THEN TRUE ELSE UNCHANGED drawPaths
  /\ IF part = "svg" THEN TRUE ELSE UNCHANGED svgText
  /\ IF part = "canvas" THEN TRUE ELSE UNCHANGED canvas2d
In(name, act) == part = name /\ act /\ UNCHANGED part /\ Others

MCNext ==
  \/ In("tabs", Next)
  \/ In("attributes", NV!AttrNext)
  \/ In("collections", NV!TreeNext)
  \/ In("shadows", SS!Next)
  \/ In("buffers", GL!BufferNext)
  \/ In("programs", GL!ProgramNext)
  \/ In("images", GI!Next)
  \/ In("context", GC!Next)
  \/ In("mesh", GC!MeshNext)
  \/ In("strips", GC!AddIndex)
  \/ In("fragments", GC!PixelNext)
  \/ In("selection", DT!SelectionNext)
  \/ In("xpath", XP!StepNext)
  \/ In("xparse", XP!ParseNext)
  \/ In("audio", AC!LiveNext)
  \/ In("offline", AC!OfflineNext)
  \/ In("timeline", AN!ParamNext)
  \/ In("graph", AN!GraphNext)
  \/ In("matrix", MX!Next)
  \/ In("xml", XM!Next)
  \/ In("sheets", CS!Next)
  \/ In("path", C2!PathNext)
  \/ In("svg", C2!SvgNext)
  \/ In("canvas", C2!CanvasNext)

MCSpec == MCInit /\ [][MCNext]_allVars

(* The history and the address bar are those of the documents, and what a  *)
(* part remembers of the tree, of an object or of the context is what a    *)
(* look at it would find.                                                  *)
StateAgrees ==
  /\ HistoryConsistent /\ AddressBarHonest
  /\ part = "attributes" => NV!OneObject
  /\ part = "collections" => NV!CollectionsLive
  /\ part = "shadows" => SS!ChildrenSeen /\ SS!SlottedRight
  /\ part = "buffers" => GL!ReadsInside /\ GL!DeletedUnbound /\ GL!IndicesApart
  /\ part = "programs" => GL!AttachedAlive /\ GL!AttributesApart
  /\ part = "images" => GI!NoneDeleted /\ GI!RendersApart /\ GI!ImmutableKept /\ GI!MipmapsComplete
  /\ part = "context" => GC!OneKind /\ GC!SizeFollows /\ GC!MovedOnce /\ GC!RestoredOnce /\ GC!FrameOnItsWay
  /\ part = "mesh" => GC!CoveredOnce /\ GC!PointIsSquare
  /\ part = "strips" => GC!RestartCuts /\ GC!StripFaces
  /\ part = "fragments" => GC!EarlyIsLate /\ GC!NearestShown
  /\ part = "selection" => DT!ClonesSelected /\ DT!ExtractsAndDeletes /\ DT!TextAsCloned /\ DT!SurroundKeepsText /\ DT!AsAsked /\ DT!SelectionTold /\ DT!MeetsTouched
  /\ part = "xpath" => XP!PathSelects
  /\ part = "xparse" => XP!ParsesAsDerived /\ XP!OperatorsApply
  /\ part = "audio" => AC!ClockHonest /\ AC!LastCallWins /\ AC!PlayedInOrder
  /\ part = "offline" => AC!SuspendedThere /\ AC!OneRendering
  /\ part = "timeline" => AN!EventsMet
  /\ part = "graph" => AN!BothEnds
  /\ part = "matrix" => MX!FlagHonest
  /\ part = "xml" => XM!ParsesXml /\ XM!SerializesBack
  /\ part = "sheets" => CS!RulesApplied /\ CS!FlushComes /\ CS!LayoutSeesRules
  /\ part = "path" => C2!SamePath /\ C2!InsideFollows
  /\ part = "svg" => C2!SvgDraws
  /\ part = "canvas" => C2!ClipHolds

(* Nothing is changed that is not meant.                                   *)
StepsRight ==
  /\ NV!LeavesWithValue /\ NV!ListsFollow
  /\ GL!UniformsOfLink
  /\ GC!MaskedBitsStay
  /\ AN!ShortCutsExact /\ AN!HoldsValue
  /\ AN!EachOnce /\ AN!AllWaysHeard /\ AN!HeardInTime
  /\ MX!EffectsRight
  /\ CS!ObjectsKept
  /\ C2!PaintsOnCurrent /\ C2!PaintsAsSet
=============================================================================
