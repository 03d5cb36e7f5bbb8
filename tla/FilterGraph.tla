----------------------------- MODULE FilterGraph -----------------------------
(***************************************************************************)
(* The video filtergraph of a Plex argv, as the rewriter of the worker     *)
(* agent reads it (extractGraphFacts) and writes it (composeBurn), and     *)
(* what ffmpeg makes of it: in which memory each filter finds and leaves   *)
(* its frames, and how many bits a sample has.  A graph is the sequence of *)
(* the filters the video passes through; widths, styles and curves are     *)
(* left out.                                                               *)
(***************************************************************************)
EXTENDS Integers, Sequences, SequencesExt

CONSTANT
  \* The names an argv may hold: of filters, formats, codecs and devices.
  Names

\* A filter and the pixel format its `format=` option names, if it has one.
Node(f, pix) == [f |-> f, pix |-> pix]

\* lead: how the graph names the video input, `[0:0]` or `[0:#0xNN]`.
\* side: a subtitle branch before the video's, uploaded (hw) or not (sw).
\* out: the number of the trailing label, Vsel for `[vsel]`.
\* fonts: an inlineass node carries Plex's font paths.
Vsel == -2
NoLabel == -1
Filters == [f : Names, pix : Names]
Graphs ==
  [lead : {"none", "ordinal", "hex"}, side : {"none", "sw", "hw"},
   nodes : Seq(Filters), out : Int, fonts : BOOLEAN]
NoGraph == [lead |-> "none", side |-> "none", nodes |-> << >>, out |-> NoLabel, fonts |-> FALSE]

Has(g, names) == \E i \in DOMAIN g.nodes : g.nodes[i].f \in names

Leads(g, f) == g.side = "none" /\ g.nodes # << >> /\ g.nodes[1].f = f

\* isSWFilterGraph: the prefix `[0:0]scale=w=`, which a `#0xNN` graph lacks.
isSWFilterGraph(g) == g.lead = "ordinal" /\ Leads(g, "scale")

-----------------------------------------------------------------------------
\* What the rewriter reads.

\* The inlineass filter, with the option to map HDR to SDR, or for that alone.
Inlineass == {"inlineass", "inlineass_sdr", "inlineass_tonemap"}

modeledFilterNodes ==
  Inlineass \cup
  {"scale", "scale_vaapi", "scale_cuda", "hwupload", "hwdownload", "hwmap_opencl",
   "hwmap_back", "format", "tonemap", "tonemap_opencl", "tonemap_vaapi",
   "tonemap_cuda", "overlay_vaapi", "overlay_cuda", "select"}

graphNodesModeled(g) == \A i \in DOMAIN g.nodes : g.nodes[i].f \in modeledFilterNodes

\* Plex's burn of a bitmap subtitle on a GPU: an uploaded branch overlaid.
detectBitmapOverlayBurn(g) ==
  /\ Has(g, {"overlay_vaapi", "overlay_cuda"})
  /\ g.side = "hw"
  /\ Len(g.nodes) >= 2
  /\ g.nodes[1].f = "hwupload"
  /\ g.nodes[2].f \in {"scale_vaapi", "scale_cuda"}

\* Mutant: the tone mapping that CUDA does is not recognised.
extractGraphFactsNoCuda(g, sub) ==
  LET bitmap == detectBitmapOverlayBurn(g)
  IN [ hdr    |-> IF bitmap THEN Has(g, {"tonemap_opencl"})
                  ELSE Has(g, {"tonemap_opencl", "tonemap", "tonemap_vaapi"}),
       kind   |-> IF bitmap \/ sub = "bitmap" THEN "bitmap"
                  ELSE IF sub = "text" \/ Has(g, Inlineass) THEN "text" ELSE "none",
       sdr    |-> Has(g, {"inlineass_sdr", "inlineass_tonemap"}),
       select |-> Has(g, {"select"}),
       ok     |-> graphNodesModeled(g) /\ Has(g, {"scale", "scale_vaapi", "scale_cuda"}) ]

\* The axes of a graph: sdr stands for the parameters of its inlineass, which
\* may ask that it maps HDR to SDR. sub is the kind of the -map_inlineass stream, "none"
\* when the caller has none. A bitmap burn knows only of tonemap_opencl.
extractGraphFacts(g, sub) ==
  LET bitmap == detectBitmapOverlayBurn(g)
  IN [ hdr    |-> IF bitmap THEN Has(g, {"tonemap_opencl"})
                  ELSE Has(g, {"tonemap_opencl", "tonemap_cuda", "tonemap", "tonemap_vaapi"}),
       kind   |-> IF bitmap \/ sub = "bitmap" THEN "bitmap"
                  ELSE IF sub = "text" \/ Has(g, Inlineass) THEN "text" ELSE "none",
       sdr    |-> Has(g, {"inlineass_sdr", "inlineass_tonemap"}),
       select |-> Has(g, {"select"}),
       ok     |-> graphNodesModeled(g) /\ Has(g, {"scale", "scale_vaapi", "scale_cuda"}) ]

\* Whether the last `format=` of the graph, of the two that are looked for, is p010.
DepthNames == {"p010", "nv12"}
graphFeedsTenBit(g) ==
  \E i \in DOMAIN g.nodes :
    /\ g.nodes[i].pix = "p010"
    /\ \A j \in (i + 1)..Len(g.nodes) : g.nodes[j].pix \notin DepthNames

-----------------------------------------------------------------------------
\* What the rewriter writes. A worker w has a backend ("vaapi", "nvenc" or
\* "sw"), may be an AMD one, and tone-maps through OpenCL or not.

scaleFilter(w, pix) == Node(IF w.backend = "vaapi" THEN "scale_vaapi" ELSE "scale_cuda", pix)

\* The tonemap stage of composeBurn: p010 in, nv12 out.
stage(w) ==
  IF w.opencl
  THEN << Node("hwmap_opencl", "none"), Node("tonemap_opencl", "nv12"), Node("hwmap_back", "none") >>
  ELSE << Node(IF w.backend = "vaapi" THEN "tonemap_vaapi" ELSE "tonemap_cuda", "nv12") >>

When(b, s) == IF b THEN s ELSE << >>
One(b) == IF b THEN 1 ELSE 0

Composed(nodes, side, labels) ==
  [lead |-> "ordinal", side |-> side, nodes |-> nodes, out |-> labels - 1, fonts |-> FALSE]

\* AMD: no tone mapping of its own, inlineass does it in the same pass, or
\* alone when nothing is burned.
composeBurnAMDHDR(w, s) ==
  Composed(When(~ s.resident, << Node("hwupload", "none") >>)
             \o << scaleFilter(w, "p010"),
                    Node(IF s.kind = "none" THEN "inlineass_tonemap" ELSE "inlineass_sdr", "none") >>,
           "none", One(~ s.resident) + 2)

composeBurnSW(s) ==
  LET bitmap == s.kind = "bitmap"
  IN Composed(<< Node("scale", "none") >>
                \o When(s.hdr, << Node("tonemap", "p010") >>)
                \o << Node("format", "none") >>
                \o When(s.kind # "none", << Node(IF bitmap THEN "overlay" ELSE "inlineass", "none") >>),
              IF bitmap THEN "sw" ELSE "none",
              One(bitmap) + 2 + One(s.hdr) + One(s.kind # "none"))

\* Mutant: frames that are in a GPU's memory already are taken for frames that
\* are not, and the other way round.
composeBurnMisplaced(w, s) ==
  IF w.backend = "vaapi" /\ w.amd /\ s.hdr
  THEN composeBurnAMDHDR(w, s)
  ELSE Composed(When(s.resident, << Node("hwupload", "none") >>)
                  \o << scaleFilter(w, IF s.hdr \/ s.tenBit THEN "p010" ELSE "nv12") >>
                  \o When(s.hdr, stage(w))
                  \o When(s.kind # "none", << Node(IF s.sdr THEN "inlineass_sdr" ELSE "inlineass", "none") >>),
                "none", One(~ s.resident) + 1 + One(s.kind # "none"))

\* The one composer of the GPU backends: upload, scale, tone-map, burn.
composeBurn(w, s) ==
  IF w.backend = "vaapi" /\ w.amd /\ s.hdr
  THEN composeBurnAMDHDR(w, s)
  ELSE Composed(When(~ s.resident, << Node("hwupload", "none") >>)
                  \o << scaleFilter(w, IF s.hdr \/ s.tenBit THEN "p010" ELSE "nv12") >>
                  \o When(s.hdr, stage(w))
                  \o When(s.kind # "none", << Node(IF s.sdr THEN "inlineass_sdr" ELSE "inlineass", "none") >>),
                "none", One(~ s.resident) + 1 + One(s.kind # "none"))

\* The seek's select stage goes last, under a label that is not a number.
appendSelectStage(g, select) ==
  IF select THEN [g EXCEPT !.nodes = Append(@, Node("select", "none")), !.out = Vsel] ELSE g

\* The stages s asks for, on worker w.
Recompose(w, s, select) ==
  appendSelectStage(IF w.backend = "sw" THEN composeBurnSW(s) ELSE composeBurn(w, s), select)

-----------------------------------------------------------------------------
\* Passes over a graph that stays Plex's.

RemoveNode(g, i) == [g EXCEPT !.nodes = RemoveAt(@, i)]

OpenCLChain(g) ==
  {i \in 1..(Len(g.nodes) - 2) :
     /\ g.nodes[i].f = "hwmap_opencl"
     /\ g.nodes[i + 1].f = "tonemap_opencl"
     /\ g.nodes[i + 2].f = "hwmap_back"}

\* A vaapi worker told not to use OpenCL collapses Plex's chain into one
\* fixed-curve filter; otherwise the chain is only spelled in another way.
substituteOpenCLTonemap(w, g) ==
  IF w.backend # "vaapi" \/ w.opencl \/ OpenCLChain(g) = {}
  THEN g
  ELSE LET i == CHOOSE k \in OpenCLChain(g) : TRUE
       IN [g EXCEPT !.nodes = SubSeq(@, 1, i - 1)
                                \o << Node("tonemap_vaapi", @[i + 1].pix) >>
                                \o SubSeq(@, i + 3, Len(@))]

\* A tone mapping that stays on the GPU: no upload of what is there already,
\* and no way back to vaapi before a download.
gpuResidentGraph(g) ==
  LET led  == IF Leads(g, "hwupload") THEN [RemoveNode(g, 1) EXCEPT !.lead = "ordinal"] ELSE g
      back == {i \in 1..(Len(led.nodes) - 1) :
                 led.nodes[i].f = "hwmap_back" /\ led.nodes[i + 1].f = "hwdownload"}
  IN IF back = {} THEN led ELSE RemoveNode(led, CHOOSE i \in back : TRUE)

-----------------------------------------------------------------------------
(***************************************************************************)
(* ffmpeg's side (external): frames are in main memory ("cpu"), or in that *)
(* of a device; "lost" stands for a graph that cannot be built.            *)
(***************************************************************************)

Device(backend) == IF backend = "nvenc" THEN "cuda" ELSE "vaapi"

\* The filters that are about a device's memory, or do not mind where frames are;
\* all the others work in main memory.
DeviceFilters ==
  {"scale_vaapi", "tonemap_vaapi", "overlay_vaapi", "inlineass_sdr", "inlineass_tonemap",
   "scale_cuda", "tonemap_cuda", "overlay_cuda", "hwupload", "hwdownload", "hwmap_opencl",
   "tonemap_opencl", "hwmap_back"}
AnyMemory == {"inlineass", "select", "crop"}

\* Where frames in memory m are after filter f, with device d for uploads.
After(f, m, d) ==
  CASE f \in {"scale_vaapi", "tonemap_vaapi", "overlay_vaapi", "inlineass_sdr", "inlineass_tonemap"} ->
         IF m = "vaapi" THEN "vaapi" ELSE "lost"
    [] f \in {"scale_cuda", "tonemap_cuda", "overlay_cuda"} -> IF m = "cuda" THEN "cuda" ELSE "lost"
    [] f = "hwupload" -> IF m \in {"cpu", d} THEN d ELSE "lost"
    [] f = "hwdownload" -> IF m \in {"vaapi", "cuda", "opencl"} THEN "cpu" ELSE "lost"
    [] f = "hwmap_opencl" -> IF m = "vaapi" THEN "opencl" ELSE "lost"
    [] f = "tonemap_opencl" -> IF m = "opencl" THEN "opencl" ELSE "lost"
    [] f = "hwmap_back" -> IF m = "opencl" THEN "vaapi" ELSE "lost"
    [] f \in AnyMemory -> m
    [] f \notin DeviceFilters \cup AnyMemory -> IF m = "cpu" THEN "cpu" ELSE "lost"

\* Where the frames are after the filters of s, from memory m.
Memory(s, m, d) ==
  LET at[i \in 0..Len(s)] == IF i = 0 THEN m ELSE After(s[i].f, at[i - 1], d)
  IN at[Len(s)]

\* Filters whose frames have eight bits unless they name another format, and
\* whether a sample has ten after the graph, from b.
EightBit == {"format", "inlineass_sdr", "inlineass_tonemap"}
SetsDepth(n) == n.f \in EightBit \/ n.pix \in DepthNames
TenBits(g, b) ==
  \/ b = 10 /\ \A i \in DOMAIN g.nodes : ~ SetsDepth(g.nodes[i])
  \/ \E i \in DOMAIN g.nodes :
       /\ g.nodes[i].pix = "p010"
       /\ \A j \in (i + 1)..Len(g.nodes) : ~ SetsDepth(g.nodes[j])

\* Whether the graph maps HDR to SDR, and whether it burns a subtitle.
ToneMaps(g) ==
  Has(g, {"tonemap", "tonemap_opencl", "tonemap_vaapi", "tonemap_cuda", "inlineass_sdr",
         "inlineass_tonemap"})
Burns(g) == Has(g, {"inlineass", "inlineass_sdr", "overlay", "overlay_vaapi", "overlay_cuda"})

=============================================================================
