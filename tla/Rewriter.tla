------------------------------ MODULE Rewriter ------------------------------
(***************************************************************************)
(* Rewrite of the worker agent: an ffmpeg argv that Plex wrote for its own *)
(* host becomes one for the worker that got the task, phase by phase, and  *)
(* may at any phase be given up ("bail"), which leaves the argv Plex sent  *)
(* with only its transport cleaned.                                        *)
(*                                                                         *)
(* The picture's part of an argv is a record:                              *)
(*   input      there is a `-i`                                            *)
(*   dec, enc   the video decoder before and the encoder after it          *)
(*   accel      -hwaccel, with outfmt its -hwaccel_output_format           *)
(*   hex        the decoder's options name the stream `#0xNN`, not `0`     *)
(*   device     -init_hw_device: "none", "vaapi", "vaapi+driver", "cuda"   *)
(*   ocl        an OpenCL device is derived from it                        *)
(*   graph      the video filtergraph (FilterGraph)                        *)
(*   map, aud   the labels that `-map` takes the picture and the sound of  *)
(*   ia         -map_inlineass: "none", "embedded" or "sidecar"            *)
(*   sink       the null output that decodes the subtitle                  *)
(*   main10, sei, keyframes                                                *)
(*              -profile main10, -sei, -force_key_frames are there         *)
(* Rates, sizes and presets are left out.                                  *)
(***************************************************************************)
EXTENDS FilterGraph, Relay

CONSTANT
  \* The tasks: [video, media, transport, worker, env] records. media is what
  \* the probes find: [hdr, bits, sub]; env is [base, token, nothrottle, force,
  \* pass], force for SCALEPLEX_FORCE_HW and pass for what the gate answers.
  Jobs

Videos ==
  [input : BOOLEAN, dec : Names, enc : Names, accel : Names, outfmt : Names, hex : BOOLEAN,
   device : Names, ocl : BOOLEAN, graph : Graphs, map : Int, aud : Int,
   ia : {"none", "embedded", "sidecar"}, sink : BOOLEAN, main10 : BOOLEAN, sei : BOOLEAN,
   keyframes : BOOLEAN]

-----------------------------------------------------------------------------
\* The worker's dialect.

hwaccelName(b) == CASE b = "vaapi" -> "vaapi" [] b = "nvenc" -> "nvdec" [] OTHER -> "none"
hwaccelOutputFormat(b) == CASE b = "vaapi" -> "vaapi" [] b = "nvenc" -> "cuda" [] OTHER -> "none"
initHWDevice(b) == hwaccelOutputFormat(b)

encoderMap(b) ==
  CASE b = "vaapi" -> [libx264 |-> "h264_vaapi", libx265 |-> "hevc_vaapi"]
    [] b = "nvenc" -> [libx264 |-> "h264_nvenc", libx265 |-> "hevc_nvenc"]
    [] OTHER -> [libx264 |-> "libx264", libx265 |-> "libx265"]

SWEncoders == {"libx264", "libx265"}
HWEncoders(b) == IF b = "sw" THEN SWEncoders ELSE {encoderMap(b)[l] : l \in SWEncoders}

decoderMap(b) ==
  IF b = "sw" THEN << >> ELSE [libdav1d |-> "av1", libhevc |-> "hevc", libx264 |-> "h264"]

hwDecodeShortCodecs(b) == IF b = "sw" THEN {} ELSE {"av1", "hevc", "h264", "vp9"}

\* hwEncoderCodec, "none" for an encoder that is not a GPU's.
hwEncoderCodec(e) ==
  CASE e \in {"h264_vaapi", "h264_nvenc"} -> "h264"
    [] e \in {"hevc_vaapi", "hevc_nvenc"} -> "hevc"
    [] OTHER -> "none"

codecCanonicalSWEncoder == [h264 |-> "libx264", hevc |-> "libx265"]

\* A GPU's encoder under another backend's name.
Reencoded(e, b) ==
  IF hwEncoderCodec(e) = "none" THEN e ELSE encoderMap(b)[codecCanonicalSWEncoder[hwEncoderCodec(e)]]

-----------------------------------------------------------------------------
\* What the rewriter reads off an argv.

vaapiFilterTokens == {"scale_vaapi", "tonemap_vaapi", "overlay_vaapi", "tonemap_opencl"}
nvencFilterTokens == {"scale_cuda", "tonemap_cuda", "overlay_cuda"}

\* The encoders ffmpeg has under a backend's suffix.
EncodersOf(b) ==
  IF b = "vaapi"
  THEN {"h264_vaapi", "hevc_vaapi", "av1_vaapi", "mpeg2_vaapi", "mjpeg_vaapi", "vp8_vaapi", "vp9_vaapi"}
  ELSE {"h264_nvenc", "hevc_nvenc", "av1_nvenc"}

\* detectSourceBackend: one mark of VAAPI outweighs any of NVENC.
detectSourceBackend(v) ==
  IF \/ v.accel = "vaapi"
     \/ v.enc \in EncodersOf("vaapi")
     \/ Has(v.graph, vaapiFilterTokens)
  THEN "vaapi"
  ELSE IF \/ v.accel \in {"nvdec", "cuda", "cuvid"}
          \/ v.enc \in EncodersOf("nvenc")
          \/ Has(v.graph, nvencFilterTokens)
  THEN "nvenc"
  ELSE IF v.enc \in {"none", "copy"} THEN "none" ELSE "sw"

\* detectSubtitleSource: the kind of the stream -map_inlineass names; what the
\* probe does not know is taken for text.
detectSubtitleSource(v, m) ==
  IF v.ia = "none" THEN "none" ELSE IF m.sub = "bitmap" THEN "bitmap" ELSE "text"

\* isOptimizeRemux: nothing to do to the picture.
isOptimizeRemux(v, b) ==
  v.input /\ v.dec \in hwDecodeShortCodecs(b) /\ v.accel = "none" /\ v.enc = "copy"

encoderIsHEVC(v) == hwEncoderCodec(v.enc) = "hevc"

\* Where ffmpeg's decoder leaves the frames, and where an encoder
\* takes them (external).
Decoded(v) == IF v.accel = "none" \/ v.outfmt = "none" THEN "cpu" ELSE v.outfmt
Taken(e) ==
  CASE e \in {"h264_vaapi", "hevc_vaapi"} -> {"vaapi"}
    [] e \in {"h264_nvenc", "hevc_nvenc"} -> {"cpu", "cuda"}
    [] OTHER -> {"cpu"}

-----------------------------------------------------------------------------
\* The tasks.

\* What Plex makes of a picture. Its graph scales in main memory and names a
\* format, or uploads first, with a label for each node; an overlay uploads its
\* result again, and needs no select to seek.
PlexGraphs ==
  {g \in Graphs :
     /\ ~ Has(g, {"inlineass_sdr", "inlineass_tonemap"})
     /\ g.nodes # << >> =>
          IF g.nodes[1].f = "scale" THEN Has(g, {"format"}) ELSE g.nodes[1].f = "hwupload"
     /\ g.out >= Len(g.nodes) - 1
     /\ Has(g, {"overlay_vaapi", "overlay_cuda"}) =>
          /\ detectBitmapOverlayBurn(g)
          /\ g.nodes[Len(g.nodes)].f = "hwupload"
          /\ ~ Has(g, {"select"})}

\* Every filter of it that sets a depth names it, and no other does; what was
\* scaled on a GPU has one.
Spelled(n) ==
  /\ n.f \in EightBit => n.pix \in DepthNames
  /\ n.f \in {"hwupload", "hwmap_opencl", "hwmap_back"} => n.pix \notin DepthNames
DepthNamed(g) ==
  /\ \A i \in DOMAIN g.nodes : Spelled(g.nodes[i])
  /\ \E i \in DOMAIN g.nodes :
       g.nodes[i].f \in {"scale_vaapi", "scale_cuda"} /\ g.nodes[i].pix \in DepthNames

\* A software encoder gets frames that neither a GPU's decoder nor its filters
\* kept. The graph names the video as the decoder's options do, and starts with it
\* unless it overlays a bitmap.
PlexSoftware(v) ==
  /\ ~ Has(v.graph, DeviceFilters)
  /\ v.outfmt = "none"
  /\ v.graph.nodes # << >> => v.graph.lead # "none"
  /\ v.graph.lead = "hex" => v.hex
  /\ v.graph.side # "none" => Has(v.graph, {"overlay"})

\* A GPU's encoder gets frames where it takes them, H.264 with eight bits.
PlexHardware(v) ==
  /\ v.graph.nodes # << >> /\ v.graph.nodes[1].f = "hwupload"
  /\ Memory(v.graph.nodes, Decoded(v), Device(detectSourceBackend(v))) \in Taken(v.enc)
  /\ DepthNamed(v.graph)
  /\ graphFeedsTenBit(v.graph) => encoderIsHEVC(v)

\* Plex's host has one backend, does not decode in software what it decodes in
\* hardware, and names no profile.
PlexHost(v) ==
  LET b == detectSourceBackend(v)
  IN /\ v.accel \in {"none", hwaccelName(b)}
     /\ v.outfmt \in {"none", hwaccelOutputFormat(b)}
     /\ v.accel # "none" => v.dec \notin DOMAIN decoderMap("vaapi")
     /\ ~ v.main10

\* `-map` takes its last label, the sound has a later one; a stream is named when
\* it burns a subtitle outside an overlay, and a sidecar's is decoded into a sink.
PlexVideos ==
  {v \in Videos :
     /\ v.graph \in PlexGraphs
     /\ v.map = v.graph.out /\ v.aud > v.graph.out
     /\ v.ia # "none" <=> Has(v.graph, {"inlineass"})
     /\ v.ia = "sidecar" => v.sink
     /\ PlexHost(v)
     /\ v.enc \in SWEncoders => PlexSoftware(v)
     /\ hwEncoderCodec(v.enc) # "none" => PlexHardware(v)}

\* Only a VAAPI worker maps tones by OpenCL.
WorkerKinds ==
  {k \in [backend : {"vaapi", "nvenc", "sw"}, amd : BOOLEAN, opencl : BOOLEAN] :
     k.opencl => k.backend = "vaapi"}
Envs ==
  [base : BOOLEAN, token : BOOLEAN, nothrottle : BOOLEAN, force : BOOLEAN, pass : BOOLEAN]
Medias == [hdr : BOOLEAN, bits : Nat, sub : {"text", "bitmap"}]

\* What the rewriter writes are names.
ASSUME NamesAssumption ==
  /\ {"none", "p010", "nv12", "vaapi", "nvdec", "cuda"} \subseteq Names
  /\ {"libx264", "libx265", "h264_vaapi", "hevc_vaapi", "h264_nvenc", "hevc_nvenc"} \subseteq Names
  /\ {"h264", "hevc", "av1", "libdav1d", "ac3", "eac3", "truehd"} \subseteq Names
  /\ {"scale", "scale_vaapi", "scale_cuda", "hwupload", "hwmap_opencl", "hwmap_back", "format",
      "tonemap", "tonemap_opencl", "tonemap_vaapi", "tonemap_cuda", "overlay", "inlineass",
      "inlineass_sdr", "inlineass_tonemap", "select"} \subseteq Names

ASSUME JobsAssumption ==
  Jobs \subseteq
    [video : PlexVideos, media : Medias, transport : PlexTransports(Names), worker : WorkerKinds,
     env : Envs]

VARIABLES
  job,        \* the task
  argv,       \* the picture's part, as rewritten so far
  transport,  \* the rest
  pc,         \* the next phase
  granted,    \* hwReaccelOK: the Plex Pass gate did not deny
  remux,      \* isOptimizeRemux
  honour,     \* what is kept of Plex's choice: "none", "sw" or "hybrid"
  hwDecode,   \* isHWDecode: Plex's own hardware decode is kept
  reason,     \* why the rewriter gave up, "none" when it did not
  reported    \* where the agent reports progress to

vars == <<job, argv, transport, pc, granted, remux, honour, hwDecode, reason, reported>>

w == job.worker
env == job.env
media == job.media

Reasons ==
  {"none", "subtitles-burn-in", "no-input", "no-decoder", "unknown-decoder", "no-encoder", "no-video-filter",
   "filter-pattern", "unknown-encoder", "unexpected-encoder", "sub-no-inlineass",
   "sub-unmodeled", "sub-bitmap"}

-----------------------------------------------------------------------------
\* What it writes.

\* retargetMapLabel: `-map` follows the graph from label old to label new; a
\* label that is not a number is never old.
retargetMapLabel(v, old, new) ==
  IF old >= 0 /\ v.map = old THEN [v EXCEPT !.map = new] ELSE v

\* Mutant: `-map` keeps the label of the graph that was replaced.
RegraphUnmapped(v, g) == [v EXCEPT !.graph = g]

\* Another graph for the picture, and `-map` after it.
Regraph(v, g) == [retargetMapLabel(v, v.graph.out, g.out) EXCEPT !.graph = g]

Burn(facts, resident, tenBit) ==
  [resident |-> resident, hdr |-> facts.hdr, tenBit |-> tenBit,
   kind |-> facts.kind, sdr |-> facts.sdr]

\* reshapeForeignHWArgv: another backend's argv under this one's names. The
\* decoder's options are looked up in their ordinal form only; a bitmap burn is
\* left to a later phase.
reshapeForeignHWArgv(v, wk) ==
  LET facts == extractGraphFacts(v.graph, "none")
      ten   == graphFeedsTenBit(v.graph) /\ ~ facts.hdr /\ encoderIsHEVC(v)
      named == [v EXCEPT
                  !.accel  = IF @ = "none" \/ v.hex THEN @ ELSE hwaccelName(wk.backend),
                  !.outfmt = IF @ = "none" \/ v.hex THEN @ ELSE hwaccelOutputFormat(wk.backend),
                  !.device = IF @ = "none" THEN @ ELSE initHWDevice(wk.backend)]
      drawn == IF ~ isSWFilterGraph(v.graph) /\ facts.ok /\ facts.kind # "bitmap"
               THEN Regraph(named, Recompose(wk, Burn(facts, TRUE, ten), facts.select))
               ELSE named
  IN [drawn EXCEPT !.enc = Reencoded(@, wk.backend)]

\* reshapeToSoftware: no GPU at all.
reshapeToSoftware(v) ==
  LET facts    == extractGraphFacts(v.graph, "none")
      stripped == [v EXCEPT !.accel = "none", !.outfmt = "none", !.device = "none", !.ocl = FALSE,
                            !.dec = IF @ = "av1" THEN "libdav1d" ELSE @,
                            !.enc = Reencoded(@, "sw")]
  IN IF ~ isSWFilterGraph(v.graph) /\ facts.ok
     THEN Regraph(stripped, Recompose([backend |-> "sw"], Burn(facts, FALSE, FALSE), facts.select))
     ELSE stripped

\* The GPU decodes, and keeps the frames.
Accelerated(v, b) ==
  [v EXCEPT !.accel = hwaccelName(b), !.outfmt = hwaccelOutputFormat(b)]

-----------------------------------------------------------------------------
\* The phases. job never changes.

Init ==
  /\ job \in Jobs
  /\ argv = job.video
  /\ transport = job.transport
  /\ pc = "scrub"
  /\ granted = TRUE
  /\ remux = FALSE
  /\ honour = "none"
  /\ hwDecode = FALSE
  /\ reason = "none"
  /\ reported = NoUrl

Scrubbed(v) == [v EXCEPT !.graph.fonts = FALSE]

\* A bail: Plex's argv, without its font paths and with its transport cleaned.
Bail(why) ==
  /\ argv' = Scrubbed(job.video)
  /\ transport' = Bailed(job.transport, env, why)
  /\ reason' = why
  /\ pc' = "done"
  /\ UNCHANGED <<job, granted, remux, honour, hwDecode, reported>>

Advance(to) ==
  /\ pc' = to
  /\ UNCHANGED <<job, transport, reason, reported>>

\* Font paths of Plex's host go first; then Plex's OpenCL tone mapping is
\* brought to the worker's kind, and a remux is recognised.
Scrub ==
  /\ pc = "scrub"
  /\ LET v == [Scrubbed(argv) EXCEPT !.graph = substituteOpenCLTonemap(w, @)]
     IN /\ argv' = v
        /\ remux' = isOptimizeRemux(v, w.backend)
        /\ Advance(IF remux' THEN "tail" ELSE "gate")
  /\ UNCHANGED <<granted, honour, hwDecode>>

\* A file of subtitles is drawn by a filter that cannot move.
Drawn == Has(argv.graph, {"subtitles"})

BailSubtitles == pc = "gate" /\ Drawn /\ Bail("subtitles-burn-in")

BailNoInput == pc = "gate" /\ ~ Drawn /\ ~ argv.input /\ Bail("no-input")

\* Mutant: Plex Pass is not asked for.
GateOpen ==
  /\ pc = "gate"
  /\ ~ Drawn
  /\ argv.input
  /\ granted' = TRUE
  /\ Advance("reshape")
  /\ UNCHANGED <<argv, remux, honour, hwDecode>>

\* Only hardware for an argv that had none needs a Plex Pass.
Gate ==
  /\ pc = "gate"
  /\ ~ Drawn
  /\ argv.input
  /\ granted' = (env.force /\ detectSourceBackend(argv) = "sw" => env.pass)
  /\ Advance("reshape")
  /\ UNCHANGED <<argv, remux, honour, hwDecode>>

Reshape ==
  /\ pc = "reshape"
  /\ argv' = CASE w.backend = "sw" -> reshapeToSoftware(argv)
               [] /\ w.backend # "sw"
                  /\ granted
                  /\ detectSourceBackend(argv) \in {"vaapi", "nvenc"} \ {w.backend}
                    -> reshapeForeignHWArgv(argv, w)
               [] OTHER -> argv
  /\ Advance("decode")
  /\ UNCHANGED <<granted, remux, honour, hwDecode>>

-----------------------------------------------------------------------------
\* The decoder.

forceHW == env.force /\ granted /\ w.backend # "sw"
plexSWEncoder == argv.enc \in SWEncoders

\* What of Plex's choice is kept: all of it in software, or its hardware decode
\* with its software encode.
Honour ==
  CASE plexSWEncoder /\ argv.accel = "none" /\ ~ forceHW -> "sw"
    [] plexSWEncoder /\ argv.accel # "none" /\ ~ forceHW -> "hybrid"
    [] OTHER -> "none"

BailNoDecoder == pc = "decode" /\ argv.dec = "none" /\ Bail("no-decoder")

IsShort == argv.dec \in hwDecodeShortCodecs(w.backend)

\* A decoder that cannot be moved to the GPU, or whose encoder is not software
\* although nothing decodes in hardware.
BailUnknownDecoder ==
  /\ pc = "decode"
  /\ argv.dec # "none"
  /\ Honour # "sw"
  /\ IF IsShort
     THEN argv.accel = "none" /\ ~ plexSWEncoder
     ELSE argv.dec \notin DOMAIN decoderMap(w.backend)
  /\ Bail("unknown-decoder")

DecoderSet(v, hw) ==
  /\ argv' = v
  /\ honour' = Honour
  /\ hwDecode' = hw
  /\ Advance("device")
  /\ UNCHANGED <<granted, remux>>

KeepDecoder ==
  /\ pc = "decode"
  /\ argv.dec # "none"
  /\ \/ Honour = "sw" /\ DecoderSet(argv, FALSE)
     \/ Honour # "sw" /\ IsShort /\ argv.accel # "none" /\ DecoderSet(argv, TRUE)

UpgradeDecoder ==
  /\ pc = "decode"
  /\ Honour # "sw"
  /\ \/ IsShort /\ argv.accel = "none" /\ plexSWEncoder
     \/ argv.dec \in DOMAIN decoderMap(w.backend)
  /\ DecoderSet(Accelerated([argv EXCEPT !.dec = IF IsShort THEN @ ELSE decoderMap(w.backend)[@]],
                            w.backend),
                FALSE)

-----------------------------------------------------------------------------
\* The device, and the encoder's place.

Driverless(d) == IF d = "vaapi+driver" THEN "vaapi" ELSE d

\* One of another backend is replaced, a driver is not named, and one that is
\* missing is added.
DeviceFor(v) ==
  [v EXCEPT !.device = IF Driverless(@) # initHWDevice(w.backend)
                       THEN initHWDevice(w.backend) ELSE Driverless(@)]

SetDevice ==
  /\ pc = "device"
  /\ argv.enc # "none"
  /\ argv' = IF honour = "sw" THEN [argv EXCEPT !.device = "none"] ELSE DeviceFor(argv)
  /\ Advance(IF honour \in {"sw", "hybrid"} THEN "resident"
             ELSE IF ~ hwDecode \/ (forceHW /\ plexSWEncoder) THEN "picture" ELSE "encoder")
  /\ UNCHANGED <<granted, remux, honour, hwDecode>>

BailNoEncoder == pc = "device" /\ argv.enc = "none" /\ Bail("no-encoder")

-----------------------------------------------------------------------------
\* A software picture moves to the GPU: rewriteVideoFilter and the encoder.

Sub == detectSubtitleSource(argv, media)

LeadsWithVideo(g) == g.side = "none" /\ g.lead # "none"

PictureFacts == extractGraphFacts(argv.graph, Sub)

Rewritable == Leads(argv.graph, "scale") /\ PictureFacts.ok

BailNoVideoFilter ==
  pc = "picture" /\ ~ LeadsWithVideo(argv.graph) /\ Bail("no-video-filter")

BailFilterPattern ==
  pc = "picture" /\ LeadsWithVideo(argv.graph) /\ ~ Rewritable /\ Bail("filter-pattern")

BailUnknownEncoder ==
  pc = "picture" /\ LeadsWithVideo(argv.graph) /\ Rewritable /\ ~ plexSWEncoder
  /\ Bail("unknown-encoder")

MovePicture ==
  /\ pc = "picture"
  /\ LeadsWithVideo(argv.graph)
  /\ Rewritable
  /\ plexSWEncoder
  /\ argv' = [Regraph(argv, Recompose(w, Burn(PictureFacts, FALSE, FALSE), PictureFacts.select))
                EXCEPT !.enc = encoderMap(w.backend)[@]]
  /\ Advance("resident")
  /\ UNCHANGED <<granted, remux, honour, hwDecode>>

-----------------------------------------------------------------------------
\* A hardware picture stays as Plex drew it, but for a burned subtitle.

HardwareEncoder == pc = "encoder" /\ argv.enc \in HWEncoders(w.backend)

BailUnexpectedEncoder ==
  pc = "encoder" /\ argv.enc \notin HWEncoders(w.backend) /\ Bail("unexpected-encoder")

InlineassGraph == Has(argv.graph, Inlineass) /\ LeadsWithVideo(argv.graph)

BailSubNoInlineass ==
  HardwareEncoder /\ Sub = "text" /\ ~ InlineassGraph /\ Bail("sub-no-inlineass")

BailSubUnmodeled ==
  /\ HardwareEncoder
  /\ Sub = "text"
  /\ InlineassGraph
  /\ ~ (PictureFacts.ok /\ PictureFacts.kind = "text")
  /\ Bail("sub-unmodeled")

BailSubBitmap == HardwareEncoder /\ Sub = "bitmap" /\ Bail("sub-bitmap")

\* Mutant: the encoder is not looked at.
KeepsTenBitAlways(hdrSource, facts) ==
  (hdrSource \/ graphFeedsTenBit(argv.graph)) /\ ~ facts.hdr

\* Ten bits stay ten when Plex maps no tone and the encoder is an HEVC one.
KeepsTenBit(hdrSource, facts) ==
  (hdrSource \/ graphFeedsTenBit(argv.graph)) /\ ~ facts.hdr /\ encoderIsHEVC(argv)

Resident(v) ==
  IF v.accel = "none" THEN v ELSE [v EXCEPT !.outfmt = hwaccelOutputFormat(w.backend)]

\* A text burn: in the memory the frames are decoded to, without a way round.
BurnText ==
  /\ HardwareEncoder
  /\ Sub = "text"
  /\ InlineassGraph
  /\ PictureFacts.ok
  /\ PictureFacts.kind = "text"
  /\ argv' = Regraph(Resident(argv),
                     Recompose(w, Burn(PictureFacts, TRUE, KeepsTenBit(media.hdr, PictureFacts)),
                               PictureFacts.select))
  /\ Advance("resident")
  /\ UNCHANGED <<granted, remux, honour, hwDecode>>

OverlaySpec ==
  LET hdr      == Has(argv.graph, {"tonemap_opencl"})
      resident == argv.accel # "none"
  IN [resident |-> resident, hdr |-> hdr, kind |-> "bitmap", sdr |-> FALSE,
      tenBit |-> KeepsTenBit(media.hdr, [hdr |-> hdr])]

\* Plex's overlay of a bitmap subtitle becomes the burn a text one gets; the
\* stream it takes is named, for ffmpeg to decode.
BurnOverlay ==
  /\ HardwareEncoder
  /\ Sub = "none"
  /\ detectBitmapOverlayBurn(argv.graph)
  /\ argv' = [Regraph(Resident(argv), composeBurn(w, OverlaySpec)) EXCEPT !.ia = "embedded"]
  /\ Advance("resident")
  /\ UNCHANGED <<granted, remux, honour, hwDecode>>

KeepPicture ==
  /\ HardwareEncoder
  /\ Sub = "none"
  /\ ~ detectBitmapOverlayBurn(argv.graph)
  /\ Advance("resident")
  /\ UNCHANGED <<argv, granted, remux, honour, hwDecode>>

-----------------------------------------------------------------------------
\* The last passes over the picture.

\* gpuResidentOpenCLTonemap.
OpenCLResident(v) ==
  [v EXCEPT !.graph = gpuResidentGraph(@),
            !.ocl = @ \/ v.device \in {"vaapi", "vaapi+driver"},
            !.outfmt = IF @ = "none" THEN "vaapi" ELSE @]

\* ensureHEVCMain10: on the graph the encoder will get.
ensureHEVCMain10(v) ==
  [v EXCEPT !.main10 = @ \/ (encoderIsHEVC(v) /\ graphFeedsTenBit(v.graph))]

SettlePicture ==
  /\ pc = "resident"
  /\ LET v == ensureHEVCMain10(
                IF w.backend = "vaapi" /\ argv.accel # "none" /\ Has(argv.graph, {"tonemap_opencl"})
                THEN OpenCLResident(argv) ELSE argv)
     IN argv' = [v EXCEPT !.sei = @ \/ (honour = "none" /\ v.keyframes)]
  /\ Advance("tail")
  /\ UNCHANGED <<granted, remux, honour, hwDecode>>

\* stripInlineassDecodeSink: a stream of the main input is decoded where it is
\* burned; that of a sidecar still needs its sink.
stripInlineassDecodeSink(v) == [v EXCEPT !.sink = @ /\ v.ia # "embedded"]

FinishTransport ==
  /\ pc = "tail"
  /\ LET t == CommonTail(transport, env)
     IN transport' = t.transport /\ reported' = t.reported
  /\ argv' = IF remux THEN argv ELSE stripInlineassDecodeSink(argv)
  /\ pc' = "done"
  /\ UNCHANGED <<job, granted, remux, honour, hwDecode, reason>>

Bails ==
  \/ BailSubtitles \/ BailNoInput \/ BailNoDecoder \/ BailUnknownDecoder \/ BailNoEncoder
  \/ BailNoVideoFilter \/ BailFilterPattern \/ BailUnknownEncoder
  \/ BailUnexpectedEncoder \/ BailSubNoInlineass \/ BailSubUnmodeled \/ BailSubBitmap

Next ==
  \/ Scrub \/ Gate \/ Reshape \/ KeepDecoder \/ UpgradeDecoder \/ SetDevice
  \/ MovePicture \/ BurnText \/ BurnOverlay \/ KeepPicture \/ SettlePicture
  \/ FinishTransport \/ Bails

Spec == Init /\ [][Next]_vars

-----------------------------------------------------------------------------
(***************************************************************************)
(* Properties.                                                             *)
(***************************************************************************)
Rewritten == pc = "done" /\ reason = "none" /\ ~ remux

\* Every phase leaves an argv, and the rewriter's own state in its range.
TypeOK ==
  /\ argv \in Videos
  /\ transport \in TransportOf(Names)
  /\ reported \in Urls
  /\ pc \in {"scrub", "gate", "reshape", "decode", "device", "picture", "encoder",
             "resident", "tail", "done"}
  /\ {granted, remux, hwDecode} \subseteq BOOLEAN
  /\ honour \in {"none", "sw", "hybrid"}
  /\ reason \in Reasons

\* The rewriter looks up the decoder's options of another backend in their
\* ordinal form only (source_backend.go:245).
HexForeign ==
  job.video.hex /\ job.video.accel \notin {"none", hwaccelName(w.backend)}

\* Neither reshape gives up on a graph of another backend that it cannot read:
\* the rest of the argv moves, the graph stays (source_backend.go:259,
\* rewriter_sw.go:185).
UnreadForeign ==
  /\ ~ graphNodesModeled(job.video.graph)
  /\ detectSourceBackend(job.video) \notin {"sw", "none", w.backend}

\* Another backend's graph is drawn anew for frames that its decoder left on the
\* GPU; where it did not, nothing uploads them (source_backend.go:251-271).
DownloadedForeign ==
  /\ job.video.outfmt = "none"
  /\ job.video.enc \notin SWEncoders
  /\ w.backend # "sw"
  /\ detectSourceBackend(job.video) \notin {"sw", "none", w.backend}

\* A rewritten argv is one the worker's ffmpeg can run: every filter and the
\* encoder find the frames in the memory they work on, from a decoder and a
\* device of this worker's kind.
FramesMatch ==
  Rewritten /\ ~ HexForeign /\ ~ UnreadForeign /\ ~ DownloadedForeign =>
    /\ Memory(argv.graph.nodes, Decoded(argv), Device(w.backend)) \in Taken(argv.enc)
    /\ argv.accel \in {"none", hwaccelName(w.backend)}
    /\ argv.device = (IF honour = "sw" THEN "none" ELSE initHWDevice(w.backend))
    /\ Has(argv.graph, {"tonemap_opencl"}) => argv.ocl

\* An overlay of a bitmap subtitle in HDR, whose tone mapping is not known
\* under the names tonemap_vaapi and tonemap_cuda (rewriter.go:1095).
ForgottenOverlay ==
  LET g == substituteOpenCLTonemap(w, job.video.graph)
  IN detectBitmapOverlayBurn(g) /\ ToneMaps(g) /\ ~ Has(g, {"tonemap_opencl"})

\* The picture a client sees is the one Plex asked for: tones are mapped, a
\* subtitle is burned and a seek cuts exactly when Plex's graph did; and an argv
\* that is given up, however late, is Plex's whole.
PictureKept ==
  /\ TypeOK
  /\ Rewritten =>
       /\ ForgottenOverlay \/ (ToneMaps(argv.graph) <=> ToneMaps(job.video.graph))
       /\ Burns(argv.graph) <=> Burns(job.video.graph)
       /\ Has(argv.graph, {"select"}) <=> Has(job.video.graph, {"select"})
  /\ reason # "none" => pc = "done" /\ argv = Scrubbed(job.video)

\* rewriter.go:550: tones are mapped iff Plex's argv maps them, for the worker
\* the documentation lets an operator configure (SCALEPLEX_TONEMAP=vaapi).
ToneMappedIffPlexDoes ==
  Rewritten => (ToneMaps(argv.graph) <=> ToneMaps(job.video.graph))

\* An AMD worker maps tones in the burn itself, after the format the profile
\* is read from.
MapsInBurn == w.amd /\ Has(argv.graph, {"inlineass_sdr", "inlineass_tonemap"})

\* An HEVC encoder of a GPU is told main10 exactly when it is handed ten bits,
\* and an H.264 one is never handed ten.
ProfileMatches ==
  Rewritten /\ ~ MapsInBurn /\ hwEncoderCodec(argv.enc) # "none" =>
    LET ten == TenBits(argv.graph, media.bits)
    IN IF encoderIsHEVC(argv) THEN argv.main10 <=> ten ELSE ~ ten

\* What of a pipeline runs on a GPU.
Axes(v) == [decode |-> v.accel # "none", encode |-> v.enc \notin SWEncoders]
Forced ==
  env.force /\ w.backend # "sw" /\ (detectSourceBackend(job.video) = "sw" => env.pass)

\* Plex's choice of hardware or software is kept on each axis, unless the
\* worker has no GPU or its operator forces the GPU - which a server without a
\* Plex Pass never gets for a software pipeline.
AxesHonoured ==
  Rewritten =>
    Axes(argv) = IF w.backend = "sw" THEN [decode |-> FALSE, encode |-> FALSE]
                 ELSE IF Forced THEN [decode |-> TRUE, encode |-> TRUE]
                 ELSE Axes(job.video)

\* What the graph needs and gives is connected: the output takes the label it
\* ends in, and not the sound's; a subtitle that is burned outside an overlay has
\* its stream named, and a sidecar's is decoded by the sink Plex gave it.
GraphConnected ==
  /\ Rewritten => argv.map = argv.graph.out /\ argv.map # argv.aud
  /\ pc = "done" /\ Has(argv.graph, {"inlineass", "inlineass_sdr"}) =>
       /\ argv.ia # "none"
       /\ argv.ia = "sidecar" => argv.sink

\* A decoder of the sound whose option names the stream by its id keeps its EAE
\* name, in an argv that is rewritten as in one that is given up; only the bail
\* for a missing video decoder drops it (rewriter.go:1644-1659).
HexSound == job.transport.ahex /\ reason # "no-decoder"

\* However the rewriter ends, nothing only Plex's ffmpeg or host knows is left:
\* no EAE codec (but HexSound's), bitstream filter, progress address or font
\* path, and with a relay no address of the loopback.
NothingPlexOnly ==
  pc = "done" =>
    /\ transport.aenc \notin EAE /\ (HexSound \/ transport.adec \notin EAE)
    /\ ~ transport.prefix /\ ~ transport.framedrop /\ ~ argv.graph.fonts
    /\ transport.progress = NoUrl
    /\ env.base => \A u \in {transport.manifest, transport.throttle}
                            \cup {transport.lists[i] : i \in DOMAIN transport.lists} :
                     u.host # "loopback"

\* Through the relay PMS gets what Plex's own ffmpeg would have sent it: on its own
\* address, the token there once and nothing of the relay's; the chunks of a
\* transport stream at the times their numbers say, whether or not the muxer keeps
\* the media's (an argv that is given up keeps its muxer's); any other list, of
\* subtitles or of matroska, as the muxer wrote it, though its address said how
\* long a segment is; and progress by a PUT, however the agent or ffmpeg reports
\* it.
RelayServes ==
  pc = "done" /\ env.base =>
    /\ \A i \in DOMAIN transport.lists, first \in {0, 3}, copyts \in BOOLEAN :
         LET u == transport.lists[i]
             list == Listed(ChunkName(transport, u), first, copyts)
             timed == reason = "none" /\ ~ u.subs /\ transport.mux = "ssegment"
             got == forward(Posted("manifest", u, list))
         IN u.host = "relay" =>
              /\ got.url = [Url("loopback", u.subs) EXCEPT !.tokens = IF env.token THEN 1 ELSE 0]
              /\ got.rows = IF timed THEN Listed("media", first, TRUE) ELSE list
    /\ reason = "none" /\ job.transport.progress # NoUrl =>
         /\ reported.host = "relay" /\ (env.nothrottle \/ transport.throttle # NoUrl)
         /\ forward(Posted("progress", reported, << >>)).method = "PUT"

=============================================================================
