----------------------------- MODULE MCRewriter -----------------------------
(***************************************************************************)
(* The argvs of Plex's replay corpus, by shape: software, hybrid and full  *)
(* hardware pipelines of either GPU backend, with and without tone mapping *)
(* and a burned subtitle, on each kind of worker; and argvs no worker can  *)
(* take.                                                                   *)
(***************************************************************************)
EXTENDS Rewriter

MCNames == STRING

N(f) == Node(f, "none")
G(side, nodes, out, fonts) ==
  [lead |-> "ordinal", side |-> side, nodes |-> nodes, out |-> out, fonts |-> fonts]

SWPlain == G("none", << N("scale"), N("format") >>, 1, FALSE)
SWHDR == G("none", << N("scale"), Node("tonemap", "p010"), N("format") >>, 2, FALSE)
SWText == G("none", << N("scale"), N("format"), N("inlineass") >>, 2, TRUE)
SWHDRText ==
  G("none", << N("scale"), Node("tonemap", "p010"), N("format"), N("inlineass") >>, 3, TRUE)
SWBitmap == G("sw", << N("scale"), N("format"), N("overlay") >>, 3, FALSE)
SWFile == G("none", << N("scale"), N("format"), N("subtitles") >>, 2, FALSE)
SWCropped == G("none", << N("scale"), N("crop"), N("format") >>, 2, FALSE)

VAPlain(pix) == G("none", << N("hwupload"), Node("scale_vaapi", pix), N("hwupload") >>, 2, FALSE)
OpenCL == << N("hwmap_opencl"), Node("tonemap_opencl", "nv12"), N("hwmap_back") >>
VAHDR ==
  G("none", << N("hwupload"), Node("scale_vaapi", "p010") >> \o OpenCL \o << N("hwupload") >>, 5, FALSE)
VAText(pix) ==
  G("none", << N("hwupload"), Node("scale_vaapi", pix), Node("hwdownload", pix), N("inlineass"),
               N("hwupload") >>, 4, TRUE)
VATextSeek ==
  G("none", << N("hwupload"), Node("scale_vaapi", "nv12"), Node("hwdownload", "nv12"), N("inlineass"),
               N("select"), N("hwupload") >>, 5, TRUE)
VAHDRText ==
  G("none", << N("hwupload"), Node("scale_vaapi", "p010"), N("hwmap_opencl"),
               Node("tonemap_opencl", "nv12"), Node("hwdownload", "nv12"), N("inlineass"),
               N("hwupload") >>, 6, TRUE)
VABitmap(pix, chain, last) ==
  G("hw", << N("hwupload"), Node("scale_vaapi", pix) >> \o chain
            \o << Node("overlay_vaapi", "none"), Node("scale_vaapi", "nv12"), N("hwupload") >>, last, FALSE)

CUPlain(pix) == G("none", << N("hwupload"), Node("scale_cuda", pix) >>, 1, FALSE)
CUHDR ==
  G("none", << N("hwupload"), Node("scale_cuda", "p010"), Node("tonemap_cuda", "nv12") >>, 2, FALSE)
CUText(pix) ==
  G("none", << N("hwupload"), Node("scale_cuda", pix), Node("hwdownload", pix), N("inlineass"),
               N("hwupload") >>, 4, TRUE)
CUHDRText ==
  G("none", << N("hwupload"), Node("scale_cuda", "p010"), Node("tonemap_cuda", "nv12"),
               Node("hwdownload", "nv12"), N("inlineass"), N("hwupload") >>, 5, TRUE)

CUBitmap(pix, chain, last) ==
  G("hw", << N("hwupload"), Node("scale_cuda", pix) >> \o chain
            \o << Node("overlay_cuda", "none"), Node("scale_cuda", "nv12"), N("hwupload") >>, last, FALSE)

-----------------------------------------------------------------------------
Video(dec, enc, accel, outfmt, device, graph, ia) ==
  [input |-> TRUE, dec |-> dec, enc |-> enc, accel |-> accel, outfmt |-> outfmt, hex |-> FALSE,
   device |-> device, ocl |-> FALSE, graph |-> graph, map |-> graph.out, aud |-> graph.out + 1,
   ia |-> ia, sink |-> ia # "none", main10 |-> FALSE, sei |-> enc \in {"libx265", "hevc_vaapi"},
   keyframes |-> enc # "copy"]

SW(dec, enc, graph, ia) == Video(dec, enc, "none", "none", "none", graph, ia)
Hybrid(graph, ia) == Video("hevc", "libx264", "vaapi", "none", "vaapi+driver", graph, ia)
VA(enc, graph, ia) == Video("hevc", enc, "vaapi", "vaapi", "vaapi+driver", graph, ia)
CU(enc, graph, ia) == Video("hevc", enc, "nvdec", "cuda", "cuda", graph, ia)

\* hdr and bits of the source, and the kind of the subtitle a probe finds.
SDR == [hdr |-> FALSE, bits |-> 8, sub |-> "text"]
SDR10 == [SDR EXCEPT !.bits = 10]
HDR == [hdr |-> TRUE, bits |-> 10, sub |-> "text"]
Bitmap(m) == [m EXCEPT !.sub = "bitmap"]

Of(v, m) == [video |-> v, media |-> m]

HexInput ==
  Of([SW("h264", "libx264", SWText, "embedded") EXCEPT !.hex = TRUE, !.graph.lead = "hex"], SDR)

SoftwareInputs ==
  {Of(SW(d, e, SWPlain, "none"), SDR) : d \in {"h264", "libdav1d"}, e \in SWEncoders}
  \cup {Of(SW("hevc", e, SWHDR, "none"), HDR) : e \in SWEncoders}
  \cup {Of(SW("h264", "libx264", SWText, ia), SDR) : ia \in {"embedded", "sidecar"}}
  \cup {Of(SW("hevc", "libx264", SWHDRText, "embedded"), HDR),
        Of(SW("h264", "libx264", SWText, "embedded"), Bitmap(SDR)),
        Of(SW("h264", "libx264", SWBitmap, "none"), Bitmap(SDR)),
        HexInput,
        Of(SW("h264", "copy", NoGraph, "none"), SDR),
        Of(Hybrid(SWPlain, "none"), SDR), Of(Hybrid(SWHDR, "none"), HDR), Of(Hybrid(SWText, "embedded"), SDR)}

Encoders == {"h264_vaapi", "hevc_vaapi"}

HardwareInputs ==
  {Of(VA(e, VAPlain("nv12"), "none"), SDR) : e \in Encoders}
  \cup {Of(VA("hevc_vaapi", VAPlain("p010"), "none"), m) : m \in {SDR10, HDR}}
  \cup {Of(VA(e, VAHDR, "none"), HDR) : e \in Encoders}
  \cup {Of([VA("h264_vaapi", g, "none") EXCEPT !.outfmt = "none"], HDR) : g \in {VAPlain("nv12"), VAHDR}}
  \cup {Of(VA(e, VAText("nv12"), ia), SDR) : e \in Encoders, ia \in {"embedded", "sidecar"}}
  \cup {Of(VA("hevc_vaapi", VAText("p010"), "embedded"), m) : m \in {SDR10, HDR}}
  \cup {Of(VA("h264_vaapi", VAText("nv12"), "embedded"), HDR)}
  \cup {Of(VA(e, VAHDRText, "embedded"), HDR) : e \in Encoders}
  \cup {Of([VA("h264_vaapi", VAText("nv12"), "embedded") EXCEPT !.hex = TRUE, !.graph.lead = "hex"], SDR),
        Of(VA("h264_vaapi", VATextSeek, "embedded"), SDR),
        Of(VA("h264_vaapi", VAText("nv12"), "embedded"), Bitmap(SDR))}
  \cup {Of(VA(e, VABitmap("nv12", << >>, 4), "none"), SDR) : e \in Encoders}
  \cup {Of(VA(e, VABitmap("p010", OpenCL, 7), "none"), HDR) : e \in Encoders}
  \cup {Of(CU(e, CUPlain("nv12"), "none"), SDR) : e \in {"h264_nvenc", "hevc_nvenc"}}
  \cup {Of(CU("hevc_nvenc", CUPlain("p010"), "none"), HDR),
        Of(CU("h264_nvenc", CUText("nv12"), "embedded"), SDR),
        Of(CU("hevc_nvenc", CUText("p010"), "embedded"), SDR10)}
  \cup {Of(CU("h264_nvenc", CUBitmap("nv12", << >>, 4), "none"), SDR),
        Of(CU("h264_nvenc", CUBitmap("p010", << Node("tonemap_cuda", "nv12") >>, 5), "none"), HDR)}
  \cup {Of(CU(e, CUHDR, "none"), HDR) : e \in {"h264_nvenc", "hevc_nvenc"}}
  \cup {Of(CU(e, CUHDRText, "embedded"), HDR) : e \in {"h264_nvenc", "hevc_nvenc"}}

\* What must be given up, at one phase or another.
OddInputs ==
  {Of([SW("h264", "libx264", SWPlain, "none") EXCEPT !.input = FALSE], SDR),
   Of(SW("h264", "libx264", SWFile, "none"), SDR),
   Of(SW("none", "none", NoGraph, "none"), SDR),
   Of(SW("hevc", "none", NoGraph, "none"), SDR),
   Of(Video("hevc", "none", "vaapi", "vaapi", "vaapi", NoGraph, "none"), SDR),
   Of(SW("mpeg2video", "mpeg2video", SWPlain, "none"), SDR),
   Of(SW("libdav1d", "mpeg2video", SWPlain, "none"), SDR),
   Of(SW("libdav1d", "libx264", SWCropped, "none"), SDR),
   Of(VA("mpeg2_vaapi", VAPlain("nv12"), "none"), SDR),
   Of([VA("h264_vaapi", VAText("nv12"), "embedded") EXCEPT !.graph.lead = "none"], SDR),
   Of(VA("h264_vaapi", G("none", VAText("nv12").nodes \o << N("crop") >>, 5, TRUE), "embedded"), SDR)}

-----------------------------------------------------------------------------
Worker(b, amd, opencl) == [backend |-> b, amd |-> amd, opencl |-> opencl]
MCWorkers ==
  {Worker("vaapi", FALSE, TRUE), Worker("vaapi", FALSE, FALSE), Worker("vaapi", TRUE, TRUE),
   Worker("nvenc", FALSE, FALSE), Worker("sw", FALSE, FALSE)}

Env(b, t, n, f, p) == [base |-> b, token |-> t, nothrottle |-> n, force |-> f, pass |-> p]
Lists == {<< >>, << Url("loopback", FALSE) >>, << Url("loopback", TRUE) >>,
          << Url("loopback", FALSE), Url("loopback", TRUE) >>, << Url("elsewhere", FALSE) >>}

Plain ==
  [mux |-> "dash", adec |-> "none", ahex |-> FALSE, aenc |-> "aac", prefix |-> FALSE,
   framedrop |-> FALSE, lists |-> << >>, manifest |-> Url("loopback", FALSE), progress |-> Url("loopback", FALSE),
   throttle |-> NoUrl]

AnyTransports ==
  [mux : {"dash", "ssegment", "segment"}, adec : {"none", "eac3_eae", "truehd_eae"},
   ahex : BOOLEAN, aenc : {"aac", "eac3_eae", "truehd_eae"}, prefix : BOOLEAN,
   framedrop : BOOLEAN, lists : Lists, manifest : {NoUrl, Url("loopback", FALSE)},
   progress : {NoUrl, Url("loopback", FALSE)},
   throttle : {NoUrl, Url("relay", FALSE)}]

\* The lists of the picture belong to HLS, those of subtitles to all. One decoder
\* named by its stream's id is enough, and of matroska one sound.
Transports ==
  {t \in AnyTransports :
     /\ t.mux = "dash" => \A i \in DOMAIN t.lists : t.lists[i].subs
     /\ t.ahex => t.adec = "eac3_eae" /\ t.mux # "segment"
     /\ t.mux = "segment" => t.adec = "none" /\ t.aenc = "aac"}

Job(i, t, wk, e) ==
  [video |-> i.video, media |-> i.media, transport |-> t, worker |-> wk, env |-> e]

\* Plex names the streams of an argv one way.
NamedOneWay(v, t) == v.dec = "none" \/ (v.hex <=> t.ahex)

\* Every picture over one transport, and every transport under a few pictures.
MCJobs ==
  {Job(i, Plain, wk, Env(TRUE, TRUE, FALSE, f, p)) :
     i \in SoftwareInputs \cup HardwareInputs \cup OddInputs,
     wk \in MCWorkers, f \in BOOLEAN, p \in BOOLEAN}
  \cup
  {j \in {Job(i, t, Worker("vaapi", FALSE, TRUE), Env(b, k, n, FALSE, FALSE)) :
            i \in {Of(SW("h264", "libx264", SWPlain, "none"), SDR),
                   Of(SW("h264", "copy", NoGraph, "none"), SDR),
                   Of(SW("none", "none", NoGraph, "none"), SDR), HexInput},
            t \in Transports, b \in BOOLEAN, k \in BOOLEAN, n \in BOOLEAN} :
     NamedOneWay(j.video, j.transport)}

=============================================================================
