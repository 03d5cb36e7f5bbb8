-------------------------------- MODULE Relay --------------------------------
(***************************************************************************)
(* The relay beside PMS (shim/cmd/relay/main.go): a request to one of the  *)
(* addresses of module Transport, as PMS gets it.  It keeps no state.      *)
(*                                                                         *)
(* A request r has a method, a path ("progress", "manifest" or "other"),   *)
(* a url, and the rows of the segment list that is its body.               *)
(***************************************************************************)
EXTENDS Transport

\* -segment_time, in seconds.
SegTime == 8

Row(name, n, start) == [name |-> name, n |-> n, start |-> start, end |-> start + SegTime]

\* What a muxer calls its chunks: media-N.ts in a transport stream, chunk-N in
\* matroska, sub-chunk-N for the subtitles.
ChunkName(t, u) ==
  IF u.subs THEN "sub-chunk" ELSE IF t.mux = "ssegment" THEN "media" ELSE "chunk"

\* What a muxer lists from its number first on: in times of the media when it
\* keeps them, from zero when it does not.
Listed(name, first, copyts) ==
  [i \in 1..2 |-> Row(name, first + i - 1, ((i - 1) + IF copyts THEN first ELSE 0) * SegTime)]

\* ffmpeg posts; the path of a list is the same for picture and subtitles.
Posted(path, u, rows) == [method |-> "POST", path |-> path, url |-> u, rows |-> rows]

\* Mutant: a row's place in the list is taken for the number of its chunk.
rewriteSegmentListCSVByPlace(rows) ==
  [i \in DOMAIN rows |->
     IF rows[i].name = "media" THEN Row("media", rows[i].n, (i - 1) * SegTime) ELSE rows[i]]

\* A chunk that is called media-N.ts is given the times its number says; any other
\* row stays (csvRowRE).
rewriteSegmentListCSV(rows) ==
  [i \in DOMAIN rows |->
     IF rows[i].name = "media" THEN Row("media", rows[i].n, rows[i].n * SegTime) ELSE rows[i]]

\* The handler: ffmpeg's posted progress becomes the PUT that PMS knows, and the
\* segment duration, which is not for PMS, comes off the address.
forward(r) ==
  [method |-> IF r.method = "POST" /\ r.path = "progress" THEN "PUT" ELSE r.method,
   path   |-> r.path,
   url    |-> [r.url EXCEPT !.host = "loopback", !.segTimes = 0],
   rows   |-> IF r.method = "POST" /\ r.path = "manifest" /\ r.url.segTimes > 0
              THEN rewriteSegmentListCSV(r.rows) ELSE r.rows]

=============================================================================
