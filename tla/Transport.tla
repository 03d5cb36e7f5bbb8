------------------------------ MODULE Transport ------------------------------
(***************************************************************************)
(* The part of a Plex argv that is not about the picture: the sound, and   *)
(* the addresses ffmpeg reports to.  Plex writes it for its own host, with *)
(* options only its own ffmpeg has; what is left must run on a worker.     *)
(*                                                                         *)
(* A transport t has                                                       *)
(*   mux       "dash", "ssegment" or "segment"                             *)
(*   adec      the decoder the argv asks for the sound, "none" for none    *)
(*   ahex      its option names the stream `#0xNN`, not by an ordinal      *)
(*   aenc      the encoder of the sound                                    *)
(*   prefix    an -eae_prefix is there                                     *)
(*   framedrop a `framedrop` bitstream filter is there                     *)
(*   lists     the -segment_list addresses                                 *)
(*   manifest, progress, throttle                                          *)
(*             the address of -manifest_name, -progressurl and             *)
(*             -canthrottleurl, NoUrl when the option is missing           *)
(* and the task's environment e the address of the relay (base), a Plex    *)
(* token, and the switch that turns throttling off (nothrottle).           *)
(***************************************************************************)
EXTENDS Naturals, Sequences

\* The addresses that matter: where they lead, whether of a subtitle list, and
\* how often the token and the segment duration have been added.
Url(host, subs) == [host |-> host, subs |-> subs, tokens |-> 0, segTimes |-> 0]
NoUrl == Url("none", FALSE)

Urls ==
  [host : {"none", "loopback", "relay", "elsewhere"}, subs : BOOLEAN, tokens : Nat, segTimes : Nat]
TransportOf(codecs) ==
  [mux : {"dash", "ssegment", "segment"}, adec : codecs, ahex : BOOLEAN, aenc : codecs,
   prefix : BOOLEAN, framedrop : BOOLEAN, lists : Seq(Urls), manifest : Urls,
   progress : Urls, throttle : Urls]

\* What Plex writes: addresses without a token, a list of the picture only for a
\* segment muxer, and no -canthrottleurl but the relay's.
PlexUrls == {Url(host, subs) : host \in {"loopback", "elsewhere"}, subs \in BOOLEAN}
PlexTransports(codecs) ==
  {t \in TransportOf(codecs) :
     /\ t.lists \in Seq(PlexUrls)
     /\ t.mux = "dash" => \A i \in DOMAIN t.lists : t.lists[i].subs
     /\ t.manifest \in PlexUrls \cup {NoUrl}
     /\ t.progress \in {NoUrl, Url("loopback", FALSE)}
     /\ t.throttle \in {NoUrl, Url("relay", FALSE)}}

\* What the token and the base make of an address of Plex's own loopback.
Relayed(u, e) ==
  [u EXCEPT !.host = IF @ = "loopback" THEN "relay" ELSE @, !.tokens = @ + IF e.token THEN 1 ELSE 0]

EAE == {"eac3_eae", "ac3_eae", "truehd_eae"}

Base(codec) ==
  CASE codec = "eac3_eae" -> "eac3"
    [] codec = "ac3_eae" -> "ac3"
    [] codec = "truehd_eae" -> "truehd"
    [] OTHER -> codec

\* A decoder keeps its codec; there is no TrueHD encoder, E-AC-3 replaces it.
eaeBaseFor(codec, decode) ==
  IF ~ decode /\ codec = "truehd_eae" THEN "eac3" ELSE Base(codec)

\* audioCodecFlag: an option that names its stream `#0xNN` is not one of the
\* sound's, and what it asks for is left alone. Plex numbers its outputs.
swapEAEAudioDecoders(t) ==
  [t EXCEPT !.adec = IF t.ahex THEN @ ELSE eaeBaseFor(@, TRUE),
            !.aenc = eaeBaseFor(@, FALSE)]

dropEAEPrefixFlags(t) == [t EXCEPT !.prefix = FALSE]

dropFramedropBSF(t) == [t EXCEPT !.framedrop = FALSE]

\* Here an option is a decoder's whatever it names its stream by.
dropInputAudioDecoderHints(t) == [t EXCEPT !.adec = "none", !.prefix = FALSE]

-----------------------------------------------------------------------------
\* Addresses.

\* variant "hls" takes the lists of the picture and tells the relay how long a
\* segment is, "side-channel" those of subtitles.
rewriteSegmentList(t, e, variant) ==
  LET Wanted(u) == u.host = "loopback" /\ (u.subs <=> variant = "side-channel")
      Told(u)   == IF variant = "hls" THEN [u EXCEPT !.segTimes = @ + 1] ELSE u
  IN IF ~ e.base THEN t
     ELSE [t EXCEPT !.lists = [i \in DOMAIN @ |->
                                 IF Wanted(@[i]) THEN Told(Relayed(@[i], e)) ELSE @[i]]]

\* The manifest goes to the relay, or nowhere.
rewriteManifestName(t, e) ==
  [t EXCEPT !.manifest = IF @.host = "loopback" /\ e.base THEN Relayed(@, e) ELSE NoUrl]

\* The agent reports in ffmpeg's place: result.reported is where to. ffmpeg
\* itself asks that address whether it may be throttled.
capturePMSProgressURL(t, e) ==
  IF t.progress = NoUrl
  THEN [transport |-> t, reported |-> NoUrl]
  ELSE LET to == IF e.base THEN Relayed(t.progress, e) ELSE NoUrl
           ask == e.base /\ t.throttle = NoUrl /\ ~ e.nothrottle
       IN [ transport |-> [t EXCEPT !.progress = NoUrl,
                                    !.throttle = IF ask THEN to ELSE @],
            reported  |-> to ]

-----------------------------------------------------------------------------
\* The two ways out of the rewriter.

\* scrubPlexFlagsOnBail: an argv that is not rewritten still loses what would
\* stop ffmpeg on a worker.
scrubPlexFlagsOnBail(t, e) ==
  LET Wanted(u) == u.host = "loopback" /\ e.base
  IN rewriteManifestName(
       [t EXCEPT !.progress = NoUrl,
                 !.lists = [i \in DOMAIN @ |-> IF Wanted(@[i]) THEN Relayed(@[i], e) ELSE @[i]]],
       e)

\* Mutant: a bail keeps the bitstream filter only Plex's ffmpeg has.
BailedKeepingFramedrop(t, e, reason) ==
  LET scrubbed == scrubPlexFlagsOnBail(t, e)
      hinted   == IF reason = "no-decoder" THEN dropInputAudioDecoderHints(scrubbed) ELSE scrubbed
  IN dropEAEPrefixFlags(swapEAEAudioDecoders(hinted))

Bailed(t, e, reason) ==
  LET scrubbed == scrubPlexFlagsOnBail(t, e)
      hinted   == IF reason = "no-decoder" THEN dropInputAudioDecoderHints(scrubbed) ELSE scrubbed
  IN dropFramedropBSF(dropEAEPrefixFlags(swapEAEAudioDecoders(hinted)))

\* What every argv that is rewritten goes through, a remux too.
CommonTail(t, e) ==
  LET plain  == dropFramedropBSF(dropEAEPrefixFlags(swapEAEAudioDecoders(t)))
      listed == IF t.mux \in {"ssegment", "segment"}
                THEN rewriteSegmentList(plain, e, "hls")
                ELSE plain
  IN capturePMSProgressURL(
       rewriteManifestName(rewriteSegmentList(listed, e, "side-channel"), e), e)

=============================================================================
