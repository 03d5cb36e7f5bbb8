--------------------------- MODULE RewriterProofs ---------------------------
(***************************************************************************)
(* Proofs about the argv rewriter (module Rewriter), for any argvs Plex    *)
(* may write and any worker: not only those of the replay corpus.          *)
(***************************************************************************)
EXTENDS Rewriter, WellFoundedInduction, TLAPS

-----------------------------------------------------------------------------
(***************************************************************************)
(* What the operators on graphs return: a graph, without font paths.       *)
(***************************************************************************)
LEMMA NodeTyped ==
  ASSUME NEW f \in Names, NEW pix \in Names
  PROVE  Node(f, pix) \in Filters
BY DEF Node, Filters

\* A filter that is chosen between two.
LEMMA EitherTyped ==
  ASSUME NEW b, NEW f \in Names, NEW g \in Names, NEW pix \in Names
  PROVE  Node(IF b THEN f ELSE g, pix) \in Filters
BY DEF Node, Filters

LEMMA ScaleTyped ==
  ASSUME NEW k, NEW pix \in Names
  PROVE  scaleFilter(k, pix) \in Filters
BY EitherTyped, NamesAssumption DEF scaleFilter

LEMMA StageTyped ==
  ASSUME NEW k
  PROVE  stage(k) \in Seq(Filters)
<1>1. Node("hwmap_opencl", "none") \in Filters /\ Node("tonemap_opencl", "nv12") \in Filters
  BY NodeTyped, NamesAssumption
<1>2. Node("hwmap_back", "none") \in Filters
  BY NodeTyped, NamesAssumption
<1>3. Node(IF k.backend = "vaapi" THEN "tonemap_vaapi" ELSE "tonemap_cuda", "nv12") \in Filters
  BY EitherTyped, NamesAssumption
<1> QED
  BY <1>1, <1>2, <1>3 DEF stage

LEMMA WhenTyped ==
  ASSUME NEW b, NEW s \in Seq(Filters)
  PROVE  When(b, s) \in Seq(Filters)
BY DEF When

LEMMA WhenOneTyped ==
  ASSUME NEW b, NEW n \in Filters
  PROVE  When(b, << n >>) \in Seq(Filters)
BY DEF When

LEMMA OneTyped == \A b : One(b) \in Int
BY DEF One

Fresh(g) == g \in Graphs /\ ~ g.fonts

LEMMA ComposedTyped ==
  ASSUME NEW nodes \in Seq(Filters), NEW side \in {"none", "sw", "hw"}, NEW labels \in Int
  PROVE  Fresh(Composed(nodes, side, labels))
BY DEF Composed, Graphs, Fresh

LEMMA Joined ==
  ASSUME NEW s \in Seq(Filters), NEW t \in Seq(Filters)
  PROVE  s \o t \in Seq(Filters)
OBVIOUS

LEMMA ComposedAMDTyped ==
  ASSUME NEW k, NEW s
  PROVE  Fresh(composeBurnAMDHDR(k, s))
<1> DEFINE burn  == Node(IF s.kind = "none" THEN "inlineass_tonemap" ELSE "inlineass_sdr", "none")
           up    == When(~ s.resident, << Node("hwupload", "none") >>)
           nodes == up \o << scaleFilter(k, "p010"), burn >>
<1>1. burn \in Filters
  BY EitherTyped, NamesAssumption
<1>2. scaleFilter(k, "p010") \in Filters
  BY ScaleTyped, NamesAssumption
<1>3. up \in Seq(Filters)
  BY NodeTyped, WhenOneTyped, NamesAssumption
<1>4. nodes \in Seq(Filters)
  <2> HIDE DEF burn, up
  <2> QED
    BY <1>1, <1>2, <1>3
<1>5. One(~ s.resident) + 2 \in Int
  BY OneTyped
<1>6. composeBurnAMDHDR(k, s) = Composed(nodes, "none", One(~ s.resident) + 2)
  BY DEF composeBurnAMDHDR
<1> QED
  <2> HIDE DEF nodes
  <2> QED
    BY <1>4, <1>5, <1>6, ComposedTyped

LEMMA ComposedSWTyped ==
  ASSUME NEW s
  PROVE  Fresh(composeBurnSW(s))
<1> DEFINE scale  == << Node("scale", "none") >>
           tone   == When(s.hdr, << Node("tonemap", "p010") >>)
           format == << Node("format", "none") >>
           drawn  == Node(IF s.kind = "bitmap" THEN "overlay" ELSE "inlineass", "none")
           burn   == When(s.kind # "none", << drawn >>)
           nodes  == scale \o tone \o format \o burn
           side   == IF s.kind = "bitmap" THEN "sw" ELSE "none"
           labels == One(s.kind = "bitmap") + 2 + One(s.hdr) + One(s.kind # "none")
<1>1. scale \in Seq(Filters) /\ format \in Seq(Filters)
  BY NodeTyped, NamesAssumption
<1>2. tone \in Seq(Filters)
  BY NodeTyped, WhenOneTyped, NamesAssumption
<1>3. drawn \in Filters
  BY EitherTyped, NamesAssumption
<1>4. burn \in Seq(Filters)
  BY <1>3, WhenOneTyped
<1>5. nodes \in Seq(Filters)
  <2> HIDE DEF scale, tone, format, burn
  <2> QED
    BY <1>1, <1>2, <1>4
<1>6. labels \in Int
  BY OneTyped
<1>7. side \in {"none", "sw", "hw"}
  OBVIOUS
<1>8. composeBurnSW(s) = Composed(nodes, side, labels)
  BY DEF composeBurnSW
<1> QED
  <2> HIDE DEF nodes, side, labels
  <2> QED
    BY <1>5, <1>6, <1>7, <1>8, ComposedTyped

LEMMA ComposedGPUTyped ==
  ASSUME NEW k, NEW s
  PROVE  Fresh(composeBurn(k, s))
<1> DEFINE pix    == IF s.hdr \/ s.tenBit THEN "p010" ELSE "nv12"
           up     == When(~ s.resident, << Node("hwupload", "none") >>)
           scale  == << scaleFilter(k, pix) >>
           tone   == When(s.hdr, stage(k))
           drawn  == Node(IF s.sdr THEN "inlineass_sdr" ELSE "inlineass", "none")
           burn   == When(s.kind # "none", << drawn >>)
           nodes  == up \o scale \o tone \o burn
           labels == One(~ s.resident) + 1 + One(s.kind # "none")
<1>1. up \in Seq(Filters)
  BY NodeTyped, WhenOneTyped, NamesAssumption
<1>2. pix \in Names
  BY NamesAssumption
<1>3. scale \in Seq(Filters)
  <2> HIDE DEF pix
  <2> QED
    BY <1>2, ScaleTyped
<1>4. tone \in Seq(Filters)
  BY StageTyped, WhenTyped
<1>5. drawn \in Filters
  BY EitherTyped, NamesAssumption
<1>6. burn \in Seq(Filters)
  BY <1>5, WhenOneTyped
<1>7. nodes \in Seq(Filters)
  <2> HIDE DEF up, scale, tone, burn
  <2> QED
    BY <1>1, <1>3, <1>4, <1>6
<1>8. labels \in Int
  BY OneTyped
<1>9. CASE k.backend = "vaapi" /\ k.amd /\ s.hdr
  BY <1>9, ComposedAMDTyped DEF composeBurn
<1>10. CASE ~ (k.backend = "vaapi" /\ k.amd /\ s.hdr)
  <2>1. composeBurn(k, s) = Composed(nodes, "none", labels)
    BY <1>10 DEF composeBurn
  <2> HIDE DEF nodes, labels
  <2> QED
    BY <2>1, <1>7, <1>8, ComposedTyped
<1> QED
  BY <1>9, <1>10

LEMMA SelectTyped ==
  ASSUME NEW g, Fresh(g), NEW select
  PROVE  Fresh(appendSelectStage(g, select))
<1>1. Node("select", "none") \in Filters
  BY NodeTyped, NamesAssumption
<1> DEFINE nodes == Append(g.nodes, Node("select", "none"))
<1>2. nodes \in Seq(Filters)
  BY <1>1 DEF Fresh, Graphs
<1>3. appendSelectStage(g, select) =
        IF select THEN [g EXCEPT !.nodes = Append(g.nodes, Node("select", "none")), !.out = Vsel] ELSE g
  BY DEF appendSelectStage
<1>4. [g EXCEPT !.nodes = nodes, !.out = Vsel] \in Graphs
  <2> DEFINE h == [g EXCEPT !.nodes = nodes]
  <2>1. h \in Graphs
    <3> HIDE DEF nodes
    <3> QED
      BY <1>2 DEF Fresh, Graphs
  <2>2. Vsel \in Int
    BY DEF Vsel
  <2> HIDE DEF h
  <2>3. [h EXCEPT !.out = Vsel] \in Graphs
    BY <2>1, <2>2 DEF Graphs
  <2> QED
    BY <2>3 DEF h
<1>5. ~ [g EXCEPT !.nodes = nodes, !.out = Vsel].fonts
  BY DEF Fresh, Graphs
<1> QED
  BY <1>3, <1>4, <1>5 DEF Fresh

LEMMA RecomposeTyped ==
  ASSUME NEW k, NEW s, NEW select
  PROVE  Fresh(Recompose(k, s, select))
BY ComposedSWTyped, ComposedGPUTyped, SelectTyped DEF Recompose

-----------------------------------------------------------------------------
(***************************************************************************)
(* The passes over a graph that stays Plex's.                              *)
(***************************************************************************)
\* One node put in the place of three.
Replaced(s, i, n) == SubSeq(s, 1, i - 1) \o << n >> \o SubSeq(s, i + 3, Len(s))

LEMMA ReplacedIs ==
  ASSUME NEW s \in Seq(Filters), NEW i \in 1..(Len(s) - 2), NEW n \in Filters
  PROVE  /\ Replaced(s, i, n) \in Seq(Filters)
         /\ Len(Replaced(s, i, n)) = Len(s) - 2
         /\ \A j \in 1..(Len(s) - 2) :
              Replaced(s, i, n)[j] = IF j < i THEN s[j] ELSE IF j = i THEN n ELSE s[j + 2]
<1> DEFINE a == SubSeq(s, 1, i - 1)
           c == SubSeq(s, i + 3, Len(s))
<1>0. Len(s) \in Nat
  OBVIOUS
<1>1. a \in Seq(Filters) /\ Len(a) = i - 1 /\ \A j \in 1..(i - 1) : a[j] = s[j]
  BY <1>0
<1>2. c \in Seq(Filters)
  BY <1>0
<1>3. Len(c) = Len(s) - i - 2
  BY <1>0
<1>4. \A j \in 1..(Len(s) - i - 2) : c[j] = s[j + i + 2]
  BY <1>0
<1> HIDE DEF a, c
<1> DEFINE b == a \o << n >>
<1>5. b \in Seq(Filters) /\ Len(b) = i
  BY <1>1
<1>6. \A j \in 1..i : b[j] = IF j < i THEN s[j] ELSE n
  BY <1>1
<1>7. Replaced(s, i, n) = b \o c
  BY DEF Replaced, a, c
<1> HIDE DEF b
<1> DEFINE d == b \o c
<1>8. d \in Seq(Filters) /\ Len(d) = Len(s) - 2
  BY <1>0, <1>2, <1>3, <1>5
<1>9. \A j \in 1..i : d[j] = b[j]
  BY <1>0, <1>2, <1>3, <1>5
<1>10. \A j \in 1..(Len(s) - 2) : j > i => d[j] = c[j - i]
  BY <1>0, <1>2, <1>3, <1>5
<1> HIDE DEF d
<1>11. ASSUME NEW j \in 1..(Len(s) - 2)
       PROVE  d[j] = IF j < i THEN s[j] ELSE IF j = i THEN n ELSE s[j + 2]
  <2>1. CASE j <= i
    <3>1. d[j] = b[j]
      BY <2>1, <1>9
    <3>2. b[j] = IF j < i THEN s[j] ELSE n
      BY <2>1, <1>6
    <3> QED
      BY <3>1, <3>2, <2>1
  <2>2. CASE j > i
    <3>1. d[j] = c[j - i]
      BY <2>2, <1>10
    <3>2. j - i \in 1..(Len(s) - i - 2)
      BY <2>2, <1>0
    <3>3. c[j - i] = s[(j - i) + i + 2]
      BY <3>2, <1>4
    <3>4. (j - i) + i + 2 = j + 2
      OBVIOUS
    <3> QED
      BY <3>1, <3>3, <3>4, <2>2
  <2> QED
    BY <2>1, <2>2
<1> QED
  BY <1>7, <1>8, <1>11 DEF d

\* What is tone-mapped by one name is by another, in the same place.
LEMMA SubstituteIs ==
  ASSUME NEW k, NEW g \in Graphs
  PROVE  LET h == substituteOpenCLTonemap(k, g)
         IN  /\ h \in Graphs
             /\ h.fonts = g.fonts /\ h.lead = g.lead /\ h.side = g.side /\ h.out = g.out
             /\ \A names : /\ {"hwmap_opencl", "hwmap_back"} \cap names = {}
                           /\ "tonemap_opencl" \in names <=> "tonemap_vaapi" \in names
                           => (Has(h, names) <=> Has(g, names))
<1> DEFINE h == substituteOpenCLTonemap(k, g)
<1>1. CASE k.backend # "vaapi" \/ k.opencl \/ OpenCLChain(g) = {}
  BY <1>1 DEF substituteOpenCLTonemap
<1>2. CASE ~ (k.backend # "vaapi" \/ k.opencl \/ OpenCLChain(g) = {})
  <2> DEFINE i == CHOOSE x \in OpenCLChain(g) : TRUE
             s == g.nodes
             n == Node("tonemap_vaapi", s[i + 1].pix)
             r == Replaced(s, i, n)
  <2>1. s \in Seq(Filters)
    BY DEF Graphs
  <2>2. i \in OpenCLChain(g)
    BY <1>2
  <2> HIDE DEF i
  <2>3. i \in 1..(Len(s) - 2)
    BY <2>2 DEF OpenCLChain
  <2>4. s[i].f = "hwmap_opencl" /\ s[i + 1].f = "tonemap_opencl" /\ s[i + 2].f = "hwmap_back"
    BY <2>2 DEF OpenCLChain
  <2>5. s[i + 1] \in Filters
    BY <2>1, <2>3
  <2>6. n \in Filters
    BY <2>5, NodeTyped, NamesAssumption DEF Filters
  <2>7. /\ r \in Seq(Filters) /\ Len(r) = Len(s) - 2
        /\ \A j \in 1..(Len(s) - 2) : r[j] = IF j < i THEN s[j] ELSE IF j = i THEN n ELSE s[j + 2]
    <3> HIDE DEF s, n
    <3>1. r \in Seq(Filters)
      BY <2>1, <2>3, <2>6, ReplacedIs
    <3>2. Len(r) = Len(s) - 2
      BY <2>1, <2>3, <2>6, ReplacedIs
    <3>3. \A j \in 1..(Len(s) - 2) : r[j] = IF j < i THEN s[j] ELSE IF j = i THEN n ELSE s[j + 2]
      BY <2>1, <2>3, <2>6, ReplacedIs
    <3> QED
      BY <3>1, <3>2, <3>3
  <2>8. h = [g EXCEPT !.nodes = r]
    BY <1>2 DEF substituteOpenCLTonemap, Replaced, i
  <2> HIDE DEF r
  <2>9. /\ h \in Graphs /\ h.nodes = r
        /\ h.fonts = g.fonts /\ h.lead = g.lead /\ h.side = g.side /\ h.out = g.out
    <3> HIDE DEF h
    <3> QED
      BY <2>7, <2>8 DEF Graphs
  <2>10. ASSUME NEW names, {"hwmap_opencl", "hwmap_back"} \cap names = {},
                "tonemap_opencl" \in names <=> "tonemap_vaapi" \in names
         PROVE  Has(h, names) <=> Has(g, names)
    <3>1. n.f = "tonemap_vaapi"
      BY DEF Node
    <3>2. DOMAIN r = 1..(Len(s) - 2) /\ DOMAIN s = 1..Len(s) /\ Len(s) \in Nat
      BY <2>1, <2>7
    <3> HIDE DEF n, s, h
    <3>3. ASSUME NEW j \in DOMAIN r, r[j].f \in names
          PROVE  \E m \in DOMAIN s : s[m].f \in names
      <4>1. j < i => j \in DOMAIN s /\ r[j] = s[j]
        BY <3>2, <3>3, <2>7
      <4>2. j = i => i + 1 \in DOMAIN s /\ r[j] = n
        BY <3>2, <3>3, <2>3, <2>7
      <4>3. j > i => j + 2 \in DOMAIN s /\ r[j] = s[j + 2]
        BY <3>2, <3>3, <2>3, <2>7
      <4> QED
        BY <4>1, <4>2, <4>3, <3>1, <3>2, <3>3, <2>3, <2>4, <2>10
    <3>4. ASSUME NEW m \in DOMAIN s, s[m].f \in names
          PROVE  \E j \in DOMAIN r : r[j].f \in names
      <4>1. m # i /\ m # i + 2
        BY <3>4, <2>4, <2>10
      <4>2. m < i => m \in DOMAIN r /\ r[m] = s[m]
        BY <3>2, <3>4, <2>3, <2>7
      <4>3. m = i + 1 => i \in DOMAIN r /\ r[i].f \in names
        BY <3>1, <3>2, <3>4, <2>3, <2>4, <2>7, <2>10
      <4>4. m > i + 2 => m - 2 \in DOMAIN r /\ r[m - 2] = s[m]
        <5> SUFFICES ASSUME m > i + 2 PROVE m - 2 \in DOMAIN r /\ r[m - 2] = s[m]
          OBVIOUS
        <5>1. m - 2 \in 1..(Len(s) - 2) /\ m - 2 > i /\ (m - 2) + 2 = m
          BY <3>2, <3>4, <2>3
        <5> QED
          BY <5>1, <3>2, <2>7, <2>3
      <4>5. m \in Int /\ i \in Int
        BY <3>2, <3>4, <2>3
      <4> QED
        BY <4>1, <4>2, <4>3, <4>4, <4>5, <3>4
    <3> QED
      BY <2>9, <3>3, <3>4 DEF Has, s
  <2> QED
    BY <2>9, <2>10
<1> QED
  BY <1>1, <1>2

LEMMA RemoveAtIs ==
  ASSUME NEW s \in Seq(Filters), NEW i \in 1..Len(s)
  PROVE  /\ RemoveAt(s, i) \in Seq(Filters)
         /\ Len(RemoveAt(s, i)) = Len(s) - 1
         /\ \A j \in 1..(Len(s) - 1) : RemoveAt(s, i)[j] = IF j < i THEN s[j] ELSE s[j + 1]
<1> DEFINE a == SubSeq(s, 1, i - 1)
           c == SubSeq(s, i + 1, Len(s))
           d == a \o c
<1>0. Len(s) \in Nat
  OBVIOUS
<1>1. a \in Seq(Filters) /\ Len(a) = i - 1 /\ \A j \in 1..(i - 1) : a[j] = s[j]
  BY <1>0
<1>2. c \in Seq(Filters)
  BY <1>0
<1>3. Len(c) = Len(s) - i
  BY <1>0
<1>4. \A j \in 1..(Len(s) - i) : c[j] = s[j + i]
  BY <1>0
<1> HIDE DEF a, c
<1>11. Len(a) \in Nat /\ Len(c) \in Nat /\ Len(a) + Len(c) = Len(s) - 1
  BY <1>0, <1>1, <1>3
<1>10. d \in Seq(Filters) /\ Len(d) = Len(a) + Len(c)
  BY <1>1, <1>2
<1>5. d \in Seq(Filters) /\ Len(d) = Len(s) - 1
  BY <1>11, <1>10
<1>6. \A j \in 1..(Len(s) - 1) : j < i => d[j] = a[j]
  BY <1>0, <1>1, <1>2, <1>3
<1>7. \A j \in 1..(Len(s) - 1) : j >= i => d[j] = c[j - (i - 1)]
  BY <1>0, <1>1, <1>2, <1>3
<1>8. RemoveAt(s, i) = d
  BY DEF RemoveAt, a, c
<1> HIDE DEF d
<1>9. ASSUME NEW j \in 1..(Len(s) - 1)
      PROVE  d[j] = IF j < i THEN s[j] ELSE s[j + 1]
  <2>1. CASE j < i
    <3>1. a[j] = s[j]
      BY <2>1, <1>1
    <3> QED
      BY <3>1, <2>1, <1>6
  <2>2. CASE j >= i
    <3>1. d[j] = c[j - (i - 1)]
      BY <2>2, <1>7
    <3>2. j - (i - 1) \in 1..(Len(s) - i)
      BY <2>2, <1>0
    <3>3. c[j - (i - 1)] = s[(j - (i - 1)) + i]
      BY <3>2, <1>4
    <3>4. (j - (i - 1)) + i = j + 1
      OBVIOUS
    <3> QED
      BY <3>1, <3>3, <3>4, <2>2
  <2> QED
    BY <2>1, <2>2
<1> QED
  BY <1>5, <1>8, <1>9

\* Nothing is lost with a node but what it does.
LEMMA RemoveNodeIs ==
  ASSUME NEW g \in Graphs, NEW i \in 1..Len(g.nodes)
  PROVE  LET h == RemoveNode(g, i)
         IN  /\ h \in Graphs
             /\ h.fonts = g.fonts /\ h.lead = g.lead /\ h.side = g.side /\ h.out = g.out
             /\ \A names : g.nodes[i].f \notin names => (Has(h, names) <=> Has(g, names))
<1> DEFINE s == g.nodes
           r == RemoveAt(s, i)
           h == RemoveNode(g, i)
<1>1. s \in Seq(Filters) /\ i \in 1..Len(s)
  BY DEF Graphs
<1>2. h = [g EXCEPT !.nodes = r]
  BY DEF RemoveNode
<1> HIDE DEF s
<1>3. r \in Seq(Filters)
  BY <1>1, RemoveAtIs
<1>4. Len(r) = Len(s) - 1
  BY <1>1, RemoveAtIs
<1>5. \A j \in 1..(Len(s) - 1) : r[j] = IF j < i THEN s[j] ELSE s[j + 1]
  BY <1>1, RemoveAtIs
<1> HIDE DEF r, h
<1>6. /\ h \in Graphs /\ h.nodes = r
      /\ h.fonts = g.fonts /\ h.lead = g.lead /\ h.side = g.side /\ h.out = g.out
  BY <1>2, <1>3 DEF Graphs
<1>7. DOMAIN r = 1..(Len(s) - 1) /\ DOMAIN s = 1..Len(s) /\ Len(s) \in Nat
  BY <1>1, <1>3, <1>4
<1>8. ASSUME NEW names, s[i].f \notin names
      PROVE  (\E j \in DOMAIN r : r[j].f \in names) <=> (\E m \in DOMAIN s : s[m].f \in names)
  <2>1. ASSUME NEW j \in DOMAIN r, r[j].f \in names
        PROVE  \E m \in DOMAIN s : s[m].f \in names
    <3>1. j < i => j \in DOMAIN s /\ r[j] = s[j]
      BY <2>1, <1>5, <1>7
    <3>2. j >= i => j + 1 \in DOMAIN s /\ r[j] = s[j + 1]
      BY <2>1, <1>1, <1>5, <1>7
    <3>3. j < i \/ j >= i
      BY <2>1, <1>1, <1>7
    <3> QED
      BY <3>1, <3>2, <3>3, <2>1
  <2>2. ASSUME NEW m \in DOMAIN s, s[m].f \in names
        PROVE  \E j \in DOMAIN r : r[j].f \in names
    <3>1. m < i => m \in DOMAIN r /\ r[m] = s[m]
      BY <2>2, <1>1, <1>5, <1>7
    <3>2. m > i => m - 1 \in DOMAIN r /\ r[m - 1] = s[m]
      <4> SUFFICES ASSUME m > i PROVE m - 1 \in DOMAIN r /\ r[m - 1] = s[m]
        OBVIOUS
      <4>1. m - 1 \in 1..(Len(s) - 1) /\ ~ (m - 1 < i) /\ (m - 1) + 1 = m
        BY <1>1, <1>7
      <4> QED
        BY <4>1, <1>5, <1>7
    <3>3. m # i
      BY <2>2, <1>8
    <3>4. m < i \/ m > i
      BY <3>3, <1>1, <1>7
    <3> QED
      BY <3>1, <3>2, <3>4, <2>2
  <2> QED
    BY <2>1, <2>2
<1> QED
  BY <1>6, <1>8 DEF Has, s, h

\* A graph keeps all but uploads and ways back when it stays on the GPU.
LEMMA ResidentIs ==
  ASSUME NEW g \in Graphs
  PROVE  LET h == gpuResidentGraph(g)
         IN  /\ h \in Graphs
             /\ h.fonts = g.fonts /\ h.out = g.out
             /\ \A names : {"hwupload", "hwmap_back"} \cap names = {}
                           => (Has(h, names) <=> Has(g, names))
<1> DEFINE led  == IF Leads(g, "hwupload") THEN [RemoveNode(g, 1) EXCEPT !.lead = "ordinal"] ELSE g
           back == {i \in 1..(Len(led.nodes) - 1) :
                      led.nodes[i].f = "hwmap_back" /\ led.nodes[i + 1].f = "hwdownload"}
           i    == CHOOSE x \in back : TRUE
           h    == gpuResidentGraph(g)
<1> SUFFICES /\ h \in Graphs /\ h.fonts = g.fonts /\ h.out = g.out
             /\ \A names : {"hwupload", "hwmap_back"} \cap names = {}
                           => (Has(h, names) <=> Has(g, names))
  OBVIOUS
<1>1. /\ led \in Graphs
      /\ led.fonts = g.fonts /\ led.out = g.out
      /\ \A names : {"hwupload", "hwmap_back"} \cap names = {} => (Has(led, names) <=> Has(g, names))
  <2>1. CASE Leads(g, "hwupload")
    <3> DEFINE d == RemoveNode(g, 1)
    <3>1. 1 \in 1..Len(g.nodes) /\ g.nodes[1].f = "hwupload"
      BY <2>1 DEF Leads, Graphs
    <3>2. /\ d \in Graphs /\ d.fonts = g.fonts /\ d.out = g.out
          /\ \A names : g.nodes[1].f \notin names => (Has(d, names) <=> Has(g, names))
      BY <3>1, RemoveNodeIs
    <3>3. led = [d EXCEPT !.lead = "ordinal"]
      BY <2>1
    <3> HIDE DEF d, led
    <3>4. led \in Graphs /\ led.fonts = d.fonts /\ led.out = d.out /\ led.nodes = d.nodes
      BY <3>2, <3>3 DEF Graphs
    <3> QED
      BY <3>1, <3>2, <3>4 DEF Has
  <2>2. CASE ~ Leads(g, "hwupload")
    BY <2>2
  <2> QED
    BY <2>1, <2>2
<1>2. h = IF back = {} THEN led ELSE RemoveNode(led, i)
  BY DEF gpuResidentGraph
<1> HIDE DEF led, h
<1>3. CASE back = {}
  BY <1>1, <1>2, <1>3
<1>4. CASE back # {}
  <2>1. i \in back
    BY <1>4
  <2> HIDE DEF i
  <2>2. i \in 1..Len(led.nodes) /\ led.nodes[i].f = "hwmap_back"
    BY <2>1, <1>1 DEF Graphs
  <2>3. h = RemoveNode(led, i)
    BY <1>2, <1>4
  <2>4. /\ RemoveNode(led, i) \in Graphs
        /\ RemoveNode(led, i).fonts = led.fonts /\ RemoveNode(led, i).out = led.out
        /\ \A names : led.nodes[i].f \notin names => (Has(RemoveNode(led, i), names) <=> Has(led, names))
    BY <1>1, <2>2, RemoveNodeIs
  <2> QED
    BY <1>1, <2>2, <2>3, <2>4
<1> QED
  BY <1>3, <1>4

-----------------------------------------------------------------------------
(***************************************************************************)
(* The worker's dialect, and what is written into an argv.                 *)
(***************************************************************************)
GPUs == {"vaapi", "nvenc"}

LEMMA DialectIs ==
  ASSUME NEW b \in GPUs \cup {"sw"}
  PROVE  /\ hwaccelName(b) \in Names /\ hwaccelOutputFormat(b) \in Names /\ initHWDevice(b) \in Names
         /\ b \in GPUs => hwaccelName(b) # "none"
BY NamesAssumption DEF GPUs, hwaccelName, hwaccelOutputFormat, initHWDevice

\* On a GPU a software encoder's place is taken by one that is none.
LEMMA EncoderIs ==
  ASSUME NEW b \in GPUs \cup {"sw"}, NEW l \in SWEncoders
  PROVE  /\ encoderMap(b)[l] \in Names
         /\ b \in GPUs => encoderMap(b)[l] \notin SWEncoders
         /\ b = "sw" => encoderMap(b)[l] \in SWEncoders
<1>1. l = "libx264" \/ l = "libx265"
  BY DEF SWEncoders
<1>2. b = "vaapi" \/ b = "nvenc" \/ b = "sw"
  BY DEF GPUs
<1> QED
  BY <1>1, <1>2, NamesAssumption DEF encoderMap, SWEncoders, GPUs

LEMMA ReencodedIs ==
  ASSUME NEW b \in GPUs \cup {"sw"}, NEW e \in Names
  PROVE  /\ Reencoded(e, b) \in Names
         /\ b \in GPUs => (Reencoded(e, b) \in SWEncoders <=> e \in SWEncoders)
         /\ hwEncoderCodec(e) = "none" => Reencoded(e, b) = e
<1>1. CASE hwEncoderCodec(e) = "none"
  BY <1>1 DEF Reencoded
<1>2. CASE hwEncoderCodec(e) # "none"
  <2>1. hwEncoderCodec(e) \in {"h264", "hevc"}
    BY <1>2 DEF hwEncoderCodec
  <2>2. codecCanonicalSWEncoder[hwEncoderCodec(e)] \in SWEncoders
    BY <2>1 DEF codecCanonicalSWEncoder, SWEncoders
  <2>3. e \notin SWEncoders
    BY <1>2 DEF hwEncoderCodec, SWEncoders
  <2>4. Reencoded(e, b) = encoderMap(b)[codecCanonicalSWEncoder[hwEncoderCodec(e)]]
    BY <1>2 DEF Reencoded
  <2> QED
    BY <1>2, <2>2, <2>3, <2>4, EncoderIs
<1> QED
  BY <1>1, <1>2

\* A GPU's encoder is none of software, and a worker's own are the GPU's.
LEMMA HWEncodersAre ==
  ASSUME NEW b \in GPUs, NEW e \in HWEncoders(b)
  PROVE  e \notin SWEncoders
BY EncoderIs DEF HWEncoders, GPUs

\* What two argvs share when only the graph, and `-map` with it, differ.
OnlyGraph(u, v) ==
  /\ u.input = v.input /\ u.dec = v.dec /\ u.enc = v.enc /\ u.accel = v.accel
  /\ u.outfmt = v.outfmt /\ u.hex = v.hex /\ u.device = v.device /\ u.ocl = v.ocl
  /\ u.aud = v.aud /\ u.ia = v.ia /\ u.sink = v.sink /\ u.main10 = v.main10
  /\ u.sei = v.sei /\ u.keyframes = v.keyframes

LEMMA RegraphIs ==
  ASSUME NEW v \in Videos, NEW g \in Graphs
  PROVE  LET u == Regraph(v, g)
         IN  u \in Videos /\ OnlyGraph(u, v) /\ u.graph = g
<1>1. g.out \in Int
  BY DEF Graphs
<1> DEFINE m == retargetMapLabel(v, v.graph.out, g.out)
<1>2. m \in Videos /\ OnlyGraph(m, v)
  <2>1. CASE m = v
    BY <2>1 DEF OnlyGraph
  <2>2. CASE m = [v EXCEPT !.map = g.out]
    <3> HIDE DEF m
    <3> QED
      BY <2>2, <1>1 DEF OnlyGraph, Videos
  <2> QED
    BY <2>1, <2>2 DEF retargetMapLabel
<1>3. Regraph(v, g) = [m EXCEPT !.graph = g]
  BY DEF Regraph
<1> HIDE DEF m
<1>4. [m EXCEPT !.graph = g] \in Videos /\ OnlyGraph([m EXCEPT !.graph = g], v)
  BY <1>2 DEF OnlyGraph, Videos
<1>5. [m EXCEPT !.graph = g].graph = g
  BY <1>2 DEF Videos
<1> QED
  BY <1>3, <1>4, <1>5

\* Font paths that are gone stay gone.
Clean(v) == v \in Videos /\ ~ v.graph.fonts

LEMMA RegraphClean ==
  ASSUME NEW v, Clean(v), NEW g, Fresh(g)
  PROVE  Clean(Regraph(v, g))
BY RegraphIs DEF Clean, Fresh

\* Another backend's argv: hardware stays hardware, software stays software.
LEMMA ReshapeForeignIs ==
  ASSUME NEW v, Clean(v), NEW k \in WorkerKinds, k.backend \in GPUs
  PROVE  LET u == reshapeForeignHWArgv(v, k)
         IN  /\ Clean(u)
             /\ u.accel = "none" <=> v.accel = "none"
             /\ u.enc \in SWEncoders <=> v.enc \in SWEncoders
<1> DEFINE b     == k.backend
           facts == extractGraphFacts(v.graph, "none")
           ten   == graphFeedsTenBit(v.graph) /\ ~ facts.hdr /\ encoderIsHEVC(v)
           named == [v EXCEPT
                       !.accel  = IF @ = "none" \/ v.hex THEN @ ELSE hwaccelName(b),
                       !.outfmt = IF @ = "none" \/ v.hex THEN @ ELSE hwaccelOutputFormat(b),
                       !.device = IF @ = "none" THEN @ ELSE initHWDevice(b)]
           g     == Recompose(k, Burn(facts, TRUE, ten), facts.select)
           drawn == IF ~ isSWFilterGraph(v.graph) /\ facts.ok /\ facts.kind # "bitmap"
                    THEN Regraph(named, g) ELSE named
           u     == [drawn EXCEPT !.enc = Reencoded(drawn.enc, b)]
<1>1. reshapeForeignHWArgv(v, k) = u
  BY DEF reshapeForeignHWArgv
<1>2. b \in GPUs \cup {"sw"} /\ v \in Videos
  BY DEF Clean
<1>3. Clean(named) /\ (named.accel = "none" <=> v.accel = "none") /\ named.enc = v.enc
  <2> DEFINE a == IF v.accel = "none" \/ v.hex THEN v.accel ELSE hwaccelName(b)
             o == IF v.outfmt = "none" \/ v.hex THEN v.outfmt ELSE hwaccelOutputFormat(b)
             d == IF v.device = "none" THEN v.device ELSE initHWDevice(b)
  <2>1. a \in Names /\ o \in Names /\ d \in Names /\ (a = "none" <=> v.accel = "none")
    BY <1>2, DialectIs DEF Videos
  <2> HIDE DEF a, o, d
  <2>2. named = [v EXCEPT !.accel = a, !.outfmt = o, !.device = d]
    BY <1>2 DEF Videos, a, o, d
  <2> HIDE DEF named
  <2> QED
    BY <1>2, <2>1, <2>2 DEF Clean, Videos
<1> HIDE DEF named, facts, ten
<1>4. Clean(drawn) /\ (drawn.accel = "none" <=> v.accel = "none") /\ drawn.enc = v.enc
  <2>1. Fresh(g)
    BY RecomposeTyped
  <2> HIDE DEF g
  <2>2. CASE drawn = named
    BY <1>3, <2>2
  <2>3. CASE drawn = Regraph(named, g)
    <3>1. Clean(Regraph(named, g)) /\ OnlyGraph(Regraph(named, g), named)
      BY <1>3, <2>1, RegraphIs, RegraphClean DEF Clean, Fresh
    <3> QED
      BY <1>3, <2>3, <3>1 DEF OnlyGraph
  <2> QED
    BY <2>2, <2>3
<1> HIDE DEF drawn
<1>5. v.enc \in Names
  BY <1>2 DEF Videos
<1>6. Reencoded(v.enc, b) \in Names /\ (Reencoded(v.enc, b) \in SWEncoders <=> v.enc \in SWEncoders)
  BY <1>2, <1>5, ReencodedIs
<1>7. Clean(u) /\ u.accel = drawn.accel /\ u.enc = Reencoded(v.enc, b)
  BY <1>4, <1>6 DEF Clean, Videos
<1> QED
  BY <1>1, <1>4, <1>6, <1>7

\* For a worker without a GPU nothing decodes on one.
LEMMA ReshapeToSoftwareIs ==
  ASSUME NEW v, Clean(v)
  PROVE  Clean(reshapeToSoftware(v)) /\ reshapeToSoftware(v).accel = "none"
<1> DEFINE facts    == extractGraphFacts(v.graph, "none")
           d        == IF v.dec = "av1" THEN "libdav1d" ELSE v.dec
           e        == Reencoded(v.enc, "sw")
           stripped == [v EXCEPT !.accel = "none", !.outfmt = "none", !.device = "none", !.ocl = FALSE,
                                 !.dec = d, !.enc = e]
           g        == Recompose([backend |-> "sw"], Burn(facts, FALSE, FALSE), facts.select)
<1>1. reshapeToSoftware(v) =
        IF ~ isSWFilterGraph(v.graph) /\ facts.ok THEN Regraph(stripped, g) ELSE stripped
  BY DEF reshapeToSoftware
<1>2. v \in Videos
  BY DEF Clean
<1>3. d \in Names /\ e \in Names /\ "none" \in Names
  BY <1>2, ReencodedIs, NamesAssumption DEF Videos
<1> HIDE DEF d, e
<1>4. Clean(stripped) /\ stripped.accel = "none"
  BY <1>2, <1>3 DEF Clean, Videos
<1>5. Fresh(g)
  BY RecomposeTyped
<1> HIDE DEF stripped, g, facts
<1>6. Clean(Regraph(stripped, g)) /\ Regraph(stripped, g).accel = "none"
  BY <1>4, <1>5, RegraphIs, RegraphClean DEF Clean, Fresh, OnlyGraph
<1> QED
  BY <1>1, <1>4, <1>6

LEMMA AcceleratedIs ==
  ASSUME NEW v, Clean(v), NEW b \in GPUs
  PROVE  LET u == Accelerated(v, b)
         IN  Clean(u) /\ u.accel # "none" /\ u.enc = v.enc
<1>1. hwaccelName(b) \in Names /\ hwaccelOutputFormat(b) \in Names /\ hwaccelName(b) # "none"
  BY DialectIs
<1> QED
  BY <1>1 DEF Accelerated, Clean, Videos

-----------------------------------------------------------------------------
(***************************************************************************)
(* The transport: what either way out of the rewriter makes of it.         *)
(***************************************************************************)
LEMMA NoUrlIs == NoUrl \in Urls /\ NoUrl.host = "none"
BY DEF NoUrl, Url, Urls

LEMMA PlexUrlIs ==
  ASSUME NEW u \in PlexUrls
  PROVE  u \in Urls /\ u.host \in {"loopback", "elsewhere"} /\ u.tokens = 0 /\ u.segTimes = 0
BY DEF PlexUrls, Url, Urls

\* An address of the loopback leads to the relay, with the token if there is one.
LEMMA RelayedIs ==
  ASSUME NEW u \in Urls, NEW e
  PROVE  LET r == Relayed(u, e)
         IN  /\ r \in Urls /\ r.subs = u.subs /\ r.segTimes = u.segTimes
             /\ r.host = IF u.host = "loopback" THEN "relay" ELSE u.host
             /\ r.tokens = u.tokens + IF e.token THEN 1 ELSE 0
<1> DEFINE host   == IF u.host = "loopback" THEN "relay" ELSE u.host
           tokens == u.tokens + IF e.token THEN 1 ELSE 0
<1>1. host \in {"none", "loopback", "relay", "elsewhere"} /\ tokens \in Nat
  BY DEF Urls
<1>2. Relayed(u, e) = [u EXCEPT !.host = host, !.tokens = tokens]
  BY DEF Relayed, Urls
<1> HIDE DEF host, tokens
<1>3. [u EXCEPT !.host = host, !.tokens = tokens] \in Urls
  BY <1>1 DEF Urls
<1>4. /\ [u EXCEPT !.host = host, !.tokens = tokens].host = host
      /\ [u EXCEPT !.host = host, !.tokens = tokens].tokens = tokens
      /\ [u EXCEPT !.host = host, !.tokens = tokens].subs = u.subs
      /\ [u EXCEPT !.host = host, !.tokens = tokens].segTimes = u.segTimes
  BY DEF Urls
<1> QED
  BY <1>2, <1>3, <1>4 DEF host, tokens

LEMMA BaseIs ==
  ASSUME NEW c \in Names, NEW decode \in BOOLEAN
  PROVE  eaeBaseFor(c, decode) \in Names /\ eaeBaseFor(c, decode) \notin EAE
BY NamesAssumption DEF eaeBaseFor, Base, EAE

\* The sound is one any ffmpeg can encode, and decode unless its decoder's option
\* names the stream by its id.
Plain(t) ==
  /\ t \in TransportOf(Names)
  /\ t.ahex \/ t.adec \notin EAE
  /\ t.aenc \notin EAE
  /\ ~ t.prefix /\ ~ t.framedrop

SameUrls(t, u) ==
  /\ t.mux = u.mux /\ t.ahex = u.ahex /\ t.lists = u.lists
  /\ t.manifest = u.manifest /\ t.progress = u.progress /\ t.throttle = u.throttle

LEMMA PlainIs ==
  ASSUME NEW t \in TransportOf(Names)
  PROVE  LET p == dropFramedropBSF(dropEAEPrefixFlags(swapEAEAudioDecoders(t)))
         IN  Plain(p) /\ SameUrls(p, t) /\ (t.adec \notin EAE => p.adec \notin EAE)
<1> DEFINE d == IF t.ahex THEN t.adec ELSE eaeBaseFor(t.adec, TRUE)
           e == eaeBaseFor(t.aenc, FALSE)
<1>1. t.adec \in Names /\ t.aenc \in Names
  BY DEF TransportOf
<1>2. d \in Names /\ (t.ahex \/ d \notin EAE) /\ e \in Names /\ e \notin EAE
  BY <1>1, BaseIs
<1>8. t.adec \notin EAE => d \notin EAE
  BY <1>2
<1> DEFINE s == [t EXCEPT !.adec = d, !.aenc = e]
           q == [s EXCEPT !.prefix = FALSE]
           p == [q EXCEPT !.framedrop = FALSE]
<1>3. swapEAEAudioDecoders(t) = s
  BY DEF swapEAEAudioDecoders, TransportOf
<1> HIDE DEF d, e
<1>4. s \in TransportOf(Names) /\ SameUrls(s, t) /\ s.adec = d /\ s.aenc = e
  BY <1>2 DEF TransportOf, SameUrls
<1> HIDE DEF s
<1>5. q \in TransportOf(Names) /\ SameUrls(q, t) /\ q.adec = d /\ q.aenc = e /\ ~ q.prefix
  BY <1>4 DEF TransportOf, SameUrls
<1> HIDE DEF q
<1>6. /\ p \in TransportOf(Names) /\ SameUrls(p, t) /\ p.adec = d /\ p.aenc = e
      /\ ~ p.prefix /\ ~ p.framedrop
  BY <1>5 DEF TransportOf, SameUrls
<1>7. dropFramedropBSF(dropEAEPrefixFlags(swapEAEAudioDecoders(t))) = p
  BY <1>3 DEF dropFramedropBSF, dropEAEPrefixFlags, q
<1> QED
  BY <1>2, <1>6, <1>7, <1>8 DEF Plain, SameUrls

OtherParts(t, u) ==
  /\ t.mux = u.mux /\ t.adec = u.adec /\ t.ahex = u.ahex /\ t.aenc = u.aenc
  /\ t.prefix = u.prefix /\ t.framedrop = u.framedrop
  /\ t.progress = u.progress /\ t.throttle = u.throttle

\* What one pass over the lists makes of an address.
Passed(u, e, variant) ==
  IF e.base /\ u.host = "loopback" /\ (u.subs <=> variant = "side-channel")
  THEN IF variant = "hls" THEN [Relayed(u, e) EXCEPT !.segTimes = @ + 1] ELSE Relayed(u, e)
  ELSE u

LEMMA PassedTyped ==
  ASSUME NEW u \in Urls, NEW e, NEW variant
  PROVE  Passed(u, e, variant) \in Urls
<1> DEFINE r == Relayed(u, e)
<1>1. r \in Urls
  BY RelayedIs
<1> HIDE DEF r
<1>2. [r EXCEPT !.segTimes = @ + 1] \in Urls
  BY <1>1 DEF Urls
<1> QED
  BY <1>1, <1>2 DEF Passed, r

LEMMA SegmentListIs ==
  ASSUME NEW t \in TransportOf(Names), NEW e, NEW variant
  PROVE  LET r == rewriteSegmentList(t, e, variant)
         IN  /\ r \in TransportOf(Names) /\ OtherParts(r, t) /\ r.manifest = t.manifest
             /\ DOMAIN r.lists = DOMAIN t.lists
             /\ \A i \in DOMAIN t.lists : r.lists[i] = Passed(t.lists[i], e, variant)
<1> DEFINE r  == rewriteSegmentList(t, e, variant)
           ls == [i \in DOMAIN t.lists |-> Passed(t.lists[i], e, variant)]
<1>1. t.lists \in Seq(Urls)
  BY DEF TransportOf
<1> SUFFICES /\ r \in TransportOf(Names) /\ OtherParts(r, t) /\ r.manifest = t.manifest
             /\ DOMAIN r.lists = DOMAIN t.lists
             /\ \A i \in DOMAIN t.lists : r.lists[i] = Passed(t.lists[i], e, variant)
  OBVIOUS
<1>2. CASE ~ e.base
  <2>1. r = t
    BY <1>2 DEF rewriteSegmentList
  <2> QED
    BY <1>2, <2>1 DEF OtherParts, Passed
<1>3. CASE e.base
  <2>1. \A i \in DOMAIN t.lists : Passed(t.lists[i], e, variant) \in Urls
    BY <1>1, PassedTyped
  <2>2. ls \in Seq(Urls)
    BY <1>1, <2>1
  <2>3. r = [t EXCEPT !.lists = ls]
    BY <1>3 DEF rewriteSegmentList, Passed
  <2>4. DOMAIN ls = DOMAIN t.lists /\ \A i \in DOMAIN t.lists : ls[i] = Passed(t.lists[i], e, variant)
    OBVIOUS
  <2> HIDE DEF ls, r
  <2>5. r \in TransportOf(Names) /\ OtherParts(r, t) /\ r.manifest = t.manifest /\ r.lists = ls
    BY <2>2, <2>3 DEF TransportOf, OtherParts
  <2> QED
    BY <2>4, <2>5
<1> QED
  BY <1>2, <1>3

LEMMA ManifestIs ==
  ASSUME NEW t \in TransportOf(Names), NEW e
  PROVE  LET r == rewriteManifestName(t, e)
         IN  /\ r \in TransportOf(Names) /\ OtherParts(r, t) /\ r.lists = t.lists
             /\ r.manifest.host # "loopback"
<1> DEFINE m == IF t.manifest.host = "loopback" /\ e.base THEN Relayed(t.manifest, e) ELSE NoUrl
<1>1. t.manifest \in Urls
  BY DEF TransportOf
<1>2. m \in Urls /\ m.host # "loopback"
  BY <1>1, RelayedIs, NoUrlIs
<1>3. rewriteManifestName(t, e) = [t EXCEPT !.manifest = m]
  BY DEF rewriteManifestName, TransportOf
<1> HIDE DEF m
<1> QED
  BY <1>2, <1>3 DEF TransportOf, OtherParts

\* What is true of an argv's transport at either end.
Runnable(t, e) ==
  /\ Plain(t)
  /\ t.progress = NoUrl
  /\ t.manifest.host # "loopback" /\ t.throttle.host # "loopback"
  /\ e.base => \A i \in DOMAIN t.lists : t.lists[i].host # "loopback"

\* An address of the relay has the token once, and the duration n times.
Addressed(u, e, n) ==
  u.host = "relay" => u.tokens = (IF e.token THEN 1 ELSE 0) /\ u.segTimes = n

LEMMA PlexTransportIs ==
  ASSUME NEW t \in PlexTransports(Names)
  PROVE  /\ t \in TransportOf(Names)
         /\ \A i \in DOMAIN t.lists : t.lists[i] \in PlexUrls
         /\ t.mux = "dash" => \A i \in DOMAIN t.lists : t.lists[i].subs
         /\ t.progress = NoUrl \/ t.progress.host = "loopback"
         /\ t.throttle \in Urls /\ t.throttle.host # "loopback"
<1>1. t \in TransportOf(Names) /\ t.throttle \in Urls /\ t.progress \in Urls
  BY DEF PlexTransports, TransportOf
<1>2. t.lists \in Seq(PlexUrls)
  BY DEF PlexTransports
<1>3. \A i \in DOMAIN t.lists : t.lists[i] \in PlexUrls
  BY <1>2
<1>4. t.mux = "dash" => \A i \in DOMAIN t.lists : t.lists[i].subs
  BY DEF PlexTransports
<1>5. t.progress \in {NoUrl, Url("loopback", FALSE)} /\ t.throttle \in {NoUrl, Url("relay", FALSE)}
  BY DEF PlexTransports
<1>6. t.progress = NoUrl \/ t.progress.host = "loopback"
  BY <1>5 DEF Url
<1>7. t.throttle.host # "loopback"
  BY <1>5, NoUrlIs DEF Url
<1> QED
  BY <1>1, <1>3, <1>4, <1>6, <1>7

LEMMA BailedIs ==
  ASSUME NEW t \in PlexTransports(Names), NEW e, NEW why
  PROVE  LET r == Bailed(t, e, why)
         IN  /\ Runnable(r, e)
             /\ r.ahex = t.ahex /\ (why = "no-decoder" => r.adec \notin EAE)
             /\ e.base => \A i \in DOMAIN r.lists : Addressed(r.lists[i], e, 0)
<1> DEFINE Moved(u) == IF u.host = "loopback" /\ e.base THEN Relayed(u, e) ELSE u
           ls == [i \in DOMAIN t.lists |-> Moved(t.lists[i])]
           s  == [t EXCEPT !.progress = NoUrl, !.lists = ls]
           m  == rewriteManifestName(s, e)
           h  == IF why = "no-decoder" THEN dropInputAudioDecoderHints(m) ELSE m
           r  == Bailed(t, e, why)
<1>1. t \in TransportOf(Names) /\ t.throttle.host # "loopback" /\ t.lists \in Seq(Urls)
  BY PlexTransportIs DEF TransportOf
<1>2. ASSUME NEW i \in DOMAIN t.lists
      PROVE  /\ Moved(t.lists[i]) \in Urls
             /\ e.base => Moved(t.lists[i]).host # "loopback" /\ Addressed(Moved(t.lists[i]), e, 0)
  <2> DEFINE u == t.lists[i]
  <2>1. u \in Urls /\ u.host \in {"loopback", "elsewhere"} /\ u.tokens = 0 /\ u.segTimes = 0
    BY PlexTransportIs, PlexUrlIs
  <2> HIDE DEF u
  <2>2. CASE u.host = "loopback" /\ e.base
    <3> DEFINE v == Relayed(u, e)
    <3>1. v \in Urls /\ v.host = "relay" /\ v.segTimes = 0 /\ v.tokens = 0 + IF e.token THEN 1 ELSE 0
      BY <2>1, <2>2, RelayedIs
    <3>2. Moved(u) = v
      BY <2>2
    <3> HIDE DEF v, Moved
    <3> QED
      BY <3>1, <3>2 DEF Addressed, u
  <2>3. CASE ~ (u.host = "loopback" /\ e.base)
    <3>1. Moved(u) = u
      BY <2>3
    <3> HIDE DEF Moved
    <3> QED
      BY <2>1, <2>3, <3>1 DEF Addressed, u
  <2> QED
    BY <2>2, <2>3
<1>3. ls \in Seq(Urls)
  BY <1>1, <1>2
<1>4. /\ DOMAIN ls = DOMAIN t.lists
      /\ e.base => \A i \in DOMAIN ls : ls[i].host # "loopback" /\ Addressed(ls[i], e, 0)
  BY <1>2
<1> HIDE DEF ls
<1>5. /\ s \in TransportOf(Names) /\ s.lists = ls /\ s.progress = NoUrl
      /\ s.throttle = t.throttle /\ s.ahex = t.ahex
  BY <1>1, <1>3, NoUrlIs DEF TransportOf
<1>6. scrubPlexFlagsOnBail(t, e) = m
  BY DEF scrubPlexFlagsOnBail, ls
<1> HIDE DEF s
<1>7. /\ m \in TransportOf(Names) /\ m.lists = ls /\ m.progress = NoUrl /\ m.throttle = t.throttle
      /\ m.manifest.host # "loopback" /\ m.ahex = t.ahex
  BY <1>5, ManifestIs DEF OtherParts
<1> HIDE DEF m
<1>8. /\ h \in TransportOf(Names) /\ h.lists = ls /\ h.progress = NoUrl /\ h.throttle = t.throttle
      /\ h.manifest.host # "loopback" /\ h.ahex = t.ahex
  BY <1>7, NamesAssumption DEF dropInputAudioDecoderHints, TransportOf
<1>11. why = "no-decoder" => h.adec \notin EAE
  BY <1>7 DEF dropInputAudioDecoderHints, TransportOf, EAE
<1>9. r = dropFramedropBSF(dropEAEPrefixFlags(swapEAEAudioDecoders(h)))
  BY <1>6 DEF Bailed
<1> HIDE DEF h, r
<1>10. Plain(r) /\ SameUrls(r, h) /\ (why = "no-decoder" => r.adec \notin EAE)
  BY <1>8, <1>9, <1>11, PlainIs
<1> QED
  BY <1>1, <1>4, <1>8, <1>10 DEF Runnable, SameUrls, r

LEMMA CapturedIs ==
  ASSUME NEW t \in TransportOf(Names), NEW e,
         t.progress = NoUrl \/ t.progress.host = "loopback", t.throttle.host # "loopback"
  PROVE  LET c == capturePMSProgressURL(t, e)
             r == c.transport
         IN  /\ r \in TransportOf(Names) /\ c.reported \in Urls
             /\ r.mux = t.mux /\ r.adec = t.adec /\ r.ahex = t.ahex
             /\ r.aenc = t.aenc /\ r.prefix = t.prefix
             /\ r.framedrop = t.framedrop /\ r.lists = t.lists /\ r.manifest = t.manifest
             /\ r.progress = NoUrl /\ r.throttle.host # "loopback"
             /\ e.base /\ t.progress # NoUrl =>
                  c.reported.host = "relay" /\ (e.nothrottle \/ r.throttle # NoUrl)
<1> DEFINE c  == capturePMSProgressURL(t, e)
           to == IF e.base THEN Relayed(t.progress, e) ELSE NoUrl
           th == IF e.base /\ t.throttle = NoUrl /\ ~ e.nothrottle THEN to ELSE t.throttle
           r  == [t EXCEPT !.progress = NoUrl, !.throttle = th]
<1>1. t.progress \in Urls /\ t.throttle \in Urls
  BY DEF TransportOf
<1>2. CASE t.progress = NoUrl
  <2>1. c.transport = t /\ c.reported = NoUrl
    BY <1>2 DEF capturePMSProgressURL
  <2> HIDE DEF c
  <2> QED
    BY <1>2, <2>1, NoUrlIs DEF c
<1>3. CASE t.progress # NoUrl
  <2>1. to \in Urls /\ to.host # "loopback" /\ (e.base => to.host = "relay")
    BY <1>1, <1>3, RelayedIs, NoUrlIs
  <2>2. /\ th \in Urls /\ th.host # "loopback"
        /\ e.base => e.nothrottle \/ th # NoUrl
    <3> HIDE DEF to
    <3> QED
      BY <1>1, <2>1, NoUrlIs
  <2>3. c = [transport |-> r, reported |-> to]
    BY <1>3 DEF capturePMSProgressURL
  <2> HIDE DEF to, th
  <2>4. /\ r \in TransportOf(Names)
        /\ r.mux = t.mux /\ r.adec = t.adec /\ r.ahex = t.ahex
        /\ r.aenc = t.aenc /\ r.prefix = t.prefix
        /\ r.framedrop = t.framedrop /\ r.lists = t.lists /\ r.manifest = t.manifest
        /\ r.progress = NoUrl /\ r.throttle = th
    BY <2>2, NoUrlIs DEF TransportOf
  <2> HIDE DEF r, c
  <2> QED
    BY <2>1, <2>2, <2>3, <2>4 DEF c
<1> QED
  BY <1>2, <1>3

\* An address is taken by one of the two passes, and by one only.
LEMMA PassedOnce ==
  ASSUME NEW u \in PlexUrls, NEW e, e.base, NEW hls \in BOOLEAN, hls \/ u.subs
  PROVE  LET v == IF hls THEN Passed(u, e, "hls") ELSE u
             x == Passed(v, e, "side-channel")
         IN  x.host # "loopback" /\ Addressed(x, e, IF x.subs THEN 0 ELSE 1)
<1> DEFINE v == IF hls THEN Passed(u, e, "hls") ELSE u
           x == Passed(v, e, "side-channel")
           r == Relayed(u, e)
           s == [r EXCEPT !.segTimes = @ + 1]
<1> SUFFICES x.host # "loopback" /\ Addressed(x, e, IF x.subs THEN 0 ELSE 1)
  OBVIOUS
<1>1. u \in Urls /\ u.host \in {"loopback", "elsewhere"} /\ u.tokens = 0 /\ u.segTimes = 0 /\ u.subs \in BOOLEAN
  BY PlexUrlIs DEF Urls
<1>2. /\ r \in Urls /\ r.subs = u.subs /\ r.segTimes = 0
      /\ r.host = IF u.host = "loopback" THEN "relay" ELSE u.host
      /\ r.tokens = 0 + IF e.token THEN 1 ELSE 0
  BY <1>1, RelayedIs
<1>3. CASE u.host # "loopback"
  <2>1. x = u
    BY <1>3 DEF Passed
  <2> HIDE DEF x
  <2> QED
    BY <1>1, <1>3, <2>1 DEF Addressed
<1>4. CASE u.host = "loopback" /\ u.subs
  <2>1. v = u
    BY <1>4 DEF Passed
  <2>2. x = r
    BY <1>4, <2>1 DEF Passed
  <2> HIDE DEF x, r
  <2>3. r.subs /\ r.host = "relay" /\ r.tokens = (IF e.token THEN 1 ELSE 0) /\ r.segTimes = 0
    BY <1>2, <1>4
  <2>4. r.host # "loopback" /\ Addressed(r, e, IF r.subs THEN 0 ELSE 1)
    BY <2>3 DEF Addressed
  <2> QED
    BY <2>2, <2>4
<1>5. CASE u.host = "loopback" /\ ~ u.subs
  <2>1. v = s
    BY <1>5 DEF Passed
  <2> HIDE DEF r
  <2>2. /\ s.host = "relay" /\ s.segTimes = 1 /\ s.subs = u.subs
        /\ s.tokens = 0 + IF e.token THEN 1 ELSE 0
    BY <1>2, <1>5 DEF Urls
  <2> HIDE DEF s, v
  <2>3. x = s
    BY <2>1, <2>2 DEF Passed
  <2> HIDE DEF x
  <2>4. x.host # "loopback" /\ Addressed(x, e, IF x.subs THEN 0 ELSE 1)
    BY <1>5, <2>2, <2>3 DEF Addressed
  <2> QED
    BY <2>4
<1> QED
  BY <1>1, <1>3, <1>4, <1>5

LEMMA TailIs ==
  ASSUME NEW t \in PlexTransports(Names), NEW e
  PROVE  LET c == CommonTail(t, e)
             r == c.transport
         IN  /\ Runnable(r, e) /\ c.reported \in Urls
             /\ r.ahex = t.ahex /\ r.mux = t.mux
             /\ e.base => \A i \in DOMAIN r.lists :
                            Addressed(r.lists[i], e, IF r.lists[i].subs THEN 0 ELSE 1)
             /\ e.base /\ t.progress # NoUrl =>
                  c.reported.host = "relay" /\ (e.nothrottle \/ r.throttle # NoUrl)
<1> DEFINE p == dropFramedropBSF(dropEAEPrefixFlags(swapEAEAudioDecoders(t)))
           hls == t.mux \in {"ssegment", "segment"}
           q == IF hls THEN rewriteSegmentList(p, e, "hls") ELSE p
           s == rewriteSegmentList(q, e, "side-channel")
           m == rewriteManifestName(s, e)
           c == CommonTail(t, e)
           r == c.transport
<1>1. /\ t \in TransportOf(Names) /\ t.mux \in {"dash", "ssegment", "segment"}
      /\ \A i \in DOMAIN t.lists : t.lists[i] \in PlexUrls /\ (hls \/ t.lists[i].subs)
      /\ t.progress = NoUrl \/ t.progress.host = "loopback"
      /\ t.throttle.host # "loopback"
  BY PlexTransportIs DEF TransportOf
<1>2. Plain(p) /\ SameUrls(p, t)
  BY <1>1, PlainIs
<1>3. c = capturePMSProgressURL(m, e)
  <2>1. p.mux = t.mux
    BY <1>2 DEF SameUrls
  <2> QED
    BY <2>1 DEF CommonTail
<1> HIDE DEF p
<1>4. /\ q \in TransportOf(Names) /\ OtherParts(q, p) /\ DOMAIN q.lists = DOMAIN t.lists
      /\ \A i \in DOMAIN t.lists :
           q.lists[i] = IF hls THEN Passed(t.lists[i], e, "hls") ELSE t.lists[i]
  <2>1. p \in TransportOf(Names) /\ p.lists = t.lists
    BY <1>2 DEF Plain, SameUrls
  <2>2. CASE hls
    BY <2>1, <2>2, SegmentListIs
  <2>3. CASE ~ hls
    BY <2>1, <2>3 DEF OtherParts
  <2> QED
    BY <2>2, <2>3
<1> HIDE DEF q
<1>5. /\ s \in TransportOf(Names) /\ OtherParts(s, q) /\ DOMAIN s.lists = DOMAIN t.lists
      /\ \A i \in DOMAIN t.lists : s.lists[i] = Passed(q.lists[i], e, "side-channel")
  BY <1>4, SegmentListIs
<1> HIDE DEF s
<1>6. e.base => \A i \in DOMAIN s.lists :
                  /\ s.lists[i].host # "loopback"
                  /\ Addressed(s.lists[i], e, IF s.lists[i].subs THEN 0 ELSE 1)
  <2> SUFFICES ASSUME e.base, NEW i \in DOMAIN s.lists
               PROVE  /\ s.lists[i].host # "loopback"
                      /\ Addressed(s.lists[i], e, IF s.lists[i].subs THEN 0 ELSE 1)
    OBVIOUS
  <2> DEFINE u == t.lists[i]
             v == IF hls THEN Passed(u, e, "hls") ELSE u
             x == Passed(v, e, "side-channel")
  <2>1. u \in PlexUrls /\ (hls \/ u.subs) /\ hls \in BOOLEAN
    BY <1>1, <1>5
  <2>2. s.lists[i] = x
    BY <1>4, <1>5
  <2> HIDE DEF u, hls
  <2>3. x.host # "loopback" /\ Addressed(x, e, IF x.subs THEN 0 ELSE 1)
    BY <2>1, PassedOnce
  <2> HIDE DEF x
  <2> QED
    BY <2>2, <2>3
<1>7. /\ m \in TransportOf(Names) /\ OtherParts(m, s) /\ m.lists = s.lists
      /\ m.manifest.host # "loopback"
  BY <1>5, ManifestIs
<1> HIDE DEF m, hls
<1>8. /\ m.progress = t.progress /\ m.throttle = t.throttle
      /\ m.ahex = t.ahex /\ m.mux = t.mux
      /\ (m.ahex \/ m.adec \notin EAE) /\ m.aenc \notin EAE /\ ~ m.prefix /\ ~ m.framedrop
  BY <1>2, <1>4, <1>5, <1>7 DEF OtherParts, SameUrls, Plain
<1>9. m.progress = NoUrl \/ m.progress.host = "loopback"
  BY <1>1, <1>8
<1>10. m.throttle.host # "loopback"
  BY <1>1, <1>8
<1> HIDE DEF c
<1>11. /\ r \in TransportOf(Names) /\ c.reported \in Urls
       /\ r.adec = m.adec /\ r.ahex = m.ahex /\ r.mux = m.mux
       /\ r.aenc = m.aenc /\ r.prefix = m.prefix
       /\ r.framedrop = m.framedrop /\ r.lists = m.lists /\ r.manifest = m.manifest
       /\ r.progress = NoUrl /\ r.throttle.host # "loopback"
       /\ e.base /\ m.progress # NoUrl =>
            c.reported.host = "relay" /\ (e.nothrottle \/ r.throttle # NoUrl)
  <2> DEFINE d == capturePMSProgressURL(m, e)
             k == d.transport
  <2>1. /\ k \in TransportOf(Names) /\ d.reported \in Urls
        /\ k.adec = m.adec /\ k.ahex = m.ahex /\ k.mux = m.mux
        /\ k.aenc = m.aenc /\ k.prefix = m.prefix
        /\ k.framedrop = m.framedrop /\ k.lists = m.lists /\ k.manifest = m.manifest
        /\ k.progress = NoUrl /\ k.throttle.host # "loopback"
        /\ e.base /\ m.progress # NoUrl =>
             d.reported.host = "relay" /\ (e.nothrottle \/ k.throttle # NoUrl)
    BY <1>7, <1>9, <1>10, CapturedIs
  <2>2. c = d
    BY <1>3
  <2> HIDE DEF d
  <2> QED
    BY <2>1, <2>2
<1>12. Runnable(r, e)
  BY <1>6, <1>7, <1>8, <1>11 DEF Runnable, Plain
<1>13. e.base => \A i \in DOMAIN r.lists :
                   Addressed(r.lists[i], e, IF r.lists[i].subs THEN 0 ELSE 1)
  BY <1>6, <1>7, <1>11
<1> QED
  BY <1>8, <1>11, <1>12, <1>13 DEF c

-----------------------------------------------------------------------------
(***************************************************************************)
(* Every phase leaves an argv, without font paths from the first on.       *)
(***************************************************************************)
Phased ==
  /\ job \in Jobs
  /\ pc = "scrub" => argv = job.video
  /\ pc # "scrub" => ~ argv.graph.fonts
  /\ pc # "done" => transport = job.transport /\ reported = NoUrl /\ reason = "none"
  /\ reason # "none" => argv = Scrubbed(job.video)
  /\ remux => pc \in {"tail", "done"}

IInv == TypeOK /\ Phased

HW == w.backend \in GPUs

LEMMA JobIs ==
  ASSUME job \in Jobs
  PROVE  /\ job.video \in Videos /\ job.transport \in PlexTransports(Names)
         /\ w \in WorkerKinds /\ w.backend \in GPUs \cup {"sw"}
         /\ env.base \in BOOLEAN /\ env.force \in BOOLEAN /\ env.pass \in BOOLEAN
BY JobsAssumption DEF w, env, GPUs, WorkerKinds, Envs, PlexVideos

\* An argv with the same encoder, and decoded by the same device.
SameAxes(u, v) == Clean(u) /\ u.accel = v.accel /\ u.enc = v.enc

LEMMA ScrubbedIs ==
  ASSUME NEW v \in Videos
  PROVE  SameAxes(Scrubbed(v), v)
<1>1. [v.graph EXCEPT !.fonts = FALSE] \in Graphs /\ ~ [v.graph EXCEPT !.fonts = FALSE].fonts
  BY DEF Videos, Graphs
<1>2. Scrubbed(v) = [v EXCEPT !.graph = [v.graph EXCEPT !.fonts = FALSE]]
  BY DEF Scrubbed, Videos
<1> DEFINE g == [v.graph EXCEPT !.fonts = FALSE]
<1> HIDE DEF g
<1> QED
  BY <1>1, <1>2 DEF Videos, SameAxes, Clean, g

\* The first phase: a tone mapping under another name of the same backend.
LEMMA ScrubIs ==
  ASSUME NEW v \in Videos, NEW k
  PROVE  LET u == [Scrubbed(v) EXCEPT !.graph = substituteOpenCLTonemap(k, @)]
         IN  SameAxes(u, v) /\ detectSourceBackend(u) = detectSourceBackend(v)
<1> DEFINE g == [v.graph EXCEPT !.fonts = FALSE]
           h == substituteOpenCLTonemap(k, g)
           u == [v EXCEPT !.graph = h]
<1>1. g \in Graphs /\ ~ g.fonts /\ g.nodes = v.graph.nodes
  BY DEF Videos, Graphs
<1>2. [Scrubbed(v) EXCEPT !.graph = substituteOpenCLTonemap(k, @)] = u
  BY DEF Scrubbed, Videos
<1> HIDE DEF g
<1>3. h \in Graphs /\ ~ h.fonts
  BY <1>1, SubstituteIs
<1>4. Has(h, vaapiFilterTokens) <=> Has(g, vaapiFilterTokens)
  BY <1>1, SubstituteIs DEF vaapiFilterTokens
<1>5. Has(h, nvencFilterTokens) <=> Has(g, nvencFilterTokens)
  BY <1>1, SubstituteIs DEF nvencFilterTokens
<1>6. Has(g, vaapiFilterTokens) = Has(v.graph, vaapiFilterTokens)
  BY <1>1 DEF Has
<1>7. Has(g, nvencFilterTokens) = Has(v.graph, nvencFilterTokens)
  BY <1>1 DEF Has
<1> HIDE DEF h
<1>8. SameAxes(u, v) /\ u.graph = h
  BY <1>3 DEF SameAxes, Clean, Videos
<1> HIDE DEF u
<1>9. detectSourceBackend(u) = detectSourceBackend(v)
  BY <1>4, <1>5, <1>6, <1>7, <1>8 DEF detectSourceBackend, SameAxes
<1> QED
  BY <1>2, <1>8, <1>9

LEMMA DeviceIs ==
  ASSUME job \in Jobs, NEW v, Clean(v)
  PROVE  SameAxes(DeviceFor(v), v) /\ SameAxes([v EXCEPT !.device = "none"], v)
<1> DEFINE d == IF Driverless(v.device) # initHWDevice(w.backend)
                THEN initHWDevice(w.backend) ELSE Driverless(v.device)
<1>1. v \in Videos /\ v.device \in Names /\ "none" \in Names
  BY NamesAssumption DEF Clean, Videos
<1>2. d \in Names
  BY <1>1, JobIs, DialectIs
<1>3. DeviceFor(v) = [v EXCEPT !.device = d]
  BY <1>1 DEF DeviceFor, Videos
<1> HIDE DEF d
<1> QED
  BY <1>1, <1>2, <1>3 DEF SameAxes, Clean, Videos

LEMMA ResidentVideoIs ==
  ASSUME job \in Jobs, NEW v, Clean(v)
  PROVE  SameAxes(Resident(v), v)
<1>1. hwaccelOutputFormat(w.backend) \in Names
  BY JobIs, DialectIs
<1> QED
  BY <1>1 DEF Resident, SameAxes, Clean, Videos

LEMMA RegraphAxes ==
  ASSUME NEW v, Clean(v), NEW g, Fresh(g)
  PROVE  SameAxes(Regraph(v, g), v)
BY RegraphIs, RegraphClean DEF SameAxes, Clean, Fresh, OnlyGraph

LEMMA OpenCLIs ==
  ASSUME NEW v, Clean(v)
  PROVE  SameAxes(OpenCLResident(v), v)
<1> DEFINE g == gpuResidentGraph(v.graph)
           o == v.ocl \/ v.device \in {"vaapi", "vaapi+driver"}
           f == IF v.outfmt = "none" THEN "vaapi" ELSE v.outfmt
<1>1. v.graph \in Graphs /\ v.outfmt \in Names /\ v.ocl \in BOOLEAN
  BY DEF Clean, Videos
<1>2. g \in Graphs /\ ~ g.fonts
  BY <1>1, ResidentIs DEF Clean
<1>3. o \in BOOLEAN
  BY <1>1
<1>4. f \in Names
  BY <1>1, NamesAssumption
<1>5. OpenCLResident(v) = [v EXCEPT !.graph = g, !.ocl = o, !.outfmt = f]
  BY DEF OpenCLResident, Clean, Videos
<1> HIDE DEF g, o, f
<1> DEFINE u == [v EXCEPT !.graph = g, !.ocl = o, !.outfmt = f]
<1>6. v \in Videos
  BY DEF Clean
<1>7. u \in Videos
  BY <1>2, <1>3, <1>4, <1>6 DEF Videos
<1>8. u.graph = g /\ u.accel = v.accel /\ u.enc = v.enc
  BY <1>6 DEF Videos
<1> QED
  BY <1>2, <1>5, <1>7, <1>8 DEF SameAxes, Clean

LEMMA SettledIs ==
  ASSUME NEW v, Clean(v), NEW b
  PROVE  /\ SameAxes(ensureHEVCMain10(v), v)
         /\ SameAxes([v EXCEPT !.sei = @ \/ (b /\ v.keyframes)], v)
         /\ SameAxes(stripInlineassDecodeSink(v), v)
<1>1. SameAxes(ensureHEVCMain10(v), v)
  <2> DEFINE m == v.main10 \/ (encoderIsHEVC(v) /\ graphFeedsTenBit(v.graph))
  <2>1. ensureHEVCMain10(v) = [v EXCEPT !.main10 = m]
    BY DEF ensureHEVCMain10, Clean, Videos
  <2>2. m \in BOOLEAN
    BY DEF Clean, Videos
  <2> HIDE DEF m
  <2> QED
    BY <2>1, <2>2 DEF SameAxes, Clean, Videos
<1>2. SameAxes([v EXCEPT !.sei = @ \/ (b /\ v.keyframes)], v)
  <2> DEFINE m == v.sei \/ (b /\ v.keyframes)
  <2>1. [v EXCEPT !.sei = @ \/ (b /\ v.keyframes)] = [v EXCEPT !.sei = m]
    BY DEF Clean, Videos
  <2>2. m \in BOOLEAN
    BY DEF Clean, Videos
  <2> HIDE DEF m
  <2> QED
    BY <2>1, <2>2 DEF SameAxes, Clean, Videos
<1>3. SameAxes(stripInlineassDecodeSink(v), v)
  <2> DEFINE m == v.sink /\ v.ia # "embedded"
  <2>1. stripInlineassDecodeSink(v) = [v EXCEPT !.sink = m]
    BY DEF stripInlineassDecodeSink, Clean, Videos
  <2>2. m \in BOOLEAN
    BY DEF Clean, Videos
  <2> HIDE DEF m
  <2> QED
    BY <2>1, <2>2 DEF SameAxes, Clean, Videos
<1> QED
  BY <1>1, <1>2, <1>3

\* What each phase does to hardware and software.
LEMMA CleanNow == IInv /\ pc # "scrub" => Clean(argv)
BY DEF IInv, TypeOK, Phased, Clean

LEMMA ScrubDoes ==
  ASSUME IInv, Scrub
  PROVE  SameAxes(argv', job.video) /\ detectSourceBackend(argv') = detectSourceBackend(job.video)
<1>1. argv = job.video /\ argv \in Videos
  BY DEF IInv, Phased, TypeOK, Scrub
<1>2. argv' = [Scrubbed(argv) EXCEPT !.graph = substituteOpenCLTonemap(w, @)]
  BY DEF Scrub
<1> QED
  BY <1>1, <1>2, ScrubIs

LEMMA ReshapeDoes ==
  ASSUME IInv, Reshape
  PROVE  /\ Clean(argv')
         /\ HW => /\ argv'.accel = "none" <=> argv.accel = "none"
                  /\ argv'.enc \in SWEncoders <=> argv.enc \in SWEncoders
         /\ ~ HW => argv'.accel = "none"
<1>1. Clean(argv) /\ w \in WorkerKinds /\ w.backend \in GPUs \cup {"sw"}
  BY CleanNow, JobIs DEF IInv, Phased, Reshape
<1>2. CASE w.backend = "sw"
  <2>1. argv' = reshapeToSoftware(argv)
    BY <1>2 DEF Reshape
  <2> QED
    BY <1>1, <1>2, <2>1, ReshapeToSoftwareIs DEF HW, GPUs
<1>3. CASE w.backend # "sw"
  <2>1. w.backend \in GPUs /\ HW
    BY <1>1, <1>3 DEF HW
  <2>2. argv' = reshapeForeignHWArgv(argv, w) \/ argv' = argv
    BY <1>3 DEF Reshape
  <2> QED
    BY <1>1, <2>1, <2>2, ReshapeForeignIs
<1> QED
  BY <1>2, <1>3

\* Only a worker with a GPU moves a decoder to it.
LEMMA Movable ==
  ASSUME job \in Jobs, IsShort \/ argv.dec \in DOMAIN decoderMap(w.backend)
  PROVE  HW
<1>1. CASE w.backend = "sw"
  <2>1. DOMAIN decoderMap(w.backend) = {}
    BY <1>1 DEF decoderMap
  <2> QED
    BY <1>1, <2>1 DEF IsShort, hwDecodeShortCodecs
<1> QED
  BY <1>1, JobIs DEF HW

LEMMA DecoderNamed ==
  ASSUME NEW b \in GPUs, NEW d \in DOMAIN decoderMap(b)
  PROVE  decoderMap(b)[d] \in Names
<1>1. decoderMap(b) = [libdav1d |-> "av1", libhevc |-> "hevc", libx264 |-> "h264"]
  BY DEF decoderMap, GPUs
<1> QED
  BY <1>1, NamesAssumption

LEMMA UpgradeDoes ==
  ASSUME IInv, UpgradeDecoder
  PROVE  HW /\ Clean(argv') /\ argv'.accel # "none" /\ argv'.enc = argv.enc
<1> DEFINE d == IF IsShort THEN argv.dec ELSE decoderMap(w.backend)[argv.dec]
           v == [argv EXCEPT !.dec = d]
<1>1. Clean(argv) /\ job \in Jobs
  BY CleanNow DEF IInv, Phased, UpgradeDecoder
<1>2. IsShort \/ argv.dec \in DOMAIN decoderMap(w.backend)
  BY DEF UpgradeDecoder
<1>3. HW
  BY <1>1, <1>2, Movable
<1>4. argv.dec \in Names
  BY <1>1 DEF Clean, Videos
<1>5. d \in Names
  BY <1>2, <1>3, <1>4, DecoderNamed DEF HW
<1>6. argv' = Accelerated(v, w.backend)
  BY <1>1 DEF UpgradeDecoder, DecoderSet, Clean, Videos
<1> HIDE DEF d
<1>7. Clean(v) /\ v.enc = argv.enc
  BY <1>1, <1>5 DEF Clean, Videos
<1> HIDE DEF v
<1> QED
  BY <1>3, <1>6, <1>7, AcceleratedIs DEF HW

LEMMA SetDeviceDoes ==
  ASSUME IInv, SetDevice
  PROVE  SameAxes(argv', argv)
<1>1. Clean(argv) /\ job \in Jobs
  BY CleanNow DEF IInv, Phased, SetDevice
<1>2. argv' = [argv EXCEPT !.device = "none"] \/ argv' = DeviceFor(argv)
  BY DEF SetDevice
<1> QED
  BY <1>1, <1>2, DeviceIs

LEMMA MovePictureDoes ==
  ASSUME IInv, MovePicture
  PROVE  Clean(argv') /\ argv'.accel = argv.accel /\ (HW => argv'.enc \notin SWEncoders)
<1> DEFINE g == Recompose(w, Burn(PictureFacts, FALSE, FALSE), PictureFacts.select)
           v == Regraph(argv, g)
           e == encoderMap(w.backend)[v.enc]
<1>1. Clean(argv) /\ job \in Jobs /\ argv.enc \in SWEncoders
  BY CleanNow DEF IInv, Phased, MovePicture, plexSWEncoder
<1>2. Fresh(g)
  BY RecomposeTyped
<1>3. argv' = [v EXCEPT !.enc = e]
  BY DEF MovePicture
<1> HIDE DEF g
<1>4. SameAxes(v, argv)
  BY <1>1, <1>2, RegraphAxes
<1> HIDE DEF v
<1>5. e \in Names /\ (HW => e \notin SWEncoders)
  BY <1>1, <1>4, JobIs, EncoderIs DEF SameAxes, HW
<1> HIDE DEF e
<1> QED
  BY <1>3, <1>4, <1>5 DEF SameAxes, Clean, Videos

LEMMA BurnTextDoes ==
  ASSUME IInv, BurnText
  PROVE  SameAxes(argv', argv)
<1> DEFINE g == Recompose(w, Burn(PictureFacts, TRUE, KeepsTenBit(media.hdr, PictureFacts)),
                          PictureFacts.select)
           v == Resident(argv)
<1>1. Clean(argv) /\ job \in Jobs
  BY CleanNow DEF IInv, Phased, BurnText, HardwareEncoder
<1>2. Fresh(g)
  BY RecomposeTyped
<1>3. argv' = Regraph(v, g)
  BY DEF BurnText
<1>4. SameAxes(v, argv)
  BY <1>1, ResidentVideoIs
<1> HIDE DEF g, v
<1>5. SameAxes(Regraph(v, g), v)
  BY <1>2, <1>4, RegraphAxes DEF SameAxes
<1> QED
  BY <1>3, <1>4, <1>5 DEF SameAxes

LEMMA BurnOverlayDoes ==
  ASSUME IInv, BurnOverlay
  PROVE  SameAxes(argv', argv)
<1> DEFINE g == composeBurn(w, OverlaySpec)
           v == Resident(argv)
           u == Regraph(v, g)
<1>1. Clean(argv) /\ job \in Jobs
  BY CleanNow DEF IInv, Phased, BurnOverlay, HardwareEncoder
<1>2. Fresh(g)
  BY ComposedGPUTyped
<1>3. argv' = [u EXCEPT !.ia = "embedded"]
  BY DEF BurnOverlay
<1>4. SameAxes(v, argv)
  BY <1>1, ResidentVideoIs
<1> HIDE DEF g, v
<1>5. SameAxes(u, argv)
  BY <1>2, <1>4, RegraphAxes DEF SameAxes
<1> HIDE DEF u
<1>6. SameAxes([u EXCEPT !.ia = "embedded"], u)
  BY <1>5 DEF SameAxes, Clean, Videos
<1> QED
  BY <1>3, <1>5, <1>6 DEF SameAxes

LEMMA SettlePictureDoes ==
  ASSUME IInv, SettlePicture
  PROVE  SameAxes(argv', argv)
<1> DEFINE u == IF w.backend = "vaapi" /\ argv.accel # "none" /\ Has(argv.graph, {"tonemap_opencl"})
                THEN OpenCLResident(argv) ELSE argv
           v == ensureHEVCMain10(u)
<1>1. Clean(argv)
  BY CleanNow DEF SettlePicture
<1>2. SameAxes(u, argv)
  BY <1>1, OpenCLIs DEF SameAxes
<1>3. argv' = [v EXCEPT !.sei = @ \/ (honour = "none" /\ v.keyframes)]
  BY DEF SettlePicture
<1> HIDE DEF u
<1>4. SameAxes(v, argv)
  BY <1>2, SettledIs DEF SameAxes
<1> HIDE DEF v
<1>5. SameAxes([v EXCEPT !.sei = @ \/ (honour = "none" /\ v.keyframes)], v)
  BY <1>4, SettledIs DEF SameAxes
<1> QED
  BY <1>3, <1>4, <1>5 DEF SameAxes

LEMMA FinishDoes ==
  ASSUME IInv, FinishTransport
  PROVE  SameAxes(argv', argv)
<1>1. Clean(argv)
  BY CleanNow DEF FinishTransport
<1>2. argv' = argv \/ argv' = stripInlineassDecodeSink(argv)
  BY DEF FinishTransport
<1> QED
  BY <1>1, <1>2, SettledIs DEF SameAxes

-----------------------------------------------------------------------------
(***************************************************************************)
(* The invariant of every phase.                                           *)
(***************************************************************************)
Later == {"gate", "reshape", "decode", "device", "picture", "encoder", "resident", "tail"}

LEMMA Advanced ==
  ASSUME IInv, pc # "done", Clean(argv'), NEW to \in Later, Advance(to),
         granted' \in BOOLEAN, remux' \in BOOLEAN, hwDecode' \in BOOLEAN,
         honour' \in {"none", "sw", "hybrid"}, remux' => to = "tail"
  PROVE  IInv'
<1>1. TypeOK'
  BY DEF IInv, TypeOK, Advance, Clean, Later
<1>2. Phased'
  BY DEF IInv, Phased, Advance, Clean, Later
<1> QED
  BY <1>1, <1>2 DEF IInv

\* All but the first phase leave the remux alone, and none of them sees one.
LEMMA NoRemux == IInv /\ pc \notin {"tail", "done"} => ~ remux
BY DEF IInv, Phased

LEMMA BailTyped ==
  ASSUME IInv, pc # "done", NEW why \in Reasons, Bail(why)
  PROVE  IInv' /\ Runnable(transport', env) /\ pc' = "done" /\ reason' = why
<1>1. job \in Jobs
  BY DEF IInv, Phased
<1>2. SameAxes(Scrubbed(job.video), job.video)
  BY <1>1, JobIs, ScrubbedIs
<1>3. Runnable(Bailed(job.transport, env, why), env)
  BY <1>1, JobIs, BailedIs
<1>4. Runnable(transport', env)
  BY <1>3 DEF Bail
<1>5. transport' \in TransportOf(Names)
  BY <1>4 DEF Runnable, Plain
<1>6. TypeOK'
  BY <1>2, <1>5 DEF IInv, TypeOK, Bail, SameAxes, Clean
<1>7. Phased'
  BY <1>2 DEF IInv, Phased, Bail, SameAxes, Clean
<1> QED
  BY <1>4, <1>6, <1>7 DEF IInv, Bail

LEMMA InvInit == Init => IInv
<1> SUFFICES ASSUME Init PROVE IInv
  OBVIOUS
<1>1. job \in Jobs
  BY DEF Init
<1>2. argv \in Videos /\ transport \in TransportOf(Names)
  BY <1>1, JobIs, PlexTransportIs DEF Init
<1>3. reported \in Urls
  BY NoUrlIs DEF Init
<1> QED
  BY <1>1, <1>2, <1>3 DEF Init, IInv, TypeOK, Phased, Reasons

\* Which of the ways to give up is taken, and for which reason.
LEMMA SomeReason == Bails => pc # "done" /\ \E why \in Reasons \ {"none"} : Bail(why)
<1> SUFFICES ASSUME Bails PROVE pc # "done" /\ \E why \in Reasons \ {"none"} : Bail(why)
  OBVIOUS
<1>1. CASE BailSubtitles
  BY <1>1 DEF BailSubtitles, Reasons
<1>2. CASE BailNoInput
  BY <1>2 DEF BailNoInput, Reasons
<1>3. CASE BailNoDecoder
  BY <1>3 DEF BailNoDecoder, Reasons
<1>4. CASE BailUnknownDecoder
  BY <1>4 DEF BailUnknownDecoder, Reasons
<1>5. CASE BailNoEncoder
  BY <1>5 DEF BailNoEncoder, Reasons
<1>6. CASE BailNoVideoFilter
  BY <1>6 DEF BailNoVideoFilter, Reasons
<1>7. CASE BailFilterPattern
  BY <1>7 DEF BailFilterPattern, Reasons
<1>8. CASE BailUnknownEncoder
  BY <1>8 DEF BailUnknownEncoder, Reasons
<1>9. CASE BailUnexpectedEncoder
  BY <1>9 DEF BailUnexpectedEncoder, Reasons
<1>10. CASE BailSubNoInlineass
  BY <1>10 DEF BailSubNoInlineass, HardwareEncoder, Reasons
<1>11. CASE BailSubUnmodeled
  BY <1>11 DEF BailSubUnmodeled, HardwareEncoder, Reasons
<1>12. CASE BailSubBitmap
  BY <1>12 DEF BailSubBitmap, HardwareEncoder, Reasons
<1> QED
  BY <1>1, <1>2, <1>3, <1>4, <1>5, <1>6, <1>7, <1>8, <1>9, <1>10, <1>11, <1>12 DEF Bails

LEMMA InvStep == IInv /\ [Next]_vars => IInv'
<1> SUFFICES ASSUME IInv, [Next]_vars PROVE IInv'
  OBVIOUS
<1>0. /\ granted \in BOOLEAN /\ hwDecode \in BOOLEAN /\ remux \in BOOLEAN
      /\ honour \in {"none", "sw", "hybrid"} /\ job \in Jobs
  BY DEF IInv, TypeOK, Phased
<1>1. CASE Scrub
  <2>1. Clean(argv')
    BY <1>1, ScrubDoes DEF SameAxes
  <2>2. remux' \in BOOLEAN
    BY <1>1 DEF Scrub, isOptimizeRemux
  <2>3. pc # "done" /\ UNCHANGED <<granted, honour, hwDecode>>
    BY <1>1 DEF Scrub
  <2>4. CASE remux'
    <3>1. Advance("tail") /\ "tail" \in Later
      BY <1>1, <2>4 DEF Scrub, Later
    <3> QED
      BY <1>0, <2>1, <2>2, <2>3, <3>1, Advanced
  <2>5. CASE ~ remux'
    <3>1. Advance("gate") /\ "gate" \in Later
      BY <1>1, <2>5 DEF Scrub, Later
    <3> QED
      BY <1>0, <2>1, <2>2, <2>3, <2>5, <3>1, Advanced
  <2> QED
    BY <2>4, <2>5
<1>2. CASE Gate
  <2>1. Clean(argv')
    BY <1>2, CleanNow DEF Gate
  <2>2. granted' \in BOOLEAN /\ Advance("reshape") /\ "reshape" \in Later /\ pc # "done"
    BY <1>2 DEF Gate, Later
  <2>3. ~ remux /\ UNCHANGED <<remux, honour, hwDecode>>
    BY <1>2, NoRemux DEF Gate
  <2> QED
    BY <1>0, <2>1, <2>2, <2>3, Advanced
<1>3. CASE Reshape
  <2>1. Clean(argv')
    BY <1>3, ReshapeDoes
  <2>2. Advance("decode") /\ "decode" \in Later /\ pc # "done"
    BY <1>3 DEF Reshape, Later
  <2>3. ~ remux /\ UNCHANGED <<granted, remux, honour, hwDecode>>
    BY <1>3, NoRemux DEF Reshape
  <2> QED
    BY <1>0, <2>1, <2>2, <2>3, Advanced
<1>4. CASE KeepDecoder \/ UpgradeDecoder
  <2>1. Clean(argv')
    <3>1. CASE KeepDecoder
      BY <3>1, CleanNow DEF KeepDecoder, DecoderSet
    <3>2. CASE UpgradeDecoder
      BY <3>2, UpgradeDoes
    <3> QED
      BY <1>4, <3>1, <3>2
  <2>2. Advance("device") /\ "device" \in Later /\ pc = "decode"
    BY <1>4 DEF KeepDecoder, UpgradeDecoder, DecoderSet, Later
  <2>3. honour' = Honour /\ hwDecode' \in BOOLEAN /\ UNCHANGED <<granted, remux>>
    BY <1>4 DEF KeepDecoder, UpgradeDecoder, DecoderSet
  <2>4. Honour \in {"none", "sw", "hybrid"}
    BY DEF Honour
  <2>5. ~ remux
    BY <2>2, NoRemux
  <2> QED
    BY <1>0, <2>1, <2>2, <2>3, <2>4, <2>5, Advanced
<1>5. CASE SetDevice
  <2>1. Clean(argv')
    BY <1>5, SetDeviceDoes DEF SameAxes
  <2>2. \E to \in Later : Advance(to)
    BY <1>5 DEF SetDevice, Later
  <2>3. pc = "device" /\ ~ remux /\ UNCHANGED <<granted, remux, honour, hwDecode>>
    BY <1>5, NoRemux DEF SetDevice
  <2> QED
    BY <1>0, <2>1, <2>2, <2>3, Advanced
<1>6. CASE MovePicture \/ BurnText \/ BurnOverlay \/ KeepPicture
  <2>1. pc \in {"picture", "encoder"} /\ UNCHANGED <<granted, remux, honour, hwDecode>>
    BY <1>6 DEF MovePicture, BurnText, BurnOverlay, KeepPicture, HardwareEncoder
  <2>2. Clean(argv')
    <3>1. CASE KeepPicture
      BY <3>1, CleanNow DEF KeepPicture, HardwareEncoder
    <3> QED
      BY <1>6, <3>1, MovePictureDoes, BurnTextDoes, BurnOverlayDoes DEF SameAxes
  <2>3. Advance("resident") /\ "resident" \in Later
    BY <1>6 DEF MovePicture, BurnText, BurnOverlay, KeepPicture, Later
  <2>4. ~ remux
    BY <2>1, NoRemux
  <2> QED
    BY <1>0, <2>1, <2>2, <2>3, <2>4, Advanced
<1>7. CASE SettlePicture
  <2>1. Clean(argv')
    BY <1>7, SettlePictureDoes DEF SameAxes
  <2>2. Advance("tail") /\ "tail" \in Later /\ pc # "done"
    BY <1>7 DEF SettlePicture, Later
  <2>3. UNCHANGED <<granted, remux, honour, hwDecode>>
    BY <1>7 DEF SettlePicture
  <2> QED
    BY <1>0, <2>1, <2>2, <2>3, Advanced
<1>8. CASE FinishTransport
  <2>1. Clean(argv')
    BY <1>8, FinishDoes DEF SameAxes
  <2>2. job.transport \in PlexTransports(Names) /\ transport = job.transport
    BY <1>0, <1>8, JobIs DEF IInv, Phased, FinishTransport
  <2>3. transport' \in TransportOf(Names) /\ reported' \in Urls
    BY <1>8, <2>2, TailIs DEF FinishTransport, Runnable, Plain
  <2>4. TypeOK'
    BY <1>8, <2>1, <2>3 DEF IInv, TypeOK, FinishTransport, Clean
  <2>5. reason' = "none" /\ Phased'
    BY <1>8, <2>1 DEF IInv, Phased, FinishTransport, Clean
  <2> QED
    BY <2>4, <2>5 DEF IInv
<1>9. CASE Bails
  BY <1>9, SomeReason, BailTyped
<1>10. CASE UNCHANGED vars
  <2>1. TypeOK'
    BY <1>10 DEF IInv, TypeOK, vars
  <2>2. Phased'
    BY <1>10 DEF IInv, Phased, vars
  <2> QED
    BY <2>1, <2>2 DEF IInv
<1> QED
  BY <1>1, <1>2, <1>3, <1>4, <1>5, <1>6, <1>7, <1>8, <1>9, <1>10 DEF Next

LEMMA Invariant == Spec => []IInv
BY InvInit, InvStep, PTL DEF Spec

-----------------------------------------------------------------------------
(***************************************************************************)
(* AxesHonoured: what of Plex's choice still stands at each phase.         *)
(***************************************************************************)
\* Hardware and software are as Plex chose them.
Kept ==
  /\ argv.accel = "none" <=> job.video.accel = "none"
  /\ argv.enc \in SWEncoders <=> job.video.enc \in SWEncoders

\* What the gate lets through, once it is passed.
GateHeld ==
  pc \notin {"scrub", "gate"} /\ ~ remux /\ reason = "none" =>
    (granted <=> (env.force /\ detectSourceBackend(job.video) = "sw" => env.pass))

\* Up to the gate the mark of a backend is still Plex's.
Marked ==
  /\ pc = "gate" => detectSourceBackend(argv) = detectSourceBackend(job.video)
  /\ pc \in {"gate", "reshape"} => Kept

\* What is settled when the decoder is.
Decided ==
  /\ pc = "decode" => IF HW THEN Kept ELSE argv.accel = "none"
  /\ pc = "device" =>
       /\ honour = "sw" => argv.accel = "none" /\ plexSWEncoder /\ (HW => ~ forceHW /\ Kept)
       /\ honour = "hybrid" => HW /\ ~ forceHW /\ Kept
       /\ honour = "none" => /\ HW /\ argv.accel # "none" /\ (forceHW \/ ~ plexSWEncoder)
                             /\ hwDecode => Kept
  /\ pc = "picture" => HW /\ argv.accel # "none" /\ (forceHW \/ ~ plexSWEncoder)
  /\ pc = "encoder" => HW /\ argv.accel # "none" /\ (forceHW \/ Kept)

\* What is settled when the encoder is.
Chosen ==
  IF ~ HW THEN argv.accel = "none" /\ plexSWEncoder
  ELSE IF forceHW THEN argv.accel # "none" /\ ~ plexSWEncoder
  ELSE Kept

Settled == pc \in {"resident", "tail", "done"} /\ ~ remux /\ reason = "none" => Chosen

AxisInv == GateHeld /\ Marked /\ Decided /\ Settled

\* What the invariant is about stays put once an argv is on its way out.
LEMMA AxisInit == Init => AxisInv
BY DEF Init, AxisInv, GateHeld, Marked, Decided, Settled

LEMMA ForceIs == job \in Jobs => (forceHW <=> env.force /\ granted /\ HW)
BY JobIs DEF forceHW, HW, GPUs

LEMMA BailAxes ==
  ASSUME IInv, AxisInv, pc # "done", NEW why \in Reasons \ {"none"}, Bail(why)
  PROVE  AxisInv'
BY DEF AxisInv, GateHeld, Marked, Decided, Settled, Bail

LEMMA AxisStep == IInv /\ AxisInv /\ [Next]_vars => AxisInv'
<1> SUFFICES ASSUME IInv, AxisInv, [Next]_vars PROVE AxisInv'
  OBVIOUS
<1>0. job \in Jobs /\ (pc # "done" => reason = "none") /\ (remux => pc \in {"tail", "done"})
  BY DEF IInv, Phased
<1>1. CASE Scrub
  <2>1. /\ argv'.accel = job.video.accel /\ argv'.enc = job.video.enc
        /\ detectSourceBackend(argv') = detectSourceBackend(job.video)
    BY <1>1, ScrubDoes DEF SameAxes
  <2>2. job' = job /\ (pc' = "gate" \/ (pc' = "tail" /\ remux'))
    BY <1>1 DEF Scrub, Advance
  <2> QED
    BY <2>1, <2>2 DEF AxisInv, GateHeld, Marked, Kept, Decided, Settled
<1>2. CASE Gate
  <2>1. /\ pc' = "reshape" /\ UNCHANGED <<job, argv, remux, reason>>
        /\ granted' = (env.force /\ detectSourceBackend(argv) = "sw" => env.pass)
        /\ detectSourceBackend(argv) = detectSourceBackend(job.video) /\ Kept
    BY <1>2 DEF Gate, Advance, AxisInv, Marked
  <2>2. GateHeld'
    BY <2>1 DEF GateHeld, env
  <2> QED
    BY <2>1, <2>2 DEF AxisInv, Marked, Kept, Decided, Settled
<1>3. CASE Reshape
  <2>1. pc = "reshape" /\ pc' = "decode" /\ UNCHANGED <<job, granted, remux, reason>>
    BY <1>3 DEF Reshape, Advance
  <2>2. Kept
    BY <2>1 DEF AxisInv, Marked
  <2>3. IF HW THEN Kept' ELSE argv'.accel = "none"
    BY <1>3, <2>1, <2>2, ReshapeDoes DEF Kept
  <2>4. HW' = HW
    BY <2>1 DEF HW, w
  <2>5. GateHeld'
    BY <2>1, <1>0 DEF AxisInv, GateHeld, env
  <2> QED
    BY <2>1, <2>3, <2>4, <2>5 DEF AxisInv, Marked, Decided, Settled
<1>4. CASE KeepDecoder \/ UpgradeDecoder
  <2>1. /\ pc = "decode" /\ pc' = "device" /\ UNCHANGED <<job, granted, remux, reason>>
        /\ honour' = Honour
    BY <1>4 DEF KeepDecoder, UpgradeDecoder, DecoderSet, Advance
  <2>2. GateHeld'
    BY <2>1, <1>0 DEF AxisInv, GateHeld, env
  <2>3. HW' = HW /\ forceHW' = forceHW
    BY <2>1 DEF HW, w, forceHW, env
  <2>4. IF HW THEN Kept ELSE argv.accel = "none"
    BY <2>1 DEF AxisInv, Decided
  <2>5. Decided'
    <3>1. CASE Honour = "sw"
      <4>1. argv' = argv
        BY <1>4, <3>1 DEF KeepDecoder, UpgradeDecoder, DecoderSet
      <4>2. argv.accel = "none" /\ plexSWEncoder /\ ~ forceHW
        BY <3>1 DEF Honour
      <4>3. Kept' = Kept /\ plexSWEncoder' = plexSWEncoder
        BY <4>1, <2>1 DEF Kept, plexSWEncoder
      <4> QED
        BY <2>1, <2>3, <2>4, <3>1, <4>1, <4>2, <4>3 DEF Decided
    <3>2. CASE Honour # "sw" /\ KeepDecoder
      <4>1. argv' = argv /\ argv.accel # "none" /\ IsShort
        BY <3>2 DEF KeepDecoder, DecoderSet
      <4>2. HW /\ Kept
        BY <1>0, <2>4, <4>1, Movable
      <4>3. Kept' = Kept /\ plexSWEncoder' = plexSWEncoder
        BY <4>1, <2>1 DEF Kept, plexSWEncoder
      <4>4. Honour = "hybrid" => ~ forceHW
        BY DEF Honour
      <4>5. Honour = "none" => forceHW \/ ~ plexSWEncoder
        BY DEF Honour
      <4> QED
        BY <2>1, <2>3, <3>2, <4>1, <4>2, <4>3, <4>4, <4>5 DEF Decided
    <3>3. CASE Honour # "sw" /\ UpgradeDecoder
      <4>1. HW /\ argv'.accel # "none" /\ argv'.enc = argv.enc
        BY <3>3, UpgradeDoes
      <4>2. Kept
        BY <2>4, <4>1
      <4>3. plexSWEncoder' = plexSWEncoder
        BY <4>1 DEF plexSWEncoder
      <4>4. Honour = "hybrid" => ~ forceHW /\ argv.accel # "none"
        BY DEF Honour
      <4>5. Honour = "hybrid" => Kept'
        BY <2>1, <4>1, <4>2, <4>4 DEF Kept
      <4>6. Honour = "none" => forceHW \/ ~ plexSWEncoder
        BY DEF Honour
      <4>7. ~ hwDecode'
        BY <3>3 DEF UpgradeDecoder, DecoderSet
      <4> QED
        BY <2>1, <2>3, <3>3, <4>1, <4>3, <4>4, <4>5, <4>6, <4>7 DEF Decided
    <3> QED
      BY <1>4, <3>1, <3>2, <3>3
  <2> QED
    BY <2>1, <2>2, <2>5 DEF AxisInv, Marked, Settled
<1>5. CASE SetDevice
  <2>1. pc = "device" /\ UNCHANGED <<job, granted, remux, reason, honour, hwDecode>>
    BY <1>5 DEF SetDevice, Advance
  <2>2. pc' = IF honour \in {"sw", "hybrid"} THEN "resident"
              ELSE IF ~ hwDecode \/ (forceHW /\ plexSWEncoder) THEN "picture" ELSE "encoder"
    BY <1>5 DEF SetDevice, Advance
  <2>3. argv'.accel = argv.accel /\ argv'.enc = argv.enc
    BY <1>5, SetDeviceDoes DEF SameAxes
  <2>4. HW' = HW /\ forceHW' = forceHW /\ Kept' = Kept /\ plexSWEncoder' = plexSWEncoder
    BY <2>1, <2>3 DEF HW, w, forceHW, env, Kept, plexSWEncoder
  <2>5. GateHeld'
    BY <2>1, <2>2, <1>0 DEF AxisInv, GateHeld, env
  <2>6. honour \in {"none", "sw", "hybrid"}
    BY DEF IInv, TypeOK
  <2>7. Decided
    BY DEF AxisInv
  <2>8. CASE honour = "sw"
    <3>1. pc' = "resident"
      BY <2>2, <2>8
    <3>2. Chosen'
      BY <2>1, <2>3, <2>4, <2>7, <2>8 DEF Decided, Chosen
    <3> QED
      BY <3>1, <3>2, <2>5 DEF AxisInv, Marked, Decided, Settled
  <2>9. CASE honour = "hybrid"
    <3>1. pc' = "resident"
      BY <2>2, <2>9
    <3>2. Chosen'
      BY <2>1, <2>3, <2>4, <2>7, <2>9 DEF Decided, Chosen
    <3> QED
      BY <3>1, <3>2, <2>5 DEF AxisInv, Marked, Decided, Settled
  <2>10. CASE honour = "none"
    <3>1. /\ HW /\ argv.accel # "none" /\ (forceHW \/ ~ plexSWEncoder)
          /\ hwDecode => Kept
      BY <2>1, <2>7, <2>10 DEF Decided
    <3>2. pc' = "picture" \/ (pc' = "encoder" /\ hwDecode)
      BY <2>2, <2>10
    <3>3. Decided'
      BY <2>3, <2>4, <3>1, <3>2 DEF Decided
    <3> QED
      BY <3>2, <3>3, <2>5 DEF AxisInv, Marked, Settled
  <2> QED
    BY <2>6, <2>8, <2>9, <2>10
<1>6. CASE MovePicture
  <2>1. /\ pc = "picture" /\ pc' = "resident" /\ UNCHANGED <<job, granted, remux, reason>>
        /\ plexSWEncoder
    BY <1>6 DEF MovePicture, Advance
  <2>2. HW /\ argv.accel # "none" /\ forceHW
    BY <2>1 DEF AxisInv, Decided
  <2>3. argv'.accel # "none" /\ argv'.enc \notin SWEncoders
    BY <1>6, <2>2, MovePictureDoes
  <2>4. HW' = HW /\ forceHW' = forceHW
    BY <2>1 DEF HW, w, forceHW, env
  <2>5. Chosen'
    BY <2>2, <2>3, <2>4 DEF Chosen, plexSWEncoder
  <2>6. GateHeld'
    BY <2>1, <1>0 DEF AxisInv, GateHeld, env
  <2> QED
    BY <2>1, <2>5, <2>6 DEF AxisInv, Marked, Decided, Settled
<1>7. CASE BurnText \/ BurnOverlay \/ KeepPicture
  <2>1. /\ pc = "encoder" /\ pc' = "resident" /\ UNCHANGED <<job, granted, remux, reason>>
        /\ argv.enc \in HWEncoders(w.backend)
    BY <1>7 DEF BurnText, BurnOverlay, KeepPicture, HardwareEncoder, Advance
  <2>2. HW /\ argv.accel # "none" /\ (forceHW \/ Kept)
    BY <2>1 DEF AxisInv, Decided
  <2>3. argv.enc \notin SWEncoders
    BY <2>1, <2>2, HWEncodersAre DEF HW
  <2>4. argv'.accel = argv.accel /\ argv'.enc = argv.enc
    BY <1>7, BurnTextDoes, BurnOverlayDoes DEF SameAxes, KeepPicture
  <2>5. HW' = HW /\ forceHW' = forceHW /\ Kept' = Kept
    BY <2>1, <2>4 DEF HW, w, forceHW, env, Kept
  <2>6. Chosen'
    BY <2>2, <2>3, <2>4, <2>5 DEF Chosen, plexSWEncoder
  <2>7. GateHeld'
    BY <2>1, <1>0 DEF AxisInv, GateHeld, env
  <2> QED
    BY <2>1, <2>6, <2>7 DEF AxisInv, Marked, Decided, Settled
<1>8. CASE SettlePicture \/ FinishTransport
  <2>1. /\ pc \in {"resident", "tail"} /\ pc' \in {"tail", "done"}
        /\ UNCHANGED <<job, granted, remux, reason>>
    BY <1>8 DEF SettlePicture, FinishTransport, Advance
  <2>2. argv'.accel = argv.accel /\ argv'.enc = argv.enc
    BY <1>8, SettlePictureDoes, FinishDoes DEF SameAxes
  <2>3. Chosen' = Chosen
    BY <2>1, <2>2 DEF Chosen, HW, w, forceHW, env, Kept, plexSWEncoder
  <2>4. GateHeld'
    BY <2>1, <1>0 DEF AxisInv, GateHeld, env
  <2> QED
    BY <2>1, <2>3, <2>4 DEF AxisInv, Marked, Decided, Settled
<1>9. CASE Bails
  BY <1>9, SomeReason, BailAxes
<1>10. CASE UNCHANGED vars
  <2>1. GateHeld'
    BY <1>10 DEF AxisInv, GateHeld, env, vars
  <2>2. Marked'
    BY <1>10 DEF AxisInv, Marked, Kept, vars
  <2>3. Decided'
    BY <1>10 DEF AxisInv, Decided, HW, w, forceHW, env, Kept, plexSWEncoder, vars
  <2>4. Settled'
    BY <1>10 DEF AxisInv, Settled, Chosen, HW, w, forceHW, env, Kept, plexSWEncoder, vars
  <2> QED
    BY <2>1, <2>2, <2>3, <2>4 DEF AxisInv
<1> QED
  BY <1>1, <1>2, <1>3, <1>4, <1>5, <1>6, <1>7, <1>8, <1>9, <1>10 DEF Next

\* For any argv Plex may write and any worker, hardware and software stay as
\* Plex chose them on each axis; a worker without a GPU takes neither, and an
\* operator that forces the GPU gets both, for a software pipeline only with a
\* Plex Pass (rewriter.go:2497-2608).
THEOREM AxesAlwaysHonoured == Spec => []AxesHonoured
<1>1. IInv /\ AxisInv => AxesHonoured
  <2> SUFFICES ASSUME IInv, AxisInv, Rewritten
               PROVE  Axes(argv) = IF w.backend = "sw" THEN [decode |-> FALSE, encode |-> FALSE]
                                   ELSE IF Forced THEN [decode |-> TRUE, encode |-> TRUE]
                                   ELSE Axes(job.video)
    BY DEF AxesHonoured
  <2>1. job \in Jobs /\ w.backend \in GPUs \cup {"sw"}
    BY JobIs DEF IInv, Phased
  <2>2. Chosen /\ (granted <=> (env.force /\ detectSourceBackend(job.video) = "sw" => env.pass))
    BY DEF AxisInv, Settled, GateHeld, Rewritten
  <2>3. HW <=> w.backend # "sw"
    BY <2>1 DEF HW, GPUs
  <2>4. HW => (Forced <=> forceHW)
    BY <2>1, <2>2, <2>3, ForceIs DEF Forced
  <2>5. CASE ~ HW
    BY <2>2, <2>3, <2>5 DEF Chosen, Axes, plexSWEncoder
  <2>6. CASE HW /\ forceHW
    BY <2>2, <2>3, <2>4, <2>6 DEF Chosen, Axes, plexSWEncoder
  <2>7. CASE HW /\ ~ forceHW
    BY <2>2, <2>3, <2>4, <2>7 DEF Chosen, Axes, Kept
  <2> QED
    BY <2>5, <2>6, <2>7
<1>2. Spec => [](IInv /\ AxisInv)
  BY InvInit, InvStep, AxisInit, AxisStep, PTL DEF Spec
<1> QED
  BY <1>1, <1>2, PTL

\* The rewriter keeps an argv, whatever its phase (rewriter.go:2204-3522).
THEOREM TypeCorrect == Spec => []TypeOK
BY Invariant, PTL DEF IInv

-----------------------------------------------------------------------------
(***************************************************************************)
(* The two ways out: what is left of Plex's own, and what the relay gets.  *)
(***************************************************************************)
\* How often the address of a list says how long a segment is.
Durations(u) == IF reason = "none" /\ ~ u.subs THEN 1 ELSE 0

Sent ==
  pc = "done" =>
    /\ Runnable(transport, env)
    /\ transport.ahex = job.transport.ahex
    /\ reason = "no-decoder" => transport.adec \notin EAE
    /\ env.base =>
         /\ \A i \in DOMAIN transport.lists :
              Addressed(transport.lists[i], env, Durations(transport.lists[i]))
         /\ reason = "none" /\ job.transport.progress # NoUrl =>
              reported.host = "relay" /\ (env.nothrottle \/ transport.throttle # NoUrl)

LEMMA SentFinish == IInv /\ FinishTransport => Sent'
<1> SUFFICES ASSUME IInv, FinishTransport PROVE Sent'
  OBVIOUS
<1> DEFINE t == job.transport
           c == CommonTail(t, env)
           r == c.transport
<1>1. t \in PlexTransports(Names) /\ transport = t /\ reason = "none"
  BY JobIs DEF IInv, Phased, FinishTransport
<1>2. /\ transport' = r /\ reported' = c.reported /\ reason' = "none"
      /\ job' = job /\ env' = env
  BY <1>1 DEF FinishTransport, env
<1>3. /\ Runnable(r, env) /\ r.ahex = t.ahex
      /\ env.base => \A i \in DOMAIN r.lists :
                     Addressed(r.lists[i], env, IF r.lists[i].subs THEN 0 ELSE 1)
      /\ env.base /\ t.progress # NoUrl =>
           c.reported.host = "relay" /\ (env.nothrottle \/ r.throttle # NoUrl)
  BY <1>1, TailIs
<1> HIDE DEF c
<1>4. Runnable(transport', env') /\ transport'.ahex = job'.transport.ahex /\ reason' # "no-decoder"
  BY <1>2, <1>3
<1>5. \A u : (IF reason' = "none" /\ ~ u.subs THEN 1 ELSE 0) = IF u.subs THEN 0 ELSE 1
  BY <1>2
<1>6. ASSUME env.base, NEW i \in DOMAIN transport'.lists
      PROVE  LET u == transport'.lists[i]
             IN  Addressed(u, env', IF reason' = "none" /\ ~ u.subs THEN 1 ELSE 0)
  <2> DEFINE u == r.lists[i]
  <2>1. Addressed(u, env, IF u.subs THEN 0 ELSE 1)
    BY <1>2, <1>3, <1>6
  <2>2. (IF reason' = "none" /\ ~ u.subs THEN 1 ELSE 0) = IF u.subs THEN 0 ELSE 1
    BY <1>5
  <2>3. transport'.lists[i] = u /\ env' = env
    BY <1>2
  <2> HIDE DEF u
  <2> QED
    BY <2>1, <2>2, <2>3
<1>7. reason' = "none" /\ job'.transport.progress # NoUrl /\ env'.base
         => reported'.host = "relay" /\ (env'.nothrottle \/ transport'.throttle # NoUrl)
  BY <1>2, <1>3
<1>8. env'.base <=> env.base
  BY <1>2
<1> HIDE DEF r
<1> QED
  BY <1>4, <1>6, <1>7, <1>8 DEF Sent, Durations

LEMMA SentBail == ASSUME IInv, pc # "done", NEW why \in Reasons \ {"none"}, Bail(why) PROVE Sent'
<1> DEFINE r == Bailed(job.transport, env, why)
<1>1. job.transport \in PlexTransports(Names)
  BY JobIs DEF IInv, Phased
<1>2. transport' = r /\ reason' = why /\ job' = job /\ env' = env
  BY DEF Bail, env
<1>3. /\ Runnable(r, env) /\ r.ahex = job.transport.ahex
      /\ why = "no-decoder" => r.adec \notin EAE
      /\ (env.base => \A i \in DOMAIN r.lists : Addressed(r.lists[i], env, 0))
  BY <1>1, BailedIs
<1> HIDE DEF r
<1>4. \A u : Durations(u)' = 0
  BY <1>2 DEF Durations
<1> QED
  BY <1>2, <1>3, <1>4 DEF Sent, Durations

LEMMA SentStep == IInv /\ Sent /\ [Next]_vars => Sent'
<1> SUFFICES ASSUME IInv, Sent, [Next]_vars PROVE Sent'
  OBVIOUS
<1>1. CASE Scrub \/ Gate \/ Reshape \/ KeepDecoder \/ UpgradeDecoder \/ SetDevice
  BY <1>1 DEF Scrub, Gate, Reshape, KeepDecoder, UpgradeDecoder, DecoderSet, SetDevice, Advance, Sent
<1>2. CASE MovePicture \/ BurnText \/ BurnOverlay \/ KeepPicture \/ SettlePicture
  BY <1>2 DEF MovePicture, BurnText, BurnOverlay, KeepPicture, SettlePicture, Advance, Sent
<1>3. CASE FinishTransport
  BY <1>3, SentFinish
<1>4. CASE Bails
  BY <1>4, SomeReason, SentBail
<1>5. CASE UNCHANGED vars
  BY <1>5 DEF Sent, Durations, env, vars
<1> QED
  BY <1>1, <1>2, <1>3, <1>4, <1>5 DEF Next

LEMMA SentInvariant == Spec => [](IInv /\ Sent)
<1>1. Init => Sent
  BY DEF Init, Sent
<1> QED
  BY <1>1, InvInit, InvStep, SentStep, PTL DEF Spec

\* For any transport Plex may write, nothing only its own ffmpeg or host knows
\* leaves the rewriter but a decoder of the sound that is named by a stream's id, whether the argv is rewritten, only remuxed, or given up
\* at any phase (rewriter.go:2256-2410, 3319-3463).
THEOREM NothingPlexEver == Spec => []NothingPlexOnly
<1>1. IInv /\ Sent => NothingPlexOnly
  <2> SUFFICES ASSUME IInv, Sent, pc = "done"
               PROVE  /\ transport.aenc \notin EAE /\ (HexSound \/ transport.adec \notin EAE)
                      /\ ~ transport.prefix /\ ~ transport.framedrop /\ ~ argv.graph.fonts
                      /\ transport.progress = NoUrl
                      /\ env.base => \A u \in {transport.manifest, transport.throttle}
                                              \cup {transport.lists[i] : i \in DOMAIN transport.lists} :
                                       u.host # "loopback"
    BY DEF NothingPlexOnly
  <2>1. Runnable(transport, env) /\ ~ argv.graph.fonts
    BY DEF IInv, Phased, Sent
  <2>2. HexSound \/ transport.adec \notin EAE
    BY <2>1 DEF Sent, HexSound, Runnable, Plain
  <2> QED
    BY <2>1, <2>2 DEF Runnable, Plain
<1> QED
  BY <1>1, SentInvariant, PTL

-----------------------------------------------------------------------------
\* A chunk of a transport stream gets the times of its number, whatever the muxer
\* kept; any other row is left.
LEMMA ListedServed ==
  ASSUME NEW first \in Nat, NEW copyts \in BOOLEAN
  PROVE  rewriteSegmentListCSV(Listed("media", first, copyts)) = Listed("media", first, TRUE)
<1> DEFINE l == Listed("media", first, copyts)
           r == rewriteSegmentListCSV(l)
           m == Listed("media", first, TRUE)
<1>1. DOMAIN l = 1..2 /\ DOMAIN m = 1..2
  BY DEF Listed
<1>2. \A i \in 1..2 : l[i].name = "media" /\ l[i].n = first + i - 1
  BY DEF Listed, Row
<1>3. \A i \in 1..2 : m[i] = Row("media", first + i - 1, ((i - 1) + first) * SegTime)
  BY DEF Listed
<1> HIDE DEF l, m
<1>4. r = [i \in 1..2 |-> Row("media", l[i].n, l[i].n * SegTime)]
  BY <1>1, <1>2 DEF rewriteSegmentListCSV
<1>5. \A i \in 1..2 : r[i] = m[i]
  <2> SUFFICES ASSUME NEW i \in 1..2 PROVE r[i] = m[i]
    OBVIOUS
  <2>1. first + i - 1 = (i - 1) + first
    OBVIOUS
  <2>2. r[i] = Row("media", first + i - 1, (first + i - 1) * SegTime)
    BY <1>2, <1>4
  <2> QED
    BY <1>3, <2>1, <2>2
<1>6. m = [i \in 1..2 |-> m[i]]
  BY <1>1 DEF m, Listed
<1> QED
  BY <1>4, <1>5, <1>6 DEF l, m

LEMMA OthersServed ==
  ASSUME NEW name, name # "media", NEW first \in Nat, NEW copyts \in BOOLEAN
  PROVE  rewriteSegmentListCSV(Listed(name, first, copyts)) = Listed(name, first, copyts)
<1> DEFINE l == Listed(name, first, copyts)
<1>1. DOMAIN l = 1..2 /\ \A i \in 1..2 : l[i].name # "media"
  BY DEF Listed, Row
<1>2. l = [i \in 1..2 |-> l[i]]
  BY DEF Listed
<1> HIDE DEF l
<1>3. rewriteSegmentListCSV(l) = [i \in 1..2 |-> l[i]]
  BY <1>1 DEF rewriteSegmentListCSV
<1> QED
  BY <1>2, <1>3 DEF l

\* A record of an address is told by its parts.
LEMMA UrlBack ==
  ASSUME NEW u \in Urls, NEW n \in Nat, u.tokens = n
  PROVE  [u EXCEPT !.host = "loopback", !.segTimes = 0] = [Url("loopback", u.subs) EXCEPT !.tokens = n]
<1> DEFINE r == [host |-> "loopback", subs |-> u.subs, tokens |-> n, segTimes |-> 0]
<1>1. u = [host |-> u.host, subs |-> u.subs, tokens |-> n, segTimes |-> u.segTimes]
  BY DEF Urls
<1>2. [u EXCEPT !.host = "loopback", !.segTimes = 0] = r
  <2> DEFINE v == [u EXCEPT !.host = "loopback", !.segTimes = 0]
  <2>1. v \in Urls
    BY DEF Urls
  <2>2. v.host = "loopback" /\ v.subs = u.subs /\ v.tokens = n /\ v.segTimes = 0
    BY DEF Urls
  <2> HIDE DEF v
  <2>3. v = [host |-> v.host, subs |-> v.subs, tokens |-> v.tokens, segTimes |-> v.segTimes]
    BY <2>1 DEF Urls
  <2>4. v = r
    BY <2>2, <2>3
  <2> QED
    BY <2>4 DEF v
<1>3. [Url("loopback", u.subs) EXCEPT !.tokens = n] = r
  BY DEF Url
<1> QED
  BY <1>2, <1>3

\* Through the relay PMS gets the chunks of a transport stream at the times of
\* their numbers and every other list as its muxer wrote it, its own token once,
\* and progress by a PUT, for any lists Plex may ask for and however its argv ends (shim/cmd/relay/main.go:55-250).
THEOREM RelayAlwaysServes == Spec => []RelayServes
<1>1. IInv /\ Sent => RelayServes
  <2> SUFFICES ASSUME IInv, Sent, pc = "done", env.base PROVE RelayServes
    BY DEF RelayServes
  <2>1. Runnable(transport, env) /\ transport.lists \in Seq(Urls)
    BY DEF Sent, IInv, TypeOK, TransportOf
  <2>2. ASSUME NEW i \in DOMAIN transport.lists, NEW first \in {0, 3}, NEW copyts \in BOOLEAN,
               transport.lists[i].host = "relay"
        PROVE  LET u == transport.lists[i]
                   list == Listed(ChunkName(transport, u), first, copyts)
                   timed == reason = "none" /\ ~ u.subs /\ transport.mux = "ssegment"
                   got == forward(Posted("manifest", u, list))
               IN  /\ got.url = [Url("loopback", u.subs) EXCEPT !.tokens = IF env.token THEN 1 ELSE 0]
                   /\ got.rows = IF timed THEN Listed("media", first, TRUE) ELSE list
    <3> DEFINE u == transport.lists[i]
               list == Listed(ChunkName(transport, u), first, copyts)
               timed == reason = "none" /\ ~ u.subs /\ transport.mux = "ssegment"
               got == forward(Posted("manifest", u, list))
               n == IF env.token THEN 1 ELSE 0
    <3>1. u \in Urls
      BY <2>1
    <3>2. u.tokens = n /\ u.segTimes = Durations(u)
      BY <2>2 DEF Sent, Addressed
    <3> HIDE DEF u
    <3>3. got.url = [u EXCEPT !.host = "loopback", !.segTimes = 0]
      BY DEF forward, Posted
    <3>8. n \in Nat
      OBVIOUS
    <3>4. got.url = [Url("loopback", u.subs) EXCEPT !.tokens = n]
      <4> HIDE DEF got, n
      <4>1. [u EXCEPT !.host = "loopback", !.segTimes = 0] = [Url("loopback", u.subs) EXCEPT !.tokens = n]
        BY <3>1, <3>2, <3>8, UrlBack
      <4> QED
        BY <3>3, <4>1
    <3>5. got.rows = IF u.segTimes > 0 THEN rewriteSegmentListCSV(list) ELSE list
      BY DEF forward, Posted
    <3>6. timed => rewriteSegmentListCSV(list) = Listed("media", first, TRUE)
      BY ListedServed DEF ChunkName
    <3>9. ~ timed /\ reason = "none" => rewriteSegmentListCSV(list) = list
      <4> SUFFICES ASSUME ~ timed, reason = "none" PROVE rewriteSegmentListCSV(list) = list
        OBVIOUS
      <4>1. ChunkName(transport, u) # "media"
        BY DEF ChunkName
      <4> QED
        BY <4>1, OthersServed
    <3>10. reason # "none" => u.segTimes = 0
      BY <3>2 DEF Durations
    <3>11. timed => u.segTimes = 1
      BY <3>2 DEF Durations
    <3> HIDE DEF got, list, timed
    <3>7. got.rows = IF timed THEN Listed("media", first, TRUE) ELSE list
      <4>1. CASE timed
        <5>1. got.rows = rewriteSegmentListCSV(list)
          BY <3>5, <3>11, <4>1
        <5> QED
          BY <3>6, <4>1, <5>1
      <4>2. CASE ~ timed /\ reason = "none"
        <5>1. got.rows = list
          BY <3>5, <3>9, <4>2
        <5> QED
          BY <4>2, <5>1
      <4>3. CASE reason # "none"
        <5>1. got.rows = list
          BY <3>5, <3>10, <4>3
        <5>2. ~ timed
          BY <4>3 DEF timed
        <5> QED
          BY <5>1, <5>2
      <4> QED
        BY <4>1, <4>2, <4>3
    <3> QED
      BY <3>4, <3>7 DEF u, got, list, timed
  <2>3. ASSUME reason = "none", job.transport.progress # NoUrl
        PROVE  /\ reported.host = "relay" /\ (env.nothrottle \/ transport.throttle # NoUrl)
               /\ forward(Posted("progress", reported, << >>)).method = "PUT"
    BY <2>3 DEF Sent, forward, Posted
  <2> QED
    BY <2>2, <2>3 DEF RelayServes
<1> QED
  BY <1>1, SentInvariant, PTL

-----------------------------------------------------------------------------
(***************************************************************************)
(* What a graph that is composed shows.                                    *)
(***************************************************************************)
FiltersOf(s) == {s[i].f : i \in DOMAIN s}

LEMMA HasIs ==
  ASSUME NEW g, NEW names
  PROVE  Has(g, names) <=> FiltersOf(g.nodes) \cap names # {}
BY DEF Has, FiltersOf

LEMMA FiltersJoined ==
  ASSUME NEW s \in Seq(Filters), NEW t \in Seq(Filters)
  PROVE  FiltersOf(s \o t) = FiltersOf(s) \cup FiltersOf(t)
<1> DEFINE r == s \o t
<1>1. /\ DOMAIN s = 1..Len(s) /\ DOMAIN t = 1..Len(t) /\ DOMAIN r = 1..(Len(s) + Len(t))
      /\ Len(s) \in Nat /\ Len(t) \in Nat
  OBVIOUS
<1>2. \A i \in DOMAIN r : r[i] = IF i <= Len(s) THEN s[i] ELSE t[i - Len(s)]
  OBVIOUS
<1> HIDE DEF r
<1>3. ASSUME NEW i \in DOMAIN r PROVE r[i].f \in FiltersOf(s) \cup FiltersOf(t)
  <2>1. CASE i <= Len(s)
    BY <2>1, <1>1, <1>2 DEF FiltersOf
  <2>2. CASE i > Len(s)
    <3>1. i - Len(s) \in DOMAIN t /\ r[i] = t[i - Len(s)]
      BY <2>2, <1>1, <1>2
    <3> QED
      BY <3>1 DEF FiltersOf
  <2> QED
    BY <1>1, <2>1, <2>2
<1>4. ASSUME NEW i \in DOMAIN s PROVE s[i].f \in FiltersOf(r)
  <2>1. i \in DOMAIN r /\ r[i] = s[i]
    BY <1>1, <1>2
  <2> QED
    BY <2>1 DEF FiltersOf
<1>5. ASSUME NEW i \in DOMAIN t PROVE t[i].f \in FiltersOf(r)
  <2>1. i + Len(s) \in DOMAIN r /\ ~ (i + Len(s) <= Len(s)) /\ (i + Len(s)) - Len(s) = i
    BY <1>1
  <2>2. r[i + Len(s)] = t[i]
    BY <2>1, <1>2
  <2> QED
    BY <2>1, <2>2 DEF FiltersOf
<1>6. FiltersOf(r) \subseteq FiltersOf(s) \cup FiltersOf(t)
  BY <1>3 DEF FiltersOf
<1>7. FiltersOf(s) \subseteq FiltersOf(r) /\ FiltersOf(t) \subseteq FiltersOf(r)
  BY <1>4, <1>5 DEF FiltersOf
<1> QED
  BY <1>6, <1>7 DEF r

LEMMA FiltersOne == ASSUME NEW n PROVE FiltersOf(<< n >>) = {n.f}
BY DEF FiltersOf

LEMMA FiltersNone == FiltersOf(<< >>) = {}
BY DEF FiltersOf

LEMMA NodeIs == ASSUME NEW f, NEW pix PROVE Node(f, pix).f = f
BY DEF Node

\* A stage that may be there.
LEMMA FiltersWhen ==
  ASSUME NEW b, NEW s
  PROVE  FiltersOf(When(b, s)) = IF b THEN FiltersOf(s) ELSE {}
BY FiltersNone DEF When

LEMMA FiltersStage ==
  ASSUME NEW k
  PROVE  FiltersOf(stage(k)) =
           IF k.opencl THEN {"hwmap_opencl", "tonemap_opencl", "hwmap_back"}
           ELSE {IF k.backend = "vaapi" THEN "tonemap_vaapi" ELSE "tonemap_cuda"}
<1>1. CASE k.opencl
  <2> DEFINE a == Node("hwmap_opencl", "none")
             b == Node("tonemap_opencl", "nv12")
             c == Node("hwmap_back", "none")
  <2>1. stage(k) = << a, b, c >>
    BY <1>1 DEF stage
  <2>2. a.f = "hwmap_opencl" /\ b.f = "tonemap_opencl" /\ c.f = "hwmap_back"
    BY NodeIs
  <2> HIDE DEF a, b, c
  <2>3. FiltersOf(<< a, b, c >>) = {a.f, b.f, c.f}
    BY DEF FiltersOf
  <2> QED
    BY <1>1, <2>1, <2>2, <2>3
<1>2. CASE ~ k.opencl
  BY <1>2, FiltersOne, NodeIs DEF stage
<1> QED
  BY <1>1, <1>2

LEMMA ComposedParts ==
  ASSUME NEW nodes, NEW side, NEW labels \in Nat \ {0}
  PROVE  LET c == Composed(nodes, side, labels)
         IN  c.nodes = nodes /\ c.side = side /\ c.out = labels - 1 /\ c.out \in Nat
BY DEF Composed

\* The labels of the optional stages.
LEMMA OneIs == ASSUME NEW b PROVE One(b) = IF b THEN 1 ELSE 0
BY DEF One

ToneMappers == {"tonemap", "tonemap_opencl", "tonemap_vaapi", "tonemap_cuda", "inlineass_sdr",
                "inlineass_tonemap"}
Burners == {"inlineass", "inlineass_sdr", "overlay", "overlay_vaapi", "overlay_cuda"}

\* What a graph of a GPU is asked for is what it shows.
ShowsAsked(c, s) ==
  /\ ToneMaps(c) <=> s.hdr \/ (s.kind # "none" /\ s.sdr)
  /\ Burns(c) <=> s.kind # "none"
  /\ Has(c, {"inlineass", "inlineass_sdr"}) <=> s.kind # "none"
  /\ ~ Has(c, {"scale"}) /\ ~ Has(c, {"select"})
  /\ c.side = "none"
  /\ c.out \in Nat /\ c.out <= One(~ s.resident) + One(s.hdr \/ s.kind # "none")

Asked(s) == s.hdr \in BOOLEAN /\ s.sdr \in BOOLEAN /\ s.resident \in BOOLEAN

LEMMA AMDShows ==
  ASSUME NEW k, k.backend \in GPUs, NEW s, Asked(s), s.hdr
  PROVE  ShowsAsked(composeBurnAMDHDR(k, s), s)
<1> DEFINE u == When(~ s.resident, << Node("hwupload", "none") >>)
           a == scaleFilter(k, "p010")
           b == Node(IF s.kind = "none" THEN "inlineass_tonemap" ELSE "inlineass_sdr", "none")
           labels == One(~ s.resident) + 2
           c == Composed(u \o << a, b >>, "none", labels)
<1>1. composeBurnAMDHDR(k, s) = c
  BY DEF composeBurnAMDHDR
<1>2. /\ a.f \in {"scale_vaapi", "scale_cuda"}
      /\ b.f = IF s.kind = "none" THEN "inlineass_tonemap" ELSE "inlineass_sdr"
  BY NodeIs DEF scaleFilter
<1>3. a \in Filters /\ b \in Filters
  BY ScaleTyped, EitherTyped, NamesAssumption
<1>4. u \in Seq(Filters) /\ FiltersOf(u) \subseteq {"hwupload"}
  <2>1. Node("hwupload", "none") \in Filters
    BY NodeTyped, NamesAssumption
  <2> QED
    BY <2>1, WhenOneTyped, FiltersWhen, FiltersOne, NodeIs
<1>5. labels \in Nat \ {0} /\ labels - 1 <= One(~ s.resident) + 1
  BY OneIs
<1> HIDE DEF u, a, b, labels
<1>6. << a, b >> \in Seq(Filters) /\ FiltersOf(<< a, b >>) = {a.f, b.f}
  BY <1>3 DEF FiltersOf
<1>7. FiltersOf(u \o << a, b >>) = FiltersOf(u) \cup {a.f, b.f}
  BY <1>4, <1>6, FiltersJoined
<1>8. c.nodes = u \o << a, b >> /\ c.side = "none" /\ c.out = labels - 1 /\ c.out \in Nat
  BY <1>5, ComposedParts
<1> HIDE DEF c
<1> DEFINE fs == FiltersOf(c.nodes)
<1>9. /\ fs \subseteq {"hwupload", "scale_vaapi", "scale_cuda", b.f} /\ b.f \in fs
  BY <1>2, <1>4, <1>7, <1>8
<1> HIDE DEF fs
<1>10. ToneMaps(c)
  BY <1>2, <1>9, HasIs DEF ToneMaps, fs
<1>11. Burns(c) <=> s.kind # "none"
  BY <1>2, <1>9, HasIs DEF Burns, fs
<1>12. Has(c, {"inlineass", "inlineass_sdr"}) <=> s.kind # "none"
  BY <1>2, <1>9, HasIs DEF fs
<1>13. ~ Has(c, {"scale"}) /\ ~ Has(c, {"select"})
  BY <1>2, <1>9, HasIs DEF fs
<1>14. One(s.hdr \/ s.kind # "none") = 1
  BY OneIs
<1> QED
  BY <1>1, <1>5, <1>8, <1>10, <1>11, <1>12, <1>13, <1>14 DEF ShowsAsked, Asked

LEMMA GPUShows ==
  ASSUME NEW k, k.backend \in GPUs, NEW s, Asked(s)
  PROVE  ShowsAsked(composeBurn(k, s), s)
<1>1. CASE k.backend = "vaapi" /\ k.amd /\ s.hdr
  BY <1>1, AMDShows DEF composeBurn
<1>2. CASE ~ (k.backend = "vaapi" /\ k.amd /\ s.hdr)
  <2> DEFINE u == When(~ s.resident, << Node("hwupload", "none") >>)
             a == scaleFilter(k, IF s.hdr \/ s.tenBit THEN "p010" ELSE "nv12")
             t == When(s.hdr, stage(k))
             n == Node(IF s.sdr THEN "inlineass_sdr" ELSE "inlineass", "none")
             b == When(s.kind # "none", << n >>)
             labels == One(~ s.resident) + 1 + One(s.kind # "none")
             nodes == u \o << a >> \o t \o b
             c == Composed(nodes, "none", labels)
  <2>1. composeBurn(k, s) = c
    BY <1>2 DEF composeBurn
  <2>2. /\ a.f \in {"scale_vaapi", "scale_cuda"}
        /\ n.f = IF s.sdr THEN "inlineass_sdr" ELSE "inlineass"
    BY NodeIs DEF scaleFilter
  <2>3. a \in Filters /\ n \in Filters
    <3>1. (IF s.hdr \/ s.tenBit THEN "p010" ELSE "nv12") \in Names
      BY NamesAssumption
    <3> QED
      BY <3>1, ScaleTyped, EitherTyped, NamesAssumption
  <2>4. u \in Seq(Filters) /\ FiltersOf(u) \subseteq {"hwupload"}
    <3>1. Node("hwupload", "none") \in Filters
      BY NodeTyped, NamesAssumption
    <3> QED
      BY <3>1, WhenOneTyped, FiltersWhen, FiltersOne, NodeIs
  <2>5. labels \in Nat \ {0} /\ labels - 1 <= One(~ s.resident) + One(s.hdr \/ s.kind # "none")
    BY OneIs DEF Asked
  <2>6. t \in Seq(Filters) /\ FiltersOf(t) = IF s.hdr THEN FiltersOf(stage(k)) ELSE {}
    BY StageTyped, WhenTyped, FiltersWhen
  <2>7. b \in Seq(Filters) /\ FiltersOf(b) = IF s.kind # "none" THEN {n.f} ELSE {}
    BY <2>3, WhenOneTyped, FiltersWhen, FiltersOne
  <2>8. /\ FiltersOf(stage(k)) \cap ToneMappers # {}
        /\ FiltersOf(stage(k)) \subseteq
             {"hwmap_opencl", "tonemap_opencl", "hwmap_back", "tonemap_vaapi", "tonemap_cuda"}
    BY FiltersStage DEF ToneMappers
  <2> HIDE DEF u, a, t, n, b, labels
  <2>9. << a >> \in Seq(Filters) /\ FiltersOf(<< a >>) = {a.f}
    BY <2>3, FiltersOne
  <2>10. FiltersOf(nodes) = FiltersOf(u) \cup {a.f} \cup FiltersOf(t) \cup FiltersOf(b)
    <3> DEFINE p == u \o << a >>
               q == p \o t
    <3>1. p \in Seq(Filters) /\ FiltersOf(p) = FiltersOf(u) \cup {a.f}
      BY <2>4, <2>9, Joined, FiltersJoined
    <3> HIDE DEF p
    <3>2. q \in Seq(Filters) /\ FiltersOf(q) = FiltersOf(p) \cup FiltersOf(t)
      BY <2>6, <3>1, Joined, FiltersJoined
    <3> HIDE DEF q
    <3>3. FiltersOf(q \o b) = FiltersOf(q) \cup FiltersOf(b)
      BY <2>7, <3>2, FiltersJoined
    <3>4. nodes = q \o b
      BY DEF p, q
    <3> QED
      BY <3>1, <3>2, <3>3, <3>4
  <2> HIDE DEF nodes
  <2>11. c.nodes = nodes /\ c.side = "none" /\ c.out = labels - 1 /\ c.out \in Nat
    BY <2>5, ComposedParts
  <2> HIDE DEF c
  <2> DEFINE fs == FiltersOf(c.nodes)
  <2>12. ToneMaps(c) <=> fs \cap ToneMappers # {}
    BY HasIs DEF ToneMaps, ToneMappers
  <2>13. Burns(c) <=> fs \cap Burners # {}
    BY HasIs DEF Burns, Burners
  <2>14. ToneMaps(c) <=> s.hdr \/ (s.kind # "none" /\ s.sdr)
    <3>1. CASE s.hdr
      BY <3>1, <2>6, <2>8, <2>10, <2>11, <2>12
    <3>2. CASE ~ s.hdr
      BY <3>2, <2>2, <2>4, <2>6, <2>7, <2>10, <2>11, <2>12 DEF ToneMappers
    <3> QED
      BY <3>1, <3>2 DEF Asked
  <2>15. Burns(c) <=> s.kind # "none"
    BY <2>2, <2>4, <2>6, <2>7, <2>8, <2>10, <2>11, <2>13 DEF Burners
  <2>16. Has(c, {"inlineass", "inlineass_sdr"}) <=> s.kind # "none"
    BY <2>2, <2>4, <2>6, <2>7, <2>8, <2>10, <2>11, HasIs
  <2>17. ~ Has(c, {"scale"}) /\ ~ Has(c, {"select"})
    BY <2>2, <2>4, <2>6, <2>7, <2>8, <2>10, <2>11, HasIs
  <2> QED
    BY <2>1, <2>5, <2>11, <2>14, <2>15, <2>16, <2>17 DEF ShowsAsked
<1> QED
  BY <1>1, <1>2

\* The same in main memory, where a bitmap is overlaid.
SoftwareShows(c, s) ==
  /\ ToneMaps(c) <=> s.hdr
  /\ Burns(c) <=> s.kind # "none"
  /\ Has(c, {"inlineass", "inlineass_sdr"}) => s.kind \notin {"none", "bitmap"}
  /\ ~ Has(c, {"select"})
  /\ c.out \in Nat
  /\ c.out = 1 + One(s.kind = "bitmap") + One(s.hdr) + One(s.kind # "none")

LEMMA SWShows ==
  ASSUME NEW s, Asked(s)
  PROVE  SoftwareShows(composeBurnSW(s), s)
<1> DEFINE bitmap == s.kind = "bitmap"
           a == Node("scale", "none")
           m == Node("tonemap", "p010")
           t == When(s.hdr, << m >>)
           f == Node("format", "none")
           n == Node(IF bitmap THEN "overlay" ELSE "inlineass", "none")
           b == When(s.kind # "none", << n >>)
           labels == One(bitmap) + 2 + One(s.hdr) + One(s.kind # "none")
           nodes == << a >> \o t \o << f >> \o b
           c == Composed(nodes, IF bitmap THEN "sw" ELSE "none", labels)
<1>1. composeBurnSW(s) = c
  BY DEF composeBurnSW
<1>2. /\ a.f = "scale" /\ m.f = "tonemap" /\ f.f = "format"
      /\ n.f = IF s.kind = "bitmap" THEN "overlay" ELSE "inlineass"
  BY NodeIs
<1>3. a \in Filters /\ m \in Filters /\ f \in Filters /\ n \in Filters
  BY NodeTyped, EitherTyped, NamesAssumption
<1>4. /\ labels \in Nat \ {0}
      /\ labels - 1 = 1 + One(s.kind = "bitmap") + One(s.hdr) + One(s.kind # "none")
  BY OneIs
<1> HIDE DEF a, m, f, n, labels
<1>5. t \in Seq(Filters) /\ FiltersOf(t) = IF s.hdr THEN {m.f} ELSE {}
  BY <1>3, WhenOneTyped, FiltersWhen, FiltersOne
<1>6. b \in Seq(Filters) /\ FiltersOf(b) = IF s.kind # "none" THEN {n.f} ELSE {}
  BY <1>3, WhenOneTyped, FiltersWhen, FiltersOne
<1>7. /\ << a >> \in Seq(Filters) /\ FiltersOf(<< a >>) = {a.f}
      /\ << f >> \in Seq(Filters) /\ FiltersOf(<< f >>) = {f.f}
  BY <1>3, FiltersOne
<1> HIDE DEF t, b
<1>8. FiltersOf(nodes) = {a.f} \cup FiltersOf(t) \cup {f.f} \cup FiltersOf(b)
  <2> DEFINE p == << a >> \o t
             q == p \o << f >>
  <2>1. p \in Seq(Filters) /\ FiltersOf(p) = {a.f} \cup FiltersOf(t)
    BY <1>5, <1>7, Joined, FiltersJoined
  <2> HIDE DEF p
  <2>2. q \in Seq(Filters) /\ FiltersOf(q) = FiltersOf(p) \cup {f.f}
    BY <1>7, <2>1, Joined, FiltersJoined
  <2> HIDE DEF q
  <2>3. FiltersOf(q \o b) = FiltersOf(q) \cup FiltersOf(b)
    BY <1>6, <2>2, FiltersJoined
  <2>4. nodes = q \o b
    BY DEF p, q
  <2> QED
    BY <2>1, <2>2, <2>3, <2>4
<1> HIDE DEF nodes
<1>9. c.nodes = nodes /\ c.out = labels - 1 /\ c.out \in Nat
  BY <1>4, ComposedParts
<1> HIDE DEF c
<1> DEFINE fs == FiltersOf(c.nodes)
<1>10. fs = {"scale", "format"} \cup (IF s.hdr THEN {"tonemap"} ELSE {})
              \cup (IF s.kind # "none" THEN {n.f} ELSE {})
  BY <1>2, <1>5, <1>6, <1>8, <1>9
<1> HIDE DEF fs
<1>11. ToneMaps(c) <=> s.hdr
  BY <1>2, <1>10, HasIs DEF ToneMaps, fs, Asked
<1>12. Burns(c) <=> s.kind # "none"
  BY <1>2, <1>10, HasIs DEF Burns, fs
<1>13. Has(c, {"inlineass", "inlineass_sdr"}) => s.kind \notin {"none", "bitmap"}
  BY <1>2, <1>10, HasIs DEF fs
<1>14. ~ Has(c, {"select"})
  BY <1>2, <1>10, HasIs DEF fs
<1> QED
  BY <1>1, <1>4, <1>9, <1>11, <1>12, <1>13, <1>14 DEF SoftwareShows

\* The select stage is one more node under a label of its own.
LEMMA SelectShows ==
  ASSUME NEW g \in Graphs, NEW select \in BOOLEAN
  PROVE  LET h == appendSelectStage(g, select)
         IN  /\ \A names : Has(h, names) <=> Has(g, names) \/ (select /\ "select" \in names)
             /\ h.side = g.side
             /\ h.out = IF select THEN Vsel ELSE g.out
<1> DEFINE h == appendSelectStage(g, select)
           n == Node("select", "none")
<1> SUFFICES /\ \A names : Has(h, names) <=> Has(g, names) \/ (select /\ "select" \in names)
             /\ h.side = g.side
             /\ h.out = IF select THEN Vsel ELSE g.out
  OBVIOUS
<1>1. CASE select
  <2>1. g.nodes \in Seq(Filters)
    BY DEF Graphs
  <2>2. n \in Filters /\ n.f = "select"
    BY NodeTyped, NodeIs, NamesAssumption
  <2> HIDE DEF n
  <2>3. /\ h.nodes = g.nodes \o << n >> /\ h.side = g.side /\ h.out = Vsel
    <3>1. h = [g EXCEPT !.nodes = Append(g.nodes, n), !.out = Vsel]
      BY <1>1 DEF appendSelectStage, n
    <3>2. Append(g.nodes, n) = g.nodes \o << n >>
      BY <2>1, <2>2
    <3> QED
      BY <3>1, <3>2 DEF Graphs
  <2>4. FiltersOf(h.nodes) = FiltersOf(g.nodes) \cup {"select"}
    <3>1. << n >> \in Seq(Filters) /\ FiltersOf(<< n >>) = {"select"}
      BY <2>2, FiltersOne
    <3> QED
      BY <2>1, <2>3, <3>1, FiltersJoined
  <2> HIDE DEF h
  <2>5. ASSUME NEW names
        PROVE  Has(h, names) <=> Has(g, names) \/ "select" \in names
    BY <2>4, HasIs
  <2> QED
    BY <1>1, <2>3, <2>5
<1>2. CASE ~ select
  BY <1>2 DEF appendSelectStage
<1> QED
  BY <1>1, <1>2

\* What is asked for, with the seek's stage last.
DrawnAsAsked(c, s, select) ==
  /\ ToneMaps(c) <=> s.hdr \/ (s.kind # "none" /\ s.sdr)
  /\ Burns(c) <=> s.kind # "none"
  /\ Has(c, {"inlineass", "inlineass_sdr"}) <=> s.kind # "none"
  /\ ~ Has(c, {"scale"}) /\ (Has(c, {"select"}) <=> select)
  /\ c.side = "none"
  /\ IF select THEN c.out = Vsel
     ELSE c.out \in Nat /\ c.out <= One(~ s.resident) + One(s.hdr \/ s.kind # "none")

LEMMA RecomposeGPU ==
  ASSUME NEW k, k.backend \in GPUs, NEW s, Asked(s), NEW select \in BOOLEAN
  PROVE  DrawnAsAsked(Recompose(k, s, select), s, select)
<1> DEFINE g == composeBurn(k, s)
           c == appendSelectStage(g, select)
<1>1. Recompose(k, s, select) = c
  BY DEF Recompose, GPUs
<1>2. ShowsAsked(g, s) /\ g \in Graphs
  BY GPUShows, ComposedGPUTyped DEF Fresh
<1> HIDE DEF g
<1>3. /\ \A names : Has(c, names) <=> Has(g, names) \/ (select /\ "select" \in names)
      /\ c.side = g.side /\ c.out = IF select THEN Vsel ELSE g.out
  BY <1>2, SelectShows
<1> HIDE DEF c
<1> QED
  BY <1>1, <1>2, <1>3 DEF ShowsAsked, DrawnAsAsked, ToneMaps, Burns

DrawnSoftware(c, s, select) ==
  /\ ToneMaps(c) <=> s.hdr
  /\ Burns(c) <=> s.kind # "none"
  /\ Has(c, {"inlineass", "inlineass_sdr"}) => s.kind \notin {"none", "bitmap"}
  /\ Has(c, {"select"}) <=> select
  /\ IF select THEN c.out = Vsel
     ELSE c.out \in Nat /\ c.out = 1 + One(s.kind = "bitmap") + One(s.hdr) + One(s.kind # "none")

LEMMA RecomposeSW ==
  ASSUME NEW k, k.backend = "sw", NEW s, Asked(s), NEW select \in BOOLEAN
  PROVE  DrawnSoftware(Recompose(k, s, select), s, select)
<1> DEFINE g == composeBurnSW(s)
           c == appendSelectStage(g, select)
<1>1. Recompose(k, s, select) = c
  BY DEF Recompose
<1>2. SoftwareShows(g, s) /\ g \in Graphs
  BY SWShows, ComposedSWTyped DEF Fresh
<1> HIDE DEF g
<1>3. /\ \A names : Has(c, names) <=> Has(g, names) \/ (select /\ "select" \in names)
      /\ c.out = IF select THEN Vsel ELSE g.out
  BY <1>2, SelectShows
<1> HIDE DEF c
<1> QED
  BY <1>1, <1>2, <1>3 DEF SoftwareShows, DrawnSoftware, ToneMaps, Burns

-----------------------------------------------------------------------------
(***************************************************************************)
(* What is read off a graph is what it shows.                              *)
(***************************************************************************)
Scales == {"scale", "scale_vaapi", "scale_cuda"}
Mappers == {"tonemap_opencl", "tonemap_cuda", "tonemap", "tonemap_vaapi"}

FactsRead(f, g, sub) ==
  LET bitmap == detectBitmapOverlayBurn(g)
  IN  /\ f.hdr \in BOOLEAN /\ f.sdr \in BOOLEAN /\ f.select \in BOOLEAN
      /\ f.hdr <=> Has(g, IF bitmap THEN {"tonemap_opencl"} ELSE Mappers)
      /\ f.sdr <=> Has(g, {"inlineass_sdr", "inlineass_tonemap"})
      /\ f.select <=> Has(g, {"select"})
      /\ f.kind # "none" <=> bitmap \/ sub # "none" \/ Has(g, Inlineass)
      /\ f.kind = "bitmap" <=> bitmap \/ sub = "bitmap"
      /\ f.ok => Has(g, Scales) /\ ~ Has(g, {"overlay"})

LEMMA FactsAre ==
  ASSUME NEW g, NEW sub \in {"none", "text", "bitmap"}
  PROVE  FactsRead(extractGraphFacts(g, sub), g, sub)
<1> DEFINE f == extractGraphFacts(g, sub)
           bitmap == detectBitmapOverlayBurn(g)
<1>1. bitmap \in BOOLEAN
  BY DEF detectBitmapOverlayBurn
<1>2. \A names : Has(g, names) \in BOOLEAN
  BY DEF Has
<1>3. /\ f.hdr = IF bitmap THEN Has(g, {"tonemap_opencl"}) ELSE Has(g, Mappers)
      /\ f.kind = IF bitmap \/ sub = "bitmap" THEN "bitmap"
                  ELSE IF sub = "text" \/ Has(g, Inlineass) THEN "text" ELSE "none"
      /\ f.sdr = Has(g, {"inlineass_sdr", "inlineass_tonemap"})
      /\ f.select = Has(g, {"select"})
      /\ f.ok = (graphNodesModeled(g) /\ Has(g, Scales))
  BY DEF extractGraphFacts, Mappers, Scales
<1> HIDE DEF f, bitmap
<1>4. graphNodesModeled(g) => ~ Has(g, {"overlay"})
  BY DEF graphNodesModeled, modeledFilterNodes, Has, Inlineass
<1>5. f.hdr <=> Has(g, IF bitmap THEN {"tonemap_opencl"} ELSE Mappers)
  BY <1>1, <1>3
<1>6. f.hdr \in BOOLEAN /\ f.sdr \in BOOLEAN /\ f.select \in BOOLEAN
  BY <1>2, <1>3
<1>7. /\ f.kind # "none" <=> bitmap \/ sub # "none" \/ Has(g, Inlineass)
      /\ f.kind = "bitmap" <=> bitmap \/ sub = "bitmap"
  BY <1>3
<1>8. f.ok => Has(g, Scales) /\ ~ Has(g, {"overlay"})
  BY <1>3, <1>4
<1> QED
  BY <1>3, <1>5, <1>6, <1>7, <1>8 DEF FactsRead, f, bitmap

LEMMA BurnIs ==
  ASSUME NEW f, NEW resident \in BOOLEAN, NEW ten, f.hdr \in BOOLEAN, f.sdr \in BOOLEAN
  PROVE  LET s == Burn(f, resident, ten)
         IN  /\ Asked(s) /\ s.hdr = f.hdr /\ s.sdr = f.sdr /\ s.kind = f.kind
             /\ s.resident = resident
BY DEF Burn, Asked

\* What a graph has, told by its parts.
LEMMA HasEither ==
  ASSUME NEW g, NEW a, NEW b
  PROVE  Has(g, a \cup b) <=> Has(g, a) \/ Has(g, b)
BY DEF Has

LEMMA TonesAre ==
  ASSUME NEW g
  PROVE  ToneMaps(g) <=> Has(g, Mappers) \/ Has(g, {"inlineass_sdr", "inlineass_tonemap"})
<1>1. Mappers \cup {"inlineass_sdr", "inlineass_tonemap"} =
        {"tonemap", "tonemap_opencl", "tonemap_vaapi", "tonemap_cuda", "inlineass_sdr",
         "inlineass_tonemap"}
  BY DEF Mappers
<1> QED
  BY <1>1, HasEither DEF ToneMaps

LEMMA BurnsAre ==
  ASSUME NEW g
  PROVE  Burns(g) <=> \/ Has(g, {"inlineass", "inlineass_sdr"}) \/ Has(g, {"overlay"})
                      \/ Has(g, {"overlay_vaapi", "overlay_cuda"})
<1> DEFINE a == {"inlineass", "inlineass_sdr"}
           b == {"overlay"}
           c == {"overlay_vaapi", "overlay_cuda"}
<1>1. a \cup (b \cup c) = {"inlineass", "inlineass_sdr", "overlay", "overlay_vaapi", "overlay_cuda"}
  OBVIOUS
<1>2. Burns(g) <=> Has(g, a \cup (b \cup c))
  BY <1>1 DEF Burns
<1> HIDE DEF a, b, c
<1>3. Has(g, a \cup (b \cup c)) <=> Has(g, a) \/ Has(g, b \cup c)
  BY HasEither
<1>4. Has(g, b \cup c) <=> Has(g, b) \/ Has(g, c)
  BY HasEither
<1> QED
  BY <1>2, <1>3, <1>4 DEF a, b, c

-----------------------------------------------------------------------------
(***************************************************************************)
(* A graph of Plex's has a label to spare for each stage it asks for.      *)
(***************************************************************************)
LEMMA PlexGraphIs ==
  ASSUME NEW g \in PlexGraphs
  PROVE  /\ g \in Graphs /\ g.nodes \in Seq(Filters) /\ Len(g.nodes) \in Nat
         /\ DOMAIN g.nodes = 1..Len(g.nodes) /\ g.out \in Int
         /\ ~ Has(g, {"inlineass_sdr", "inlineass_tonemap"})
         /\ g.nodes # << >> =>
              IF g.nodes[1].f = "scale" THEN Has(g, {"format"}) ELSE g.nodes[1].f = "hwupload"
         /\ g.out >= Len(g.nodes) - 1
         /\ Has(g, {"overlay_vaapi", "overlay_cuda"}) =>
              /\ detectBitmapOverlayBurn(g)
              /\ g.nodes[Len(g.nodes)].f = "hwupload"
              /\ ~ Has(g, {"select"})
BY DEF PlexGraphs, Graphs

\* The node before the ones asked for: an upload, or the format of a scale.
LEMMA FirstOther ==
  ASSUME NEW g \in PlexGraphs, Has(g, Scales)
  PROVE  \E i, j \in DOMAIN g.nodes :
           i # j /\ g.nodes[i].f \in Scales /\ g.nodes[j].f \in {"hwupload", "format"}
<1>1. g.nodes # << >> /\ 1 \in DOMAIN g.nodes
  BY PlexGraphIs DEF Has
<1>2. CASE g.nodes[1].f = "scale"
  <2>1. PICK j \in DOMAIN g.nodes : g.nodes[j].f = "format"
    BY <1>1, <1>2, PlexGraphIs DEF Has
  <2> QED
    BY <1>1, <1>2, <2>1 DEF Scales
<1>3. CASE g.nodes[1].f # "scale"
  <2>1. g.nodes[1].f = "hwupload"
    BY <1>1, <1>3, PlexGraphIs
  <2>2. PICK i \in DOMAIN g.nodes : g.nodes[i].f \in Scales
    BY DEF Has
  <2>3. i # 1
    BY <2>1, <2>2 DEF Scales
  <2> QED
    BY <1>1, <2>1, <2>2, <2>3
<1> QED
  BY <1>2, <1>3

LEMMA Room ==
  ASSUME NEW g \in PlexGraphs, Has(g, Scales)
  PROVE  /\ Len(g.nodes) >= 2
         /\ Has(g, Mappers) \/ Has(g, {"inlineass"}) => Len(g.nodes) >= 3
         /\ Has(g, Mappers) /\ Has(g, {"inlineass"}) => Len(g.nodes) >= 4
<1>1. PICK i \in DOMAIN g.nodes, j \in DOMAIN g.nodes :
        i # j /\ g.nodes[i].f \in Scales /\ g.nodes[j].f \in {"hwupload", "format"}
  BY FirstOther
<1>2. DOMAIN g.nodes = 1..Len(g.nodes) /\ Len(g.nodes) \in Nat
  BY PlexGraphIs
<1>3. Len(g.nodes) >= 2
  BY <1>1, <1>2
<1>4. ASSUME Has(g, Mappers)
      PROVE  \E m \in DOMAIN g.nodes : m # i /\ m # j /\ g.nodes[m].f \in Mappers
  BY <1>1, <1>4 DEF Has, Mappers, Scales
<1>5. ASSUME Has(g, {"inlineass"})
      PROVE  \E m \in DOMAIN g.nodes : m # i /\ m # j /\ g.nodes[m].f = "inlineass"
  BY <1>1, <1>5 DEF Has, Scales
<1>6. ASSUME Has(g, Mappers) PROVE Len(g.nodes) >= 3
  <2>1. PICK m \in DOMAIN g.nodes : m # i /\ m # j
    BY <1>4, <1>6
  <2> QED
    BY <1>1, <1>2, <2>1
<1>7. ASSUME Has(g, {"inlineass"}) PROVE Len(g.nodes) >= 3
  <2>1. PICK m \in DOMAIN g.nodes : m # i /\ m # j
    BY <1>5, <1>7
  <2> QED
    BY <1>1, <1>2, <2>1
<1>8. ASSUME Has(g, Mappers), Has(g, {"inlineass"}) PROVE Len(g.nodes) >= 4
  <2>1. PICK m \in DOMAIN g.nodes : m # i /\ m # j /\ g.nodes[m].f \in Mappers
    BY <1>4, <1>8
  <2>2. PICK n \in DOMAIN g.nodes : n # i /\ n # j /\ g.nodes[n].f = "inlineass"
    BY <1>5, <1>8
  <2>3. m # n
    BY <2>1, <2>2 DEF Mappers
  <2> QED
    BY <1>1, <1>2, <2>1, <2>2, <2>3
<1> QED
  BY <1>3, <1>6, <1>7, <1>8

LEMMA OverlayRoom ==
  ASSUME NEW g \in PlexGraphs, Has(g, {"overlay_vaapi", "overlay_cuda"})
  PROVE  /\ Len(g.nodes) >= 4
         /\ Has(g, Mappers) => Len(g.nodes) >= 5
<1>1. DOMAIN g.nodes = 1..Len(g.nodes) /\ Len(g.nodes) \in Nat
  BY PlexGraphIs
<1>2. detectBitmapOverlayBurn(g) /\ g.nodes[Len(g.nodes)].f = "hwupload"
  BY PlexGraphIs
<1>3. /\ Len(g.nodes) >= 2 /\ g.nodes[1].f = "hwupload"
      /\ g.nodes[2].f \in {"scale_vaapi", "scale_cuda"}
  BY <1>2 DEF detectBitmapOverlayBurn
<1>4. PICK i \in DOMAIN g.nodes : g.nodes[i].f \in {"overlay_vaapi", "overlay_cuda"}
  BY DEF Has
<1>5. i # 1 /\ i # 2 /\ i # Len(g.nodes)
  BY <1>2, <1>3, <1>4
<1>6. Len(g.nodes) >= 4
  BY <1>1, <1>3, <1>4, <1>5
<1>7. ASSUME Has(g, Mappers) PROVE Len(g.nodes) >= 5
  <2>1. PICK m \in DOMAIN g.nodes : g.nodes[m].f \in Mappers
    BY <1>7 DEF Has
  <2>2. m # 1 /\ m # 2 /\ m # Len(g.nodes) /\ m # i
    BY <1>2, <1>3, <1>4, <2>1 DEF Mappers
  <2> QED
    BY <1>1, <1>4, <1>5, <1>6, <2>1, <2>2
<1> QED
  BY <1>6, <1>7

\* What is burned from a stream takes an upload or a scale first.
LEMMA BurnRoom ==
  ASSUME NEW g \in PlexGraphs, Has(g, {"inlineass"})
  PROVE  Len(g.nodes) >= 2
<1>1. PICK i \in DOMAIN g.nodes : g.nodes[i].f = "inlineass"
  BY DEF Has
<1>2. DOMAIN g.nodes = 1..Len(g.nodes) /\ Len(g.nodes) \in Nat /\ g.nodes # << >>
  BY <1>1, PlexGraphIs
<1>3. g.nodes[1].f \in {"scale", "hwupload"}
  BY <1>2, PlexGraphIs
<1> QED
  BY <1>1, <1>2, <1>3

\* The graph the first phase leaves, and an overlay whose tones are forgotten.
Origin(k, v0) == substituteOpenCLTonemap(k, [v0.graph EXCEPT !.fonts = FALSE])
Forgotten(k, j) ==
  LET g == substituteOpenCLTonemap(k, j)
  IN detectBitmapOverlayBurn(g) /\ ToneMaps(g) /\ ~ Has(g, {"tonemap_opencl"})

\* Font paths have no part in the tone mapping.
LEMMA SubstituteFonts ==
  ASSUME NEW k, NEW g \in Graphs
  PROVE  LET f == [g EXCEPT !.fonts = FALSE]
         IN  /\ f \in Graphs /\ f.nodes = g.nodes /\ f.side = g.side /\ f.out = g.out
             /\ substituteOpenCLTonemap(k, f).nodes = substituteOpenCLTonemap(k, g).nodes
             /\ substituteOpenCLTonemap(k, f).side = substituteOpenCLTonemap(k, g).side
<1> DEFINE f == [g EXCEPT !.fonts = FALSE]
<1>1. f \in Graphs /\ f.nodes = g.nodes /\ f.side = g.side /\ f.out = g.out
  BY DEF Graphs
<1> HIDE DEF f
<1>2. OpenCLChain(f) = OpenCLChain(g)
  BY <1>1 DEF OpenCLChain
<1>3. CASE k.backend # "vaapi" \/ k.opencl \/ OpenCLChain(g) = {}
  BY <1>1, <1>2, <1>3 DEF substituteOpenCLTonemap, f
<1>4. CASE ~ (k.backend # "vaapi" \/ k.opencl \/ OpenCLChain(g) = {})
  <2> DEFINE i == CHOOSE x \in OpenCLChain(g) : TRUE
             r == SubSeq(g.nodes, 1, i - 1) \o << Node("tonemap_vaapi", g.nodes[i + 1].pix) >>
                    \o SubSeq(g.nodes, i + 3, Len(g.nodes))
  <2>1. substituteOpenCLTonemap(k, g) = [g EXCEPT !.nodes = r]
    BY <1>4 DEF substituteOpenCLTonemap
  <2>2. substituteOpenCLTonemap(k, f) = [f EXCEPT !.nodes = r]
    BY <1>1, <1>2, <1>4 DEF substituteOpenCLTonemap
  <2> HIDE DEF r
  <2> QED
    BY <1>1, <2>1, <2>2 DEF Graphs, f
<1> QED
  BY <1>1, <1>3, <1>4 DEF f

\* The branch of an overlay is before the tone mapping.
LEMMA SubstituteLeads ==
  ASSUME NEW k, NEW g \in Graphs, detectBitmapOverlayBurn(g)
  PROVE  detectBitmapOverlayBurn(substituteOpenCLTonemap(k, g))
<1> DEFINE h == substituteOpenCLTonemap(k, g)
<1>1. /\ Has(g, {"overlay_vaapi", "overlay_cuda"}) /\ g.side = "hw" /\ Len(g.nodes) >= 2
      /\ g.nodes[1].f = "hwupload" /\ g.nodes[2].f \in {"scale_vaapi", "scale_cuda"}
  BY DEF detectBitmapOverlayBurn
<1>2. h.side = "hw" /\ Has(h, {"overlay_vaapi", "overlay_cuda"})
  BY <1>1, SubstituteIs
<1>3. CASE k.backend # "vaapi" \/ k.opencl \/ OpenCLChain(g) = {}
  BY <1>3 DEF substituteOpenCLTonemap
<1>4. CASE ~ (k.backend # "vaapi" \/ k.opencl \/ OpenCLChain(g) = {})
  <2> DEFINE i == CHOOSE x \in OpenCLChain(g) : TRUE
             n == Node("tonemap_vaapi", g.nodes[i + 1].pix)
             r == Replaced(g.nodes, i, n)
  <2>1. g.nodes \in Seq(Filters) /\ Len(g.nodes) \in Nat
    BY DEF Graphs
  <2>2. i \in OpenCLChain(g)
    BY <1>4
  <2> HIDE DEF i
  <2>3. i \in 1..(Len(g.nodes) - 2) /\ g.nodes[i].f = "hwmap_opencl"
    BY <2>2 DEF OpenCLChain
  <2>4. i >= 3
    BY <1>1, <2>1, <2>3
  <2>5. n \in Filters
    <3>1. g.nodes[i + 1] \in Filters
      BY <2>1, <2>3
    <3> QED
      BY <3>1, NodeTyped, NamesAssumption DEF Filters
  <2>6. h = [g EXCEPT !.nodes = r]
    BY <1>4 DEF substituteOpenCLTonemap, Replaced, i
  <2> HIDE DEF n
  <2>7. /\ Len(r) = Len(g.nodes) - 2
        /\ \A j \in 1..(Len(g.nodes) - 2) :
             r[j] = IF j < i THEN g.nodes[j] ELSE IF j = i THEN n ELSE g.nodes[j + 2]
    <3> DEFINE s == g.nodes
    <3> HIDE DEF s
    <3>1. s \in Seq(Filters) /\ i \in 1..(Len(s) - 2)
      BY <2>1, <2>3 DEF s
    <3>2. /\ Len(Replaced(s, i, n)) = Len(s) - 2
          /\ \A j \in 1..(Len(s) - 2) :
               Replaced(s, i, n)[j] = IF j < i THEN s[j] ELSE IF j = i THEN n ELSE s[j + 2]
      BY <2>5, <3>1, ReplacedIs
    <3> QED
      BY <3>2 DEF s
  <2> HIDE DEF r
  <2>8. Len(r) >= 2 /\ r[1] = g.nodes[1] /\ r[2] = g.nodes[2]
    <3>1. 1 \in 1..(Len(g.nodes) - 2) /\ 2 \in 1..(Len(g.nodes) - 2) /\ 1 < i /\ 2 < i
      BY <2>1, <2>3, <2>4
    <3>2. Len(r) >= 2
      BY <2>1, <2>7, <3>1
    <3> QED
      BY <2>7, <3>1, <3>2
  <2>9. h.nodes = r
    BY <2>6 DEF Graphs
  <2> HIDE DEF h
  <2>10. detectBitmapOverlayBurn(h)
    BY <1>1, <1>2, <2>8, <2>9 DEF detectBitmapOverlayBurn
  <2> QED
    BY <2>10 DEF h
<1> QED
  BY <1>3, <1>4

\* What the first phase leaves is what Plex drew, under other names.
LEMMA OriginIs ==
  ASSUME NEW k, NEW v0 \in PlexVideos
  PROVE  LET o == Origin(k, v0)
             j == v0.graph
         IN  /\ o \in Graphs /\ o.side = j.side /\ o.out = j.out
             /\ \A names : /\ {"hwmap_opencl", "hwmap_back"} \cap names = {}
                           /\ "tonemap_opencl" \in names <=> "tonemap_vaapi" \in names
                           => (Has(o, names) <=> Has(j, names))
             /\ detectBitmapOverlayBurn(o) <=> Has(j, {"overlay_vaapi", "overlay_cuda"})
             /\ Forgotten(k, j) <=>
                  detectBitmapOverlayBurn(o) /\ ToneMaps(o) /\ ~ Has(o, {"tonemap_opencl"})
<1> DEFINE j == v0.graph
           f == [j EXCEPT !.fonts = FALSE]
           o == substituteOpenCLTonemap(k, f)
           h == substituteOpenCLTonemap(k, j)
<1>1. j \in PlexGraphs /\ j \in Graphs
  BY DEF PlexVideos, PlexGraphs
<1> HIDE DEF j
<1>2. /\ f \in Graphs /\ f.nodes = j.nodes /\ f.side = j.side /\ f.out = j.out
      /\ o.nodes = h.nodes /\ o.side = h.side
  BY <1>1, SubstituteFonts
<1> HIDE DEF f
<1>3. /\ o \in Graphs /\ o.side = f.side /\ o.out = f.out
      /\ \A names : /\ {"hwmap_opencl", "hwmap_back"} \cap names = {}
                    /\ "tonemap_opencl" \in names <=> "tonemap_vaapi" \in names
                    => (Has(o, names) <=> Has(f, names))
  BY <1>2, SubstituteIs
<1>4. detectBitmapOverlayBurn(f) => detectBitmapOverlayBurn(o)
  BY <1>2, SubstituteLeads
<1> HIDE DEF o, h
<1>5. \A names : Has(f, names) <=> Has(j, names)
  BY <1>2 DEF Has
<1>6. \A names : Has(o, names) <=> Has(h, names)
  BY <1>2 DEF Has
<1>7. ToneMaps(o) <=> ToneMaps(h)
  BY <1>6 DEF ToneMaps
<1>8. detectBitmapOverlayBurn(o) <=> detectBitmapOverlayBurn(h)
  BY <1>2, <1>6 DEF detectBitmapOverlayBurn
<1>9. detectBitmapOverlayBurn(f) <=> detectBitmapOverlayBurn(j)
  BY <1>2, <1>5 DEF detectBitmapOverlayBurn
<1>10. detectBitmapOverlayBurn(o) <=> Has(j, {"overlay_vaapi", "overlay_cuda"})
  <2>1. Has(o, {"overlay_vaapi", "overlay_cuda"}) <=> Has(j, {"overlay_vaapi", "overlay_cuda"})
    BY <1>3, <1>5
  <2>2. detectBitmapOverlayBurn(o) => Has(o, {"overlay_vaapi", "overlay_cuda"})
    BY DEF detectBitmapOverlayBurn
  <2>3. Has(j, {"overlay_vaapi", "overlay_cuda"}) => detectBitmapOverlayBurn(j)
    BY <1>1, PlexGraphIs
  <2> QED
    BY <2>1, <2>2, <2>3, <1>4, <1>9
<1>11. Forgotten(k, j) <=> detectBitmapOverlayBurn(h) /\ ToneMaps(h) /\ ~ Has(h, {"tonemap_opencl"})
  BY DEF Forgotten, h
<1>12. Forgotten(k, j) <=> detectBitmapOverlayBurn(o) /\ ToneMaps(o) /\ ~ Has(o, {"tonemap_opencl"})
  BY <1>6, <1>7, <1>8, <1>11
<1>13. Origin(k, v0) = o
  BY DEF Origin, o, f, j
<1> QED
  BY <1>2, <1>3, <1>5, <1>10, <1>12, <1>13 DEF j

\* What an argv that is moved shows is what Plex's shows.
Shows(k, j, g) ==
  /\ Forgotten(k, j) \/ (ToneMaps(g) <=> ToneMaps(j))
  /\ Burns(g) <=> Burns(j)
  /\ Has(g, {"select"}) <=> Has(j, {"select"})

LEMMA OriginShows ==
  ASSUME NEW k, NEW v0 \in PlexVideos
  PROVE  /\ ToneMaps(Origin(k, v0)) <=> ToneMaps(v0.graph)
         /\ Shows(k, v0.graph, Origin(k, v0))
BY OriginIs DEF Shows, ToneMaps, Burns

\* What is read off the graph the first phase leaves is what Plex asked for, and
\* Plex's graph has a label for it.
LEMMA OriginFacts ==
  ASSUME NEW k, NEW v0 \in PlexVideos, NEW sub \in {"none", "text", "bitmap"},
         sub # "none" => Has(v0.graph, {"inlineass"})
  PROVE  LET f == extractGraphFacts(Origin(k, v0), sub)
             j == v0.graph
         IN  f.ok =>
               /\ f.hdr \in BOOLEAN /\ f.sdr \in BOOLEAN /\ f.select \in BOOLEAN
               /\ Forgotten(k, j) \/ (f.hdr <=> ToneMaps(j))
               /\ ~ f.sdr
               /\ f.kind # "none" <=> Burns(j)
               /\ f.select <=> Has(j, {"select"})
               /\ f.kind \notin {"none", "bitmap"} => Has(j, {"inlineass"})
               /\ 1 + One(f.hdr \/ f.kind # "none") <= j.out
               /\ sub = "none" =>
                    1 + One(f.kind = "bitmap") + One(f.hdr) + One(f.kind # "none") <= j.out
<1> DEFINE o == Origin(k, v0)
           j == v0.graph
           f == extractGraphFacts(o, sub)
           bitmap == detectBitmapOverlayBurn(o)
<1>1. FactsRead(f, o, sub)
  BY FactsAre
<1>2. j \in PlexGraphs /\ j.out \in Int /\ Len(j.nodes) \in Nat /\ j.out >= Len(j.nodes) - 1
      /\ ~ Has(j, {"inlineass_sdr", "inlineass_tonemap"})
  BY PlexGraphIs DEF PlexVideos
<1>3. /\ bitmap <=> Has(j, {"overlay_vaapi", "overlay_cuda"})
      /\ Forgotten(k, j) <=> bitmap /\ ToneMaps(o) /\ ~ Has(o, {"tonemap_opencl"})
  BY OriginIs
<1>4. /\ Has(o, Mappers) <=> Has(j, Mappers)
      /\ Has(o, Scales) <=> Has(j, Scales)
      /\ Has(o, Inlineass) <=> Has(j, Inlineass)
      /\ Has(o, {"overlay"}) <=> Has(j, {"overlay"})
      /\ Has(o, {"select"}) <=> Has(j, {"select"})
      /\ Has(o, {"inlineass_sdr", "inlineass_tonemap"}) <=> Has(j, {"inlineass_sdr", "inlineass_tonemap"})
  BY OriginIs DEF Mappers, Scales, Inlineass
<1>5. Has(j, Inlineass) <=> Has(j, {"inlineass"})
  <2>1. Inlineass = {"inlineass"} \cup {"inlineass_sdr", "inlineass_tonemap"}
    BY DEF Inlineass
  <2> QED
    BY <1>2, <2>1, HasEither
<1>6. Has(j, {"inlineass", "inlineass_sdr"}) <=> Has(j, {"inlineass"})
  BY <1>2 DEF Has
<1>7. (ToneMaps(j) <=> Has(j, Mappers)) /\ (ToneMaps(o) <=> Has(o, Mappers))
  BY <1>2, <1>4, TonesAre
<1>8. Burns(j) <=> Has(j, {"inlineass"}) \/ Has(j, {"overlay"}) \/ Has(j, {"overlay_vaapi", "overlay_cuda"})
  BY <1>6, BurnsAre
<1>9. Has(o, {"tonemap_opencl"}) => Has(o, Mappers)
  BY DEF Has, Mappers
<1>10. /\ f.hdr \in BOOLEAN /\ f.sdr \in BOOLEAN /\ f.select \in BOOLEAN
       /\ f.hdr <=> Has(o, IF bitmap THEN {"tonemap_opencl"} ELSE Mappers)
       /\ f.sdr <=> Has(o, {"inlineass_sdr", "inlineass_tonemap"})
       /\ f.select <=> Has(o, {"select"})
       /\ f.kind # "none" <=> bitmap \/ sub # "none" \/ Has(o, Inlineass)
       /\ f.kind = "bitmap" <=> bitmap \/ sub = "bitmap"
       /\ f.ok => Has(o, Scales) /\ ~ Has(o, {"overlay"})
  BY <1>1 DEF FactsRead
<1> SUFFICES ASSUME f.ok
             PROVE  /\ f.hdr \in BOOLEAN /\ f.sdr \in BOOLEAN /\ f.select \in BOOLEAN
                    /\ Forgotten(k, j) \/ (f.hdr <=> ToneMaps(j))
                    /\ ~ f.sdr
                    /\ f.kind # "none" <=> Burns(j)
                    /\ f.select <=> Has(j, {"select"})
                    /\ f.kind \notin {"none", "bitmap"} => Has(j, {"inlineass"})
                    /\ 1 + One(f.hdr \/ f.kind # "none") <= j.out
                    /\ sub = "none" =>
                         1 + One(f.kind = "bitmap") + One(f.hdr) + One(f.kind # "none") <= j.out
  OBVIOUS
<1>11. sub # "none" => Has(j, {"inlineass"})
  OBVIOUS
<1> HIDE DEF o, j, f, bitmap
<1>12. f.hdr => Has(j, Mappers)
  BY <1>4, <1>9, <1>10
<1>13. Forgotten(k, j) \/ (f.hdr <=> ToneMaps(j))
  BY <1>3, <1>4, <1>7, <1>9, <1>10
<1>14. f.kind # "none" <=> Burns(j)
  BY <1>3, <1>4, <1>5, <1>8, <1>10, <1>11
<1>15. f.kind \notin {"none", "bitmap"} => Has(j, {"inlineass"})
  BY <1>4, <1>5, <1>10, <1>11
<1>16. f.kind # "none" => Has(j, {"inlineass"}) \/ Has(j, {"overlay_vaapi", "overlay_cuda"})
  BY <1>3, <1>4, <1>5, <1>10, <1>11
<1>17. /\ j.out >= 1
       /\ Has(j, Mappers) \/ Has(j, {"inlineass"}) => j.out >= 2
       /\ Has(j, Mappers) /\ Has(j, {"inlineass"}) => j.out >= 3
  <2>1. Has(j, Scales)
    BY <1>4, <1>10
  <2>2. /\ Len(j.nodes) >= 2
        /\ Has(j, Mappers) \/ Has(j, {"inlineass"}) => Len(j.nodes) >= 3
        /\ Has(j, Mappers) /\ Has(j, {"inlineass"}) => Len(j.nodes) >= 4
    BY <1>2, <2>1, Room
  <2> QED
    BY <1>2, <2>2
<1>18. /\ Has(j, {"overlay_vaapi", "overlay_cuda"}) => j.out >= 3
       /\ Has(j, {"overlay_vaapi", "overlay_cuda"}) /\ Has(j, Mappers) => j.out >= 4
  BY <1>2, OverlayRoom
<1>19. 1 + One(f.hdr \/ f.kind # "none") <= j.out
  <2>1. f.hdr \/ f.kind # "none" => j.out >= 2
    BY <1>2, <1>12, <1>16, <1>17, <1>18
  <2>2. One(f.hdr \/ f.kind # "none") = IF f.hdr \/ f.kind # "none" THEN 1 ELSE 0
    BY OneIs
  <2>3. CASE f.hdr \/ f.kind # "none"
    BY <2>1, <2>2, <2>3, <1>2
  <2>4. CASE ~ (f.hdr \/ f.kind # "none")
    BY <2>2, <2>4, <1>2, <1>17
  <2> QED
    BY <2>3, <2>4
<1>20. sub = "none" => 1 + One(f.kind = "bitmap") + One(f.hdr) + One(f.kind # "none") <= j.out
  <2> SUFFICES ASSUME sub = "none"
               PROVE  1 + One(f.kind = "bitmap") + One(f.hdr) + One(f.kind # "none") <= j.out
    OBVIOUS
  <2>1. f.kind = "bitmap" => Has(j, {"overlay_vaapi", "overlay_cuda"})
    BY <1>3, <1>10
  <2>2. One(f.hdr) = (IF f.hdr THEN 1 ELSE 0) /\ One(f.kind # "none") = (IF f.kind # "none" THEN 1 ELSE 0)
        /\ One(f.kind = "bitmap") = (IF f.kind = "bitmap" THEN 1 ELSE 0)
    BY OneIs
  <2>3. CASE f.kind = "bitmap"
    BY <2>1, <2>2, <2>3, <1>2, <1>12, <1>18
  <2>4. CASE f.kind # "bitmap"
    BY <2>2, <2>4, <1>2, <1>12, <1>15, <1>17
  <2> QED
    BY <2>3, <2>4
<1> QED
  BY <1>4, <1>10, <1>13, <1>14, <1>15, <1>19, <1>20, <1>2

-----------------------------------------------------------------------------
(***************************************************************************)
(* An argv whose graph is drawn anew.                                      *)
(***************************************************************************)
\* The graph with `-map` after it, and the rest as it was.
Redraws(u, v, c) ==
  /\ u.graph = c /\ u.aud = v.aud /\ u.ia = v.ia /\ u.sink = v.sink
  /\ u.map = IF v.graph.out >= 0 /\ v.map = v.graph.out THEN c.out ELSE v.map

LEMMA RegraphRedraws ==
  ASSUME NEW v \in Videos, NEW c \in Graphs
  PROVE  Redraws(Regraph(v, c), v, c)
<1> DEFINE m == retargetMapLabel(v, v.graph.out, c.out)
           u == Regraph(v, c)
<1>1. u \in Videos /\ OnlyGraph(u, v) /\ u.graph = c
  BY RegraphIs
<1>2. u = [m EXCEPT !.graph = c]
  BY DEF Regraph
<1>3. m.map = IF v.graph.out >= 0 /\ v.map = v.graph.out THEN c.out ELSE v.map
  BY DEF retargetMapLabel, Videos
<1>4. m \in Videos
  <2>1. c.out \in Int
    BY DEF Graphs
  <2> DEFINE n == [v EXCEPT !.map = c.out]
  <2>2. n \in Videos
    BY <2>1 DEF Videos
  <2>3. m = n \/ m = v
    BY DEF retargetMapLabel
  <2> HIDE DEF m, n
  <2> QED
    BY <2>2, <2>3
<1> HIDE DEF m
<1>5. u.map = m.map
  BY <1>2, <1>4 DEF Videos
<1> HIDE DEF u
<1>6. Redraws(u, v, c)
  BY <1>1, <1>3, <1>5 DEF Redraws, OnlyGraph
<1> QED
  BY <1>6 DEF u

\* The output takes the picture's label, and the sound has one of its own.
Connects(v0, u) == u.map = u.graph.out /\ u.aud = v0.aud /\ u.graph.out < u.aud

Joins(v0, u) ==
  /\ Connects(v0, u)
  /\ Has(u.graph, {"inlineass", "inlineass_sdr"}) => u.ia # "none"
  /\ u.ia = "sidecar" => u.sink

\* A graph drawn for a GPU: no software scale leads it, and its label is known.
Numbered(g) == g.out >= 0 \/ (g.out = Vsel /\ Has(g, {"select"}))
Redrawn(g) == g.side = "none" /\ ~ Leads(g, "scale") /\ Numbered(g)

\* What is asked for is what Plex asked for, and there are labels for it.
Wants(k, v0, s, select) ==
  /\ Asked(s) /\ select \in BOOLEAN
  /\ Forgotten(k, v0.graph) \/ (s.hdr \/ (s.kind # "none" /\ s.sdr) <=> ToneMaps(v0.graph))
  /\ s.kind # "none" <=> Burns(v0.graph)
  /\ select <=> Has(v0.graph, {"select"})
  /\ 0 <= v0.graph.out
  /\ One(~ s.resident) + One(s.hdr \/ s.kind # "none") <= v0.graph.out

\* What is drawn for a GPU is connected, and shows what is asked for.
LEMMA DrawnGPU ==
  ASSUME NEW k, k.backend \in GPUs, NEW v0 \in PlexVideos, NEW v, NEW u, NEW s, NEW select,
         Wants(k, v0, s, select),
         Redraws(u, v, Recompose(k, s, select)),
         v.map = v.graph.out, v.aud = v0.aud,
         v.graph.out >= 0 \/ (v.graph.out = Vsel /\ select)
  PROVE  /\ Shows(k, v0.graph, u.graph) /\ Connects(v0, u) /\ Redrawn(u.graph)
         /\ u.ia = v.ia /\ u.sink = v.sink
         /\ Has(u.graph, {"inlineass", "inlineass_sdr"}) <=> s.kind # "none"
<1> DEFINE c == Recompose(k, s, select)
           j == v0.graph
<1>0. /\ Asked(s) /\ select \in BOOLEAN
      /\ Forgotten(k, j) \/ (s.hdr \/ (s.kind # "none" /\ s.sdr) <=> ToneMaps(j))
      /\ s.kind # "none" <=> Burns(j)
      /\ select <=> Has(j, {"select"})
      /\ 0 <= j.out /\ One(~ s.resident) + One(s.hdr \/ s.kind # "none") <= j.out
  BY DEF Wants
<1>1. DrawnAsAsked(c, s, select)
  BY <1>0, RecomposeGPU
<1>2. /\ u.graph = c /\ u.aud = v.aud /\ u.ia = v.ia /\ u.sink = v.sink
      /\ u.map = IF v.graph.out >= 0 /\ v.map = v.graph.out THEN c.out ELSE v.map
  BY DEF Redraws
<1>3. j.out \in Int /\ v0.aud \in Int /\ j.out < v0.aud
  BY PlexGraphIs DEF PlexVideos, Videos
<1> HIDE DEF c, j
<1>4. /\ ToneMaps(c) <=> s.hdr \/ (s.kind # "none" /\ s.sdr)
      /\ Burns(c) <=> s.kind # "none"
      /\ Has(c, {"inlineass", "inlineass_sdr"}) <=> s.kind # "none"
      /\ ~ Has(c, {"scale"}) /\ (Has(c, {"select"}) <=> select)
      /\ c.side = "none"
      /\ IF select THEN c.out = Vsel
         ELSE c.out \in Nat /\ c.out <= One(~ s.resident) + One(s.hdr \/ s.kind # "none")
  BY <1>1 DEF DrawnAsAsked
<1>5. Shows(k, j, c)
  BY <1>0, <1>4 DEF Shows
<1>6. c.out < v0.aud
  BY <1>0, <1>3, <1>4, OneIs DEF Vsel
<1>7. u.map = c.out
  BY <1>2, <1>4 DEF Vsel
<1>8. ~ Leads(c, "scale")
  <2>1. c.nodes \in Seq(Filters)
    BY RecomposeTyped DEF Fresh, Graphs, c
  <2>2. c.nodes # << >> => 1 \in DOMAIN c.nodes
    BY <2>1
  <2> QED
    BY <1>4, <2>2 DEF Leads, Has
<1>9. Numbered(c)
  BY <1>4 DEF Numbered
<1> QED
  BY <1>2, <1>4, <1>5, <1>6, <1>7, <1>8, <1>9 DEF Connects, Redrawn, j

\* The same in main memory.
LabelsOf(kind, hdr) == 1 + One(kind = "bitmap") + One(hdr) + One(kind # "none")

WantsSW(k, v0, s, select) ==
  /\ Asked(s) /\ select \in BOOLEAN
  /\ Forgotten(k, v0.graph) \/ (s.hdr <=> ToneMaps(v0.graph))
  /\ s.kind # "none" <=> Burns(v0.graph)
  /\ select <=> Has(v0.graph, {"select"})
  /\ 0 <= v0.graph.out
  /\ LabelsOf(s.kind, s.hdr) <= v0.graph.out

LEMMA DrawnSW ==
  ASSUME NEW k, NEW sw, sw.backend = "sw", NEW v0 \in PlexVideos, NEW v, NEW u, NEW s,
         NEW select, WantsSW(k, v0, s, select),
         Redraws(u, v, Recompose(sw, s, select)),
         v.map = v.graph.out, v.aud = v0.aud, v.graph.out >= 0
  PROVE  /\ Shows(k, v0.graph, u.graph) /\ Connects(v0, u)
         /\ u.ia = v.ia /\ u.sink = v.sink
         /\ Has(u.graph, {"inlineass", "inlineass_sdr"}) => s.kind \notin {"none", "bitmap"}
<1> DEFINE c == Recompose(sw, s, select)
           j == v0.graph
<1>0. /\ Asked(s) /\ select \in BOOLEAN
      /\ Forgotten(k, j) \/ (s.hdr <=> ToneMaps(j))
      /\ s.kind # "none" <=> Burns(j)
      /\ select <=> Has(j, {"select"})
      /\ 0 <= j.out /\ LabelsOf(s.kind, s.hdr) <= j.out
  BY DEF WantsSW
<1>1. DrawnSoftware(c, s, select)
  BY <1>0, RecomposeSW
<1>2. /\ u.graph = c /\ u.aud = v.aud /\ u.ia = v.ia /\ u.sink = v.sink
      /\ u.map = IF v.graph.out >= 0 /\ v.map = v.graph.out THEN c.out ELSE v.map
  BY DEF Redraws
<1>3. j.out \in Int /\ v0.aud \in Int /\ j.out < v0.aud
  BY PlexGraphIs DEF PlexVideos, Videos
<1> HIDE DEF c, j
<1>4. /\ ToneMaps(c) <=> s.hdr
      /\ Burns(c) <=> s.kind # "none"
      /\ Has(c, {"inlineass", "inlineass_sdr"}) => s.kind \notin {"none", "bitmap"}
      /\ Has(c, {"select"}) <=> select
      /\ IF select THEN c.out = Vsel
         ELSE c.out \in Nat /\ c.out = 1 + One(s.kind = "bitmap") + One(s.hdr) + One(s.kind # "none")
  BY <1>1 DEF DrawnSoftware
<1>5. Shows(k, j, c)
  BY <1>0, <1>4 DEF Shows
<1>6. c.out < v0.aud
  BY <1>0, <1>3, <1>4 DEF Vsel, LabelsOf
<1>7. u.map = c.out
  BY <1>2
<1> QED
  BY <1>2, <1>4, <1>5, <1>6, <1>7 DEF Connects, j

\* What an argv keeps through a phase that has nothing to do with its picture.
Same(u, v) ==
  u.graph = v.graph /\ u.map = v.map /\ u.aud = v.aud /\ u.ia = v.ia /\ u.sink = v.sink

\* What holds of an argv up to the encoder's phase, of a worker with a GPU and of one without.
Source(k, v0, v) == v.graph = Origin(k, v0) \/ Redrawn(v.graph)

\* Another backend's argv.
LEMMA ForeignShows ==
  ASSUME NEW k, k.backend \in GPUs, NEW v0 \in PlexVideos, NEW v \in Videos,
         v.graph = Origin(k, v0), Joins(v0, v), v.ia = v0.ia
  PROVE  LET u == reshapeForeignHWArgv(v, k)
         IN  Shows(k, v0.graph, u.graph) /\ Joins(v0, u) /\ u.ia = v0.ia /\ Source(k, v0, u)
<1> DEFINE b     == k.backend
           facts == extractGraphFacts(v.graph, "none")
           ten   == graphFeedsTenBit(v.graph) /\ ~ facts.hdr /\ encoderIsHEVC(v)
           acc   == IF v.accel = "none" \/ v.hex THEN v.accel ELSE hwaccelName(b)
           fmt   == IF v.outfmt = "none" \/ v.hex THEN v.outfmt ELSE hwaccelOutputFormat(b)
           dev   == IF v.device = "none" THEN v.device ELSE initHWDevice(b)
           named == [v EXCEPT !.accel = acc, !.outfmt = fmt, !.device = dev]
           s     == Burn(facts, TRUE, ten)
           c     == Recompose(k, s, facts.select)
           drawn == IF ~ isSWFilterGraph(v.graph) /\ facts.ok /\ facts.kind # "bitmap"
                    THEN Regraph(named, c) ELSE named
           u     == [drawn EXCEPT !.enc = Reencoded(drawn.enc, b)]
<1>1. reshapeForeignHWArgv(v, k) = u
  BY DEF reshapeForeignHWArgv, Videos
<1>2. acc \in Names /\ fmt \in Names /\ dev \in Names
  BY DialectIs DEF Videos
<1> HIDE DEF acc, fmt, dev
<1>3. named \in Videos /\ Same(named, v)
  BY <1>2 DEF Same, Videos
<1> HIDE DEF named
<1>4. Fresh(c)
  BY RecomposeTyped
<1>5. FactsRead(facts, v.graph, "none")
  BY FactsAre
<1>6. facts.ok =>
        /\ facts.hdr \in BOOLEAN /\ facts.sdr \in BOOLEAN /\ facts.select \in BOOLEAN
        /\ Forgotten(k, v0.graph) \/ (facts.hdr <=> ToneMaps(v0.graph))
        /\ ~ facts.sdr
        /\ facts.kind # "none" <=> Burns(v0.graph)
        /\ facts.select <=> Has(v0.graph, {"select"})
        /\ facts.kind \notin {"none", "bitmap"} => Has(v0.graph, {"inlineass"})
        /\ 1 + One(facts.hdr \/ facts.kind # "none") <= v0.graph.out
  BY OriginFacts
<1>7. v0.graph.out \in Int /\ v.graph.out = v0.graph.out
  BY OriginIs, PlexGraphIs DEF PlexVideos
<1> HIDE DEF facts, ten
<1>8. CASE ~ isSWFilterGraph(v.graph) /\ facts.ok /\ facts.kind # "bitmap"
  <2>1. /\ Asked(s) /\ s.hdr = facts.hdr /\ s.sdr = facts.sdr /\ s.kind = facts.kind
        /\ s.resident = TRUE
    BY <1>6, <1>8 DEF Burn, Asked
  <2> HIDE DEF s
  <2>2. Redraws(drawn, named, c)
    BY <1>3, <1>4, <1>8, RegraphRedraws DEF Fresh
  <2>3. One(~ s.resident) = 0 /\ One(facts.hdr \/ facts.kind # "none") \in {0, 1}
    BY <2>1, OneIs
  <2>4. v0.graph.out >= 0 /\ One(~ s.resident) + One(s.hdr \/ s.kind # "none") <= v0.graph.out
    BY <1>6, <1>7, <1>8, <2>1, <2>3
  <2>5. named.map = named.graph.out /\ named.aud = v0.aud /\ named.graph.out >= 0
    BY <1>3, <1>7, <2>4 DEF Same, Joins, Connects
  <2>6. /\ Shows(k, v0.graph, drawn.graph) /\ Connects(v0, drawn) /\ Redrawn(drawn.graph)
        /\ drawn.ia = named.ia /\ drawn.sink = named.sink
        /\ Has(drawn.graph, {"inlineass", "inlineass_sdr"}) <=> s.kind # "none"
    <3> HIDE DEF drawn
    <3>1. /\ Forgotten(k, v0.graph) \/ (s.hdr \/ (s.kind # "none" /\ s.sdr) <=> ToneMaps(v0.graph))
          /\ s.kind # "none" <=> Burns(v0.graph)
          /\ facts.select <=> Has(v0.graph, {"select"})
          /\ facts.select \in BOOLEAN
      BY <1>6, <1>8, <2>1
    <3>2. Wants(k, v0, s, facts.select)
      BY <2>1, <2>4, <3>1 DEF Wants
    <3> QED
      BY <2>2, <2>5, <3>2, DrawnGPU
  <2>7. s.kind # "none" => v.ia # "none"
    BY <1>6, <1>8, <2>1 DEF PlexVideos
  <2>8. Joins(v0, drawn) /\ drawn.ia = v0.ia
    BY <1>3, <2>6, <2>7 DEF Joins, Same
  <2>9. drawn \in Videos
    BY <1>3, <1>4, <1>8, RegraphIs DEF Fresh
  <2> HIDE DEF drawn
  <2>10. Same(u, drawn)
    BY <2>9 DEF Same, Videos
  <2> HIDE DEF u
  <2> QED
    BY <1>1, <2>6, <2>8, <2>10 DEF Same, Joins, Connects, Source
<1>9. CASE ~ (~ isSWFilterGraph(v.graph) /\ facts.ok /\ facts.kind # "bitmap")
  <2>1. drawn = named
    BY <1>9
  <2> HIDE DEF drawn
  <2>2. Same(u, v)
    BY <1>3, <2>1 DEF Same, Videos
  <2> HIDE DEF u
  <2> QED
    BY <1>1, <2>2, OriginShows DEF Same, Joins, Connects, Source
<1> QED
  BY <1>8, <1>9

\* All in main memory.
LEMMA SoftwareReshapes ==
  ASSUME NEW k, NEW v0 \in PlexVideos, NEW v \in Videos,
         v.graph = Origin(k, v0), Joins(v0, v), v.ia = v0.ia
  PROVE  LET u == reshapeToSoftware(v)
         IN  Shows(k, v0.graph, u.graph) /\ Joins(v0, u) /\ u.ia = v0.ia
<1> DEFINE facts    == extractGraphFacts(v.graph, "none")
           d        == IF v.dec = "av1" THEN "libdav1d" ELSE v.dec
           e        == Reencoded(v.enc, "sw")
           stripped == [v EXCEPT !.accel = "none", !.outfmt = "none", !.device = "none", !.ocl = FALSE,
                                 !.dec = d, !.enc = e]
           sw       == [backend |-> "sw"]
           s        == Burn(facts, FALSE, FALSE)
           c        == Recompose(sw, s, facts.select)
           u        == IF ~ isSWFilterGraph(v.graph) /\ facts.ok THEN Regraph(stripped, c) ELSE stripped
<1>1. reshapeToSoftware(v) = u
  BY DEF reshapeToSoftware
<1>2. d \in Names /\ e \in Names /\ "none" \in Names
  BY ReencodedIs, NamesAssumption DEF Videos
<1> HIDE DEF d, e
<1>3. stripped \in Videos /\ Same(stripped, v)
  BY <1>2 DEF Same, Videos
<1> HIDE DEF stripped
<1>4. Fresh(c) /\ sw.backend = "sw"
  BY RecomposeTyped
<1>5. facts.ok =>
        /\ facts.hdr \in BOOLEAN /\ facts.sdr \in BOOLEAN /\ facts.select \in BOOLEAN
        /\ Forgotten(k, v0.graph) \/ (facts.hdr <=> ToneMaps(v0.graph))
        /\ ~ facts.sdr
        /\ facts.kind # "none" <=> Burns(v0.graph)
        /\ facts.select <=> Has(v0.graph, {"select"})
        /\ facts.kind \notin {"none", "bitmap"} => Has(v0.graph, {"inlineass"})
        /\ 1 + One(facts.kind = "bitmap") + One(facts.hdr) + One(facts.kind # "none") <= v0.graph.out
  BY OriginFacts
<1>6. v0.graph.out \in Int /\ v.graph.out = v0.graph.out
  BY OriginIs, PlexGraphIs DEF PlexVideos
<1> HIDE DEF facts, sw
<1>7. CASE ~ isSWFilterGraph(v.graph) /\ facts.ok
  <2>1. Asked(s) /\ s.hdr = facts.hdr /\ s.kind = facts.kind
    BY <1>5, <1>7 DEF Burn, Asked
  <2> HIDE DEF s
  <2>2. Redraws(u, stripped, c)
    BY <1>3, <1>4, <1>7, RegraphRedraws DEF Fresh
  <2>3. /\ One(facts.kind = "bitmap") \in {0, 1} /\ One(facts.hdr) \in {0, 1}
        /\ One(facts.kind # "none") \in {0, 1}
    BY OneIs
  <2>4. v0.graph.out >= 0
    BY <1>5, <1>6, <1>7, <2>3
  <2>5. stripped.map = stripped.graph.out /\ stripped.aud = v0.aud /\ stripped.graph.out >= 0
    BY <1>3, <1>6, <2>4 DEF Same, Joins, Connects
  <2> HIDE DEF u
  <2>6. /\ Shows(k, v0.graph, u.graph) /\ Connects(v0, u)
        /\ u.ia = stripped.ia /\ u.sink = stripped.sink
        /\ Has(u.graph, {"inlineass", "inlineass_sdr"}) => s.kind \notin {"none", "bitmap"}
    <3>1. /\ Forgotten(k, v0.graph) \/ (s.hdr <=> ToneMaps(v0.graph))
          /\ s.kind # "none" <=> Burns(v0.graph)
          /\ facts.select <=> Has(v0.graph, {"select"})
          /\ facts.select \in BOOLEAN
      BY <1>5, <1>7, <2>1
    <3>2. LabelsOf(facts.kind, facts.hdr) <= v0.graph.out
      BY <1>5, <1>7 DEF LabelsOf
    <3>3. LabelsOf(s.kind, s.hdr) <= v0.graph.out
      BY <2>1, <3>2
    <3>4. 0 <= v0.graph.out
      BY <1>6, <2>4
    <3>5. WantsSW(k, v0, s, facts.select)
      BY <2>1, <3>1, <3>3, <3>4 DEF WantsSW
    <3> QED
      BY <1>4, <2>2, <2>5, <3>5, DrawnSW
  <2>7. s.kind \notin {"none", "bitmap"} => v.ia # "none"
    BY <1>5, <1>7, <2>1 DEF PlexVideos
  <2> QED
    BY <1>1, <1>3, <2>6, <2>7 DEF Joins, Same
<1>8. CASE ~ (~ isSWFilterGraph(v.graph) /\ facts.ok)
  <2>1. u = stripped
    BY <1>8
  <2> HIDE DEF u
  <2> QED
    BY <1>1, <1>3, <2>1, OriginShows DEF Same, Joins, Connects
<1> QED
  BY <1>7, <1>8

-----------------------------------------------------------------------------
(***************************************************************************)
(* The phases of the picture.                                              *)
(***************************************************************************)
Early == pc \in {"gate", "reshape", "decode", "device", "picture", "encoder"}

\* Up to the encoder's phase the graph is the one the first phase left, or one
\* drawn anew for a GPU, and the subtitle is named as Plex named it; what the
\* graph shows, and how it is connected, is right at every phase.
PicInv ==
  /\ pc \in {"gate", "reshape"} => argv.graph = Origin(w, job.video)
  /\ Early /\ HW => Source(w, job.video, argv)
  /\ Early => argv.ia = job.video.ia
  /\ Shows(w, job.video.graph, argv.graph)
  /\ Joins(job.video, argv)

LEMMA PlexJob ==
  ASSUME job \in Jobs
  PROVE  job.video \in PlexVideos /\ job.video.graph \in PlexGraphs /\ job.video \in Videos
BY JobsAssumption DEF PlexVideos

LEMMA SubIs ==
  /\ Sub \in {"none", "text", "bitmap"}
  /\ Sub # "none" <=> argv.ia # "none"
BY DEF Sub, detectSubtitleSource

LEMMA EncoderGPU ==
  ASSUME AxisInv, pc \in {"picture", "encoder"}
  PROVE  w.backend \in GPUs
BY DEF AxisInv, Decided, HW

LEMMA MoveShows ==
  ASSUME IInv, AxisInv, PicInv, MovePicture
  PROVE  Shows(w, job.video.graph, argv'.graph) /\ Joins(job.video, argv')
<1> DEFINE f  == PictureFacts
           s  == Burn(f, FALSE, FALSE)
           c  == Recompose(w, s, f.select)
           v  == Regraph(argv, c)
           e  == encoderMap(w.backend)[v.enc]
           v0 == job.video
<1>1. job \in Jobs /\ argv \in Videos /\ pc = "picture" /\ argv.enc \in SWEncoders
  BY DEF IInv, TypeOK, Phased, MovePicture, plexSWEncoder
<1>2. v0 \in PlexVideos /\ w.backend \in GPUs
  BY <1>1, PlexJob, EncoderGPU
<1>3. Leads(argv.graph, "scale") /\ f.ok
  BY DEF MovePicture, Rewritable
<1>4. argv.graph = Origin(w, v0) /\ argv.ia = v0.ia /\ Joins(v0, argv)
  BY <1>1, <1>2, <1>3 DEF PicInv, Early, HW, Source, Redrawn
<1>5. /\ Sub \in {"none", "text", "bitmap"}
      /\ Sub # "none" => argv.ia # "none" /\ Has(v0.graph, {"inlineass"})
  BY <1>2, <1>4, SubIs DEF PlexVideos
<1>6. argv' = [v EXCEPT !.enc = e]
  BY DEF MovePicture
<1>7. f = extractGraphFacts(Origin(w, v0), Sub)
  BY <1>4 DEF PictureFacts
<1>8. FactsRead(f, argv.graph, Sub)
  BY <1>5, FactsAre DEF PictureFacts
<1>9. ~ detectBitmapOverlayBurn(argv.graph)
  BY <1>3 DEF Leads, detectBitmapOverlayBurn
<1> HIDE DEF f, v0, e
<1>10. /\ f.hdr \in BOOLEAN /\ f.sdr \in BOOLEAN /\ f.select \in BOOLEAN
       /\ Forgotten(w, v0.graph) \/ (f.hdr <=> ToneMaps(v0.graph))
       /\ ~ f.sdr
       /\ f.kind # "none" <=> Burns(v0.graph)
       /\ f.select <=> Has(v0.graph, {"select"})
       /\ f.kind \notin {"none", "bitmap"} => Has(v0.graph, {"inlineass"})
       /\ 1 + One(f.hdr \/ f.kind # "none") <= v0.graph.out
  BY <1>2, <1>3, <1>5, <1>7, OriginFacts
<1>11. f.kind # "none" => argv.ia # "none"
  BY <1>2, <1>4, <1>5, <1>8, <1>9, <1>10 DEF FactsRead, PlexVideos
<1>12. v0.graph.out \in Int /\ argv.graph.out = v0.graph.out
  BY <1>2, <1>4, OriginIs, PlexGraphIs DEF PlexVideos
<1>13. /\ Asked(s) /\ s.hdr = f.hdr /\ s.sdr = f.sdr /\ s.kind = f.kind
       /\ s.resident = FALSE
  BY <1>10 DEF Burn, Asked
<1> HIDE DEF s
<1>14. One(~ s.resident) = 1 /\ One(f.hdr \/ f.kind # "none") \in {0, 1}
  BY <1>13, OneIs
<1>15. v0.graph.out >= 0 /\ One(~ s.resident) + One(s.hdr \/ s.kind # "none") <= v0.graph.out
  BY <1>10, <1>12, <1>13, <1>14
<1>16. Wants(w, v0, s, f.select)
  <2>1. /\ Forgotten(w, v0.graph) \/ (s.hdr \/ (s.kind # "none" /\ s.sdr) <=> ToneMaps(v0.graph))
        /\ s.kind # "none" <=> Burns(v0.graph)
        /\ f.select <=> Has(v0.graph, {"select"})
        /\ f.select \in BOOLEAN
    BY <1>10, <1>13
  <2> QED
    BY <1>13, <1>15, <2>1 DEF Wants
<1>17. Fresh(c)
  BY RecomposeTyped
<1>18. Redraws(v, argv, c) /\ v \in Videos
  BY <1>1, <1>17, RegraphRedraws, RegraphIs DEF Fresh
<1>19. argv.map = argv.graph.out /\ argv.aud = v0.aud /\ argv.graph.out >= 0
  BY <1>4, <1>12, <1>15 DEF Joins, Connects
<1> HIDE DEF v
<1>20. /\ Shows(w, v0.graph, v.graph) /\ Connects(v0, v) /\ v.ia = argv.ia /\ v.sink = argv.sink
       /\ Has(v.graph, {"inlineass", "inlineass_sdr"}) <=> s.kind # "none"
  BY <1>2, <1>16, <1>18, <1>19, DrawnGPU
<1>21. Joins(v0, v)
  BY <1>4, <1>11, <1>13, <1>20 DEF Joins
<1>22. Same(argv', v)
  BY <1>6, <1>18 DEF Same, Videos
<1> QED
  BY <1>20, <1>21, <1>22 DEF Same, Joins, Connects, v0

\* A text burn is drawn anew in the memory of the GPU, whatever the graph was.
LEMMA TextShows ==
  ASSUME IInv, AxisInv, PicInv, BurnText
  PROVE  Shows(w, job.video.graph, argv'.graph) /\ Joins(job.video, argv')
<1> DEFINE f  == PictureFacts
           s  == Burn(f, TRUE, KeepsTenBit(media.hdr, f))
           c  == Recompose(w, s, f.select)
           r  == Resident(argv)
           v  == Regraph(r, c)
           v0 == job.video
           j  == v0.graph
<1>1. job \in Jobs /\ argv \in Videos /\ pc = "encoder" /\ Clean(argv)
  BY CleanNow DEF IInv, TypeOK, Phased, BurnText, HardwareEncoder
<1>2. v0 \in PlexVideos /\ w.backend \in GPUs
  BY <1>1, PlexJob, EncoderGPU
<1>3. Sub = "text" /\ f.ok /\ f.kind = "text"
  BY DEF BurnText
<1>4. /\ argv.graph = Origin(w, v0) \/ Redrawn(argv.graph)
      /\ argv.ia = v0.ia /\ Joins(v0, argv) /\ Shows(w, j, argv.graph)
  BY <1>1, <1>2 DEF PicInv, Early, HW, Source
<1>5. argv.ia # "none" /\ Has(j, {"inlineass"})
  BY <1>2, <1>3, <1>4, SubIs DEF PlexVideos
<1>6. argv' = v
  BY DEF BurnText
<1>7. FactsRead(f, argv.graph, Sub)
  BY <1>3, FactsAre DEF PictureFacts
<1>8. r \in Videos /\ Same(r, argv)
  <2>1. hwaccelOutputFormat(w.backend) \in Names
    BY <1>2, DialectIs
  <2> QED
    BY <1>1, <2>1 DEF Resident, Same, Videos
<1> HIDE DEF f, v0, r, j
<1>9. /\ f.hdr \in BOOLEAN /\ f.sdr \in BOOLEAN /\ f.select \in BOOLEAN
      /\ f.hdr <=> Has(argv.graph, Mappers)
      /\ f.sdr <=> Has(argv.graph, {"inlineass_sdr", "inlineass_tonemap"})
      /\ f.select <=> Has(argv.graph, {"select"})
  BY <1>3, <1>7 DEF FactsRead
<1>10. f.hdr \/ f.sdr <=> ToneMaps(argv.graph)
  BY <1>9, TonesAre
<1>11. Burns(j)
  <2>1. Has(j, {"inlineass", "inlineass_sdr"})
    BY <1>5 DEF Has
  <2> QED
    BY <2>1, BurnsAre
<1>12. j \in PlexGraphs /\ j.out \in Int /\ j.out >= 1
  <2>1. j \in PlexGraphs
    BY <1>2 DEF PlexVideos, j
  <2>2. Len(j.nodes) >= 2 /\ Len(j.nodes) \in Nat /\ j.out \in Int /\ j.out >= Len(j.nodes) - 1
    BY <1>5, <2>1, BurnRoom, PlexGraphIs
  <2> QED
    BY <2>1, <2>2
<1>13. /\ Asked(s) /\ s.hdr = f.hdr /\ s.sdr = f.sdr /\ s.kind = "text"
       /\ s.resident = TRUE
  BY <1>3, <1>9 DEF Burn, Asked
<1> HIDE DEF s
<1>14. One(~ s.resident) = 0 /\ One(s.hdr \/ s.kind # "none") = 1
  BY <1>13, OneIs
<1>15. Wants(w, v0, s, f.select)
  <2>1. Forgotten(w, j) \/ (s.hdr \/ (s.kind # "none" /\ s.sdr) <=> ToneMaps(j))
    BY <1>4, <1>10, <1>13 DEF Shows
  <2>2. s.kind # "none" <=> Burns(j)
    BY <1>11, <1>13
  <2>3. f.select <=> Has(j, {"select"})
    BY <1>4, <1>9 DEF Shows
  <2>4. 0 <= j.out /\ One(~ s.resident) + One(s.hdr \/ s.kind # "none") <= j.out
    BY <1>12, <1>14
  <2> QED
    BY <1>9, <1>13, <2>1, <2>2, <2>3, <2>4 DEF Wants, j
<1>16. Fresh(c)
  BY RecomposeTyped
<1>17. Redraws(v, r, c)
  BY <1>8, <1>16, RegraphRedraws DEF Fresh
<1>18. argv.graph.out >= 0 \/ (argv.graph.out = Vsel /\ f.select)
  <2>1. CASE argv.graph = Origin(w, v0)
    <3>1. argv.graph.out = j.out
      BY <1>2, <2>1, OriginIs DEF j
    <3> QED
      BY <1>12, <3>1
  <2>2. CASE Redrawn(argv.graph)
    BY <1>9, <2>2 DEF Redrawn, Numbered
  <2> QED
    BY <1>4, <2>1, <2>2
<1>19. /\ r.map = r.graph.out /\ r.aud = v0.aud
       /\ r.graph.out >= 0 \/ (r.graph.out = Vsel /\ f.select)
  BY <1>4, <1>8, <1>18 DEF Joins, Connects, Same
<1> HIDE DEF v
<1>20. Shows(w, j, v.graph) /\ Connects(v0, v) /\ v.ia = r.ia /\ v.sink = r.sink
  BY <1>2, <1>15, <1>17, <1>19, DrawnGPU DEF j
<1>21. Joins(v0, v)
  BY <1>4, <1>5, <1>8, <1>20 DEF Joins, Same
<1> QED
  BY <1>6, <1>20, <1>21 DEF v0, j

\* An overlay of Plex's becomes a burn of the stream that is named with it.
LEMMA OverlayShows ==
  ASSUME IInv, AxisInv, PicInv, BurnOverlay
  PROVE  Shows(w, job.video.graph, argv'.graph) /\ Joins(job.video, argv')
<1> DEFINE s  == OverlaySpec
           c  == composeBurn(w, s)
           r  == Resident(argv)
           v  == Regraph(r, c)
           v0 == job.video
           j  == v0.graph
           o  == Origin(w, v0)
<1>1. job \in Jobs /\ argv \in Videos /\ pc = "encoder" /\ Clean(argv)
  BY CleanNow DEF IInv, TypeOK, Phased, BurnOverlay, HardwareEncoder
<1>2. v0 \in PlexVideos /\ j \in PlexGraphs /\ w.backend \in GPUs
  BY <1>1, PlexJob, EncoderGPU
<1>3. detectBitmapOverlayBurn(argv.graph)
  BY DEF BurnOverlay
<1>4. argv.graph = o /\ Joins(v0, argv)
  BY <1>1, <1>2, <1>3 DEF PicInv, Early, HW, Source, Redrawn, detectBitmapOverlayBurn
<1>5. argv' = [v EXCEPT !.ia = "embedded"]
  BY DEF BurnOverlay
<1>6. r \in Videos /\ Same(r, argv)
  <2>1. hwaccelOutputFormat(w.backend) \in Names
    BY <1>2, DialectIs
  <2> QED
    BY <1>1, <2>1 DEF Resident, Same, Videos
<1>7. /\ s.hdr = Has(o, {"tonemap_opencl"}) /\ s.kind = "bitmap" /\ s.sdr = FALSE
      /\ s.resident \in BOOLEAN
  BY <1>4 DEF OverlaySpec
<1> HIDE DEF s, v0, r, j, o
<1>8. /\ o.out = j.out
      /\ Has(j, {"overlay_vaapi", "overlay_cuda"})
      /\ Forgotten(w, j) <=> ToneMaps(o) /\ ~ Has(o, {"tonemap_opencl"})
      /\ ToneMaps(o) <=> ToneMaps(j)
  BY <1>2, <1>3, <1>4, OriginIs, OriginShows DEF o, j
<1>9. Has(o, {"tonemap_opencl"}) => ToneMaps(o)
  BY DEF Has, ToneMaps
<1>10. j.out \in Int /\ j.out >= 3
  <2>1. Len(j.nodes) >= 4
    BY <1>2, <1>8, OverlayRoom
  <2> QED
    BY <1>2, <2>1, PlexGraphIs
<1>11. Wants(w, v0, s, FALSE)
  <2>1. Asked(s)
    BY <1>7 DEF Asked, Has
  <2>2. Forgotten(w, j) \/ (s.hdr \/ (s.kind # "none" /\ s.sdr) <=> ToneMaps(j))
    BY <1>7, <1>8, <1>9
  <2>3. s.kind # "none" <=> Burns(j)
    BY <1>7, <1>8, BurnsAre
  <2>4. ~ Has(j, {"select"})
    BY <1>2, <1>8, PlexGraphIs
  <2>5. One(~ s.resident) \in {0, 1} /\ One(s.hdr \/ s.kind # "none") = 1
    BY <1>7, OneIs
  <2>6. 0 <= j.out /\ One(~ s.resident) + One(s.hdr \/ s.kind # "none") <= j.out
    BY <1>10, <2>5
  <2> QED
    BY <2>1, <2>2, <2>3, <2>4, <2>6 DEF Wants, j
<1>12. Recompose(w, s, FALSE) = c
  BY <1>2 DEF Recompose, appendSelectStage, GPUs
<1>13. Fresh(c)
  BY ComposedGPUTyped
<1> HIDE DEF c
<1>14. Redraws(v, r, c) /\ v \in Videos
  BY <1>6, <1>13, RegraphRedraws, RegraphIs DEF Fresh
<1>15. r.map = r.graph.out /\ r.aud = v0.aud /\ r.graph.out >= 0
  BY <1>4, <1>6, <1>8, <1>10 DEF Joins, Connects, Same
<1> HIDE DEF v
<1>16. Shows(w, j, v.graph) /\ Connects(v0, v)
  <2>1. Redraws(v, r, Recompose(w, s, FALSE))
    BY <1>12, <1>14
  <2> QED
    BY <1>2, <1>11, <1>15, <2>1, DrawnGPU DEF j
<1>17. /\ argv'.graph = v.graph /\ argv'.map = v.map /\ argv'.aud = v.aud
       /\ argv'.ia = "embedded"
  BY <1>5, <1>14 DEF Videos
<1> QED
  BY <1>16, <1>17 DEF Joins, Connects, v0, j

\* A tone mapping that stays on the GPU shows the same.
LEMMA SettleShows ==
  ASSUME IInv, PicInv, SettlePicture
  PROVE  Shows(w, job.video.graph, argv'.graph) /\ Joins(job.video, argv')
<1> DEFINE g == gpuResidentGraph(argv.graph)
           u == IF w.backend = "vaapi" /\ argv.accel # "none" /\ Has(argv.graph, {"tonemap_opencl"})
                THEN OpenCLResident(argv) ELSE argv
           v == ensureHEVCMain10(u)
           x == [v EXCEPT !.sei = @ \/ (honour = "none" /\ v.keyframes)]
<1>1. Clean(argv) /\ argv \in Videos /\ argv.graph \in Graphs
  BY CleanNow DEF SettlePicture, Clean, Videos
<1>2. argv' = x
  BY DEF SettlePicture
<1>3. /\ g.out = argv.graph.out
      /\ \A names : {"hwupload", "hwmap_back"} \cap names = {}
                    => (Has(g, names) <=> Has(argv.graph, names))
  BY <1>1, ResidentIs
<1>4. /\ u.graph = argv.graph \/ u.graph = g
      /\ u.map = argv.map /\ u.aud = argv.aud /\ u.ia = argv.ia /\ u.sink = argv.sink
  <2>1. CASE u = argv
    BY <2>1
  <2>2. CASE u = OpenCLResident(argv)
    <3> HIDE DEF u
    <3> QED
      BY <1>1, <2>2 DEF OpenCLResident, Videos
  <2> QED
    BY <2>1, <2>2
<1>5. Clean(u)
  BY <1>1, OpenCLIs DEF SameAxes
<1> HIDE DEF g, u
<1>6. Same(v, u) /\ Clean(v)
  BY <1>5, SettledIs DEF ensureHEVCMain10, Same, SameAxes, Clean, Videos
<1> HIDE DEF v
<1>7. Same(x, v)
  BY <1>6 DEF Same, Clean, Videos
<1> HIDE DEF x
<1>8. Shows(w, job.video.graph, argv.graph) /\ Joins(job.video, argv)
  BY DEF PicInv
<1>9. Same(argv', u)
  BY <1>2, <1>6, <1>7 DEF Same
<1>10. CASE u.graph = argv.graph
  BY <1>4, <1>8, <1>9, <1>10 DEF Same, Joins, Connects
<1>11. CASE u.graph = g
  <2>1. \A names : {"hwupload", "hwmap_back"} \cap names = {}
                   => (Has(argv'.graph, names) <=> Has(argv.graph, names))
    BY <1>3, <1>9, <1>11 DEF Same
  <2>2. /\ ToneMaps(argv'.graph) <=> ToneMaps(argv.graph)
        /\ Burns(argv'.graph) <=> Burns(argv.graph)
        /\ Has(argv'.graph, {"select"}) <=> Has(argv.graph, {"select"})
        /\ Has(argv'.graph, {"inlineass", "inlineass_sdr"})
             <=> Has(argv.graph, {"inlineass", "inlineass_sdr"})
    BY <2>1 DEF ToneMaps, Burns
  <2>3. argv'.graph.out = argv.graph.out
    BY <1>3, <1>9, <1>11 DEF Same
  <2> QED
    BY <1>4, <1>8, <1>9, <2>2, <2>3 DEF Same, Shows, Joins, Connects
<1> QED
  BY <1>4, <1>10, <1>11

LEMMA PicInit == Init => PicInv
<1> SUFFICES ASSUME Init PROVE PicInv
  OBVIOUS
<1>1. argv = job.video /\ pc = "scrub" /\ job.video \in PlexVideos
  BY PlexJob DEF Init
<1> DEFINE v0 == job.video
<1>2. v0 \in PlexVideos /\ v0.graph \in PlexGraphs
  BY <1>1 DEF PlexVideos
<1> HIDE DEF v0
<1>3. Shows(w, v0.graph, v0.graph)
  BY DEF Shows
<1>4. Has(v0.graph, {"inlineass", "inlineass_sdr"}) => Has(v0.graph, {"inlineass"})
  BY <1>2, PlexGraphIs DEF Has
<1>5. Joins(v0, v0)
  <2>1. /\ v0.map = v0.graph.out /\ v0.graph.out < v0.aud
        /\ Has(v0.graph, {"inlineass"}) => v0.ia # "none"
        /\ v0.ia = "sidecar" => v0.sink
    <3>1. v0.graph.out \in Int /\ v0.aud \in Int
      BY <1>2, PlexGraphIs DEF PlexVideos, Videos
    <3> QED
      BY <1>2, <3>1 DEF PlexVideos
  <2> QED
    BY <1>4, <2>1 DEF Joins, Connects
<1> QED
  BY <1>1, <1>3, <1>5 DEF PicInv, Early, v0

\* A phase that leaves the picture alone.
LEMMA PicKept ==
  ASSUME PicInv, Same(argv', argv), job' = job,
         \/ argv'.graph = argv.graph /\ pc' \in {"reshape"} /\ pc = "gate"
         \/ pc' \in {"device", "picture", "encoder"} /\ Early
         \/ pc' \in {"resident", "tail", "done"}
  PROVE  PicInv'
<1>1. w' = w /\ HW' = HW
  BY DEF w, HW
<1>2. Shows(w, job.video.graph, argv'.graph) /\ Joins(job.video, argv')
  BY DEF PicInv, Same, Joins, Connects
<1>3. Source(w, job.video, argv) => Source(w, job.video, argv')
  BY DEF Source, Same
<1>4. argv'.graph = argv.graph /\ argv'.ia = argv.ia
  BY DEF Same
<1> QED
  BY <1>1, <1>2, <1>3, <1>4 DEF PicInv, Early

\* A phase that draws the picture, after which it is as it is given out.
LEMMA PicDrawn ==
  ASSUME job' = job, pc' \in {"resident", "tail", "done"},
         Shows(w, job.video.graph, argv'.graph), Joins(job.video, argv')
  PROVE  PicInv'
<1>1. w' = w
  BY DEF w
<1> QED
  BY <1>1 DEF PicInv, Early

LEMMA PicBail ==
  ASSUME IInv, pc # "done", NEW why \in Reasons \ {"none"}, Bail(why)
  PROVE  PicInv'
<1> DEFINE v0 == job.video
           u  == Scrubbed(v0)
<1>1. v0 \in PlexVideos /\ v0 \in Videos /\ v0.graph \in PlexGraphs
  BY PlexJob DEF IInv, Phased
<1>2. argv' = u /\ job' = job /\ pc' = "done"
  BY DEF Bail
<1> HIDE DEF v0
<1>3. /\ u.graph = [v0.graph EXCEPT !.fonts = FALSE] /\ u.map = v0.map /\ u.aud = v0.aud
      /\ u.ia = v0.ia /\ u.sink = v0.sink
  BY <1>1 DEF Scrubbed, Videos
<1> HIDE DEF u
<1>4. u.graph.nodes = v0.graph.nodes /\ u.graph.out = v0.graph.out
  BY <1>1, <1>3 DEF PlexGraphs, Graphs
<1>5. \A names : Has(u.graph, names) <=> Has(v0.graph, names)
  BY <1>4 DEF Has
<1>6. Shows(w, v0.graph, u.graph)
  BY <1>5 DEF Shows, ToneMaps, Burns
<1>7. Has(v0.graph, {"inlineass", "inlineass_sdr"}) => Has(v0.graph, {"inlineass"})
  BY <1>1, PlexGraphIs DEF Has
<1>8. Joins(v0, u)
  <2>1. v0.graph.out \in Int /\ v0.aud \in Int
    BY <1>1, PlexGraphIs DEF Videos
  <2>2. /\ v0.map = v0.graph.out /\ v0.graph.out < v0.aud
        /\ Has(v0.graph, {"inlineass"}) => v0.ia # "none"
        /\ v0.ia = "sidecar" => v0.sink
    BY <1>1, <2>1 DEF PlexVideos
  <2> QED
    BY <1>3, <1>4, <1>5, <1>7, <2>2 DEF Joins, Connects
<1> QED
  BY <1>2, <1>6, <1>8, PicDrawn DEF v0

LEMMA PicStep == IInv /\ AxisInv /\ PicInv /\ [Next]_vars => PicInv'
<1> SUFFICES ASSUME IInv, AxisInv, PicInv, [Next]_vars PROVE PicInv'
  OBVIOUS
<1>0. /\ job \in Jobs /\ argv \in Videos /\ (pc # "scrub" => Clean(argv))
      /\ job.video \in PlexVideos /\ job.video \in Videos
  BY CleanNow, PlexJob DEF IInv, TypeOK, Phased
<1>1. CASE Scrub
  <2> DEFINE v0 == job.video
             f  == [v0.graph EXCEPT !.fonts = FALSE]
             u  == Scrubbed(v0)
             v  == [u EXCEPT !.graph = substituteOpenCLTonemap(w, @)]
  <2>1. argv' = v /\ argv = v0 /\ job' = job /\ pc' \in {"gate", "tail"}
    BY <1>1 DEF Scrub, Advance, IInv, Phased
  <2>2. u = [v0 EXCEPT !.graph = f] /\ u.graph = f
    BY <1>0 DEF Scrubbed, Videos
  <2> HIDE DEF f, u
  <2>3. v.graph = substituteOpenCLTonemap(w, f)
    BY <1>0, <2>2 DEF Videos
  <2>4. v.map = v0.map /\ v.aud = v0.aud /\ v.ia = v0.ia /\ v.sink = v0.sink
    BY <1>0, <2>2 DEF Videos
  <2>5. v.graph = Origin(w, v0)
    BY <2>3 DEF Origin, f
  <2> HIDE DEF v
  <2>6. Joins(v0, v0)
    BY <2>1 DEF PicInv
  <2>7. /\ v.graph.out = v0.graph.out /\ Shows(w, v0.graph, v.graph)
        /\ Has(v.graph, {"inlineass", "inlineass_sdr"})
             <=> Has(v0.graph, {"inlineass", "inlineass_sdr"})
    BY <1>0, <2>5, OriginIs, OriginShows
  <2>8. Joins(v0, v)
    BY <2>4, <2>6, <2>7 DEF Joins, Connects
  <2>9. w' = w
    BY <2>1 DEF w
  <2> QED
    BY <2>1, <2>4, <2>5, <2>7, <2>8, <2>9 DEF PicInv, Early, Source
<1>2. CASE Gate
  BY <1>2, PicKept DEF Gate, Advance, Same
<1>3. CASE Reshape
  <2> DEFINE v0 == job.video
  <2>1. pc = "reshape" /\ pc' = "decode" /\ job' = job
    BY <1>3 DEF Reshape, Advance
  <2>2. argv.graph = Origin(w, v0) /\ argv.ia = v0.ia /\ Joins(v0, argv) /\ Shows(w, v0.graph, argv.graph)
    BY <2>1 DEF PicInv, Early
  <2>3. w.backend \in GPUs \cup {"sw"} /\ w' = w /\ HW' = HW
    BY <1>0, <2>1, JobIs DEF w, HW
  <2>4. CASE w.backend = "sw"
    <3>1. argv' = reshapeToSoftware(argv)
      BY <1>3, <2>4 DEF Reshape
    <3>2. Shows(w, v0.graph, argv'.graph) /\ Joins(v0, argv') /\ argv'.ia = v0.ia
      BY <1>0, <2>2, <3>1, SoftwareReshapes
    <3>3. ~ HW
      BY <2>4 DEF HW, GPUs
    <3> QED
      BY <2>1, <2>3, <3>2, <3>3 DEF PicInv, Early
  <2>5. CASE w.backend # "sw"
    <3>1. argv' = reshapeForeignHWArgv(argv, w) \/ argv' = argv
      BY <1>3, <2>5 DEF Reshape
    <3>2. w.backend \in GPUs
      BY <2>3, <2>5
    <3>3. /\ Shows(w, v0.graph, argv'.graph) /\ Joins(v0, argv') /\ argv'.ia = v0.ia
          /\ Source(w, v0, argv')
      <4>1. CASE argv' = reshapeForeignHWArgv(argv, w)
        BY <1>0, <2>2, <3>2, <4>1, ForeignShows
      <4>2. CASE argv' = argv
        BY <2>2, <4>2 DEF Source
      <4> QED
        BY <3>1, <4>1, <4>2
    <3> QED
      BY <2>1, <2>3, <3>3 DEF PicInv, Early
  <2> QED
    BY <2>4, <2>5
<1>4. CASE KeepDecoder \/ UpgradeDecoder
  <2>1. pc = "decode" /\ pc' = "device" /\ job' = job
    BY <1>4 DEF KeepDecoder, UpgradeDecoder, DecoderSet, Advance
  <2>2. Same(argv', argv)
    <3>1. CASE KeepDecoder
      BY <3>1 DEF KeepDecoder, DecoderSet, Same
    <3>2. CASE UpgradeDecoder
      <4> DEFINE d == IF IsShort THEN argv.dec ELSE decoderMap(w.backend)[argv.dec]
                 v == [argv EXCEPT !.dec = d]
      <4>1. argv' = Accelerated(v, w.backend)
        BY <1>0, <3>2 DEF UpgradeDecoder, DecoderSet, Videos
      <4> HIDE DEF d
      <4> QED
        BY <1>0, <4>1 DEF Accelerated, Same, Videos
    <3> QED
      BY <1>4, <3>1, <3>2
  <2> QED
    BY <2>1, <2>2, PicKept DEF Early
<1>5. CASE SetDevice
  <2>1. pc = "device" /\ pc' \in {"picture", "encoder", "resident"} /\ job' = job
    BY <1>5 DEF SetDevice, Advance
  <2>2. argv' = [argv EXCEPT !.device = "none"] \/ argv' = DeviceFor(argv)
    BY <1>5 DEF SetDevice
  <2>3. Same(argv', argv)
    BY <1>0, <2>2 DEF DeviceFor, Same, Videos
  <2> QED
    BY <2>1, <2>3, PicKept DEF Early
<1>6. CASE MovePicture
  BY <1>6, MoveShows, PicDrawn DEF MovePicture, Advance
<1>7. CASE BurnText
  BY <1>7, TextShows, PicDrawn DEF BurnText, Advance
<1>8. CASE BurnOverlay
  BY <1>8, OverlayShows, PicDrawn DEF BurnOverlay, Advance
<1>9. CASE KeepPicture
  BY <1>9, PicKept DEF KeepPicture, Advance, Same
<1>10. CASE SettlePicture
  BY <1>10, SettleShows, PicDrawn DEF SettlePicture, Advance
<1>11. CASE FinishTransport
  <2>1. pc' = "done" /\ job' = job
    BY <1>11 DEF FinishTransport
  <2>2. argv' = argv \/ argv' = stripInlineassDecodeSink(argv)
    BY <1>11 DEF FinishTransport
  <2>3. /\ argv'.graph = argv.graph /\ argv'.map = argv.map /\ argv'.aud = argv.aud
        /\ argv'.ia = argv.ia /\ (argv.sink /\ argv.ia # "embedded" => argv'.sink)
    BY <1>0, <2>2 DEF stripInlineassDecodeSink, Videos
  <2>4. Shows(w, job.video.graph, argv.graph) /\ Joins(job.video, argv)
    BY DEF PicInv
  <2>5. Shows(w, job.video.graph, argv'.graph) /\ Joins(job.video, argv')
    BY <2>3, <2>4 DEF Joins, Connects
  <2> QED
    BY <2>1, <2>5, PicDrawn
<1>12. CASE Bails
  BY <1>12, SomeReason, PicBail
<1>13. CASE UNCHANGED vars
  <2>1. argv' = argv /\ job' = job /\ pc' = pc
    BY <1>13 DEF vars
  <2>2. w' = w /\ HW' = HW /\ Early' = Early
    BY <2>1 DEF w, HW, Early
  <2> QED
    BY <2>1, <2>2 DEF PicInv
<1> QED
  BY <1>1, <1>2, <1>3, <1>4, <1>5, <1>6, <1>7, <1>8, <1>9, <1>10, <1>11, <1>12, <1>13 DEF Next

LEMMA PicInvariant == Spec => [](IInv /\ PicInv)
<1>1. Init => IInv /\ AxisInv /\ PicInv
  BY InvInit, AxisInit, PicInit
<1>2. (IInv /\ AxisInv /\ PicInv) /\ [Next]_vars => (IInv /\ AxisInv /\ PicInv)'
  BY InvStep, AxisStep, PicStep
<1> QED
  BY <1>1, <1>2, PTL DEF Spec

\* Whatever Plex's argv asks of the picture is there when the rewriter is done:
\* tones are mapped (but for the overlays of rewriter.go:1095), a subtitle is
\* burned and a seek cuts, each exactly when Plex's graph did, on any worker and
\* in any environment; and an argv that is given up is Plex's whole
\* (rewriter.go:2204-3522).
THEOREM PictureAlwaysKept == Spec => []PictureKept
<1>1. IInv /\ PicInv => PictureKept
  <2> SUFFICES ASSUME IInv, PicInv PROVE PictureKept
    OBVIOUS
  <2>1. ForgottenOverlay <=> Forgotten(w, job.video.graph)
    BY DEF ForgottenOverlay, Forgotten
  <2>2. Shows(w, job.video.graph, argv.graph)
    BY DEF PicInv
  <2>3. reason # "none" => pc = "done" /\ argv = Scrubbed(job.video)
    BY DEF IInv, Phased
  <2>4. TypeOK
    BY DEF IInv
  <2> QED
    BY <2>1, <2>2, <2>3, <2>4 DEF PictureKept, Shows
<1> QED
  BY <1>1, PicInvariant, PTL

\* The output takes the label the graph ends in, which the sound never has; what
\* is burned has its stream, and a sidecar's its sink (rewriter.go:907-926,
\* 1548-1591).
THEOREM GraphAlwaysConnected == Spec => []GraphConnected
<1>1. IInv /\ PicInv => GraphConnected
  <2> SUFFICES ASSUME IInv, PicInv PROVE GraphConnected
    OBVIOUS
  <2>1. Joins(job.video, argv)
    BY DEF PicInv
  <2>2. argv.graph.out \in Int /\ argv.aud \in Int
    BY DEF IInv, TypeOK, Videos, Graphs
  <2> QED
    BY <2>1, <2>2 DEF GraphConnected, Joins, Connects
<1> QED
  BY <1>1, PicInvariant, PTL

-----------------------------------------------------------------------------
(***************************************************************************)
(* Sequences of filters: the memory their frames pass through, and the     *)
(* depth they end with.  Induction is over sets of numbers: the least that *)
(* is not in one.                                                          *)
(***************************************************************************)
LEMMA Least ==
  ASSUME NEW T \in SUBSET Nat, T # {}
  PROVE  \E n \in T : \A m \in T : n <= m
<1> DEFINE R == OpToRel(<, Nat)
<1>1. IsWellFoundedOn(R, Nat)
  BY NatLessThanWellFounded
<1>2. \A x, y \in Nat : x < y => <<x, y>> \in R
  BY DEF OpToRel
<1> HIDE DEF R
<1>3. PICK n \in T : \A m \in T : ~ (<<m, n>> \in R)
  BY <1>1, WFMin
<1>4. ASSUME NEW m \in T PROVE n <= m
  <2>1. m \in Nat /\ n \in Nat
    OBVIOUS
  <2>2. ~ (m < n)
    BY <1>2, <1>3, <2>1
  <2> QED
    BY <2>1, <2>2
<1> QED
  BY <1>3, <1>4

LEMMA AllNumbers ==
  ASSUME NEW T \in SUBSET Nat, 0 \in T, \A n \in T : n + 1 \in T
  PROVE  T = Nat
<1> SUFFICES ASSUME Nat \ T # {} PROVE FALSE
  OBVIOUS
<1>1. PICK n \in Nat \ T : \A m \in Nat \ T : n <= m
  BY Least
<1>2. n - 1 \in Nat \/ n = 0
  OBVIOUS
<1>3. n - 1 \in Nat => n - 1 \in T /\ n - 1 + 1 = n
  BY <1>1
<1> QED
  BY <1>1, <1>2, <1>3

LEMMA JoinedLength ==
  ASSUME NEW a \in Seq(Filters), NEW b \in Seq(Filters)
  PROVE  /\ a \o b \in Seq(Filters)
         /\ Len(a \o b) = Len(a) + Len(b)
OBVIOUS

\* A sequence and its parts.
LEMMA Parts ==
  ASSUME NEW s \in Seq(Filters), NEW n \in 0..Len(s)
  PROVE  /\ SubSeq(s, 1, n) \in Seq(Filters) /\ SubSeq(s, n + 1, Len(s)) \in Seq(Filters)
         /\ s = SubSeq(s, 1, n) \o SubSeq(s, n + 1, Len(s))
<1> DEFINE a == SubSeq(s, 1, n)
           b == SubSeq(s, n + 1, Len(s))
<1>0. Len(s) \in Nat /\ n \in Nat /\ n <= Len(s)
  OBVIOUS
<1>1. a \in Seq(Filters) /\ Len(a) = n /\ \A j \in 1..n : a[j] = s[j]
  BY <1>0
<1>2. b \in Seq(Filters)
  BY <1>0
<1>3. Len(b) = Len(s) - n
  BY <1>0
<1>4. \A j \in 1..(Len(s) - n) : b[j] = s[j + n]
  BY <1>0
<1> HIDE DEF a, b
<1> DEFINE r == a \o b
<1>10. a \in Seq(Filters) /\ b \in Seq(Filters)
  BY <1>1, <1>2
<1>5. r \in Seq(Filters) /\ Len(r) = Len(a) + Len(b)
  BY <1>10, JoinedLength
<1>6. Len(r) = Len(s)
  BY <1>0, <1>1, <1>3, <1>5
<1>7. \A j \in 1..Len(s) : r[j] = IF j <= n THEN a[j] ELSE b[j - n]
  BY <1>0, <1>1, <1>2, <1>3
<1> HIDE DEF r
<1>8. ASSUME NEW j \in 1..Len(s) PROVE r[j] = s[j]
  <2>1. CASE j <= n
    BY <2>1, <1>0, <1>1, <1>7
  <2>2. CASE j > n
    <3>1. j - n \in 1..(Len(s) - n) /\ (j - n) + n = j
      BY <2>2, <1>0
    <3> QED
      BY <2>2, <3>1, <1>0, <1>4, <1>7
  <2> QED
    BY <1>0, <2>1, <2>2
<1>9. r = s
  BY <1>5, <1>6, <1>8
<1> QED
  BY <1>1, <1>2, <1>9 DEF r, a, b

\* f is where the frames of s are after each of its filters, from m.
Path(s, m, d, f) ==
  /\ f = [i \in 0..Len(s) |-> f[i]]
  /\ f[0] = m
  /\ \A i \in 1..Len(s) : f[i] = After(s[i].f, f[i - 1], d)

LEMMA PathUnique ==
  ASSUME NEW s \in Seq(Filters), NEW m, NEW d, NEW f, NEW g, Path(s, m, d, f), Path(s, m, d, g)
  PROVE  f = g
<1> DEFINE T == {n \in Nat : n <= Len(s) => f[n] = g[n]}
<1>0. Len(s) \in Nat
  OBVIOUS
<1>1. 0 \in T
  BY DEF Path
<1>2. ASSUME NEW n \in T PROVE n + 1 \in T
  <2>1. n \in Nat /\ n + 1 \in Nat /\ (n + 1) - 1 = n
    OBVIOUS
  <2>2. ASSUME n + 1 <= Len(s) PROVE f[n + 1] = g[n + 1]
    <3>1. n + 1 \in 1..Len(s) /\ f[n] = g[n]
      BY <1>0, <2>1, <2>2
    <3> QED
      BY <2>1, <3>1 DEF Path
  <2> QED
    BY <2>1, <2>2
<1>3. T = Nat
  <2>1. T \in SUBSET Nat
    OBVIOUS
  <2> HIDE DEF T
  <2> QED
    BY <1>1, <1>2, <2>1, AllNumbers
<1>4. \A n \in 0..Len(s) : f[n] = g[n]
  BY <1>0, <1>3
<1>5. [i \in 0..Len(s) |-> f[i]] = [i \in 0..Len(s) |-> g[i]]
  BY <1>4
<1> QED
  BY <1>5 DEF Path

LEMMA PathExists ==
  ASSUME NEW s \in Seq(Filters), NEW m, NEW d
  PROVE  \E f : Path(s, m, d, f)
<1> DEFINE Upto(n, f) == /\ f = [i \in 0..n |-> f[i]]
                         /\ f[0] = m
                         /\ \A i \in 1..n : f[i] = After(s[i].f, f[i - 1], d)
           T == {n \in Nat : \E f : Upto(n, f)}
<1>1. 0 \in T
  <2> DEFINE f == [i \in 0..0 |-> m]
  <2>1. f = [i \in 0..0 |-> f[i]] /\ f[0] = m /\ 1..0 = {}
    OBVIOUS
  <2> HIDE DEF f
  <2>2. Upto(0, f)
    BY <2>1
  <2> QED
    BY <2>2
<1>2. ASSUME NEW n \in T PROVE n + 1 \in T
  <2>1. n \in Nat /\ n + 1 \in Nat
    OBVIOUS
  <2>2. PICK f : Upto(n, f)
    OBVIOUS
  <2> DEFINE g == [i \in 0..(n + 1) |-> IF i <= n THEN f[i] ELSE After(s[n + 1].f, f[n], d)]
  <2>3. g = [i \in 0..(n + 1) |-> g[i]]
    OBVIOUS
  <2>4. \A i \in 0..n : g[i] = f[i]
    BY <2>1
  <2>5. g[n + 1] = After(s[n + 1].f, f[n], d)
    BY <2>1
  <2> HIDE DEF g
  <2>6. g[0] = m
    BY <2>1, <2>2, <2>4
  <2>7. ASSUME NEW i \in 1..(n + 1) PROVE g[i] = After(s[i].f, g[i - 1], d)
    <3>1. CASE i = n + 1
      <4>1. i - 1 = n /\ n \in 0..n
        BY <2>1, <3>1
      <4> QED
        BY <3>1, <4>1, <2>4, <2>5
    <3>2. CASE i <= n
      <4>1. i \in 1..n /\ i \in 0..n /\ i - 1 \in 0..n
        BY <2>1, <3>2
      <4> QED
        BY <4>1, <2>2, <2>4
    <3> QED
      BY <2>1, <3>1, <3>2
  <2>8. Upto(n + 1, g)
    BY <2>3, <2>6, <2>7
  <2> QED
    BY <2>1, <2>8
<1>3. T = Nat
  <2>1. T \in SUBSET Nat
    OBVIOUS
  <2> HIDE DEF T
  <2> QED
    BY <1>1, <1>2, <2>1, AllNumbers
<1>4. \E f : Upto(Len(s), f)
  <2>1. Len(s) \in T
    BY <1>3
  <2> QED
    BY <2>1
<1> QED
  BY <1>4 DEF Path

\* The memory at the end is the one the path ends in.
LEMMA MemoryPath ==
  ASSUME NEW s \in Seq(Filters), NEW m, NEW d, NEW f, Path(s, m, d, f)
  PROVE  Memory(s, m, d) = f[Len(s)]
<1> DEFINE at == CHOOSE g : g = [i \in 0..Len(s) |-> IF i = 0 THEN m ELSE After(s[i].f, g[i - 1], d)]
<1>0. Len(s) \in Nat
  OBVIOUS
<1>1. f = [i \in 0..Len(s) |-> IF i = 0 THEN m ELSE After(s[i].f, f[i - 1], d)]
  <2>1. \A i \in 0..Len(s) : f[i] = IF i = 0 THEN m ELSE After(s[i].f, f[i - 1], d)
    BY <1>0 DEF Path
  <2>2. f = [i \in 0..Len(s) |-> f[i]]
    BY DEF Path
  <2> QED
    BY <2>1, <2>2
<1>2. at = [i \in 0..Len(s) |-> IF i = 0 THEN m ELSE After(s[i].f, at[i - 1], d)]
  BY <1>1
<1>3. Memory(s, m, d) = at[Len(s)]
  BY DEF Memory
<1> HIDE DEF at
<1>4. Path(s, m, d, at)
  <2>1. \A i \in 0..Len(s) : at[i] = IF i = 0 THEN m ELSE After(s[i].f, at[i - 1], d)
    BY <1>2
  <2>2. at = [i \in 0..Len(s) |-> at[i]]
    BY <1>2
  <2> QED
    BY <1>0, <2>1, <2>2 DEF Path
<1> QED
  BY <1>3, <1>4, PathUnique

LEMMA MemoryNone == ASSUME NEW m, NEW d PROVE Memory(<< >>, m, d) = m
<1>1. << >> \in Seq(Filters) /\ Len(<< >>) = 0
  OBVIOUS
<1>2. PICK f : Path(<< >>, m, d, f)
  BY <1>1, PathExists
<1> QED
  BY <1>1, <1>2, MemoryPath DEF Path

LEMMA MemoryOne ==
  ASSUME NEW n \in Filters, NEW m, NEW d
  PROVE  Memory(<< n >>, m, d) = After(n.f, m, d)
<1>1. << n >> \in Seq(Filters) /\ Len(<< n >>) = 1 /\ << n >>[1] = n
  OBVIOUS
<1>2. PICK f : Path(<< n >>, m, d, f)
  BY <1>1, PathExists
<1>3. f[1] = After(n.f, f[1 - 1], d) /\ f[0] = m
  <2>1. 1 \in 1..1
    OBVIOUS
  <2> QED
    BY <1>1, <1>2, <2>1 DEF Path
<1>4. 1 - 1 = 0
  OBVIOUS
<1>5. Memory(<< n >>, m, d) = f[1]
  <2>1. Memory(<< n >>, m, d) = f[Len(<< n >>)]
    BY <1>1, <1>2, MemoryPath
  <2> QED
    BY <1>1, <2>1
<1> QED
  BY <1>3, <1>4, <1>5

\* Frames go on from where the first filters leave them.
LEMMA MemoryJoined ==
  ASSUME NEW s \in Seq(Filters), NEW t \in Seq(Filters), NEW m, NEW d
  PROVE  Memory(s \o t, m, d) = Memory(t, Memory(s, m, d), d)
<1> DEFINE r == s \o t
<1>1. /\ r \in Seq(Filters) /\ Len(s) \in Nat /\ Len(t) \in Nat /\ Len(r) = Len(s) + Len(t)
  OBVIOUS
<1>2. \A i \in 1..Len(r) : r[i] = IF i <= Len(s) THEN s[i] ELSE t[i - Len(s)]
  OBVIOUS
<1> HIDE DEF r
<1>3. PICK f : Path(s, m, d, f)
  BY PathExists
<1>4. Memory(s, m, d) = f[Len(s)]
  BY <1>3, MemoryPath
<1>5. PICK g : Path(t, f[Len(s)], d, g)
  BY PathExists
<1>6. Memory(t, f[Len(s)], d) = g[Len(t)]
  BY <1>5, MemoryPath
<1> DEFINE h == [i \in 0..Len(r) |-> IF i <= Len(s) THEN f[i] ELSE g[i - Len(s)]]
<1>7. h = [i \in 0..Len(r) |-> h[i]]
  OBVIOUS
<1>8. \A i \in 0..Len(r) : h[i] = IF i <= Len(s) THEN f[i] ELSE g[i - Len(s)]
  OBVIOUS
<1> HIDE DEF h
<1>9. g[0] = f[Len(s)]
  BY <1>5 DEF Path
<1>10. h[0] = m
  BY <1>1, <1>3, <1>8 DEF Path
<1>11. ASSUME NEW i \in 1..Len(r) PROVE h[i] = After(r[i].f, h[i - 1], d)
  <2>1. i \in 0..Len(r) /\ i - 1 \in 0..Len(r)
    BY <1>1
  <2>2. CASE i <= Len(s)
    <3>1. i \in 1..Len(s) /\ i - 1 <= Len(s)
      BY <2>2, <1>1
    <3>2. h[i] = f[i] /\ h[i - 1] = f[i - 1] /\ r[i] = s[i]
      BY <2>1, <2>2, <3>1, <1>2, <1>8
    <3> QED
      BY <3>1, <3>2, <1>3 DEF Path
  <2>3. CASE i > Len(s)
    <3> DEFINE j == i - Len(s)
    <3>1. j \in 1..Len(t) /\ (i - 1) - Len(s) = j - 1 /\ ~ (i <= Len(s))
      BY <2>3, <1>1
    <3>2. h[i] = g[j] /\ r[i] = t[j]
      BY <2>1, <3>1, <1>2, <1>8
    <3>3. h[i - 1] = g[j - 1]
      <4>1. CASE i - 1 <= Len(s)
        <5>1. i - 1 = Len(s) /\ j - 1 = 0
          BY <4>1, <2>3, <1>1
        <5> QED
          BY <5>1, <2>1, <1>8, <1>9, <4>1
      <4>2. CASE ~ (i - 1 <= Len(s))
        BY <4>2, <2>1, <3>1, <1>8
      <4> QED
        BY <4>1, <4>2
    <3> HIDE DEF j
    <3> QED
      BY <3>1, <3>2, <3>3, <1>5 DEF Path
  <2> QED
    BY <1>1, <2>2, <2>3
<1>12. Path(r, m, d, h)
  BY <1>7, <1>10, <1>11 DEF Path
<1>13. h[Len(r)] = g[Len(t)]
  <2>1. CASE Len(t) = 0
    BY <2>1, <1>1, <1>8, <1>9
  <2>2. CASE Len(t) # 0
    <3>1. Len(r) \in 0..Len(r) /\ ~ (Len(r) <= Len(s)) /\ Len(r) - Len(s) = Len(t)
      BY <2>2, <1>1
    <3> QED
      BY <3>1, <1>8
  <2> QED
    BY <2>1, <2>2
<1>14. Memory(r, m, d) = h[Len(r)]
  BY <1>1, <1>12, MemoryPath
<1> QED
  BY <1>4, <1>6, <1>13, <1>14 DEF r

\* Frames that no filter moves stay where they are.
LEMMA MemoryStays ==
  ASSUME NEW s \in Seq(Filters), NEW m, NEW d, \A i \in 1..Len(s) : After(s[i].f, m, d) = m
  PROVE  Memory(s, m, d) = m
<1> DEFINE f == [i \in 0..Len(s) |-> m]
<1>0. Len(s) \in Nat
  OBVIOUS
<1>1. f = [i \in 0..Len(s) |-> f[i]] /\ \A i \in 0..Len(s) : f[i] = m
  OBVIOUS
<1> HIDE DEF f
<1>2. ASSUME NEW i \in 1..Len(s) PROVE f[i] = After(s[i].f, f[i - 1], d)
  <2>1. i \in 0..Len(s) /\ i - 1 \in 0..Len(s)
    BY <1>0
  <2> QED
    BY <2>1, <1>1
<1>3. Path(s, m, d, f)
  BY <1>0, <1>1, <1>2 DEF Path
<1> QED
  BY <1>0, <1>1, <1>3, MemoryPath

\* What is lost stays lost.
LEMMA LostIsLost ==
  ASSUME NEW s \in Seq(Filters), NEW d \in {"vaapi", "cuda"}
  PROVE  Memory(s, "lost", d) = "lost"
<1>1. ASSUME NEW f PROVE After(f, "lost", d) = "lost"
  <2>1. CASE f \in DeviceFilters
    BY <2>1 DEF After, DeviceFilters
  <2>2. CASE f \in AnyMemory
    BY <2>2 DEF After, AnyMemory
  <2>3. CASE f \notin DeviceFilters \cup AnyMemory
    BY <2>3 DEF After, DeviceFilters
  <2> QED
    BY <2>1, <2>2, <2>3
<1> QED
  BY <1>1, MemoryStays

\* Frames in main memory stay there.
LEMMA MainStaysMain ==
  ASSUME NEW s \in Seq(Filters), NEW d, \A i \in DOMAIN s : s[i].f \notin DeviceFilters
  PROVE  Memory(s, "cpu", d) = "cpu"
<1>1. ASSUME NEW i \in 1..Len(s) PROVE After(s[i].f, "cpu", d) = "cpu"
  <2>1. s[i].f \notin DeviceFilters
    OBVIOUS
  <2> QED
    BY <2>1 DEF After, DeviceFilters, AnyMemory
<1> QED
  BY <1>1, MemoryStays

LEMMA NodesJoined ==
  ASSUME NEW s \in Seq(Filters), NEW t \in Seq(Filters)
  PROVE  ToSet(s \o t) = ToSet(s) \cup ToSet(t)
<1> DEFINE r == s \o t
<1>1. /\ DOMAIN s = 1..Len(s) /\ DOMAIN t = 1..Len(t) /\ DOMAIN r = 1..(Len(s) + Len(t))
      /\ Len(s) \in Nat /\ Len(t) \in Nat
  OBVIOUS
<1>2. \A i \in DOMAIN r : r[i] = IF i <= Len(s) THEN s[i] ELSE t[i - Len(s)]
  OBVIOUS
<1> HIDE DEF r
<1>3. ASSUME NEW i \in DOMAIN r PROVE r[i] \in ToSet(s) \cup ToSet(t)
  <2>1. CASE i <= Len(s)
    BY <2>1, <1>1, <1>2 DEF ToSet
  <2>2. CASE i > Len(s)
    <3>1. i - Len(s) \in DOMAIN t /\ r[i] = t[i - Len(s)]
      BY <2>2, <1>1, <1>2
    <3> QED
      BY <3>1 DEF ToSet
  <2> QED
    BY <1>1, <2>1, <2>2
<1>4. ASSUME NEW i \in DOMAIN s PROVE s[i] \in ToSet(r)
  <2>1. i \in DOMAIN r /\ r[i] = s[i]
    BY <1>1, <1>2
  <2> QED
    BY <2>1 DEF ToSet
<1>5. ASSUME NEW i \in DOMAIN t PROVE t[i] \in ToSet(r)
  <2>1. i + Len(s) \in DOMAIN r /\ ~ (i + Len(s) <= Len(s)) /\ (i + Len(s)) - Len(s) = i
    BY <1>1
  <2>2. r[i + Len(s)] = t[i]
    BY <2>1, <1>2
  <2> QED
    BY <2>1, <2>2 DEF ToSet
<1>6. ToSet(r) \subseteq ToSet(s) \cup ToSet(t)
  BY <1>3 DEF ToSet
<1>7. ToSet(s) \subseteq ToSet(r) /\ ToSet(t) \subseteq ToSet(r)
  BY <1>4, <1>5 DEF ToSet
<1> QED
  BY <1>6, <1>7 DEF r

\* What is around the filters b, which are n of s from the i-th on.
LEMMA Around ==
  ASSUME NEW s \in Seq(Filters), NEW i \in 1..Len(s), NEW b \in Seq(Filters),
         i + Len(b) - 1 <= Len(s), \A j \in 1..Len(b) : b[j] = s[i + j - 1]
  PROVE  /\ SubSeq(s, 1, i - 1) \in Seq(Filters)
         /\ SubSeq(s, i + Len(b), Len(s)) \in Seq(Filters)
         /\ s = (SubSeq(s, 1, i - 1) \o b) \o SubSeq(s, i + Len(b), Len(s))
<1> DEFINE n == Len(b)
           t == SubSeq(s, i, Len(s))
           c == SubSeq(s, i + n, Len(s))
<1>0. Len(s) \in Nat /\ n \in Nat /\ i \in Nat /\ i - 1 \in 0..Len(s) /\ (i - 1) + 1 = i
  OBVIOUS
<1>1. /\ SubSeq(s, 1, i - 1) \in Seq(Filters) /\ t \in Seq(Filters)
      /\ s = SubSeq(s, 1, i - 1) \o t
  BY <1>0, Parts
<1>2. c \in Seq(Filters)
  BY <1>0
<1>3. Len(t) = Len(s) - i + 1
  BY <1>0
<1>4. \A j \in 1..Len(t) : t[j] = s[i + j - 1]
  BY <1>0, <1>3
<1>5. Len(c) = Len(s) - i - n + 1
  BY <1>0
<1>6. \A j \in 1..Len(c) : c[j] = s[i + n + j - 1]
  BY <1>0, <1>5
<1> HIDE DEF t, c
<1> DEFINE r == b \o c
<1>7. r \in Seq(Filters) /\ Len(r) = n + Len(c)
  BY <1>2
<1>8. \A j \in 1..(n + Len(c)) : r[j] = IF j <= n THEN b[j] ELSE c[j - n]
  BY <1>2
<1> HIDE DEF r
<1>9. Len(r) = Len(t)
  BY <1>0, <1>3, <1>5, <1>7
<1>10. ASSUME NEW j \in 1..Len(t) PROVE r[j] = t[j]
  <2>0. j \in 1..(n + Len(c))
    BY <1>7, <1>9
  <2>1. CASE j <= n
    <3>1. j \in 1..n
      BY <2>1
    <3>2. r[j] = b[j] /\ b[j] = s[i + j - 1]
      BY <2>0, <2>1, <3>1, <1>8
    <3> QED
      BY <3>2, <1>4
  <2>2. CASE j > n
    <3>1. j - n \in 1..Len(c) /\ i + n + (j - n) - 1 = i + j - 1
      BY <2>0, <2>2, <1>0, <1>2
    <3>2. r[j] = c[j - n]
      BY <2>0, <2>2, <1>0, <1>8
    <3>3. c[j - n] = s[i + j - 1]
      BY <3>1, <1>6
    <3> QED
      BY <3>2, <3>3, <1>4
  <2> QED
    BY <1>0, <2>1, <2>2
<1>11. r = t
  BY <1>1, <1>7, <1>9, <1>10
<1> DEFINE a == SubSeq(s, 1, i - 1)
<1>12. s = a \o (b \o c)
  BY <1>1, <1>11 DEF r
<1>13. a \in Seq(Filters)
  BY <1>1
<1> HIDE DEF a, n
<1>14. a \o (b \o c) = (a \o b) \o c
  BY <1>2, <1>13
<1> QED
  BY <1>2, <1>12, <1>13, <1>14 DEF a, c, n

LEMMA MemoryAround ==
  ASSUME NEW a \in Seq(Filters), NEW b \in Seq(Filters), NEW c \in Seq(Filters), NEW m, NEW d
  PROVE  Memory((a \o b) \o c, m, d) = Memory(c, Memory(b, Memory(a, m, d), d), d)
<1> DEFINE e == a \o b
<1>1. e \in Seq(Filters)
  OBVIOUS
<1>2. Memory(e, m, d) = Memory(b, Memory(a, m, d), d)
  BY MemoryJoined
<1> HIDE DEF e
<1>3. Memory(e \o c, m, d) = Memory(c, Memory(e, m, d), d)
  BY <1>1, MemoryJoined
<1> QED
  BY <1>2, <1>3 DEF e

LEMMA MemoryTwo ==
  ASSUME NEW x \in Filters, NEW y \in Filters, NEW m, NEW d
  PROVE  Memory(<< x, y >>, m, d) = After(y.f, After(x.f, m, d), d)
<1> DEFINE a == << x >>
           b == << y >>
<1>1. a \in Seq(Filters) /\ b \in Seq(Filters)
  OBVIOUS
<1>4. << x, y >> = a \o b
  <2> DEFINE r == a \o b
             t == << x, y >>
  <2>1. r \in Seq(Filters) /\ Len(r) = 2 /\ r[1] = x /\ r[2] = y
    OBVIOUS
  <2>2. t \in Seq(Filters) /\ Len(t) = 2 /\ t[1] = x /\ t[2] = y
    OBVIOUS
  <2> HIDE DEF r, t
  <2>3. \A i \in 1..2 : r[i] = t[i]
    BY <2>1, <2>2
  <2>4. r = t
    BY <2>1, <2>2, <2>3
  <2> QED
    BY <2>4 DEF r, t
<1>2. \A at : Memory(a, at, d) = After(x.f, at, d) /\ Memory(b, at, d) = After(y.f, at, d)
  BY MemoryOne
<1> HIDE DEF a, b
<1>3. Memory(a \o b, m, d) = Memory(b, Memory(a, m, d), d)
  BY <1>1, MemoryJoined
<1> QED
  BY <1>2, <1>3, <1>4

LEMMA MemoryThree ==
  ASSUME NEW x \in Filters, NEW y \in Filters, NEW z \in Filters, NEW m, NEW d
  PROVE  Memory(<< x, y, z >>, m, d) = After(z.f, After(y.f, After(x.f, m, d), d), d)
<1> DEFINE a == << x, y >>
           b == << z >>
<1>1. a \in Seq(Filters) /\ b \in Seq(Filters) /\ << x, y, z >> = a \o b
  OBVIOUS
<1>2. /\ Memory(a, m, d) = After(y.f, After(x.f, m, d), d)
      /\ \A at : Memory(b, at, d) = After(z.f, at, d)
  BY MemoryOne, MemoryTwo
<1> HIDE DEF a, b
<1>3. Memory(a \o b, m, d) = Memory(b, Memory(a, m, d), d)
  BY <1>1, MemoryJoined
<1> QED
  BY <1>1, <1>2, <1>3

\* The filters of a GPU, one by one.
LEMMA AfterIs ==
  ASSUME NEW m, NEW d
  PROVE  /\ \A f \in {"scale_vaapi", "tonemap_vaapi", "inlineass_sdr", "inlineass_tonemap"} :
              After(f, m, d) = IF m = "vaapi" THEN "vaapi" ELSE "lost"
         /\ \A f \in {"scale_cuda", "tonemap_cuda"} : After(f, m, d) = IF m = "cuda" THEN "cuda" ELSE "lost"
         /\ After("hwupload", m, d) = IF m \in {"cpu", d} THEN d ELSE "lost"
         /\ After("hwdownload", m, d) = IF m \in {"vaapi", "cuda", "opencl"} THEN "cpu" ELSE "lost"
         /\ After("hwmap_opencl", m, d) = IF m = "vaapi" THEN "opencl" ELSE "lost"
         /\ After("tonemap_opencl", m, d) = IF m = "opencl" THEN "opencl" ELSE "lost"
         /\ After("hwmap_back", m, d) = IF m = "opencl" THEN "vaapi" ELSE "lost"
         /\ After("inlineass", m, d) = m /\ After("select", m, d) = m
<1>1. \A f \in {"scale_vaapi", "tonemap_vaapi", "inlineass_sdr", "inlineass_tonemap"} :
        After(f, m, d) = IF m = "vaapi" THEN "vaapi" ELSE "lost"
  BY DEF After, AnyMemory, DeviceFilters
<1>2. \A f \in {"scale_cuda", "tonemap_cuda"} : After(f, m, d) = IF m = "cuda" THEN "cuda" ELSE "lost"
  BY DEF After, AnyMemory, DeviceFilters
<1>3. After("hwupload", m, d) = IF m \in {"cpu", d} THEN d ELSE "lost"
  BY DEF After, AnyMemory, DeviceFilters
<1>4. After("hwdownload", m, d) = IF m \in {"vaapi", "cuda", "opencl"} THEN "cpu" ELSE "lost"
  BY DEF After, AnyMemory, DeviceFilters
<1>5. /\ After("hwmap_opencl", m, d) = IF m = "vaapi" THEN "opencl" ELSE "lost"
      /\ After("tonemap_opencl", m, d) = IF m = "opencl" THEN "opencl" ELSE "lost"
      /\ After("hwmap_back", m, d) = IF m = "opencl" THEN "vaapi" ELSE "lost"
  BY DEF After, AnyMemory, DeviceFilters
<1>6. After("inlineass", m, d) = m /\ After("select", m, d) = m
  BY DEF After, AnyMemory, DeviceFilters
<1> QED
  BY <1>1, <1>2, <1>3, <1>4, <1>5, <1>6

-----------------------------------------------------------------------------
\* The depth a graph ends with.

TenIn(s) ==
  \E i \in DOMAIN s :
    s[i].pix = "p010" /\ \A j \in (i + 1)..Len(s) : s[j].pix \notin DepthNames
Silent(s) == \A n \in ToSet(s) : n.pix \notin DepthNames

LEMMA TenJoined ==
  ASSUME NEW s \in Seq(Filters), NEW t \in Seq(Filters)
  PROVE  TenIn(s \o t) <=> TenIn(t) \/ (TenIn(s) /\ Silent(t))
<1> DEFINE r == s \o t
<1>1. /\ DOMAIN s = 1..Len(s) /\ DOMAIN t = 1..Len(t) /\ DOMAIN r = 1..Len(r)
      /\ Len(s) \in Nat /\ Len(t) \in Nat /\ Len(r) = Len(s) + Len(t)
  OBVIOUS
<1>2. \A i \in 1..Len(s) : r[i] = s[i]
  OBVIOUS
<1>3. \A i \in 1..Len(t) : r[Len(s) + i] = t[i]
  OBVIOUS
<1> HIDE DEF r
<1>4. \A i \in DOMAIN r : i > Len(s) => i - Len(s) \in 1..Len(t) /\ r[i] = t[i - Len(s)]
  <2> SUFFICES ASSUME NEW i \in DOMAIN r, i > Len(s)
               PROVE  i - Len(s) \in 1..Len(t) /\ r[i] = t[i - Len(s)]
    OBVIOUS
  <2>1. i - Len(s) \in 1..Len(t) /\ Len(s) + (i - Len(s)) = i
    BY <1>1
  <2> QED
    BY <2>1, <1>3
<1>5. ASSUME TenIn(t) PROVE TenIn(r)
  <2>1. PICK i \in DOMAIN t : t[i].pix = "p010" /\ \A j \in (i + 1)..Len(t) : t[j].pix \notin DepthNames
    BY <1>5 DEF TenIn
  <2>2. Len(s) + i \in DOMAIN r /\ r[Len(s) + i].pix = "p010"
    BY <1>1, <1>3, <2>1
  <2>3. ASSUME NEW j \in (Len(s) + i + 1)..Len(r) PROVE r[j].pix \notin DepthNames
    <3>1. j \in DOMAIN r /\ j > Len(s) /\ j - Len(s) \in (i + 1)..Len(t)
      BY <1>1
    <3> QED
      BY <3>1, <1>4, <2>1
  <2> QED
    BY <2>2, <2>3 DEF TenIn
<1>6. ASSUME TenIn(s), Silent(t) PROVE TenIn(r)
  <2>1. PICK i \in DOMAIN s : s[i].pix = "p010" /\ \A j \in (i + 1)..Len(s) : s[j].pix \notin DepthNames
    BY <1>6 DEF TenIn
  <2>2. i \in DOMAIN r /\ r[i].pix = "p010"
    BY <1>1, <1>2, <2>1
  <2>3. ASSUME NEW j \in (i + 1)..Len(r) PROVE r[j].pix \notin DepthNames
    <3>1. CASE j <= Len(s)
      <4>1. j \in (i + 1)..Len(s) /\ j \in 1..Len(s)
        BY <3>1, <1>1
      <4> QED
        BY <4>1, <1>2, <2>1
    <3>2. CASE j > Len(s)
      <4>1. j \in DOMAIN r
        BY <1>1
      <4>2. j - Len(s) \in DOMAIN t /\ r[j] = t[j - Len(s)]
        BY <3>2, <4>1, <1>1, <1>4
      <4> QED
        BY <4>2, <1>6 DEF Silent, ToSet
    <3> QED
      BY <1>1, <3>1, <3>2
  <2> QED
    BY <2>2, <2>3 DEF TenIn
<1>7. ASSUME TenIn(r) PROVE TenIn(t) \/ (TenIn(s) /\ Silent(t))
  <2>1. PICK i \in DOMAIN r : r[i].pix = "p010" /\ \A j \in (i + 1)..Len(r) : r[j].pix \notin DepthNames
    BY <1>7 DEF TenIn
  <2>2. CASE i <= Len(s)
    <3>1. i \in DOMAIN s /\ s[i].pix = "p010"
      BY <2>1, <2>2, <1>1, <1>2
    <3>2. \A j \in (i + 1)..Len(s) : s[j].pix \notin DepthNames
      BY <2>1, <3>1, <1>1, <1>2
    <3>3. ASSUME NEW j \in DOMAIN t PROVE t[j].pix \notin DepthNames
      <4>1. Len(s) + j \in (i + 1)..Len(r) /\ r[Len(s) + j] = t[j]
        BY <2>2, <3>1, <1>1, <1>3
      <4> QED
        BY <4>1, <2>1
    <3> QED
      BY <3>1, <3>2, <3>3 DEF TenIn, Silent, ToSet
  <2>3. CASE i > Len(s)
    <3> DEFINE k == i - Len(s)
    <3>1. k \in DOMAIN t /\ t[k].pix = "p010"
      BY <2>1, <2>3, <1>1, <1>4
    <3>2. ASSUME NEW j \in (k + 1)..Len(t) PROVE t[j].pix \notin DepthNames
      <4>1. Len(s) + j \in (i + 1)..Len(r) /\ j \in 1..Len(t)
        BY <2>3, <1>1
      <4> QED
        BY <4>1, <2>1, <1>3
    <3> HIDE DEF k
    <3> QED
      BY <3>1, <3>2 DEF TenIn
  <2> QED
    BY <1>1, <2>2, <2>3
<1> QED
  BY <1>5, <1>6, <1>7 DEF r

LEMMA TenOne ==
  ASSUME NEW n \in Filters
  PROVE  TenIn(<< n >>) <=> n.pix = "p010"
<1>1. DOMAIN << n >> = {1} /\ Len(<< n >>) = 1 /\ << n >>[1] = n /\ (1 + 1)..1 = {}
  OBVIOUS
<1> QED
  BY <1>1 DEF TenIn

LEMMA ToSetOne == ASSUME NEW n PROVE ToSet(<< n >>) = {n}
BY DEF ToSet

LEMMA ToSetNone == ToSet(<< >>) = {}
BY DEF ToSet

\* Without the name p010 there are no ten bits, nor with a later nv12.
LEMMA NoTen ==
  ASSUME NEW s \in Seq(Filters), \A n \in ToSet(s) : n.pix # "p010"
  PROVE  ~ TenIn(s)
BY DEF TenIn, ToSet

LEMMA TenOverruled ==
  ASSUME NEW s \in Seq(Filters), NEW t \in Seq(Filters),
         \A n \in ToSet(t) : n.pix # "p010", \E n \in ToSet(t) : n.pix = "nv12"
  PROVE  ~ TenIn(s \o t)
BY TenJoined, NoTen DEF Silent, DepthNames

\* In a graph that names its depths, ten bits are fed iff a sample has ten.
LEMMA TenIsNamed ==
  ASSUME NEW g \in Graphs, DepthNamed(g), NEW b
  PROVE  TenBits(g, b) <=> graphFeedsTenBit(g)
<1>1. \A i \in DOMAIN g.nodes : SetsDepth(g.nodes[i]) <=> g.nodes[i].pix \in DepthNames
  BY DEF DepthNamed, Spelled, SetsDepth
<1>2. \E i \in DOMAIN g.nodes : SetsDepth(g.nodes[i])
  BY <1>1 DEF DepthNamed
<1>3. \A i \in DOMAIN g.nodes : \A j \in (i + 1)..Len(g.nodes) : j \in DOMAIN g.nodes
  BY DEF Graphs
<1> QED
  BY <1>1, <1>2, <1>3 DEF TenBits, graphFeedsTenBit

-----------------------------------------------------------------------------
(***************************************************************************)
(* What the passes over a graph that stays Plex's do to its memory and its *)
(* depth.                                                                  *)
(***************************************************************************)
SpelledOut(s) == \A n \in ToSet(s) : Spelled(n)
ScaledTo(s) == \E n \in ToSet(s) : n.f \in {"scale_vaapi", "scale_cuda"} /\ n.pix \in DepthNames

LEMMA NamedIs ==
  ASSUME NEW g
  PROVE  /\ DepthNamed(g) <=> SpelledOut(g.nodes) /\ ScaledTo(g.nodes)
         /\ graphFeedsTenBit(g) <=> TenIn(g.nodes)
BY DEF DepthNamed, SpelledOut, ScaledTo, ToSet, graphFeedsTenBit, TenIn

LEMMA Spliced ==
  ASSUME NEW a \in Seq(Filters), NEW b \in Seq(Filters), NEW c \in Seq(Filters)
  PROVE  /\ (a \o b) \o c \in Seq(Filters)
         /\ ToSet((a \o b) \o c) = ToSet(a) \cup ToSet(b) \cup ToSet(c)
         /\ TenIn((a \o b) \o c) <=>
              \/ TenIn(c)
              \/ TenIn(b) /\ Silent(c)
              \/ TenIn(a) /\ Silent(b) /\ Silent(c)
<1> DEFINE e == a \o b
<1>1. e \in Seq(Filters)
  OBVIOUS
<1>2. ToSet(e) = ToSet(a) \cup ToSet(b) /\ (TenIn(e) <=> TenIn(b) \/ (TenIn(a) /\ Silent(b)))
  BY NodesJoined, TenJoined
<1> HIDE DEF e
<1>3. /\ e \o c \in Seq(Filters)
      /\ ToSet(e \o c) = ToSet(e) \cup ToSet(c)
      /\ TenIn(e \o c) <=> TenIn(c) \/ (TenIn(e) /\ Silent(c))
  BY <1>1, NodesJoined, TenJoined
<1> QED
  BY <1>2, <1>3 DEF e

\* What can be put in the place of b, around which there are a and c.
LEMMA Swapped ==
  ASSUME NEW a \in Seq(Filters), NEW b \in Seq(Filters), NEW c \in Seq(Filters),
         NEW r \in Seq(Filters), \A n \in ToSet(r) : Spelled(n),
         TenIn(r) <=> TenIn(b), Silent(r) <=> Silent(b),
         \A n \in ToSet(b) : n.f \notin {"scale_vaapi", "scale_cuda"}
  PROVE  LET s == (a \o b) \o c
             t == (a \o r) \o c
         IN  /\ SpelledOut(s) => SpelledOut(t)
             /\ ScaledTo(s) => ScaledTo(t)
             /\ TenIn(s) <=> TenIn(t)
<1> DEFINE s == (a \o b) \o c
           t == (a \o r) \o c
<1>1. /\ ToSet(s) = ToSet(a) \cup ToSet(b) \cup ToSet(c)
      /\ TenIn(s) <=> TenIn(c) \/ (TenIn(b) /\ Silent(c)) \/ (TenIn(a) /\ Silent(b) /\ Silent(c))
  BY Spliced
<1>2. /\ ToSet(t) = ToSet(a) \cup ToSet(r) \cup ToSet(c)
      /\ TenIn(t) <=> TenIn(c) \/ (TenIn(r) /\ Silent(c)) \/ (TenIn(a) /\ Silent(r) /\ Silent(c))
  BY Spliced
<1> HIDE DEF s, t
<1>3. SpelledOut(s) => SpelledOut(t)
  BY <1>1, <1>2 DEF SpelledOut
<1>4. ScaledTo(s) => ScaledTo(t)
  BY <1>1, <1>2 DEF ScaledTo
<1> QED
  BY <1>1, <1>2, <1>3, <1>4 DEF s, t

\* One filter maps tones as the chain of three does: on vaapi frames.
LEMMA SubstituteKeeps ==
  ASSUME NEW k, NEW g \in Graphs, SpelledOut(g.nodes), NEW d
  PROVE  LET h == substituteOpenCLTonemap(k, g)
         IN  /\ SpelledOut(h.nodes) /\ (ScaledTo(g.nodes) => ScaledTo(h.nodes))
             /\ TenIn(h.nodes) <=> TenIn(g.nodes)
             /\ \A m : Memory(h.nodes, m, d) = Memory(g.nodes, m, d)
             /\ g.nodes # << >> /\ g.nodes[1].f = "hwupload" =>
                  h.nodes # << >> /\ h.nodes[1].f = "hwupload"
<1> DEFINE h == substituteOpenCLTonemap(k, g)
           s == g.nodes
<1>1. CASE k.backend # "vaapi" \/ k.opencl \/ OpenCLChain(g) = {}
  BY <1>1 DEF substituteOpenCLTonemap
<1>2. CASE ~ (k.backend # "vaapi" \/ k.opencl \/ OpenCLChain(g) = {})
  <2> DEFINE i == CHOOSE x \in OpenCLChain(g) : TRUE
             n == Node("tonemap_vaapi", s[i + 1].pix)
             a == SubSeq(s, 1, i - 1)
             c == SubSeq(s, i + 3, Len(s))
             b == << s[i], s[i + 1], s[i + 2] >>
             r == << n >>
  <2>1. i \in OpenCLChain(g)
    BY <1>2
  <2>2. h = [g EXCEPT !.nodes = Replaced(s, i, n)]
    BY <1>2 DEF substituteOpenCLTonemap, Replaced
  <2> HIDE DEF i
  <2>3. s \in Seq(Filters) /\ Len(s) \in Nat
    BY DEF Graphs
  <2>4. /\ i \in 1..(Len(s) - 2)
        /\ s[i].f = "hwmap_opencl" /\ s[i + 1].f = "tonemap_opencl" /\ s[i + 2].f = "hwmap_back"
    BY <2>1 DEF OpenCLChain
  <2>5. h.nodes = Replaced(s, i, n)
    BY <2>2 DEF Graphs
  <2>6. Replaced(s, i, n) = (a \o r) \o c
    BY DEF Replaced
  <2>7. i \in 1..Len(s) /\ i + 1 \in 1..Len(s) /\ i + 2 \in 1..Len(s)
    BY <2>3, <2>4
  <2>8. /\ s[i] \in Filters /\ s[i + 1] \in Filters /\ s[i + 2] \in Filters
        /\ {s[i], s[i + 1], s[i + 2]} \subseteq ToSet(s)
    BY <2>3, <2>7 DEF ToSet
  <2>9. n \in Filters /\ n.f = "tonemap_vaapi" /\ n.pix = s[i + 1].pix
    BY <2>8, NodeTyped, NamesAssumption DEF Filters, Node
  <2> HIDE DEF s, n, h
  <2>10. b \in Seq(Filters) /\ Len(b) = 3 /\ r \in Seq(Filters)
    BY <2>8, <2>9
  <2>11. i + 3 - 1 <= Len(s) /\ \A j \in 1..3 : b[j] = s[i + j - 1]
    <3>1. i + 1 - 1 = i /\ i + 2 - 1 = i + 1 /\ i + 3 - 1 = i + 2
      BY <2>4
    <3>2. b[1] = s[i] /\ b[2] = s[i + 1] /\ b[3] = s[i + 2]
      OBVIOUS
    <3> HIDE DEF b
    <3> QED
      BY <3>1, <3>2, <2>3, <2>4
  <2>12. ToSet(b) = {s[i], s[i + 1], s[i + 2]}
    BY DEF ToSet
  <2> HIDE DEF b
  <2>13. a \in Seq(Filters) /\ c \in Seq(Filters) /\ s = (a \o b) \o c
    <3>1. /\ i + Len(b) = i + 3 /\ i + Len(b) - 1 <= Len(s)
          /\ \A j \in 1..Len(b) : b[j] = s[i + j - 1]
      BY <2>10, <2>11
    <3>2. /\ a \in Seq(Filters)
          /\ SubSeq(s, i + Len(b), Len(s)) \in Seq(Filters)
          /\ s = (a \o b) \o SubSeq(s, i + Len(b), Len(s))
      BY <3>1, <2>3, <2>7, <2>10, Around
    <3> HIDE DEF a
    <3> QED
      BY <3>1, <3>2
  <2>22. ToSet(r) = {n} /\ (TenIn(r) <=> n.pix = "p010") /\ \A at : Memory(r, at, d) = After(n.f, at, d)
    BY <2>9, ToSetOne, TenOne, MemoryOne
  <2> HIDE DEF a, c, r
  <2>14. ASSUME NEW m PROVE Memory(h.nodes, m, d) = Memory(s, m, d)
    <3> DEFINE at == Memory(a, m, d)
    <3>1. Memory(s, m, d) = Memory(c, Memory(b, at, d), d)
      BY <2>10, <2>13, MemoryAround
    <3>2. Memory(h.nodes, m, d) = Memory(c, Memory(r, at, d), d)
      BY <2>5, <2>6, <2>10, <2>13, MemoryAround
    <3> HIDE DEF at
    <3>3. Memory(r, at, d) = After("tonemap_vaapi", at, d)
      BY <2>9, <2>22
    <3>4. Memory(b, at, d) =
            After("hwmap_back", After("tonemap_opencl", After("hwmap_opencl", at, d), d), d)
      BY <2>4, <2>8, MemoryThree DEF b
    <3>5. Memory(r, at, d) = Memory(b, at, d)
      <4>1. CASE at = "vaapi"
        BY <4>1, <3>3, <3>4, AfterIs
      <4>2. CASE at # "vaapi"
        BY <4>2, <3>3, <3>4, AfterIs
      <4> QED
        BY <4>1, <4>2
    <3> QED
      BY <3>1, <3>2, <3>5
  <2>15. s[i].pix \notin DepthNames /\ s[i + 2].pix \notin DepthNames
    BY <2>4, <2>8 DEF SpelledOut, Spelled, s
  <2>16. \A x \in ToSet(r) : Spelled(x)
    BY <2>9, <2>22 DEF Spelled, EightBit
  <2>17. Silent(r) <=> Silent(b)
    BY <2>9, <2>12, <2>15, <2>22 DEF Silent
  <2>18. TenIn(r) <=> TenIn(b)
    <3> DEFINE x == << s[i] >>
               y == << s[i + 1] >>
               z == << s[i + 2] >>
    <3>1. x \in Seq(Filters) /\ y \in Seq(Filters) /\ z \in Seq(Filters)
      BY <2>8
    <3>2. b = (x \o y) \o z
      BY <2>8 DEF b
    <3>3. /\ TenIn(x) <=> s[i].pix = "p010"
          /\ TenIn(y) <=> s[i + 1].pix = "p010"
          /\ TenIn(z) <=> s[i + 2].pix = "p010"
          /\ TenIn(r) <=> s[i + 1].pix = "p010"
      BY <2>8, <2>9, <2>22, TenOne
    <3>4. Silent(z)
      BY <2>15, ToSetOne DEF Silent
    <3> HIDE DEF x, y, z
    <3>5. TenIn((x \o y) \o z) <=>
            TenIn(z) \/ (TenIn(y) /\ Silent(z)) \/ (TenIn(x) /\ Silent(y) /\ Silent(z))
      BY <3>1, Spliced
    <3> QED
      BY <3>2, <3>3, <3>4, <3>5, <2>15 DEF DepthNames
  <2>19. \A x \in ToSet(b) : x.f \notin {"scale_vaapi", "scale_cuda"}
    BY <2>4, <2>12
  <2>20. /\ SpelledOut(s) => SpelledOut(h.nodes)
         /\ ScaledTo(s) => ScaledTo(h.nodes)
         /\ TenIn(s) <=> TenIn(h.nodes)
    <3> DEFINE x == (a \o b) \o c
               y == (a \o r) \o c
    <3>1. /\ SpelledOut(x) => SpelledOut(y)
          /\ ScaledTo(x) => ScaledTo(y)
          /\ TenIn(x) <=> TenIn(y)
      BY <2>10, <2>13, <2>16, <2>17, <2>18, <2>19, Swapped
    <3>2. s = x /\ h.nodes = y
      BY <2>5, <2>6, <2>13
    <3> HIDE DEF x, y
    <3> QED
      BY <3>1, <3>2
  <2>21. ASSUME s # << >>, s[1].f = "hwupload"
         PROVE  h.nodes # << >> /\ h.nodes[1].f = "hwupload"
    <3>1. 1 \in 1..(Len(s) - 2) /\ 1 < i
      <4>1. i # 1
        BY <2>4, <2>21
      <4> QED
        BY <4>1, <2>3, <2>4
    <3>2. /\ Replaced(s, i, n) \in Seq(Filters) /\ Len(Replaced(s, i, n)) = Len(s) - 2
          /\ Replaced(s, i, n)[1] = s[1]
      BY <3>1, <2>3, <2>4, <2>9, ReplacedIs
    <3> QED
      BY <3>1, <3>2, <2>3, <2>5, <2>21
  <2> QED
    BY <2>14, <2>20, <2>21 DEF s, h
<1> QED
  BY <1>1, <1>2

\* A graph without its i-th node.
LEMMA Dropped ==
  ASSUME NEW s \in Seq(Filters), NEW i \in 1..Len(s)
  PROVE  \E a, t \in Seq(Filters) :
           /\ t = SubSeq(s, i + 1, Len(s)) /\ Len(a) = i - 1
           /\ s = (a \o << s[i] >>) \o t
           /\ RemoveAt(s, i) = a \o t
<1> DEFINE a == SubSeq(s, 1, i - 1)
           b == << s[i] >>
           t == SubSeq(s, i + 1, Len(s))
<1>1. RemoveAt(s, i) = a \o t
  BY DEF RemoveAt
<1>2. Len(s) \in Nat /\ i \in Nat /\ s[i] \in Filters
  OBVIOUS
<1>3. b \in Seq(Filters) /\ Len(b) = 1 /\ b[1] = s[i]
  BY <1>2
<1>4. Len(a) = i - 1
  BY <1>2
<1> HIDE DEF b
<1>5. i + Len(b) - 1 <= Len(s) /\ \A j \in 1..Len(b) : b[j] = s[i + j - 1]
  BY <1>2, <1>3
<1>7. i + Len(b) = i + 1
  BY <1>3
<1>8. /\ SubSeq(s, 1, i - 1) \in Seq(Filters)
      /\ SubSeq(s, i + Len(b), Len(s)) \in Seq(Filters)
      /\ s = (SubSeq(s, 1, i - 1) \o b) \o SubSeq(s, i + Len(b), Len(s))
  BY <1>3, <1>5, Around
<1>6. a \in Seq(Filters) /\ t \in Seq(Filters) /\ s = (a \o b) \o t
  BY <1>7, <1>8
<1> QED
  BY <1>1, <1>4, <1>6 DEF b

LEMMA DroppedDepth ==
  ASSUME NEW s \in Seq(Filters), NEW i \in 1..Len(s), SpelledOut(s),
         s[i].f \in {"hwupload", "hwmap_back"}
  PROVE  LET r == RemoveAt(s, i)
         IN  /\ SpelledOut(r) /\ (ScaledTo(s) => ScaledTo(r))
             /\ TenIn(r) <=> TenIn(s)
<1> DEFINE b == << s[i] >>
           r == RemoveAt(s, i)
<1>1. s[i] \in Filters /\ s[i] \in ToSet(s)
  BY DEF ToSet
<1>2. s[i].pix \notin DepthNames
  BY <1>1 DEF SpelledOut, Spelled
<1>3. b \in Seq(Filters) /\ ToSet(b) = {s[i]} /\ Silent(b) /\ ~ TenIn(b)
  BY <1>1, <1>2, ToSetOne, TenOne DEF Silent, DepthNames
<1>4. PICK a \in Seq(Filters), t \in Seq(Filters) : s = (a \o b) \o t /\ r = a \o t
  BY Dropped
<1> HIDE DEF b, r
<1>5. /\ ToSet(s) = ToSet(a) \cup ToSet(b) \cup ToSet(t)
      /\ TenIn(s) <=> TenIn(t) \/ (TenIn(b) /\ Silent(t)) \/ (TenIn(a) /\ Silent(b) /\ Silent(t))
  BY <1>3, <1>4, Spliced
<1>6. ToSet(r) = ToSet(a) \cup ToSet(t) /\ (TenIn(r) <=> TenIn(t) \/ (TenIn(a) /\ Silent(t)))
  BY <1>4, NodesJoined, TenJoined
<1>7. SpelledOut(r)
  BY <1>5, <1>6 DEF SpelledOut
<1>8. ScaledTo(s) => ScaledTo(r)
  BY <1>3, <1>5, <1>6 DEF ScaledTo
<1> QED
  BY <1>3, <1>5, <1>6, <1>7, <1>8 DEF r

\* Frames that an upload takes to the device may have been there before it.
LEMMA DroppedUpload ==
  ASSUME NEW s \in Seq(Filters), s # << >>, s[1].f = "hwupload",
         NEW d \in {"vaapi", "cuda"}, NEW m, Memory(s, m, d) # "lost"
  PROVE  /\ Memory(s, d, d) = Memory(s, m, d)
         /\ Memory(RemoveAt(s, 1), d, d) = Memory(s, m, d)
<1> DEFINE b == << s[1] >>
           r == RemoveAt(s, 1)
<1>1. 1 \in 1..Len(s) /\ s[1] \in Filters
  OBVIOUS
<1>2. b \in Seq(Filters) /\ \A at : Memory(b, at, d) = IF at \in {"cpu", d} THEN d ELSE "lost"
  BY <1>1, MemoryOne, AfterIs
<1>3. PICK a \in Seq(Filters), t \in Seq(Filters) :
        Len(a) = 1 - 1 /\ s = (a \o b) \o t /\ r = a \o t
  BY <1>1, Dropped
<1> HIDE DEF b, r
<1>4. \A at : Memory(a, at, d) = at
  <2>1. a = << >>
    BY <1>3
  <2> QED
    BY <2>1, MemoryNone
<1>5. ASSUME NEW at PROVE Memory(s, at, d) = Memory(t, Memory(b, at, d), d)
  <2>1. Memory((a \o b) \o t, at, d) = Memory(t, Memory(b, Memory(a, at, d), d), d)
    BY <1>2, MemoryAround
  <2> QED
    BY <2>1, <1>3, <1>4
<1>6. \A at : Memory(r, at, d) = Memory(t, at, d)
  BY <1>3, <1>4, MemoryJoined
<1>7. m \in {"cpu", d}
  BY <1>2, <1>3, <1>5, LostIsLost
<1> QED
  BY <1>2, <1>5, <1>6, <1>7 DEF r

\* Frames that go back to vaapi to be downloaded may be downloaded from OpenCL.
LEMMA DroppedWayBack ==
  ASSUME NEW s \in Seq(Filters), NEW i \in 1..(Len(s) - 1),
         s[i].f = "hwmap_back", s[i + 1].f = "hwdownload",
         NEW d \in {"vaapi", "cuda"}, NEW m, Memory(s, m, d) # "lost"
  PROVE  Memory(RemoveAt(s, i), m, d) = Memory(s, m, d)
<1> DEFINE b == << s[i] >>
           r == RemoveAt(s, i)
<1>1. i \in 1..Len(s) /\ s[i] \in Filters /\ i + 1 \in 1..Len(s)
  OBVIOUS
<1>2. b \in Seq(Filters) /\ \A at : Memory(b, at, d) = IF at = "opencl" THEN "vaapi" ELSE "lost"
  BY <1>1, MemoryOne, AfterIs
<1>3. PICK a \in Seq(Filters), t \in Seq(Filters) :
        t = SubSeq(s, i + 1, Len(s)) /\ s = (a \o b) \o t /\ r = a \o t
  BY <1>1, Dropped
<1>4. t # << >> /\ t[1].f = "hwdownload"
  <2> DEFINE n == Len(s)
  <2>1. n \in Nat /\ i \in Nat /\ i + 1 <= n
    OBVIOUS
  <2>0. n - i \in Nat /\ n - i >= 1
    BY <2>1
  <2>7. Len(SubSeq(s, i + 1, n)) = n - i
    BY <2>1
  <2>2. Len(t) = n - i
    BY <2>7, <1>3
  <2>3. \A j \in 1..(n - i) : t[j] = s[j + i]
    BY <2>1, <1>3
  <2>4. 1 \in 1..(n - i) /\ 1 + i = i + 1
    BY <2>1
  <2>5. t[1] = s[i + 1]
    BY <2>3, <2>4
  <2>6. t # << >>
    <3> HIDE DEF n
    <3> QED
      BY <2>0, <2>2
  <2> QED
    BY <2>5, <2>6
<1> HIDE DEF b, r
<1>5. PICK u \in Seq(Filters) : t = << t[1] >> \o u
  <2>1. 0 \in 0..Len(t) /\ 1 \in 0..Len(t) /\ 1 \in 1..Len(t)
    BY <1>4
  <2> DEFINE u == SubSeq(t, 1 + 1, Len(t))
             v == SubSeq(t, 1, 1)
  <2>2. t = v \o u /\ u \in Seq(Filters)
    BY <2>1, Parts
  <2>3. v = << t[1] >>
    <3>1. v \in Seq(Filters) /\ Len(v) = 1 /\ v[1] = t[1]
      BY <2>1
    <3> HIDE DEF v
    <3> QED
      BY <3>1
  <2> HIDE DEF u, v
  <2> QED
    BY <2>2, <2>3
<1> DEFINE y == << t[1] >>
<1>6. t[1] \in Filters
  BY <1>4
<1>7. y \in Seq(Filters)
      /\ \A at : Memory(y, at, d) = IF at \in {"vaapi", "cuda", "opencl"} THEN "cpu" ELSE "lost"
  BY <1>4, <1>6, MemoryOne, AfterIs
<1> HIDE DEF y
<1>8. ASSUME NEW at PROVE Memory(t, at, d) = Memory(u, Memory(y, at, d), d)
  <2>1. Memory(y \o u, at, d) = Memory(u, Memory(y, at, d), d)
    BY <1>7, MemoryJoined
  <2>2. t = y \o u
    BY <1>5 DEF y
  <2> QED
    BY <2>1, <2>2
<1> DEFINE at == Memory(a, m, d)
<1>9. Memory(s, m, d) = Memory(t, Memory(b, at, d), d)
  <2>1. Memory((a \o b) \o t, m, d) = Memory(t, Memory(b, Memory(a, m, d), d), d)
    BY <1>2, MemoryAround
  <2> QED
    BY <2>1, <1>3
<1>10. Memory(r, m, d) = Memory(t, at, d)
  <2>1. Memory(a \o t, m, d) = Memory(t, Memory(a, m, d), d)
    BY MemoryJoined
  <2> QED
    BY <2>1, <1>3
<1> HIDE DEF at
<1>11. at = "opencl"
  <2> SUFFICES ASSUME at # "opencl" PROVE FALSE
    OBVIOUS
  <2>1. Memory(b, at, d) = "lost"
    BY <1>2
  <2>2. Memory(t, "lost", d) = "lost"
    BY LostIsLost
  <2> QED
    BY <1>9, <2>1, <2>2
<1> QED
  BY <1>2, <1>7, <1>8, <1>9, <1>10, <1>11 DEF r

-----------------------------------------------------------------------------
(***************************************************************************)
(* What the rewriter draws, and what its last pass keeps: of the memory    *)
(* and of the depth of the frames.                                         *)
(***************************************************************************)
LEMMA HasNode ==
  ASSUME NEW g, NEW names
  PROVE  Has(g, names) <=> \E n \in ToSet(g.nodes) : n.f \in names
BY DEF Has, ToSet

\* s is a and then b.
Splits(s, a, b) ==
  /\ s \in Seq(Filters) /\ ToSet(s) = ToSet(a) \cup ToSet(b)
  /\ TenIn(s) <=> TenIn(b) \/ (TenIn(a) /\ Silent(b))
  /\ \A m, d : Memory(s, m, d) = Memory(b, Memory(a, m, d), d)
  /\ a # << >> => s # << >> /\ s[1] = a[1]

LEMMA TwoPieces ==
  ASSUME NEW a \in Seq(Filters), NEW b \in Seq(Filters)
  PROVE  Splits(a \o b, a, b)
<1>1. a \o b \in Seq(Filters)
  BY Joined
<1>2. ToSet(a \o b) = ToSet(a) \cup ToSet(b)
  BY NodesJoined
<1>3. TenIn(a \o b) <=> TenIn(b) \/ (TenIn(a) /\ Silent(b))
  BY TenJoined
<1>4. \A m, d : Memory(a \o b, m, d) = Memory(b, Memory(a, m, d), d)
  BY MemoryJoined
<1>5. a # << >> => a \o b # << >> /\ (a \o b)[1] = a[1]
  OBVIOUS
<1> QED
  BY <1>1, <1>2, <1>3, <1>4, <1>5 DEF Splits

\* A graph of four pieces.
LEMMA Pieces ==
  ASSUME NEW u \in Seq(Filters), NEW a \in Seq(Filters), NEW t \in Seq(Filters),
         NEW b \in Seq(Filters)
  PROVE  \E p, q :
           /\ Splits(p, u, a) /\ Splits(q, p, t) /\ Splits(u \o a \o t \o b, q, b)
<1> DEFINE p == u \o a
           q == p \o t
           s == q \o b
<1>1. p \in Seq(Filters) /\ Splits(p, u, a)
  BY TwoPieces DEF Splits
<1> HIDE DEF p
<1>2. q \in Seq(Filters) /\ Splits(q, p, t)
  BY <1>1, TwoPieces DEF Splits
<1> HIDE DEF q
<1>3. Splits(s, q, b)
  BY <1>2, TwoPieces
<1>4. u \o a \o t \o b = s
  BY DEF p, q
<1> HIDE DEF s
<1> QED
  BY <1>1, <1>2, <1>3, <1>4

\* A piece that is one filter, and one that is missing.
LEMMA PieceOne ==
  ASSUME NEW n \in Filters
  PROVE  LET s == << n >>
         IN  /\ s \in Seq(Filters) /\ ToSet(s) = {n}
             /\ TenIn(s) <=> n.pix = "p010"
             /\ Silent(s) <=> n.pix \notin DepthNames
             /\ \A m, d : Memory(s, m, d) = After(n.f, m, d)
BY ToSetOne, TenOne, MemoryOne DEF Silent

LEMMA PieceNone ==
  LET s == << >>
  IN  /\ s \in Seq(Filters) /\ ToSet(s) = {} /\ ~ TenIn(s) /\ Silent(s)
      /\ \A m, d : Memory(s, m, d) = m
BY ToSetNone, MemoryNone DEF Silent, TenIn

-----------------------------------------------------------------------------
\* What composeBurn draws for worker k: s asks for it.
SDRMappers == {"inlineass_sdr", "inlineass_tonemap"}
SDRNodes(ns) == \E n \in ToSet(ns) : n.f \in SDRMappers
AMDVaapi(k) == k.backend = "vaapi" /\ k.amd

Draws(k, s, ns) ==
  /\ ns \in Seq(Filters)
  /\ \A m : m = Device(k.backend) \/ (~ s.resident /\ m = "cpu") =>
           Memory(ns, m, Device(k.backend)) = Device(k.backend)
  /\ SDRNodes(ns) => AMDVaapi(k)
  /\ ~ SDRNodes(ns) => SpelledOut(ns) /\ ScaledTo(ns) /\ (TenIn(ns) => s.tenBit)
  /\ ~ s.resident => ns # << >> /\ ns[1].f = "hwupload"
  /\ \A n \in ToSet(ns) : n.f = "tonemap_opencl" => k.backend = "vaapi"
  /\ \A n \in ToSet(ns) : n.f \notin {"overlay_vaapi", "overlay_cuda"}

\* Its first piece, an upload unless the frames are there.
Uploading(s) == When(~ s.resident, << Node("hwupload", "none") >>)

LEMMA UploadPiece ==
  ASSUME NEW s, s.resident \in BOOLEAN, NEW d
  PROVE  /\ Uploading(s) \in Seq(Filters)
         /\ \A m : m = d \/ (~ s.resident /\ m = "cpu") => Memory(Uploading(s), m, d) = d
         /\ \A n \in ToSet(Uploading(s)) : n.f = "hwupload" /\ n.pix = "none"
         /\ ~ s.resident => Uploading(s) # << >> /\ Uploading(s)[1].f = "hwupload"
<1> DEFINE n == Node("hwupload", "none")
<1>1. n \in Filters /\ n.f = "hwupload" /\ n.pix = "none"
  BY NodeTyped, NamesAssumption DEF Node
<1> HIDE DEF n
<1>2. CASE s.resident
  <2>1. Uploading(s) = << >>
    BY <1>2 DEF Uploading, When
  <2> QED
    BY <1>2, <2>1, PieceNone
<1>3. CASE ~ s.resident
  <2>1. Uploading(s) = << n >>
    BY <1>3 DEF Uploading, When, n
  <2>2. << n >> \in Seq(Filters) /\ ToSet(<< n >>) = {n}
        /\ \A m : Memory(<< n >>, m, d) = After("hwupload", m, d)
    BY <1>1, PieceOne
  <2>3. \A m \in {"cpu", d} : After("hwupload", m, d) = d
    BY AfterIs
  <2>4. << n >> # << >> /\ << n >>[1] = n
    OBVIOUS
  <2> QED
    BY <1>1, <1>3, <2>1, <2>2, <2>3, <2>4
<1> QED
  BY <1>2, <1>3

\* Its tone mapping: from p010 to nv12, without leaving the device.
LEMMA StagePiece ==
  ASSUME NEW k \in WorkerKinds, k.backend \in GPUs
  PROVE  LET t == stage(k)
             d == Device(k.backend)
         IN  /\ t \in Seq(Filters) /\ Memory(t, d, d) = d
             /\ \A n \in ToSet(t) :
                  /\ n.f \in {"hwmap_opencl", "tonemap_opencl", "hwmap_back", "tonemap_vaapi", "tonemap_cuda"}
                  /\ Spelled(n) /\ n.pix # "p010"
                  /\ n.f = "tonemap_opencl" => k.backend = "vaapi"
             /\ \E n \in ToSet(t) : n.pix = "nv12"
<1> DEFINE x == Node("hwmap_opencl", "none")
           y == Node("tonemap_opencl", "nv12")
           z == Node("hwmap_back", "none")
           c == Node(IF k.backend = "vaapi" THEN "tonemap_vaapi" ELSE "tonemap_cuda", "nv12")
           d == Device(k.backend)
<1>1. x \in Filters /\ y \in Filters /\ z \in Filters /\ c \in Filters
  BY NodeTyped, EitherTyped, NamesAssumption
<1>2. /\ x.f = "hwmap_opencl" /\ x.pix = "none" /\ y.f = "tonemap_opencl" /\ y.pix = "nv12"
      /\ z.f = "hwmap_back" /\ z.pix = "none"
      /\ c.f = (IF k.backend = "vaapi" THEN "tonemap_vaapi" ELSE "tonemap_cuda") /\ c.pix = "nv12"
  BY DEF Node
<1>3. Spelled(x) /\ Spelled(y) /\ Spelled(z) /\ Spelled(c)
  BY <1>2 DEF Spelled, EightBit, DepthNames
<1>4. d = IF k.backend = "vaapi" THEN "vaapi" ELSE "cuda"
  BY DEF Device, GPUs
<1>5. stage(k) = IF k.opencl THEN << x, y, z >> ELSE << c >>
  BY DEF stage
<1>6. k.opencl => k.backend = "vaapi"
  BY DEF WorkerKinds
<1> HIDE DEF x, y, z, c, d
<1>7. CASE k.opencl
  <2>1. stage(k) \in Seq(Filters) /\ ToSet(stage(k)) = {x, y, z}
    BY <1>1, <1>5, <1>7 DEF ToSet
  <2>2. Memory(<< x, y, z >>, d, d) = After(z.f, After(y.f, After(x.f, d, d), d), d)
    BY <1>1, MemoryThree
  <2>3. After("hwmap_back", After("tonemap_opencl", After("hwmap_opencl", d, d), d), d) = "vaapi"
    BY <1>4, <1>6, <1>7, AfterIs
  <2>4. Memory(stage(k), d, d) = d
    BY <1>2, <1>4, <1>5, <1>6, <1>7, <2>2, <2>3
  <2> QED
    BY <1>2, <1>3, <1>6, <1>7, <2>1, <2>4 DEF d
<1>8. CASE ~ k.opencl
  <2>1. stage(k) = << c >>
    BY <1>5, <1>8
  <2>2. << c >> \in Seq(Filters) /\ ToSet(<< c >>) = {c} /\ Memory(<< c >>, d, d) = After(c.f, d, d)
    BY <1>1, PieceOne
  <2>3. After(c.f, d, d) = d
    <3>1. CASE k.backend = "vaapi"
      BY <3>1, <1>2, <1>4, AfterIs
    <3>2. CASE k.backend # "vaapi"
      BY <3>2, <1>2, <1>4, AfterIs
    <3> QED
      BY <3>1, <3>2
  <2> QED
    BY <1>2, <1>3, <2>1, <2>2, <2>3 DEF d
<1> QED
  BY <1>7, <1>8 DEF WorkerKinds

LEMMA AMDDraws ==
  ASSUME NEW k, AMDVaapi(k), NEW s, Asked(s)
  PROVE  Draws(k, s, composeBurnAMDHDR(k, s).nodes)
<1> DEFINE u == Uploading(s)
           a == scaleFilter(k, "p010")
           b == Node(IF s.kind = "none" THEN "inlineass_tonemap" ELSE "inlineass_sdr", "none")
           labels == One(~ s.resident) + 2
           ns == u \o << a, b >>
           d == Device(k.backend)
<1>1. composeBurnAMDHDR(k, s) = Composed(ns, "none", labels)
  BY DEF composeBurnAMDHDR, Uploading
<1>2. labels \in Nat \ {0}
  BY OneIs
<1>3. a \in Filters /\ b \in Filters
  BY ScaleTyped, EitherTyped, NamesAssumption
<1>4. /\ a.f = "scale_vaapi" /\ d = "vaapi"
      /\ b.f = IF s.kind = "none" THEN "inlineass_tonemap" ELSE "inlineass_sdr"
  BY NodeIs DEF scaleFilter, AMDVaapi, Device
<1> HIDE DEF labels, ns
<1>5. composeBurnAMDHDR(k, s).nodes = ns
  BY <1>1, <1>2, ComposedParts
<1>6. /\ u \in Seq(Filters)
      /\ \A m : m = d \/ (~ s.resident /\ m = "cpu") => Memory(u, m, d) = d
      /\ \A n \in ToSet(u) : n.f = "hwupload"
      /\ ~ s.resident => u # << >> /\ u[1].f = "hwupload"
  BY UploadPiece DEF Asked
<1> HIDE DEF u, a, b, d
<1>7. << a, b >> \in Seq(Filters) /\ ToSet(<< a, b >>) = {a, b}
  BY <1>3 DEF ToSet
<1>8. Memory(<< a, b >>, d, d) = d
  <2>1. Memory(<< a, b >>, d, d) = After(b.f, After(a.f, d, d), d)
    BY <1>3, MemoryTwo
  <2>2. After(a.f, d, d) = d
    BY <1>4, AfterIs
  <2>3. After(b.f, d, d) = d
    BY <1>4, AfterIs
  <2> QED
    BY <2>1, <2>2, <2>3
<1>9. Splits(ns, u, << a, b >>)
  BY <1>6, <1>7, TwoPieces DEF ns
<1>10. SDRNodes(ns)
  BY <1>4, <1>7, <1>9 DEF Splits, SDRNodes, SDRMappers
<1>11. \A m : m = d \/ (~ s.resident /\ m = "cpu") => Memory(ns, m, d) = d
  BY <1>6, <1>8, <1>9 DEF Splits
<1>12. \A n \in ToSet(ns) : n.f \notin {"tonemap_opencl", "overlay_vaapi", "overlay_cuda"}
  BY <1>4, <1>6, <1>7, <1>9 DEF Splits
<1>13. ns \in Seq(Filters) /\ (~ s.resident => ns # << >> /\ ns[1].f = "hwupload")
  BY <1>6, <1>9 DEF Splits
<1> QED
  BY <1>5, <1>10, <1>11, <1>12, <1>13 DEF Draws, d

LEMMA ComposedDraws ==
  ASSUME NEW k \in WorkerKinds, k.backend \in GPUs, NEW s, Asked(s), s.tenBit \in BOOLEAN,
         s.sdr => AMDVaapi(k)
  PROVE  Draws(k, s, composeBurn(k, s).nodes)
<1>1. CASE k.backend = "vaapi" /\ k.amd /\ s.hdr
  <2>1. AMDVaapi(k) /\ composeBurn(k, s) = composeBurnAMDHDR(k, s)
    BY <1>1 DEF AMDVaapi, composeBurn
  <2> QED
    BY <2>1, AMDDraws
<1>2. CASE ~ (k.backend = "vaapi" /\ k.amd /\ s.hdr)
  <2> DEFINE u == Uploading(s)
             pix == IF s.hdr \/ s.tenBit THEN "p010" ELSE "nv12"
             x == scaleFilter(k, pix)
             a == << x >>
             t == When(s.hdr, stage(k))
             y == Node(IF s.sdr THEN "inlineass_sdr" ELSE "inlineass", "none")
             b == When(s.kind # "none", << y >>)
             labels == One(~ s.resident) + 1 + One(s.kind # "none")
             ns == u \o a \o t \o b
             d == Device(k.backend)
  <2>1. composeBurn(k, s) = Composed(ns, "none", labels)
    BY <1>2 DEF composeBurn, Uploading
  <2>2. labels \in Nat \ {0}
    BY OneIs
  <2> HIDE DEF ns, labels
  <2>3. composeBurn(k, s).nodes = ns
    BY <2>1, <2>2, ComposedParts
  <2>4. pix \in {"p010", "nv12"} /\ pix \in Names
    BY NamesAssumption
  <2>5. x \in Filters /\ y \in Filters
    BY <2>4, ScaleTyped, EitherTyped, NamesAssumption
  <2>6. /\ x.f = (IF k.backend = "vaapi" THEN "scale_vaapi" ELSE "scale_cuda") /\ x.pix = pix
        /\ y.f = (IF s.sdr THEN "inlineass_sdr" ELSE "inlineass") /\ y.pix = "none"
    BY DEF scaleFilter, Node
  <2>7. d = IF k.backend = "vaapi" THEN "vaapi" ELSE "cuda"
    BY DEF Device, GPUs
  <2>8. /\ u \in Seq(Filters)
        /\ \A m : m = d \/ (~ s.resident /\ m = "cpu") => Memory(u, m, d) = d
        /\ \A n \in ToSet(u) : n.f = "hwupload" /\ n.pix = "none"
        /\ ~ s.resident => u # << >> /\ u[1].f = "hwupload"
    BY UploadPiece DEF Asked
  <2> HIDE DEF u, x, y, d
  <2>9. /\ a \in Seq(Filters) /\ ToSet(a) = {x} /\ (TenIn(a) <=> x.pix = "p010")
        /\ Memory(a, d, d) = d
    <3>1. /\ a \in Seq(Filters) /\ ToSet(a) = {x} /\ (TenIn(a) <=> x.pix = "p010")
          /\ Memory(a, d, d) = After(x.f, d, d)
      BY <2>5, PieceOne
    <3>2. After(x.f, d, d) = d
      <4>1. CASE k.backend = "vaapi"
        BY <4>1, <2>6, <2>7, AfterIs
      <4>2. CASE k.backend # "vaapi"
        BY <4>2, <2>6, <2>7, AfterIs
      <4> QED
        BY <4>1, <4>2
    <3> QED
      BY <3>1, <3>2
  <2>10. /\ t \in Seq(Filters) /\ Memory(t, d, d) = d
         /\ \A n \in ToSet(t) :
               /\ n.f \in {"hwmap_opencl", "tonemap_opencl", "hwmap_back", "tonemap_vaapi", "tonemap_cuda"}
               /\ Spelled(n) /\ n.pix # "p010"
               /\ n.f = "tonemap_opencl" => k.backend = "vaapi"
         /\ s.hdr => \E n \in ToSet(t) : n.pix = "nv12"
         /\ ~ TenIn(t)
    <3>1. CASE s.hdr
      <4>1. t = stage(k)
        BY <3>1 DEF When
      <4> QED
        BY <4>1, StagePiece, NoTen DEF d
    <3>2. CASE ~ s.hdr
      <4>1. t = << >>
        BY <3>2 DEF When
      <4> QED
        BY <3>2, <4>1, PieceNone
    <3> QED
      BY <3>1, <3>2
  <2>11. /\ b \in Seq(Filters) /\ ToSet(b) \subseteq {y} /\ ~ TenIn(b)
         /\ s.sdr => AMDVaapi(k)
         /\ Memory(b, d, d) = d
    <3>1. CASE s.kind # "none"
      <4>1. b = << y >>
        BY <3>1 DEF When
      <4>2. << y >> \in Seq(Filters) /\ ToSet(<< y >>) = {y} /\ (TenIn(<< y >>) <=> y.pix = "p010")
            /\ Memory(<< y >>, d, d) = After(y.f, d, d)
        BY <2>5, PieceOne
      <4>3. After(y.f, d, d) = d
        <5>1. CASE s.sdr
          BY <5>1, <2>6, <2>7, AfterIs DEF AMDVaapi
        <5>2. CASE ~ s.sdr
          BY <5>2, <2>6, AfterIs
        <5> QED
          BY <5>1, <5>2
      <4> QED
        BY <2>6, <4>1, <4>2, <4>3
    <3>2. CASE ~ (s.kind # "none")
      <4>1. b = << >>
        BY <3>2 DEF When
      <4> QED
        BY <4>1, PieceNone
    <3> QED
      BY <3>1, <3>2
  <2> HIDE DEF a, t, b, pix
  <2>12. PICK p, q : Splits(p, u, a) /\ Splits(q, p, t) /\ Splits(ns, q, b)
    BY <2>8, <2>9, <2>10, <2>11, Pieces DEF ns
  <2>13. ToSet(ns) = ToSet(u) \cup {x} \cup ToSet(t) \cup ToSet(b)
    BY <2>9, <2>12 DEF Splits
  <2>14. ASSUME NEW m, m = d \/ (~ s.resident /\ m = "cpu")
         PROVE  Memory(ns, m, d) = d
    <3>1. Memory(u, m, d) = d
      BY <2>8, <2>14
    <3>2. Memory(p, m, d) = d
      BY <3>1, <2>9, <2>12 DEF Splits
    <3>3. Memory(q, m, d) = d
      BY <3>2, <2>10, <2>12 DEF Splits
    <3> QED
      BY <3>3, <2>11, <2>12 DEF Splits
  <2>15. SDRNodes(ns) => s.sdr
    BY <2>6, <2>8, <2>10, <2>11, <2>13 DEF SDRNodes, SDRMappers
  <2>16. Spelled(x) /\ x.f \in {"scale_vaapi", "scale_cuda"} /\ x.pix \in DepthNames
    BY <2>4, <2>6 DEF Spelled, EightBit, DepthNames
  <2>17. ScaledTo(ns)
    BY <2>13, <2>16 DEF ScaledTo
  <2>18. ASSUME ~ SDRNodes(ns) PROVE SpelledOut(ns)
    <3>1. \A n \in ToSet(u) : Spelled(n)
      BY <2>8 DEF Spelled, EightBit, DepthNames
    <3>2. \A n \in ToSet(b) : Spelled(n)
      <4>1. \A n \in ToSet(b) : n = y /\ y.f \notin SDRMappers
        BY <2>11, <2>13, <2>18 DEF SDRNodes
      <4> QED
        BY <4>1, <2>6 DEF Spelled, EightBit, DepthNames, SDRMappers
    <3> QED
      BY <3>1, <3>2, <2>10, <2>13, <2>16 DEF SpelledOut
  <2>19. ASSUME TenIn(ns) PROVE s.tenBit
    <3>1. TenIn(q)
      BY <2>19, <2>11, <2>12 DEF Splits
    <3>2. TenIn(p) /\ Silent(t)
      BY <3>1, <2>10, <2>12 DEF Splits
    <3>3. ~ s.hdr
      BY <3>2, <2>10 DEF Silent, DepthNames
    <3>4. ~ TenIn(u)
      BY <2>8, NoTen
    <3>5. x.pix = "p010"
      BY <3>2, <3>4, <2>9, <2>12 DEF Splits
    <3> QED
      BY <3>3, <3>5, <2>6 DEF pix
  <2>20. ~ s.resident => ns # << >> /\ ns[1].f = "hwupload"
    BY <2>8, <2>12 DEF Splits
  <2>21. \A n \in ToSet(ns) :
           /\ n.f = "tonemap_opencl" => k.backend = "vaapi"
           /\ n.f \notin {"overlay_vaapi", "overlay_cuda"}
    BY <2>6, <2>8, <2>10, <2>11, <2>13
  <2>22. ns \in Seq(Filters)
    BY <2>12 DEF Splits
  <2> QED
    BY <2>3, <2>14, <2>15, <2>17, <2>18, <2>19, <2>20, <2>21, <2>22 DEF Draws, d
<1> QED
  BY <1>1, <1>2

\* The seek's stage works on frames wherever they are.
LEMMA SelectPiece ==
  ASSUME NEW g \in Graphs, NEW select \in BOOLEAN
  PROVE  LET r == appendSelectStage(g, select).nodes
         IN  \/ r = g.nodes
             \/ \E n \in Filters :
                  /\ n.f = "select" /\ n.pix = "none"
                  /\ Splits(r, g.nodes, << n >>)
<1> DEFINE n == Node("select", "none")
<1>1. g.nodes \in Seq(Filters)
  BY DEF Graphs
<1>2. n \in Filters /\ n.f = "select" /\ n.pix = "none"
  BY NodeTyped, NamesAssumption DEF Node
<1> HIDE DEF n
<1>3. CASE select
  <2>1. appendSelectStage(g, select).nodes = Append(g.nodes, n)
    BY <1>3 DEF appendSelectStage, Graphs, n
  <2>2. Append(g.nodes, n) = g.nodes \o << n >>
    BY <1>1, <1>2
  <2>3. << n >> \in Seq(Filters)
    BY <1>2
  <2>4. Splits(g.nodes \o << n >>, g.nodes, << n >>)
    BY <1>1, <2>3, TwoPieces
  <2> QED
    BY <1>2, <2>1, <2>2, <2>4
<1>4. CASE ~ select
  BY <1>4 DEF appendSelectStage
<1> QED
  BY <1>3, <1>4

LEMMA RecomposeDraws ==
  ASSUME NEW k \in WorkerKinds, k.backend \in GPUs, NEW s, Asked(s), s.tenBit \in BOOLEAN,
         s.sdr => AMDVaapi(k), NEW select \in BOOLEAN
  PROVE  Draws(k, s, Recompose(k, s, select).nodes)
<1> DEFINE g == composeBurn(k, s)
           a == g.nodes
           r == appendSelectStage(g, select).nodes
           d == Device(k.backend)
<1>1. Recompose(k, s, select).nodes = r
  BY DEF Recompose, GPUs
<1>2. Draws(k, s, a) /\ g \in Graphs
  BY ComposedDraws, ComposedGPUTyped DEF Fresh
<1> HIDE DEF g
<1>3. CASE r = a
  BY <1>1, <1>2, <1>3
<1>4. CASE r # a
  <2>1. PICK n \in Filters : n.f = "select" /\ n.pix = "none" /\ Splits(r, a, << n >>)
    BY <1>2, <1>4, SelectPiece
  <2>2. /\ ToSet(<< n >>) = {n} /\ ~ TenIn(<< n >>)
        /\ \A m : Memory(<< n >>, m, d) = After("select", m, d)
    BY <2>1, PieceOne
  <2>3. \A m : Memory(<< n >>, m, d) = m
    BY <2>2, AfterIs
  <2>4. ToSet(r) = ToSet(a) \cup {n} /\ r \in Seq(Filters)
    BY <2>1, <2>2 DEF Splits
  <2> HIDE DEF r, a, d
  <2>5. \A m : Memory(r, m, d) = Memory(a, m, d)
    BY <2>1, <2>3 DEF Splits
  <2>6. SDRNodes(r) <=> SDRNodes(a)
    BY <2>1, <2>4 DEF SDRNodes, SDRMappers
  <2>7. SpelledOut(a) => SpelledOut(r)
    BY <2>1, <2>4 DEF SpelledOut, Spelled, EightBit
  <2>8. ScaledTo(a) => ScaledTo(r)
    BY <2>4 DEF ScaledTo
  <2>9. TenIn(r) => TenIn(a)
    BY <2>1, <2>2 DEF Splits
  <2>10. a # << >> => r # << >> /\ r[1] = a[1]
    BY <2>1 DEF Splits
  <2>11. \A x \in ToSet(r) : x \in ToSet(a) \/ x.f = "select"
    BY <2>1, <2>4
  <2> QED
    BY <1>1, <1>2, <2>4, <2>5, <2>6, <2>7, <2>8, <2>9, <2>10, <2>11 DEF Draws, d
<1> QED
  BY <1>3, <1>4

\* What composeBurnSW draws stays in main memory.
MainNodes(ns) == ns \in Seq(Filters) /\ \A n \in ToSet(ns) : n.f \notin DeviceFilters

LEMMA MainIs ==
  ASSUME NEW ns, MainNodes(ns), NEW d
  PROVE  Memory(ns, "cpu", d) = "cpu"
BY MainStaysMain DEF MainNodes, ToSet

LEMMA SWDraws ==
  ASSUME NEW s
  PROVE  MainNodes(composeBurnSW(s).nodes)
<1> DEFINE bitmap == s.kind = "bitmap"
           x == Node("scale", "none")
           m == Node("tonemap", "p010")
           t == When(s.hdr, << m >>)
           f == Node("format", "none")
           n == Node(IF bitmap THEN "overlay" ELSE "inlineass", "none")
           b == When(s.kind # "none", << n >>)
           labels == One(bitmap) + 2 + One(s.hdr) + One(s.kind # "none")
           ns == << x >> \o t \o << f >> \o b
<1>1. composeBurnSW(s) = Composed(ns, IF bitmap THEN "sw" ELSE "none", labels)
  BY DEF composeBurnSW
<1>2. /\ x.f = "scale" /\ m.f = "tonemap" /\ f.f = "format"
      /\ n.f \in {"overlay", "inlineass"}
  BY NodeIs
<1>3. x \in Filters /\ m \in Filters /\ f \in Filters /\ n \in Filters
  BY NodeTyped, EitherTyped, NamesAssumption
<1>4. labels \in Nat \ {0}
  BY OneIs
<1> HIDE DEF x, m, f, n, labels, ns, bitmap
<1>5. composeBurnSW(s).nodes = ns
  BY <1>1, <1>4, ComposedParts
<1>6. t \in Seq(Filters) /\ ToSet(t) \subseteq {m}
  <2>1. CASE s.hdr
    BY <2>1, <1>3, PieceOne DEF When
  <2>2. CASE ~ s.hdr
    BY <2>2, PieceNone DEF When
  <2> QED
    BY <2>1, <2>2
<1>7. b \in Seq(Filters) /\ ToSet(b) \subseteq {n}
  <2>1. CASE s.kind # "none"
    BY <2>1, <1>3, PieceOne DEF When
  <2>2. CASE ~ (s.kind # "none")
    BY <2>2, PieceNone DEF When
  <2> QED
    BY <2>1, <2>2
<1> HIDE DEF t, b
<1>8. /\ << x >> \in Seq(Filters) /\ ToSet(<< x >>) = {x}
      /\ << f >> \in Seq(Filters) /\ ToSet(<< f >>) = {f}
  BY <1>3, PieceOne
<1>9. PICK p, q : Splits(p, << x >>, t) /\ Splits(q, p, << f >>) /\ Splits(ns, q, b)
  BY <1>6, <1>7, <1>8, Pieces DEF ns
<1>10. ns \in Seq(Filters) /\ ToSet(ns) \subseteq {x, m, f, n}
  BY <1>6, <1>7, <1>8, <1>9 DEF Splits
<1> QED
  BY <1>2, <1>5, <1>10 DEF MainNodes, DeviceFilters

LEMMA RecomposeMain ==
  ASSUME NEW k, k.backend = "sw", NEW s, NEW select \in BOOLEAN
  PROVE  MainNodes(Recompose(k, s, select).nodes)
<1> DEFINE g == composeBurnSW(s)
           r == appendSelectStage(g, select).nodes
<1>1. Recompose(k, s, select).nodes = r
  BY DEF Recompose
<1>2. MainNodes(g.nodes) /\ g \in Graphs
  BY SWDraws, ComposedSWTyped DEF Fresh
<1> HIDE DEF g
<1>3. CASE r = g.nodes
  BY <1>1, <1>2, <1>3
<1>4. CASE r # g.nodes
  <2>1. PICK n \in Filters : n.f = "select" /\ Splits(r, g.nodes, << n >>)
    BY <1>2, <1>4, SelectPiece
  <2>2. r \in Seq(Filters) /\ ToSet(r) = ToSet(g.nodes) \cup {n}
    BY <2>1, PieceOne DEF Splits
  <2> QED
    BY <1>1, <1>2, <2>1, <2>2 DEF MainNodes, DeviceFilters
<1> QED
  BY <1>3, <1>4

-----------------------------------------------------------------------------
\* A graph that stays on the GPU.
Uploads(g) == g.nodes # << >> /\ g.nodes[1].f = "hwupload"

\* What a pass keeps of the depth.
DepthKept(s, r) ==
  SpelledOut(s) =>
    SpelledOut(r) /\ (ScaledTo(s) => ScaledTo(r)) /\ (TenIn(r) <=> TenIn(s))

LEMMA ResidentKeeps ==
  ASSUME NEW g \in Graphs
  PROVE  /\ DepthKept(g.nodes, gpuResidentGraph(g).nodes)
         /\ \A m, d :
              /\ d \in {"vaapi", "cuda"} /\ Memory(g.nodes, m, d) # "lost"
              /\ m = d \/ Uploads(g)
              => Memory(gpuResidentGraph(g).nodes, d, d) = Memory(g.nodes, m, d)
<1> DEFINE led  == IF Leads(g, "hwupload") THEN [RemoveNode(g, 1) EXCEPT !.lead = "ordinal"] ELSE g
           s    == led.nodes
           back == {i \in 1..(Len(led.nodes) - 1) :
                      led.nodes[i].f = "hwmap_back" /\ led.nodes[i + 1].f = "hwdownload"}
           i    == CHOOSE x \in back : TRUE
           r    == gpuResidentGraph(g).nodes
<1>1. g.nodes \in Seq(Filters)
  BY DEF Graphs
<1>2. /\ s \in Seq(Filters)
      /\ DepthKept(g.nodes, s)
      /\ \A m, d :
           /\ d \in {"vaapi", "cuda"} /\ Memory(g.nodes, m, d) # "lost"
           /\ m = d \/ Uploads(g)
           => Memory(s, d, d) = Memory(g.nodes, m, d)
  <2>1. CASE Leads(g, "hwupload")
    <3>1. /\ 1 \in 1..Len(g.nodes) /\ g.nodes[1].f = "hwupload" /\ g.nodes # << >>
      BY <2>1, <1>1 DEF Leads
    <3>2. s = RemoveAt(g.nodes, 1)
      BY <2>1 DEF RemoveNode, Graphs
    <3> HIDE DEF led, s
    <3>3. s \in Seq(Filters)
      BY <3>1, <3>2, <1>1, RemoveAtIs
    <3>4. DepthKept(g.nodes, s)
      BY <3>1, <3>2, <1>1, DroppedDepth DEF DepthKept
    <3>5. ASSUME NEW m, NEW d, d \in {"vaapi", "cuda"}, Memory(g.nodes, m, d) # "lost"
          PROVE  Memory(s, d, d) = Memory(g.nodes, m, d)
      BY <3>1, <3>2, <3>5, <1>1, DroppedUpload
    <3> QED
      BY <3>3, <3>4, <3>5
  <2>2. CASE ~ Leads(g, "hwupload")
    <3>1. s = g.nodes
      BY <2>2
    <3> HIDE DEF led, s
    <3>2. ASSUME NEW m, NEW d, d \in {"vaapi", "cuda"}, Memory(g.nodes, m, d) # "lost",
                 m = d \/ Uploads(g)
          PROVE  Memory(g.nodes, d, d) = Memory(g.nodes, m, d)
      <4>1. CASE m = d
        BY <4>1
      <4>2. CASE Uploads(g)
        BY <4>2, <3>2, <1>1, DroppedUpload DEF Uploads
      <4> QED
        BY <3>2, <4>1, <4>2
    <3> QED
      BY <1>1, <3>1, <3>2 DEF DepthKept
  <2> QED
    BY <2>1, <2>2
<1>3. r = IF back = {} THEN s ELSE RemoveAt(s, i)
  <2>1. gpuResidentGraph(g) = IF back = {} THEN led ELSE RemoveNode(led, i)
    BY DEF gpuResidentGraph
  <2>2. led \in Graphs
    <3>1. CASE Leads(g, "hwupload")
      <4>1. RemoveNode(g, 1) \in Graphs
        BY <3>1, RemoveNodeIs DEF Leads, Graphs
      <4> QED
        BY <3>1, <4>1 DEF Graphs
    <3>2. CASE ~ Leads(g, "hwupload")
      BY <3>2
    <3> QED
      BY <3>1, <3>2
  <2> HIDE DEF led, i, back
  <2>3. RemoveNode(led, i).nodes = RemoveAt(led.nodes, i)
    BY <2>2 DEF RemoveNode, Graphs
  <2> QED
    BY <2>1, <2>3
<1>4. CASE back = {}
  <2>1. r = s
    BY <1>3, <1>4
  <2> QED
    BY <1>2, <2>1
<1>5. CASE back # {}
  <2>1. i \in back
    BY <1>5
  <2>2. r = RemoveAt(s, i)
    BY <1>3, <1>5
  <2>3. i \in 1..(Len(s) - 1) /\ s[i].f = "hwmap_back" /\ s[i + 1].f = "hwdownload"
    BY <2>1
  <2> HIDE DEF i, back, led, s, r
  <2>4. i \in 1..Len(s) /\ s[i] \in Filters
    BY <1>2, <2>3
  <2>5. DepthKept(s, r)
    BY <1>2, <2>2, <2>3, <2>4, DroppedDepth DEF DepthKept
  <2>6. DepthKept(g.nodes, r)
    BY <1>2, <2>5 DEF DepthKept
  <2>7. ASSUME NEW m, NEW d, d \in {"vaapi", "cuda"}, Memory(g.nodes, m, d) # "lost",
               m = d \/ Uploads(g)
        PROVE  Memory(r, d, d) = Memory(g.nodes, m, d)
    <3>1. Memory(s, d, d) = Memory(g.nodes, m, d)
      BY <1>2, <2>7
    <3>2. Memory(RemoveAt(s, i), d, d) = Memory(s, d, d)
      BY <1>2, <2>3, <2>7, <3>1, DroppedWayBack
    <3> QED
      BY <2>2, <3>1, <3>2
  <2> QED
    BY <2>6, <2>7 DEF r
<1> QED
  BY <1>4, <1>5

-----------------------------------------------------------------------------
(***************************************************************************)
(* What each phase writes, field by field.                                 *)
(***************************************************************************)
LEMMA ForeignWrites ==
  ASSUME NEW v \in Videos, NEW k \in WorkerKinds, k.backend \in GPUs
  PROVE  LET u     == reshapeForeignHWArgv(v, k)
             facts == extractGraphFacts(v.graph, "none")
             ten   == graphFeedsTenBit(v.graph) /\ ~ facts.hdr /\ encoderIsHEVC(v)
         IN  /\ u.enc = Reencoded(v.enc, k.backend)
             /\ u.dec = v.dec /\ u.hex = v.hex /\ u.main10 = v.main10
             /\ u.accel = IF v.accel = "none" \/ v.hex THEN v.accel ELSE hwaccelName(k.backend)
             /\ u.outfmt = IF v.outfmt = "none" \/ v.hex THEN v.outfmt
                           ELSE hwaccelOutputFormat(k.backend)
             /\ u.graph = IF ~ isSWFilterGraph(v.graph) /\ facts.ok /\ facts.kind # "bitmap"
                          THEN Recompose(k, Burn(facts, TRUE, ten), facts.select)
                          ELSE v.graph
<1> DEFINE b     == k.backend
           facts == extractGraphFacts(v.graph, "none")
           ten   == graphFeedsTenBit(v.graph) /\ ~ facts.hdr /\ encoderIsHEVC(v)
           a     == IF v.accel = "none" \/ v.hex THEN v.accel ELSE hwaccelName(b)
           o     == IF v.outfmt = "none" \/ v.hex THEN v.outfmt ELSE hwaccelOutputFormat(b)
           d     == IF v.device = "none" THEN v.device ELSE initHWDevice(b)
           named == [v EXCEPT !.accel = a, !.outfmt = o, !.device = d]
           g     == Recompose(k, Burn(facts, TRUE, ten), facts.select)
           fresh == ~ isSWFilterGraph(v.graph) /\ facts.ok /\ facts.kind # "bitmap"
           drawn == IF fresh THEN Regraph(named, g) ELSE named
           u     == reshapeForeignHWArgv(v, k)
<1>1. u = [drawn EXCEPT !.enc = Reencoded(drawn.enc, b)]
  <2>1. [v EXCEPT !.accel  = IF @ = "none" \/ v.hex THEN @ ELSE hwaccelName(b),
                  !.outfmt = IF @ = "none" \/ v.hex THEN @ ELSE hwaccelOutputFormat(b),
                  !.device = IF @ = "none" THEN @ ELSE initHWDevice(b)] = named
    BY DEF Videos
  <2> HIDE DEF named
  <2> QED
    BY <2>1 DEF reshapeForeignHWArgv
<1>2. a \in Names /\ o \in Names /\ d \in Names
  BY DialectIs DEF Videos
<1>3. g \in Graphs
  BY RecomposeTyped DEF Fresh
<1> HIDE DEF a, o, d, g, fresh, u
<1>4. /\ named \in Videos /\ named.enc = v.enc /\ named.dec = v.dec /\ named.hex = v.hex
      /\ named.main10 = v.main10 /\ named.accel = a /\ named.outfmt = o /\ named.graph = v.graph
  BY <1>2 DEF Videos
<1> HIDE DEF named
<1>5. /\ drawn \in Videos /\ drawn.enc = v.enc /\ drawn.dec = v.dec /\ drawn.hex = v.hex
      /\ drawn.main10 = v.main10 /\ drawn.accel = a /\ drawn.outfmt = o
      /\ drawn.graph = IF fresh THEN g ELSE v.graph
  <2>1. CASE fresh
    <3>1. Regraph(named, g) \in Videos /\ OnlyGraph(Regraph(named, g), named)
          /\ Regraph(named, g).graph = g
      BY <1>3, <1>4, RegraphIs
    <3> QED
      BY <1>4, <2>1, <3>1 DEF OnlyGraph
  <2>2. CASE ~ fresh
    BY <1>4, <2>2
  <2> QED
    BY <2>1, <2>2
<1> HIDE DEF drawn
<1>6. /\ u.enc = Reencoded(v.enc, b) /\ u.dec = v.dec /\ u.hex = v.hex /\ u.main10 = v.main10
      /\ u.accel = a /\ u.outfmt = o /\ u.graph = IF fresh THEN g ELSE v.graph
  BY <1>1, <1>5 DEF Videos
<1> QED
  BY <1>6 DEF u, a, o, g, fresh

LEMMA SoftwareWrites ==
  ASSUME NEW v \in Videos
  PROVE  LET u     == reshapeToSoftware(v)
             facts == extractGraphFacts(v.graph, "none")
         IN  /\ u.enc = Reencoded(v.enc, "sw") /\ u.accel = "none" /\ u.outfmt = "none"
             /\ u.graph = IF ~ isSWFilterGraph(v.graph) /\ facts.ok
                          THEN Recompose([backend |-> "sw"], Burn(facts, FALSE, FALSE), facts.select)
                          ELSE v.graph
<1> DEFINE facts    == extractGraphFacts(v.graph, "none")
           d        == IF v.dec = "av1" THEN "libdav1d" ELSE v.dec
           e        == Reencoded(v.enc, "sw")
           stripped == [v EXCEPT !.accel = "none", !.outfmt = "none", !.device = "none", !.ocl = FALSE,
                                 !.dec = d, !.enc = e]
           g        == Recompose([backend |-> "sw"], Burn(facts, FALSE, FALSE), facts.select)
           fresh    == ~ isSWFilterGraph(v.graph) /\ facts.ok
           u        == reshapeToSoftware(v)
<1>1. u = IF fresh THEN Regraph(stripped, g) ELSE stripped
  BY DEF reshapeToSoftware
<1>2. d \in Names /\ e \in Names /\ "none" \in Names
  BY ReencodedIs, NamesAssumption DEF Videos
<1>3. g \in Graphs
  BY RecomposeTyped DEF Fresh
<1> HIDE DEF d, e, g, fresh, u
<1>4. /\ stripped \in Videos /\ stripped.enc = e /\ stripped.accel = "none"
      /\ stripped.outfmt = "none" /\ stripped.graph = v.graph
  BY <1>2 DEF Videos
<1> HIDE DEF stripped
<1>5. /\ OnlyGraph(Regraph(stripped, g), stripped) /\ Regraph(stripped, g).graph = g
  BY <1>3, <1>4, RegraphIs
<1>6. u.enc = e /\ u.accel = "none" /\ u.outfmt = "none" /\ u.graph = IF fresh THEN g ELSE v.graph
  BY <1>1, <1>4, <1>5 DEF OnlyGraph
<1> QED
  BY <1>6 DEF u, e, g, fresh

LEMMA ScrubWrites ==
  ASSUME IInv, Scrub
  PROVE  LET v == job.video
         IN  /\ argv'.graph = Origin(w, v) /\ argv'.enc = v.enc /\ argv'.dec = v.dec
             /\ argv'.hex = v.hex /\ argv'.accel = v.accel /\ argv'.outfmt = v.outfmt
             /\ argv'.main10 = v.main10
<1> DEFINE v == job.video
           f == [v.graph EXCEPT !.fonts = FALSE]
           g == substituteOpenCLTonemap(w, f)
<1>1. v \in Videos /\ argv = v
  BY PlexJob DEF IInv, Phased, Scrub
<1>2. argv' = [Scrubbed(v) EXCEPT !.graph = substituteOpenCLTonemap(w, @)]
  BY <1>1 DEF Scrub
<1> HIDE DEF f
<1>3. argv' = [v EXCEPT !.graph = g]
  BY <1>1, <1>2 DEF Scrubbed, Videos, f
<1>4. g = Origin(w, v)
  BY DEF Origin, f
<1> HIDE DEF v, g
<1> QED
  BY <1>1, <1>3, <1>4 DEF Videos, v

LEMMA UpgradeWrites ==
  ASSUME IInv, UpgradeDecoder
  PROVE  /\ argv'.graph = argv.graph /\ argv'.enc = argv.enc /\ argv'.main10 = argv.main10
         /\ argv'.accel = hwaccelName(w.backend) /\ argv'.outfmt = hwaccelOutputFormat(w.backend)
<1> DEFINE d == IF IsShort THEN argv.dec ELSE decoderMap(w.backend)[argv.dec]
           v == [argv EXCEPT !.dec = d]
<1>1. argv \in Videos
  BY DEF IInv, TypeOK
<1>2. argv' = Accelerated(v, w.backend)
  BY <1>1 DEF UpgradeDecoder, DecoderSet, Videos
<1> HIDE DEF d
<1> QED
  BY <1>1, <1>2 DEF Accelerated, Videos

LEMMA DeviceWrites ==
  ASSUME IInv, SetDevice
  PROVE  /\ argv'.graph = argv.graph /\ argv'.enc = argv.enc /\ argv'.main10 = argv.main10
         /\ argv'.accel = argv.accel /\ argv'.outfmt = argv.outfmt
         /\ argv'.device = IF honour = "sw" THEN "none" ELSE initHWDevice(w.backend)
<1>1. argv \in Videos
  BY DEF IInv, TypeOK
<1>2. argv' = IF honour = "sw" THEN [argv EXCEPT !.device = "none"] ELSE DeviceFor(argv)
  BY DEF SetDevice
<1> QED
  BY <1>1, <1>2 DEF DeviceFor, Videos

LEMMA MoveWrites ==
  ASSUME IInv, MovePicture
  PROVE  /\ argv'.graph =
              Recompose(w, Burn(PictureFacts, FALSE, FALSE), PictureFacts.select)
         /\ argv'.enc = encoderMap(w.backend)[argv.enc] /\ argv'.main10 = argv.main10
         /\ argv'.accel = argv.accel /\ argv'.outfmt = argv.outfmt /\ argv'.device = argv.device
<1> DEFINE g == Recompose(w, Burn(PictureFacts, FALSE, FALSE), PictureFacts.select)
           v == Regraph(argv, g)
<1>1. argv \in Videos /\ g \in Graphs
  BY RecomposeTyped DEF IInv, TypeOK, Fresh
<1>2. argv' = [v EXCEPT !.enc = encoderMap(w.backend)[v.enc]]
  BY DEF MovePicture
<1> HIDE DEF g
<1>3. v \in Videos /\ OnlyGraph(v, argv) /\ v.graph = g
  BY <1>1, RegraphIs
<1> HIDE DEF v
<1> QED
  BY <1>2, <1>3 DEF Videos, OnlyGraph, g

LEMMA ResidentWrites ==
  ASSUME job \in Jobs, NEW v \in Videos
  PROVE  /\ Resident(v) \in Videos
         /\ Resident(v).outfmt = (IF v.accel = "none" THEN v.outfmt
                                  ELSE hwaccelOutputFormat(w.backend))
         /\ Resident(v).enc = v.enc /\ Resident(v).accel = v.accel /\ Resident(v).device = v.device
         /\ Resident(v).main10 = v.main10
<1>1. hwaccelOutputFormat(w.backend) \in Names
  BY JobIs, DialectIs
<1> QED
  BY <1>1 DEF Resident, Videos

\* Both burns of a hardware picture.
LEMMA BurnWrites ==
  ASSUME IInv, NEW c, Fresh(c), NEW ia \in {"none", "embedded", "sidecar"},
         argv' = [Regraph(Resident(argv), c) EXCEPT !.ia = ia]
  PROVE  /\ argv'.graph = c /\ argv'.enc = argv.enc /\ argv'.main10 = argv.main10
         /\ argv'.accel = argv.accel /\ argv'.device = argv.device
         /\ argv'.outfmt = (IF argv.accel = "none" THEN argv.outfmt
                            ELSE hwaccelOutputFormat(w.backend))
<1> DEFINE r == Resident(argv)
           v == Regraph(r, c)
<1>1. /\ r \in Videos /\ c \in Graphs
      /\ r.outfmt = IF argv.accel = "none" THEN argv.outfmt ELSE hwaccelOutputFormat(w.backend)
      /\ r.enc = argv.enc /\ r.accel = argv.accel /\ r.device = argv.device /\ r.main10 = argv.main10
  BY ResidentWrites DEF IInv, TypeOK, Phased, Fresh
<1> HIDE DEF r
<1>2. v \in Videos /\ OnlyGraph(v, r) /\ v.graph = c
  BY <1>1, RegraphIs
<1>3. argv' = [v EXCEPT !.ia = ia]
  BY DEF r
<1> HIDE DEF v
<1> QED
  BY <1>1, <1>2, <1>3 DEF Videos, OnlyGraph

LEMMA TextWrites ==
  ASSUME IInv, BurnText
  PROVE  /\ argv'.graph =
              Recompose(w, Burn(PictureFacts, TRUE, KeepsTenBit(media.hdr, PictureFacts)),
                        PictureFacts.select)
         /\ argv'.enc = argv.enc /\ argv'.main10 = argv.main10
         /\ argv'.accel = argv.accel /\ argv'.device = argv.device
         /\ argv'.outfmt = (IF argv.accel = "none" THEN argv.outfmt
                            ELSE hwaccelOutputFormat(w.backend))
<1> DEFINE c == Recompose(w, Burn(PictureFacts, TRUE, KeepsTenBit(media.hdr, PictureFacts)),
                          PictureFacts.select)
           r == Resident(argv)
           v == Regraph(r, c)
<1>1. Fresh(c) /\ argv' = v
  BY RecomposeTyped DEF BurnText
<1> HIDE DEF c
<1>2. r \in Videos /\ v \in Videos
  BY <1>1, ResidentWrites, RegraphIs DEF IInv, TypeOK, Phased, Fresh
<1>3. v = [v EXCEPT !.ia = v.ia] /\ v.ia \in {"none", "embedded", "sidecar"}
  <2> HIDE DEF v
  <2> QED
    BY <1>2 DEF Videos
<1>4. PICK ia \in {"none", "embedded", "sidecar"} :
        argv' = [Regraph(Resident(argv), c) EXCEPT !.ia = ia]
  BY <1>1, <1>3
<1> QED
  BY <1>1, <1>4, BurnWrites DEF c

LEMMA OverlayWrites ==
  ASSUME IInv, BurnOverlay
  PROVE  /\ argv'.graph = composeBurn(w, OverlaySpec)
         /\ argv'.enc = argv.enc /\ argv'.main10 = argv.main10
         /\ argv'.accel = argv.accel /\ argv'.device = argv.device
         /\ argv'.outfmt = (IF argv.accel = "none" THEN argv.outfmt
                            ELSE hwaccelOutputFormat(w.backend))
<1> DEFINE c == composeBurn(w, OverlaySpec)
<1>1. Fresh(c)
  BY ComposedGPUTyped
<1>2. argv' = [Regraph(Resident(argv), c) EXCEPT !.ia = "embedded"]
  BY DEF BurnOverlay
<1> HIDE DEF c
<1> QED
  BY <1>1, <1>2, BurnWrites DEF c

LEMMA SettleWrites ==
  ASSUME IInv, SettlePicture
  PROVE  LET stays == w.backend = "vaapi" /\ argv.accel # "none" /\ Has(argv.graph, {"tonemap_opencl"})
         IN  /\ argv'.graph = (IF stays THEN gpuResidentGraph(argv.graph) ELSE argv.graph)
             /\ argv'.enc = argv.enc /\ argv'.accel = argv.accel /\ argv'.device = argv.device
             /\ argv'.outfmt = (IF stays /\ argv.outfmt = "none" THEN "vaapi" ELSE argv.outfmt)
             /\ stays /\ argv.device \in {"vaapi", "vaapi+driver"} => argv'.ocl
             /\ argv'.main10 <=> argv.main10 \/ (encoderIsHEVC(argv') /\ graphFeedsTenBit(argv'.graph))
<1> DEFINE stays == w.backend = "vaapi" /\ argv.accel # "none" /\ Has(argv.graph, {"tonemap_opencl"})
           g == IF stays THEN gpuResidentGraph(argv.graph) ELSE argv.graph
           f == IF stays /\ argv.outfmt = "none" THEN "vaapi" ELSE argv.outfmt
           u == IF stays THEN OpenCLResident(argv) ELSE argv
           v == ensureHEVCMain10(u)
           x == [v EXCEPT !.sei = @ \/ (honour = "none" /\ v.keyframes)]
<1>1. argv \in Videos /\ Clean(argv)
  BY CleanNow DEF IInv, TypeOK, SettlePicture
<1>2. argv' = x
  BY DEF SettlePicture
<1>3. u \in Videos
  BY <1>1, OpenCLIs DEF SameAxes, Clean
<1>4. /\ u.graph = g /\ u.enc = argv.enc /\ u.accel = argv.accel /\ u.device = argv.device
      /\ u.outfmt = f /\ u.main10 = argv.main10
      /\ stays /\ argv.device \in {"vaapi", "vaapi+driver"} => u.ocl
  <2>1. CASE stays
    <3>1. u = OpenCLResident(argv) /\ f = (IF argv.outfmt = "none" THEN "vaapi" ELSE argv.outfmt)
          /\ g = gpuResidentGraph(argv.graph)
      BY <2>1
    <3> HIDE DEF u, f, g, stays
    <3> QED
      BY <1>1, <3>1 DEF OpenCLResident, Videos
  <2>2. CASE ~ stays
    BY <2>2
  <2> QED
    BY <2>1, <2>2
<1> HIDE DEF u, g, f, stays
<1>5. /\ v.graph = u.graph /\ v.enc = u.enc /\ v.accel = u.accel /\ v.device = u.device
      /\ v.outfmt = u.outfmt /\ v.ocl = u.ocl
      /\ v.main10 = (u.main10 \/ (encoderIsHEVC(u) /\ graphFeedsTenBit(u.graph)))
      /\ v \in Videos
  <2>1. v \in Videos
    <3>1. (u.main10 \/ (encoderIsHEVC(u) /\ graphFeedsTenBit(u.graph))) \in BOOLEAN
      OBVIOUS
    <3> QED
      BY <1>3, <3>1 DEF ensureHEVCMain10, Videos
  <2> QED
    BY <1>3, <2>1 DEF ensureHEVCMain10, Videos
<1> HIDE DEF v
<1>6. /\ x.graph = v.graph /\ x.enc = v.enc /\ x.accel = v.accel /\ x.device = v.device
      /\ x.outfmt = v.outfmt /\ x.ocl = v.ocl /\ x.main10 = v.main10
  BY <1>5 DEF Videos
<1> HIDE DEF x
<1>7. encoderIsHEVC(argv') <=> encoderIsHEVC(u)
  BY <1>2, <1>5, <1>6 DEF encoderIsHEVC
<1> QED
  BY <1>2, <1>4, <1>5, <1>6, <1>7 DEF g, f, stays

LEMMA FinishWrites ==
  ASSUME IInv, FinishTransport
  PROVE  /\ argv'.graph = argv.graph /\ argv'.enc = argv.enc /\ argv'.main10 = argv.main10
         /\ argv'.accel = argv.accel /\ argv'.outfmt = argv.outfmt /\ argv'.device = argv.device
         /\ argv'.ocl = argv.ocl
<1>1. argv \in Videos
  BY DEF IInv, TypeOK
<1>2. argv' = argv \/ argv' = stripInlineassDecodeSink(argv)
  BY DEF FinishTransport
<1> QED
  BY <1>1, <1>2 DEF stripInlineassDecodeSink, Videos

-----------------------------------------------------------------------------
(***************************************************************************)
(* ProfileMatches: the depth that a graph's names tell at each phase.      *)
(***************************************************************************)
\* What a GPU's encoder e is fed by graph g on worker k: only an AMD worker
\* maps tones in the burn; elsewhere each depth is named, and ten bits are HEVC's.
Deep(k, e, g) ==
  /\ Has(g, SDRMappers) => AMDVaapi(k)
  /\ hwEncoderCodec(e) # "none" /\ ~ Has(g, SDRMappers) =>
       DepthNamed(g) /\ (graphFeedsTenBit(g) => hwEncoderCodec(e) = "hevc")

\* The profile is written when the graph is settled.
Profiled ==
  HW /\ ~ remux /\ reason = "none" =>
    /\ Early \/ pc = "resident" => Deep(w, argv.enc, argv.graph) /\ ~ argv.main10
    /\ pc \in {"tail", "done"} =>
         /\ Deep(w, argv.enc, argv.graph)
         /\ encoderIsHEVC(argv) => (argv.main10 <=> graphFeedsTenBit(argv.graph))

LEMMA HasSDR == ASSUME NEW g PROVE Has(g, SDRMappers) <=> SDRNodes(g.nodes)
BY HasNode DEF SDRNodes

\* The graph the first phase leaves names its depths as Plex's does.
LEMMA OriginDeep ==
  ASSUME NEW k, NEW v0 \in PlexVideos
  PROVE  Deep(k, v0.enc, Origin(k, v0)) /\ ~ Has(Origin(k, v0), SDRMappers)
<1> DEFINE j == v0.graph
           f == [j EXCEPT !.fonts = FALSE]
           o == Origin(k, v0)
<1>1. j \in PlexGraphs /\ j \in Graphs /\ v0 \in Videos
  BY DEF PlexVideos, PlexGraphs
<1>2. ~ Has(o, SDRMappers)
  <2>1. Has(o, SDRMappers) <=> Has(j, SDRMappers)
    BY OriginIs DEF SDRMappers
  <2> QED
    BY <1>1, <2>1, PlexGraphIs DEF SDRMappers
<1>3. CASE hwEncoderCodec(v0.enc) # "none"
  <2>1. DepthNamed(j) /\ (graphFeedsTenBit(j) => hwEncoderCodec(v0.enc) = "hevc")
    BY <1>3 DEF PlexVideos, PlexHardware, encoderIsHEVC
  <2>2. /\ SpelledOut(j.nodes) /\ ScaledTo(j.nodes)
        /\ TenIn(j.nodes) => hwEncoderCodec(v0.enc) = "hevc"
    BY <2>1, NamedIs
  <2>3. f \in Graphs /\ f.nodes = j.nodes
    BY <1>1 DEF Graphs
  <2>4. o = substituteOpenCLTonemap(k, f)
    BY DEF Origin
  <2> HIDE DEF f, o, j
  <2>5. SpelledOut(o.nodes) /\ ScaledTo(o.nodes) /\ (TenIn(o.nodes) <=> TenIn(j.nodes))
    BY <2>2, <2>3, <2>4, SubstituteKeeps
  <2>6. DepthNamed(o) /\ (graphFeedsTenBit(o) <=> TenIn(j.nodes))
    BY <2>5, NamedIs
  <2> QED
    BY <1>2, <2>2, <2>6 DEF Deep, o
<1>4. CASE hwEncoderCodec(v0.enc) = "none"
  BY <1>2, <1>4 DEF Deep
<1> QED
  BY <1>2, <1>3, <1>4

\* So does a graph that is drawn anew.
LEMMA DrawnDeep ==
  ASSUME NEW k, NEW s, NEW e, NEW c, Draws(k, s, c.nodes),
         s.tenBit => hwEncoderCodec(e) = "hevc"
  PROVE  Deep(k, e, c)
<1>1. Has(c, SDRMappers) <=> SDRNodes(c.nodes)
  BY HasSDR
<1>2. /\ DepthNamed(c) <=> SpelledOut(c.nodes) /\ ScaledTo(c.nodes)
      /\ graphFeedsTenBit(c) <=> TenIn(c.nodes)
  BY NamedIs
<1> QED
  BY <1>1, <1>2 DEF Deep, Draws

\* And one that stays on the GPU.
LEMMA ResidentDeep ==
  ASSUME NEW k, NEW e, NEW g \in Graphs, Deep(k, e, g)
  PROVE  Deep(k, e, gpuResidentGraph(g))
<1> DEFINE h == gpuResidentGraph(g)
<1>1. Has(h, SDRMappers) <=> Has(g, SDRMappers)
  BY ResidentIs DEF SDRMappers
<1>2. DepthKept(g.nodes, h.nodes)
  BY ResidentKeeps
<1> HIDE DEF h
<1>3. DepthNamed(g) => DepthNamed(h) /\ (graphFeedsTenBit(h) <=> graphFeedsTenBit(g))
  BY <1>2, NamedIs DEF DepthKept
<1> QED
  BY <1>1, <1>3 DEF Deep, h

\* Another backend's name for an encoder is of the same codec.
LEMMA ReencodedCodec ==
  ASSUME NEW b \in GPUs, NEW e
  PROVE  hwEncoderCodec(Reencoded(e, b)) = hwEncoderCodec(e)
<1>1. hwEncoderCodec(e) \in {"h264", "hevc", "none"}
  BY DEF hwEncoderCodec
<1>2. b = "vaapi" \/ b = "nvenc"
  BY DEF GPUs
<1>3. CASE hwEncoderCodec(e) = "none"
  BY <1>3 DEF Reencoded
<1>4. CASE hwEncoderCodec(e) # "none"
  <2>1. Reencoded(e, b) = encoderMap(b)[codecCanonicalSWEncoder[hwEncoderCodec(e)]]
    BY <1>4 DEF Reencoded
  <2>2. CASE hwEncoderCodec(e) = "h264"
    <3>1. Reencoded(e, b) = IF b = "vaapi" THEN "h264_vaapi" ELSE "h264_nvenc"
      BY <1>2, <2>1, <2>2 DEF encoderMap, codecCanonicalSWEncoder
    <3> QED
      BY <1>2, <2>2, <3>1 DEF hwEncoderCodec
  <2>3. CASE hwEncoderCodec(e) = "hevc"
    <3>1. Reencoded(e, b) = IF b = "vaapi" THEN "hevc_vaapi" ELSE "hevc_nvenc"
      BY <1>2, <2>1, <2>3 DEF encoderMap, codecCanonicalSWEncoder
    <3> QED
      BY <1>2, <2>3, <3>1 DEF hwEncoderCodec
  <2> QED
    BY <1>1, <1>4, <2>2, <2>3
<1> QED
  BY <1>3, <1>4

-----------------------------------------------------------------------------
\* The graph is drawn for frames on the GPU, with ten bits only for HEVC, from
\* one that Plex drew.
LEMMA ForeignDeep ==
  ASSUME NEW v \in Videos, NEW k \in WorkerKinds, k.backend \in GPUs,
         Deep(k, v.enc, v.graph), ~ Has(v.graph, SDRMappers)
  PROVE  LET u == reshapeForeignHWArgv(v, k)
         IN  Deep(k, u.enc, u.graph) /\ u.main10 = v.main10
<1> DEFINE u     == reshapeForeignHWArgv(v, k)
           facts == extractGraphFacts(v.graph, "none")
           ten   == graphFeedsTenBit(v.graph) /\ ~ facts.hdr /\ encoderIsHEVC(v)
           fresh == ~ isSWFilterGraph(v.graph) /\ facts.ok /\ facts.kind # "bitmap"
           s     == Burn(facts, TRUE, ten)
           c     == Recompose(k, s, facts.select)
<1>1. /\ u.enc = Reencoded(v.enc, k.backend) /\ u.main10 = v.main10
      /\ u.graph = IF fresh THEN c ELSE v.graph
  BY ForeignWrites
<1>2. FactsRead(facts, v.graph, "none")
  BY FactsAre
<1>3. hwEncoderCodec(u.enc) = hwEncoderCodec(v.enc)
  BY <1>1, ReencodedCodec
<1> HIDE DEF facts, u
<1>4. ASSUME ~ fresh PROVE Deep(k, u.enc, u.graph)
  BY <1>1, <1>3, <1>4 DEF Deep
<1>5. ASSUME fresh PROVE Deep(k, u.enc, u.graph)
  <2>1. facts.hdr \in BOOLEAN /\ facts.sdr = FALSE /\ facts.select \in BOOLEAN
    BY <1>2 DEF FactsRead, SDRMappers
  <2>2. ten \in BOOLEAN /\ (ten => hwEncoderCodec(v.enc) = "hevc")
    BY DEF encoderIsHEVC
  <2> HIDE DEF ten
  <2>3. Asked(s) /\ s.tenBit = ten /\ s.sdr = FALSE
    BY <2>1 DEF Burn, Asked
  <2> HIDE DEF s
  <2>4. Draws(k, s, c.nodes)
    BY <2>1, <2>2, <2>3, RecomposeDraws
  <2>5. u.graph = c
    BY <1>1, <1>5
  <2> HIDE DEF c
  <2>6. s.tenBit => hwEncoderCodec(u.enc) = "hevc"
    BY <1>3, <2>2, <2>3
  <2> QED
    BY <2>4, <2>5, <2>6, DrawnDeep
<1> QED
  BY <1>1, <1>4, <1>5 DEF u

\* A software picture that moves is drawn with eight bits.
LEMMA MoveDeep ==
  ASSUME IInv, HW, MovePicture, Deep(w, argv.enc, argv.graph)
  PROVE  Deep(w, argv'.enc, argv'.graph) /\ argv'.main10 = argv.main10
<1> DEFINE f == PictureFacts
           s == Burn(f, FALSE, FALSE)
           c == Recompose(w, s, f.select)
<1>1. w \in WorkerKinds /\ w.backend \in GPUs
  BY JobIs DEF IInv, Phased, HW
<1>2. argv'.graph = c /\ argv'.main10 = argv.main10
  BY MoveWrites
<1>3. FactsRead(f, argv.graph, Sub)
  BY SubIs, FactsAre DEF PictureFacts
<1> HIDE DEF f
<1>4. /\ f.hdr \in BOOLEAN /\ f.sdr \in BOOLEAN /\ f.select \in BOOLEAN
      /\ f.sdr => AMDVaapi(w)
  BY <1>3 DEF FactsRead, Deep, SDRMappers
<1>5. Asked(s) /\ s.tenBit = FALSE /\ (s.sdr => AMDVaapi(w))
  BY <1>4 DEF Burn, Asked
<1> HIDE DEF s
<1>6. Draws(w, s, c.nodes)
  BY <1>1, <1>4, <1>5, RecomposeDraws
<1> HIDE DEF c
<1> QED
  BY <1>2, <1>5, <1>6, DrawnDeep

\* A burn keeps ten bits for HEVC alone.
LEMMA TextDeep ==
  ASSUME IInv, HW, BurnText, Deep(w, argv.enc, argv.graph)
  PROVE  Deep(w, argv'.enc, argv'.graph) /\ argv'.main10 = argv.main10
<1> DEFINE f == PictureFacts
           ten == KeepsTenBit(media.hdr, f)
           s == Burn(f, TRUE, ten)
           c == Recompose(w, s, f.select)
<1>1. w \in WorkerKinds /\ w.backend \in GPUs
  BY JobIs DEF IInv, Phased, HW
<1>2. argv'.graph = c /\ argv'.enc = argv.enc /\ argv'.main10 = argv.main10
  BY TextWrites
<1>3. FactsRead(f, argv.graph, Sub)
  BY SubIs, FactsAre DEF PictureFacts
<1>4. ten \in BOOLEAN /\ (ten => hwEncoderCodec(argv.enc) = "hevc")
  BY DEF KeepsTenBit, encoderIsHEVC
<1> HIDE DEF f, ten
<1>5. /\ f.hdr \in BOOLEAN /\ f.sdr \in BOOLEAN /\ f.select \in BOOLEAN
      /\ f.sdr => AMDVaapi(w)
  BY <1>3 DEF FactsRead, Deep, SDRMappers
<1>6. Asked(s) /\ s.tenBit = ten /\ (s.sdr => AMDVaapi(w))
  BY <1>5 DEF Burn, Asked
<1> HIDE DEF s
<1>7. Draws(w, s, c.nodes)
  BY <1>1, <1>4, <1>5, <1>6, RecomposeDraws
<1> HIDE DEF c
<1>8. Deep(w, argv.enc, c)
  BY <1>4, <1>6, <1>7, DrawnDeep
<1> QED
  BY <1>2, <1>8

LEMMA OverlaySpecIs ==
  LET s == OverlaySpec
  IN  /\ Asked(s) /\ s.sdr = FALSE /\ s.tenBit \in BOOLEAN
      /\ s.resident = (argv.accel # "none")
      /\ s.tenBit => hwEncoderCodec(argv.enc) = "hevc"
BY DEF OverlaySpec, Asked, KeepsTenBit, encoderIsHEVC, Has

LEMMA OverlayDeep ==
  ASSUME IInv, HW, BurnOverlay
  PROVE  Deep(w, argv'.enc, argv'.graph) /\ argv'.main10 = argv.main10
<1> DEFINE s == OverlaySpec
           c == composeBurn(w, s)
<1>1. w \in WorkerKinds /\ w.backend \in GPUs
  BY JobIs DEF IInv, Phased, HW
<1>2. argv'.graph = c /\ argv'.enc = argv.enc /\ argv'.main10 = argv.main10
  BY OverlayWrites
<1>3. /\ Asked(s) /\ s.sdr = FALSE /\ s.tenBit \in BOOLEAN
      /\ s.tenBit => hwEncoderCodec(argv.enc) = "hevc"
  BY OverlaySpecIs
<1> HIDE DEF s
<1>4. Draws(w, s, c.nodes)
  BY <1>1, <1>3, ComposedDraws
<1> HIDE DEF c
<1>5. Deep(w, argv.enc, c)
  BY <1>3, <1>4, DrawnDeep
<1> QED
  BY <1>2, <1>5

\* The profile follows the graph the encoder gets.
LEMMA SettleDeep ==
  ASSUME IInv, SettlePicture, Deep(w, argv.enc, argv.graph), ~ argv.main10
  PROVE  /\ Deep(w, argv'.enc, argv'.graph)
         /\ encoderIsHEVC(argv') => (argv'.main10 <=> graphFeedsTenBit(argv'.graph))
<1>1. argv.graph \in Graphs
  BY DEF IInv, TypeOK, Videos
<1>2. /\ argv'.graph = gpuResidentGraph(argv.graph) \/ argv'.graph = argv.graph
      /\ argv'.enc = argv.enc
      /\ argv'.main10 <=> argv.main10 \/ (encoderIsHEVC(argv') /\ graphFeedsTenBit(argv'.graph))
  BY SettleWrites
<1>3. Deep(w, argv.enc, gpuResidentGraph(argv.graph))
  BY <1>1, ResidentDeep
<1> QED
  BY <1>2, <1>3

LEMMA ScrubDeep ==
  ASSUME IInv, Scrub
  PROVE  Deep(w, argv'.enc, argv'.graph) /\ ~ argv'.main10
<1>1. job.video \in PlexVideos
  BY PlexJob DEF IInv, Phased
<1>2. /\ argv'.graph = Origin(w, job.video) /\ argv'.enc = job.video.enc
      /\ argv'.main10 = job.video.main10
  BY ScrubWrites
<1>3. ~ job.video.main10
  BY <1>1 DEF PlexVideos, PlexHost
<1>4. Deep(w, job.video.enc, Origin(w, job.video))
  BY <1>1, OriginDeep
<1> QED
  BY <1>2, <1>3, <1>4

LEMMA ReshapeDeep ==
  ASSUME IInv, PicInv, HW, Reshape, Deep(w, argv.enc, argv.graph)
  PROVE  Deep(w, argv'.enc, argv'.graph) /\ argv'.main10 = argv.main10
<1>1. /\ job.video \in PlexVideos /\ argv \in Videos
      /\ w \in WorkerKinds /\ w.backend \in GPUs
  BY PlexJob, JobIs DEF IInv, TypeOK, Phased, HW
<1>2. argv.graph = Origin(w, job.video)
  BY DEF PicInv, Reshape
<1>3. ~ Has(argv.graph, SDRMappers)
  BY <1>1, <1>2, OriginDeep
<1>4. argv' = reshapeForeignHWArgv(argv, w) \/ argv' = argv
  BY <1>1 DEF Reshape, GPUs
<1>5. CASE argv' = argv
  BY <1>5
<1>6. CASE argv' = reshapeForeignHWArgv(argv, w)
  <2> DEFINE u == reshapeForeignHWArgv(argv, w)
  <2>1. Deep(w, u.enc, u.graph) /\ u.main10 = argv.main10
    BY <1>1, <1>3, ForeignDeep
  <2> HIDE DEF u
  <2>2. argv' = u
    BY <1>6 DEF u
  <2> QED
    BY <2>1, <2>2
<1> QED
  BY <1>4, <1>5, <1>6

-----------------------------------------------------------------------------
LEMMA ProfileInit == Init => Profiled
BY DEF Init, Profiled, Early

\* Deep is told of the same worker, and of what the step leaves.
LEMMA ProfileStays ==
  ASSUME Profiled, job' = job, remux' = remux, reason' = reason, pc \notin {"tail", "done"},
         HW /\ ~ remux /\ reason = "none" /\ (Early \/ pc = "resident") =>
           /\ Deep(w, argv'.enc, argv'.graph)
           /\ IF pc' = "tail" THEN encoderIsHEVC(argv') => (argv'.main10 <=> graphFeedsTenBit(argv'.graph))
              ELSE ~ argv'.main10,
         Early \/ pc = "resident", pc' # "done"
  PROVE  Profiled'
<1>1. w' = w /\ HW' = HW
  BY DEF w, HW
<1>2. HW /\ ~ remux /\ reason = "none" =>
        /\ (Early \/ pc = "resident")' => Deep(w, argv'.enc, argv'.graph) /\ ~ argv'.main10
        /\ pc' \in {"tail", "done"} =>
             /\ Deep(w, argv'.enc, argv'.graph)
             /\ encoderIsHEVC(argv') => (argv'.main10 <=> graphFeedsTenBit(argv'.graph))
  BY DEF Early
<1> QED
  BY <1>1, <1>2 DEF Profiled

LEMMA ProfileStep == IInv /\ PicInv /\ Profiled /\ [Next]_vars => Profiled'
<1> SUFFICES ASSUME IInv, PicInv, Profiled, [Next]_vars PROVE Profiled'
  OBVIOUS
<1>1. CASE Scrub
  <2>1. job' = job /\ (pc' = "gate" \/ (pc' = "tail" /\ remux'))
    BY <1>1 DEF Scrub, Advance
  <2>2. Deep(w, argv'.enc, argv'.graph) /\ ~ argv'.main10
    BY <1>1, ScrubDeep
  <2>3. w' = w
    BY <2>1 DEF w
  <2> QED
    BY <2>1, <2>2, <2>3 DEF Profiled
<1>2. ASSUME Early \/ pc = "resident",
             Gate \/ Reshape \/ KeepDecoder \/ UpgradeDecoder \/ SetDevice \/ MovePicture
             \/ BurnText \/ BurnOverlay \/ KeepPicture \/ SettlePicture
      PROVE  Profiled'
  <2>1. /\ job' = job /\ remux' = remux /\ reason' = reason /\ pc' # "done"
        /\ pc' = "tail" <=> SettlePicture
    BY <1>2 DEF Gate, Reshape, KeepDecoder, UpgradeDecoder, DecoderSet, SetDevice, MovePicture,
                BurnText, BurnOverlay, KeepPicture, SettlePicture, Advance, HardwareEncoder
  <2>2. ASSUME HW, ~ remux, reason = "none"
        PROVE  /\ Deep(w, argv'.enc, argv'.graph)
               /\ IF pc' = "tail"
                  THEN encoderIsHEVC(argv') => (argv'.main10 <=> graphFeedsTenBit(argv'.graph))
                  ELSE ~ argv'.main10
    <3>1. Deep(w, argv.enc, argv.graph) /\ ~ argv.main10
      BY <1>2, <2>2 DEF Profiled
    <3>2. CASE Gate \/ KeepDecoder \/ KeepPicture
      <4>1. argv' = argv /\ pc' # "tail"
        BY <3>2 DEF Gate, KeepDecoder, DecoderSet, KeepPicture, Advance
      <4> QED
        BY <3>1, <4>1
    <3>3. CASE Reshape
      BY <2>2, <3>1, <3>3, ReshapeDeep DEF Reshape, Advance
    <3>4. CASE UpgradeDecoder
      BY <3>1, <3>4, UpgradeWrites DEF UpgradeDecoder, DecoderSet, Advance
    <3>5. CASE SetDevice
      <4>1. pc' # "tail"
        BY <3>5 DEF SetDevice, Advance
      <4> QED
        BY <3>1, <3>5, <4>1, DeviceWrites
    <3>6. CASE MovePicture
      BY <2>2, <3>1, <3>6, MoveDeep DEF MovePicture, Advance
    <3>7. CASE BurnText
      BY <2>2, <3>1, <3>7, TextDeep DEF BurnText, Advance
    <3>8. CASE BurnOverlay
      BY <2>2, <3>1, <3>8, OverlayDeep DEF BurnOverlay, Advance
    <3>9. CASE SettlePicture
      BY <3>1, <3>9, SettleDeep DEF SettlePicture, Advance
    <3> QED
      BY <1>2, <3>2, <3>3, <3>4, <3>5, <3>6, <3>7, <3>8, <3>9
  <2>3. pc \notin {"tail", "done"}
    BY <1>2 DEF Early
  <2> QED
    BY <1>2, <2>1, <2>2, <2>3, ProfileStays
<1>3. CASE FinishTransport
  <2>1. /\ job' = job /\ remux' = remux /\ reason' = reason /\ pc = "tail" /\ pc' = "done"
    BY <1>3 DEF FinishTransport
  <2>2. argv'.graph = argv.graph /\ argv'.enc = argv.enc /\ argv'.main10 = argv.main10
    BY <1>3, FinishWrites
  <2>3. w' = w /\ HW' = HW /\ (encoderIsHEVC(argv') <=> encoderIsHEVC(argv))
    BY <2>1, <2>2 DEF w, HW, encoderIsHEVC
  <2> QED
    BY <2>1, <2>2, <2>3 DEF Profiled, Early
<1>4. CASE Bails
  <2>1. reason' # "none"
    BY <1>4, SomeReason DEF Bail
  <2> QED
    BY <2>1 DEF Profiled
<1>5. CASE UNCHANGED vars
  <2>1. w' = w /\ HW' = HW /\ Early' = Early /\ argv' = argv /\ encoderIsHEVC(argv)' = encoderIsHEVC(argv)
    BY <1>5 DEF vars, w, HW, Early, encoderIsHEVC
  <2> QED
    BY <1>5, <2>1 DEF Profiled, vars
<1>6. \/ Early \/ pc = "resident" \/ Scrub \/ FinishTransport \/ Bails \/ UNCHANGED vars
  BY DEF Next, Gate, Reshape, KeepDecoder, UpgradeDecoder, SetDevice, MovePicture,
         BurnText, BurnOverlay, KeepPicture, SettlePicture, HardwareEncoder, Early
<1> QED
  BY <1>1, <1>2, <1>3, <1>4, <1>5, <1>6 DEF Next

\* For any argv Plex may write, any worker and any source, an HEVC encoder of a
\* GPU is told main10 exactly when the last format its graph names is the ten
\* bits' - though the graph may have been drawn anew, moved to OpenCL or left as
\* it came - and an H.264 one never gets ten (rewriter.go:1439-1546).
THEOREM ProfileAlwaysMatches == Spec => []ProfileMatches
<1>1. IInv /\ AxisInv /\ Profiled => ProfileMatches
  <2> SUFFICES ASSUME IInv, AxisInv, Profiled, Rewritten, ~ MapsInBurn,
                      hwEncoderCodec(argv.enc) # "none"
               PROVE  IF encoderIsHEVC(argv) THEN argv.main10 <=> TenBits(argv.graph, media.bits)
                      ELSE ~ TenBits(argv.graph, media.bits)
    BY DEF ProfileMatches
  <2>1. pc = "done" /\ reason = "none" /\ ~ remux
    BY DEF Rewritten
  <2>2. HW
    <3>1. argv.enc \notin SWEncoders
      BY DEF hwEncoderCodec, SWEncoders
    <3> QED
      BY <2>1, <3>1 DEF AxisInv, Settled, Chosen, plexSWEncoder
  <2>3. /\ Deep(w, argv.enc, argv.graph)
        /\ encoderIsHEVC(argv) => (argv.main10 <=> graphFeedsTenBit(argv.graph))
    BY <2>1, <2>2 DEF Profiled
  <2>4. ~ Has(argv.graph, SDRMappers)
    BY <2>3 DEF Deep, AMDVaapi, MapsInBurn, SDRMappers
  <2>5. DepthNamed(argv.graph) /\ (graphFeedsTenBit(argv.graph) => encoderIsHEVC(argv))
    BY <2>3, <2>4 DEF Deep, encoderIsHEVC
  <2>6. argv.graph \in Graphs
    BY DEF IInv, TypeOK, Videos
  <2>7. TenBits(argv.graph, media.bits) <=> graphFeedsTenBit(argv.graph)
    BY <2>5, <2>6, TenIsNamed
  <2> QED
    BY <2>3, <2>5, <2>7
<1>2. Init => IInv /\ AxisInv /\ PicInv /\ Profiled
  BY InvInit, AxisInit, PicInit, ProfileInit
<1>3. (IInv /\ AxisInv /\ PicInv /\ Profiled) /\ [Next]_vars
      => (IInv /\ AxisInv /\ PicInv /\ Profiled)'
  BY InvStep, AxisStep, PicStep, ProfileStep
<1> QED
  BY <1>1, <1>2, <1>3, PTL DEF Spec

-----------------------------------------------------------------------------
(***************************************************************************)
(* FramesMatch: where the frames are at each phase.                        *)
(***************************************************************************)
\* What FramesMatch says nothing of.
Excused == HexForeign \/ UnreadForeign \/ DownloadedForeign

\* An argv whose decoder, if it is a GPU's, is worker k's.
Hosted(k, v) ==
  v.accel # "none" =>
    v.accel = hwaccelName(k.backend) /\ v.outfmt \in {"none", hwaccelOutputFormat(k.backend)}

\* One whose frames stay in main memory.
InMain(k, v) ==
  /\ Decoded(v) = "cpu" /\ Memory(v.graph.nodes, "cpu", Device(k.backend)) = "cpu"
  /\ ~ Has(v.graph, {"tonemap_opencl"})

\* One whose encoder finds them, also when they stay on the GPU.
Fed(k, v) ==
  /\ Memory(v.graph.nodes, Decoded(v), Device(k.backend)) \in Taken(v.enc)
  /\ Has(v.graph, {"tonemap_opencl"}) =>
       k.backend = "vaapi" /\ (v.outfmt = "vaapi" \/ Uploads(v.graph))

\* One that goes on as it is, when decoder and encoder are the worker's.
Suits(k, v) ==
  /\ k.backend \in GPUs /\ v.accel # "none" /\ v.enc \in HWEncoders(k.backend)
  /\ ~ detectBitmapOverlayBurn(v.graph)
  => Fed(k, v)

\* What is read of Plex's argv, before the reshape.
Untouched(k, u, v0) ==
  /\ u.enc = v0.enc /\ u.dec = v0.dec /\ u.hex = v0.hex
  /\ u.accel = v0.accel /\ u.outfmt = v0.outfmt /\ u.graph = Origin(k, v0)

\* What the reshape leaves.
Readied(k, v) ==
  /\ Hosted(k, v)
  /\ v.accel # "none" => v.dec \notin DOMAIN decoderMap("vaapi")
  /\ v.enc \in SWEncoders => InMain(k, v)
  /\ Suits(k, v)

\* What the decoder's phase leaves: of choice h, and with hw, of Plex's hardware.
Decides(k, h, hw, v) ==
  /\ h # "none" => v.enc \in SWEncoders /\ InMain(k, v)
  /\ hw => Suits(k, v)

\* What the last pass is given.
Placed(k, h, v) ==
  IF h = "none" THEN k.backend \in GPUs /\ v.accel # "none" /\ Fed(k, v)
  ELSE v.enc \in SWEncoders /\ InMain(k, v)

\* What is given out.
Settles(k, v) ==
  /\ Memory(v.graph.nodes, Decoded(v), Device(k.backend)) \in Taken(v.enc)
  /\ Has(v.graph, {"tonemap_opencl"}) => v.ocl

Framed ==
  ~ Excused /\ ~ remux /\ reason = "none" =>
    /\ pc \in {"gate", "reshape"} => Untouched(w, argv, job.video)
    /\ pc \in {"decode", "device", "picture", "encoder", "resident", "tail", "done"} =>
         Hosted(w, argv)
    /\ pc = "decode" => Readied(w, argv)
    /\ pc = "device" => Decides(w, honour, hwDecode, argv)
    /\ pc \in {"picture", "encoder"} => honour = "none"
    /\ pc \in {"picture", "encoder", "resident", "tail", "done"} =>
         argv.device = IF honour = "sw" THEN "none" ELSE initHWDevice(w.backend)
    /\ pc = "encoder" => Suits(w, argv)
    /\ pc = "resident" => Placed(w, honour, argv)
    /\ pc \in {"tail", "done"} => Settles(w, argv)

\* The names of the two backends.
LEMMA BackendIs ==
  ASSUME NEW b \in GPUs
  PROVE  /\ Device(b) \in {"vaapi", "cuda"} /\ hwaccelOutputFormat(b) = Device(b)
         /\ hwaccelName(b) # "none"
         /\ \A c \in GPUs : c # b => hwaccelName(c) # hwaccelName(b)
         /\ \A e \in HWEncoders(b) : hwEncoderCodec(e) # "none" /\ Device(b) \in Taken(e)
         /\ \A l \in SWEncoders : encoderMap(b)[l] \in HWEncoders(b)
         /\ DOMAIN decoderMap(b) = DOMAIN decoderMap("vaapi")
<1>1. CASE b = "vaapi"
  <2>1. HWEncoders(b) = {"h264_vaapi", "hevc_vaapi"}
    BY <1>1 DEF HWEncoders, encoderMap, SWEncoders
  <2>2. \A l \in SWEncoders : encoderMap(b)[l] \in HWEncoders(b)
    BY <1>1 DEF HWEncoders
  <2>3. \A e \in HWEncoders(b) : hwEncoderCodec(e) # "none" /\ "vaapi" \in Taken(e)
    BY <2>1 DEF hwEncoderCodec, Taken
  <2> QED
    BY <1>1, <2>2, <2>3 DEF Device, hwaccelOutputFormat, hwaccelName, GPUs
<1>2. CASE b = "nvenc"
  <2>1. HWEncoders(b) = {"h264_nvenc", "hevc_nvenc"}
    BY <1>2 DEF HWEncoders, encoderMap, SWEncoders
  <2>2. \A l \in SWEncoders : encoderMap(b)[l] \in HWEncoders(b)
    BY <1>2 DEF HWEncoders
  <2>3. \A e \in HWEncoders(b) : hwEncoderCodec(e) # "none" /\ "cuda" \in Taken(e)
    BY <2>1 DEF hwEncoderCodec, Taken
  <2>4. DOMAIN decoderMap(b) = DOMAIN decoderMap("vaapi")
    BY <1>2 DEF decoderMap
  <2> QED
    BY <1>2, <2>2, <2>3, <2>4 DEF Device, hwaccelOutputFormat, hwaccelName, GPUs
<1> QED
  BY <1>1, <1>2 DEF GPUs

\* An encoder that is a GPU's is none of software, and takes no frames that are lost.
LEMMA TakenIs ==
  ASSUME NEW e
  PROVE  /\ e \in SWEncoders => Taken(e) = {"cpu"} /\ hwEncoderCodec(e) = "none"
         /\ "lost" \notin Taken(e)
BY DEF Taken, SWEncoders, hwEncoderCodec

\* Frames decoded by this worker's GPU are in main memory or on it.
LEMMA DecodedHere ==
  ASSUME NEW v, Hosted(w, v), v.accel # "none", HW
  PROVE  /\ Decoded(v) \in {"cpu", Device(w.backend)}
         /\ v.outfmt # "none" => Decoded(v) = Device(w.backend)
         /\ v.outfmt = "none" => Decoded(v) = "cpu"
BY BackendIs DEF Hosted, Decoded, HW

\* A graph of main memory.
LEMMA MainGraph ==
  ASSUME NEW v, v.accel = "none" \/ v.outfmt = "none", MainNodes(v.graph.nodes)
  PROVE  InMain(w, v)
<1>1. ~ Has(v.graph, {"tonemap_opencl"})
  BY HasNode DEF MainNodes, DeviceFilters
<1> QED
  BY <1>1, MainIs DEF InMain, Decoded

\* A graph drawn for frames on this GPU feeds its encoders.
LEMMA DrawnFeeds ==
  ASSUME NEW v, HW, NEW s, Draws(w, s, v.graph.nodes), v.enc \in HWEncoders(w.backend),
         Decoded(v) = Device(w.backend) \/ (~ s.resident /\ Decoded(v) = "cpu"),
         v.outfmt = hwaccelOutputFormat(w.backend) \/ ~ s.resident
  PROVE  Fed(w, v)
<1> DEFINE d == Device(w.backend)
<1>1. Memory(v.graph.nodes, Decoded(v), d) = d
  BY DEF Draws
<1>2. d \in Taken(v.enc) /\ hwaccelOutputFormat(w.backend) = d
  BY BackendIs DEF HW
<1>3. Has(v.graph, {"tonemap_opencl"}) => w.backend = "vaapi"
  BY HasNode DEF Draws
<1>4. w.backend = "vaapi" => d = "vaapi"
  BY DEF Device
<1>5. ~ s.resident => Uploads(v.graph)
  BY DEF Draws, Uploads
<1> QED
  BY <1>1, <1>2, <1>3, <1>4, <1>5 DEF Fed

-----------------------------------------------------------------------------
\* What the first phase leaves, by Plex's encoder.
LEMMA OriginGraph ==
  ASSUME NEW k, NEW v0 \in PlexVideos
  PROVE  /\ v0 \in Videos /\ v0.graph \in PlexGraphs /\ v0.graph \in Graphs
         /\ Origin(k, v0) = substituteOpenCLTonemap(k, [v0.graph EXCEPT !.fonts = FALSE])
         /\ [v0.graph EXCEPT !.fonts = FALSE] \in Graphs
         /\ [v0.graph EXCEPT !.fonts = FALSE].nodes = v0.graph.nodes
         /\ [v0.graph EXCEPT !.fonts = FALSE].lead = v0.graph.lead
         /\ [v0.graph EXCEPT !.fonts = FALSE].side = v0.graph.side
         /\ Origin(k, v0) \in Graphs
BY OriginIs DEF PlexVideos, PlexGraphs, Graphs, Origin

LEMMA OriginMain ==
  ASSUME NEW k, NEW v0 \in PlexVideos, v0.enc \in SWEncoders
  PROVE  LET o == Origin(k, v0)
         IN  /\ o.nodes = v0.graph.nodes /\ o.lead = v0.graph.lead /\ o.side = v0.graph.side
             /\ MainNodes(o.nodes)
             /\ v0.outfmt = "none"
<1> DEFINE j == v0.graph
           f == [j EXCEPT !.fonts = FALSE]
           o == Origin(k, v0)
<1>1. /\ j \in Graphs /\ f \in Graphs /\ f.nodes = j.nodes /\ f.lead = j.lead /\ f.side = j.side
      /\ o = substituteOpenCLTonemap(k, f)
  BY OriginGraph
<1>2. ~ Has(j, DeviceFilters) /\ v0.outfmt = "none"
  BY DEF PlexVideos, PlexSoftware
<1> HIDE DEF f, o, j
<1>3. MainNodes(j.nodes)
  BY <1>1, <1>2, HasNode DEF MainNodes, Graphs
<1>4. OpenCLChain(f) = {}
  <2> SUFFICES ASSUME NEW i \in 1..(Len(j.nodes) - 2), j.nodes[i].f = "hwmap_opencl"
               PROVE  FALSE
    BY <1>1 DEF OpenCLChain
  <2>1. i \in DOMAIN j.nodes
    BY <1>1 DEF Graphs
  <2> QED
    BY <1>2, <2>1 DEF Has, DeviceFilters
<1>5. o = f
  BY <1>1, <1>4 DEF substituteOpenCLTonemap
<1> QED
  BY <1>1, <1>2, <1>3, <1>5 DEF o, j

LEMMA OriginFed ==
  ASSUME NEW k, NEW v0 \in PlexVideos, hwEncoderCodec(v0.enc) # "none"
  PROVE  LET o == Origin(k, v0)
         IN  /\ Uploads(o) /\ ScaledTo(o.nodes)
             /\ Memory(o.nodes, Decoded(v0), Device(detectSourceBackend(v0))) \in Taken(v0.enc)
<1> DEFINE j == v0.graph
           f == [j EXCEPT !.fonts = FALSE]
           o == Origin(k, v0)
           d == Device(detectSourceBackend(v0))
<1>1. f \in Graphs /\ f.nodes = j.nodes /\ o = substituteOpenCLTonemap(k, f)
  BY OriginGraph
<1>2. /\ j.nodes # << >> /\ j.nodes[1].f = "hwupload" /\ DepthNamed(j)
      /\ Memory(j.nodes, Decoded(v0), d) \in Taken(v0.enc)
  BY DEF PlexVideos, PlexHardware
<1> HIDE DEF f, o, j, d
<1>3. SpelledOut(j.nodes) /\ ScaledTo(j.nodes)
  BY <1>2, NamedIs
<1>4. /\ ScaledTo(o.nodes) /\ \A m : Memory(o.nodes, m, d) = Memory(j.nodes, m, d)
      /\ o.nodes # << >> /\ o.nodes[1].f = "hwupload"
  <2>1. SpelledOut(f.nodes) /\ ScaledTo(f.nodes) /\ f.nodes # << >> /\ f.nodes[1].f = "hwupload"
    BY <1>1, <1>2, <1>3
  <2>2. LET h == substituteOpenCLTonemap(k, f)
        IN  /\ ScaledTo(h.nodes) /\ \A m : Memory(h.nodes, m, d) = Memory(f.nodes, m, d)
            /\ h.nodes # << >> /\ h.nodes[1].f = "hwupload"
    BY <1>1, <2>1, SubstituteKeeps
  <2> QED
    BY <1>1, <2>2
<1>5. Uploads(o) /\ ScaledTo(o.nodes)
  BY <1>4 DEF Uploads
<1>6. Memory(o.nodes, Decoded(v0), d) \in Taken(v0.enc)
  BY <1>2, <1>4
<1> QED
  BY <1>5, <1>6 DEF o, d

LEMMA ModeledIs ==
  ASSUME NEW g \in Graphs
  PROVE  graphNodesModeled(g) <=> ~ Has(g, Names \ modeledFilterNodes)
<1>1. \A i \in DOMAIN g.nodes : g.nodes[i].f \in Names
  <2>1. \A i \in DOMAIN g.nodes : g.nodes[i] \in Filters
    BY DEF Graphs
  <2> QED
    BY <2>1 DEF Filters
<1> QED
  BY <1>1 DEF graphNodesModeled, Has

LEMMA OriginModeled ==
  ASSUME NEW k, NEW v0 \in PlexVideos
  PROVE  graphNodesModeled(Origin(k, v0)) <=> graphNodesModeled(v0.graph)
<1> DEFINE names == Names \ modeledFilterNodes
<1>1. /\ {"hwmap_opencl", "hwmap_back"} \cap names = {}
      /\ "tonemap_opencl" \in names <=> "tonemap_vaapi" \in names
  BY DEF modeledFilterNodes
<1> HIDE DEF names
<1>2. Has(Origin(k, v0), names) <=> Has(v0.graph, names)
  BY <1>1, OriginIs
<1> QED
  BY <1>2, OriginGraph, ModeledIs DEF names

LEMMA OriginSource ==
  ASSUME NEW v0 \in PlexVideos, NEW u, Untouched(w, u, v0)
  PROVE  detectSourceBackend(u) = detectSourceBackend(v0)
<1>1. Has(u.graph, vaapiFilterTokens) <=> Has(v0.graph, vaapiFilterTokens)
  BY OriginIs DEF Untouched, vaapiFilterTokens
<1>2. Has(u.graph, nvencFilterTokens) <=> Has(v0.graph, nvencFilterTokens)
  BY OriginIs DEF Untouched, nvencFilterTokens
<1> QED
  BY <1>1, <1>2 DEF detectSourceBackend, Untouched

\* Hardware of Plex's host.
LEMMA SourceIs ==
  ASSUME NEW v0 \in PlexVideos
  PROVE  LET b == detectSourceBackend(v0)
         IN  /\ b \in GPUs \cup {"sw", "none"}
             /\ v0.accel # "none" => /\ b \in GPUs /\ v0.accel = hwaccelName(b)
                                     /\ v0.outfmt \in {"none", hwaccelOutputFormat(b)}
                                     /\ v0.dec \notin DOMAIN decoderMap("vaapi")
             /\ hwEncoderCodec(v0.enc) # "none" => b \in GPUs
             /\ Has(v0.graph, {"tonemap_opencl"}) => b = "vaapi"
<1> DEFINE b == detectSourceBackend(v0)
<1>1. b \in GPUs \cup {"sw", "none"}
  BY DEF detectSourceBackend, GPUs
<1>2. Has(v0.graph, {"tonemap_opencl"}) => b = "vaapi"
  BY DEF detectSourceBackend, Has, vaapiFilterTokens
<1>3. hwEncoderCodec(v0.enc) # "none" => b \in GPUs
  BY DEF detectSourceBackend, hwEncoderCodec, EncodersOf, GPUs
<1>4. /\ v0.accel \in {"none", hwaccelName(b)} /\ v0.outfmt \in {"none", hwaccelOutputFormat(b)}
      /\ v0.accel # "none" => v0.dec \notin DOMAIN decoderMap("vaapi")
  BY DEF PlexVideos, PlexHost
<1>5. b \in {"sw", "none"} => hwaccelName(b) = "none"
  BY DEF hwaccelName
<1> HIDE DEF b
<1> QED
  BY <1>1, <1>2, <1>3, <1>4, <1>5 DEF b

-----------------------------------------------------------------------------
\* Of a hardware encoder of Plex's, what the reshapes read; it is recomposed
\* unless it is an overlay.
LEMMA HardwareReads ==
  ASSUME NEW k, NEW v0 \in PlexVideos, hwEncoderCodec(v0.enc) # "none",
         graphNodesModeled(v0.graph)
  PROVE  LET o == Origin(k, v0)
             f == extractGraphFacts(o, "none")
         IN  /\ ~ isSWFilterGraph(o) /\ f.ok
             /\ f.kind = "bitmap" <=> detectBitmapOverlayBurn(o)
             /\ f.hdr \in BOOLEAN /\ f.sdr = FALSE /\ f.select \in BOOLEAN
<1> DEFINE o == Origin(k, v0)
           f == extractGraphFacts(o, "none")
<1>1. Uploads(o) /\ ScaledTo(o.nodes) /\ graphNodesModeled(o)
  BY OriginFed, OriginModeled
<1>2. ~ Has(o, SDRMappers)
  BY OriginDeep
<1>3. FactsRead(f, o, "none")
  BY FactsAre
<1> HIDE DEF o
<1>4. ~ isSWFilterGraph(o)
  BY <1>1 DEF isSWFilterGraph, Leads, Uploads
<1>5. Has(o, {"scale", "scale_vaapi", "scale_cuda"})
  BY <1>1, HasNode DEF ScaledTo
<1>6. f.ok
  BY <1>1, <1>5 DEF extractGraphFacts
<1> HIDE DEF f
<1>7. /\ f.kind = "bitmap" <=> detectBitmapOverlayBurn(o)
      /\ f.hdr \in BOOLEAN /\ f.sdr = FALSE /\ f.select \in BOOLEAN
  BY <1>2, <1>3 DEF FactsRead, SDRMappers
<1> QED
  BY <1>4, <1>6, <1>7 DEF o, f

\* A software encoder's graph has no scale but a software one, and starts with it.
LEMMA SoftwareReads ==
  ASSUME NEW k, NEW v0 \in PlexVideos, v0.enc \in SWEncoders, graphNodesModeled(v0.graph),
         v0.graph.lead = "hex" => ~ v0.hex
  PROVE  LET o == Origin(k, v0)
             f == extractGraphFacts(o, "none")
         IN  isSWFilterGraph(o) \/ ~ f.ok
<1> DEFINE o == Origin(k, v0)
           f == extractGraphFacts(o, "none")
           j == v0.graph
<1>1. o.nodes = j.nodes /\ o.lead = j.lead /\ o.side = j.side /\ MainNodes(o.nodes)
  BY OriginMain
<1>2. /\ j.nodes # << >> => j.lead # "none"
      /\ j.lead = "hex" => v0.hex
      /\ j.side # "none" => Has(j, {"overlay"})
  BY DEF PlexVideos, PlexSoftware
<1>3. /\ j.nodes \in Seq(Filters) /\ j.lead \in {"none", "ordinal", "hex"}
      /\ j.nodes # << >> => j.nodes[1].f \in {"scale", "hwupload"}
  BY PlexGraphIs DEF PlexVideos, Graphs
<1>4. ~ Has(j, {"overlay"})
  BY DEF graphNodesModeled, modeledFilterNodes, Inlineass, Has
<1> HIDE DEF o, j
<1>5. CASE o.nodes = << >>
  <2>1. ~ Has(o, {"scale", "scale_vaapi", "scale_cuda"})
    BY <1>5 DEF Has
  <2>2. ~ f.ok
    BY <2>1 DEF extractGraphFacts
  <2> QED
    BY <2>2 DEF o
<1>6. CASE o.nodes # << >>
  <2>1. o.nodes[1] \in ToSet(o.nodes)
    BY <1>1, <1>3, <1>6 DEF ToSet
  <2>2. o.nodes[1].f = "scale"
    BY <1>1, <1>3, <1>6, <2>1 DEF MainNodes, DeviceFilters
  <2>3. isSWFilterGraph(o)
    BY <1>1, <1>2, <1>3, <1>4, <1>6, <2>2 DEF isSWFilterGraph, Leads, j
  <2> QED
    BY <2>3 DEF o
<1> QED
  BY <1>5, <1>6

-----------------------------------------------------------------------------
\* A worker without a GPU leaves a software encoder main memory.
LEMMA SoftwareReady ==
  ASSUME job \in Jobs, w.backend = "sw", ~ UnreadForeign,
         NEW v \in Videos, Untouched(w, v, job.video)
  PROVE  Readied(w, reshapeToSoftware(v))
<1> DEFINE v0 == job.video
           o  == Origin(w, v0)
           f  == extractGraphFacts(o, "none")
           u  == reshapeToSoftware(v)
           c  == Recompose([backend |-> "sw"], Burn(f, FALSE, FALSE), f.select)
<1>1. v0 \in PlexVideos /\ ~ HW
  BY PlexJob DEF HW, GPUs
<1>2. v.graph = o /\ v.enc = v0.enc
  BY DEF Untouched
<1>3. /\ u.enc = Reencoded(v0.enc, "sw") /\ u.accel = "none" /\ u.outfmt = "none"
      /\ u.graph = IF ~ isSWFilterGraph(o) /\ f.ok THEN c ELSE o
  BY <1>2, SoftwareWrites
<1>4. FactsRead(f, o, "none")
  BY FactsAre
<1> HIDE DEF u, o, f, v0
<1>5. ASSUME u.enc \in SWEncoders PROVE MainNodes(u.graph.nodes)
  <2>1. MainNodes(c.nodes)
    BY <1>4, RecomposeMain DEF FactsRead
  <2> HIDE DEF c
  <2>2. CASE ~ isSWFilterGraph(o) /\ f.ok
    BY <1>3, <2>1, <2>2
  <2>3. CASE v0.enc \in SWEncoders
    <3>1. MainNodes(o.nodes)
      BY <1>1, <2>3, OriginMain DEF o
    <3> QED
      BY <1>3, <2>1, <3>1
  <2>4. CASE v0.enc \notin SWEncoders /\ ~ (~ isSWFilterGraph(o) /\ f.ok)
    <3>1. hwEncoderCodec(v0.enc) # "none"
      BY <1>3, <1>5, <2>4 DEF Reencoded
    <3>2. ~ graphNodesModeled(v0.graph)
      BY <1>1, <2>4, <3>1, HardwareReads DEF o, f
    <3>3. detectSourceBackend(v0) \in GPUs
      BY <1>1, <3>1, SourceIs
    <3> QED
      BY <3>2, <3>3 DEF UnreadForeign, GPUs, v0
  <2> QED
    BY <2>2, <2>3, <2>4
<1>6. u.enc \in SWEncoders => InMain(w, u)
  BY <1>3, <1>5, MainGraph
<1>7. Readied(w, u)
  BY <1>1, <1>3, <1>6 DEF Readied, Hosted, Suits
<1> QED
  BY <1>7 DEF u

\* This worker's hardware, or none, stays as it is.
LEMMA KeptReady ==
  ASSUME job \in Jobs, HW, detectSourceBackend(job.video) \in {"sw", "none", w.backend},
         NEW v \in Videos, Untouched(w, v, job.video)
  PROVE  Readied(w, v)
<1> DEFINE v0 == job.video
           b  == detectSourceBackend(v0)
<1>1. v0 \in PlexVideos /\ w.backend \in GPUs
  BY PlexJob DEF HW
<1>2. /\ v.accel = v0.accel /\ v.outfmt = v0.outfmt /\ v.enc = v0.enc /\ v.dec = v0.dec
      /\ v.graph = Origin(w, v0)
  BY DEF Untouched
<1>3. /\ v0.accel # "none" => /\ b \in GPUs /\ v0.accel = hwaccelName(b)
                              /\ v0.outfmt \in {"none", hwaccelOutputFormat(b)}
                              /\ v0.dec \notin DOMAIN decoderMap("vaapi")
      /\ b \in {"sw", "none", w.backend}
  BY <1>1, SourceIs
<1>4. detectSourceBackend(v) = b
  BY <1>1, OriginSource
<1>5. Has(v.graph, {"tonemap_opencl"}) => b = "vaapi"
  BY <1>4 DEF detectSourceBackend, Has, vaapiFilterTokens
<1> HIDE DEF v0, b
<1>6. v.accel # "none" => b = w.backend
  BY <1>2, <1>3 DEF GPUs
<1>7. Hosted(w, v) /\ (v.accel # "none" => v.dec \notin DOMAIN decoderMap("vaapi"))
  BY <1>2, <1>3, <1>6 DEF Hosted
<1>8. v.enc \in SWEncoders => InMain(w, v)
  <2> SUFFICES ASSUME v.enc \in SWEncoders PROVE InMain(w, v)
    OBVIOUS
  <2>1. MainNodes(v.graph.nodes) /\ v.outfmt = "none"
    BY <1>1, <1>2, OriginMain
  <2> QED
    BY <2>1, MainGraph
<1>9. Suits(w, v)
  <2> SUFFICES ASSUME v.accel # "none", v.enc \in HWEncoders(w.backend) PROVE Fed(w, v)
    BY DEF Suits
  <2>1. hwEncoderCodec(v0.enc) # "none"
    BY <1>1, <1>2, BackendIs
  <2>2. /\ Uploads(v.graph)
        /\ Memory(v.graph.nodes, Decoded(v0), Device(b)) \in Taken(v.enc)
    BY <1>1, <1>2, <2>1, OriginFed DEF b
  <2>3. Decoded(v) = Decoded(v0)
    BY <1>2 DEF Decoded
  <2> QED
    BY <1>5, <1>6, <2>2, <2>3 DEF Fed
<1> QED
  BY <1>7, <1>8, <1>9 DEF Readied

\* Another backend's gets this one's names, and a graph for frames on the GPU.
LEMMA ForeignReady ==
  ASSUME job \in Jobs, HW, detectSourceBackend(job.video) \in GPUs \ {w.backend}, ~ Excused,
         NEW v \in Videos, Untouched(w, v, job.video)
  PROVE  Readied(w, reshapeForeignHWArgv(v, w))
<1> DEFINE v0  == job.video
           b   == detectSourceBackend(v0)
           o   == v.graph
           f   == extractGraphFacts(o, "none")
           ten == graphFeedsTenBit(o) /\ ~ f.hdr /\ encoderIsHEVC(v)
           fresh == ~ isSWFilterGraph(o) /\ f.ok /\ f.kind # "bitmap"
           s   == Burn(f, TRUE, ten)
           c   == Recompose(w, s, f.select)
           u   == reshapeForeignHWArgv(v, w)
<1>1. /\ v0 \in PlexVideos /\ w.backend \in GPUs /\ w \in WorkerKinds
      /\ b \in GPUs /\ b # w.backend
  BY PlexJob, JobIs DEF HW
<1>2. /\ v.accel = v0.accel /\ v.outfmt = v0.outfmt /\ v.enc = v0.enc /\ v.dec = v0.dec
      /\ v.hex = v0.hex /\ o = Origin(w, v0)
  BY DEF Untouched
<1>3. /\ u.enc = Reencoded(v.enc, w.backend) /\ u.dec = v.dec
      /\ u.accel = IF v.accel = "none" \/ v.hex THEN v.accel ELSE hwaccelName(w.backend)
      /\ u.outfmt = IF v.outfmt = "none" \/ v.hex THEN v.outfmt ELSE hwaccelOutputFormat(w.backend)
      /\ u.graph = IF fresh THEN c ELSE o
  BY <1>1, ForeignWrites
<1>4. v0.accel # "none" => /\ v0.accel = hwaccelName(b) /\ v0.outfmt \in {"none", hwaccelOutputFormat(b)}
                           /\ v0.dec \notin DOMAIN decoderMap("vaapi")
  BY <1>1, SourceIs
<1>5. v0.accel # "none" => ~ v0.hex
  <2>1. hwaccelName(b) # hwaccelName(w.backend) /\ hwaccelName(b) # "none"
    BY <1>1, BackendIs
  <2> QED
    BY <1>4, <2>1 DEF Excused, HexForeign
<1>6. graphNodesModeled(v0.graph) /\ (v0.outfmt # "none" \/ v0.enc \in SWEncoders)
  BY <1>1 DEF Excused, UnreadForeign, DownloadedForeign, GPUs
<1>7. v0.enc \in SWEncoders => v0.accel # "none"
  <2> SUFFICES ASSUME v0.enc \in SWEncoders PROVE v0.accel # "none"
    OBVIOUS
  <2>1. ~ Has(v0.graph, DeviceFilters)
    BY <1>1 DEF PlexVideos, PlexSoftware
  <2>2. ~ Has(v0.graph, vaapiFilterTokens) /\ ~ Has(v0.graph, nvencFilterTokens)
    BY <2>1 DEF Has, DeviceFilters, vaapiFilterTokens, nvencFilterTokens
  <2>3. v0.enc \notin EncodersOf("vaapi") /\ v0.enc \notin EncodersOf("nvenc")
    BY DEF SWEncoders, EncodersOf
  <2>4. v0.accel \in {"vaapi", "nvdec", "cuda", "cuvid"}
    BY <1>1, <2>2, <2>3 DEF detectSourceBackend, GPUs
  <2> QED
    BY <2>4
<1>8. hwEncoderCodec(v.enc) = hwEncoderCodec(u.enc)
      /\ (hwEncoderCodec(v.enc) = "none" => u.enc = v.enc)
  BY <1>1, <1>3, ReencodedCodec DEF Reencoded
<1> HIDE DEF v0, b, o, f, ten, c, u
<1>9. u.accel # "none" => /\ v0.accel # "none" /\ ~ v0.hex
                          /\ u.accel = hwaccelName(w.backend)
  BY <1>2, <1>3, <1>5
<1>10. Hosted(w, u) /\ (u.accel # "none" => u.dec \notin DOMAIN decoderMap("vaapi"))
  BY <1>2, <1>3, <1>4, <1>9 DEF Hosted
<1>11. u.enc \in SWEncoders => InMain(w, u)
  <2> SUFFICES ASSUME u.enc \in SWEncoders PROVE InMain(w, u)
    OBVIOUS
  <2>1. v0.enc \in SWEncoders
    BY <1>2, <1>8, TakenIs
  <2>2. MainNodes(o.nodes) /\ v0.outfmt = "none"
    BY <1>1, <2>1, <1>2, OriginMain
  <2>3. isSWFilterGraph(o) \/ ~ f.ok
    BY <1>1, <1>5, <1>6, <1>7, <2>1, <1>2, SoftwareReads DEF f
  <2>4. u.graph = o /\ u.outfmt = "none"
    BY <1>2, <1>3, <2>2, <2>3
  <2> QED
    BY <2>2, <2>4, MainGraph
<1>12. Suits(w, u)
  <2> SUFFICES ASSUME u.accel # "none", u.enc \in HWEncoders(w.backend),
                      ~ detectBitmapOverlayBurn(u.graph)
               PROVE  Fed(w, u)
    BY DEF Suits
  <2>1. hwEncoderCodec(v0.enc) # "none" /\ v0.enc \notin SWEncoders
    BY <1>1, <1>2, <1>8, BackendIs, TakenIs
  <2>2. /\ ~ isSWFilterGraph(o) /\ f.ok
        /\ f.kind = "bitmap" <=> detectBitmapOverlayBurn(o)
        /\ f.hdr \in BOOLEAN /\ f.sdr = FALSE /\ f.select \in BOOLEAN
    BY <1>1, <1>6, <2>1, <1>2, HardwareReads DEF f
  <2>3. fresh /\ u.graph = c
    BY <1>3, <2>2
  <2>4. ten \in BOOLEAN
    BY DEF ten
  <2>5. Asked(s) /\ s.tenBit = ten /\ s.sdr = FALSE /\ s.resident = TRUE
    BY <2>2 DEF Burn, Asked
  <2> HIDE DEF s
  <2>6. Draws(w, s, c.nodes)
    BY <1>1, <2>2, <2>4, <2>5, RecomposeDraws DEF c
  <2>7. u.outfmt = hwaccelOutputFormat(w.backend)
    BY <1>2, <1>3, <1>6, <1>9, <2>1
  <2>8. Decoded(u) = Device(w.backend)
    BY <1>1, <2>7, BackendIs DEF Decoded
  <2> QED
    BY <2>3, <2>6, <2>7, <2>8, DrawnFeeds
<1>13. Readied(w, u)
  BY <1>10, <1>11, <1>12 DEF Readied
<1> QED
  BY <1>13 DEF u

-----------------------------------------------------------------------------
LEMMA ScrubUntouched ==
  ASSUME IInv, Scrub
  PROVE  Untouched(w, argv', job.video)
BY ScrubWrites DEF Untouched

\* Only for a software argv may a Plex Pass be asked for.
LEMMA ReshapeReadies ==
  ASSUME IInv, AxisInv, Reshape, Untouched(w, argv, job.video), ~ Excused
  PROVE  Readied(w, argv')
<1> DEFINE b == detectSourceBackend(job.video)
<1>1. /\ job \in Jobs /\ argv \in Videos /\ job.video \in PlexVideos
      /\ w.backend \in GPUs \cup {"sw"}
  BY PlexJob, JobIs DEF IInv, TypeOK, Phased
<1>2. detectSourceBackend(argv) = b
  BY <1>1, OriginSource
<1>3. granted <=> (env.force /\ b = "sw" => env.pass)
  BY DEF AxisInv, GateHeld, Reshape, IInv, Phased
<1>4. b \in GPUs \cup {"sw", "none"}
  BY <1>1, SourceIs
<1> HIDE DEF b
<1>5. CASE w.backend = "sw"
  <2>1. argv' = reshapeToSoftware(argv)
    BY <1>5 DEF Reshape
  <2>2. ~ UnreadForeign
    BY DEF Excused
  <2> QED
    BY <1>1, <1>5, <2>1, <2>2, SoftwareReady
<1>6. CASE w.backend # "sw" /\ b \in GPUs \ {w.backend}
  <2>1. granted
    BY <1>3, <1>6 DEF GPUs
  <2>2. argv' = reshapeForeignHWArgv(argv, w)
    BY <1>2, <1>6, <2>1 DEF Reshape, GPUs
  <2>3. HW
    BY <1>1, <1>6 DEF HW
  <2> QED
    BY <1>1, <1>6, <2>2, <2>3, ForeignReady DEF b
<1>7. CASE w.backend # "sw" /\ b \in {"sw", "none", w.backend}
  <2>1. argv' = argv
    BY <1>2, <1>7 DEF Reshape
  <2>2. HW
    BY <1>1, <1>7 DEF HW
  <2> QED
    BY <1>1, <1>7, <2>1, <2>2, KeptReady DEF b
<1> QED
  BY <1>4, <1>5, <1>6, <1>7

\* Only a decoder of software, or none of Plex's hardware, is moved to the GPU.
LEMMA DecoderDecides ==
  ASSUME IInv, KeepDecoder \/ UpgradeDecoder, Readied(w, argv)
  PROVE  Hosted(w, argv') /\ Decides(w, honour', hwDecode', argv')
<1>1. honour' = Honour
  BY DEF KeepDecoder, UpgradeDecoder, DecoderSet
<1>2. Honour # "none" => plexSWEncoder
  BY DEF Honour
<1>3. CASE KeepDecoder
  <2>1. argv' = argv
    BY <1>3 DEF KeepDecoder, DecoderSet
  <2> QED
    BY <1>1, <1>2, <2>1 DEF Readied, Decides, plexSWEncoder
<1>4. CASE UpgradeDecoder
  <2>1. /\ argv'.accel = hwaccelName(w.backend) /\ argv'.outfmt = hwaccelOutputFormat(w.backend)
        /\ ~ hwDecode' /\ Honour # "sw"
    BY <1>4, UpgradeWrites DEF UpgradeDecoder, DecoderSet
  <2>2. w.backend \in GPUs
    BY <1>4, Movable DEF UpgradeDecoder, IInv, Phased, HW
  <2>3. Honour = "none"
    <3>1. DOMAIN decoderMap(w.backend) = DOMAIN decoderMap("vaapi")
      BY <2>2, BackendIs
    <3>2. argv.accel = "none" \/ argv.dec \notin DOMAIN decoderMap(w.backend)
      BY <3>1 DEF Readied
    <3>3. argv.accel = "none"
      BY <1>4, <3>2 DEF UpgradeDecoder
    <3> QED
      BY <2>1, <3>3 DEF Honour
  <2> QED
    BY <1>1, <2>1, <2>3 DEF Hosted, Decides
<1> QED
  BY <1>3, <1>4

\* The same frames, before another encoder of the same kind.
LEMMA SameFrames ==
  ASSUME NEW k, NEW u, NEW v, u.graph = v.graph, u.enc = v.enc, u.accel = v.accel, u.outfmt = v.outfmt
  PROVE  /\ Hosted(k, u) <=> Hosted(k, v)
         /\ InMain(k, u) <=> InMain(k, v)
         /\ Suits(k, u) <=> Suits(k, v)
         /\ \A h : Placed(k, h, u) <=> Placed(k, h, v)
<1>1. Decoded(u) = Decoded(v)
  BY DEF Decoded
<1>2. InMain(k, u) <=> InMain(k, v)
  BY <1>1 DEF InMain
<1>3. Fed(k, u) <=> Fed(k, v)
  BY <1>1 DEF Fed
<1> QED
  BY <1>2, <1>3 DEF Hosted, Suits, Placed

LEMMA DeviceFrames ==
  ASSUME IInv, AxisInv, SetDevice, Hosted(w, argv), Decides(w, honour, hwDecode, argv)
  PROVE  /\ Hosted(w, argv')
         /\ argv'.device = IF honour = "sw" THEN "none" ELSE initHWDevice(w.backend)
         /\ pc' \in {"picture", "encoder"} => honour = "none"
         /\ pc' = "encoder" => Suits(w, argv')
         /\ pc' = "resident" => Placed(w, honour, argv')
<1>1. /\ argv'.graph = argv.graph /\ argv'.enc = argv.enc
      /\ argv'.accel = argv.accel /\ argv'.outfmt = argv.outfmt
      /\ argv'.device = IF honour = "sw" THEN "none" ELSE initHWDevice(w.backend)
  BY DeviceWrites
<1>2. pc' = IF honour \in {"sw", "hybrid"} THEN "resident"
            ELSE IF ~ hwDecode \/ (forceHW /\ plexSWEncoder) THEN "picture" ELSE "encoder"
  BY DEF SetDevice, Advance
<1>3. honour \in {"none", "sw", "hybrid"}
  BY DEF IInv, TypeOK
<1>4. pc' = "encoder" => Suits(w, argv)
  BY <1>2 DEF Decides
<1>5. pc' = "resident" => Placed(w, honour, argv)
  BY <1>2 DEF Decides, Placed
<1> QED
  BY <1>1, <1>2, <1>3, <1>4, <1>5, SameFrames

-----------------------------------------------------------------------------
\* A picture that moves is uploaded wherever its frames are.
LEMMA MoveFrames ==
  ASSUME IInv, AxisInv, MovePicture, Hosted(w, argv), Deep(w, argv.enc, argv.graph)
  PROVE  Hosted(w, argv') /\ Placed(w, "none", argv') /\ argv'.device = argv.device
<1> DEFINE f == PictureFacts
           s == Burn(f, FALSE, FALSE)
           c == Recompose(w, s, f.select)
<1>1. w \in WorkerKinds /\ w.backend \in GPUs /\ argv.accel # "none" /\ HW
  BY JobIs DEF IInv, Phased, AxisInv, Decided, MovePicture, HW
<1>2. /\ argv'.graph = c /\ argv'.enc = encoderMap(w.backend)[argv.enc]
      /\ argv'.accel = argv.accel /\ argv'.outfmt = argv.outfmt /\ argv'.device = argv.device
  BY MoveWrites
<1>3. FactsRead(f, argv.graph, Sub)
  BY SubIs, FactsAre DEF PictureFacts
<1> HIDE DEF f
<1>4. /\ f.hdr \in BOOLEAN /\ f.sdr \in BOOLEAN /\ f.select \in BOOLEAN
      /\ f.sdr => AMDVaapi(w)
  BY <1>3 DEF FactsRead, Deep, SDRMappers
<1>5. Asked(s) /\ s.tenBit = FALSE /\ (s.sdr => AMDVaapi(w)) /\ s.resident = FALSE
  BY <1>4 DEF Burn, Asked
<1> HIDE DEF s
<1>6. Draws(w, s, c.nodes)
  BY <1>1, <1>4, <1>5, RecomposeDraws
<1> HIDE DEF c
<1>7. Hosted(w, argv')
  BY <1>2 DEF Hosted
<1>8. Decoded(argv') \in {"cpu", Device(w.backend)}
  BY <1>1, <1>2, <1>7, DecodedHere
<1>9. argv'.enc \in HWEncoders(w.backend)
  BY <1>1, <1>2, BackendIs DEF MovePicture, plexSWEncoder
<1>10. Fed(w, argv')
  BY <1>1, <1>2, <1>5, <1>6, <1>8, <1>9, DrawnFeeds
<1> QED
  BY <1>1, <1>2, <1>7, <1>10 DEF Placed

\* A burn is drawn for frames that the decoder leaves on the GPU.
LEMMA BurnFrames ==
  ASSUME IInv, AxisInv, Hosted(w, argv), HardwareEncoder,
         NEW s, s.resident = TRUE, Draws(w, s, argv'.graph.nodes),
         argv'.enc = argv.enc, argv'.accel = argv.accel,
         argv'.outfmt = IF argv.accel = "none" THEN argv.outfmt ELSE hwaccelOutputFormat(w.backend)
  PROVE  Hosted(w, argv') /\ Placed(w, "none", argv')
<1>1. HW /\ w.backend \in GPUs /\ argv.accel # "none" /\ argv.enc \in HWEncoders(w.backend)
  BY DEF AxisInv, Decided, HardwareEncoder, HW
<1>2. argv'.outfmt = hwaccelOutputFormat(w.backend)
  BY <1>1
<1>3. Hosted(w, argv')
  BY <1>2 DEF Hosted
<1>4. Decoded(argv') = Device(w.backend)
  BY <1>1, <1>2, BackendIs DEF Decoded
<1>5. Fed(w, argv')
  BY <1>1, <1>2, <1>4, DrawnFeeds
<1> QED
  BY <1>1, <1>3, <1>5 DEF Placed

LEMMA TextFrames ==
  ASSUME IInv, AxisInv, BurnText, Hosted(w, argv), Deep(w, argv.enc, argv.graph)
  PROVE  Hosted(w, argv') /\ Placed(w, "none", argv') /\ argv'.device = argv.device
<1> DEFINE f == PictureFacts
           ten == KeepsTenBit(media.hdr, f)
           s == Burn(f, TRUE, ten)
           c == Recompose(w, s, f.select)
<1>1. w \in WorkerKinds /\ w.backend \in GPUs /\ HardwareEncoder
  BY JobIs DEF IInv, Phased, AxisInv, Decided, BurnText, HardwareEncoder, HW
<1>2. /\ argv'.graph = c /\ argv'.enc = argv.enc
      /\ argv'.accel = argv.accel /\ argv'.device = argv.device
      /\ argv'.outfmt = IF argv.accel = "none" THEN argv.outfmt ELSE hwaccelOutputFormat(w.backend)
  BY TextWrites
<1>3. FactsRead(f, argv.graph, Sub)
  BY SubIs, FactsAre DEF PictureFacts
<1>4. ten \in BOOLEAN
  BY DEF KeepsTenBit
<1> HIDE DEF f, ten
<1>5. /\ f.hdr \in BOOLEAN /\ f.sdr \in BOOLEAN /\ f.select \in BOOLEAN
      /\ f.sdr => AMDVaapi(w)
  BY <1>3 DEF FactsRead, Deep, SDRMappers
<1>6. Asked(s) /\ s.tenBit = ten /\ (s.sdr => AMDVaapi(w)) /\ s.resident = TRUE
  BY <1>5 DEF Burn, Asked
<1> HIDE DEF s
<1>7. Draws(w, s, c.nodes)
  BY <1>1, <1>4, <1>5, <1>6, RecomposeDraws
<1> HIDE DEF c
<1>8. Draws(w, s, argv'.graph.nodes)
  BY <1>2, <1>7
<1> QED
  BY <1>1, <1>2, <1>6, <1>8, BurnFrames

LEMMA OverlayFrames ==
  ASSUME IInv, AxisInv, BurnOverlay, Hosted(w, argv)
  PROVE  Hosted(w, argv') /\ Placed(w, "none", argv') /\ argv'.device = argv.device
<1> DEFINE s == OverlaySpec
           c == composeBurn(w, s)
<1>1. /\ w \in WorkerKinds /\ w.backend \in GPUs /\ HardwareEncoder /\ argv.accel # "none"
  BY JobIs DEF IInv, Phased, AxisInv, Decided, BurnOverlay, HardwareEncoder, HW
<1>2. /\ argv'.graph = c /\ argv'.enc = argv.enc
      /\ argv'.accel = argv.accel /\ argv'.device = argv.device
      /\ argv'.outfmt = IF argv.accel = "none" THEN argv.outfmt ELSE hwaccelOutputFormat(w.backend)
  BY OverlayWrites
<1>3. Asked(s) /\ s.sdr = FALSE /\ s.tenBit \in BOOLEAN /\ s.resident = TRUE
  BY <1>1, OverlaySpecIs
<1> HIDE DEF s
<1>4. Draws(w, s, c.nodes)
  BY <1>1, <1>3, ComposedDraws
<1> HIDE DEF c
<1>5. Draws(w, s, argv'.graph.nodes)
  BY <1>2, <1>4
<1> QED
  BY <1>1, <1>2, <1>3, <1>5, BurnFrames

LEMMA KeptFrames ==
  ASSUME AxisInv, KeepPicture, Suits(w, argv)
  PROVE  Placed(w, "none", argv)
BY DEF KeepPicture, HardwareEncoder, AxisInv, Decided, HW, Suits, Placed

\* The last pass: a tone mapping that stays on the GPU needs no upload.
LEMMA SettleFrames ==
  ASSUME IInv, SettlePicture, Hosted(w, argv), Placed(w, honour, argv),
         argv.device = IF honour = "sw" THEN "none" ELSE initHWDevice(w.backend)
  PROVE  Hosted(w, argv') /\ Settles(w, argv') /\ argv'.device = argv.device
<1> DEFINE stays == w.backend = "vaapi" /\ argv.accel # "none" /\ Has(argv.graph, {"tonemap_opencl"})
           d == Device(w.backend)
<1>1. /\ argv'.graph = (IF stays THEN gpuResidentGraph(argv.graph) ELSE argv.graph)
      /\ argv'.enc = argv.enc /\ argv'.accel = argv.accel /\ argv'.device = argv.device
      /\ argv'.outfmt = (IF stays /\ argv.outfmt = "none" THEN "vaapi" ELSE argv.outfmt)
      /\ stays /\ argv.device \in {"vaapi", "vaapi+driver"} => argv'.ocl
  BY SettleWrites
<1>2. CASE ~ stays
  <2>1. argv'.graph = argv.graph /\ argv'.outfmt = argv.outfmt
    BY <1>1, <1>2
  <2>2. Hosted(w, argv') /\ Decoded(argv') = Decoded(argv)
    BY <1>1, <2>1 DEF Hosted, Decoded
  <2>3. CASE honour = "none"
    BY <1>1, <1>2, <2>1, <2>2, <2>3 DEF Placed, Fed, Settles
  <2>4. CASE honour # "none"
    <3>1. argv.enc \in SWEncoders /\ InMain(w, argv)
      BY <2>4 DEF Placed
    <3>2. Taken(argv'.enc) = {"cpu"}
      BY <1>1, <3>1, TakenIs
    <3> QED
      BY <1>1, <2>1, <2>2, <3>1, <3>2 DEF InMain, Settles
  <2> QED
    BY <2>3, <2>4
<1>3. CASE stays
  <2>1. /\ honour = "none" /\ Fed(w, argv) /\ w.backend = "vaapi" /\ HW
        /\ argv.accel # "none" /\ argv.graph \in Graphs
    BY <1>3 DEF Placed, InMain, HW, GPUs, IInv, TypeOK, Videos
  <2>2. d = "vaapi" /\ hwaccelOutputFormat(w.backend) = "vaapi" /\ initHWDevice(w.backend) = "vaapi"
    BY <2>1 DEF Device, hwaccelOutputFormat, initHWDevice
  <2>3. argv.outfmt \in {"none", "vaapi"} /\ argv'.outfmt = "vaapi"
    BY <1>1, <1>3, <2>1, <2>2 DEF Hosted
  <2>4. Hosted(w, argv') /\ Decoded(argv') = d
    BY <1>1, <2>1, <2>2, <2>3 DEF Hosted, Decoded
  <2>5. argv.outfmt = "vaapi" => Decoded(argv) = d
    BY <2>1, <2>2 DEF Decoded
  <2> DEFINE m == Decoded(argv)
             g == argv.graph
  <2>6. Memory(g.nodes, m, d) \in Taken(argv.enc) /\ (m = d \/ Uploads(g))
    BY <1>3, <2>1, <2>5 DEF Fed
  <2>7. Memory(g.nodes, m, d) # "lost"
    BY <2>6, TakenIs
  <2> HIDE DEF m, g, d
  <2>8. Memory(gpuResidentGraph(g).nodes, d, d) = Memory(g.nodes, m, d)
    BY <2>1, <2>2, <2>6, <2>7, ResidentKeeps DEF g
  <2>9. argv'.graph = gpuResidentGraph(g)
    BY <1>1, <1>3 DEF g
  <2>10. Memory(argv'.graph.nodes, Decoded(argv'), d) \in Taken(argv'.enc)
    BY <1>1, <2>4, <2>6, <2>8, <2>9
  <2>11. argv'.ocl
    BY <1>1, <1>3, <2>1, <2>2
  <2> QED
    BY <1>1, <2>4, <2>10, <2>11 DEF Settles, d
<1> QED
  BY <1>2, <1>3

LEMMA FinishFrames ==
  ASSUME IInv, FinishTransport, Hosted(w, argv), Settles(w, argv)
  PROVE  Hosted(w, argv') /\ Settles(w, argv') /\ argv'.device = argv.device
<1>1. /\ argv'.graph = argv.graph /\ argv'.enc = argv.enc /\ argv'.ocl = argv.ocl
      /\ argv'.accel = argv.accel /\ argv'.outfmt = argv.outfmt /\ argv'.device = argv.device
  BY FinishWrites
<1> QED
  BY <1>1 DEF Hosted, Settles, Decoded

-----------------------------------------------------------------------------
LEMMA FramedInit == Init => Framed
BY DEF Init, Framed

\* What is excused is told of the task, and the worker is the task's.
LEMMA SameTask == job' = job => w' = w /\ Excused' = Excused
BY DEF w, Excused, HexForeign, UnreadForeign, DownloadedForeign

LEMMA FramedStep == IInv /\ AxisInv /\ Profiled /\ Framed /\ [Next]_vars => Framed'
<1> SUFFICES ASSUME IInv, AxisInv, Profiled, Framed, [Next]_vars,
                    ~ Excused', ~ remux', reason' = "none"
             PROVE  Framed'
  BY DEF Framed
<1>1. CASE Scrub
  <2>1. job' = job /\ pc' = "gate"
    BY <1>1 DEF Scrub, Advance
  <2>2. Untouched(w, argv', job.video)
    BY <1>1, ScrubUntouched
  <2> QED
    BY <2>1, <2>2, SameTask DEF Framed
<1>2. CASE Gate
  <2>1. pc = "gate" /\ pc' = "reshape" /\ UNCHANGED <<job, argv, remux, reason>>
    BY <1>2 DEF Gate, Advance
  <2>2. Untouched(w, argv, job.video)
    BY <2>1, SameTask DEF Framed
  <2> QED
    BY <2>1, <2>2, SameTask DEF Framed
<1>3. CASE Reshape
  <2>1. pc = "reshape" /\ pc' = "decode" /\ UNCHANGED <<job, remux, reason>>
    BY <1>3 DEF Reshape, Advance
  <2>2. Untouched(w, argv, job.video) /\ ~ Excused
    BY <2>1, SameTask DEF Framed
  <2>3. Readied(w, argv')
    BY <1>3, <2>2, ReshapeReadies
  <2>4. Hosted(w, argv')
    BY <2>3 DEF Readied
  <2> QED
    BY <2>1, <2>3, <2>4, SameTask DEF Framed
<1>4. CASE KeepDecoder \/ UpgradeDecoder
  <2>1. pc = "decode" /\ pc' = "device" /\ UNCHANGED <<job, remux, reason>>
    BY <1>4 DEF KeepDecoder, UpgradeDecoder, DecoderSet, Advance
  <2>2. Hosted(w, argv) /\ Readied(w, argv)
    BY <2>1, SameTask DEF Framed
  <2>3. Hosted(w, argv') /\ Decides(w, honour', hwDecode', argv')
    <3>1. CASE KeepDecoder
      BY <2>2, <3>1, DecoderDecides
    <3>2. CASE UpgradeDecoder
      BY <2>2, <3>2, DecoderDecides
    <3> QED
      BY <1>4, <3>1, <3>2
  <2> QED
    BY <2>1, <2>3, SameTask DEF Framed
<1>5. CASE SetDevice
  <2>1. /\ pc = "device" /\ pc' \in {"picture", "encoder", "resident"}
        /\ UNCHANGED <<job, remux, reason, honour>>
    BY <1>5 DEF SetDevice, Advance
  <2>2. Hosted(w, argv) /\ Decides(w, honour, hwDecode, argv)
    BY <2>1, SameTask DEF Framed
  <2>3. /\ Hosted(w, argv')
        /\ argv'.device = IF honour = "sw" THEN "none" ELSE initHWDevice(w.backend)
        /\ pc' \in {"picture", "encoder"} => honour = "none"
        /\ pc' = "encoder" => Suits(w, argv')
        /\ pc' = "resident" => Placed(w, honour, argv')
    BY <1>5, <2>2, DeviceFrames
  <2> QED
    BY <2>1, <2>3, SameTask DEF Framed
<1>6. CASE MovePicture \/ BurnText \/ BurnOverlay \/ KeepPicture
  <2>1. /\ pc \in {"picture", "encoder"} /\ pc' = "resident"
        /\ UNCHANGED <<job, remux, reason, honour>>
        /\ MovePicture \/ pc = "encoder"
    BY <1>6 DEF MovePicture, BurnText, BurnOverlay, KeepPicture, HardwareEncoder, Advance
  <2>2. /\ Hosted(w, argv) /\ honour = "none" /\ (pc = "encoder" => Suits(w, argv))
        /\ argv.device = IF honour = "sw" THEN "none" ELSE initHWDevice(w.backend)
    BY <2>1, SameTask DEF Framed
  <2>3. Deep(w, argv.enc, argv.graph)
    BY <2>1 DEF Profiled, Early, AxisInv, Decided
  <2>4. Hosted(w, argv') /\ Placed(w, "none", argv') /\ argv'.device = argv.device
    <3>1. CASE MovePicture
      BY <2>2, <2>3, <3>1, MoveFrames
    <3>2. CASE BurnText
      BY <2>2, <2>3, <3>2, TextFrames
    <3>3. CASE BurnOverlay
      BY <2>2, <3>3, OverlayFrames
    <3>4. CASE KeepPicture
      <4>1. argv' = argv /\ Suits(w, argv)
        BY <2>1, <2>2, <3>4 DEF KeepPicture, HardwareEncoder
      <4> QED
        BY <2>2, <3>4, <4>1, KeptFrames
    <3> QED
      BY <1>6, <3>1, <3>2, <3>3, <3>4
  <2> QED
    BY <2>1, <2>2, <2>4, SameTask DEF Framed
<1>7. CASE SettlePicture
  <2>1. pc = "resident" /\ pc' = "tail" /\ UNCHANGED <<job, remux, reason, honour>>
    BY <1>7 DEF SettlePicture, Advance
  <2>2. /\ Hosted(w, argv) /\ Placed(w, honour, argv)
        /\ argv.device = IF honour = "sw" THEN "none" ELSE initHWDevice(w.backend)
    BY <2>1, SameTask DEF Framed
  <2>3. Hosted(w, argv') /\ Settles(w, argv') /\ argv'.device = argv.device
    BY <1>7, <2>2, SettleFrames
  <2> QED
    BY <2>1, <2>2, <2>3, SameTask DEF Framed
<1>8. CASE FinishTransport
  <2>1. pc = "tail" /\ pc' = "done" /\ UNCHANGED <<job, remux, reason, honour>>
    BY <1>8 DEF FinishTransport
  <2>2. /\ Hosted(w, argv) /\ Settles(w, argv)
        /\ argv.device = IF honour = "sw" THEN "none" ELSE initHWDevice(w.backend)
    BY <2>1, SameTask DEF Framed
  <2>3. Hosted(w, argv') /\ Settles(w, argv') /\ argv'.device = argv.device
    BY <1>8, <2>2, FinishFrames
  <2> QED
    BY <2>1, <2>2, <2>3, SameTask DEF Framed
<1>9. CASE Bails
  BY <1>9, SomeReason DEF Bail
<1>10. CASE UNCHANGED vars
  BY <1>10, SameTask DEF Framed, vars
<1> QED
  BY <1>1, <1>2, <1>3, <1>4, <1>5, <1>6, <1>7, <1>8, <1>9, <1>10 DEF Next

\* Whatever Plex's argv and the worker are, the argv that is given out is one
\* the worker's ffmpeg can run: decoder, filters and encoder hand the frames on
\* in the memory the next one works on - kept, uploaded, mapped to OpenCL or
\* downloaded - of a device of this worker's kind, but for the three forms of
\* another backend's argv that the rewriter does not read (rewriter.go:2204-3522,
\* source_backend.go:232-291).
THEOREM FramesAlwaysMatch == Spec => []FramesMatch
<1>1. IInv /\ Framed => FramesMatch
  <2> SUFFICES ASSUME Framed, Rewritten, ~ Excused
               PROVE  /\ Memory(argv.graph.nodes, Decoded(argv), Device(w.backend)) \in Taken(argv.enc)
                      /\ argv.accel \in {"none", hwaccelName(w.backend)}
                      /\ argv.device = (IF honour = "sw" THEN "none" ELSE initHWDevice(w.backend))
                      /\ Has(argv.graph, {"tonemap_opencl"}) => argv.ocl
    BY DEF FramesMatch, Excused
  <2>1. /\ Hosted(w, argv) /\ Settles(w, argv)
        /\ argv.device = (IF honour = "sw" THEN "none" ELSE initHWDevice(w.backend))
    BY DEF Framed, Rewritten
  <2> QED
    BY <2>1 DEF Hosted, Settles
<1>2. Init => IInv /\ AxisInv /\ PicInv /\ Profiled /\ Framed
  BY InvInit, AxisInit, PicInit, ProfileInit, FramedInit
<1>3. (IInv /\ AxisInv /\ PicInv /\ Profiled /\ Framed) /\ [Next]_vars
      => (IInv /\ AxisInv /\ PicInv /\ Profiled /\ Framed)'
  BY InvStep, AxisStep, PicStep, ProfileStep, FramedStep
<1> QED
  BY <1>1, <1>2, <1>3, PTL DEF Spec

=============================================================================
