---------------------------- MODULE MCRoundTrip ----------------------------
(***************************************************************************)
(* RoundTrip instantiated with focus offers: every content has sources     *)
(* with parameters, named fmtp parameters, and a transport whose           *)
(* fingerprint carries a setup role.  The RT... sets below each widen one  *)
(* of these inputs the way a focus or a test might.                        *)
(***************************************************************************)
EXTENDS RoundTrip, JingleTestData

\* The transport of the test data with each setup role, without a
\* fingerprint, or absent.
RTTransports ==
    {[MCTransport EXCEPT !.fingerprint.setup = r] : r \in Setups}
      \cup {[MCTransport EXCEPT !.fingerprint = None], None}

RTAudio(pts, ts) ==
    {[desc |-> [Desc("audio", pts, ss, gs) EXCEPT !.rtcpMux = mux], transport |-> t] :
        ss \in SubSeqsOf(<<S1, S2, S3>>) \ {<<>>},
        gs \in {<<>>, <<Group("FID", <<2, 3>>)>>},
        mux \in BOOLEAN, t \in ts}

RTVideo(sss) ==
    {[desc |-> Desc("video", VideoPts, ss, gs), transport |-> MCTransport] :
        ss \in sss,
        gs \in {<<>>, <<Group("FID", <<5, 6>>)>>,
                <<Group("SIM", <<5, 6>>), Group("FID", <<5, 6>>)>>}}

RTOffersOf(as, vs) ==
    {[contents |-> <<a, v>>, group |-> g] : a \in as, v \in vs, g \in {"BUNDLE", None}}

RTOffers == RTOffersOf(RTAudio(AudioPts, RTTransports),
                       RTVideo(SubSeqsOf(<<S4, S5, S6>>) \ {<<>>}))

\* A fingerprint without a setup role.
RTOffersNoSetup ==
    RTOffersOf(RTAudio(AudioPts, {[MCTransport EXCEPT !.fingerprint.setup = None]}),
               RTVideo({<<S5>>}))

\* An opus fmtp parameter without a name (written as its value alone).
RTOffersBareFmtp ==
    RTOffersOf(RTAudio(<<Pt(111, 2, <<"kv", "bare">>, 1)>>, {MCTransport}),
               RTVideo({<<S5>>}))

\* A video source without parameters.
RTOffersBareSource ==
    RTOffersOf(RTAudio(AudioPts, {MCTransport}), RTVideo({<<S5, S7>>}))

-----------------------------------------------------------------------------
(***************************************************************************)
(* A browser's answer to the focus offer: two audio blocks (the second    *)
(* recvonly, with another codec) and a video block with an FID group,     *)
(* bundled.  The answers checked are this one and the ones with one or    *)
(* two of its lines spoiled: a value that does not parse, a fingerprint  *)
(* without a space, an unknown setup role, or a missing line.             *)
(***************************************************************************)
SsrcLine(id, n, v) == Attr("ssrc", [id |-> id, name |-> n, value |-> v])

AnswerAudio ==
    [media |-> "audio",
     attrs |-> <<Attr("rtpmap", [id |-> 111, channels |-> 2]),
                 Attr("fmtp", [id |-> 111, params |-> <<"kv">>]),
                 Attr("rtcp-fb", 111), Attr("extmap", 1), Attr("setup", "active"),
                 Attr("mid", 0), Attr("msid", [stream |-> "pa", track |-> "a0"]),
                 Attr("sendrecv", None), SsrcLine(2, "cname", None),
                 Attr("ice-ufrag", "ufrag"), Attr("ice-pwd", "pwd"),
                 Attr("fingerprint", "sha-256"), Attr("rtcp-mux", None)>>]

AnswerAudio2 ==
    [media |-> "audio",
     attrs |-> <<Attr("rtpmap", [id |-> 103, channels |-> 0]), Attr("rtcp-fb", 103),
                 Attr("mid", 1), Attr("recvonly", None), SsrcLine(3, "cname", None)>>]

AnswerVideo ==
    [media |-> "video",
     attrs |-> <<Attr("rtpmap", [id |-> 100, channels |-> 0]),
                 Attr("fmtp", [id |-> 100, params |-> <<"kv", "bare">>]),
                 Attr("rtcp-fb", 100), Attr("setup", "active"), Attr("mid", 2),
                 Attr("sendonly", None),
                 SsrcLine(5, "msid", [stream |-> "pa", track |-> "v0"]),
                 SsrcLine(6, "msid", [stream |-> "pa", track |-> "v0"]),
                 Attr("ssrc-group", Group("FID", <<5, 6>>)),
                 Attr("fingerprint", "sha-256")>>]

BaseAnswer ==
    [attrs |-> <<Attr("group", [semantics |-> "BUNDLE", mids |-> <<0, 1, 2>>])>>,
     media |-> <<AnswerAudio, AnswerAudio2, AnswerVideo>>]

\* The first line with a key in a list of attributes set to v, or, when v
\* is "drop", turned into a line no code reads (so that the lines keep
\* their places).  Block 0 is the session level.
SpoilIn(attrs, key, v) ==
    LET i == SelectInSeq(attrs, LAMBDA l : l.key = key)
    IN  IF v = "drop" THEN [attrs EXCEPT ![i] = Attr("x-dropped", None)]
        ELSE [attrs EXCEPT ![i].value = v]

Spoil(a, d) ==
    IF d.block = 0 THEN [a EXCEPT !.attrs = SpoilIn(@, d.key, d.value)]
    ELSE [a EXCEPT !.media[d.block].attrs = SpoilIn(@, d.key, d.value)]

D(b, k, v) == [block |-> b, key |-> k, value |-> v]

Defects ==
    {D(1, "rtpmap", Bad), D(2, "rtpmap", Bad), D(1, "fmtp", Bad), D(3, "rtcp-fb", Bad),
     D(2, "rtcp-fb", Bad), D(1, "extmap", Bad), D(2, "ssrc", Bad), D(3, "ssrc-group", Bad),
     D(1, "fingerprint", "nospace"), D(1, "fingerprint", Bad), D(1, "setup", "holdconn"),
     D(1, "setup", "drop"), D(3, "rtpmap", "drop"), D(3, "fmtp", Bad), D(0, "group", Bad),
     D(1, "msid", "drop")}

\* The base answer, with one defect, or with two at different lines.
RTAnswers ==
    {BaseAnswer}
      \cup {Spoil(BaseAnswer, d) : d \in Defects}
      \cup UNION {{Spoil(Spoil(BaseAnswer, d), e) :
                    e \in {e \in Defects : e.block # d.block \/ e.key # d.key}} :
                  d \in Defects}

=============================================================================
