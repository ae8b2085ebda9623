--------------------------- MODULE JingleTestData ---------------------------
(***************************************************************************)
(* Jingle inputs shared by the model-checking modules.  The sources follow *)
(* the test's session-initiate: the bridge's mixed audio and video sources *)
(* owned by "jvb", participants' sources with a cname and an msid, an RTX *)
(* source tied to its primary by FID, and simulcast layers tied by SIM.  A *)
(* few carry the edge cases the code must get right: an msid without value *)
(* before a valued one, the label "mixedmslabel" without a track, and a   *)
(* source without parameters.                                             *)
(***************************************************************************)
EXTENDS JingleToSdp

Msid(s, t) == [name |-> "msid", value |-> [stream |-> s, track |-> t]]
Cname == [name |-> "cname", value |-> None]
Src(id, ps, o) == [id |-> id, params |-> ps, owner |-> o]

\* Offer sources: 1-3 audio, 4-7 video.
S1 == Src(1, <<Msid("mixedmslabel", "mixa")>>, "jvb")
S2 == Src(2, <<Cname, Msid("pa", "a0")>>, "pa")
S3 == Src(3, <<[name |-> "msid", value |-> None], Msid("mixedmslabel", None)>>, "pb")
S4 == Src(4, <<Msid("mixedmslabel", "mixv")>>, "jvb")
S5 == Src(5, <<Cname, Msid("pa", "v0")>>, "pa")
S6 == Src(6, <<Msid("pa", "v0")>>, "pa")
S7 == Src(7, <<>>, None)
\* Source-add sources of a participant joining later: 8 audio, 9-10 video.
S8 == Src(8, <<Msid("pc", "a0")>>, "pc")
S9 == Src(9, <<Msid("pc", "v0")>>, "pc")
S10 == Src(10, <<Msid("pc", "v0")>>, "pc")

Group(sem, ids) == [semantics |-> sem, members |-> ids]

\* The sub-sequences of a sequence (sources keep their declaration order).
SubSeqsOf(s) == {SelectSeq(s, LAMBDA x : x \in T) : T \in SUBSET ToSet(s)}

MCTransport ==
    [ufrag |-> TRUE, pwd |-> TRUE,
     fingerprint |-> [hash |-> "sha-256", setup |-> "actpass"],
     candidates |-> <<[type |-> "host", relAddr |-> FALSE, relPort |-> FALSE],
                      [type |-> "srflx", relAddr |-> TRUE, relPort |-> TRUE]>>]

Pt(id, ch, ps, fbs) == [id |-> id, named |-> TRUE, channels |-> ch,
                        params |-> ps, fbs |-> fbs]

\* opus (stereo, minptime=10;useinbandfec=1), telephone-event, VP8.
AudioPts == <<Pt(111, 2, <<"kv", "kv">>, 1), Pt(103, 1, <<>>, 0)>>
VideoPts == <<Pt(100, 1, <<>>, 1)>>

Desc(m, pts, ss, gs) ==
    [media |-> m, pts |-> pts, hdrexts |-> <<[id |-> 1, uriOk |-> TRUE]>>,
     ssrcs |-> ss, groups |-> gs, rtcpMux |-> TRUE]

AudioContents ==
    {[desc |-> Desc("audio", AudioPts, ss, gs), transport |-> MCTransport] :
        ss \in SubSeqsOf(<<S1, S2, S3>>),
        gs \in {<<>>, <<Group("FID", <<2, 3>>)>>}}

VideoContents ==
    {[desc |-> Desc("video", VideoPts, ss, gs), transport |-> MCTransport] :
        ss \in SubSeqsOf(<<S4, S5, S6, S7>>),
        gs \in {<<>>,
                <<Group("FID", <<5, 6>>)>>,
                <<Group("SIM", <<5, 7>>), Group("FID", <<5, 6>>)>>,
                <<Group("FID", <<7, 9>>)>>}}

\* session-initiate: audio then video content, BUNDLE group.
MCOffers ==
    {[contents |-> <<a, v>>, group |-> "BUNDLE"] : a \in AudioContents, v \in VideoContents}

\* source-add: a description with sources and groups only, no transport.
AddDesc(m, ss, gs) ==
    [desc |-> [media |-> m, pts |-> <<>>, hdrexts |-> <<>>, ssrcs |-> ss,
               groups |-> gs, rtcpMux |-> FALSE],
     transport |-> None]

MCSourceAdds ==
    {[contents |-> <<AddDesc("audio", <<S8>>, <<>>)>>, group |-> None],
     [contents |-> <<AddDesc("video", <<S9, S10>>, <<Group("FID", <<9, 10>>)>>)>>,
      group |-> None],
     [contents |-> <<AddDesc("audio", <<S8>>, <<>>),
                     AddDesc("video", <<S9, S10>>, <<>>)>>, group |-> None]}

-----------------------------------------------------------------------------
(* Codec and transport variations with a few sources. *)

Cand(t, r) == [type |-> t, relAddr |-> r, relPort |-> r]

TemplateTransports ==
    {[ufrag |-> u, pwd |-> TRUE, fingerprint |-> f,
      candidates |-> <<Cand("host", FALSE), Cand("relay", TRUE)>>] :
        u \in BOOLEAN,
        f \in {None} \cup [hash : {"sha-256", "sha-384", "sha3-256"},
                           setup : {"actpass", None}]}

TemplateAudio ==
    {[desc |-> [media |-> "audio",
                pts |-> <<[Pt(111, 2, <<"kv">>, 1) EXCEPT !.named = n]>>,
                hdrexts |-> <<[id |-> 1, uriOk |-> u]>>,
                ssrcs |-> ss, groups |-> <<>>, rtcpMux |-> TRUE],
      transport |-> t] :
        n \in BOOLEAN, u \in BOOLEAN, ss \in {<<>>, <<S1, S2>>},
        t \in TemplateTransports}

TemplateVideo ==
    {[desc |-> Desc("video", VideoPts, ss, <<>>), transport |-> MCTransport] :
        ss \in {<<>>, <<S5>>}}

TemplateOffers ==
    {[contents |-> <<a, v>>, group |-> "BUNDLE"] : a \in TemplateAudio, v \in TemplateVideo}

=============================================================================
