----------------------------- MODULE JingleToSdp -----------------------------
(***************************************************************************)
(* The Jingle -> SDP direction of jitsi-jingle-sdp/src/lib.rs:            *)
(* try_from_jingle (the offer built from a session-initiate) and          *)
(* add_sources_from_jingle (blocks appended for a source-add).            *)
(*                                                                         *)
(* An SDP attribute is a record [key, value]; its value is the structure  *)
(* the code formats into text (an "ssrc" line "<id> <name>[:<value>]" is  *)
(* the record [id, name, value]).  The sdp crate's builders append: a     *)
(* with_* call adds attributes at the end of the block's list, and        *)
(* with_codec adds rtpmap and, for a non-empty fmtp string, fmtp.         *)
(***************************************************************************)
EXTENDS SourceGrouping

CONSTANTS
    MediaTypes,     \* media / content names ("audio", "video")
    PtIds,          \* payload type ids
    ExtIds,         \* rtp-hdrext ids
    HashNames       \* hash names a <fingerprint/> may carry

\* jingle_rtp::PayloadType.  named: both name and clockrate are present;
\* params: its fmtp parameters, "kv" for name=value and "bare" for one
\* with an empty name (written as its value alone); fbs: its rtcp-fb count.
FmtpParams == {"kv", "bare"}
PayloadTypes == [id : PtIds, named : BOOLEAN, channels : 1..2,
                 params : Seq(FmtpParams), fbs : 0..1]

\* jingle_rtp_hdrext::RtpHdrext; uriOk: hdrext.uri parses as a URL.
HdrExts == [id : ExtIds, uriOk : BOOLEAN]

CandidateTypes == {"host", "srflx", "prflx", "relay"}
Candidates == [type : CandidateTypes, relAddr : BOOLEAN, relPort : BOOLEAN]

Setups == {"active", "passive", "actpass"}
Fingerprints == [hash : HashNames, setup : Setups \cup {None}]

\* jingle_ice_udp::Transport (ufrag, pwd: the Options are Some).
Transports == [ufrag : BOOLEAN, pwd : BOOLEAN,
               fingerprint : Fingerprints \cup {None},
               candidates : Seq(Candidates)]

RtpDescriptions == [media : MediaTypes, pts : Seq(PayloadTypes),
                    hdrexts : Seq(HdrExts), ssrcs : Seq(Sources),
                    groups : Seq(SourceGroups), rtcpMux : BOOLEAN]

Contents == [desc : RtpDescriptions \cup {None}, transport : Transports \cup {None}]

Attr(k, v) == [key |-> k, value |-> v]

\* Variant of IdentityKeys that strips only "sendonly" of the directions
\* (a mutant checked against BlockCarriesOneIdentity).
IdentityKeysOnlySendonly == {"ssrc", "ssrc-group", "mid", "msid", "sendonly"}

\* The attributes a block carries for the identity of its sources; the
\* ones add_sources_from_jingle strips from its template.
IdentityKeys == {"ssrc", "ssrc-group", "mid", "msid", "sendrecv", "sendonly"}

\* RFC 4572 names accepted for a fingerprint hash.
AcceptedHashes ==
    {"sha-1", "sha-256", "sha-512",
     "sha-224", "sha-384", "shake128", "shake256", "md5", "md2"}

EmptySdp == [attrs |-> <<>>, media |-> <<>>]

-----------------------------------------------------------------------------
(***************************************************************************)
(* populate_media_description_from_sources                                *)
(***************************************************************************)
Direction(sources) ==
    IF sources # <<>> /\ sources[1].owner = "jvb" THEN "sendrecv" ELSE "sendonly"

SsrcLines(sources) ==
    FlattenSeq([i \in DOMAIN sources |->
        [k \in DOMAIN sources[i].params |->
            Attr("ssrc", [id |-> sources[i].id,
                          name |-> sources[i].params[k].name,
                          value |-> sources[i].params[k].value])]])

\* Variant of IdentityAttrs that pushes the msid attribute without the
\* if-let, also when no source has one (a mutant checked against TypeOK).
IdentityAttrsUnguardedMsid(entry) ==
    <<Attr("msid", MsidForSources(entry.sources))>>
      \o <<Attr(Direction(entry.sources), None)>>
      \o SsrcLines(entry.sources)
      \o (IF entry.group # None THEN <<Attr("ssrc-group", entry.group)>> ELSE <<>>)

IdentityAttrs(entry) ==
    LET msid == MsidForSources(entry.sources)
    IN  (IF msid # None THEN <<Attr("msid", msid)>> ELSE <<>>)
          \o <<Attr(Direction(entry.sources), None)>>
          \o SsrcLines(entry.sources)
          \o (IF entry.group # None
                THEN <<Attr("ssrc-group", entry.group)>> ELSE <<>>)

-----------------------------------------------------------------------------
(***************************************************************************)
(* The per-content part of each block of try_from_jingle: codecs with an  *)
(* "rtcp" attribute pushed inside the payload-type loop, extmaps, setup,  *)
(* then (after mid and the identity) ICE, fingerprint, candidates, mux.   *)
(***************************************************************************)
\* with_codec writes "<id> <name>/<clockrate>[/<channels>]", the channel
\* count omitted when the code passes 0 (for a count of 1), and an fmtp line
\* "<id> <joined params>" when the joined string is non-empty.
CodecAttrs(pt) ==
    <<Attr("rtpmap", [id |-> pt.id, channels |-> IF pt.channels = 1 THEN 0
                                                  ELSE pt.channels])>>
      \o (IF pt.params # <<>>
             THEN <<Attr("fmtp", [id |-> pt.id, params |-> pt.params])>> ELSE <<>>)
      \o <<Attr("rtcp", "1 IN IP4 0.0.0.0")>>
      \o [k \in 1..pt.fbs |-> Attr("rtcp-fb", pt.id)]

\* Variant of SetupAttrs that writes the setup role of a fingerprint even
\* when it has none (a mutant checked against TypeOK).
SetupAttrsUnguarded(t) ==
    IF t # None /\ t.fingerprint # None
    THEN <<Attr("setup", t.fingerprint.setup)>> ELSE <<>>

SetupAttrs(t) ==
    IF t # None /\ t.fingerprint # None /\ t.fingerprint.setup # None
    THEN <<Attr("setup", t.fingerprint.setup)>> ELSE <<>>

\* RFC 8839 candidate line: raddr/rport only for non-host candidates.
RenderCandidate(c) ==
    [type  |-> c.type,
     raddr |-> c.type # "host" /\ c.relAddr,
     rport |-> c.type # "host" /\ c.relPort]

TransportAttrs(t) ==
    IF t = None THEN <<>>
    ELSE (IF t.ufrag /\ t.pwd
            THEN <<Attr("ice-ufrag", "ufrag"), Attr("ice-pwd", "pwd")>> ELSE <<>>)
         \o (IF t.fingerprint # None
               THEN <<Attr("fingerprint", t.fingerprint.hash)>> ELSE <<>>)
         \o [k \in DOMAIN t.candidates |->
               Attr("candidate", RenderCandidate(t.candidates[k]))]

\* The conditions under which building a block returns Error::InvalidJingle.
TemplateValid(c) ==
    /\ \A k \in DOMAIN c.desc.pts : c.desc.pts[k].named
    /\ \A k \in DOMAIN c.desc.hdrexts : c.desc.hdrexts[k].uriOk
    /\ c.transport # None /\ c.transport.fingerprint # None
         => c.transport.fingerprint.hash \in AcceptedHashes

\* Variant of EncodeBlock that writes the transport only into the block with
\* mid 0 (a mutant checked against BlocksSelfDescribing).
EncodeBlockTransportOnce(c, entry, mid) ==
    [media |-> c.desc.media,
     attrs |-> FlattenSeq([k \in DOMAIN c.desc.pts |-> CodecAttrs(c.desc.pts[k])])
                 \o [k \in DOMAIN c.desc.hdrexts |-> Attr("extmap", c.desc.hdrexts[k].id)]
                 \o SetupAttrs(c.transport)
                 \o <<Attr("mid", mid)>>
                 \o IdentityAttrs(entry)
                 \o (IF mid = 0 THEN TransportAttrs(c.transport) ELSE <<>>)
                 \o (IF c.desc.rtcpMux THEN <<Attr("rtcp-mux", None)>> ELSE <<>>)]

EncodeBlock(c, entry, mid) ==
    [media |-> c.desc.media,
     attrs |-> FlattenSeq([k \in DOMAIN c.desc.pts |-> CodecAttrs(c.desc.pts[k])])
                 \o [k \in DOMAIN c.desc.hdrexts |-> Attr("extmap", c.desc.hdrexts[k].id)]
                 \o SetupAttrs(c.transport)
                 \o <<Attr("mid", mid)>>
                 \o IdentityAttrs(entry)
                 \o TransportAttrs(c.transport)
                 \o (IF c.desc.rtcpMux THEN <<Attr("rtcp-mux", None)>> ELSE <<>>)]

\* One block per source group of a content, mids counted on from firstMid.
EncodeContent(c, order, firstMid) ==
    IF c.desc = None THEN <<>>
    ELSE LET es == GroupSources(c.desc, order)
         IN  [k \in DOMAIN es |-> EncodeBlock(c, es[k], firstMid + k - 1)]

\* The hash orders of every content of a Jingle, one per content.
OrdersFor(contents) ==
    LET Of(c) == IF c.desc = None THEN {<<>>} ELSE HashOrders(c.desc)
    IN  {o \in [DOMAIN contents -> UNION {Of(contents[i]) : i \in DOMAIN contents}] :
            \A i \in DOMAIN contents : o[i] \in Of(contents[i])}

\* The session "group" attribute: the Jingle's semantics and the mids
\* 0..mid-1, when the Jingle has a group.
BundleGroup(j, mid) ==
    IF j.group # None
    THEN <<Attr("group", [semantics |-> j.group, mids |-> [k \in 1..mid |-> k - 1]])>>
    ELSE <<>>

(***************************************************************************)
(* try_from_jingle: the blocks of every content in order, mid counting    *)
(* from 0; a session "group" attribute listing 0..mid-1 when the Jingle   *)
(* has a group.  Any failing block fails the whole call.                  *)
(***************************************************************************)
TryFromJingle(j, orders) ==
    LET idx    == [i \in DOMAIN j.contents |-> i]
        media  == FoldLeft(LAMBDA acc, i :
                              acc \o EncodeContent(j.contents[i], orders[i], Len(acc)),
                           <<>>, idx)
        failed == \E i \in DOMAIN j.contents :
                     /\ j.contents[i].desc # None
                     /\ GroupSources(j.contents[i].desc, orders[i]) # <<>>
                     /\ ~TemplateValid(j.contents[i])
    IN  IF failed THEN [ok |-> FALSE, sdp |-> EmptySdp]
        ELSE [ok |-> TRUE,
              sdp |-> [attrs |-> <<Attr("msid-semantic", " WMS *")>> \o BundleGroup(j, Len(media)),
                       media |-> media]]

(***************************************************************************)
(* add_sources_from_jingle: for each content, the first block of its      *)
(* media type (searched in the list as it grows) with the identity        *)
(* attributes removed is cloned for every source group, given mid = the   *)
(* current number of blocks, populated, and pushed.  A content whose      *)
(* media type has no block is skipped.  The session attributes are not    *)
(* touched.                                                                *)
(***************************************************************************)
\* Variant of AddContent that gives every block of a content the same mid
\* (the increment dropped; a mutant checked against MidsDenseUnique).
AddContentSameMid(media, c, order) ==
    LET t == IF c.desc = None THEN 0
             ELSE SelectInSeq(media, LAMBDA md : md.media = c.desc.media)
    IN  IF t = 0 THEN media
        ELSE LET tmpl == SelectSeq(media[t].attrs, LAMBDA a : a.key \notin IdentityKeys)
                 es   == GroupSources(c.desc, order)
             IN  media \o [k \in DOMAIN es |->
                             [media |-> c.desc.media,
                              attrs |-> tmpl \o <<Attr("mid", Len(media))>>
                                             \o IdentityAttrs(es[k])]]

AddContent(media, c, order) ==
    LET t == IF c.desc = None THEN 0
             ELSE SelectInSeq(media, LAMBDA md : md.media = c.desc.media)
    IN  IF t = 0 THEN media
        ELSE LET tmpl == SelectSeq(media[t].attrs, LAMBDA a : a.key \notin IdentityKeys)
                 es   == GroupSources(c.desc, order)
             IN  media \o [k \in DOMAIN es |->
                             [media |-> c.desc.media,
                              attrs |-> tmpl \o <<Attr("mid", Len(media) + k - 1)>>
                                             \o IdentityAttrs(es[k])]]

AddSources(sdp, delta, orders) ==
    [sdp EXCEPT !.media =
        FoldLeft(LAMBDA acc, i : AddContent(acc, delta.contents[i], orders[i]),
                 @, [i \in DOMAIN delta.contents |-> i])]

=============================================================================
