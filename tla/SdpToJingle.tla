----------------------------- MODULE SdpToJingle -----------------------------
(***************************************************************************)
(* The SDP -> Jingle direction of jitsi-jingle-sdp/src/lib.rs:            *)
(* try_to_jingle.  The blocks are folded into a HashMap from media name   *)
(* to Content: the first block of a media type is the template that       *)
(* supplies payload types, header extensions, rtcp-mux, senders and the   *)
(* ICE transport; every block, the first included, adds its sources and  *)
(* ssrc-groups.  The contents leave the map, and the session group lists  *)
(* them, in the map's iteration order.                                    *)
(*                                                                         *)
(* An attribute value is the record the encoder formats; parsing a line   *)
(* back yields its fields.  A browser's answer may also carry lines that  *)
(* do not parse: their value is Bad (a numeric id, rtpmap clock rate or  *)
(* channel count, fingerprint hex, or group semantics that fails to       *)
(* parse), and a fingerprint line without a space is "nospace".           *)
(* Valueless lines (a=rtpmap alone) are not part of the input domain.     *)
(***************************************************************************)
EXTENDS JingleToSdp

CONSTANT
    Bad             \* the value of a line that does not parse

\* The line's value parses where the decoder parses it.
Parsed(a) == a.value # Bad

\* The attributes of a block with a given key, in order.
AttrsOf(md, key) == SelectSeq(md.attrs, LAMBDA a : a.key = key)

\* md.attribute(key): the first attribute with that key, or None.
FirstAttr(md, key) ==
    LET i == SelectInSeq(md.attrs, LAMBDA a : a.key = key)
    IN  IF i = 0 THEN None ELSE md.attrs[i]

HasAttr(md, key) == FirstAttr(md, key) # None

-----------------------------------------------------------------------------
(***************************************************************************)
(* A payload type from its rtpmap line: the channel count defaults to 1   *)
(* when the line has none; the parameters are those of every fmtp line    *)
(* with the same id, split on ';', keeping the ones with an '='; the      *)
(* feedback entries are the rtcp-fb lines with the same id.               *)
(***************************************************************************)
\* Variant of DecodePt that takes the parameters of every fmtp line, the
\* fmtp_id == id test dropped (a mutant checked against
\* RoundTripKeepsPayloadTypes).
DecodePtAnyFmtp(md, rm) ==
    LET fmtps == SelectSeq(AttrsOf(md, "fmtp"), Parsed)
    IN  [id       |-> rm.id,
         named    |-> TRUE,
         channels |-> IF rm.channels = 0 THEN 1 ELSE rm.channels,
         params   |-> FlattenSeq([k \in DOMAIN fmtps |->
                          SelectSeq(fmtps[k].value.params, LAMBDA p : p = "kv")]),
         fbs      |-> Len(SelectSeq(AttrsOf(md, "rtcp-fb"), LAMBDA a : Parsed(a) /\ a.value = rm.id))]

\* Variant of DecodePt whose default channel count is 0 (a mutant checked
\* against TypeOK).
DecodePtDefaultZero(md, rm) ==
    LET fmtps == SelectSeq(AttrsOf(md, "fmtp"), LAMBDA a : Parsed(a) /\ a.value.id = rm.id)
    IN  [id       |-> rm.id,
         named    |-> TRUE,
         channels |-> rm.channels,
         params   |-> FlattenSeq([k \in DOMAIN fmtps |->
                          SelectSeq(fmtps[k].value.params, LAMBDA p : p = "kv")]),
         fbs      |-> Len(SelectSeq(AttrsOf(md, "rtcp-fb"), LAMBDA a : Parsed(a) /\ a.value = rm.id))]

DecodePt(md, rm) ==
    LET fmtps == SelectSeq(AttrsOf(md, "fmtp"), LAMBDA a : Parsed(a) /\ a.value.id = rm.id)
    IN  [id       |-> rm.id,
         named    |-> TRUE,
         channels |-> IF rm.channels = 0 THEN 1 ELSE rm.channels,
         params   |-> FlattenSeq([k \in DOMAIN fmtps |->
                          SelectSeq(fmtps[k].value.params, LAMBDA p : p = "kv")]),
         fbs      |-> Len(SelectSeq(AttrsOf(md, "rtcp-fb"), LAMBDA a : Parsed(a) /\ a.value = rm.id))]

\* Senders from the first direction attribute found, in this precedence.
DecodeSenders(md) ==
    CASE HasAttr(md, "sendrecv") -> "both"
      [] HasAttr(md, "sendonly") -> "responder"
      [] HasAttr(md, "recvonly") -> "initiator"
      [] OTHER                   -> "none"

\* Variant of SetupRoles without the "actpass" arm (a mutant checked against
\* RoundTripSucceeds).
SetupRolesNoActpass == {"passive", "active"}

\* The match on the setup attribute's value; any other value is an error.
SetupRoles == {"passive", "active", "actpass"}

\* rtcp-mux on the content when the template block has the attribute.
\* Variant that sets it whatever the block says (a mutant checked against
\* RoundTripKeepsTransport).
DecodeRtcpMuxAlways(md) == TRUE

DecodeRtcpMux(md) == HasAttr(md, "rtcp-mux")

(***************************************************************************)
(* The IceUdpTransport of a template block: ICE credentials, and a        *)
(* fingerprint.  A fingerprint line that splits at a space needs a setup  *)
(* attribute with a known role and hex that parses (else the call fails); *)
(* one without a space is dropped without an error.  The candidates are   *)
(* never read.                                                            *)
(***************************************************************************)
DecodeTransport(md) ==
    LET fp    == FirstAttr(md, "fingerprint")
        setup == FirstAttr(md, "setup")
        split == fp # None /\ fp.value # "nospace"
    IN  [ok |-> split => setup # None /\ setup.value \in SetupRoles /\ Parsed(fp),
         transport |->
           [ufrag       |-> HasAttr(md, "ice-ufrag"),
            pwd         |-> HasAttr(md, "ice-pwd"),
            fingerprint |-> IF ~split \/ setup = None THEN None
                            ELSE [hash |-> fp.value, setup |-> setup.value],
            candidates  |-> <<>>]]

AllParsed(lines) == \A k \in DOMAIN lines : Parsed(lines[k])

(***************************************************************************)
(* The Vacant branch: the Content built from the first block of a media   *)
(* type.  Every rtpmap and extmap line is parsed; the fmtp and rtcp-fb    *)
(* lines are parsed inside the loop over rtpmaps, so only when the block  *)
(* has one.                                                               *)
(***************************************************************************)
DecodeTemplate(md) ==
    LET rtpmaps == AttrsOf(md, "rtpmap")
        extmaps == AttrsOf(md, "extmap")
        ssrc    == FirstAttr(md, "ssrc")
        t       == DecodeTransport(md)
        pts     == SelectSeq(rtpmaps, Parsed)
    IN  [ok |-> /\ AllParsed(rtpmaps)
                /\ rtpmaps # <<>> =>
                      AllParsed(AttrsOf(md, "fmtp")) /\ AllParsed(AttrsOf(md, "rtcp-fb"))
                /\ AllParsed(extmaps)
                /\ t.ok,
         content |->
           [name    |-> md.media,
            senders |-> DecodeSenders(md),
            desc    |-> [media   |-> md.media,
                         ssrc    |-> IF ssrc = None \/ ~Parsed(ssrc) THEN None ELSE ssrc.value.id,
                         pts     |-> [k \in DOMAIN pts |-> DecodePt(md, pts[k].value)],
                         hdrexts |-> [k \in DOMAIN extmaps |-> extmaps[k].value],
                         ssrcs   |-> <<>>,
                         groups  |-> <<>>,
                         rtcpMux |-> DecodeRtcpMux(md)],
            transport |-> t.transport]]

-----------------------------------------------------------------------------
(***************************************************************************)
(* The sources of one block: the ssrc lines grouped by id (each id's      *)
(* parameters in line order), and a source without an msid parameter      *)
(* given one with the value of the block's first msid attribute.  Every  *)
(* ssrc and ssrc-group line of every block must parse.                    *)
(***************************************************************************)
BlockOk(md) == AllParsed(AttrsOf(md, "ssrc")) /\ AllParsed(AttrsOf(md, "ssrc-group"))

BlockSsrcIds(md) == {a.value.id : a \in ToSet(SelectSeq(AttrsOf(md, "ssrc"), Parsed))}

\* Variant of BlockParams without the msid backfill (a mutant checked
\* against AnswerSourcesFromEveryBlock).
BlockParamsNoBackfill(md, id) ==
    LET lines == SelectSeq(AttrsOf(md, "ssrc"), LAMBDA a : Parsed(a) /\ a.value.id = id)
    IN  [k \in DOMAIN lines |-> [name |-> lines[k].value.name, value |-> lines[k].value.value]]

BlockParams(md, id) ==
    LET lines == SelectSeq(AttrsOf(md, "ssrc"), LAMBDA a : Parsed(a) /\ a.value.id = id)
        own   == [k \in DOMAIN lines |->
                     [name |-> lines[k].value.name, value |-> lines[k].value.value]]
        msid  == FirstAttr(md, "msid")
    IN  IF msid = None \/ \E k \in DOMAIN own : own[k].name = "msid" THEN own
        ELSE Append(own, [name |-> "msid", value |-> msid.value])

\* The HashMap<u32, _> of a block is drained in an order that varies per
\* process: every permutation of its ids.
BlockSources(md, order) ==
    [k \in DOMAIN order |-> [id |-> order[k], params |-> BlockParams(md, order[k])]]

BlockGroups(md) ==
    LET gs == SelectSeq(AttrsOf(md, "ssrc-group"), Parsed) IN [k \in DOMAIN gs |-> gs[k].value]

\* The per-block orders of a whole SDP.
SsrcOrdersFor(sdp) ==
    {o \in [DOMAIN sdp.media -> UNION {SetToSeqs(BlockSsrcIds(sdp.media[k])) :
                                          k \in DOMAIN sdp.media}] :
        \A k \in DOMAIN sdp.media : o[k] \in SetToSeqs(BlockSsrcIds(sdp.media[k]))}

ContentNames(sdp) == {sdp.media[k].media : k \in DOMAIN sdp.media}

\* Variant of DecodeBlock that adds sources and groups only from the block
\* that creates the content (a mutant checked against RoundTripKeepsSources).
DecodeBlockTemplateOnly(acc, md, order) ==
    LET fresh == md.media \notin DOMAIN acc.contents
        t     == DecodeTemplate(md)
        base  == IF fresh THEN t.content ELSE acc.contents[md.media]
        c     == IF fresh
                 THEN [base EXCEPT !.desc.ssrcs  = @ \o BlockSources(md, order),
                                   !.desc.groups = @ \o BlockGroups(md)]
                 ELSE base
    IN  [ok       |-> acc.ok /\ (fresh => t.ok) /\ BlockOk(md),
         contents |-> (md.media :> c) @@ acc.contents]

\* One iteration of the loop over media descriptions.
DecodeBlock(acc, md, order) ==
    LET fresh == md.media \notin DOMAIN acc.contents
        t     == DecodeTemplate(md)
        base  == IF fresh THEN t.content ELSE acc.contents[md.media]
        c     == [base EXCEPT !.desc.ssrcs  = @ \o BlockSources(md, order),
                              !.desc.groups = @ \o BlockGroups(md)]
    IN  [ok       |-> acc.ok /\ (fresh => t.ok) /\ BlockOk(md),
         contents |-> (md.media :> c) @@ acc.contents]

\* self.attribute("group"): the first session "group" attribute, or None.
SessionGroup(sdp) ==
    LET g == SelectInSeq(sdp.attrs, LAMBDA a : a.key = "group")
    IN  IF g = 0 THEN None ELSE sdp.attrs[g]

GroupOk(sdp) == SessionGroup(sdp) # None => Parsed(SessionGroup(sdp))

\* The Jingle group from the session "group" attribute: its semantics, and
\* the names of the contents in the map's order.
DecodeGroup(sdp, names) ==
    LET g == SessionGroup(sdp)
    IN  IF g = None THEN None
        ELSE [semantics |-> g.value.semantics, contents |-> names]

(***************************************************************************)
(* try_to_jingle: the initiator and responder JIDs are parsed first       *)
(* (InvalidJid), then the blocks are folded (InvalidJingle on the first   *)
(* failing one), then the group's semantics are parsed (InvalidJingle).   *)
(* names is the map's iteration order, used both for the group's content  *)
(* list and for the contents themselves.                                  *)
(***************************************************************************)
TryToJingle(sdp, jidsOk, orders, names) ==
    LET acc   == FoldLeft(LAMBDA a, k : DecodeBlock(a, sdp.media[k], orders[k]),
                          [ok |-> TRUE, contents |-> <<>>],
                          [k \in DOMAIN sdp.media |-> k])
    IN  CASE ~jidsOk -> [ok |-> FALSE, err |-> "InvalidJid", jingle |-> None]
          [] ~acc.ok \/ ~GroupOk(sdp) ->
                        [ok |-> FALSE, err |-> "InvalidJingle", jingle |-> None]
          [] OTHER   -> [ok |-> TRUE, err |-> None,
                         jingle |-> [contents |-> [k \in DOMAIN names |->
                                                      acc.contents[names[k]]],
                                     group |-> DecodeGroup(sdp, names)]]

=============================================================================
