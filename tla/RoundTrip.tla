------------------------------ MODULE RoundTrip ------------------------------
(***************************************************************************)
(* A Jingle encoded with try_from_jingle and the resulting SDP decoded    *)
(* again with try_to_jingle: the round trip that spec section 8 requires  *)
(* to reproduce the payload types, sources and groups of every content.   *)
(* Both calls are pure; the variables record the inputs and results so    *)
(* that properties can relate the decoded Jingle to the original one.     *)
(* try_to_jingle is also called on its own on a browser's answer, which   *)
(* may hold lines that do not parse.                                      *)
(***************************************************************************)
EXTENDS SdpToJingle

CONSTANTS
    Offers,         \* Jingles given to the encoder
    Answers         \* SDPs a browser may answer with

VARIABLES
    stage,          \* "idle" | "encoded" | "decoded" | "answered"
    jingle,         \* the Jingle encoded (None before)
    sdp,            \* the SDP try_from_jingle returned, or the answer
    decoded         \* the result of try_to_jingle (None before)

vars == <<stage, jingle, sdp, decoded>>

Init ==
    /\ stage = "idle"
    /\ jingle = None
    /\ sdp = EmptySdp
    /\ decoded = None

\* try_from_jingle returning Ok, under one of the hash orders of the process.
Encode(j) ==
    /\ stage = "idle"
    /\ \E o \in OrdersFor(j.contents) :
          LET r == TryFromJingle(j, o)
          IN  /\ r.ok
              /\ sdp' = r.sdp
    /\ jingle' = j
    /\ stage' = "encoded"
    /\ UNCHANGED decoded

\* try_to_jingle on that SDP, with initiator and responder JIDs that parse
\* or not, under one of the hash orders of the process.
Decode ==
    /\ stage = "encoded"
    /\ \E jidsOk \in BOOLEAN, o \in SsrcOrdersFor(sdp), names \in SetToSeqs(ContentNames(sdp)) :
          decoded' = TryToJingle(sdp, jidsOk, o, names)
    /\ stage' = "decoded"
    /\ UNCHANGED <<jingle, sdp>>

\* try_to_jingle on a browser's answer.
DecodeAnswer(a) ==
    /\ stage = "idle"
    /\ \E jidsOk \in BOOLEAN, o \in SsrcOrdersFor(a), names \in SetToSeqs(ContentNames(a)) :
          decoded' = TryToJingle(a, jidsOk, o, names)
    /\ sdp' = a
    /\ stage' = "answered"
    /\ UNCHANGED jingle

Next ==
    \/ \E j \in Offers : Encode(j)
    \/ Decode
    \/ \E a \in Answers : DecodeAnswer(a)

Spec == Init /\ [][Next]_vars

-----------------------------------------------------------------------------
(* Views relating the decoded Jingle to the original. *)

Decoded == stage = "decoded" /\ decoded.ok

\* The original contents that carry an RTP description.
RtpContents == {c \in {jingle.contents[i] : i \in DOMAIN jingle.contents} : c.desc # None}

\* The decoded contents named after a media type.
DecodedFor(m) ==
    {decoded.jingle.contents[k] : k \in {k \in DOMAIN decoded.jingle.contents :
                                           decoded.jingle.contents[k].name = m}}

\* A source as the decoder can return it: id and parameters (no ssrc-info).
SourceView(s) == [id |-> s.id, params |-> s.params]

-----------------------------------------------------------------------------
(* Properties *)

TypeOK ==
    /\ stage \in {"idle", "encoded", "decoded", "answered"}
    /\ decoded # None =>
         /\ decoded.err \in {None, "InvalidJid", "InvalidJingle"}
         /\ decoded.ok =>
              \A k \in DOMAIN decoded.jingle.contents :
                 LET c == decoded.jingle.contents[k]
                 IN  /\ c.name \in MediaTypes
                     /\ c.senders \in {"both", "responder", "initiator", "none"}
                     /\ \A p \in ToSet(c.desc.pts) :
                           p.id \in PtIds /\ p.channels \in 1..2
                     /\ \A s \in ToSet(c.desc.ssrcs) : s.id \in Ssrcs
                     /\ c.transport.fingerprint # None =>
                           c.transport.fingerprint.setup \in Setups

(***************************************************************************)
(* Decoding what the encoder produced never fails except on the JIDs: the *)
(* decoder requires for every fingerprint a setup attribute with a role   *)
(* it knows, and the encoder must have written one into every block that  *)
(* can become the template of its media type.                             *)
(***************************************************************************)
RoundTripSucceeds ==
    stage = "decoded" => decoded.ok \/ decoded.err = "InvalidJid"

(***************************************************************************)
(* Every content with an RTP description comes back under its media name  *)
(* with the same payload types in the same order: ids, channel counts     *)
(* (1 written as no count and read back as the default), fmtp parameters *)
(* matched to their payload type by id, and rtcp-fb entries.              *)
(***************************************************************************)
RoundTripKeepsPayloadTypes ==
    Decoded =>
        \A c \in RtpContents :
            \E d \in DecodedFor(c.desc.media) : d.desc.pts = c.desc.pts

(***************************************************************************)
(* The sources (id and parameters) and the ssrc-groups of every content   *)
(* come back, collected from all the blocks the content was spread over. *)
(* Membership is compared as sets: the blocks are in hash order.          *)
(***************************************************************************)
RoundTripKeepsSources ==
    Decoded =>
        \A c \in RtpContents :
            LET ds == DecodedFor(c.desc.media)
            IN  /\ {SourceView(c.desc.ssrcs[i]) : i \in DOMAIN c.desc.ssrcs}
                     = UNION {ToSet(d.desc.ssrcs) : d \in ds}
                /\ ToSet(c.desc.groups) = UNION {ToSet(d.desc.groups) : d \in ds}

(***************************************************************************)
(* The template's transport comes back: ICE credentials when the original *)
(* had both, the fingerprint's hash together with its DTLS setup role,    *)
(* and rtcp-mux.                                                          *)
(***************************************************************************)
RoundTripKeepsTransport ==
    Decoded =>
        \A c \in RtpContents :
            \A d \in DecodedFor(c.desc.media) :
                LET t == c.transport
                IN  /\ d.desc.rtcpMux = c.desc.rtcpMux
                    /\ d.transport.ufrag = (t # None /\ t.ufrag /\ t.pwd)
                    /\ d.transport.fingerprint =
                          IF t = None THEN None ELSE t.fingerprint


(***************************************************************************)
(* A content comes back with senders "both" exactly when it has a source  *)
(* of the bridge.  The decoder reads the direction of the first block of  *)
(* a media type only (spec 4.3 derives it from all its blocks), and the   *)
(* encoder writes sendrecv for a jvb-owned block and sendonly otherwise:  *)
(* the answer is right only because the mixed-first sort of               *)
(* group_sources, keyed on the msid rather than on the owner, puts the    *)
(* bridge's block first.                                                  *)
(***************************************************************************)
RoundTripSendersFromMixedBlock ==
    Decoded =>
        \A c \in RtpContents :
            \A d \in DecodedFor(c.desc.media) :
                d.senders = IF \E i \in DOMAIN c.desc.ssrcs : c.desc.ssrcs[i].owner = "jvb"
                            THEN "both" ELSE "responder"

-----------------------------------------------------------------------------
(* Views of an answer. *)

Answered == stage = "answered" /\ decoded.err # "InvalidJid"

\* An ssrc line of an answer that parses.
IsSsrcLine(l) == l.key = "ssrc" /\ l.value # Bad

(***************************************************************************)
(* Spec 4.3: every block, whatever its place, contributes its sources.    *)
(* On an accepted answer, each id on an ssrc line of any block is exactly *)
(* one source of the content of that block's media type, with every       *)
(* parameter its lines in that block give it; when none of those is an    *)
(* msid, the source carries the msid of that block's own msid attribute   *)
(* if it has one (not the template's), and else no msid.                  *)
(***************************************************************************)
AnswerSourcesFromEveryBlock ==
    Answered /\ decoded.ok =>
        \A k \in DOMAIN sdp.media : \A i \in DOMAIN sdp.media[k].attrs :
            LET md    == sdp.media[k]
                l     == md.attrs[i]
                msid  == FirstAttr(md, "msid")
            IN  IsSsrcLine(l) =>
                  \A d \in DecodedFor(md.media) :
                    LET own  == {md.attrs[j].value : j \in {j \in DOMAIN md.attrs :
                                   IsSsrcLine(md.attrs[j]) /\ md.attrs[j].value.id = l.value.id}}
                        srcs == {s \in ToSet(d.desc.ssrcs) : s.id = l.value.id}
                    IN  /\ Cardinality(srcs) = 1
                        /\ \A s \in srcs :
                             /\ \A o \in own : [name |-> o.name, value |-> o.value] \in ToSet(s.params)
                             /\ {p \in ToSet(s.params) : p.name = "msid"} =
                                   IF \E o \in own : o.name = "msid" \/ msid = None
                                   THEN {[name |-> o.name, value |-> o.value] : o \in {o \in own : o.name = "msid"}}
                                   ELSE {[name |-> "msid", value |-> msid.value]}

(***************************************************************************)
(* Spec 4.3 and 7: an rtpmap, fmtp or rtcp-fb line whose numeric id does  *)
(* not parse, in any block, fails the whole call.  The decoder parses     *)
(* these lines only in the first block of a media type, and fmtp and      *)
(* rtcp-fb only beside an rtpmap there.                                   *)
(***************************************************************************)
MalformedCodecLineRejected ==
    Answered /\ (\E k \in DOMAIN sdp.media : \E i \in DOMAIN sdp.media[k].attrs :
                    /\ sdp.media[k].attrs[i].key \in {"rtpmap", "fmtp", "rtcp-fb"}
                    /\ sdp.media[k].attrs[i].value = Bad)
      => ~decoded.ok

=============================================================================
