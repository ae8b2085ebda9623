--------------------------- MODULE JingleSdpSession ---------------------------
(***************************************************************************)
(* One Jingle session as the client library drives the translator: the   *)
(* focus's session-initiate is turned into the remote SDP offer with      *)
(* try_from_jingle, every later source-add is applied to that same SDP   *)
(* with add_sources_from_jingle, and a source-remove reaches              *)
(* remove_sources_from_jingle.  The calls are synchronous and made one   *)
(* at a time on the one SDP document the caller owns.                    *)
(***************************************************************************)
EXTENDS JingleToSdp

CONSTANTS
    Offers,         \* session-initiate Jingles the focus may send
    SourceAddJingles, \* source-add / source-remove Jingles
    MaxSourceAdds   \* bound on the number of source-add calls

ASSUME MaxSourceAdds \in Nat

VARIABLES
    status,         \* "idle" | "active" | "failed" | "panicked"
    offer,          \* the session-initiate received (None before it)
    sdp,            \* the remote SessionDescription the caller holds
    adds,           \* number of source-add calls made
    announced       \* history: ids of the sources with parameters that the
                    \* accepted offer and the applied source-adds carried

vars == <<status, offer, sdp, adds, announced>>

\* The ids of the sources with parameters that the contents of a Jingle carry.
AnnouncedIds(j) ==
    UNION {{c.desc.ssrcs[i].id : i \in {i \in DOMAIN c.desc.ssrcs :
                                          c.desc.ssrcs[i].params # <<>>}} :
              c \in {c \in {j.contents[k] : k \in DOMAIN j.contents} : c.desc # None}}

Init ==
    /\ status = "idle"
    /\ offer = None
    /\ sdp = EmptySdp
    /\ adds = 0
    /\ announced = {}

\* session-initiate converted with try_from_jingle returning Ok.
InitiateAccepted(j) ==
    /\ status = "idle"
    /\ \E o \in OrdersFor(j.contents) :
          LET r == TryFromJingle(j, o)
          IN  /\ r.ok
              /\ sdp' = r.sdp
    /\ status' = "active"
    /\ offer' = j
    /\ announced' = AnnouncedIds(j)
    /\ UNCHANGED adds

\* session-initiate for which try_from_jingle returns Err(InvalidJingle):
\* the caller keeps no SDP and the negotiation ends.
InitiateRejected(j) ==
    /\ status = "idle"
    /\ \E o \in OrdersFor(j.contents) : ~TryFromJingle(j, o).ok
    /\ status' = "failed"
    /\ offer' = j
    /\ UNCHANGED <<sdp, adds, announced>>

\* source-add applied with add_sources_from_jingle, which always returns Ok.
SourceAdd(d) ==
    /\ status = "active"
    /\ adds < MaxSourceAdds
    /\ \E o \in OrdersFor(d.contents) : sdp' = AddSources(sdp, d, o)
    /\ adds' = adds + 1
    /\ announced' = announced \cup AnnouncedIds(d)
    /\ UNCHANGED <<status, offer>>

\* source-remove: remove_sources_from_jingle is unimplemented!() and panics
\* before looking at its argument.
SourceRemove(d) ==
    /\ status = "active"
    /\ status' = "panicked"
    /\ UNCHANGED <<offer, sdp, adds, announced>>

Next ==
    \/ \E j \in Offers :
          \/ InitiateAccepted(j)
          \/ InitiateRejected(j)
    \/ \E d \in SourceAddJingles :
          \/ SourceAdd(d)
          \/ SourceRemove(d)

Spec == Init /\ [][Next]_vars

-----------------------------------------------------------------------------
(* Views of the SDP used by the properties. *)

AttrsWith(md, keys) == SelectSeq(md.attrs, LAMBDA a : a.key \in keys)

SsrcIds(md) == {a.value.id : a \in ToSet(AttrsWith(md, {"ssrc"}))}

MidValues == {a.value : a \in UNION {ToSet(AttrsWith(sdp.media[k], {"mid"})) :
                                         k \in DOMAIN sdp.media}}

\* The block carries an ssrc line whose msid is the mixed label.
BlockIsMixed(md) ==
    \E a \in ToSet(AttrsWith(md, {"ssrc"})) :
        a.value.name = "msid" /\ a.value.value # None /\ IsMixedLabel(a.value.value)

Directions == {"sendrecv", "sendonly", "recvonly", "inactive"}

AttrKeys == IdentityKeys \cup Directions \cup
    {"rtpmap", "fmtp", "rtcp", "rtcp-fb", "extmap", "setup", "ice-ufrag",
     "ice-pwd", "fingerprint", "candidate", "rtcp-mux"}

-----------------------------------------------------------------------------
(* Properties *)

TypeOK ==
    /\ status \in {"idle", "active", "failed", "panicked"}
    /\ offer \in Offers \cup {None}
    /\ adds \in 0..MaxSourceAdds
    /\ announced \subseteq Ssrcs
    /\ \A k \in DOMAIN sdp.media :
          /\ sdp.media[k].media \in MediaTypes
          /\ \A i \in DOMAIN sdp.media[k].attrs :
                LET a == sdp.media[k].attrs[i]
                IN  /\ a.key \in AttrKeys
                    /\ a.key = "mid" => a.value \in Nat
                    /\ a.key = "msid" => a.value # None /\ a.value \in MsidValues
                    /\ a.key = "setup" => a.value # None /\ a.value \in Setups
                    /\ a.key = "ssrc" => a.value.id \in Ssrcs

(***************************************************************************)
(* Across the offer and any number of source-adds, the k-th block of the *)
(* SDP carries exactly one mid and it is k-1: try_from_jingle counts mids *)
(* per block and add_sources_from_jingle continues from the block count, *)
(* after stripping the template's own mid.                                *)
(***************************************************************************)
MidsDenseUnique ==
    \A k \in DOMAIN sdp.media :
        [i \in DOMAIN AttrsWith(sdp.media[k], {"mid"}) |->
            AttrsWith(sdp.media[k], {"mid"})[i].value] = <<k - 1>>

(***************************************************************************)
(* Every block describes one source or one source group and nothing of   *)
(* another: one direction, at most one msid and one ssrc-group, and its  *)
(* ssrc lines name a single source or only members of its group.  Blocks *)
(* added by a source-add are clones of an offer block, so this depends   *)
(* on the template stripping every identity attribute it had.            *)
(***************************************************************************)
BlockCarriesOneIdentity ==
    \A k \in DOMAIN sdp.media :
        LET md     == sdp.media[k]
            groups == AttrsWith(md, {"ssrc-group"})
        IN  /\ Len(AttrsWith(md, Directions)) = 1
            /\ Len(AttrsWith(md, {"msid"})) <= 1
            /\ Len(groups) <= 1
            /\ IF groups = <<>> THEN Cardinality(SsrcIds(md)) <= 1
               ELSE SsrcIds(md) \subseteq ToSet(groups[1].value.members)

(***************************************************************************)
(* When some block of a media type carries the bridge's mixed stream      *)
(* (msid "mixedmslabel <track>"), the first block of that type does: the *)
(* first block is the one the peer and the decoder take as the template. *)
(* group_sources orders mixed groups first; source-adds only append.     *)
(***************************************************************************)
MixedBlockFirst ==
    \A m \in MediaTypes :
        LET first == SelectInSeq(sdp.media, LAMBDA md : md.media = m)
        IN  (\E k \in DOMAIN sdp.media :
                sdp.media[k].media = m /\ BlockIsMixed(sdp.media[k]))
              => BlockIsMixed(sdp.media[first])

(***************************************************************************)
(* Every block, of the offer or added later, is self-describing for its   *)
(* media type: it names every payload type of the offer's content of that *)
(* type and repeats that content's ICE credentials, DTLS fingerprint and  *)
(* setup role, so a peer can negotiate any m-line on its own.  Added      *)
(* blocks inherit this from their template.                               *)
(***************************************************************************)
BlocksSelfDescribing ==
    status = "active" =>
      \A i \in DOMAIN offer.contents :
        LET c == offer.contents[i]
        IN  c.desc # None =>
              \A k \in DOMAIN sdp.media :
                 LET md   == sdp.media[k]
                     Has(key) == AttrsWith(md, {key}) # <<>>
                 IN  md.media = c.desc.media =>
                       /\ \A p \in DOMAIN c.desc.pts :
                             \E a \in ToSet(AttrsWith(md, {"rtpmap"})) :
                                a.value.id = c.desc.pts[p].id
                       /\ c.transport # None =>
                             /\ c.transport.ufrag /\ c.transport.pwd => Has("ice-pwd")
                             /\ c.transport.fingerprint # None => Has("fingerprint")
                             /\ c.transport.fingerprint # None
                                /\ c.transport.fingerprint.setup # None => Has("setup")

-----------------------------------------------------------------------------
(* Properties stated by the spec or the tests that the code does not keep. *)

(***************************************************************************)
(* Each SSRC is described by at most one block (spec section 8: every     *)
(* source lands in exactly one group).                                    *)
(***************************************************************************)
EachSourceOnce ==
    \A id \in Ssrcs :
        Cardinality({k \in DOMAIN sdp.media : id \in SsrcIds(sdp.media[k])}) <= 1

(***************************************************************************)
(* The session "group" attribute lists every mid of the SDP (spec 4.2).  *)
(***************************************************************************)
BundleListsAllMids ==
    \A a \in ToSet(AttrsWith(sdp, {"group"})) : ToSet(a.value.mids) = MidValues

(***************************************************************************)
(* Every source the focus announced with its parameters, in the offer or  *)
(* in a source-add the call returned Ok for, is described by some block   *)
(* (spec 7: no partial output is returned).                               *)
(***************************************************************************)
AnnouncedSourcesSignalled ==
    \A id \in announced : \E k \in DOMAIN sdp.media : id \in SsrcIds(sdp.media[k])

(***************************************************************************)
(* An offer with a payload type lacking a name or clock rate, or another *)
(* invalid codec or transport field, fails the whole call (spec 4.2).    *)
(***************************************************************************)
InvalidOfferRejected ==
    status = "active" =>
        \A i \in DOMAIN offer.contents :
            offer.contents[i].desc # None => TemplateValid(offer.contents[i])

=============================================================================
