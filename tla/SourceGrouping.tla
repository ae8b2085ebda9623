--------------------------- MODULE SourceGrouping ---------------------------
(***************************************************************************)
(* The typed Jingle sources of an RTP description and the partition of    *)
(* them into the groups that become one SDP media block each:             *)
(* group_sources and msid_for_sources of jitsi-jingle-sdp/src/lib.rs.     *)
(*                                                                         *)
(* Strings are abstracted to what the code tests of them.  An msid value  *)
(* "<stream> <track>" is a record; the code's test                        *)
(* value.starts_with("mixedmslabel ") holds exactly when the stream part  *)
(* is "mixedmslabel" and a track part follows the space.                  *)
(***************************************************************************)
EXTENDS Naturals, Sequences, SequencesExt, FiniteSets

CONSTANTS
    Ssrcs,          \* the 32-bit SSRC ids used by the model
    MsidStreams,    \* stream parts of msid values; contains "mixedmslabel"
    MsidTracks,     \* track parts of msid values
    Owners,         \* owner strings of <ssrc-info/>; contains "jvb"
    Semantics,      \* ssrc-group semantics tokens (FID, SIM)
    None            \* the absent Option

ASSUME "mixedmslabel" \in MsidStreams /\ "jvb" \in Owners /\ None \notin Ssrcs

\* An msid value "<stream>[ <track>]".
MsidValues == [stream : MsidStreams, track : MsidTracks \cup {None}]

\* jingle_ssma::Parameter: a name and an optional value.
ParamNames == {"msid", "cname"}
Params == [name : ParamNames, value : MsidValues \cup {None}]

\* jingle_ssma::Source: id, parameters and the optional ssrc-info owner.
Sources == [id : Ssrcs, params : Seq(Params), owner : Owners \cup {None}]

\* jingle_ssma::Group: semantics and the ids of its member sources.
SourceGroups == [semantics : Semantics, members : Seq(Ssrcs)]

\* value.starts_with("mixedmslabel ")
IsMixedLabel(v) == v.stream = "mixedmslabel" /\ v.track # None

(***************************************************************************)
(* The HashMap<u32, &Source> built from description.ssrcs: collect()     *)
(* inserts in order, so of two sources with one id the later one wins.    *)
(***************************************************************************)
SourceMap(ssrcs) ==
    [id \in {ssrcs[i].id : i \in DOMAIN ssrcs} |->
        ssrcs[CHOOSE i \in DOMAIN ssrcs :
                 /\ ssrcs[i].id = id
                 /\ \A j \in DOMAIN ssrcs : ssrcs[j].id = id => j <= i]]

GroupedIds(groups) == UNION {ToSet(groups[k].members) : k \in DOMAIN groups}

(***************************************************************************)
(* sources.values() iterates a std HashMap, whose order is randomised per *)
(* process: every permutation of the keys is a possible iteration order. *)
(* Only the relative order of the ungrouped keys survives the filter, so  *)
(* the orders that can be told apart are the permutations of those.      *)
(***************************************************************************)
HashOrders(desc) ==
    SetToSeqs(DOMAIN SourceMap(desc.ssrcs) \ GroupedIds(desc.groups))

\* The sort key of group_sources is !any(msid starts with "mixedmslabel ").
IsMixedEntry(e) ==
    \E i \in DOMAIN e.sources :
        \E p \in ToSet(e.sources[i].params) :
            p.name = "msid" /\ p.value # None /\ IsMixedLabel(p.value)

\* Variant of GroupSources whose sort key lacks the negation, so that the
\* mixed entries end up last (a mutant checked against MixedBlockFirst).
GroupSourcesMixedLast(desc, order) ==
    LET map       == SourceMap(desc.ssrcs)
        grouped   == GroupedIds(desc.groups)
        loneIds   == SelectSeq(order, LAMBDA id : id \notin grouped)
        lone      == [k \in DOMAIN loneIds |->
                         [group |-> None, sources |-> <<map[loneIds[k]]>>]]
        Resolve(g) ==
            LET known == SelectSeq(g.members, LAMBDA id : id \in DOMAIN map)
            IN  [k \in DOMAIN known |-> map[known[k]]]
        declared  == [k \in DOMAIN desc.groups |->
                         [group |-> desc.groups[k],
                          sources |-> Resolve(desc.groups[k])]]
        entries   == lone \o declared
    IN  SelectSeq(entries, LAMBDA e : ~IsMixedEntry(e))
          \o SelectSeq(entries, IsMixedEntry)

(***************************************************************************)
(* group_sources: every ungrouped source alone (in hash order), then one  *)
(* entry per declared group with its members resolved against the map    *)
(* (unknown ids dropped silently), then a stable sort that moves the      *)
(* entries with a mixed msid to the front.                                *)
(***************************************************************************)
GroupSources(desc, order) ==
    LET map       == SourceMap(desc.ssrcs)
        grouped   == GroupedIds(desc.groups)
        loneIds   == SelectSeq(order, LAMBDA id : id \notin grouped)
        lone      == [k \in DOMAIN loneIds |->
                         [group |-> None, sources |-> <<map[loneIds[k]]>>]]
        Resolve(g) ==
            LET known == SelectSeq(g.members, LAMBDA id : id \in DOMAIN map)
            IN  [k \in DOMAIN known |-> map[known[k]]]
        declared  == [k \in DOMAIN desc.groups |->
                         [group |-> desc.groups[k],
                          sources |-> Resolve(desc.groups[k])]]
        entries   == lone \o declared
    IN  SelectSeq(entries, IsMixedEntry)
          \o SelectSeq(entries, LAMBDA e : ~IsMixedEntry(e))

\* The first msid parameter of a source that has a value.
FirstMsid(src) ==
    LET ms == SelectSeq(src.params, LAMBDA p : p.name = "msid" /\ p.value # None)
    IN  IF ms = <<>> THEN None ELSE ms[1].value

\* msid_for_sources: the first valued msid of the first source that has one.
MsidForSources(sources) ==
    LET with == SelectSeq(sources, LAMBDA s : FirstMsid(s) # None)
    IN  IF with = <<>> THEN None ELSE FirstMsid(with[1])

=============================================================================
