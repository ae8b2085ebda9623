# TLA+ models of the Jingle ⇄ SDP translator

These modules model `src/jitsi-jingle-sdp/src/lib.rs`, the translator between Jingle
session-negotiation payloads (from the Jitsi focus) and the SDP that a WebRTC peer
connection consumes. They also model how that translator is driven over one session: a
session-initiate, then source-adds, then source-removes.

## 1. Inventory

| Component | Source | State it keeps | Operations |
|---|---|---|---|
| Source grouping | `lib.rs` 50–120 | none (pure) | `group_sources`, `msid_for_sources` |
| Jingle → SDP encoder | `lib.rs` 122–345 | none (pure); builds a new `SessionDescription` | `try_from_jingle`, `populate_media_description_from_sources` |
| Incremental source-add | `lib.rs` 646–675 | mutates the caller's `SessionDescription` in place | `add_sources_from_jingle` |
| Source removal | `lib.rs` 677–679 | — | `remove_sources_from_jingle` (`unimplemented!()`) |
| SDP → Jingle decoder | `lib.rs` 347–644 | none (pure); folds blocks into a `HashMap<&str, Content>` | `try_to_jingle` |
| Document model, errors | `lib.rs` 25–48, external crates | typed Jingle / SDP values | `Error::{InvalidJingle, InvalidJid, Unknown}` |
| ICE-UDP transport element | `jitsi-xmpp-parsers/src/jingle_ice_udp.rs` | none | `Transport::try_from(Element)`, `From<Transport> for Element` |
| XML pretty printer | `format-xml/src/lib.rs` | none | `format_xml*` |
| copy-dll | `copy-dll/src/main.rs` | the file system at three paths | one CLI run: checks on the library, the plugin directory and the plugin, then `create_dir_all` and `std::fs::copy` |
| trace-local | `trace-local/src/main.rs` | FFI context | manual harness around an external native library |

**How the parts interact.** The encoder and source-add both call `group_sources`, and both
call `populate_media_description_from_sources`. The caller owns the one SDP document. It
converts the session-initiate with `try_from_jingle` and sets the result as the remote
description. Each source-add is then applied to that same document with
`add_sources_from_jingle`, and a source-remove goes to `remove_sources_from_jingle`. The
decoder converts the peer's answer SDP into a session-accept. All calls are synchronous, and
none suspends or runs concurrently with another on one document (spec §5). The hard
behaviours are therefore not thread interleavings. They are:

* **Sequences of calls on one document.** The offer, then any number of source-adds,
  possibly duplicated, then a source-remove. The later calls rely on the invariants the
  earlier ones left: dense mids, a first block that can serve as the template, and the
  BUNDLE group.
* **Per-process nondeterminism.** `group_sources` iterates a `std::HashMap`, and the
  decoder folds into one. Iteration order is randomised per process, so the order of
  m-lines (and hence of mids) is a nondeterministic choice.
* **Partial failure inside a loop.** Validation errors surface while a block is being
  built, in the middle of the content and group loops.
* **Quirks that must keep their exact shape.** The mixed stream must come first. Every
  block must repeat the codecs and transport. `rtcp` is written per payload type.

**What makes each component correct.**

* **Grouping:** every source appears in exactly one entry, and the mixed entry comes first.
* **Encoder:** mids are dense and unique. Each block carries one identity and is
  self-describing. BUNDLE lists every mid. An invalid offer fails as a whole.
* **Source-add:** it only appends. Added blocks get fresh mids, and carry no identity
  inherited from their template. Every source it announces ends up in the SDP.
* **Decoder:** a round trip through the encoder succeeds and preserves payload types,
  sources, groups and the template's transport. On a browser's answer every block
  contributes its sources, each with its own parameters and its own block's msid.
* **copy-dll:** an error exit changes nothing; a run writes only the plugin and the
  directory it was asked to create; the library survives.
* **Transport element:** the child-by-child loop returns what a declarative reading of the
  whole element says, and a serialised `Transport` parses back to itself.

## 2. Plan

1. **Sitting 1 (done):** `SourceGrouping`, `JingleToSdp` and `JingleSdpSession`.
2. **Sitting 2 (done):** `SdpToJingle` (the decoder), `RoundTrip` (encoder then decoder,
   spec §8), the `announced` history variable of `JingleSdpSession`, and
   `IceUdpTransport` refined to `TransportSpec` under weak fairness.
3. **Sitting 3 (done):** `CopyDll`, the copy-dll command as a sequence of checks and a
   copy over the file system it meets; the decoder's senders related to the encoder's
   mixed-first sort; the session group split out of both directions.
4. **Sitting 4 (done):** the decoder on a browser's answer SDP: lines that do not
   parse, a fingerprint without a space, an unknown or missing setup role, a template
   block without an rtpmap, a session group that does not parse (`RoundTrip.DecodeAnswer`
   over `MCRoundTrip.RTAnswers`).

## 3. Modules

| Module | Models | Content |
|---|---|---|
| `SourceGrouping` | `group_sources`, `msid_for_sources` | Source and group records; `SourceMap` (the `HashMap` collect, last id wins); `HashOrders` (the possible iteration orders); `GroupSources` (lone sources, then resolved groups, then a stable mixed-first sort); `MsidForSources`. |
| `JingleToSdp` | `try_from_jingle`, `populate_…`, `add_sources_from_jingle` | An SDP block is `[media, attrs]`, and `attrs` is the ordered attribute list. An attribute is `[key, value]`, where the value is the structure the code formats as text. `EncodeBlock` emits the attributes in code order. `TryFromJingle` folds over contents with the global mid counter and returns `ok = FALSE` on any `InvalidJingle` path. `AddContent` / `AddSources` are the template clone and append. |
| `JingleSdpSession` | the caller's use of the trait on one document | Variables `status`, `offer` (the Jingle received), `sdp` (the caller's document), `adds`, and the history variable `announced` (the SSRCs the offer and the source-adds have announced). Actions: `InitiateAccepted`, `InitiateRejected`, `SourceAdd`, `SourceRemove` (the panic). |
| `JingleTestData` | — | Model values taken from the test's session-initiate: mixed `jvb` sources, participants with cname and msid, FID and SIM groups, a group that names an unknown SSRC; payload types with fmtp parameters and rtcp-fb; template offers varying codecs and transport. |
| `MCJingleSdpSession` | — | `JingleSdpSession` over `JingleTestData` (`SessionOffers`: grouping offers and template offers together). |
| `SdpToJingle` | `try_to_jingle` (`lib.rs` 347–644) | `DecodeTemplate` (the `Vacant` branch: payload types from rtpmap with fmtp/rtcp-fb matched by id, extmaps, senders, rtcp-mux, `DecodeTransport` with its setup requirement), `BlockSources` (the per-block `HashMap<u32,_>` drained in any order, msid backfill), `BlockGroups`, `DecodeBlock` (one fold step into the content map), `TryToJingle` (JIDs first, then the fold, then the session group's semantics; contents and BUNDLE list in map order). `Parsed`, `AllParsed`, `BlockOk` and `GroupOk` are where each line is parsed: codec lines in the template only (fmtp and rtcp-fb only beside an rtpmap), source lines in every block, the group last. |
| `RoundTrip` | the encoder then the decoder; the decoder alone | Variables `stage`, `jingle`, `sdp`, `decoded`; actions `Encode(j)` and `Decode`, each over every hash order and, for `Decode`, JIDs that parse or not; `DecodeAnswer(a)`, the decoder on a browser's answer.  |
| `MCRoundTrip` | — | Round-trip offers: audio and video contents over subsets of sources, with and without FID/SIM groups, each setup role, no fingerprint or no transport, rtcp-mux on or off, BUNDLE or none; plus the variants the violation runs use. `RTAnswers`: a browser answer (two audio blocks, the second recvonly with another codec, and a video block with an FID group, bundled) and every answer with one or two of 16 defects. |
| `TransportSpec` | what `Transport::try_from` promises | One atomic `Parse` of the whole element: accepted iff it is a transport, every candidate and fingerprint child parses, there is at most one fingerprint, and the first web-socket parses; candidates in order, the first web-socket kept. |
| `CopyDll` | `copy-dll/src/main.rs` | Variables `dll` (the parsed command line), `fs` and `data` (kind and contents of the entry at the library path `s`, the plugin directory `tp` and the plugin path `t`), `fs0`/`data0` (the state at start), `pc`, `status`. The path operators (`NameToDllName`, `NameToPluginName`, `TargetPath`, …) build names with string concatenation and paths as component sequences. Actions `CheckSource`, `CheckParent` (with `create_dir_all`), `CheckTarget`, `Copy` (Unix `std::fs::copy`: source must be a regular file, destination opened with truncation, permissions copied; copying the bytes may fail after that, leaving the plugin truncated and the run panicking). |
| `MCCopyDll` | — | Plugins directories: the Linux release build directory and `Assets/Plugins`. |
| `IceUdpTransport` | `jingle_ice_udp.rs` 31–152 | Variables `elem`, `sent` (the `Transport` it was built from, if any), `pc`, `i`, the loop locals `candidates`, `fingerprint`, `webSocket`, and `result`. Actions `NotTransport`, `Begin`, one per child kind (`ReadCandidate`, `ReadFingerprint`, `ReadWebSocket`, `SkipOther`), `Finish`. `ToElement` is `From<Transport>`. |

**Abstractions.**

* Strings are reduced to what the code tests of them. An msid is `[stream, track]`, and
  `starts_with("mixedmslabel ")` holds exactly when the stream is `mixedmslabel` and a
  track follows.
* A payload type is reduced to its id and three facts: whether it has a name and clock
  rate, whether it has a non-empty fmtp, and its rtcp-fb count. A header extension is its id
  and whether its URI parses.
* A candidate line is rendered to what RFC 8839 fixes: whether `raddr` and `rport` appear.
* An SDP attribute's value is the record the encoder formats, and parsing a line yields
  its fields back. A line of an answer that does not parse has the value `Bad` (a model
  value): an id, clock rate or channel count, fingerprint hex or group semantics that
  fails to parse are one outcome, since each is the same `InvalidJingle`. A fingerprint
  without a space is `"nospace"`.
* copy-dll's file system is the kind of entry at each of the paths the run looks at:
  none, a dangling link, a file or read-only file, a directory or read-only one, a special
  file, an entry whose metadata cannot be read, and an absent directory that cannot be
  created. Paths that resolve to the same entry are the same path in the model. A FIFO
  as the library is left out: opening it blocks.
* A child of a transport element is its kind, whether its own parser (`Candidate`,
  `Fingerprint`, `WebSocket` with its required `url`) succeeds, and the value it yields.
  A child built from a typed value parses. The `pwd` and `ufrag` attributes parse into
  `String`, which cannot fail.
* The external `sdp` crate is treated as appending. `with_value_attribute` and
  `with_property_attribute` add one attribute at the end; `with_codec` adds `rtpmap`, plus
  `fmtp` when the fmtp string is non-empty. `with_ice_credentials` adds `ice-ufrag` and
  `ice-pwd`.
* Within a description the SSRC ids are distinct, because the focus never repeats one.
  `SourceMap` still models last-wins.

## 4. Runs

| Run | cfg | Expect | What it shows |
|---|---|---|---|
| `session_grouping` | `MCJingleSdpSession.cfg` | pass | Grouping offers and template offers (name and clock rate, URI, hash `sha-256`/`sha-384`/`sha3-256`, setup, credentials, rejected offers), every hash order, up to 2 source-adds from 3 Jingles. `MidsDenseUnique`, `BlockCarriesOneIdentity`, `MixedBlockFirst` and `BlocksSelfDescribing` hold. |
| `round_trip` | `MCRoundTrip.cfg` | pass (37 371 states) | Encoding then decoding, over every hash order on both sides, succeeds unless a JID is bad, and keeps payload types, sources and groups, and the transport. The decoded senders is `both` exactly when the content has a bridge source (`RoundTripSendersFromMixedBlock`): the decoder reads only the first block's direction, so this rests on the mixed-first sort. On the browser answers, every ssrc of every block, a later block of a media type included, is exactly one source of its content, with the parameters its lines give it and the msid of its own block's msid attribute when it has none of its own (`AnswerSourcesFromEveryBlock`, spec 4.3). |
| `copy_dll` | `MCCopyDll.cfg` | pass (28 056 states) | Every OS, build mode, `--parents` and `--prefix`, over every file system met at the three paths, with the copy free to fail once the plugin is open: an error exit leaves everything as it was, and any run, one that panics midway included, changes only the plugin (over nothing or a writable regular file) and a directory it was asked to create. |
| `copy_dll_onto_itself` | `MC_DllSurvives.cfg` | violation | Linux, release, plugins directory = `target/x86_64-unknown-linux-gnu/release`, no `--prefix`: the plugin name equals the library name, `copy` truncates the library before reading it, and the run reports success. |
| `transport_parse` | `MCIceUdpTransport.cfg` | pass (110 616 states) | Every element of up to 3 children (4 kinds, parsing or not, 2 values) and every element built from a `Transport`: the loop implements `TransportSpec` (including its fairness: the parse returns), and a serialised `Transport` parses back to itself. |
| `source_in_two_blocks` | `MC_EachSourceOnce.cfg` | violation | Given SIM ⟨5,7⟩ and FID ⟨5,6⟩, SSRC 5 is written into two m-lines. |
| `bundle_after_source_add` | `MC_BundleListsAllMids.cfg` | violation | After a source-add, `a=group:BUNDLE` still lists only the offer's mids. |
| `invalid_codec_accepted` | `MC_InvalidOfferRejected.cfg` | violation | An unnamed payload type in a content without sources is accepted. |
| `source_add_without_template` | `MC_AnnouncedSourcesSignalled.cfg` | violation | An offer whose audio content has no sources has no audio m-line; a later audio source-add is skipped and still returns `Ok`. |
| `round_trip_no_setup` | `MC_RoundTripNoSetup.cfg` | violation | A fingerprint without a setup role is encoded without `a=setup`, and the decoder then fails with `InvalidJingle`. |
| `malformed_codec_line_accepted` | `MC_MalformedCodecLine.cfg` | violation | An answer whose second audio block has an rtpmap (and rtcp-fb) line that does not parse is accepted: the decoder parses codec lines only in the first block of a media type (`lib.rs:362`), while spec 4.3 says such a line fails the call. |
| `round_trip_bare_source` | `MC_RoundTripBareSource.cfg` | violation | A source without parameters gets no `a=ssrc` line and does not come back. |

**Bounds.**

* **Why they are enough.** Three audio and four video SSRCs are enough for every grouping
  shape the code distinguishes: a lone source, a group, overlapping groups, an unresolved
  member, a mixed and a non-mixed source in one content, a valueless msid, a source without
  parameters, and an empty content.
* **Source-adds.** `MaxSourceAdds = 2` makes a second source-add clone from a document
  that a source-add has already grown, and lets a duplicated source-add happen.
* **Hash orders.** Hash iteration orders are enumerated in full: up to 3! per content in
  the encoder, every permutation of each block's SSRCs and of the content names in the
  decoder.
* **Answers.** One base answer and every answer with one or two of 16 defects at
  distinct lines: each codec, source, fingerprint, setup and group line spoiled, in the
  first block, a later block of the same media type, and the video template; the video
  rtpmap, a setup line and the first block's msid removed. The second audio block has
  no msid of its own while the template has one, which tells a per-block msid backfill
  from one that reads the template.
* **Transport children.** Three children allow a repeated fingerprint or web-socket after
  any other child, and an error after collected candidates; two payload values tell the
  first web-socket from the second.

**Fairness and deadlock.** `JingleSdpSession` and `RoundTrip` assume no fairness: each
operation is a call that returns, and whether the focus sends another is up to the focus.
Deadlock checking is off there because a session, or a round trip, really stops.
`IceUdpTransport` assumes weak fairness of its next-state relation: `try_from` is a loop
on the calling thread with no blocking call, so while it has not returned it takes its next
step. Under that assumption the refinement includes `TransportSpec`'s
`WF(Parse)`, that is, the parse always returns. Deadlock checking is off because the
process stops once `try_from` returns. `CopyDll` states only safety, so it assumes no
fairness; its deadlock checking is off because the command exits at `pc = "done"`.

**Mutants.** Each property of a passing run is shown to catch a plausible bug in the code
it is about:

| Property | Mutant (bug it introduces) |
|---|---|
| `TypeOK` (session) | unguarded msid push; setup written without a role |
| `MidsDenseUnique` | mid not incremented in source-add |
| `BlockCarriesOneIdentity` | `sendrecv` missing from the strip list |
| `MixedBlockFirst` | sort key without `!` |
| `BlocksSelfDescribing` | transport written into mid 0 only |
| `TypeOK` (round trip) | channel count not defaulted to 1 |
| `RoundTripSucceeds` | `actpass` arm missing from the setup match |
| `RoundTripKeepsPayloadTypes` | fmtp lines not matched to the payload type's id |
| `RoundTripKeepsSources` | sources read only from the block that creates a content |
| `RoundTripKeepsTransport` | rtcp-mux set whatever the block says |
| `ImplementsTransportSpec` | no `is_some()` test on the fingerprint: a second one overwrites |
| `RoundTripSendersFromMixedBlock` | mixed entry sorted last |
| `AnswerSourcesFromEveryBlock` | the msid backfill of a block's sources dropped |
| `ErrorExitLeavesFsUnchanged` | plugin directory created before `--parents` is looked at |
| `OnlyPluginWritten` | `copy(t, s)`: arguments swapped |
| `SerializedTransportParses` | `pwd` and `ufrag` written under each other's name |

## 5. Not modelled

* **Left out.** `format-xml` is one call into `xmltree` and a per-line indent, with no
  state or control. `trace-local` is a manual driver of an external signalling library
  over FFI against a live server; none of the behaviour it exercises is in this repository.
* **copy-dll.** The unused `Dll::new`, `Os::is_windows` and `Os::is_osx`; the
  unreachable "you cannot target root" branch (the plugin path always has a parent); a
  concurrent writer changing the files between the checks and the copy.
* **Observed, not run.** Four differences from the spec and tests are known but have no
  run, for the run budget: `a=rtcp` is written once per payload type (`lib.rs:215`; the
  test's expected offer has one per block, a unit test sees it); the decoder never reads
  `a=candidate` (`lib.rs:489`; spec 4.3 has the template supply candidates); an fmtp
  parameter without a name is written bare by the encoder and dropped by the decoder,
  which keeps only `k=v` (`lib.rs:428`; `RoundTripKeepsPayloadTypes` is violated with
  `Offers <- RTOffersBareFmtp` in `MCRoundTrip.cfg`); and a fingerprint line without a
  space is dropped without an error (`lib.rs:502`), where spec §7 lists malformed
  fingerprint syntax as an error.
* **Source removal.** `remove_sources_from_jingle` is `unimplemented!()`; the session
  model has it as the step to a panicked process, and no property is stated about it.
* **Decoder parse errors.** Every parse error of `try_to_jingle` is the one outcome
  `Bad`; which sub-field failed is not told apart. Valueless `rtpmap`, `fmtp`, `ssrc`
  lines (skipped by `if let Some`) are not among the answers, nor a matching fmtp or
  rtcp-fb line whose id parses and whose required part is missing.
* **Transport builders.** `Transport::new`, `add_candidate` and `with_fingerprint` are not
  used by the translator, which builds transports with struct literals.
* **Abstracted.** The exact attribute text, such as hex fingerprints and candidate
  fields, is abstracted away, because no property here depends on the characters.
