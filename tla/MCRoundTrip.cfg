\* Encode then decode focus offers: payload types, sources, groups and the
\* transport survive; decode browser answers with malformed lines.
CONSTANTS
    Ssrcs = {1, 2, 3, 4, 5, 6, 7}
    MsidStreams = {"mixedmslabel", "pa", "pc"}
    MsidTracks = {"mixa", "mixv", "a0", "v0"}
    Owners = {"jvb", "pa", "pb", "pc"}
    Semantics = {"FID", "SIM"}
    None = None
    Bad = Bad
    MediaTypes = {"audio", "video"}
    PtIds = {100, 103, 111}
    ExtIds = {1}
    HashNames = {"sha-256"}
    Offers <- RTOffers
    Answers <- RTAnswers

SPECIFICATION Spec

INVARIANT TypeOK
INVARIANT RoundTripSucceeds
INVARIANT RoundTripKeepsPayloadTypes
INVARIANT RoundTripKeepsSources
INVARIANT RoundTripKeepsTransport
INVARIANT RoundTripSendersFromMixedBlock
INVARIANT AnswerSourcesFromEveryBlock

\* Both calls have returned once the SDP is decoded.
CHECK_DEADLOCK FALSE
