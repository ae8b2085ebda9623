\* A fingerprint without a setup role does not survive the round trip.
CONSTANTS
    Ssrcs = {1, 2, 3, 4, 5, 6, 7}
    MsidStreams = {"mixedmslabel", "pa", "pc"}
    MsidTracks = {"mixa", "mixv", "a0", "v0"}
    Owners = {"jvb", "pa", "pb", "pc"}
    Semantics = {"FID", "SIM"}
    None = None
    Bad = Bad
    MediaTypes = {"audio", "video"}
    PtIds = {100, 103, 111}
    ExtIds = {1}
    HashNames = {"sha-256"}
    Offers <- RTOffersNoSetup
    Answers = {}

SPECIFICATION Spec

INVARIANT RoundTripSucceeds

\* Both calls have returned once the SDP is decoded.
CHECK_DEADLOCK FALSE
