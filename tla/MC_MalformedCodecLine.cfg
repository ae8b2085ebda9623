\* Browser answers only: is an answer with a malformed codec line in any
\* block rejected, as spec 4.3 says?
CONSTANTS
    Ssrcs = {1, 2, 3, 4, 5, 6, 7}
    MsidStreams = {"mixedmslabel", "pa", "pc"}
    MsidTracks = {"mixa", "mixv", "a0", "v0"}
    Owners = {"jvb", "pa", "pb", "pc"}
    Semantics = {"FID", "SIM"}
    None = None
    Bad = Bad
    MediaTypes = {"audio", "video"}
    PtIds = {100, 103, 111}
    ExtIds = {1}
    HashNames = {"sha-256"}
    Offers = {}
    Answers <- RTAnswers

SPECIFICATION Spec

INVARIANT MalformedCodecLineRejected

CHECK_DEADLOCK FALSE
