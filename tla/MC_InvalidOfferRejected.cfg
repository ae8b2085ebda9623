\* Violation run: InvalidOfferRejected over codec and transport variations.
CONSTANTS
    Ssrcs = {1, 2, 5, 8, 9, 10}
    MsidStreams = {"mixedmslabel", "pa", "pc"}
    MsidTracks = {"mixa", "mixv", "a0", "v0"}
    Owners = {"jvb", "pa", "pb", "pc"}
    Semantics = {"FID", "SIM"}
    None = None
    MediaTypes = {"audio", "video"}
    PtIds = {100, 111}
    ExtIds = {1}
    HashNames = {"sha-256", "sha-384", "sha3-256"}
    Offers <- TemplateOffers
    SourceAddJingles <- MCSourceAdds
    MaxSourceAdds = 2

SPECIFICATION Spec

INVARIANT InvalidOfferRejected

\* A session ends when the offer is rejected, the process panics on a
\* source-remove, or the bounded number of source-adds has been made.
CHECK_DEADLOCK FALSE
