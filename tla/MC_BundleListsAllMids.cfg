\* Violation run: BundleListsAllMids under the offer -> source-add model.
CONSTANTS
    Ssrcs = {1, 2, 3, 4, 5, 6, 7, 8, 9, 10}
    MsidStreams = {"mixedmslabel", "pa", "pc"}
    MsidTracks = {"mixa", "mixv", "a0", "v0"}
    Owners = {"jvb", "pa", "pb", "pc"}
    Semantics = {"FID", "SIM"}
    None = None
    MediaTypes = {"audio", "video"}
    PtIds = {100, 103, 111}
    ExtIds = {1}
    HashNames = {"sha-256"}
    Offers <- MCOffers
    SourceAddJingles <- MCSourceAdds
    MaxSourceAdds = 2

SPECIFICATION Spec

INVARIANT BundleListsAllMids


\* A session ends when the offer is rejected, the process panics on a
\* source-remove, or the bounded number of source-adds has been made.
CHECK_DEADLOCK FALSE
