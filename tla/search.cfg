SPECIFICATION FairSpec
CONSTANTS
    r1 = r1
    r2 = r2
    r3 = r3
    d1 = d1
    bio = bio
    tags = tags
    Requests = {r1, r2, r3}
    Docs = {d1}
    DocOf <- OneDoc
    Fields = {bio, tags}
    Carries <- Filled
    Keeps <- Omitted
    None = None
    MaxConcurrency = 2
    MaxFaults = 2
INVARIANTS TypeOK OnlyStoredFound LastWriteIndexed
PROPERTY SearchSettles
