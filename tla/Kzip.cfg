SPECIFICATION Spec
CONSTANTS
    inC = inC
    inH = inH
    inE = inE
    rawE = rawE
    outC = outC
    outH = outH
    d1 = d1
    d2 = d2
    keep = keep
    profile = profile
    first = first
    second = second
    s1 = s1
    s2 = s2
    Path = {inC, inH, inE, outC, outH}
    RawText = {rawE}
    JsonText <- MCJsonText
    SourcePath = {inC, inE, rawE, outC}
    NoPath = NoPath
    NoField = NoField
    Unknown = Unknown
    Digest = {d1, d2}
    NoDigest = NoDigest
    Arg = {keep, profile, first, second}
    ProfileArg = {profile}
    UnitValues <- MCUnitValues
    Sha = {s1, s2}
    NoUnit = NoUnit
    Archives <- MCArchives
    Filters <- MCFilters
    Rules <- MCRules
INVARIANTS ReadIsExact ReadIsSound SelfContained SubKzipFaithful ArgsInjected NormalizeKeeps
CHECK_DEADLOCK FALSE
