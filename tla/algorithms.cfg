SPECIFICATION Spec
CHECK_DEADLOCK FALSE
CONSTANTS
    LimbBits = 2
    ByteBits = 1
    MaxLimbs = 4
    RsaBase = 4
    MinModulus = 6
    MaxModulus = 7
    MinPadding = 1
    DigestInfo <- MCDigestInfo
    HashLen = 1
    RsaPrivate = 2753
    RsaPublic = 17
    CurveP = 23
    CurveN = 17
    CurveB = 15
    Generator <- MCGenerator
    FeBits = 5
    FeLimbs = 3
    FeC = 3
    EdD = 247
    EdI = 16200
    EdX = 2793
    EdY = 37
    InvSkip = {2}
    RootSkip = {}
    ScBits = 3
    ScLen = 4
    EdL <- MCEdL
    ScSpan = 3
    ScTopBits = 2
    BlockSize <- MCBlockSize
    LengthBytes <- MCLengthBytes
    WordBits <- MCWordBits
    SymbolBits = 3
    OctetBits = 4
    AccBits = 7
    IntMax = 127
    KeyBuf = 2048
    MaxKeys = 4
    SetToks = 128
    KeyToks = 32
    CoordLen = 32
    Algs = {"RS256", "ES256", "EdDSA"}
    NumberOf <- MCNumberOf
    InstantOf <- MCInstantOf
    LowerOf <- MCLowerOf
    TooLong <- MCTooLong
    StatusNames <- MCStatusNames
    PayloadToks = 67
    MaxMetadata = 3
    WorkBuf = 16384
    EraSeconds = 64
    UnixOffset = 33
    MaxDrift = 3
    SerialRoom = 4
    SaneLength = 2
    Control = {"tab"}
    Unreserved = {"a", "u", "0"}
    CodeOf <- MCCodeOf
    MachineRoom = 4
    NameRoom = 4
    CodeRoom = 4
    HostRoom = 5
    PathRoom = 34
    UrlRoom = 34
    BodyRoom = 20
    DetailTooLong = {"toolong"}
    ErrorToks = 12
    ArithmeticJobs <- MCArithmeticJobs
    RsaJobs <- MCRsaJobs
    EcdsaJobs <- MCEcdsaJobs
    EddsaJobs <- MCEddsaJobs
    HashJobs <- MCHashJobs
    Base64Jobs <- MCBase64Jobs
    DateJobs <- MCDateJobs
    StringJobs <- MCStringJobs
    NumberJobs <- MCNumberJobs
    TextJobs <- MCTextJobs
    KeySetJobs <- MCKeySetJobs
    PayloadJobs <- MCPayloadJobs
    ImportJobs <- MCImportJobs
    TimeJobs <- MCTimeJobs
    IdentityJobs <- MCIdentityJobs
    RequestJobs <- MCRequestJobs
    RefusalJobs <- MCRefusalJobs
    OpenJobs <- MCOpenJobs
    ScanJobs <- MCScanJobs
    SystemIdJobs <- MCSystemIdJobs
    StrRoom = 4
INVARIANTS
    BignumIsArithmetic
    RsaAcceptsOnlySignatures
    EcdsaIsTheEquation
    EddsaIsTheEquation
    BlocksArePaddedMessage
    Base64IsCanonical
    ValuesAreReadAsWritten
    TokensFormATree
    KeysAreKeptApart
    LicenseIsReadAsSigned
    
    TrustedTimeIsNear
    MachineIdNamesTheMachine
    WireIsFaithful
    HandleIsAsAsked
