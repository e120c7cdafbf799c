SPECIFICATION Spec
CONSTANTS
    None = None
    Node = {"D", "A", "B", "C", "Z"}
    EndEvent = {"Z"}
    Flow <- ChainFlow
    ReturnFlow <- ChainReturn
    FirstFlow <- ChainFirst
    StepKey <- NoStep
    StartStep = {}
    EndStep = {}
    PriorityNode = {}
    Main <- NoRank
    SignType = {"ta", "tb", "tc"}
    TypeOf <- ChainType
    User = {"d", "e", "a1", "a2", "b", "b2", "c", "q", "q2", "x"}
    RoleName = {"rd", "re", "ra", "rb", "rc", "rq", "rx"}
    Role <- LaneIn
    Members <- LaneMembers
    SkipNode = {}
    Draft = "D"
    Drafter = "d"
    InitialSigners <- OneSigner
    Choices = {{"a2"}, {"b"}}
    Session = {s1}
    MaxRequest = 12
    Resubmit = FALSE
INVARIANTS
    TypeOK
    FlowNeverDies
    OneRegion
    SelectedUntilRework
    FreshUntilRework
