SPECIFICATION FairSpec
CONSTANTS
    None = None
    Node = {"D", "A", "B", "Q", "X", "Z"}
    EndEvent = {"Z"}
    Flow <- StageFlow
    ReturnFlow <- StageReturn
    FirstFlow <- StageFirst
    StepKey <- StageStep
    StartStep = {"A"}
    EndStep = {}
    PriorityNode = {"A", "B"}
    Main <- StageRank
    SignType = {"ta", "tb", "tq", "tx"}
    TypeOf <- StageType
    User = {"d", "e", "a1", "a2", "b", "b2", "c", "q", "q2", "x"}
    RoleName = {"rd", "re", "ra", "rb", "rc", "rq", "rx"}
    Role <- LaneIn
    Members <- LaneMembers
    SkipNode = {}
    Draft = "D"
    Drafter = "d"
    InitialSigners <- OneSigner
    Choices = {}
    Session = {s1, s2}
    MaxRequest = 5
    Resubmit = FALSE
INVARIANTS
    FlowNeverDies
    SignedUntilReturn
    ExitWaitsForPriority
PROPERTIES
    RequestsEnd
