SPECIFICATION Spec
CONSTANTS
    None = None
    Node = {"D", "E", "A", "B", "X", "Z"}
    EndEvent = {"Z"}
    Flow <- DetourFlow
    ReturnFlow <- DetourReturn
    FirstFlow <- DetourFirst
    StepKey <- DetourStep
    StartStep = {"A"}
    EndStep = {}
    PriorityNode = {"A", "B"}
    Main <- NoRank
    SignType = {"ta", "tb", "te", "tx"}
    TypeOf <- DetourType
    User = {"d", "e", "a1", "a2", "b", "b2", "c", "q", "q2", "x"}
    RoleName = {"rd", "re", "ra", "rb", "rc", "rq", "rx"}
    Role <- LaneIn
    Members <- LaneMembers
    SkipNode = {}
    Draft = "D"
    Drafter = "d"
    InitialSigners <- OneSigner
    Choices = {}
    Session = {s1}
    MaxRequest = 8
    Resubmit = FALSE
INVARIANTS
    OnlySelectedSigners
