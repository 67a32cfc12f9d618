\* Revisions of committed meshes, those of old workers included.
SPECIFICATION FrameSpec
CONSTANTS
    None = None
    MeshEngines = {"triposr", "sf3d"}
INVARIANTS
    RevisionsStandard
CHECK_DEADLOCK FALSE
