SPECIFICATION Spec
CONSTANTS
    TargetW = 16
    TargetH = 9
    Widths = {0, 1, 3, 9, 16, 17, 49}
    Heights = {0, 1, 9, 10, 27, 90}
    Formats = {"nv12", "yuv420p"}
INVARIANTS PictureFits PictureCentred ScalerCurrent
PROPERTIES MirrorReverses
CHECK_DEADLOCK FALSE
