CONSTANTS
    Pending = Pending
    Fatal = Fatal
    MaxFrames = 3
    VmafFeatureVersion = "0.2.4b"
    StrredFeatureVersion = "0.0.1"
    Features <- MCFeatures
    Values <- MCValues

SPECIFICATION Spec

CHECK_DEADLOCK FALSE
PROPERTY VmafossParsesPerSpec
