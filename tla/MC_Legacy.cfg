CONSTANTS
    NoValue = NoValue
    a1 = a1
    a2 = a2
    Scale = 1000
    FrameCount = 2
    Assets <- MCAssets
    FeatureVectors <- MCFeatureVectors
    SvmPredict <- MCSvmPredict

SPECIFICATION Spec

INVARIANT LegacyScoresInRange
CHECK_DEADLOCK FALSE
