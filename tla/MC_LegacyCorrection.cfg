CONSTANTS
    NoValue = NoValue
    a1 = a1
    a2 = a2
    Scale = 1000
    FrameCount = 1
    Assets <- MCAssets
    FeatureVectors <- MCFeatureVectors
    SvmPredict <- MCSvmPredict

SPECIFICATION Spec

INVARIANT LegacyCorrectionPerSpec
