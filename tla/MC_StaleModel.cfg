CONSTANTS
    NoValue = NoValue
    a1 = a1
    a2 = a2
    pDefault = pDefault
    pAlt = pAlt
    svr1 = svr1
    svr2 = svr2
    Scale = 10
    FrameCount = 2
    Variant = "VMAF"
    Assets <- MCAssets
    Paths <- MCPaths
    DefaultPath = pDefault
    SVRs <- MCSVRs
    Atoms <- MCAtoms
    DefaultFeatureDict <- MCDefaultFeatureDict
    Predict <- MCPredict
    Models <- MCModels
    OptionalDicts <- MCOptionalDicts

SPECIFICATION Spec

INVARIANT ResultFromOneModel
