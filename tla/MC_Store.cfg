CONSTANTS
    NoValue = NoValue
    rPsnr1 = rPsnr1
    rPsnr2 = rPsnr2
    rOss1 = rOss1
    rOss2 = rOss2
    a1 = a1
    a2 = a2
    DefaultModelPath = "vmaf_v0.6.1.pkl"
    VmafFeatureVersion = "0.2.4b"
    StrredFeatureVersion = "0.0.1"
    Runners <- MCRunners
    Assets <- MCAssets
    TypeOf <- MCTypeOf
    ProgramResult <- MCProgramResult
    OptionsOf <- MCSameArgsOptions

SPECIFICATION Spec

INVARIANT CachedResultIsFresh
CHECK_DEADLOCK FALSE
