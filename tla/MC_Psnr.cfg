CONSTANTS
    NotPsnr = NotPsnr
    Unparsable = Unparsable
    Pending = Pending
    Fatal = Fatal
    MaxLines = 3
    VmafFeatureVersion = "0.2.4b"
    StrredFeatureVersion = "0.0.1"
    Values <- MCValues

SPECIFICATION Spec

PROPERTY PsnrParsesPerSpec
CHECK_DEADLOCK FALSE
