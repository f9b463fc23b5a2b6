SPECIFICATION Spec
CONSTANTS
    Threads = {t1, t2, t3}
    MaxAttempts = 3
    MaxEvents = 3
    MaxWrites = 2
    MaxReplies = 2
    MaxInput = 4
    MaxOutput = 3
    BufferSize = 3
    MaxWords = 3
    MaxChars = 4
    Arguments = {"--help", "-p", "--known-hosts", "-i", "--password", "-x", "u@h", " @h", "@h", "2222", "0", "65536", ""}
    MaxArguments = 4
INVARIANTS OneRuntime LegacyOkMeansAll QuotingRoundTrip ExitCodeTruthful
PROPERTY CloseEndsRun
CHECK_DEADLOCK FALSE
