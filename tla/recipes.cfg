SPECIFICATION Spec
CONSTANTS
    Procs = {blogger, writer}
    Blogger = blogger
    Writer = writer
    WordPressApps = {"blog"}
    GenericApps = {"docs"}
    MaxVersion = 2
    MaxSecrets = 2
    MaxFailures = 1
    MaxCrashes = 1
CONSTRAINT Bounded
INVARIANT InstallationsHonest
PROPERTY PasswordKept
CHECK_DEADLOCK FALSE
