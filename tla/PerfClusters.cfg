CONSTANTS
    Jobs = {j1, j2}
    Flags <- MCFlags
    Environments = {"prod", "nowhere"}
    repo = "serving"
    Names <- MCNames
    Files <- MCFiles
    Others <- MCOthers
    ChangesDuringJobs = FALSE
    Killed = TRUE
    Quota = 2
    Absent = Absent
SPECIFICATION FairSpec
INVARIANTS ReconciledIfNoErrors KeptIfUnchanged
PROPERTIES OthersKept JobsEnd
