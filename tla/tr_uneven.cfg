CONSTANTS
    Jobs <- UnevenJobs
    Script <- Scripted
SPECIFICATION Spec
INVARIANT EndsAgree
CHECK_DEADLOCK FALSE
