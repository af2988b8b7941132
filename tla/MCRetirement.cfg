SPECIFICATION FairSpec
CONSTANTS
    Workflows = {1, 2}
    RunIds = {1, 2}
    WorkflowOf <- OddFirst
    Operators = {o1}
    MaxReenables = 1
    MaxReruns = 1
    MaxFailures = 1
INVARIANTS TypeOK ReceiptIsTrue VerifiedIsRetired
PROPERTIES DeletesOnlyApproved RetirementCompletes
