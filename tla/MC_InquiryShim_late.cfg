\* The same caller, who checks for an active inquiry before starting one; stopping is unchecked.
SPECIFICATION InquirySpec
CONSTANTS
    ScanValues = {1}
    MaxEvents = 3
    ClientChecksActive = TRUE
INVARIANT
    InquiryNoAbort
CHECK_DEADLOCK FALSE
