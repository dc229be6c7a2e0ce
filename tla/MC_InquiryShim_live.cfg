\* A caller that starts an inquiry only when the shim reports none active,
\* stopping at will; up to three events in flight on the module's handler.
SPECIFICATION InquirySpec
CONSTANTS
    ScanValues = {1}
    MaxEvents = 3
    ClientChecksActive = TRUE
PROPERTIES
    OneShotFlagsEventuallyClear
CHECK_DEADLOCK FALSE
