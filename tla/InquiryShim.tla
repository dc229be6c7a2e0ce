----------------------------- MODULE InquiryShim -----------------------------
(***************************************************************************)
(* shim::Inquiry (gd/shim/inquiry.cc): the legacy stack starts and stops    *)
(* one-shot and periodic inquiries through it, handing over one set of      *)
(* LegacyInquiryCallbacks that every kind of inquiry shares.  Results and   *)
(* completions come back from neighbor::InquiryModule on its handler.       *)
(*                                                                          *)
(* The inquiry module and the controller are not in this repository: they  *)
(* are modelled as a controller mode and the queue of events the module's   *)
(* handler is still to pass to the shim.  The three result kinds (standard, *)
(* with RSSI, extended) assert the same way and are one event here; what    *)
(* they format for the callback is left out.                                *)
(***************************************************************************)
EXTENDS Integers, Sequences

CONSTANTS
    ScanValues,          \* interval and window values SetScanActivity is given
    MaxEvents,           \* bound on events queued on the module's handler
    ClientChecksActive   \* the caller starts an inquiry only when none is active

VARIABLES
    callbacksSet,                     \* callbacks_ holds the four callbacks
    generalInquiryActive,             \* general_inquiry_active_
    limitedInquiryActive,             \* limited_inquiry_active_
    generalPeriodicInquiryActive,     \* general_periodic_inquiry_active_
    limitedPeriodicInquiryActive,     \* limited_periodic_inquiry_active_
    params,                           \* params_: [interval, window]
    ctrlMode,                         \* the controller: "idle", "oneshot", "periodic"
    events,                           \* events on the module's handler
    inqFault                          \* "none" or the ASSERT that fired

inqVars == <<callbacksSet, generalInquiryActive, limitedInquiryActive,
             generalPeriodicInquiryActive, limitedPeriodicInquiryActive,
             params, ctrlMode, events, inqFault>>

flags == <<generalInquiryActive, limitedInquiryActive,
           generalPeriodicInquiryActive, limitedPeriodicInquiryActive>>

InquiryTypeOK ==
    /\ callbacksSet \in BOOLEAN
    /\ flags \in BOOLEAN \X BOOLEAN \X BOOLEAN \X BOOLEAN
    /\ params \in [interval : ScanValues \cup {0}, window : ScanValues \cup {0}]
    /\ ctrlMode \in {"idle", "oneshot", "periodic"}
    /\ events \in Seq({"result", "complete"})
    /\ inqFault \in {"none", "no_result_callback", "no_complete_callback"}

OneShotActive == generalInquiryActive \/ limitedInquiryActive
AnyActive == OneShotActive \/ generalPeriodicInquiryActive \/ limitedPeriodicInquiryActive

\* Inquiry::Start: impl's constructor registers with the inquiry module;
\* params_ start at zero and no inquiry is active.
InquiryInit ==
    /\ callbacksSet = FALSE
    /\ generalInquiryActive = FALSE
    /\ limitedInquiryActive = FALSE
    /\ generalPeriodicInquiryActive = FALSE
    /\ limitedPeriodicInquiryActive = FALSE
    /\ params = [interval |-> 0, window |-> 0]
    /\ ctrlMode = "idle"
    /\ events = <<>>
    /\ inqFault = "none"

\* the inquiry module's command to the controller: a start is refused while
\* the controller already inquires
ModuleStart(mode) == ctrlMode' = IF ctrlMode = "idle" THEN mode ELSE ctrlMode

\* RegisterInquiryCallbacks: callbacks_ takes the caller's four callbacks
RegisterInquiryCallbacks == callbacksSet' = TRUE

\* UnregisterInquiryCallbacks: callbacks_ = {{}, {}, {}, {}}
UnregisterInquiryCallbacks == callbacksSet' = FALSE

\* the guard a caller that consults the Is*Active queries applies
MayStart == inqFault = "none" /\ (ClientChecksActive => ~AnyActive)

-----------------------------------------------------------------------------
(* StartGeneralInquiry / StartLimitedInquiry: RegisterInquiryCallbacks,     *)
(* the flag, and the module's StartGeneralInquiry / StartLimitedInquiry.    *)
StartGeneralInquiry ==
    /\ MayStart
    /\ RegisterInquiryCallbacks
    /\ generalInquiryActive' = TRUE
    /\ ModuleStart("oneshot")
    /\ UNCHANGED <<limitedInquiryActive, generalPeriodicInquiryActive,
                   limitedPeriodicInquiryActive, params, events, inqFault>>

StartLimitedInquiry ==
    /\ MayStart
    /\ RegisterInquiryCallbacks
    /\ limitedInquiryActive' = TRUE
    /\ ModuleStart("oneshot")
    /\ UNCHANGED <<generalInquiryActive, generalPeriodicInquiryActive,
                   limitedPeriodicInquiryActive, params, events, inqFault>>

(* StopInquiry: ignored when neither one-shot flag is set; otherwise both   *)
(* flags cleared, the module's StopInquiry (the controller's inquiry is     *)
(* cancelled: no completion follows), UnregisterInquiryCallbacks.           *)
StopInquiry ==
    /\ inqFault = "none"
    /\ OneShotActive
    /\ generalInquiryActive' = FALSE
    /\ limitedInquiryActive' = FALSE
    /\ ctrlMode' = IF ctrlMode = "oneshot" THEN "idle" ELSE ctrlMode
    /\ UnregisterInquiryCallbacks
    /\ UNCHANGED <<generalPeriodicInquiryActive, limitedPeriodicInquiryActive,
                   params, events, inqFault>>

StartGeneralPeriodicInquiry ==
    /\ MayStart
    /\ RegisterInquiryCallbacks
    /\ generalPeriodicInquiryActive' = TRUE
    /\ ModuleStart("periodic")
    /\ UNCHANGED <<generalInquiryActive, limitedInquiryActive,
                   limitedPeriodicInquiryActive, params, events, inqFault>>

StartLimitedPeriodicInquiry ==
    /\ MayStart
    /\ RegisterInquiryCallbacks
    /\ limitedPeriodicInquiryActive' = TRUE
    /\ ModuleStart("periodic")
    /\ UNCHANGED <<generalInquiryActive, limitedInquiryActive,
                   generalPeriodicInquiryActive, params, events, inqFault>>

(* StopPeriodicInquiry: no check; both periodic flags cleared, the module's *)
(* StopPeriodicInquiry, UnregisterInquiryCallbacks.                         *)
StopPeriodicInquiry ==
    /\ inqFault = "none"
    /\ generalPeriodicInquiryActive' = FALSE
    /\ limitedPeriodicInquiryActive' = FALSE
    /\ ctrlMode' = IF ctrlMode = "periodic" THEN "idle" ELSE ctrlMode
    /\ UnregisterInquiryCallbacks
    /\ UNCHANGED <<generalInquiryActive, limitedInquiryActive, params, events, inqFault>>

(* SetScanActivity: params_ takes the interval and window and is handed to *)
(* the module.                                                              *)
SetScanActivity(interval, window) ==
    /\ inqFault = "none"
    /\ params' = [interval |-> interval, window |-> window]
    /\ UNCHANGED <<callbacksSet, generalInquiryActive, limitedInquiryActive,
                   generalPeriodicInquiryActive, limitedPeriodicInquiryActive,
                   ctrlMode, events, inqFault>>

-----------------------------------------------------------------------------
(* The controller reports a response while it inquires, and ends a one-shot *)
(* inquiry (or one period of a periodic one) with Inquiry Complete.         *)
ControllerResult ==
    /\ inqFault = "none"
    /\ ctrlMode # "idle"
    /\ Len(events) < MaxEvents
    /\ events' = Append(events, "result")
    /\ UNCHANGED <<callbacksSet, flags, params, ctrlMode, inqFault>>

ControllerComplete ==
    /\ inqFault = "none"
    /\ ctrlMode # "idle"
    /\ Len(events) < MaxEvents
    /\ events' = Append(events, "complete")
    /\ ctrlMode' = IF ctrlMode = "oneshot" THEN "idle" ELSE ctrlMode
    /\ UNCHANGED <<callbacksSet, flags, params, inqFault>>

(* Result / ResultWithRssi / ExtendedResult on the module's handler:       *)
(* ASSERT the result callback is set, then call it per response.           *)
Result ==
    /\ inqFault = "none"
    /\ events # <<>> /\ Head(events) = "result"
    /\ events' = Tail(events)
    /\ inqFault' = IF callbacksSet THEN "none" ELSE "no_result_callback"
    /\ UNCHANGED <<callbacksSet, flags, params, ctrlMode>>

\* mutant: Complete clears only the general flag
ClearOneShotGeneralOnly ==
    /\ generalInquiryActive' = FALSE
    /\ UNCHANGED limitedInquiryActive

\* limited_inquiry_active_ = false; general_inquiry_active_ = false
ClearOneShot ==
    /\ limitedInquiryActive' = FALSE
    /\ generalInquiryActive' = FALSE

(* Complete: ASSERT the complete callback is set, clear both one-shot flags *)
(* (the periodic ones stay), call the callback.                             *)
Complete ==
    /\ inqFault = "none"
    /\ events # <<>> /\ Head(events) = "complete"
    /\ events' = Tail(events)
    /\ IF callbacksSet
       THEN ClearOneShot /\ UNCHANGED inqFault
       ELSE inqFault' = "no_complete_callback" /\ UNCHANGED <<generalInquiryActive, limitedInquiryActive>>
    /\ UNCHANGED <<callbacksSet, generalPeriodicInquiryActive, limitedPeriodicInquiryActive,
                   params, ctrlMode>>

InquiryNext ==
    \/ StartGeneralInquiry \/ StartLimitedInquiry \/ StopInquiry
    \/ StartGeneralPeriodicInquiry \/ StartLimitedPeriodicInquiry \/ StopPeriodicInquiry
    \/ \E i, w \in ScanValues : SetScanActivity(i, w)
    \/ ControllerResult \/ ControllerComplete
    \/ Result \/ Complete

(* The module's handler drains its queue.  The controller ends a one-shot   *)
(* inquiry when inquiry_length runs out, however many responses it reports  *)
(* meanwhile: strong fairness, as responses may keep the queue full.  The   *)
(* caller is free: no fairness.                                             *)
InquiryFairness ==
    /\ WF_inqVars(Result) /\ WF_inqVars(Complete)
    /\ SF_inqVars(ControllerComplete)

InquirySpec == InquiryInit /\ [][InquiryNext]_inqVars /\ InquiryFairness

-----------------------------------------------------------------------------
(* The shim never ASSERTs on an event: every result and completion the     *)
(* module delivers finds the callbacks it needs registered.                *)
InquiryNoAbort == inqFault = "none"

(* While the controller runs a one-shot inquiry, the shim reports one       *)
(* active (IsGeneralInquiryActive / IsLimitedInquiryActive): the legacy     *)
(* stack's view of the controller is never behind it.                      *)
ShimSeesRunningInquiry ==
    ctrlMode = "oneshot" => OneShotActive

(* A started one-shot inquiry ends for the shim: its flags are cleared by   *)
(* Complete or StopInquiry, unless an ASSERT ended the process first.       *)
OneShotFlagsEventuallyClear ==
    OneShotActive ~> (~OneShotActive \/ inqFault # "none")

=============================================================================
