--------------------------- MODULE ForeignDevice ---------------------------
(***************************************************************************)
(* A device that registers with a BBMD as a foreign device: the globals of *)
(* src/bvlc.cpp (registrationStatus, amIReceivingBVLCMessages,             *)
(* Remote_BBMD) and the members of BACnet (foreign_device_renew_tmr,       *)
(* _bbmd_addr and _bbmd_port, _bbmd_ttl), and what the code does to them.  *)
(* A device is a value, so that a network can have several.                *)
(***************************************************************************)
EXTENDS Integers

CONSTANTS
  Bbmds,            \* B/IP addresses, port included, of the BBMDs
  NoBbmd,           \* 0.0.0.0:0
  SafeTime          \* REGISTRATION_RENEWAL_SAFE_TIME_SECS

ASSUME DeviceAssumption == NoBbmd \notin Bbmds /\ SafeTime \in Nat

Statuses == {"NO_REGISTRATION", "SUCCESS", "FAIL"}
ResultCodes == {"SUCCESSFUL_COMPLETION", "REGISTER_NAK"}

\* What sendto() may do: the datagram leaves, nothing is sent because the
\* socket is closed (taken for a success), or an error is returned.
SendOutcomes == {"sent", "closed", "failed"}

DeviceStates ==
  [status : Statuses, awaiting : BOOLEAN, remote : Bbmds \cup {NoBbmd},
   renewTmr : Nat, bbmd : Bbmds \cup {NoBbmd}, ttl : Nat]

\* A process that has just started.
NewDevice ==
  [status |-> "NO_REGISTRATION", awaiting |-> FALSE, remote |-> NoBbmd,
   renewTmr |-> 0, bbmd |-> NoBbmd, ttl |-> 0]

\* BACnet::initialize(), which resets neither Remote_BBMD nor the flag.
Initialized(d) == [d EXCEPT !.status = "NO_REGISTRATION", !.renewTmr = 0]

\* bvlc_register_with_bbmd(), and bvlc_reset_remote_bbmd_settings() if it fails.
Asked(d, b, outcome) ==
  [d EXCEPT !.awaiting = TRUE, !.remote = IF outcome = "failed" THEN NoBbmd ELSE b]

\* BACnet::registerForeign(): a failure leaves the status as it was.
RegisteredForeign(d, b, ttl, outcome) ==
  IF outcome = "failed"
  THEN Asked(d, b, outcome)
  ELSE [Asked(d, b, outcome) EXCEPT !.bbmd = b, !.ttl = ttl]

\* Fault: a refusal resets Remote_BBMD before the status is looked after.
RefusalKeepsStatus(d, code) ==
  IF code = "SUCCESSFUL_COMPLETION" /\ d.awaiting
  THEN [d EXCEPT !.status = "SUCCESS", !.awaiting = FALSE]
  ELSE IF code = "REGISTER_NAK"
  THEN [d EXCEPT !.awaiting = FALSE, !.remote = NoBbmd]
  ELSE [d EXCEPT !.status = "NO_REGISTRATION"]

\* bvlc_for_non_bbmd(), BVLC_RESULT.  Who sent the result is not looked at; a
\* success that is not awaited ends the registration without an event.
ResultReceived(d, code) ==
  IF code = "SUCCESSFUL_COMPLETION" /\ d.awaiting
  THEN [d EXCEPT !.status = "SUCCESS", !.awaiting = FALSE]
  ELSE IF code = "REGISTER_NAK"
  THEN [d EXCEPT !.status = "FAIL", !.awaiting = FALSE, !.remote = NoBbmd]
  ELSE [d EXCEPT !.status = "NO_REGISTRATION"]

\* Fault: the renewal waits for the whole Time-to-Live and the safe time.
RenewalDueLate(d, elapsed) ==
  d.status = "SUCCESS" /\ d.renewTmr + elapsed >= d.ttl + SafeTime

\* A renewal is sent while the last one is still good for the safe time.
RenewalDue(d, elapsed) ==
  d.status = "SUCCESS" /\ d.renewTmr + elapsed >= d.ttl - SafeTime

\* Fault: the seconds between two renewals are not added up.
KeptForgetful(d, elapsed, outcome) ==
  CASE d.status = "NO_REGISTRATION" -> d
    [] d.status = "FAIL" -> [d EXCEPT !.renewTmr = 0]
    [] RenewalDue(d, elapsed) ->
         [Asked(d, d.bbmd, outcome) EXCEPT
            !.renewTmr = 0,
            !.status = IF outcome = "failed" THEN "FAIL" ELSE @]
    [] OTHER -> d

\* The registration part of BACnet::execute(), `elapsed' seconds after the last.
Kept(d, elapsed, outcome) ==
  CASE d.status = "NO_REGISTRATION" -> d
    [] d.status = "FAIL" -> [d EXCEPT !.renewTmr = 0]
    [] RenewalDue(d, elapsed) ->
         [Asked(d, d.bbmd, outcome) EXCEPT
            !.renewTmr = 0,
            !.status = IF outcome = "failed" THEN "FAIL" ELSE @]
    [] OTHER -> [d EXCEPT !.renewTmr = @ + elapsed]

=============================================================================
