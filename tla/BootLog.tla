----------------------------- MODULE BootLog -----------------------------
(***************************************************************************)
(* validate_bootlog.py: does a captured log show what a profile demands?   *)
(* A line is the token it carries; a STALL line of watch_serial.py quotes  *)
(* an earlier line and so carries its token again.  The tokens are those   *)
(* the profiles look for.                                                  *)
(***************************************************************************)
EXTENDS Integers, SequencesExt

Line(token) == [token |-> token, stall |-> FALSE]
StallLine(token) == [token |-> token, stall |-> TRUE]

Profiles == {"normal", "recovery", "update"}

Required(profile) ==
    CASE profile = "normal" ->
            <<"DECISION_ANY", "APP_CRC_CHECK", "APP_CRC_OK", "LOAD_APP", "HANDOFF",
              "HANDOFF_APP", "START", "BOOTLOADER_HANDOFF_OK">>
      [] profile = "recovery" -> <<"DECISION_RECOVERY", "RECOVERY_CMD_STATUS">>
      [] profile = "update" -> <<"READY_FOR_UPDATE", "READY_FOR_CHUNK", "UPDATE_SESSION_END">>

(* Mutant of Optional: nothing is.                                         *)
NothingOptional(profile) == {}

Optional(profile) == IF profile = "update" THEN {"READY_FOR_UPDATE"} ELSE {}

(* Mutant of Carries: DECISION_ANY is DECISION_NORMAL.                     *)
NormalOnly(line, token) ==
    \/ line.token = token
    \/ token = "HANDOFF" /\ line.token = "HANDOFF_APP"
    \/ token = "DECISION_ANY" /\ line.token = "DECISION_NORMAL"

(* token in line: HANDOFF_APP contains HANDOFF.                            *)
Carries(line, token) ==
    \/ line.token = token
    \/ token = "HANDOFF" /\ line.token = "HANDOFF_APP"
    \/ token = "DECISION_ANY" /\ line.token \in {"DECISION_NORMAL", "DECISION_UPDATE"}

Later(log, at, token) == {i \in DOMAIN log : i > at /\ Carries(log[i], token)}

(* One round of the loop of find_in_order.                                 *)
Find(log, profile, scan, token) ==
    LET found == Later(log, scan.at, token)
    IN CASE found # {} -> [scan EXCEPT !.at = Min(found)]
         [] found = {} /\ token \in Optional(profile) -> scan
         [] OTHER -> [scan EXCEPT !.missing = @ \cup {token}]

(* The loop after its first rounds, one for every token.                   *)
Scans(log, profile) ==
    LET required == Required(profile)
        scan[n \in 0 .. Len(required)] ==
            IF n = 0
            THEN [at |-> 0, missing |-> {}]
            ELSE Find(log, profile, scan[n - 1], required[n])
    IN scan

FindInOrder(log, profile) == Scans(log, profile)[Len(Required(profile))].missing = {}

HandoffAfter(log, token) ==
    \E i, j \in DOMAIN log : /\ i < j
                             /\ Carries(log[i], token) /\ Carries(log[j], "HANDOFF_APP")

(* Mutant of CheckRecovery: a handoff after recovery is always allowed.    *)
AllowRecovery(log, allow) == TRUE

CheckRecovery(log, allow) == allow \/ ~HandoffAfter(log, "DECISION_RECOVERY")

CheckCrcFailSafety(log) == ~HandoffAfter(log, "APP_CRC_FAIL")

(* run_validation; allow is --allow-recovery-handoff.                      *)
Validates(log, profile, allow) ==
    /\ FindInOrder(log, profile)
    /\ CheckRecovery(log, allow)
    /\ CheckCrcFailSafety(log)
=============================================================================
