------------------------------- MODULE Consent -------------------------------
(***************************************************************************)
(* Consent checks (src/dribik/consent.py).  A capability is the sequence   *)
(* of its colon-separated parts: <<"active_exploitation">> is the blanket  *)
(* capability, <<"active_exploitation", "crawl">> is one it covers.        *)
(* A record is [target, capability, expires]; expires is a time, or Never. *)
(***************************************************************************)
EXTENDS SequencesExt

CONSTANTS
  Never,       \* the expires_at of a record that does not expire
  Folded       \* target as typed -> target after strip().lower()

ASSUME NeverAssumption == Never \notin Nat

(* The capabilities any one of which satisfies a request for cap.          *)
Accepts(cap) == IF Len(cap) > 1 THEN {cap, Front(cap)} ELSE {cap}

(* _not_expired: the instant of expiry itself still counts.                *)
NotExpired(record, now) == record.expires = Never \/ now <= record.expires

HasConsent(log, target, cap, now) ==
  \E r \in log :
    /\ r.capability \in Accepts(cap)
    /\ Folded[r.target] = Folded[target]
    /\ NotExpired(r, now)
=============================================================================
