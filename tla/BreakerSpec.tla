----------------------------- MODULE BreakerSpec -----------------------------
(***************************************************************************)
(* What a circuit breaker promises, whatever it counts and however many    *)
(* goroutines drive it: it cools down for longer than Timeout each time it *)
(* opens, and it closes only after MaxRequests successes that were         *)
(* reported while it was half open, with no failure reported between them. *)
(***************************************************************************)
EXTENDS Naturals

CONSTANTS MaxRequests, Timeout

VARIABLES
    phase,   \* "CLOSED", "OPEN", "HALF_OPEN"
    wins,    \* successes reported since the breaker became half open
    waited   \* time since the phase last changed, up to Timeout + 1

specVars == <<phase, wins, waited>>

Enter(p) == phase' = p /\ wins' = 0 /\ waited' = 0

SpecInit == phase = "CLOSED" /\ wins = 0 /\ waited = 0

Trip    == phase = "CLOSED" /\ Enter("OPEN")
Cool    == phase = "OPEN" /\ waited > Timeout /\ Enter("HALF_OPEN")
Relapse == phase = "HALF_OPEN" /\ Enter("OPEN")
Heal    == phase = "HALF_OPEN" /\ wins + 1 = MaxRequests /\ Enter("CLOSED")
Win     == /\ phase = "HALF_OPEN"
           /\ wins + 1 < MaxRequests
           /\ wins' = wins + 1
           /\ UNCHANGED <<phase, waited>>
Elapse  == waited <= Timeout /\ waited' = waited + 1 /\ UNCHANGED <<phase, wins>>

SpecNext == Trip \/ Cool \/ Relapse \/ Heal \/ Win \/ Elapse

Promise == SpecInit /\ [][SpecNext]_specVars
=============================================================================
