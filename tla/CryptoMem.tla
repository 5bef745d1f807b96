----------------------------- MODULE CryptoMem -----------------------------
(***************************************************************************)
(* The crypto memory chip (AT88SC0104) and its driver (cryptomem.c), as    *)
(* functions on one record: what the chip keeps without power (pac, pw,    *)
(* key of every zone) and what the driver keeps in RAM (state, zone).      *)
(*                                                                         *)
(* A zone holds an AES key and is guarded by a password.  A wrong password *)
(* costs one of its MaxAttempts attempts; the right one restores them all; *)
(* a zone without attempts is dead for good.  The two-wire transport, the  *)
(* chip's mutual authentication and its noise are left out: a command that *)
(* reaches a live zone is answered.                                        *)
(***************************************************************************)
EXTENDS Integers, FiniteSetsExt

CONSTANTS
  NumZones,      \* 4
  MaxAttempts,   \* 4: the attempts decoded by cm_CheckPAC
  Passwords,     \* 24-bit passwords
  DefaultPW,     \* CM_DEFAULT_PW, 0xFFFFFF
  Keys           \* the AES keys; NoKey is the content of a wiped zone

Zones == 0 .. NumZones - 1
NoZone == -1                               \* zone_index = -1
NoKey == 0

ASSUME CryptoMemAssumption ==
  /\ NumZones \in Nat /\ MaxAttempts \in Nat \ {0}
  /\ DefaultPW \in Passwords
  /\ Keys \subseteq Nat /\ NoKey \in Keys

CmStates == {"IDLE", "AUTHENTICATED", "PW_ENTERED", "ZONE_LOCKED"}
CryptoMems == [pac : [Zones -> 0 .. MaxAttempts], pw : [Zones -> Passwords],
               key : [Zones -> Keys], state : CmStates, zone : Zones \cup {NoZone}]

Alive(c) == {z \in Zones : c.pac[z] > 0}
IsOpen(c) == c.state = "PW_ENTERED"

\* Wrong passwords are answered without a trace: a mistake.
WrongIsFree(c, pw) == c

\* A dead zone still counts down: a mistake.
\* cm_VerifyPassword, for the chip: it does nothing without a live zone.
Accepts(c, pw) == c.zone \in Alive(c) /\ c.pw[c.zone] = pw
cm_VerifyPassword(c, pw) ==
  IF c.zone \notin Alive(c) THEN c
  ELSE [c EXCEPT !.pac[c.zone] = IF Accepts(c, pw) THEN MaxAttempts ELSE @ - 1]

cm_get_zone_index(c) ==
  IF c.zone # NoZone \/ Alive(c) = {} THEN c ELSE [c EXCEPT !.zone = Min(Alive(c))]

cm_init(c) == cm_get_zone_index([c EXCEPT !.state = "IDLE", !.zone = NoZone])

cm_deactivate_security(c) == [c EXCEPT !.state = "IDLE"]

\* It fails, leaving the state alone, when no zone is left.
cm_activate_security(c) ==
  LET d == cm_get_zone_index(c)
  IN IF c.state \in {"AUTHENTICATED", "PW_ENTERED"} \/ d.zone = NoZone THEN d
     ELSE [d EXCEPT !.state = "AUTHENTICATED"]

\* cm_get_remaining_PIN_attempts; an error counts as no attempts.
Attempts(c) ==
  IF c.state = "ZONE_LOCKED" \/ c.zone = NoZone THEN 0 ELSE c.pac[c.zone]

\* It succeeds iff the result IsOpen.
cm_open_zone(c, pw) ==
  LET a == cm_activate_security(c)
      v == cm_VerifyPassword(a, pw)
  IN CASE IsOpen(c) -> c
       [] ~IsOpen(c) /\ a.state # "AUTHENTICATED" -> a
       [] OTHER -> [v EXCEPT !.state = IF Accepts(a, pw) THEN "PW_ENTERED"
                                       ELSE IF v.pac[v.zone] = 0 THEN "ZONE_LOCKED"
                                       ELSE "IDLE"]

\* cm_send_default_PW and the assignment of its callers.  When the default
\* password is wrong it is sent until the zone is dead, and the next zone is
\* opened instead.  It succeeds iff the result IsOpen.
cm_send_default_PW(c) ==
  IF Accepts(c, DefaultPW)
  THEN [cm_VerifyPassword(c, DefaultPW) EXCEPT !.state = "PW_ENTERED"]
  ELSE LET killed == [c EXCEPT !.pac = [z \in Zones |-> IF z = c.zone THEN 0 ELSE @[z]],
                               !.zone = NoZone, !.state = "IDLE"]
           next == cm_activate_security(killed)
       IN [cm_VerifyPassword(next, DefaultPW) EXCEPT
             !.state = IF Accepts(next, DefaultPW) THEN "PW_ENTERED" ELSE "ZONE_LOCKED"]

\* What cm_get_aes_key reads; nothing of a zone that is not open.
ReadableKey(c) == IF IsOpen(c) THEN c.key[c.zone] ELSE NoKey

\* cm_initialize_new_zone with the random key k.
cm_initialize_new_zone(c, k) ==
  LET a == cm_activate_security(c)
      d == IF a.state = "AUTHENTICATED" THEN cm_send_default_PW(a) ELSE a
  IN IF IsOpen(d) THEN [d EXCEPT !.key[d.zone] = k] ELSE d

\* The common start of cm_set_PIN and cm_wipe_zone: the zone is open, or is
\* opened by the default password.
OpenByDefault(c) ==
  LET a == IF c.state = "IDLE" THEN cm_activate_security(c) ELSE c
  IN IF IsOpen(c) \/ a.state = "IDLE" THEN a ELSE cm_send_default_PW(a)

cm_set_PIN(c, pw) ==
  LET d == OpenByDefault(c) IN IF IsOpen(d) THEN [d EXCEPT !.pw[d.zone] = pw] ELSE d

\* The key stays in the zone: a mistake.
OnlyPasswordWiped(c) ==
  IF c.state = "ZONE_LOCKED" THEN [c EXCEPT !.state = "IDLE", !.zone = NoZone]
  ELSE LET d == OpenByDefault(c)
       IN IF IsOpen(d) THEN [d EXCEPT !.pw[d.zone] = DefaultPW, !.state = "IDLE"] ELSE d

cm_wipe_zone(c) ==
  IF c.state = "ZONE_LOCKED" THEN [c EXCEPT !.state = "IDLE", !.zone = NoZone]
  ELSE LET d == OpenByDefault(c)
       IN IF IsOpen(d)
          THEN [d EXCEPT !.key[d.zone] = NoKey, !.pw[d.zone] = DefaultPW, !.state = "IDLE"]
          ELSE d
=============================================================================
