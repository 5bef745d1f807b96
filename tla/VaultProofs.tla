---------------------------- MODULE VaultProofs ----------------------------
(***************************************************************************)
(* What Vault guarantees for any PINs, numbers of zones and attempts, and  *)
(* any number of power losses: how many attempts are left, which key the   *)
(* zone in use holds, who may use the cached seed, and when a zone is      *)
(* lost.                                                                   *)
(***************************************************************************)
EXTENDS Vault, TLAPS, WellFoundedInduction

-----------------------------------------------------------------------------
(* The zones of the chip.                                                  *)

LEMMA LeastIsMin ==
  ASSUME NEW S \in SUBSET Nat, NEW m \in S, \A y \in S : m <= y
  PROVE  Min(S) = m
<1>1. \E x \in S : \A y \in S : x =< y
  OBVIOUS
<1>2. Min(S) \in S /\ \A y \in S : Min(S) =< y
  <2> DEFINE P(x) == x \in S /\ \A y \in S : x =< y
  <2>1. \E x : P(x)
    OBVIOUS
  <2>2. P(CHOOSE x : P(x))
    <3> HIDE DEF P
    <3> QED
      BY <2>1
  <2> QED
    BY <1>1 DEF Min
<1>3. Min(S) \in Nat /\ m \in Nat
  BY <1>2
<1>4. m <= Min(S) /\ Min(S) <= m
  BY <1>2
<1> HIDE DEF Min
<1> QED
  BY <1>3, <1>4

LEMMA MinIsLeast ==
  ASSUME NEW S \in SUBSET Nat, S # {}
  PROVE  Min(S) \in S /\ \A y \in S : Min(S) <= y
<1>1. \E x \in S : \A y \in S : ~(<<y, x>> \in OpToRel(<, Nat))
  BY NatLessThanWellFounded, WFMin
<1>2. \A y, x \in Nat : y < x => <<y, x>> \in OpToRel(<, Nat)
  BY DEF OpToRel
<1>3. PICK x \in S : \A y \in S : ~(y < x)
  BY <1>1, <1>2
<1>4. \A y \in S : x <= y
  BY <1>3
<1> QED
  BY <1>4, LeastIsMin

LEMMA ZoneFacts ==
  /\ Zones \in SUBSET Nat /\ NoZone \notin Zones /\ \A z \in Zones : z > NoZone
  /\ MaxAttempts \in Nat /\ MaxAttempts > 0
  /\ DefaultPW \in Passwords /\ NoKey \in Keys /\ Keys \subseteq Nat
<1>1. NumZones \in Nat
  BY CryptoMemAssumption
<1>2. Zones \in SUBSET Nat /\ NoZone \notin Zones /\ \A z \in Zones : z > NoZone
  BY <1>1 DEF Zones, NoZone
<1> QED
  BY <1>2, CryptoMemAssumption

\* A zone that was never used, or was wiped.
IsFresh(c, z) == c.pac[z] = MaxAttempts /\ c.pw[z] = DefaultPW /\ c.key[z] = NoKey

\* Zones are used from the lowest to the highest, and one only after all the
\* zones below it are dead.
Zoned(c) ==
  \A z \in Zones : z = c.zone \/ c.pac[z] = 0 \/ (z > c.zone /\ IsFresh(c, z))

\* What chip and driver look like between two calls of the driver.
ChipInv(c) ==
  /\ c \in CryptoMems /\ Zoned(c)
  /\ c.state # "AUTHENTICATED"
  /\ IsOpen(c) => c.zone \in Zones /\ c.pac[c.zone] = MaxAttempts
  /\ c.state = "ZONE_LOCKED" => c.zone \notin Alive(c)

LEMMA CmType ==
  ASSUME NEW c \in CryptoMems
  PROVE  /\ c.pac \in [Zones -> 0 .. MaxAttempts] /\ c.pw \in [Zones -> Passwords]
         /\ c.key \in [Zones -> Keys] /\ c.state \in CmStates
         /\ c.zone \in Zones \cup {NoZone}
         /\ Alive(c) \subseteq Zones
         /\ \A z \in Zones : c.pac[z] \in Nat /\ c.pac[z] <= MaxAttempts
                             /\ (z \in Alive(c) <=> c.pac[z] # 0)
<1>1. /\ c.pac \in [Zones -> 0 .. MaxAttempts] /\ c.pw \in [Zones -> Passwords]
      /\ c.key \in [Zones -> Keys] /\ c.state \in CmStates
      /\ c.zone \in Zones \cup {NoZone}
  BY DEF CryptoMems
<1>2. \A z \in Zones : c.pac[z] \in 0 .. MaxAttempts
  BY <1>1
<1> QED
  BY <1>1, <1>2, ZoneFacts DEF Alive

LEMMA CmRecord ==
  ASSUME NEW pac \in [Zones -> 0 .. MaxAttempts], NEW pw \in [Zones -> Passwords],
         NEW key \in [Zones -> Keys], NEW state \in CmStates,
         NEW zone \in Zones \cup {NoZone}, NEW c,
         c = [pac |-> pac, pw |-> pw, key |-> key, state |-> state, zone |-> zone]
  PROVE  c \in CryptoMems
BY DEF CryptoMems

SameData(c, d) == d.pac = c.pac /\ d.pw = c.pw /\ d.key = c.key

\* cm_get_zone_index selects the lowest zone that lives, and it is a fresh one.
LEMMA GetZone ==
  ASSUME NEW c \in CryptoMems, Zoned(c), NEW d, d = cm_get_zone_index(c)
  PROVE  /\ d \in CryptoMems /\ Zoned(d) /\ SameData(c, d) /\ d.state = c.state
         /\ c.zone # NoZone => d = c
         /\ c.zone = NoZone => \/ d = c /\ Alive(c) = {}
                               \/ d.zone \in Alive(c) /\ IsFresh(c, d.zone)
<1> USE CmType, ZoneFacts
<1>1. CASE c.zone # NoZone \/ Alive(c) = {}
  BY <1>1 DEF cm_get_zone_index, SameData
<1>2. CASE c.zone = NoZone /\ Alive(c) # {}
  <2> DEFINE m == Min(Alive(c))
  <2>1. m \in Alive(c) /\ \A y \in Alive(c) : m <= y
    BY <1>2, MinIsLeast
  <2> HIDE DEF m
  <2>2. d = [c EXCEPT !.zone = m]
    BY <1>2 DEF cm_get_zone_index, m
  <2>3. d.zone = m /\ SameData(c, d) /\ d.state = c.state /\ d \in CryptoMems
    BY <2>1, <2>2 DEF SameData, CryptoMems
  <2>4. \A z \in Zones : c.pac[z] = 0 \/ IsFresh(c, z)
    BY <1>2 DEF Zoned
  <2>5. IsFresh(c, m)
    BY <2>1, <2>4
  <2>6. ASSUME NEW z \in Zones PROVE z = d.zone \/ d.pac[z] = 0 \/ (z > d.zone /\ IsFresh(d, z))
    <3>1. CASE z \in Alive(c)
      <4>1. IsFresh(c, z) /\ IsFresh(d, z)
        BY <2>3, <2>4, <3>1 DEF IsFresh, SameData
      <4>2. z \in Nat /\ m \in Nat /\ m <= z
        BY <2>1, <3>1
      <4>3. z = m \/ z > m
        BY <4>2
      <4> QED
        BY <2>3, <4>1, <4>3
    <3>2. CASE z \notin Alive(c)
      BY <2>3, <3>2 DEF SameData
    <3> QED
      BY <3>1, <3>2
  <2> QED
    BY <1>2, <2>1, <2>3, <2>5, <2>6 DEF Zoned
<1> QED
  BY <1>1, <1>2

\* At boot the same zone is selected again, unless it died.
LEMMA CmInit ==
  ASSUME NEW c \in CryptoMems, Zoned(c), NEW d, d = cm_init(c)
  PROVE  /\ ChipInv(d) /\ SameData(c, d) /\ d.state = "IDLE"
         /\ \/ d.zone = NoZone /\ Alive(c) = {}
            \/ d.zone \in Alive(c) /\ (d.zone = c.zone \/ IsFresh(c, d.zone))
         /\ c.zone \in Alive(c) => d.zone = c.zone
<1> USE CmType, ZoneFacts
<1> DEFINE e == [c EXCEPT !.state = "IDLE", !.zone = NoZone]
<1>1. /\ e \in CryptoMems /\ SameData(c, e) /\ e.state = "IDLE" /\ e.zone = NoZone
      /\ Alive(e) = Alive(c)
  BY DEF CryptoMems, CmStates, SameData, Alive
<1>2. d = cm_get_zone_index(e)
  BY DEF cm_init
<1> HIDE DEF e
<1>3. CASE Alive(c) = {}
  <2>1. d = e
    BY <1>1, <1>2, <1>3 DEF cm_get_zone_index
  <2>2. Zoned(d)
    BY <1>1, <1>3, <2>1 DEF Zoned, SameData
  <2> QED
    BY <1>1, <1>3, <2>1, <2>2 DEF ChipInv, IsOpen
<1>4. CASE Alive(c) # {}
  <2> DEFINE m == Min(Alive(c))
  <2>1. m \in Alive(c) /\ \A y \in Alive(c) : m <= y
    BY <1>4, MinIsLeast
  <2> HIDE DEF m
  <2>2. d = [e EXCEPT !.zone = m]
    BY <1>1, <1>2, <1>4 DEF cm_get_zone_index, m
  <2>3. d.zone = m /\ SameData(c, d) /\ d.state = "IDLE" /\ d \in CryptoMems
    BY <1>1, <2>1, <2>2 DEF SameData, CryptoMems
  <2>4. \A z \in Alive(c) : z = c.zone \/ (z > c.zone /\ IsFresh(c, z))
    BY DEF Zoned
  <2>5. c.zone \in Alive(c) => m = c.zone
    <3>1. c.zone \in Alive(c) => m <= c.zone /\ m \in Nat /\ c.zone \in Nat
      BY <2>1
    <3> QED
      BY <2>1, <2>4, <3>1
  <2>6. m = c.zone \/ IsFresh(c, m)
    BY <2>1, <2>4
  <2>7. ASSUME NEW z \in Alive(c) PROVE z = m \/ (z > m /\ IsFresh(c, z))
    <3>1. z \in Nat /\ m \in Nat /\ m <= z
      BY <2>1
    <3>2. z = c.zone => z = m
      BY <2>5
    <3> QED
      BY <2>4, <3>1, <3>2
  <2>8. Zoned(d)
    BY <2>3, <2>7 DEF Zoned, IsFresh, SameData
  <2> QED
    BY <2>1, <2>3, <2>5, <2>6, <2>8 DEF ChipInv, IsOpen
<1> QED
  BY <1>3, <1>4

LEMMA Activate ==
  ASSUME NEW c \in CryptoMems, Zoned(c), NEW d, d = cm_activate_security(c)
  PROVE  /\ d \in CryptoMems /\ Zoned(d) /\ SameData(c, d)
         /\ c.zone # NoZone => d.zone = c.zone
         /\ c.zone = NoZone => \/ d.zone = NoZone /\ Alive(c) = {}
                               \/ d.zone \in Alive(c) /\ IsFresh(c, d.zone)
         /\ c.state \notin {"AUTHENTICATED", "PW_ENTERED"} =>
              d.state = IF d.zone = NoZone THEN c.state ELSE "AUTHENTICATED"
<1> DEFINE e == cm_get_zone_index(c)
<1>1. /\ e \in CryptoMems /\ Zoned(e) /\ SameData(c, e) /\ e.state = c.state
      /\ c.zone # NoZone => e = c
      /\ c.zone = NoZone => \/ e = c /\ Alive(c) = {}
                            \/ e.zone \in Alive(c) /\ IsFresh(c, e.zone)
  BY GetZone
<1>2. d = IF c.state \in {"AUTHENTICATED", "PW_ENTERED"} \/ e.zone = NoZone THEN e
          ELSE [e EXCEPT !.state = "AUTHENTICATED"]
  BY DEF cm_activate_security
<1> HIDE DEF e
<1>3. CASE d = e
  BY <1>1, <1>2, <1>3
<1>4. CASE d # e
  <2>1. d = [e EXCEPT !.state = "AUTHENTICATED"] /\ e.zone # NoZone
    BY <1>2, <1>4
  <2>2. /\ d \in CryptoMems /\ SameData(c, d) /\ d.state = "AUTHENTICATED"
        /\ d.zone = e.zone /\ d.pac = e.pac /\ d.pw = e.pw /\ d.key = e.key
    BY <1>1, <2>1 DEF CryptoMems, CmStates, SameData
  <2>3. Zoned(d)
    BY <1>1, <2>2 DEF Zoned, IsFresh
  <2> QED
    BY <1>1, <2>1, <2>2, <2>3
<1> QED
  BY <1>3, <1>4

\* Only the attempts of the selected zone change.
LEMMA Verify ==
  ASSUME NEW c \in CryptoMems, Zoned(c), NEW pw, NEW d, d = cm_VerifyPassword(c, pw)
  PROVE  /\ d \in CryptoMems /\ Zoned(d) /\ d.pw = c.pw /\ d.key = c.key
         /\ d.state = c.state /\ d.zone = c.zone
         /\ \A z \in Zones : z # c.zone => d.pac[z] = c.pac[z]
         /\ c.zone \in Alive(c) =>
              d.pac[c.zone] = IF Accepts(c, pw) THEN MaxAttempts ELSE c.pac[c.zone] - 1
         /\ c.zone \notin Alive(c) => d = c
<1> USE CmType, ZoneFacts
<1>1. CASE c.zone \notin Alive(c)
  BY <1>1 DEF cm_VerifyPassword
<1>2. CASE c.zone \in Alive(c)
  <2> DEFINE n == IF Accepts(c, pw) THEN MaxAttempts ELSE c.pac[c.zone] - 1
             q == [c.pac EXCEPT ![c.zone] = n]
  <2>1. n \in 0 .. MaxAttempts
    <3>1. c.pac[c.zone] \in Nat /\ c.pac[c.zone] # 0 /\ c.pac[c.zone] <= MaxAttempts
      BY <1>2
    <3> QED
      BY <3>1
  <2>2. d = [c EXCEPT !.pac = q]
    <3>1. d = [c EXCEPT !.pac[c.zone] = IF Accepts(c, pw) THEN MaxAttempts ELSE @ - 1]
      BY <1>2 DEF cm_VerifyPassword
    <3> QED
      BY <3>1
  <2> HIDE DEF n
  <2>3. q \in [Zones -> 0 .. MaxAttempts]
    BY <2>1
  <2>4. q[c.zone] = n /\ \A z \in Zones : z # c.zone => q[z] = c.pac[z]
    BY <1>2
  <2> HIDE DEF q
  <2>5. /\ d \in CryptoMems /\ d.pac = q /\ d.pw = c.pw /\ d.key = c.key
        /\ d.state = c.state /\ d.zone = c.zone
    BY <2>2, <2>3 DEF CryptoMems
  <2>6. Zoned(d)
    BY <2>4, <2>5 DEF Zoned, IsFresh
  <2> QED
    BY <1>2, <2>4, <2>5, <2>6 DEF n
<1> QED
  BY <1>1, <1>2

\* What cm_open_zone does: nothing if the zone is open, and else the right
\* password opens the zone in use and a wrong one costs one attempt.
Opened(c, d, pw) ==
  /\ ChipInv(d) /\ d.pw = c.pw /\ d.key = c.key
  /\ IsOpen(c) => d = c
  /\ ~IsOpen(c) =>
       /\ c.zone # NoZone => d.zone = c.zone
       /\ c.zone = NoZone => \/ d.zone = NoZone /\ Alive(c) = {}
                             \/ d.zone \in Alive(c) /\ IsFresh(c, d.zone)
       /\ IsOpen(d) <=> d.zone \in Alive(c) /\ c.pw[d.zone] = pw
       /\ \A z \in Zones : z # d.zone => d.pac[z] = c.pac[z]
       /\ d.zone \in Alive(c) /\ ~IsOpen(d) => d.pac[d.zone] = c.pac[d.zone] - 1
       /\ d.zone \in Zones \ Alive(c) => d.pac[d.zone] = 0

LEMMA OpenZone ==
  ASSUME NEW c, ChipInv(c), NEW pw, NEW d, d = cm_open_zone(c, pw)
  PROVE  Opened(c, d, pw)
<1> DEFINE a == cm_activate_security(c)
           v == cm_VerifyPassword(a, pw)
<1>0. c \in CryptoMems /\ Zoned(c) /\ c.state # "AUTHENTICATED"
  BY DEF ChipInv
<1>1. /\ a \in CryptoMems /\ Zoned(a) /\ SameData(c, a)
      /\ c.zone # NoZone => a.zone = c.zone
      /\ c.zone = NoZone => \/ a.zone = NoZone /\ Alive(c) = {}
                            \/ a.zone \in Alive(c) /\ IsFresh(c, a.zone)
      /\ c.state \notin {"AUTHENTICATED", "PW_ENTERED"} =>
           a.state = IF a.zone = NoZone THEN c.state ELSE "AUTHENTICATED"
  BY <1>0, Activate
<1> HIDE DEF a
<1>2. /\ v \in CryptoMems /\ Zoned(v) /\ v.pw = a.pw /\ v.key = a.key
      /\ v.state = a.state /\ v.zone = a.zone
      /\ \A z \in Zones : z # a.zone => v.pac[z] = a.pac[z]
      /\ a.zone \in Alive(a) =>
           v.pac[a.zone] = IF Accepts(a, pw) THEN MaxAttempts ELSE a.pac[a.zone] - 1
      /\ a.zone \notin Alive(a) => v = a
  BY <1>1, Verify
<1>3. Alive(a) = Alive(c) /\ a.pac = c.pac /\ a.pw = c.pw /\ a.key = c.key
  BY <1>1 DEF SameData, Alive
<1>4. CASE IsOpen(c)
  <2>1. d = c
    BY <1>4 DEF cm_open_zone
  <2> QED
    BY <1>4, <2>1 DEF Opened
<1>5. CASE ~IsOpen(c) /\ a.state # "AUTHENTICATED"
  <2>1. d = a
    BY <1>5 DEF cm_open_zone, a
  <2>2. a.zone = NoZone /\ a.state = c.state /\ ~IsOpen(a) /\ c.zone = NoZone
    BY <1>0, <1>1, <1>5, ZoneFacts DEF IsOpen
  <2>3. ChipInv(a)
    BY <1>0, <1>1, <1>3, <2>2, ZoneFacts, CmType DEF ChipInv
  <2>4. NoZone \notin Alive(c)
    BY ZoneFacts, CmType, <1>0
  <2> QED
    BY <1>1, <1>3, <1>5, <2>1, <2>2, <2>3, <2>4, ZoneFacts DEF Opened
<1>6. CASE ~IsOpen(c) /\ a.state = "AUTHENTICATED"
  <2> DEFINE st == IF Accepts(a, pw) THEN "PW_ENTERED"
                   ELSE IF v.pac[v.zone] = 0 THEN "ZONE_LOCKED" ELSE "IDLE"
  <2>1. d = [v EXCEPT !.state = st]
    BY <1>6 DEF cm_open_zone, a
  <2>2. a.zone \in Zones
    BY <1>0, <1>1, <1>6, CmType DEF IsOpen
  <2>3. st \in CmStates /\ st # "AUTHENTICATED"
    BY DEF CmStates
  <2>4. (st = "PW_ENTERED" <=> Accepts(a, pw)) /\ (st = "ZONE_LOCKED" => v.pac[v.zone] = 0)
    OBVIOUS
  <2> HIDE DEF v, st
  <2>5. /\ d \in CryptoMems /\ d.pac = v.pac /\ d.pw = v.pw /\ d.key = v.key
        /\ d.zone = v.zone /\ d.state = st
    BY <1>2, <2>1, <2>3 DEF CryptoMems
  <2>6. IsOpen(d) <=> a.zone \in Alive(c) /\ c.pw[a.zone] = pw
    BY <1>3, <2>4, <2>5 DEF IsOpen, Accepts
  <2>7. a.zone \in Alive(c) => d.pac[a.zone] = IF IsOpen(d) THEN MaxAttempts ELSE c.pac[a.zone] - 1
    BY <1>2, <1>3, <2>4, <2>5 DEF IsOpen
  <2>8. a.zone \notin Alive(c) => d.pac[a.zone] = 0
    BY <1>0, <1>2, <1>3, <2>2, <2>5, CmType
  <2>9. Zoned(d)
    BY <1>2, <2>5 DEF Zoned, IsFresh
  <2>10. d.state = "ZONE_LOCKED" => d.zone \notin Alive(d)
    BY <1>2, <2>4, <2>5, CmType
  <2>11. ChipInv(d)
    BY <1>2, <2>2, <2>3, <2>5, <2>6, <2>7, <2>9, <2>10 DEF ChipInv
  <2>12. \A z \in Zones : z # d.zone => d.pac[z] = c.pac[z]
    BY <1>2, <1>3, <2>5
  <2> QED
    BY <1>1, <1>2, <1>3, <1>6, <2>2, <2>5, <2>6, <2>7, <2>8, <2>11, <2>12 DEF Opened
<1> QED
  BY <1>4, <1>5, <1>6

\* What sending the default password does to the zone in use: it opens, or it
\* dies and the next one opens, unless none is left.
DefaultSent(c, d) ==
  /\ ChipInv(d) /\ d.pw = c.pw /\ d.key = c.key
  /\ Alive(d) \subseteq Alive(c)
  /\ IsOpen(d) \/ (Alive(d) = {} /\ d.zone = NoZone)
  /\ IsOpen(d) => c.pw[d.zone] = DefaultPW
  /\ c.zone \in Alive(c) /\ c.pw[c.zone] = DefaultPW =>
       d.zone = c.zone /\ IsOpen(d) /\ Alive(d) = Alive(c)
  /\ c.zone \in Alive(c) /\ c.pw[c.zone] # DefaultPW => c.zone \notin Alive(d)
  /\ c.zone \notin Alive(c) => Alive(d) = Alive(c)

LEMMA SendDefault ==
  ASSUME NEW c \in CryptoMems, Zoned(c), NEW d, d = cm_send_default_PW(c)
  PROVE  DefaultSent(c, d)
<1> USE CmType, ZoneFacts
<1>1. CASE Accepts(c, DefaultPW)
  <2> DEFINE v == cm_VerifyPassword(c, DefaultPW)
  <2>1. c.zone \in Alive(c) /\ c.pw[c.zone] = DefaultPW
    BY <1>1 DEF Accepts
  <2>2. /\ v \in CryptoMems /\ Zoned(v) /\ v.pw = c.pw /\ v.key = c.key /\ v.zone = c.zone
        /\ \A z \in Zones : z # c.zone => v.pac[z] = c.pac[z]
        /\ v.pac[c.zone] = MaxAttempts
    BY <1>1, <2>1, Verify
  <2>3. d = [v EXCEPT !.state = "PW_ENTERED"]
    BY <1>1 DEF cm_send_default_PW
  <2> HIDE DEF v
  <2>4. /\ d \in CryptoMems /\ d.pac = v.pac /\ d.pw = v.pw /\ d.key = v.key
        /\ d.zone = v.zone /\ IsOpen(d) /\ d.state = "PW_ENTERED"
    BY <2>2, <2>3 DEF CryptoMems, CmStates, IsOpen
  <2>5. Zoned(d)
    BY <2>2, <2>4 DEF Zoned, IsFresh
  <2>6. ChipInv(d)
    BY <2>1, <2>2, <2>4, <2>5 DEF ChipInv
  <2>7. \A z \in Zones : d.pac[z] > 0 <=> c.pac[z] > 0
    BY <2>1, <2>2, <2>4
  <2>8. Alive(d) = Alive(c)
    BY <2>7 DEF Alive
  <2>9. d.pw = c.pw /\ d.key = c.key /\ d.zone = c.zone /\ IsOpen(d)
    BY <2>2, <2>4
  <2> HIDE DEF IsOpen, Alive
  <2> QED
    BY ONLY <2>1, <2>6, <2>8, <2>9 DEF DefaultSent
<1>2. CASE ~Accepts(c, DefaultPW)
  <2> DEFINE q == [z \in Zones |-> IF z = c.zone THEN 0 ELSE c.pac[z]]
             k == [c EXCEPT !.pac = q, !.zone = NoZone, !.state = "IDLE"]
             n == cm_activate_security(k)
             v == cm_VerifyPassword(n, DefaultPW)
             st == IF Accepts(n, DefaultPW) THEN "PW_ENTERED" ELSE "ZONE_LOCKED"
  <2>1. d = [v EXCEPT !.state = st]
    BY <1>2 DEF cm_send_default_PW
  <2>2. q \in [Zones -> 0 .. MaxAttempts]
    <3>1. ASSUME NEW z \in Zones PROVE (IF z = c.zone THEN 0 ELSE c.pac[z]) \in 0 .. MaxAttempts
      <4>1. c.pac[z] \in 0 .. MaxAttempts /\ 0 \in 0 .. MaxAttempts
        <5>1. c.pac \in [Zones -> 0 .. MaxAttempts]
          BY CmType
        <5> QED
          BY <5>1
      <4> QED
        BY <4>1
    <3> QED
      BY <3>1
  <2>3. \A z \in Zones : q[z] = IF z = c.zone THEN 0 ELSE c.pac[z]
    OBVIOUS
  <2> HIDE DEF q
  <2>4. /\ k \in CryptoMems /\ k.pac = q /\ k.pw = c.pw /\ k.key = c.key
        /\ k.zone = NoZone /\ k.state = "IDLE"
    BY <2>2 DEF CryptoMems, CmStates
  <2>5. Zoned(k)
    BY <2>3, <2>4 DEF Zoned, IsFresh
  <2> HIDE DEF k
  <2>6. /\ n \in CryptoMems /\ Zoned(n) /\ SameData(k, n)
        /\ \/ n.zone = NoZone /\ Alive(k) = {}
           \/ n.zone \in Alive(k) /\ IsFresh(k, n.zone)
    BY <2>4, <2>5, Activate
  <2> HIDE DEF n
  <2>7. /\ v \in CryptoMems /\ Zoned(v) /\ v.pw = n.pw /\ v.key = n.key /\ v.zone = n.zone
        /\ \A z \in Zones : z # n.zone => v.pac[z] = n.pac[z]
        /\ n.zone \in Alive(n) =>
             v.pac[n.zone] = IF Accepts(n, DefaultPW) THEN MaxAttempts ELSE n.pac[n.zone] - 1
        /\ n.zone \notin Alive(n) => v = n
    BY <2>6, Verify
  <2> HIDE DEF v
  <2>8. Alive(n) = Alive(k) /\ n.pac = q /\ n.pw = c.pw /\ n.key = c.key
    BY <2>4, <2>6 DEF SameData, Alive
  <2>9. Alive(k) = Alive(c) \ {c.zone}
    BY <2>3, <2>4 DEF Alive
  <2>10. st \in CmStates /\ st # "AUTHENTICATED"
         /\ (st = "PW_ENTERED" <=> Accepts(n, DefaultPW))
    BY DEF CmStates
  <2>11. Accepts(n, DefaultPW) <=> Alive(k) # {}
    BY <2>4, <2>6, <2>8 DEF Accepts, IsFresh
  <2>12. Alive(v) = Alive(k)
    <3>1. \A z \in Zones : v.pac[z] > 0 <=> n.pac[z] > 0
      <4>1. CASE n.zone = NoZone /\ Alive(k) = {}
        BY <2>7, <2>8, <4>1
      <4>2. CASE n.zone \in Alive(k)
        <5>1. n.zone \in Alive(n) /\ v.pac[n.zone] = MaxAttempts
          BY <2>7, <2>8, <2>11, <4>2
        <5>2. n.pac[n.zone] > 0
          BY <5>1 DEF Alive
        <5> QED
          BY <2>7, <5>1, <5>2
      <4> QED
        BY <2>6, <4>1, <4>2
    <3> QED
      BY <2>8, <3>1 DEF Alive
  <2> HIDE DEF st
  <2>13. /\ d \in CryptoMems /\ d.pac = v.pac /\ d.pw = v.pw /\ d.key = v.key
         /\ d.zone = v.zone /\ d.state = st
    BY <2>1, <2>7, <2>10 DEF CryptoMems
  <2>14. Alive(d) = Alive(k)
    BY <2>12, <2>13 DEF Alive
  <2>15. IsOpen(d) <=> Alive(k) # {}
    BY <2>10, <2>11, <2>13 DEF IsOpen
  <2> HIDE DEF IsOpen, Alive
  <2>16. IsOpen(d) => d.zone \in Zones /\ d.pac[d.zone] = MaxAttempts /\ d.pw[d.zone] = DefaultPW
    BY <2>4, <2>6, <2>7, <2>8, <2>11, <2>13, <2>15 DEF IsFresh
  <2>17. Zoned(d)
    BY <2>7, <2>13 DEF Zoned, IsFresh
  <2>18. d.state = "ZONE_LOCKED" => d.zone \notin Alive(d)
    BY <2>10, <2>11, <2>13, <2>14
  <2>19. ChipInv(d)
    BY <2>10, <2>13, <2>16, <2>17, <2>18 DEF ChipInv
  <2>20. ~(c.zone \in Alive(c) /\ c.pw[c.zone] = DefaultPW)
    BY <1>2 DEF Accepts
  <2>21. d.pw = c.pw /\ d.key = c.key
    BY <2>7, <2>8, <2>13
  <2>22. /\ Alive(d) = Alive(c) \ {c.zone}
         /\ IsOpen(d) \/ (Alive(d) = {} /\ d.zone = NoZone)
    <3>1. Alive(k) = {} => d.zone = NoZone
      BY <2>6, <2>7, <2>13
    <3> QED
      BY <2>9, <2>14, <2>15, <3>1
  <2>23. c.zone \notin Alive(c) => Alive(d) = Alive(c)
    BY <2>22
  <2>24. IsOpen(d) => c.pw[d.zone] = DefaultPW
    BY <2>16, <2>21
  <2> QED
    BY <2>19, <2>20, <2>21, <2>22, <2>23, <2>24 DEF DefaultSent
<1> QED
  BY <1>1, <1>2

\* The same behind cm_activate_security: an open zone stays as it is.
Defaulted(c, d) == (IsOpen(c) => d = c) /\ (~IsOpen(c) => DefaultSent(c, d))

LEMMA ActivateAndSend ==
  ASSUME NEW c, ChipInv(c), ~IsOpen(c), NEW a, a = cm_activate_security(c)
  PROVE  /\ a.state = "AUTHENTICATED" => DefaultSent(c, cm_send_default_PW(a))
         /\ a.state # "AUTHENTICATED" => DefaultSent(c, a) /\ ~IsOpen(a) /\ a.state = c.state
<1> USE CmType, ZoneFacts
<1>1. c \in CryptoMems /\ Zoned(c) /\ c.state \notin {"AUTHENTICATED", "PW_ENTERED"}
  BY DEF ChipInv, IsOpen
<1>2. /\ a \in CryptoMems /\ Zoned(a) /\ SameData(c, a)
      /\ c.zone # NoZone => a.zone = c.zone
      /\ c.zone = NoZone => \/ a.zone = NoZone /\ Alive(c) = {}
                            \/ a.zone \in Alive(c) /\ IsFresh(c, a.zone)
      /\ a.state = IF a.zone = NoZone THEN c.state ELSE "AUTHENTICATED"
  BY <1>1, Activate
<1>3. Alive(a) = Alive(c) /\ a.pac = c.pac /\ a.pw = c.pw /\ a.key = c.key
  BY <1>2 DEF SameData, Alive
<1>4. CASE a.state = "AUTHENTICATED"
  <2> DEFINE d == cm_send_default_PW(a)
  <2>1. DefaultSent(a, d)
    BY <1>2, SendDefault
  <2> HIDE DEF d
  <2>2. c.zone \in Alive(c) => a.zone = c.zone
    BY <1>1, <1>2
  <2>3. c.zone \notin Alive(c) => a.zone \notin Alive(a) \/ a.pw[a.zone] = DefaultPW
    BY <1>2, <1>3 DEF IsFresh
  <2>4. DefaultSent(c, d)
    BY <1>3, <2>1, <2>2, <2>3 DEF DefaultSent
  <2> QED
    BY <1>4, <2>4 DEF d
<1>5. CASE a.state # "AUTHENTICATED"
  <2>1. a.zone = NoZone /\ a.state = c.state /\ c.zone = NoZone /\ Alive(c) = {}
    BY <1>1, <1>2, <1>5
  <2>2. ChipInv(a) /\ ~IsOpen(a)
    BY <1>1, <1>2, <1>3, <2>1 DEF ChipInv, IsOpen
  <2> QED
    BY <1>3, <1>5, <2>1, <2>2 DEF DefaultSent
<1> QED
  BY <1>4, <1>5

LEMMA Defaulting ==
  ASSUME NEW c, ChipInv(c), NEW d, d = OpenByDefault(c)
  PROVE  Defaulted(c, d)
<1> DEFINE a == IF c.state = "IDLE" THEN cm_activate_security(c) ELSE c
<1>1. d = IF IsOpen(c) \/ a.state = "IDLE" THEN a ELSE cm_send_default_PW(a)
  BY DEF OpenByDefault
<1>2. c \in CryptoMems /\ Zoned(c) /\ c.state # "AUTHENTICATED"
  BY DEF ChipInv
<1>3. CASE IsOpen(c)
  BY <1>1, <1>3 DEF Defaulted, IsOpen
<1>4. CASE c.state = "IDLE"
  <2>1. ~IsOpen(c)
    BY <1>4 DEF IsOpen
  <2> DEFINE b == cm_activate_security(c)
  <2>2. /\ b.state = "AUTHENTICATED" => DefaultSent(c, cm_send_default_PW(b))
        /\ b.state # "AUTHENTICATED" => DefaultSent(c, b) /\ b.state = c.state
    BY <2>1, ActivateAndSend
  <2>3. a = b
    BY <1>4
  <2> HIDE DEF a, b
  <2> QED
    BY <1>1, <1>4, <2>1, <2>2, <2>3 DEF Defaulted
<1>5. CASE c.state \notin {"IDLE", "PW_ENTERED"}
  <2>1. a = c /\ ~IsOpen(c) /\ a.state # "IDLE"
    BY <1>5 DEF IsOpen
  <2> HIDE DEF a
  <2>2. d = cm_send_default_PW(c)
    BY <1>1, <2>1
  <2> QED
    BY <1>2, <2>1, <2>2, SendDefault DEF Defaulted
<1> QED
  BY <1>3, <1>4, <1>5 DEF IsOpen

LEMMA Deactivate ==
  ASSUME NEW c, ChipInv(c), NEW d, d = cm_deactivate_security(c)
  PROVE  ChipInv(d) /\ SameData(c, d) /\ d.zone = c.zone /\ d.state = "IDLE" /\ ~IsOpen(d)
<1>1. c \in CryptoMems /\ Zoned(c)
  BY DEF ChipInv
<1>2. d = [c EXCEPT !.state = "IDLE"]
  BY DEF cm_deactivate_security
<1>3. /\ d \in CryptoMems /\ d.pac = c.pac /\ d.pw = c.pw /\ d.key = c.key
      /\ d.zone = c.zone /\ d.state = "IDLE"
  BY <1>1, <1>2 DEF CryptoMems, CmStates
<1>4. Zoned(d)
  BY <1>1, <1>3 DEF Zoned, IsFresh
<1> QED
  BY <1>3, <1>4 DEF ChipInv, IsOpen, SameData

\* What no call that needs an open zone does to the zones: an open zone, or one
\* with the default password, stays in use; a closed one with a PIN dies.
Kept(c, e) ==
  /\ ChipInv(e) /\ Alive(e) \subseteq Alive(c)
  /\ IsOpen(c) => e.pac = c.pac
  /\ c.zone \in Alive(c) /\ (IsOpen(c) \/ c.pw[c.zone] = DefaultPW) =>
       e.zone = c.zone /\ Alive(e) = Alive(c)
  /\ c.zone \in Alive(c) /\ ~IsOpen(c) /\ c.pw[c.zone] # DefaultPW => c.zone \notin Alive(e)
  /\ c.zone \notin Alive(c) => Alive(e) = Alive(c)

\* An open zone after a write to its password or key.
LEMMA Written ==
  ASSUME NEW c, ChipInv(c), NEW d, Defaulted(c, d), IsOpen(d),
         NEW e \in CryptoMems, e.pac = d.pac, e.zone = d.zone,
         e.state \in {"PW_ENTERED", "IDLE"},
         \A z \in Zones : z # d.zone => e.pw[z] = d.pw[z] /\ e.key[z] = d.key[z]
  PROVE  Kept(c, e) /\ e.zone \in Alive(e)
<1>1. ChipInv(d) /\ d.zone \in Zones /\ d.pac[d.zone] = MaxAttempts
  BY DEF Defaulted, DefaultSent, ChipInv
<1>2. Alive(e) = Alive(d)
  BY DEF Alive
<1>3. Zoned(e)
  <2>1. Zoned(d)
    BY <1>1 DEF ChipInv
  <2> QED
    BY <2>1 DEF Zoned, IsFresh
<1>4. ChipInv(e)
  BY <1>1, <1>3 DEF ChipInv, IsOpen
<1>5. d.zone \in Alive(d)
  BY <1>1, ZoneFacts DEF Alive
<1> HIDE DEF IsOpen
<1>6. CASE IsOpen(c)
  BY <1>2, <1>4, <1>5, <1>6 DEF Kept, Defaulted
<1>7. CASE ~IsOpen(c)
  BY <1>2, <1>4, <1>5, <1>7 DEF Kept, Defaulted, DefaultSent
<1> QED
  BY <1>6, <1>7

LEMMA NotWritten ==
  ASSUME NEW c, ChipInv(c), NEW d, Defaulted(c, d), ~IsOpen(d)
  PROVE  Kept(c, d) /\ Alive(d) = {} /\ d.zone = NoZone
BY DEF Kept, Defaulted, DefaultSent

\* cm_set_PIN: the zone in use afterwards has the new password.
LEMMA SetPin ==
  ASSUME NEW c, ChipInv(c), NEW pw \in Passwords, NEW e, e = cm_set_PIN(c, pw)
  PROVE  /\ Kept(c, e) /\ e.key = c.key
         /\ \/ IsOpen(e) /\ e.zone \in Alive(e) /\ e.pw[e.zone] = pw
            \/ ~IsOpen(e) /\ Alive(e) = {} /\ e.zone = NoZone /\ e.pw = c.pw
<1> DEFINE d == OpenByDefault(c)
<1>1. Defaulted(c, d)
  BY Defaulting
<1>2. e = IF IsOpen(d) THEN [d EXCEPT !.pw[d.zone] = pw] ELSE d
  BY DEF cm_set_PIN
<1> HIDE DEF d
<1>3. d \in CryptoMems /\ d.key = c.key /\ d.pw = c.pw
  BY <1>1 DEF Defaulted, DefaultSent, ChipInv
<1>4. CASE ~IsOpen(d)
  BY <1>1, <1>2, <1>3, <1>4, NotWritten
<1>5. CASE IsOpen(d)
  <2> DEFINE q == [d.pw EXCEPT ![d.zone] = pw]
  <2>1. d.zone \in Zones
    BY <1>1, <1>5 DEF Defaulted, DefaultSent, ChipInv
  <2>2. /\ q \in [Zones -> Passwords] /\ q[d.zone] = pw
        /\ \A z \in Zones : z # d.zone => q[z] = d.pw[z]
    BY <1>3, <2>1, CmType
  <2>3. e = [d EXCEPT !.pw = q]
    BY <1>2, <1>5
  <2> HIDE DEF q
  <2>4. /\ e \in CryptoMems /\ e.pac = d.pac /\ e.pw = q /\ e.key = d.key
        /\ e.zone = d.zone /\ e.state = d.state
    BY <1>3, <2>2, <2>3 DEF CryptoMems
  <2>5. e.state = "PW_ENTERED" /\ IsOpen(e)
    BY <1>5, <2>4 DEF IsOpen
  <2>6. Kept(c, e) /\ e.zone \in Alive(e)
    BY <1>1, <1>5, <2>2, <2>4, <2>5, Written
  <2>7. e.key = c.key /\ e.pw[e.zone] = pw
    BY <1>3, <2>2, <2>4
  <2> HIDE DEF IsOpen, Alive
  <2> QED
    BY ONLY <2>5, <2>6, <2>7
<1> QED
  BY <1>4, <1>5

\* cm_initialize_new_zone: the zone in use afterwards has the new key.
LEMMA NewZone ==
  ASSUME NEW c, ChipInv(c), NEW k \in Keys, NEW e, e = cm_initialize_new_zone(c, k)
  PROVE  /\ Kept(c, e) /\ e.pw = c.pw
         /\ \/ IsOpen(e) /\ e.zone \in Alive(e) /\ e.key[e.zone] = k
               /\ (~IsOpen(c) => e.pw[e.zone] = DefaultPW)
            \/ ~IsOpen(e) /\ Alive(e) = {} /\ e.zone = NoZone /\ e.key = c.key
<1> DEFINE a == cm_activate_security(c)
           d == IF a.state = "AUTHENTICATED" THEN cm_send_default_PW(a) ELSE a
<1>1. Defaulted(c, d)
  <2>1. CASE IsOpen(c)
    <3>1. c \in CryptoMems /\ c.zone \in Zones
      BY <2>1 DEF ChipInv
    <3>2. cm_get_zone_index(c) = c
      BY <3>1, ZoneFacts DEF cm_get_zone_index
    <3>3. a = c /\ a.state # "AUTHENTICATED"
      BY <2>1, <3>2 DEF cm_activate_security, IsOpen
    <3> QED
      BY <2>1, <3>3 DEF Defaulted
  <2>2. CASE ~IsOpen(c)
    <3>1. /\ a.state = "AUTHENTICATED" => DefaultSent(c, cm_send_default_PW(a))
          /\ a.state # "AUTHENTICATED" => DefaultSent(c, a)
      BY <2>2, ActivateAndSend
    <3> HIDE DEF a
    <3> QED
      BY <2>2, <3>1 DEF Defaulted
  <2> QED
    BY <2>1, <2>2
<1>2. e = IF IsOpen(d) THEN [d EXCEPT !.key[d.zone] = k] ELSE d
  BY DEF cm_initialize_new_zone
<1> HIDE DEF d
<1>3. d \in CryptoMems /\ d.key = c.key /\ d.pw = c.pw
  BY <1>1 DEF Defaulted, DefaultSent, ChipInv
<1>4. CASE ~IsOpen(d)
  BY <1>1, <1>2, <1>3, <1>4, NotWritten
<1>5. CASE IsOpen(d)
  <2> DEFINE q == [d.key EXCEPT ![d.zone] = k]
  <2>1. d.zone \in Zones
    BY <1>1, <1>5 DEF Defaulted, DefaultSent, ChipInv
  <2>2. /\ q \in [Zones -> Keys] /\ q[d.zone] = k
        /\ \A z \in Zones : z # d.zone => q[z] = d.key[z]
    BY <1>3, <2>1, CmType
  <2>3. e = [d EXCEPT !.key = q]
    BY <1>2, <1>5
  <2> HIDE DEF q
  <2>4. /\ e \in CryptoMems /\ e.pac = d.pac /\ e.key = q /\ e.pw = d.pw
        /\ e.zone = d.zone /\ e.state = d.state
    BY <1>3, <2>2, <2>3 DEF CryptoMems
  <2>5. e.state = "PW_ENTERED" /\ IsOpen(e)
    BY <1>5, <2>4 DEF IsOpen
  <2>6. Kept(c, e) /\ e.zone \in Alive(e)
    BY <1>1, <1>5, <2>2, <2>4, <2>5, Written
  <2>7. ~IsOpen(c) => d.pw[d.zone] = DefaultPW
    BY <1>1, <1>3, <1>5 DEF Defaulted, DefaultSent
  <2> QED
    BY <1>3, <2>2, <2>4, <2>5, <2>6, <2>7
<1> QED
  BY <1>4, <1>5

\* cm_wipe_zone: no zone that still lives holds a key or a PIN.
LEMMA WipeZone ==
  ASSUME NEW c, ChipInv(c), NEW e, e = cm_wipe_zone(c)
  PROVE  /\ Kept(c, e) /\ ~IsOpen(e)
         /\ \A z \in Alive(e) : IsFresh(e, z)
         /\ e.zone \in Alive(e) \/ e.zone = NoZone
<1> DEFINE d == OpenByDefault(c)
<1>1. Defaulted(c, d)
  BY Defaulting
<1>2. CASE c.state = "ZONE_LOCKED"
  <2>1. c \in CryptoMems /\ Zoned(c) /\ ~IsOpen(c) /\ c.zone \notin Alive(c)
    BY <1>2 DEF ChipInv, IsOpen
  <2>2. e = [c EXCEPT !.state = "IDLE", !.zone = NoZone]
    BY <1>2 DEF cm_wipe_zone
  <2>3. /\ e \in CryptoMems /\ e.pac = c.pac /\ e.pw = c.pw /\ e.key = c.key
        /\ e.zone = NoZone /\ e.state = "IDLE"
    BY <2>1, <2>2 DEF CryptoMems, CmStates
  <2>4. Alive(e) = Alive(c)
    BY <2>3 DEF Alive
  <2>5. \A z \in Zones : z \in Alive(c) => IsFresh(e, z)
    <3>1. \A z \in Zones : z \in Alive(c) <=> c.pac[z] # 0
      BY <2>1, CmType
    <3> QED
      BY <2>1, <2>3, <3>1 DEF Zoned, IsFresh
  <2>6. Zoned(e)
    <3>1. \A z \in Zones : z \in Alive(e) <=> e.pac[z] # 0
      BY <2>3, CmType
    <3> QED
      BY <2>3, <2>4, <2>5, <3>1, ZoneFacts DEF Zoned
  <2>7. ChipInv(e) /\ ~IsOpen(e)
    BY <2>3, <2>6 DEF ChipInv, IsOpen
  <2>8. Alive(c) \subseteq Zones
    BY <2>1, CmType
  <2> QED
    BY <2>1, <2>3, <2>4, <2>5, <2>7, <2>8 DEF Kept
<1>3. CASE c.state # "ZONE_LOCKED" /\ ~IsOpen(d)
  <2>1. e = d
    BY <1>3 DEF cm_wipe_zone
  <2> HIDE DEF d
  <2> QED
    BY <1>1, <1>3, <2>1, NotWritten
<1>4. CASE c.state # "ZONE_LOCKED" /\ IsOpen(d)
  <2> DEFINE q == [d.key EXCEPT ![d.zone] = NoKey]
             r == [d.pw EXCEPT ![d.zone] = DefaultPW]
  <2>1. e = [d EXCEPT !.key[d.zone] = NoKey, !.pw[d.zone] = DefaultPW, !.state = "IDLE"]
    BY <1>4 DEF cm_wipe_zone
  <2> HIDE DEF d
  <2>2. d \in CryptoMems /\ Zoned(d) /\ d.zone \in Zones /\ d.pac[d.zone] = MaxAttempts
    BY <1>1, <1>4 DEF Defaulted, DefaultSent, ChipInv
  <2>3. /\ q \in [Zones -> Keys] /\ q[d.zone] = NoKey
        /\ \A z \in Zones : z # d.zone => q[z] = d.key[z]
    BY <2>2, CmType, ZoneFacts
  <2>4. /\ r \in [Zones -> Passwords] /\ r[d.zone] = DefaultPW
        /\ \A z \in Zones : z # d.zone => r[z] = d.pw[z]
    BY <2>2, CmType, ZoneFacts
  <2>5. e = [d EXCEPT !.key = q, !.pw = r, !.state = "IDLE"]
    BY <2>1
  <2> HIDE DEF q, r
  <2>6. /\ e \in CryptoMems /\ e.pac = d.pac /\ e.key = q /\ e.pw = r
        /\ e.zone = d.zone /\ e.state = "IDLE" /\ ~IsOpen(e)
    BY <2>2, <2>3, <2>4, <2>5 DEF CryptoMems, CmStates, IsOpen
  <2>7. Kept(c, e) /\ e.zone \in Alive(e)
    BY <1>1, <1>4, <2>3, <2>4, <2>6, Written
  <2>8. IsFresh(e, e.zone)
    BY <2>2, <2>3, <2>4, <2>6 DEF IsFresh
  <2>9. Zoned(e)
    BY <2>7 DEF Kept, ChipInv
  <2>10. \A z \in Alive(e) : IsFresh(e, z)
    <3>1. \A z \in Alive(e) : z \in Zones /\ e.pac[z] # 0
      BY <2>6, CmType
    <3> QED
      BY <2>8, <2>9, <3>1 DEF Zoned
  <2> QED
    BY <2>6, <2>7, <2>10
<1> QED
  BY <1>2, <1>3, <1>4

-----------------------------------------------------------------------------
(* The invariant.                                                          *)

Roms == [saved : BOOLEAN, mnemonic : Keys, node : BOOLEAN, pin : BOOLEAN,
         imported : BOOLEAN, needsBackup : BOOLEAN]

\* Chip c and flash r belong together, with w wrong PINs since the last right one.
Intact(c, r, w) ==
  /\ c.zone = NoZone \/ c.zone \in Alive(c)
  /\ r.mnemonic # NoKey => c.zone \in Alive(c) /\ c.key[c.zone] = r.mnemonic
  /\ r.pin => c.zone \in Alive(c) /\ w + c.pac[c.zone] = MaxAttempts
  /\ c.zone \in Alive(c) => (r.pin <=> c.pw[c.zone] # DefaultPW)

\* No key of a mnemonic that was replaced can still be read.
NoLeak(c, r, u) == \A z \in Alive(c) : c.key[z] \in u => c.key[z] \in {NoKey, r.mnemonic}

\* What is kept without power: w wrong PINs, sp what came between chip and
\* flash, u the keys that were in use and n how many were drawn.
Stored(c, r, w, sp, u, n) ==
  /\ ChipInv(c)
  /\ sp = {} => Intact(c, r, w)
  /\ NoLeak(c, r, u)
  /\ r.pin => r.saved /\ (c.zone # NoZone \/ Alive(c) = {})
  /\ \A k \in u \cup {r.mnemonic} : k <= n

\* What is cached: pc sessionPinCached, s the seed, ul whether the user knows
\* the PIN.
Session(r, pc, s, ul) ==
  /\ r.pin /\ (pc \/ s # NoKey) => ul
  /\ s # NoKey /\ ~r.imported => s = r.mnemonic

VaultInv ==
  /\ TypeOK
  /\ Stored(cm, rom, wrong, spoiled, used, nkeys)
  /\ Session(rom, pinCached, seed, unlocked)

\* The types of all variables but cm.
RestOK ==
  /\ rom \in Roms
  /\ pinCached \in BOOLEAN /\ seed \in Keys \cup {Garbage}
  /\ reset \in [awaiting : BOOLEAN, pin : Deferred, skip : BOOLEAN]
  /\ recovery \in [mode : {"none", "dry", "real"}, pin : Deferred]
  /\ halted \in BOOLEAN
  /\ nkeys \in Keys /\ losses \in 0 .. MaxLosses
  /\ unlocked \in BOOLEAN /\ wrong \in Nat
  /\ spoiled \subseteq {"torn", "overwritten"} /\ used \subseteq Keys

LEMMA TypeSplit == TypeOK <=> cm \in CryptoMems /\ RestOK
BY DEF TypeOK, RestOK, Roms

LEMMA TypeSplitNext == TypeOK' <=> cm' \in CryptoMems /\ RestOK'
BY DEF TypeOK, RestOK, Roms

\* ZonesDieForAReason, for one step.
Reason ==
  Alive(cm') # Alive(cm) =>
    \/ spoiled \cup spoiled' # {}
    \/ wrong = MaxAttempts - 1
    \/ rom' = Erased /\ (losses' > losses \/ (rom.pin /\ ~IsOpen(cm)))

LEMMA PinWords == \A p \in Pins : PinStringToHex(p) \in Passwords
<1>1. PinWord \in [Pins \ {NoPin} -> Passwords]
  BY VaultAssumption
<1> QED
  BY <1>1, ZoneFacts DEF PinStringToHex

\* Without a PIN every zone that lives has the default password.
LEMMA AllDefault ==
  ASSUME NEW c, ChipInv(c), NEW r, NEW w, Intact(c, r, w), ~r.pin
  PROVE  \A z \in Alive(c) : c.pw[z] = DefaultPW
<1>1. c \in CryptoMems /\ Zoned(c)
  BY DEF ChipInv
<1>2. \A z \in Alive(c) : z \in Zones /\ c.pac[z] # 0
  BY <1>1, CmType
<1> QED
  BY <1>1, <1>2 DEF Zoned, Intact, IsFresh

\* An open zone, and every zone of an intact device without a PIN, survives
\* every call of the driver.
LEMMA NothingDies ==
  ASSUME NEW c, ChipInv(c), NEW r, NEW w, Intact(c, r, w), r.pin => IsOpen(c),
         NEW e, Kept(c, e)
  PROVE  Alive(e) = Alive(c) /\ (c.zone \in Alive(c) => e.zone = c.zone)
BY DEF Kept, Intact

\* One call of the driver after another.
LEMMA KeptAgain ==
  ASSUME NEW c, ChipInv(c), NEW d, Kept(c, d), IsOpen(d) \/ Alive(d) = {},
         NEW e, Kept(d, e)
  PROVE  Kept(c, e)
<1>1. IsOpen(d) => d.zone \in Alive(d)
  BY ZoneFacts DEF Kept, ChipInv, Alive
<1>2. IsOpen(c) => c.zone \in Alive(c)
  BY ZoneFacts DEF ChipInv, Alive
<1> HIDE DEF IsOpen
<1>3. CASE IsOpen(d)
  BY <1>1, <1>2, <1>3 DEF Kept
<1>4. CASE Alive(d) = {}
  <2>1. Alive(e) = {}
    BY <1>4 DEF Kept
  <2> QED
    BY <1>2, <1>4, <2>1 DEF Kept
<1> QED
  BY <1>3, <1>4

\* When the chip of an intact device has changed, but no password, no zone and
\* no key of a stored mnemonic, it is still intact.
LEMMA NotTorn ==
  ASSUME NEW c, ChipInv(c), NEW r, NEW w, Intact(c, r, w),
         NEW e, Kept(c, e), Alive(e) = Alive(c), e.pw = c.pw,
         r.mnemonic # NoKey => e.key = c.key,
         e.zone = NoZone \/ e.zone \in Alive(e)
  PROVE  Intact(e, r, w)
<1>1. CASE c.zone \in Alive(c)
  <2>1. IsOpen(c) \/ c.pw[c.zone] = DefaultPW
    BY <1>1 DEF Kept
  <2>2. e.zone = c.zone
    BY <1>1, <2>1 DEF Kept
  <2>3. r.pin => e.pac = c.pac
    BY <1>1, <2>1 DEF Kept, Intact
  <2> QED
    BY <1>1, <2>2, <2>3 DEF Intact
<1>2. CASE c.zone = NoZone
  <2>1. ~r.pin /\ r.mnemonic = NoKey
    BY <1>2, ZoneFacts DEF Intact, Alive
  <2>2. \A z \in Alive(e) : e.pw[z] = DefaultPW
    BY <2>1, AllDefault
  <2> QED
    BY <2>1, <2>2 DEF Intact
<1> QED
  BY <1>1, <1>2 DEF Intact

\* The same for a wipe that was cut short.
LEMMA WipedNotTorn ==
  ASSUME NEW c, ChipInv(c), NEW r, NEW w, NEW v, Intact(c, r, w),
         NEW e \in CryptoMems, Alive(e) = Alive(c), e.pw = c.pw,
         r.mnemonic # NoKey => e.key = c.key,
         e.zone = NoZone \/ e.zone \in Alive(e), \A z \in Alive(e) : IsFresh(e, z)
  PROVE  Intact(e, r, v)
<1>1. ~r.pin
  BY DEF Intact, IsFresh
<1>2. r.mnemonic = NoKey
  BY DEF Intact, IsFresh
<1> QED
  BY <1>1, <1>2 DEF Intact, IsFresh

\* Opening a zone with the right password, or one that is open.
LEMMA OpenByDefaultPW ==
  ASSUME NEW c, ChipInv(c), NEW e, Opened(c, e, DefaultPW),
         NEW r, NEW w, Intact(c, r, w), ~r.pin
  PROVE  Intact(e, r, w) /\ Alive(e) = Alive(c)
<1> USE ZoneFacts
<1>1. \A z \in Alive(c) : c.pw[z] = DefaultPW
  BY AllDefault
<1>2. CASE IsOpen(c)
  BY <1>2 DEF Opened
<1>3. CASE ~IsOpen(c)
  <2>1. c \in CryptoMems /\ e \in CryptoMems /\ Alive(c) \subseteq Zones /\ Alive(e) \subseteq Zones
    BY CmType DEF Opened, ChipInv
  <2>2. /\ e.pw = c.pw /\ e.key = c.key
        /\ \A z \in Zones : z # e.zone => e.pac[z] = c.pac[z]
        /\ c.zone # NoZone => e.zone = c.zone
        /\ c.zone = NoZone => e.zone = NoZone \/ e.zone \in Alive(c)
        /\ e.zone \in Alive(c) => IsOpen(e)
    BY <1>1, <1>3 DEF Opened
  <2>3. e.zone \in Alive(c) => e.zone \in Zones /\ e.pac[e.zone] = MaxAttempts
    BY <2>2 DEF Opened, ChipInv
  <2>4. e.zone \in Alive(c) \/ e.zone = NoZone
    BY <2>2 DEF Intact
  <2>5. \A z \in Zones : e.pac[z] > 0 <=> c.pac[z] > 0
    BY <2>1, <2>2, <2>3, <2>4 DEF Alive
  <2>6. Alive(e) = Alive(c)
    BY <2>5 DEF Alive
  <2>7. e.zone \in Alive(e) => e.pw[e.zone] = DefaultPW
    BY <1>1, <2>2, <2>6
  <2>8. r.mnemonic # NoKey => e.zone = c.zone
    BY <2>1, <2>2 DEF Intact
  <2> HIDE DEF Alive
  <2> QED
    BY <2>2, <2>4, <2>6, <2>7, <2>8 DEF Intact
<1> QED
  BY <1>2, <1>3

\* What any attempt to open a zone leaves alone.
LEMMA OpenedKeeps ==
  ASSUME NEW c, ChipInv(c), NEW pw, NEW e, Opened(c, e, pw)
  PROVE  /\ ChipInv(e) /\ e.pw = c.pw /\ e.key = c.key /\ Alive(e) \subseteq Alive(c)
         /\ c.zone # NoZone \/ Alive(c) = {} => e.zone # NoZone \/ Alive(e) = {}
<1> USE ZoneFacts
<1>1. c \in CryptoMems /\ e \in CryptoMems
  BY DEF Opened, ChipInv
<1>2. CASE IsOpen(c)
  BY <1>2 DEF Opened
<1>3. CASE ~IsOpen(c)
  <2>1. \A z \in Zones : c.pac[z] = 0 => e.pac[z] = 0
    BY <1>1, <1>3, CmType DEF Opened
  <2>2. Alive(e) \subseteq Alive(c)
    BY <1>1, <2>1, CmType
  <2> QED
    BY <1>3, <2>2 DEF Opened
<1> QED
  BY <1>2, <1>3

-----------------------------------------------------------------------------
(* Power, wiping and PIN checks keep the invariant.                        *)

\* A device that was wiped, or boots without a record.
LEMMA WipedIsStored ==
  ASSUME NEW c, ChipInv(c), NEW u, NEW n, n \in Nat, \A k \in u : k <= n
  PROVE  /\ Stored(WipedChip(c), Erased, 0, {}, u, n)
         /\ Kept(c, cm_wipe_zone(c)) /\ Alive(WipedChip(c)) = Alive(cm_wipe_zone(c))
<1> DEFINE e == cm_wipe_zone(c)
           d == WipedChip(c)
<1>1. /\ Kept(c, e) /\ \A z \in Alive(e) : IsFresh(e, z)
      /\ e.zone \in Alive(e) \/ e.zone = NoZone
  BY WipeZone
<1>2. ChipInv(e)
  BY <1>1 DEF Kept
<1>3. ChipInv(d) /\ SameData(e, d) /\ d.zone = e.zone
  BY <1>2, Deactivate DEF WipedChip
<1> HIDE DEF d, e
<1>4. Alive(d) = Alive(e)
  BY <1>3 DEF SameData, Alive
<1>5. \A z \in Alive(d) : d.pw[z] = DefaultPW /\ d.key[z] = NoKey
  BY <1>1, <1>3, <1>4 DEF SameData, IsFresh
<1>6. Erased.mnemonic = NoKey /\ Erased.pin = FALSE
  BY DEF Erased
<1>7. d.zone \in Alive(d) \/ d.zone = NoZone
  BY <1>1, <1>3, <1>4
<1>8. Intact(d, Erased, 0)
  <2> HIDE DEF Alive, Erased
  <2> QED
    BY <1>5, <1>6, <1>7 DEF Intact
<1>9. NoLeak(d, Erased, u)
  BY <1>5 DEF NoLeak
<1>10. \A k \in u \cup {Erased.mnemonic} : k <= n
  BY <1>6 DEF NoKey
<1> QED
  BY <1>1, <1>3, <1>4, <1>6, <1>8, <1>9, <1>10 DEF Stored, d, e

LEMMA BootKeeps ==
  ASSUME VaultInv, NEW c, ChipInv(c), NEW r \in Roms, NEW w \in Nat,
         Boot(c, r, w), losses' \in 0 .. MaxLosses,
         r.saved => /\ NoLeak(c, r, used)
                    /\ spoiled = {} /\ ~Differs(c) => Intact(c, r, w)
                    /\ \A k \in used \cup {r.mnemonic} : k <= nkeys
  PROVE  VaultInv' /\ (Reason \/ (~r.saved /\ ~(losses' > losses)))
<1> USE ZoneFacts
<1>0. /\ cm \in CryptoMems /\ RestOK /\ Stored(cm, rom, wrong, spoiled, used, nkeys)
      /\ nkeys \in Nat
  BY TypeSplit DEF VaultInv, RestOK
<1>1. /\ pinCached' = FALSE /\ seed' = NoKey /\ unlocked' = FALSE
      /\ reset' = NoReset /\ recovery' = NoRecovery /\ halted' = FALSE
      /\ nkeys' = nkeys /\ used' = used
  BY DEF Boot
<1>2. Session(rom', pinCached', seed', unlocked')
  BY <1>1 DEF Session
<1>3. c \in CryptoMems /\ Zoned(c)
  BY DEF ChipInv
<1>4. /\ NoReset \in [awaiting : BOOLEAN, pin : Deferred, skip : BOOLEAN]
      /\ NoRecovery \in [mode : {"none", "dry", "real"}, pin : Deferred]
      /\ Erased \in Roms
  BY DEF NoReset, NoRecovery, Erased, Roms, Deferred
<1>6. CASE r.saved /\ cm' = cm_init(c)
  <2>1. /\ rom' = r /\ wrong' = w
        /\ spoiled' = IF Differs(c) THEN spoiled \cup {"torn"} ELSE spoiled
    <3>1. Erased \in Roms /\ r.saved
      BY <1>4, <1>6
    <3> QED
      BY <3>1 DEF Boot
  <2>2. /\ ChipInv(cm') /\ SameData(c, cm') /\ Alive(cm') = Alive(c)
        /\ \/ cm'.zone = NoZone /\ Alive(c) = {}
           \/ cm'.zone \in Alive(c) /\ (cm'.zone = c.zone \/ IsFresh(c, cm'.zone))
        /\ c.zone \in Alive(c) => cm'.zone = c.zone
    <3> DEFINE d == cm_init(c)
    <3>1. /\ ChipInv(d) /\ SameData(c, d)
          /\ \/ d.zone = NoZone /\ Alive(c) = {}
             \/ d.zone \in Alive(c) /\ (d.zone = c.zone \/ IsFresh(c, d.zone))
          /\ c.zone \in Alive(c) => d.zone = c.zone
      BY <1>3, CmInit
    <3>2. Alive(d) = Alive(c)
      BY <3>1 DEF SameData, Alive
    <3> HIDE DEF d
    <3>3. cm' = d
      BY <1>6 DEF d
    <3> QED
      BY <3>1, <3>2, <3>3
  <2>3. spoiled' = {} => spoiled = {} /\ ~Differs(c)
    BY <2>1
  <2>4. spoiled' = {} => Intact(cm', r, w)
    <3>1. spoiled' = {} => Intact(c, r, w)
      BY <1>6, <2>3
    <3> HIDE DEF Alive
    <3>2. CASE c.zone \in Alive(c)
      BY <2>2, <3>1, <3>2 DEF Intact, SameData
    <3>3. CASE c.zone \notin Alive(c)
      BY <2>2, <3>1, <3>3 DEF Intact, SameData, IsFresh
    <3> QED
      BY <3>2, <3>3
  <2>5. NoLeak(cm', r, used)
    BY <1>6, <2>2 DEF NoLeak, SameData
  <2>6. Stored(cm', rom', wrong', spoiled', used', nkeys')
    <3>1. cm'.zone # NoZone \/ Alive(cm') = {}
      BY <2>2, <1>3, CmType
    <3>2. \A k \in used' \cup {r.mnemonic} : k <= nkeys'
      BY <1>1, <1>6
    <3> QED
      BY <1>1, <1>6, <2>1, <2>2, <2>4, <2>5, <3>1, <3>2 DEF Stored
  <2>7. TypeOK'
    <3>1. cm' \in CryptoMems
      BY <2>2 DEF ChipInv
    <3> QED
      BY <1>0, <1>1, <1>4, <2>1, <3>1, TypeSplitNext DEF RestOK
  <2>8. Reason
    BY <2>1, <2>2 DEF Reason, Differs
  <2> QED
    BY <1>2, <2>6, <2>7, <2>8 DEF VaultInv
<1>7. CASE ~r.saved \/ cm' # cm_init(c)
  <2>1. ~r.saved /\ cm' = WipedChip(cm_init(c)) /\ rom' = Erased /\ wrong' = 0 /\ spoiled' = {}
    BY <1>7 DEF Boot
  <2> DEFINE d == cm_init(c)
  <2>2. ChipInv(d)
    BY <1>3, CmInit
  <2> HIDE DEF d
  <2>3. Stored(cm', rom', wrong', spoiled', used', nkeys')
    <3>1. \A k \in used : k <= nkeys
      BY <1>0 DEF Stored
    <3>2. Stored(WipedChip(d), Erased, 0, {}, used, nkeys)
      BY <1>0, <2>2, <3>1, WipedIsStored
    <3>3. cm' = WipedChip(d)
      BY <2>1 DEF d
    <3> QED
      BY <1>1, <2>1, <3>2, <3>3
  <2>4. TypeOK'
    <3>1. cm' \in CryptoMems
      BY <2>3 DEF Stored, ChipInv
    <3> QED
      BY <1>0, <1>1, <1>4, <2>1, <3>1, TypeSplitNext DEF RestOK
  <2>5. ~(losses' > losses) \/ Reason
    BY <2>1 DEF Reason
  <2> QED
    BY <1>2, <2>1, <2>3, <2>4, <2>5 DEF VaultInv
<1> QED
  BY <1>6, <1>7

LEMMA CutShortKeeps ==
  ASSUME VaultInv, NEW c, ChipInv(c), NEW r \in Roms, NEW w \in Nat,
         CutShort(c, r, w), NoLeak(c, r, used),
         spoiled = {} /\ ~Differs(c) => Intact(c, r, w),
         \A k \in used \cup {r.mnemonic} : k <= nkeys
  PROVE  VaultInv' /\ Reason
<1>1. losses \in 0 .. MaxLosses /\ MaxLosses \in Nat
  BY VaultAssumption DEF VaultInv, TypeOK
<1>2. losses' \in 0 .. MaxLosses /\ losses' > losses
  BY <1>1 DEF CutShort
<1>3. CASE Boot(c, r, w)
  BY <1>2, <1>3, BootKeeps
<1>4. CASE Boot(c, Erased, w)
  <2>1. Erased \in Roms /\ ~Erased.saved
    BY ZoneFacts DEF Erased, Roms
  <2> HIDE DEF Erased
  <2> QED
    BY <1>2, <1>4, <2>1, BootKeeps
<1> QED
  BY <1>3, <1>4 DEF CutShort

\* Without a PIN, or with the zone open, a wipe costs no zone.
LEMMA WipeKeeps ==
  ASSUME VaultInv, NEW c, ChipInv(c), storage_wipe(c), halted' \in BOOLEAN
  PROVE  /\ VaultInv'
         /\ Alive(cm') = Alive(cm_wipe_zone(c)) /\ Kept(c, cm_wipe_zone(c))
         /\ rom' = Erased
<1>1. RestOK /\ Stored(cm, rom, wrong, spoiled, used, nkeys) /\ nkeys \in Nat
  BY TypeSplit, ZoneFacts DEF VaultInv, RestOK
<1>2. \A k \in used : k <= nkeys
  BY <1>1 DEF Stored
<1>3. /\ Stored(WipedChip(c), Erased, 0, {}, used, nkeys)
      /\ Kept(c, cm_wipe_zone(c)) /\ Alive(WipedChip(c)) = Alive(cm_wipe_zone(c))
  BY <1>1, <1>2, WipedIsStored
<1>4. /\ cm' = WipedChip(c) /\ rom' = Erased /\ wrong' = 0 /\ spoiled' = {}
      /\ pinCached' = FALSE /\ seed' = NoKey /\ unlocked' = FALSE
      /\ reset' = reset /\ recovery' = recovery /\ nkeys' = nkeys
      /\ losses' = losses /\ used' = used
  BY DEF storage_wipe
<1>5. Stored(cm', rom', wrong', spoiled', used', nkeys')
  BY <1>3, <1>4
<1>6. Session(rom', pinCached', seed', unlocked')
  BY <1>4 DEF Session
<1>7. cm' \in CryptoMems
  BY <1>5 DEF Stored, ChipInv
<1>8. Erased \in Roms
  BY ZoneFacts DEF Erased, Roms
<1>9. TypeOK'
  BY <1>1, <1>4, <1>7, <1>8, TypeSplitNext, ZoneFacts DEF RestOK
<1> QED
  BY <1>3, <1>4, <1>5, <1>6, <1>9 DEF VaultInv

LEMMA WipeCutShort ==
  ASSUME VaultInv, NEW c, ChipInv(c), NEW w \in Nat, CutShort(cm_wipe_zone(c), rom, w)
  PROVE  VaultInv' /\ Reason
<1> DEFINE e == cm_wipe_zone(c)
<1>1. /\ Kept(c, e) /\ \A z \in Alive(e) : IsFresh(e, z)
      /\ e.zone \in Alive(e) \/ e.zone = NoZone
  BY WipeZone
<1>2. ChipInv(e) /\ CutShort(e, rom, w)
  BY <1>1 DEF Kept
<1> HIDE DEF e
<1>3. /\ rom \in Roms /\ ChipInv(cm) /\ \A k \in used \cup {rom.mnemonic} : k <= nkeys
      /\ spoiled = {} => Intact(cm, rom, wrong)
  BY TypeSplit DEF VaultInv, RestOK, Stored
<1>4. NoLeak(e, rom, used)
  BY <1>1 DEF NoLeak, IsFresh
<1>5. ASSUME spoiled = {}, ~Differs(e) PROVE Intact(e, rom, w)
  <2>1. /\ Alive(e) = Alive(cm) /\ e.pw = cm.pw /\ (rom.mnemonic # NoKey => e.key = cm.key)
        /\ e \in CryptoMems /\ Intact(cm, rom, wrong)
    BY <1>2, <1>3, <1>5 DEF Differs, ChipInv
  <2> QED
    BY <1>1, <1>3, <2>1, WipedNotTorn
<1> QED
  BY <1>2, <1>3, <1>4, <1>5, CutShortKeeps

\* protectPin, when it returns true.
LEMMA PinCheck ==
  ASSUME VaultInv, NEW b \in BOOLEAN, NEW o, o \in PinPassed(b)
  PROVE  /\ Stored(o.cm, rom, o.wrong, spoiled, used, nkeys)
         /\ o.cm.pw = cm.pw /\ o.cm.key = cm.key
         /\ spoiled = {} => Alive(o.cm) = Alive(cm)
         /\ rom.pin => IsOpen(o.cm) \/ (b /\ o.cm = cm)
         /\ o.cached \in BOOLEAN /\ o.unlocked \in BOOLEAN /\ o.wrong \in Nat
         /\ rom.pin => o.unlocked
<1>1. /\ RestOK /\ cm \in CryptoMems /\ Stored(cm, rom, wrong, spoiled, used, nkeys)
      /\ rom.pin \in BOOLEAN /\ pinCached \in BOOLEAN /\ unlocked \in BOOLEAN /\ wrong \in Nat
      /\ rom.pin /\ pinCached => unlocked
  BY TypeSplit DEF VaultInv, RestOK, Session, Roms
<1>2. /\ ChipInv(cm) /\ (spoiled = {} => Intact(cm, rom, wrong)) /\ NoLeak(cm, rom, used)
      /\ rom.pin => rom.saved /\ (cm.zone # NoZone \/ Alive(cm) = {})
      /\ \A k \in used \cup {rom.mnemonic} : k <= nkeys
  BY <1>1 DEF Stored
<1> DEFINE c == cm_deactivate_security(cm)
<1>3. ChipInv(c) /\ SameData(cm, c) /\ c.zone = cm.zone /\ ~IsOpen(c)
  BY <1>2, Deactivate
<1>4. ASSUME NEW p PROVE Opened(c, storage_containsPin(p), PinStringToHex(p))
  BY <1>3, OpenZone DEF storage_containsPin
<1> HIDE DEF c
<1>5. Alive(c) = Alive(cm) /\ c.pw = cm.pw /\ c.key = cm.key /\ c.pac = cm.pac
  BY <1>3 DEF SameData, Alive
<1>6. CASE ~rom.pin
  <2> DEFINE d == storage_containsPin(NoPin)
  <2>1. Opened(c, d, DefaultPW)
    BY <1>4 DEF PinStringToHex
  <2>2. o = [cm |-> d, cached |-> pinCached \/ IsOpen(d), unlocked |-> unlocked \/ IsOpen(d),
             wrong |-> wrong]
    BY <1>6 DEF PinPassed
  <2> HIDE DEF d
  <2>3. /\ o.cm = d /\ o.wrong = wrong
        /\ o.cached \in BOOLEAN /\ o.unlocked \in BOOLEAN
    BY <2>2
  <2>4. ChipInv(d) /\ d.pw = cm.pw /\ d.key = cm.key /\ Alive(d) \subseteq Alive(cm)
    BY <1>3, <1>5, <2>1, OpenedKeeps
  <2>5. spoiled = {} => Intact(d, rom, wrong) /\ Alive(d) = Alive(cm)
    <3>1. spoiled = {} => Intact(c, rom, wrong)
      <4> HIDE DEF Alive
      <4> QED
        BY <1>2, <1>3, <1>5 DEF Intact
    <3> QED
      BY <1>3, <1>5, <1>6, <2>1, <3>1, OpenByDefaultPW
  <2>6. NoLeak(d, rom, used)
    BY <1>2, <2>4 DEF NoLeak
  <2>7. Stored(d, rom, wrong, spoiled, used, nkeys)
    BY <1>2, <1>6, <2>4, <2>5, <2>6 DEF Stored
  <2> QED
    BY <1>1, <1>6, <2>3, <2>4, <2>5, <2>7
<1>7. CASE rom.pin /\ ~AsksForPin(b)
  <2>1. o = [cm |-> cm, cached |-> TRUE, unlocked |-> unlocked, wrong |-> wrong]
    BY <1>7 DEF PinPassed
  <2>2. b /\ pinCached
    BY <1>7 DEF AsksForPin
  <2>3. o.cm = cm /\ o.cached = TRUE /\ o.unlocked = unlocked /\ o.wrong = wrong
    BY <2>1
  <2>4. unlocked = TRUE
    BY <1>1, <1>7, <2>2
  <2>5. Stored(o.cm, rom, o.wrong, spoiled, used, nkeys)
    BY <1>1, <2>3
  <2> QED
    BY <1>1, <2>2, <2>3, <2>4, <2>5
<1>8. CASE rom.pin /\ AsksForPin(b)
  <2>1. PICK p \in Pins :
          /\ AttemptsLeft /\ IsOpen(storage_containsPin(p))
          /\ o = [cm |-> storage_containsPin(p), cached |-> TRUE,
                  unlocked |-> cm.zone \in Zones /\ PinStringToHex(p) = cm.pw[cm.zone],
                  wrong |-> 0]
    BY <1>8 DEF PinPassed
  <2> DEFINE d == storage_containsPin(p)
             x == PinStringToHex(p)
  <2>2. Opened(c, d, x) /\ IsOpen(d)
    BY <1>4, <2>1
  <2>3. /\ o.cm = d /\ o.wrong = 0 /\ o.cached = TRUE
        /\ o.unlocked = (cm.zone \in Zones /\ x = cm.pw[cm.zone])
    BY <2>1
  <2> HIDE DEF d, x
  <2>4. /\ ChipInv(d) /\ d.pw = cm.pw /\ d.key = cm.key /\ Alive(d) \subseteq Alive(cm)
        /\ d.zone # NoZone \/ Alive(d) = {}
    BY <1>2, <1>3, <1>5, <1>8, <2>2, OpenedKeeps
  <2>5. d.zone \in Alive(cm) /\ cm.pw[d.zone] = x /\ d.pac[d.zone] = MaxAttempts
    BY <1>3, <1>5, <2>2 DEF Opened, ChipInv
  <2>6. d.zone = cm.zone
    BY <1>2, <1>3, <1>8, <2>2, <2>5 DEF Opened
  <2>7. o.unlocked = TRUE
    BY <1>1, <2>3, <2>5, <2>6, CmType
  <2>8. Alive(d) = Alive(cm)
    <3>1. \A z \in Zones : d.pac[z] > 0 <=> cm.pac[z] > 0
      <4> TAKE z \in Zones
      <4>1. CASE z = d.zone
        BY <2>5, <4>1, ZoneFacts DEF Alive
      <4>2. CASE z # d.zone
        BY <1>3, <1>5, <2>2, <4>2 DEF Opened
      <4> QED
        BY <4>1, <4>2
    <3> QED
      BY <3>1 DEF Alive
  <2>9. spoiled = {} => Intact(d, rom, 0)
    <3> HIDE DEF Alive
    <3>1. 0 + MaxAttempts = MaxAttempts
      BY ZoneFacts
    <3> QED
      BY <1>2, <2>4, <2>5, <2>6, <2>8, <3>1 DEF Intact
  <2>10. NoLeak(d, rom, used)
    BY <1>2, <2>4 DEF NoLeak
  <2>11. Stored(d, rom, 0, spoiled, used, nkeys)
    BY <1>2, <2>4, <2>9, <2>10 DEF Stored
  <2>12. Stored(o.cm, rom, o.wrong, spoiled, used, nkeys)
    BY <2>3, <2>11
  <2>13. o.cached \in BOOLEAN /\ o.unlocked \in BOOLEAN /\ o.wrong \in Nat /\ o.unlocked
    <3>1. o.cached = TRUE
      BY ONLY <2>3, Zenon
    <3>2. o.unlocked = TRUE
      BY ONLY <2>7, Zenon
    <3>3. o.cached \in BOOLEAN /\ o.unlocked \in BOOLEAN
      BY ONLY <3>1, <3>2, Zenon
    <3>4. o.wrong \in Nat
      BY ONLY <2>3
    <3>5. o.unlocked
      BY ONLY <3>2, Zenon
    <3> QED
      BY ONLY <3>3, <3>4, <3>5
  <2>14. o.cm.pw = cm.pw /\ o.cm.key = cm.key /\ Alive(o.cm) = Alive(cm) /\ IsOpen(o.cm)
    BY <2>2, <2>3, <2>4, <2>8
  <2> QED
    BY <2>12, <2>13, <2>14
<1> QED
  BY <1>1, <1>6, <1>7, <1>8

-----------------------------------------------------------------------------
(* Handlers that ask for the PIN.                                          *)

\* The facts about the state that the lemmas below use.
LEMMA Here ==
  ASSUME VaultInv
  PROVE  /\ RestOK /\ cm \in CryptoMems /\ rom \in Roms /\ wrong \in Nat /\ nkeys \in Nat
         /\ ChipInv(cm) /\ (spoiled = {} => Intact(cm, rom, wrong)) /\ NoLeak(cm, rom, used)
         /\ rom.pin => rom.saved /\ (cm.zone # NoZone \/ Alive(cm) = {})
         /\ \A k \in used \cup {rom.mnemonic} : k <= nkeys
         /\ Session(rom, pinCached, seed, unlocked)
BY TypeSplit, ZoneFacts DEF VaultInv, RestOK, Stored

\* Settings and flags of the record do not matter for the chip.
SameSecrets(r, q) ==
  q.mnemonic = r.mnemonic /\ q.pin = r.pin /\ q.imported = r.imported /\ (r.saved => q.saved)

LEMMA SettingsDoNotMatter ==
  ASSUME NEW r, NEW q, SameSecrets(r, q)
  PROVE  /\ \A c, w, sp, u, n : Stored(c, r, w, sp, u, n) => Stored(c, q, w, sp, u, n)
         /\ \A pc, x, ul : Session(r, pc, x, ul) => Session(q, pc, x, ul)
BY DEF SameSecrets, Stored, Session, Intact, NoLeak

\* After a passed check the chip may be used further, as c, and the seed cached.
LEMMA PassedTo ==
  ASSUME VaultInv, NEW b \in BOOLEAN, NEW o, o \in PinPassed(b), Passed(o),
         Stored(cm', rom, o.wrong, spoiled, used, nkeys),
         spoiled = {} => Alive(cm') = Alive(cm),
         rom' \in Roms, SameSecrets(rom, rom'),
         seed' \in Keys \cup {Garbage},
         seed' # NoKey /\ ~rom.imported => seed' = rom.mnemonic,
         recovery' \in [mode : {"none", "dry", "real"}, pin : Deferred],
         halted' \in BOOLEAN,
         UNCHANGED <<reset, nkeys, losses, spoiled, used>>
  PROVE  VaultInv' /\ Reason
<1>1. /\ o.cached \in BOOLEAN /\ o.unlocked \in BOOLEAN /\ o.wrong \in Nat
      /\ rom.pin => o.unlocked
  BY PinCheck
<1>2. pinCached' = o.cached /\ unlocked' = o.unlocked /\ wrong' = o.wrong
  BY DEF Passed
<1>3. Stored(cm', rom', wrong', spoiled', used', nkeys')
  <2>1. Stored(cm', rom', o.wrong, spoiled, used, nkeys)
    BY SettingsDoNotMatter
  <2> QED
    BY <1>2, <2>1
<1>4. Session(rom', pinCached', seed', unlocked')
  <2>1. rom.pin => unlocked'
    BY <1>1, <1>2
  <2>2. Session(rom, pinCached', seed', unlocked')
    BY <2>1 DEF Session
  <2> QED
    BY <2>2, SettingsDoNotMatter
<1>5. TypeOK'
  <2>1. cm' \in CryptoMems
    BY <1>3 DEF Stored, ChipInv
  <2>2. pinCached' \in BOOLEAN /\ unlocked' \in BOOLEAN /\ wrong' \in Nat
    BY <1>1, <1>2
  <2>3. RestOK
    BY Here
  <2> QED
    BY <2>1, <2>2, <2>3, TypeSplitNext DEF RestOK
<1>6. Reason
  BY DEF Reason
<1> QED
  BY <1>3, <1>4, <1>5, <1>6 DEF VaultInv

LEMMA PassedKeeps ==
  ASSUME VaultInv, NEW b \in BOOLEAN, NEW o, o \in PinPassed(b), Passed(o), cm' = o.cm,
         rom' \in Roms, SameSecrets(rom, rom'), seed' \in {NoKey, seed},
         recovery' \in [mode : {"none", "dry", "real"}, pin : Deferred],
         UNCHANGED <<reset, halted, nkeys, losses, spoiled, used>>
  PROVE  VaultInv' /\ Reason
<1>1. Stored(cm', rom, o.wrong, spoiled, used, nkeys) /\ (spoiled = {} => Alive(cm') = Alive(cm))
  BY PinCheck
<1>2. seed' \in Keys \cup {Garbage} /\ halted' \in BOOLEAN
  BY Here, ZoneFacts DEF RestOK
<1>3. seed' # NoKey /\ ~rom.imported => seed' = rom.mnemonic
  BY Here DEF Session
<1> QED
  BY <1>1, <1>2, <1>3, PassedTo

LEMMA PassedCutShort ==
  ASSUME VaultInv, NEW b \in BOOLEAN, NEW o, o \in PinPassed(b), CutShort(o.cm, rom, o.wrong)
  PROVE  VaultInv' /\ Reason
<1>1. Stored(o.cm, rom, o.wrong, spoiled, used, nkeys) /\ o.wrong \in Nat
  BY PinCheck
<1>2. /\ ChipInv(o.cm) /\ NoLeak(o.cm, rom, used)
      /\ spoiled = {} => Intact(o.cm, rom, o.wrong)
      /\ \A k \in used \cup {rom.mnemonic} : k <= nkeys
  BY <1>1 DEF Stored
<1> QED
  BY <1>1, <1>2, Here, CutShortKeeps

LEMMA PingKeeps ==
  ASSUME VaultInv, Ping
  PROVE  VaultInv' /\ Reason
<1>0. PICK b \in BOOLEAN : \E o \in PinPassed(b) :
        /\ Passed(o) /\ cm' = o.cm
        /\ UNCHANGED <<rom, seed, reset, recovery, halted, nkeys, losses, spoiled, used>>
  BY DEF Ping
<1>1. PICK o \in PinPassed(b) :
        /\ Passed(o) /\ cm' = o.cm
        /\ UNCHANGED <<rom, seed, reset, recovery, halted, nkeys, losses, spoiled, used>>
  BY <1>0
<1>2. /\ rom' \in Roms /\ SameSecrets(rom, rom') /\ seed' \in {NoKey, seed}
      /\ recovery' \in [mode : {"none", "dry", "real"}, pin : Deferred]
  BY <1>1, Here DEF RestOK, SameSecrets
<1> QED
  BY <1>1, <1>2, PassedKeeps

LEMMA ApplySettingsKeeps ==
  ASSUME VaultInv, ApplySettings
  PROVE  VaultInv' /\ Reason
<1>1. PICK o \in PinPassed(TRUE) :
        \/ /\ Passed(o) /\ cm' = o.cm /\ rom' = Saved(rom)
           /\ seed' \in {NoKey, seed}
           /\ UNCHANGED <<reset, recovery, halted, nkeys, losses, spoiled, used>>
        \/ CutShort(o.cm, rom, o.wrong)
  BY DEF ApplySettings
<1>2. CASE CutShort(o.cm, rom, o.wrong)
  BY <1>1, <1>2, PassedCutShort
<1>3. CASE /\ Passed(o) /\ cm' = o.cm /\ rom' = Saved(rom)
           /\ seed' \in {NoKey, seed}
           /\ UNCHANGED <<reset, recovery, halted, nkeys, losses, spoiled, used>>
  <2>1. /\ rom' \in Roms /\ SameSecrets(rom, rom')
        /\ recovery' \in [mode : {"none", "dry", "real"}, pin : Deferred]
    BY <1>3, Here DEF RestOK, SameSecrets, Saved, Roms
  <2> QED
    BY <1>1, <1>3, <2>1, PassedKeeps
<1> QED
  BY <1>1, <1>2, <1>3

LEMMA BackupDeviceKeeps ==
  ASSUME VaultInv, BackupDevice
  PROVE  VaultInv' /\ Reason
<1>1. PICK o \in PinPassed(FALSE) :
        \/ /\ Passed(o) /\ cm' = o.cm
           /\ rom' = [rom EXCEPT !.needsBackup = FALSE]
           /\ UNCHANGED <<seed, reset, recovery, halted, nkeys, losses, spoiled, used>>
        \/ rom.needsBackup /\ CutShort(o.cm, rom, o.wrong)
  BY DEF BackupDevice
<1>2. CASE CutShort(o.cm, rom, o.wrong)
  BY <1>1, <1>2, PassedCutShort
<1>3. CASE /\ Passed(o) /\ cm' = o.cm
           /\ rom' = [rom EXCEPT !.needsBackup = FALSE]
           /\ UNCHANGED <<seed, reset, recovery, halted, nkeys, losses, spoiled, used>>
  <2>1. /\ rom' \in Roms /\ SameSecrets(rom, rom') /\ seed' \in {NoKey, seed}
        /\ recovery' \in [mode : {"none", "dry", "real"}, pin : Deferred]
    BY <1>3, Here DEF RestOK, SameSecrets, Roms
  <2> QED
    BY <1>1, <1>3, <2>1, PassedKeeps
<1> QED
  BY <1>1, <1>2, <1>3

LEMMA RecoveryDryRunKeeps ==
  ASSUME VaultInv, RecoveryDryRun
  PROVE  VaultInv' /\ Reason
<1>1. PICK o \in PinPassed(TRUE) :
        /\ Passed(o) /\ cm' = o.cm
        /\ recovery' = [mode |-> "dry", pin |-> "none"]
        /\ UNCHANGED <<rom, seed, reset, halted, nkeys, losses, spoiled, used>>
  BY DEF RecoveryDryRun
<1>2. /\ rom' \in Roms /\ SameSecrets(rom, rom') /\ seed' \in {NoKey, seed}
      /\ recovery' \in [mode : {"none", "dry", "real"}, pin : Deferred]
  BY <1>1, Here DEF SameSecrets, Deferred
<1> QED
  BY <1>1, <1>2, PassedKeeps

\* storage_getSeed sends the default password to a device without a PIN.
LEMMA UseSeedKeeps ==
  ASSUME VaultInv, UseSeed
  PROVE  VaultInv' /\ Reason
<1>1. PICK o \in PinPassed(TRUE) :
        LET c == IF OpensByDefault THEN cm_open_zone(o.cm, DefaultPW) ELSE o.cm
            decoded == IF ReadableKey(c) = rom.mnemonic THEN rom.mnemonic ELSE Garbage
        IN /\ Passed(o)
           /\ \/ /\ seed # NoKey \/ rom.node
                 /\ cm' = o.cm /\ UNCHANGED <<seed, halted>>
              \/ /\ seed = NoKey /\ ~rom.node
                 /\ decoded = rom.mnemonic \/ SkipsMnemonicCheck
                 /\ cm' = c /\ seed' = decoded /\ UNCHANGED halted
              \/ /\ seed = NoKey /\ ~rom.node
                 /\ decoded = Garbage /\ ~SkipsMnemonicCheck
                 /\ cm' = c /\ halted' = TRUE /\ UNCHANGED seed
  BY DEF UseSeed
<1>2. UNCHANGED <<rom, reset, recovery, nkeys, losses, spoiled, used>>
  BY DEF UseSeed
<1> DEFINE c == IF OpensByDefault THEN cm_open_zone(o.cm, DefaultPW) ELSE o.cm
           decoded == IF ReadableKey(c) = rom.mnemonic THEN rom.mnemonic ELSE Garbage
<1>3. /\ rom' \in Roms /\ SameSecrets(rom, rom')
      /\ recovery' \in [mode : {"none", "dry", "real"}, pin : Deferred]
  BY <1>2, Here DEF RestOK, SameSecrets
<1>4. Stored(o.cm, rom, o.wrong, spoiled, used, nkeys) /\ (spoiled = {} => Alive(o.cm) = Alive(cm))
  BY PinCheck
<1>5. Stored(c, rom, o.wrong, spoiled, used, nkeys) /\ (spoiled = {} => Alive(c) = Alive(cm))
  <2>1. CASE rom.pin
    BY <1>4, <2>1 DEF OpensByDefault
  <2>2. CASE ~rom.pin
    <3>1. /\ ChipInv(o.cm) /\ NoLeak(o.cm, rom, used)
          /\ spoiled = {} => Intact(o.cm, rom, o.wrong)
          /\ \A k \in used \cup {rom.mnemonic} : k <= nkeys
      BY <1>4 DEF Stored
    <3>2. Opened(o.cm, c, DefaultPW)
      BY <2>2, <3>1, OpenZone DEF OpensByDefault
    <3> HIDE DEF c
    <3>3. ChipInv(c) /\ c.key = o.cm.key /\ Alive(c) \subseteq Alive(o.cm)
      BY <3>1, <3>2, OpenedKeeps
    <3>4. spoiled = {} => Intact(c, rom, o.wrong) /\ Alive(c) = Alive(o.cm)
      BY <2>2, <3>1, <3>2, OpenByDefaultPW
    <3>5. NoLeak(c, rom, used)
      BY <3>1, <3>3 DEF NoLeak
    <3> QED
      BY <1>4, <2>2, <3>1, <3>3, <3>4, <3>5 DEF Stored
  <2> QED
    BY <2>1, <2>2
<1>6. decoded \in Keys \cup {Garbage} /\ seed \in Keys \cup {Garbage}
  BY Here DEF Roms, RestOK
<1>7. halted \in BOOLEAN /\ (seed # NoKey /\ ~rom.imported => seed = rom.mnemonic)
  BY Here DEF RestOK, Session
<1> HIDE DEF c, decoded
<1>8. CASE cm' = o.cm /\ UNCHANGED <<seed, halted>>
  BY <1>1, <1>2, <1>3, <1>4, <1>6, <1>7, <1>8, PassedTo
<1>9. CASE /\ decoded = rom.mnemonic \/ SkipsMnemonicCheck
           /\ cm' = c /\ seed' = decoded /\ UNCHANGED halted
  <2>1. seed' # NoKey /\ ~rom.imported => seed' = rom.mnemonic
    BY <1>9 DEF SkipsMnemonicCheck
  <2> QED
    BY <1>1, <1>2, <1>3, <1>5, <1>6, <1>7, <1>9, <2>1, PassedTo
<1>10. CASE cm' = c /\ halted' = TRUE /\ UNCHANGED seed
  BY <1>1, <1>2, <1>3, <1>5, <1>6, <1>7, <1>10, PassedTo
<1> QED
  BY <1>1, <1>8, <1>9, <1>10 DEF c, decoded

\* protectCheckMaxTry: the zone has died or is wiped.
LEMMA WipeAndHaltKeeps ==
  ASSUME VaultInv, NEW c, ChipInv(c), WipeAndHalt(c)
  PROVE  VaultInv' /\ (spoiled # {} \/ wrong = MaxAttempts - 1 => Reason)
<1>1. CASE storage_wipe(c) /\ halted' = TRUE
  BY <1>1, WipeKeeps DEF Reason
<1>2. CASE CutShort(cm_wipe_zone(c), rom, wrong)
  BY <1>2, Here, WipeCutShort
<1> QED
  BY <1>1, <1>2 DEF WipeAndHalt

\* The PIN that is asked for is the one of the zone in use.
LEMMA PinRefusedKeeps ==
  ASSUME VaultInv, NEW b \in BOOLEAN, PinRefused(b)
  PROVE  VaultInv' /\ Reason
<1> USE ZoneFacts
<1>1. /\ rom.pin /\ cm \in CryptoMems /\ ChipInv(cm) /\ NoLeak(cm, rom, used)
      /\ cm.zone # NoZone \/ Alive(cm) = {}
      /\ spoiled = {} => Intact(cm, rom, wrong)
      /\ wrong \in Nat /\ RestOK
  BY Here DEF PinRefused, AsksForPin
<1>2. spoiled = {} => cm.zone \in Alive(cm) /\ wrong + cm.pac[cm.zone] = MaxAttempts
  BY <1>1 DEF Intact
<1>3. CASE ~AttemptsLeft /\ WipeAndHalt(cm_get_zone_index(cm))
  <2> DEFINE d == cm_get_zone_index(cm)
  <2>1. cm.zone # NoZone \/ Alive(cm) = {} => d = cm
    BY DEF cm_get_zone_index
  <2>2. d = cm
    BY <1>1, <2>1
  <2> HIDE DEF d
  <2>3. spoiled # {}
    <3>1. Attempts(cm) = 0
      <4>1. ~(Attempts(d) > 0)
        BY <1>3 DEF AttemptsLeft, d
      <4>2. Attempts(cm) \in Nat
        BY <1>1, CmType DEF Attempts
      <4> QED
        BY <2>2, <4>1, <4>2
    <3>2. cm.state = "ZONE_LOCKED" => cm.zone \notin Alive(cm)
      BY <1>1 DEF ChipInv
    <3>3. cm.zone \in Alive(cm) => cm.pac[cm.zone] # 0 /\ cm.zone # NoZone
      BY <1>1, CmType
    <3> QED
      BY <1>2, <3>1, <3>2, <3>3 DEF Attempts
  <2>4. WipeAndHalt(cm)
    BY <1>3, <2>2 DEF d
  <2> QED
    BY <1>1, <2>3, <2>4, WipeAndHaltKeeps
<1>4. CASE ~(~AttemptsLeft /\ WipeAndHalt(cm_get_zone_index(cm)))
  <2>1. PICK p \in Pins : LET c == storage_containsPin(p) IN
          /\ ~IsOpen(c)
          /\ \/ Attempts(c) = 0 /\ WipeAndHalt(c)
             \/ /\ Attempts(c) > 0
                /\ cm' = c /\ wrong' = wrong + 1
                /\ UNCHANGED <<rom, pinCached, seed, reset, recovery, halted, nkeys,
                               losses, unlocked, spoiled, used>>
    BY <1>4 DEF PinRefused
  <2> DEFINE a == cm_deactivate_security(cm)
             c == storage_containsPin(p)
  <2>2. ChipInv(a) /\ SameData(cm, a) /\ a.zone = cm.zone /\ ~IsOpen(a)
    BY <1>1, Deactivate
  <2>3. Opened(a, c, PinStringToHex(p))
    BY <2>2, OpenZone DEF storage_containsPin
  <2>4. ~IsOpen(c)
    BY <2>1
  <2> HIDE DEF a
  <2>5. Alive(a) = Alive(cm) /\ a.pw = cm.pw /\ a.key = cm.key /\ a.pac = cm.pac
    BY <2>2 DEF SameData, Alive
  <2>6. CASE Attempts(c) = 0 /\ WipeAndHalt(c)
    <3> HIDE DEF c
    <3>1. ChipInv(c)
      BY <2>3 DEF Opened
    <3>2. spoiled = {} => wrong = MaxAttempts - 1
      <4> SUFFICES ASSUME spoiled = {} PROVE wrong = MaxAttempts - 1
        OBVIOUS
      <4>1. cm.zone \in Alive(cm) /\ cm.zone \in Zones /\ c.zone = cm.zone
        BY <1>1, <1>2, <2>2, <2>3, CmType DEF Opened
      <4>2. c.pac[c.zone] = cm.pac[cm.zone] - 1
        BY <2>2, <2>3, <2>4, <2>5, <4>1 DEF Opened
      <4>3. c.pac[c.zone] = 0
        <5>1. c \in CryptoMems /\ (c.state = "ZONE_LOCKED" => c.zone \notin Alive(c))
          BY <3>1 DEF ChipInv
        <5>2. c.zone \in Zones /\ c.zone # NoZone
          BY <4>1
        <5>3. c.zone \notin Alive(c) => c.pac[c.zone] = 0
          BY <5>1, <5>2, CmType
        <5> QED
          BY <2>6, <5>1, <5>2, <5>3 DEF Attempts
      <4>4. cm.pac[cm.zone] \in Nat
        BY <1>1, <4>1, CmType
      <4> QED
        BY <1>1, <1>2, <4>2, <4>3, <4>4
    <3> QED
      BY <2>6, <3>1, <3>2, WipeAndHaltKeeps
  <2>7. CASE /\ Attempts(c) > 0
             /\ cm' = c /\ wrong' = wrong + 1
             /\ UNCHANGED <<rom, pinCached, seed, reset, recovery, halted, nkeys,
                            losses, unlocked, spoiled, used>>
    <3> HIDE DEF c
    <3>1. /\ ChipInv(c) /\ c.pw = cm.pw /\ c.key = cm.key /\ Alive(c) \subseteq Alive(cm)
          /\ c.zone # NoZone \/ Alive(c) = {}
      BY <1>1, <2>2, <2>3, <2>5, OpenedKeeps
    <3>2. c \in CryptoMems
      BY <3>1 DEF ChipInv
    <3>3. c.zone \in Alive(c)
      <4>1. c.zone \in Zones \cup {NoZone} /\ \A z \in Zones : c.pac[z] > 0 => z \in Alive(c)
        BY <3>2, CmType DEF Alive
      <4>2. Attempts(c) > 0
        BY <2>7
      <4>3. c.zone # NoZone /\ c.pac[c.zone] > 0
        BY ONLY <4>2 DEF Attempts
      <4> QED
        BY <4>1, <4>3
    <3>4. ASSUME spoiled = {} PROVE Intact(c, rom, wrong + 1) /\ Alive(c) = Alive(cm)
      <4>1. cm.zone \in Alive(cm) /\ cm.zone \in Zones /\ c.zone = cm.zone
        BY <1>1, <1>2, <2>2, <2>3, <3>4, CmType DEF Opened
      <4>2. c.pac[c.zone] = cm.pac[cm.zone] - 1
        BY <2>2, <2>3, <2>4, <2>5, <4>1 DEF Opened
      <4>3. (wrong + 1) + c.pac[c.zone] = MaxAttempts
        <5>1. cm.pac[cm.zone] \in Nat
          BY <1>1, <4>1, CmType
        <5> QED
          BY <1>1, <1>2, <3>4, <4>2, <5>1
      <4>4. Intact(c, rom, wrong + 1)
        <5> HIDE DEF Alive
        <5> QED
          BY <1>1, <3>1, <3>3, <3>4, <4>1, <4>3 DEF Intact
      <4>5. \A z \in Zones : c.pac[z] > 0 <=> cm.pac[z] > 0
        <5> TAKE z \in Zones
        <5>1. CASE z = c.zone
          BY <3>3, <4>1, <5>1 DEF Alive
        <5>2. CASE z # c.zone
          BY <2>2, <2>3, <2>5, <5>2 DEF Opened
        <5> QED
          BY <5>1, <5>2
      <4> QED
        BY <4>4, <4>5 DEF Alive
    <3>5. NoLeak(c, rom, used)
      BY <1>1, <3>1 DEF NoLeak
    <3>6. Stored(c, rom, wrong + 1, spoiled, used, nkeys)
      BY <1>1, <3>1, <3>4, <3>5, Here DEF Stored
    <3>7. Stored(cm', rom', wrong', spoiled', used', nkeys')
      BY <2>7, <3>6
    <3>8. Session(rom', pinCached', seed', unlocked')
      BY <2>7, Here
    <3>9. cm' \in CryptoMems
      BY <2>7, <3>2
    <3>10. TypeOK'
      <4>1. wrong' \in Nat
        BY <1>1, <2>7
      <4> QED
        BY <1>1, <2>7, <3>9, <4>1, TypeSplitNext DEF RestOK
    <3>11. Reason
      BY <2>7, <3>4 DEF Reason
    <3> QED
      BY <3>7, <3>8, <3>10, <3>11 DEF VaultInv
  <2> QED
    BY <2>1, <2>6, <2>7
<1> QED
  BY <1>3, <1>4

\* The PIN in flash and the password of the zone change together.
LEMMA ChangePinKeeps ==
  ASSUME VaultInv, NEW p \in Pins, ChangePin(p)
  PROVE  VaultInv' /\ Reason
<1> USE ZoneFacts
<1> DEFINE x == PinStringToHex(p)
<1>1. PICK o \in PinPassed(FALSE) :
        LET c == cm_set_PIN(o.cm, x) IN
        \/ /\ cm' = c /\ rom' = Saved(WithPin(rom, c, p))
           /\ pinCached' = FALSE /\ unlocked' = TRUE /\ wrong' = 0
           /\ UNCHANGED <<seed, reset, recovery, halted, nkeys, losses, spoiled, used>>
        \/ CutShort(c, rom, 0)
  BY DEF ChangePin
<1> DEFINE c == cm_set_PIN(o.cm, x)
           r == Saved(WithPin(rom, c, p))
<1>2. /\ Stored(o.cm, rom, o.wrong, spoiled, used, nkeys)
      /\ o.cm.pw = cm.pw /\ (spoiled = {} => Alive(o.cm) = Alive(cm))
      /\ rom.pin => IsOpen(o.cm)
  BY PinCheck
<1>3. /\ ChipInv(o.cm) /\ NoLeak(o.cm, rom, used)
      /\ spoiled = {} => Intact(o.cm, rom, o.wrong)
      /\ \A k \in used \cup {rom.mnemonic} : k <= nkeys
  BY <1>2 DEF Stored
<1>4. x \in Passwords
  BY PinWords
<1>5. IsPin(p) <=> x # DefaultPW
  BY DEF IsPin
<1> HIDE DEF x
<1>6. /\ Kept(o.cm, c) /\ c.key = o.cm.key
      /\ \/ IsOpen(c) /\ c.zone \in Alive(c) /\ c.pw[c.zone] = x
         \/ ~IsOpen(c) /\ Alive(c) = {} /\ c.zone = NoZone /\ c.pw = o.cm.pw
  BY <1>3, <1>4, SetPin
<1> HIDE DEF c
<1>7. ChipInv(c) /\ NoLeak(c, rom, used)
  BY <1>3, <1>6 DEF Kept, NoLeak
<1>8. IsOpen(c) => c.pac[c.zone] = MaxAttempts
  BY <1>7 DEF ChipInv
<1>9. spoiled = {} => Alive(c) = Alive(o.cm) /\ (o.cm.zone \in Alive(o.cm) => c.zone = o.cm.zone)
  BY <1>2, <1>3, <1>6, NothingDies
<1>10. rom \in Roms /\ rom.pin \in BOOLEAN /\ (rom.pin => rom.saved)
  BY Here DEF Roms
<1>11. /\ r \in Roms /\ r.mnemonic = rom.mnemonic /\ r.imported = rom.imported /\ r.saved
       /\ IsOpen(c) => r.pin = IsPin(p)
       /\ ~IsOpen(c) => r.pin = rom.pin
  BY <1>10 DEF Saved, WithPin, Roms, IsPin
<1> HIDE DEF r
<1>12. ASSUME spoiled = {} PROVE Intact(c, r, 0)
  <2> HIDE DEF Alive, IsOpen
  <2>1. CASE IsOpen(c)
    <3>1. rom.mnemonic # NoKey => c.key[c.zone] = rom.mnemonic
      BY <1>3, <1>6, <1>9, <1>12 DEF Intact
    <3>2. 0 + c.pac[c.zone] = MaxAttempts
      BY <1>8, <2>1
    <3>3. r.pin <=> c.pw[c.zone] # DefaultPW
      BY <1>5, <1>6, <1>11, <2>1
    <3> QED
      BY <1>6, <1>11, <2>1, <3>1, <3>2, <3>3 DEF Intact
  <2>2. CASE ~IsOpen(c)
    <3>1. o.cm.zone \notin Alive(o.cm) /\ c.zone = NoZone /\ c.zone \notin Alive(c)
      BY <1>6, <1>9, <1>12, <2>2
    <3>2. rom.mnemonic = NoKey /\ ~rom.pin
      BY <1>3, <1>12, <3>1 DEF Intact
    <3>3. r.mnemonic = NoKey /\ ~r.pin
      BY <1>11, <2>2, <3>2
    <3> QED
      BY <3>1, <3>3 DEF Intact
  <2> QED
    BY <2>1, <2>2
<1>13. CASE CutShort(c, rom, 0)
  <2>1. ASSUME spoiled = {}, ~Differs(c) PROVE Intact(c, rom, 0)
    <3>1. c.pw = o.cm.pw /\ Alive(c) = Alive(o.cm)
      BY <1>2, <1>9, <2>1 DEF Differs
    <3>2. Intact(c, rom, o.wrong)
      BY <1>3, <1>6, <2>1, <3>1, NotTorn
    <3>3. rom.pin => 0 + c.pac[c.zone] = MaxAttempts
      <4>1. rom.pin => c.zone \in Alive(c)
        BY <3>2 DEF Intact
      <4> HIDE DEF Alive, IsOpen
      <4>2. rom.pin => IsOpen(c)
        BY <1>6, <4>1
      <4> QED
        BY <1>8, <4>2
    <3> QED
      BY <3>2, <3>3 DEF Intact
  <2>2. 0 \in Nat
    OBVIOUS
  <2> QED
    BY <1>3, <1>7, <1>10, <1>13, <2>1, <2>2, CutShortKeeps
<1>14. CASE /\ cm' = c /\ rom' = r
            /\ pinCached' = FALSE /\ unlocked' = TRUE /\ wrong' = 0
            /\ UNCHANGED <<seed, reset, recovery, halted, nkeys, losses, spoiled, used>>
  <2>1. Stored(c, r, 0, spoiled, used, nkeys)
    <3>1. NoLeak(c, r, used)
      BY <1>7, <1>11 DEF NoLeak
    <3>2. c.zone # NoZone \/ Alive(c) = {}
      <4>1. c \in CryptoMems
        BY <1>7 DEF ChipInv
      <4> QED
        BY <1>6, <4>1, CmType
    <3>3. \A k \in used \cup {r.mnemonic} : k <= nkeys
      BY <1>3, <1>11
    <3> QED
      BY <1>7, <1>11, <1>12, <3>1, <3>2, <3>3 DEF Stored
  <2>2. Session(rom', pinCached', seed', unlocked')
    BY <1>11, <1>14, Here DEF Session
  <2>3. TypeOK'
    <3>1. cm' \in CryptoMems /\ RestOK
      BY <1>7, <1>14, Here DEF ChipInv
    <3> QED
      BY <1>11, <1>14, <3>1, TypeSplitNext DEF RestOK
  <2>4. Reason
    <3>1. spoiled = {} => Alive(c) = Alive(cm)
      BY <1>2, <1>9
    <3> QED
      BY <1>14, <3>1 DEF Reason
  <2>5. Stored(cm', rom', wrong', spoiled', used', nkeys')
    BY <1>14, <2>1
  <2> QED
    BY <2>2, <2>3, <2>4, <2>5 DEF VaultInv
<1> QED
  BY <1>1, <1>13, <1>14 DEF c, r

LEMMA WipeDeviceKeeps ==
  ASSUME VaultInv, NEW force \in BOOLEAN, WipeDevice(force)
  PROVE  VaultInv' /\ Reason
<1>1. PICK o \in IF force THEN {[cm |-> cm, wrong |-> wrong]} ELSE PinPassed(TRUE) :
        \/ storage_wipe(o.cm) /\ UNCHANGED halted
        \/ CutShort(cm_wipe_zone(o.cm), rom, o.wrong)
  BY DEF WipeDevice
<1>2. /\ ChipInv(o.cm) /\ o.wrong \in Nat
      /\ spoiled = {} => Intact(o.cm, rom, o.wrong) /\ Alive(o.cm) = Alive(cm)
      /\ rom.pin => IsOpen(o.cm) \/ o.cm = cm
  <2>1. CASE force
    <3>1. o.cm = cm /\ o.wrong = wrong
      BY <1>1, <2>1
    <3> QED
      BY <3>1, Here
  <2>2. CASE ~force
    <3>1. o \in PinPassed(TRUE)
      BY <1>1, <2>2
    <3>2. /\ Stored(o.cm, rom, o.wrong, spoiled, used, nkeys) /\ o.wrong \in Nat
          /\ spoiled = {} => Alive(o.cm) = Alive(cm)
          /\ rom.pin => IsOpen(o.cm) \/ o.cm = cm
      BY <3>1, PinCheck
    <3>3. ChipInv(o.cm) /\ (spoiled = {} => Intact(o.cm, rom, o.wrong))
      BY <3>2 DEF Stored
    <3> QED
      BY <3>2, <3>3
  <2> QED
    BY <2>1, <2>2
<1>3. CASE CutShort(cm_wipe_zone(o.cm), rom, o.wrong)
  BY <1>2, <1>3, WipeCutShort
<1>4. CASE storage_wipe(o.cm) /\ UNCHANGED halted
  <2>1. halted' \in BOOLEAN
    BY <1>4, Here DEF RestOK
  <2>2. /\ VaultInv' /\ rom' = Erased
        /\ Alive(cm') = Alive(cm_wipe_zone(o.cm)) /\ Kept(o.cm, cm_wipe_zone(o.cm))
    BY <1>2, <1>4, <2>1, WipeKeeps
  <2>3. ASSUME spoiled = {}, rom.pin => IsOpen(o.cm) PROVE Alive(cm') = Alive(cm)
    BY <1>2, <2>2, <2>3, NothingDies
  <2>4. Reason
    <3> HIDE DEF Alive, IsOpen, Erased
    <3>1. rom.pin /\ ~IsOpen(o.cm) => rom.pin /\ ~IsOpen(cm)
      BY <1>2
    <3> QED
      BY <2>2, <2>3, <3>1 DEF Reason
  <2> QED
    BY <2>2, <2>4
<1> QED
  BY <1>1, <1>3, <1>4

-----------------------------------------------------------------------------
(* Handlers that leave the zones alone, and power.                         *)

LEMMA DeactivatedIsStored ==
  ASSUME NEW c, NEW r, NEW w, NEW sp, NEW u, NEW n, Stored(c, r, w, sp, u, n),
         NEW d, d = cm_deactivate_security(c)
  PROVE  Stored(d, r, w, sp, u, n) /\ Alive(d) = Alive(c)
<1>1. ChipInv(d) /\ SameData(c, d) /\ d.zone = c.zone
  BY Deactivate DEF Stored
<1>2. Alive(d) = Alive(c)
  BY <1>1 DEF SameData, Alive
<1> QED
  BY <1>1, <1>2 DEF Stored, Intact, NoLeak, SameData

LEMMA QuietKeeps ==
  ASSUME VaultInv, cm' \in {cm, cm_deactivate_security(cm)},
         rom' \in Roms, SameSecrets(rom, rom'), seed' \in {NoKey, seed},
         \/ pinCached' = pinCached /\ unlocked' = unlocked
         \/ pinCached' = FALSE /\ unlocked' = FALSE /\ seed' = NoKey,
         reset' \in [awaiting : BOOLEAN, pin : Deferred, skip : BOOLEAN],
         recovery' \in [mode : {"none", "dry", "real"}, pin : Deferred],
         UNCHANGED <<halted, nkeys, losses, wrong, spoiled, used>>
  PROVE  VaultInv' /\ Reason
<1>1. Stored(cm, rom, wrong, spoiled, used, nkeys) /\ RestOK
  BY Here DEF VaultInv
<1>2. Stored(cm', rom, wrong, spoiled, used, nkeys) /\ Alive(cm') = Alive(cm)
  <2>1. CASE cm' = cm
    BY <1>1, <2>1
  <2>2. CASE cm' = cm_deactivate_security(cm)
    BY <1>1, <2>2, DeactivatedIsStored
  <2> QED
    BY <2>1, <2>2
<1>3. Stored(cm', rom', wrong', spoiled', used', nkeys')
  BY <1>2, SettingsDoNotMatter
<1>4. Session(rom', pinCached', seed', unlocked')
  <2>1. Session(rom, pinCached', seed', unlocked')
    BY Here DEF Session
  <2> QED
    BY <2>1, SettingsDoNotMatter
<1>5. TypeOK'
  <2>1. cm' \in CryptoMems
    BY <1>2 DEF Stored, ChipInv
  <2>2. pinCached' \in BOOLEAN /\ unlocked' \in BOOLEAN /\ seed' \in Keys \cup {Garbage}
    BY <1>1, ZoneFacts DEF RestOK
  <2> QED
    BY <1>1, <2>1, <2>2, TypeSplitNext DEF RestOK
<1> QED
  BY <1>2, <1>3, <1>4, <1>5 DEF VaultInv, Reason

LEMMA CutHere ==
  ASSUME VaultInv, CutShort(cm, rom, wrong)
  PROVE  VaultInv' /\ Reason
BY Here, CutShortKeeps

LEMMA QuietHandlers ==
  ASSUME VaultInv,
         \/ ApplyFlags \/ ClearSession \/ Initialize \/ RecoveryDryDone \/ RecoveryInvalid
         \/ \E p \in Deferred, skip \in BOOLEAN : ResetDevice(p, skip)
         \/ \E p \in Deferred : RecoveryDevice(p)
  PROVE  VaultInv' /\ Reason
<1> USE DEF Deferred
<1>1. RestOK /\ rom \in Roms /\ SameSecrets(rom, rom)
  BY Here DEF SameSecrets
<1>2. Saved(rom) \in Roms /\ SameSecrets(rom, Saved(rom))
  BY <1>1 DEF Saved, SameSecrets, Roms
<1>3. /\ reset \in [awaiting : BOOLEAN, pin : Deferred, skip : BOOLEAN]
      /\ recovery \in [mode : {"none", "dry", "real"}, pin : Deferred]
      /\ NoRecovery \in [mode : {"none", "dry", "real"}, pin : Deferred]
  BY <1>1 DEF RestOK, NoRecovery
<1>4. CASE ApplyFlags
  <2>1. CASE CutShort(cm, rom, wrong)
    BY <2>1, CutHere
  <2>2. CASE ~CutShort(cm, rom, wrong)
    BY <1>1, <1>2, <1>3, <1>4, <2>2, QuietKeeps DEF ApplyFlags
  <2> QED
    BY <2>1, <2>2
<1>5. CASE ClearSession
  BY <1>1, <1>3, <1>5, QuietKeeps DEF ClearSession, ClearAll
<1>6. CASE Initialize
  <2>1. recovery' \in [mode : {"none", "dry", "real"}, pin : Deferred]
    BY <1>3, <1>6 DEF Initialize
  <2> QED
    BY <1>1, <1>3, <1>6, <2>1, QuietKeeps DEF Initialize
<1>7. CASE RecoveryDryDone
  BY <1>1, <1>3, <1>7, QuietKeeps DEF RecoveryDryDone
<1>8. CASE RecoveryInvalid
  <2>1. recovery' \in [mode : {"none", "dry", "real"}, pin : Deferred]
    BY <1>3, <1>8 DEF RecoveryInvalid
  <2> QED
    BY <1>1, <1>3, <1>8, <2>1, QuietKeeps DEF RecoveryInvalid, ClearAll
<1>9. ASSUME NEW p \in Deferred, NEW skip \in BOOLEAN, ResetDevice(p, skip)
      PROVE  VaultInv' /\ Reason
  <2>1. CASE CutShort(cm, rom, wrong)
    BY <2>1, CutHere
  <2>2. CASE ~CutShort(cm, rom, wrong)
    <3>1. reset' \in [awaiting : BOOLEAN, pin : Deferred, skip : BOOLEAN]
      <4>1. CASE reset' = [awaiting |-> TRUE, pin |-> p, skip |-> skip]
        BY <4>1
      <4>2. CASE reset' # [awaiting |-> TRUE, pin |-> p, skip |-> skip]
        <5>1. PICK q \in {reset.pin, "none"} : reset' = [reset EXCEPT !.pin = q, !.skip = skip]
          BY <1>9, <2>2, <4>2 DEF ResetDevice
        <5>2. q \in Deferred
          BY <1>3, <5>1
        <5> QED
          BY <1>3, <5>1, <5>2
      <4> QED
        BY <4>1, <4>2
    <3> QED
      BY <1>1, <1>2, <1>3, <1>9, <2>2, <3>1, QuietKeeps DEF ResetDevice
  <2> QED
    BY <2>1, <2>2
<1>10. ASSUME NEW p \in Deferred, RecoveryDevice(p)
       PROVE  VaultInv' /\ Reason
  <2>1. CASE CutShort(cm, rom, wrong)
    BY <2>1, CutHere
  <2>2. CASE ~CutShort(cm, rom, wrong)
    <3>1. recovery' \in [mode : {"none", "dry", "real"}, pin : Deferred]
      BY <1>3, <1>10, <2>2 DEF RecoveryDevice
    <3> QED
      BY <1>1, <1>2, <1>3, <1>10, <2>2, <3>1, QuietKeeps DEF RecoveryDevice
  <2> QED
    BY <2>1, <2>2
<1> QED
  BY <1>4, <1>5, <1>6, <1>7, <1>8, <1>9, <1>10

\* A device that has no record has no PIN, so the wipe at boot opens its zone.
LEMMA PowerCycleKeeps ==
  ASSUME VaultInv, PowerCycle
  PROVE  VaultInv' /\ Reason
<1>1. losses' = losses /\ losses' \in 0 .. MaxLosses /\ Boot(cm, rom, wrong)
  BY Here DEF PowerCycle, RestOK
<1>2. VaultInv' /\ (Reason \/ ~rom.saved)
  BY <1>1, Here, BootKeeps
<1>3. ASSUME ~rom.saved PROVE Reason
  <2> DEFINE e == cm_init(cm)
             d == WipedChip(e)
  <2>1. ~rom.pin /\ ChipInv(cm) /\ (spoiled = {} => Intact(cm, rom, wrong))
        /\ cm \in CryptoMems /\ Zoned(cm) /\ nkeys \in Nat /\ \A k \in used : k <= nkeys
    BY <1>3, Here DEF ChipInv
  <2>2. ChipInv(e) /\ SameData(cm, e) /\ (e.zone = NoZone \/ e.zone \in Alive(cm))
    BY <2>1, CmInit
  <2>3. cm' = d
    BY <1>1, <1>3 DEF Boot
  <2> HIDE DEF e
  <2>4. Alive(e) = Alive(cm)
    BY <2>2 DEF SameData, Alive
  <2>5. Kept(e, cm_wipe_zone(e)) /\ Alive(d) = Alive(cm_wipe_zone(e))
    BY <2>1, <2>2, WipedIsStored
  <2> HIDE DEF d
  <2>6. ASSUME spoiled = {} PROVE Alive(d) = Alive(cm)
    <3>1. \A z \in Alive(cm) : cm.pw[z] = DefaultPW
      BY <2>1, <2>6, AllDefault
    <3>2. e.zone \in Alive(e) => e.pw[e.zone] = DefaultPW
      BY <2>2, <2>4, <3>1 DEF SameData
    <3> QED
      BY <2>4, <2>5, <3>2 DEF Kept
  <2> QED
    BY <2>3, <2>6 DEF Reason
<1> QED
  BY <1>2, <1>3

-----------------------------------------------------------------------------
(* Handlers that bring a seed onto the device.                             *)

\* In a zone that lives there is the key of the zone in use, or none.
LEMMA OneKey ==
  ASSUME NEW c, ChipInv(c)
  PROVE  \A z \in Alive(c) : z = c.zone \/ c.key[z] = NoKey
<1>1. c \in CryptoMems /\ Zoned(c)
  BY DEF ChipInv
<1>2. \A z \in Alive(c) : z \in Zones /\ c.pac[z] # 0
  BY <1>1, CmType
<1> QED
  BY <1>1, <1>2 DEF Zoned, IsFresh

LEMMA OpenLives ==
  ASSUME NEW c, ChipInv(c), IsOpen(c)
  PROVE  c.zone \in Alive(c) /\ c.zone \in Zones /\ c.zone # NoZone /\ c.pac[c.zone] = MaxAttempts
BY ZoneFacts DEF ChipInv, Alive

LEMMA LoadDeviceKeeps ==
  ASSUME VaultInv, NEW p \in Pins, NEW content \in {"mnemonic", "node", "nothing"},
         LoadDevice(p, content)
  PROVE  VaultInv' /\ Reason
<1> USE ZoneFacts
<1> DEFINE k == nkeys + 1
           x == PinStringToHex(p)
           c0 == cm_deactivate_security(cm)
           c1 == cm_set_PIN(c0, x)
           r1 == Saved(WithPin([rom EXCEPT !.imported = TRUE], c1, p))
           c2 == cm_open_zone(c1, IF r1.pin THEN x ELSE DefaultPW)
           c3 == IF content = "mnemonic" /\ IsOpen(c2) THEN cm_initialize_new_zone(c2, k) ELSE c2
           r3 == CASE content = "node" -> [r1 EXCEPT !.node = TRUE]
                   [] content = "mnemonic" -> WithMnemonic(r1, c3, k)
                   [] OTHER -> r1
<1>1. /\ Fresh /\ MoreKeys
      /\ \/ /\ cm' = c3 /\ rom' = r3
            /\ used' = used \cup {r3.mnemonic} /\ nkeys' = k
            /\ pinCached' = FALSE /\ seed' = NoKey /\ unlocked' = FALSE /\ wrong' = 0
            /\ UNCHANGED <<reset, recovery, halted, losses, spoiled>>
         \/ CutShort(c1, rom, 0)
         \/ CutShort(c3, r1, 0)
  BY DEF LoadDevice
<1>2. /\ rom.pin = FALSE /\ rom.node = FALSE /\ rom.mnemonic = NoKey /\ rom \in Roms
      /\ k \in Keys /\ nkeys \in Nat /\ k \in Nat
      /\ \A u \in used : u <= nkeys
  BY <1>1, Here DEF Fresh, MoreKeys, storage_isInitialized, Roms
<1>3. k \notin used /\ k # NoKey /\ \A u \in used \cup {NoKey} : u <= k
  <2>1. used \subseteq Nat
    BY Here DEF RestOK
  <2> QED
    BY <1>2, <2>1 DEF NoKey
<1>4. ChipInv(cm) /\ NoLeak(cm, rom, used) /\ (spoiled = {} => Intact(cm, rom, wrong)) /\ RestOK
  BY Here
<1>5. ChipInv(c0) /\ SameData(cm, c0) /\ c0.zone = cm.zone
  BY <1>4, Deactivate
<1>6. x \in Passwords /\ (IsPin(p) <=> x # DefaultPW) /\ IsPin(p) \in BOOLEAN
  BY PinWords DEF IsPin
<1> HIDE DEF k, x, c0
<1>7. Alive(c0) = Alive(cm) /\ c0.pw = cm.pw /\ c0.key = cm.key
  BY <1>5 DEF SameData, Alive
<1>8. spoiled = {} => Intact(c0, rom, wrong)
  <2> HIDE DEF Alive
  <2> QED
    BY <1>2, <1>4, <1>5, <1>7 DEF Intact
<1>9. /\ Kept(c0, c1) /\ c1.key = c0.key
      /\ \/ IsOpen(c1) /\ c1.zone \in Alive(c1) /\ c1.pw[c1.zone] = x
         \/ ~IsOpen(c1) /\ Alive(c1) = {} /\ c1.zone = NoZone /\ c1.pw = c0.pw
  BY <1>5, <1>6, SetPin
<1> HIDE DEF c1
<1>10. ChipInv(c1) /\ Alive(c1) \subseteq Alive(cm) /\ c1.key = cm.key
  BY <1>7, <1>9 DEF Kept
<1>11. spoiled = {} => Alive(c1) = Alive(cm)
  BY <1>2, <1>5, <1>7, <1>8, <1>9, NothingDies
<1>12. /\ r1 \in Roms /\ r1.mnemonic = NoKey /\ r1.node = FALSE /\ r1.saved /\ r1.imported
       /\ IsOpen(c1) => r1.pin = IsPin(p)
       /\ ~IsOpen(c1) => r1.pin = FALSE
  BY <1>2, <1>6 DEF Saved, WithPin, Roms
<1> HIDE DEF r1
<1>13. Opened(c1, c2, IF r1.pin THEN x ELSE DefaultPW)
  BY <1>10, OpenZone
<1> HIDE DEF c2
<1>14. /\ ChipInv(c2) /\ c2.pw = c1.pw /\ c2.key = c1.key
       /\ IsOpen(c1) => c2 = c1
       /\ ~IsOpen(c1) => ~IsOpen(c2) /\ c2.zone = NoZone /\ Alive(c2) = {}
  <2>1. ChipInv(c2) /\ c2.pw = c1.pw /\ c2.key = c1.key /\ Alive(c2) \subseteq Alive(c1)
    BY <1>10, <1>13, OpenedKeeps
  <2>2. ~IsOpen(c1) => /\ c2.zone = NoZone \/ c2.zone \in Alive(c1)
                       /\ IsOpen(c2) => c2.zone \in Alive(c1)
    BY <1>9, <1>13 DEF Opened
  <2> HIDE DEF Alive, IsOpen
  <2> QED
    BY <1>9, <1>13, <2>1, <2>2 DEF Opened
<1>15. CASE CutShort(c1, rom, 0)
  <2>1. NoLeak(c1, rom, used)
    BY <1>4, <1>10 DEF NoLeak
  <2>2. ASSUME spoiled = {}, ~Differs(c1) PROVE Intact(c1, rom, 0)
    <3>1. c1.pw = c0.pw /\ Alive(c1) = Alive(c0)
      BY <1>7, <2>2 DEF Differs
    <3>2. c1.zone = NoZone \/ c1.zone \in Alive(c1)
      BY <1>9
    <3>3. Intact(c1, rom, wrong)
      BY <1>2, <1>5, <1>8, <1>9, <2>2, <3>1, <3>2, NotTorn
    <3> QED
      BY <1>2, <3>3 DEF Intact
  <2>3. 0 \in Nat
    OBVIOUS
  <2> QED
    BY <1>10, <1>15, <2>1, <2>2, <2>3, Here, CutShortKeeps
<1> DEFINE loaded == content = "mnemonic" /\ IsOpen(c1)
<1>16. /\ ChipInv(c3) /\ Alive(c3) = Alive(c1)
       /\ IsOpen(c1) => /\ IsOpen(c3) /\ c3.zone = c1.zone /\ c3.pw[c3.zone] = x
                        /\ c3.zone \in Alive(c3)
       /\ ~IsOpen(c1) => ~IsOpen(c3) /\ c3.zone = NoZone /\ Alive(c3) = {}
       /\ loaded => c3.key[c3.zone] = k
       /\ ~loaded => c3.key = cm.key
  <2>1. CASE loaded
    <3>1. IsOpen(c1) /\ c2 = c1 /\ content = "mnemonic" /\ IsOpen(c2)
      BY <1>14, <2>1
    <3>2. c3 = cm_initialize_new_zone(c1, k)
      BY <3>1
    <3> HIDE DEF c3
    <3>3. /\ Kept(c1, c3) /\ c3.pw = c1.pw
          /\ \/ IsOpen(c3) /\ c3.zone \in Alive(c3) /\ c3.key[c3.zone] = k
             \/ ~IsOpen(c3) /\ Alive(c3) = {}
      BY <1>2, <1>10, <3>2, NewZone
    <3>4. c1.zone \in Alive(c1)
      BY <1>10, <3>1, OpenLives
    <3>5. ChipInv(c3) /\ Alive(c3) = Alive(c1) /\ c3.zone = c1.zone
      BY <3>1, <3>3, <3>4 DEF Kept
    <3> HIDE DEF Alive, IsOpen
    <3> QED
      BY <1>9, <2>1, <3>1, <3>3, <3>4, <3>5
  <2>2. CASE ~loaded
    <3>1. c3 = c2
      BY <1>14, <2>2
    <3> HIDE DEF c3
    <3>2. Alive(c2) = Alive(c1)
      BY <1>9, <1>14
    <3> HIDE DEF Alive, IsOpen
    <3> QED
      BY <1>9, <1>10, <1>14, <2>2, <3>1, <3>2
  <2> QED
    BY <2>1, <2>2
<1>17. /\ r3 \in Roms /\ r3.pin = r1.pin /\ r3.saved /\ r3.imported
       /\ r3.mnemonic = IF loaded THEN k ELSE NoKey
  <2>1. IsOpen(c3) <=> IsOpen(c1)
    BY <1>16
  <2> HIDE DEF c3, IsOpen
  <2>2. CASE content = "mnemonic"
    BY <1>2, <1>12, <2>1, <2>2 DEF WithMnemonic, Roms
  <2>3. CASE content = "node"
    BY <1>2, <1>12, <2>1, <2>3 DEF Roms
  <2>4. CASE content = "nothing"
    BY <1>2, <1>12, <2>1, <2>4 DEF Roms
  <2> QED
    BY <2>2, <2>3, <2>4
<1> HIDE DEF c3, r3
<1>18. \A z \in Alive(c3) : c3.key[z] \in used => c3.key[z] = NoKey
  <2> SUFFICES ASSUME NEW z \in Alive(c3), c3.key[z] \in used PROVE c3.key[z] = NoKey
    OBVIOUS
  <2>1. CASE z = c3.zone /\ loaded
    BY <1>3, <1>16, <2>1
  <2>2. CASE z # c3.zone
    BY <1>16, <2>2, OneKey
  <2>3. CASE ~loaded
    <3>1. c3.key[z] = cm.key[z] /\ z \in Alive(cm)
      BY <1>10, <1>16, <2>3
    <3> QED
      BY <1>2, <1>4, <3>1 DEF NoLeak
  <2> QED
    BY <2>1, <2>2, <2>3
<1>19. /\ c3.zone = NoZone \/ c3.zone \in Alive(c3)
       /\ r1.pin => c3.zone \in Alive(c3) /\ 0 + c3.pac[c3.zone] = MaxAttempts
       /\ c3.zone \in Alive(c3) => (r1.pin <=> c3.pw[c3.zone] # DefaultPW)
  <2> HIDE DEF Alive, IsOpen
  <2>1. CASE IsOpen(c1)
    <3>1. c3.zone \in Alive(c3) /\ c3.pw[c3.zone] = x /\ r1.pin = IsPin(p)
      BY <1>12, <1>16, <2>1
    <3>2. c3.pac[c3.zone] = MaxAttempts
      BY <1>16, <2>1, OpenLives
    <3> QED
      BY <1>6, <3>1, <3>2
  <2>2. CASE ~IsOpen(c1)
    BY <1>12, <1>16, <2>2
  <2> QED
    BY <2>1, <2>2
<1>20. CASE CutShort(c3, r1, 0)
  <2>1. NoLeak(c3, r1, used)
    BY <1>18 DEF NoLeak
  <2>2. Intact(c3, r1, 0)
    BY <1>12, <1>19 DEF Intact
  <2>3. \A u \in used \cup {r1.mnemonic} : u <= nkeys
    BY <1>2, <1>12 DEF NoKey
  <2>4. 0 \in Nat
    OBVIOUS
  <2> QED
    BY <1>12, <1>16, <1>20, <2>1, <2>2, <2>3, <2>4, CutShortKeeps
<1>21. CASE /\ cm' = c3 /\ rom' = r3
            /\ used' = used \cup {r3.mnemonic} /\ nkeys' = k
            /\ pinCached' = FALSE /\ seed' = NoKey /\ unlocked' = FALSE /\ wrong' = 0
            /\ UNCHANGED <<reset, recovery, halted, losses, spoiled>>
  <2>1. Intact(c3, r3, 0)
    <3>1. r3.mnemonic # NoKey => c3.zone \in Alive(c3) /\ c3.key[c3.zone] = r3.mnemonic
      BY <1>16, <1>17
    <3> QED
      BY <1>17, <1>19, <3>1 DEF Intact
  <2>2. NoLeak(c3, r3, used')
    BY <1>18, <1>21 DEF NoLeak
  <2>3. c3.zone # NoZone \/ Alive(c3) = {}
    <3> HIDE DEF Alive, IsOpen
    <3>1. IsOpen(c1) => c3.zone # NoZone
      BY <1>16, OpenLives
    <3> QED
      BY <1>16, <3>1
  <2>4. \A u \in used' \cup {r3.mnemonic} : u <= nkeys'
    BY <1>2, <1>3, <1>17, <1>21
  <2>5. Stored(c3, r3, 0, spoiled, used', nkeys')
    BY <1>16, <1>17, <2>1, <2>2, <2>3, <2>4 DEF Stored
  <2>6. Stored(cm', rom', wrong', spoiled', used', nkeys')
    BY <1>21, <2>5
  <2>7. Session(rom', pinCached', seed', unlocked')
    BY <1>21 DEF Session
  <2>8. TypeOK'
    <3>1. cm' \in CryptoMems
      BY <2>6 DEF Stored, ChipInv
    <3>2. used' \subseteq Keys /\ nkeys' \in Keys /\ seed' \in Keys \cup {Garbage}
      BY <1>2, <1>4, <1>17, <1>21 DEF RestOK
    <3> QED
      BY <1>4, <1>17, <1>21, <3>1, <3>2, TypeSplitNext DEF RestOK
  <2>9. Reason
    <3>1. spoiled = {} => Alive(c3) = Alive(cm)
      BY <1>11, <1>16
    <3> QED
      BY <1>21, <3>1 DEF Reason
  <2> QED
    BY <2>6, <2>7, <2>8, <2>9 DEF VaultInv
<1> QED
  BY <1>1, <1>15, <1>20, <1>21

\* The chip c1 after it took the new key k, and c2 after it also took the
\* deferred PIN.
LEMMA NewSeed ==
  ASSUME VaultInv, MoreKeys, NEW pin \in Deferred, NEW k, k = nkeys + 1,
         NEW c1, c1 = cm_initialize_new_zone(cm, k), NEW c2, c2 = SetDeferred(c1, pin)
  PROVE  /\ k \in Keys /\ k \in Nat /\ k # NoKey /\ k \notin used
         /\ \A u \in used \cup {NoKey, rom.mnemonic} : u <= k
         /\ Kept(cm, c1) /\ c1.pw = cm.pw
         /\ Kept(cm, c2) /\ c2.key = c1.key /\ Alive(c2) = Alive(c1) /\ c2.zone = c1.zone
         /\ IsOpen(c2) <=> IsOpen(c1)
         /\ IsOpen(c1) => /\ c1.zone \in Alive(c1) /\ c1.key[c1.zone] = k
                          /\ pin # "none" => c2.pw[c1.zone] = PinStringToHex(pin)
         /\ ~IsOpen(c1) => Alive(c1) = {} /\ c1.zone = NoZone
         /\ pin = "none" => c2 = c1
         /\ \A z \in Alive(c1) : c1.key[z] \in used => c1.key[z] = NoKey
<1> USE ZoneFacts
<1>1. /\ k \in Keys /\ nkeys \in Nat /\ \A u \in used \cup {rom.mnemonic} : u <= nkeys
      /\ used \subseteq Nat /\ rom.mnemonic \in Nat
  BY Here DEF MoreKeys, RestOK, Roms
<1>2. /\ k \in Nat /\ k # NoKey /\ k \notin used
      /\ \A u \in used \cup {NoKey, rom.mnemonic} : u <= k
  <2>1. \A u \in used \cup {rom.mnemonic} : u \in Nat /\ u <= nkeys
    BY <1>1
  <2>2. NoKey <= k
    BY <1>1 DEF NoKey
  <2> QED
    BY <1>1, <2>1, <2>2 DEF NoKey
<1>3. ChipInv(cm)
  BY Here
<1>4. /\ Kept(cm, c1) /\ c1.pw = cm.pw
      /\ \/ IsOpen(c1) /\ c1.zone \in Alive(c1) /\ c1.key[c1.zone] = k
         \/ ~IsOpen(c1) /\ Alive(c1) = {} /\ c1.zone = NoZone /\ c1.key = cm.key
  BY <1>1, <1>3, NewZone
<1>5. ChipInv(c1)
  BY <1>4 DEF Kept
<1>6. \A z \in Alive(c1) : c1.key[z] \in used => c1.key[z] = NoKey
  BY <1>2, <1>4, <1>5, OneKey
<1>7. CASE pin = "none"
  <2>1. c2 = c1
    BY <1>7 DEF SetDeferred
  <2> HIDE DEF Alive, IsOpen
  <2> QED
    BY <1>1, <1>2, <1>4, <1>6, <1>7, <2>1
<1>8. CASE pin # "none"
  <2>1. pin \in Pins /\ PinStringToHex(pin) \in Passwords
    BY <1>8, PinWords DEF Deferred
  <2>2. /\ Kept(c1, c2) /\ c2.key = c1.key
        /\ \/ IsOpen(c2) /\ c2.zone \in Alive(c2) /\ c2.pw[c2.zone] = PinStringToHex(pin)
           \/ ~IsOpen(c2) /\ Alive(c2) = {} /\ c2.zone = NoZone
    BY <1>5, <1>8, <2>1, SetPin DEF SetDeferred
  <2>3. Kept(cm, c2)
    BY <1>3, <1>4, <2>2, KeptAgain
  <2> HIDE DEF Alive, IsOpen
  <2>4. CASE IsOpen(c1)
    <3>1. Alive(c2) = Alive(c1) /\ c2.zone = c1.zone
      BY <1>4, <2>2, <2>4 DEF Kept
    <3>2. IsOpen(c2)
      BY <1>4, <2>2, <2>4, <3>1
    <3> QED
      BY <1>1, <1>2, <1>4, <1>6, <1>8, <2>2, <2>3, <2>4, <3>1, <3>2
  <2>5. CASE ~IsOpen(c1)
    <3>1. Alive(c2) = {}
      BY <1>4, <2>2, <2>5 DEF Kept
    <3>2. ~IsOpen(c2) /\ c2.zone = NoZone
      BY <2>2, <3>1
    <3> QED
      BY <1>1, <1>2, <1>4, <1>6, <1>8, <2>2, <2>3, <2>5, <3>1, <3>2
  <2> QED
    BY <2>4, <2>5
<1> QED
  BY <1>7, <1>8

LEMMA NewSeedCutShort ==
  ASSUME VaultInv, MoreKeys, NEW pin \in Deferred,
         NEW c1, c1 = cm_initialize_new_zone(cm, nkeys + 1),
         NEW c \in {c1, SetDeferred(c1, pin)}, CutShort(c, rom, wrong)
  PROVE  VaultInv' /\ Reason
<1> DEFINE k == nkeys + 1
           c2 == SetDeferred(c1, pin)
<1>1. /\ Kept(cm, c1) /\ c1.pw = cm.pw
      /\ Kept(cm, c2) /\ c2.key = c1.key /\ Alive(c2) = Alive(c1) /\ c2.zone = c1.zone
      /\ IsOpen(c1) => c1.zone \in Alive(c1)
      /\ ~IsOpen(c1) => Alive(c1) = {} /\ c1.zone = NoZone
      /\ \A z \in Alive(c1) : c1.key[z] \in used => c1.key[z] = NoKey
  BY NewSeed
<1>2. c \in {c1, c2}
  OBVIOUS
<1> HIDE DEF c2, Alive, IsOpen
<1>3. /\ Kept(cm, c) /\ ChipInv(c) /\ Alive(c) = Alive(c1) /\ c.key = c1.key /\ c.zone = c1.zone
      /\ c.zone = NoZone \/ c.zone \in Alive(c)
  BY <1>1, <1>2 DEF Kept
<1>4. NoLeak(c, rom, used)
  BY <1>1, <1>3 DEF NoLeak
<1>5. /\ ChipInv(cm) /\ rom \in Roms /\ wrong \in Nat /\ (spoiled = {} => Intact(cm, rom, wrong))
      /\ \A u \in used \cup {rom.mnemonic} : u <= nkeys
  BY Here
<1>6. ASSUME spoiled = {}, ~Differs(c) PROVE Intact(c, rom, wrong)
  <2>1. c.pw = cm.pw /\ Alive(c) = Alive(cm) /\ (rom.mnemonic # NoKey => c.key = cm.key)
    BY <1>6 DEF Differs
  <2> QED
    BY <1>3, <1>5, <1>6, <2>1, NotTorn
<1> QED
  BY <1>3, <1>4, <1>5, <1>6, CutShortKeeps

\* A device that is neither initialised nor has a PIN loses no zone to a new seed.
LEMMA NewSeedOnEmpty ==
  ASSUME VaultInv, Spoil = {}, NEW e, Kept(cm, e)
  PROVE  /\ spoiled = {} /\ rom.pin = FALSE /\ rom.mnemonic = NoKey
         /\ Intact(cm, rom, wrong) /\ Alive(e) = Alive(cm)
         /\ \A z \in Alive(cm) : cm.pw[z] = DefaultPW
<1>1. ~Overwriting /\ spoiled = {}
  BY DEF Spoil
<1>2. /\ rom.pin = FALSE /\ rom.mnemonic = NoKey /\ Intact(cm, rom, wrong) /\ ChipInv(cm)
  BY <1>1, Here DEF Overwriting, storage_isInitialized, Roms
<1>3. Alive(e) = Alive(cm)
  BY <1>2, NothingDies
<1>4. \A z \in Alive(cm) : cm.pw[z] = DefaultPW
  BY <1>2, AllDefault
<1> QED
  BY <1>1, <1>2, <1>3, <1>4

\* The commit of a new mnemonic, or of none if the chip did not take its key.
LEMMA CommitKeeps ==
  ASSUME VaultInv, MoreKeys, NEW pin \in Deferred,
         NEW c1, c1 = cm_initialize_new_zone(cm, nkeys + 1),
         NEW c2, c2 = SetDeferred(c1, pin), NEW r \in Roms, CommitMnemonic(c2, r),
         r.mnemonic = IF IsOpen(c1) THEN nkeys + 1 ELSE rom.mnemonic,
         IsOpen(c1) /\ pin # "none" => (r.pin <=> IsPin(pin)),
         ~IsOpen(c1) \/ pin = "none" => (r.pin <=> rom.pin),
         rom.imported => r.imported,
         pinCached' = (pinCached /\ pin = "none"), unlocked' = unlocked,
         reset' \in [awaiting : BOOLEAN, pin : Deferred, skip : BOOLEAN],
         recovery' \in [mode : {"none", "dry", "real"}, pin : Deferred]
  PROVE  VaultInv' /\ Reason
<1> USE ZoneFacts
<1> DEFINE k == nkeys + 1
           q == Saved(r)
<1>1. /\ k \in Keys /\ k \in Nat /\ k # NoKey /\ k \notin used
      /\ \A u \in used \cup {NoKey, rom.mnemonic} : u <= k
      /\ c1.pw = cm.pw
      /\ Kept(cm, c2) /\ c2.key = c1.key /\ Alive(c2) = Alive(c1) /\ c2.zone = c1.zone
      /\ IsOpen(c2) <=> IsOpen(c1)
      /\ IsOpen(c1) => /\ c1.zone \in Alive(c1) /\ c1.key[c1.zone] = k
                       /\ pin # "none" => c2.pw[c1.zone] = PinStringToHex(pin)
      /\ ~IsOpen(c1) => Alive(c1) = {} /\ c1.zone = NoZone
      /\ pin = "none" => c2 = c1
      /\ \A z \in Alive(c1) : c1.key[z] \in used => c1.key[z] = NoKey
  BY NewSeed
<1>2. /\ cm' = c2 /\ rom' = q
      /\ seed' = IF r.mnemonic = k THEN NoKey ELSE seed
      /\ used' = used \cup {r.mnemonic} /\ nkeys' = k
      /\ spoiled' = Spoil /\ wrong' = 0
      /\ halted' = halted /\ losses' = losses
  BY DEF CommitMnemonic
<1>3. /\ q \in Roms /\ q.mnemonic = r.mnemonic /\ (q.pin <=> r.pin) /\ q.imported = r.imported
      /\ q.saved
  BY DEF Saved, Roms
<1>4. r.mnemonic = IF IsOpen(c1) THEN k ELSE rom.mnemonic
  OBVIOUS
<1> HIDE DEF k, q, Alive, IsOpen
<1>5. ChipInv(c2)
  BY <1>1 DEF Kept
<1>6. IsOpen(c1) => c2.zone \in Alive(c2) /\ c2.pac[c2.zone] = MaxAttempts /\ c2.zone # NoZone
  BY <1>1, <1>5, OpenLives
<1>7. ASSUME Spoil = {} PROVE Intact(c2, q, 0) /\ Alive(c2) = Alive(cm)
  <2>1. /\ rom.pin = FALSE /\ rom.mnemonic = NoKey /\ Alive(c2) = Alive(cm)
        /\ \A z \in Alive(cm) : cm.pw[z] = DefaultPW
    BY <1>1, <1>7, NewSeedOnEmpty
  <2>2. CASE IsOpen(c1)
    <3>1. c2.zone \in Alive(c2) /\ 0 + c2.pac[c2.zone] = MaxAttempts
      BY <1>6, <2>2
    <3>2. q.mnemonic # NoKey => c2.key[c2.zone] = q.mnemonic
      BY <1>1, <1>3, <1>4, <2>2
    <3>3. q.pin <=> c2.pw[c2.zone] # DefaultPW
      <4>1. CASE pin = "none"
        <5>1. c2.pw[c2.zone] = DefaultPW
          BY <1>1, <2>1, <3>1, <4>1
        <5> QED
          BY <1>3, <2>1, <4>1, <5>1
      <4>2. CASE pin # "none"
        <5>1. c2.pw[c2.zone] = PinStringToHex(pin)
          BY <1>1, <2>2, <4>2
        <5> QED
          BY <1>3, <2>2, <4>2, <5>1 DEF IsPin
      <4> QED
        BY <4>1, <4>2
    <3> QED
      BY <2>1, <3>1, <3>2, <3>3 DEF Intact
  <2>3. CASE ~IsOpen(c1)
    <3>1. q.mnemonic = NoKey /\ ~q.pin /\ c2.zone = NoZone /\ Alive(c2) = {}
      BY <1>1, <1>3, <1>4, <2>1, <2>3
    <3> QED
      BY <2>1, <3>1 DEF Intact
  <2> QED
    BY <2>2, <2>3
<1>8. NoLeak(c2, q, used')
  BY <1>1, <1>2, <1>3 DEF NoLeak
<1>9. c2.zone # NoZone \/ Alive(c2) = {}
  BY <1>1, <1>6
<1>10. \A u \in used' \cup {q.mnemonic} : u <= nkeys'
  BY <1>1, <1>2, <1>3, <1>4
<1>11. Stored(cm', rom', wrong', spoiled', used', nkeys')
  <2>1. Stored(c2, q, 0, Spoil, used', nkeys')
    BY <1>3, <1>5, <1>7, <1>8, <1>9, <1>10 DEF Stored
  <2> QED
    BY <1>2, <2>1
<1>12. Session(rom', pinCached', seed', unlocked')
  <2>1. /\ rom.pin /\ (pinCached \/ seed # NoKey) => unlocked
        /\ seed # NoKey /\ ~rom.imported => seed = rom.mnemonic
    BY Here DEF Session
  <2>2. CASE IsOpen(c1)
    <3>1. seed' = NoKey
      BY <1>2, <1>4, <2>2
    <3>2. pinCached' => pinCached /\ (q.pin <=> rom.pin)
      BY <1>3
    <3> QED
      BY <1>2, <2>1, <3>1, <3>2 DEF Session
  <2>3. CASE ~IsOpen(c1)
    <3>1. (q.pin <=> rom.pin) /\ q.mnemonic = rom.mnemonic /\ (pinCached' => pinCached)
      BY <1>3, <1>4, <2>3
    <3>2. seed' # NoKey => seed' = seed
      BY <1>2
    <3>3. rom.imported => q.imported
      BY <1>3
    <3> QED
      BY <1>2, <2>1, <3>1, <3>2, <3>3 DEF Session
  <2> QED
    BY <2>2, <2>3
<1>13. TypeOK'
  <2>1. cm' \in CryptoMems
    BY <1>11 DEF Stored, ChipInv
  <2>2. RestOK
    BY Here
  <2>3. /\ used' \subseteq Keys /\ nkeys' \in Keys /\ seed' \in Keys \cup {Garbage}
        /\ wrong' \in Nat /\ pinCached' \in BOOLEAN
        /\ spoiled' \subseteq {"torn", "overwritten"}
    BY <1>1, <1>2, <2>2 DEF RestOK, Roms, Spoil
  <2> QED
    BY <1>2, <1>3, <2>1, <2>2, <2>3, TypeSplitNext DEF RestOK
<1>14. Reason
  BY <1>2, <1>7 DEF Reason
<1> QED
  BY <1>11, <1>12, <1>13, <1>14 DEF VaultInv

\* The new key is in the chip, the flash is as it was.
LEMMA NewSeedUncommitted ==
  ASSUME VaultInv, MoreKeys, NEW c1, c1 = cm_initialize_new_zone(cm, nkeys + 1)
  PROVE  /\ Stored(c1, rom, wrong, Spoil, used, nkeys)
         /\ Stored(c1, rom, wrong, Spoil, used, nkeys + 1)
         /\ Spoil = {} => Alive(c1) = Alive(cm)
<1> DEFINE c2 == SetDeferred(c1, "none")
<1>1. /\ Kept(cm, c1) /\ c1.pw = cm.pw
      /\ IsOpen(c1) => c1.zone \in Alive(c1)
      /\ ~IsOpen(c1) => Alive(c1) = {} /\ c1.zone = NoZone
      /\ \A z \in Alive(c1) : c1.key[z] \in used => c1.key[z] = NoKey
  <2>1. "none" \in Deferred
    BY DEF Deferred
  <2> QED
    BY <2>1, NewSeed
<1>2. /\ rom \in Roms /\ nkeys \in Nat /\ (rom.pin => rom.saved)
      /\ \A u \in used \cup {rom.mnemonic} : u \in Nat /\ u <= nkeys
  BY Here, ZoneFacts DEF RestOK, Roms
<1>3. \A u \in used \cup {rom.mnemonic} : u <= nkeys + 1
  BY <1>2
<1> HIDE DEF Alive, IsOpen
<1>4. ChipInv(c1) /\ NoLeak(c1, rom, used) /\ (c1.zone # NoZone \/ Alive(c1) = {})
  <2>1. c1.zone \in Alive(c1) => c1.zone # NoZone
    BY ZoneFacts DEF Alive
  <2> QED
    BY <1>1, <2>1 DEF Kept, NoLeak
<1>5. ASSUME Spoil = {} PROVE Intact(c1, rom, wrong) /\ Alive(c1) = Alive(cm)
  <2>1. /\ rom.pin = FALSE /\ rom.mnemonic = NoKey /\ Alive(c1) = Alive(cm)
        /\ \A z \in Alive(cm) : cm.pw[z] = DefaultPW
    BY <1>1, <1>5, NewSeedOnEmpty
  <2>2. c1.zone = NoZone \/ c1.zone \in Alive(c1)
    BY <1>1
  <2> QED
    BY <1>1, <2>1, <2>2 DEF Intact
<1> QED
  BY <1>2, <1>3, <1>4, <1>5 DEF Stored

LEMMA EntropyAckKeeps ==
  ASSUME VaultInv, EntropyAck
  PROVE  VaultInv' /\ Reason
<1> DEFINE k == nkeys + 1
           c1 == cm_initialize_new_zone(cm, k)
           c2 == SetDeferred(c1, reset.pin)
           done == [reset EXCEPT !.awaiting = FALSE]
           r1 == WithMnemonic(rom, c1, k)
           r2 == [WithDeferred(r1, c2, reset.pin) EXCEPT !.needsBackup = reset.skip]
<1>1. MoreKeys
  BY DEF EntropyAck
<1>2. /\ RestOK /\ rom \in Roms /\ nkeys \in Nat /\ k \in Keys
      /\ reset \in [awaiting : BOOLEAN, pin : Deferred, skip : BOOLEAN]
  BY <1>1, Here DEF RestOK, MoreKeys
<1>3. /\ done \in [awaiting : BOOLEAN, pin : Deferred, skip : BOOLEAN]
      /\ [done EXCEPT !.pin = "none"] \in [awaiting : BOOLEAN, pin : Deferred, skip : BOOLEAN]
      /\ reset.pin \in Deferred /\ reset.skip \in BOOLEAN
  BY <1>2 DEF Deferred
<1>4. CASE /\ cm' = c1 /\ reset' = done /\ spoiled' = Spoil
           /\ UNCHANGED <<rom, pinCached, seed, recovery, halted, nkeys, losses, unlocked,
                          wrong, used>>
  <2> HIDE DEF c1, done
  <2>1. /\ Stored(c1, rom, wrong, Spoil, used, nkeys)
        /\ Spoil = {} => Alive(c1) = Alive(cm)
    BY <1>1, NewSeedUncommitted DEF c1
  <2>2. Stored(cm', rom', wrong', spoiled', used', nkeys')
    BY <1>4, <2>1
  <2>3. Session(rom', pinCached', seed', unlocked')
    BY <1>4, Here
  <2>4. TypeOK'
    <3>1. cm' \in CryptoMems
      BY <2>2 DEF Stored, ChipInv
    <3> QED
      BY <1>2, <1>3, <1>4, <3>1, TypeSplitNext DEF RestOK, Spoil
  <2>5. Reason
    BY <1>4, <2>1 DEF Reason
  <2> QED
    BY <2>2, <2>3, <2>4, <2>5 DEF VaultInv
<1>5. CASE /\ ClearAll(c1) /\ reset' = done /\ spoiled' = Spoil /\ nkeys' = k
           /\ UNCHANGED <<rom, recovery, halted, losses, wrong, used>>
  <2> DEFINE d == cm_deactivate_security(c1)
  <2>1. cm' = d /\ pinCached' = FALSE /\ seed' = NoKey /\ unlocked' = FALSE
    BY <1>5 DEF ClearAll
  <2>2. /\ Stored(c1, rom, wrong, Spoil, used, k)
        /\ Spoil = {} => Alive(c1) = Alive(cm)
    BY <1>1, NewSeedUncommitted
  <2>3. Stored(d, rom, wrong, Spoil, used, k) /\ Alive(d) = Alive(c1)
    BY <2>2, DeactivatedIsStored
  <2> HIDE DEF d, c1, done, k
  <2>4. Stored(cm', rom', wrong', spoiled', used', nkeys')
    BY <1>5, <2>1, <2>3
  <2>5. Session(rom', pinCached', seed', unlocked')
    BY <2>1 DEF Session
  <2>6. TypeOK'
    <3>1. cm' \in CryptoMems
      BY <2>4 DEF Stored, ChipInv
    <3>2. seed' \in Keys \cup {Garbage}
      BY <2>1, ZoneFacts
    <3> QED
      BY <1>2, <1>3, <1>5, <2>1, <3>1, <3>2, TypeSplitNext DEF RestOK, Spoil
  <2>7. Reason
    BY <1>5, <2>1, <2>2, <2>3 DEF Reason
  <2> QED
    BY <2>4, <2>5, <2>6, <2>7 DEF VaultInv
<1>6. CASE /\ IsOpen(c1) /\ CommitMnemonic(c2, r2)
           /\ reset' = [done EXCEPT !.pin = "none"]
           /\ pinCached' = (pinCached /\ reset.pin = "none")
           /\ UNCHANGED <<recovery, unlocked>>
  <2>1. /\ reset.pin # "none" => PinStringToHex(reset.pin) \in Passwords
        /\ reset.pin # "none" => (IsOpen(c2) <=> IsOpen(c1))
    <3>1. IsOpen(c2) <=> IsOpen(c1)
      BY <1>1, <1>3, NewSeed
    <3> QED
      BY <1>3, <3>1, PinWords DEF Deferred
  <2> HIDE DEF c1, c2, done, k, IsOpen
  <2>2. /\ r1 \in Roms /\ r1.mnemonic = k /\ r1.pin = rom.pin /\ r1.imported = rom.imported
    BY <1>2, <1>6 DEF WithMnemonic, Roms
  <2>3. /\ r2 \in Roms /\ r2.mnemonic = k /\ r2.imported = rom.imported
        /\ reset.pin = "none" => r2.pin = rom.pin
        /\ reset.pin # "none" => r2.pin = IsPin(reset.pin)
    <3> HIDE DEF r1
    <3>1. CASE reset.pin = "none"
      BY <1>3, <2>2, <3>1 DEF WithDeferred, Roms
    <3>2. CASE reset.pin # "none"
      <4>1. IsOpen(c2) /\ IsPin(reset.pin) \in BOOLEAN
        BY <1>6, <2>1, <3>2 DEF IsPin
      <4> QED
        BY <1>3, <2>2, <3>2, <4>1 DEF WithDeferred, WithPin, Roms
    <3> QED
      BY <3>1, <3>2
  <2> HIDE DEF r2
  <2>4. /\ reset' \in [awaiting : BOOLEAN, pin : Deferred, skip : BOOLEAN]
        /\ recovery' \in [mode : {"none", "dry", "real"}, pin : Deferred]
    BY <1>2, <1>3, <1>6 DEF RestOK
  <2>5. r2.mnemonic = IF IsOpen(c1) THEN nkeys + 1 ELSE rom.mnemonic
    BY <1>6, <2>3 DEF k
  <2>6. /\ IsOpen(c1) /\ reset.pin # "none" => (r2.pin <=> IsPin(reset.pin))
        /\ ~IsOpen(c1) \/ reset.pin = "none" => (r2.pin <=> rom.pin)
        /\ rom.imported => r2.imported
    BY <1>6, <2>3
  <2>7. c1 = cm_initialize_new_zone(cm, nkeys + 1) /\ c2 = SetDeferred(c1, reset.pin)
    BY DEF c1, c2, k
  <2>8. unlocked' = unlocked /\ pinCached' = (pinCached /\ reset.pin = "none")
    BY <1>6
  <2>9. CommitMnemonic(c2, r2)
    BY <1>6
  <2> QED
    BY ONLY VaultInv, <1>1, <1>3, <2>3, <2>4, <2>5, <2>6, <2>7, <2>8, <2>9, CommitKeeps
<1>7. ASSUME NEW c \in {c1, c2}, CutShort(c, rom, wrong) PROVE VaultInv' /\ Reason
  BY <1>1, <1>3, <1>7, NewSeedCutShort
<1> QED
  BY <1>4, <1>5, <1>6, <1>7 DEF EntropyAck

LEMMA RecoveryDoneKeeps ==
  ASSUME VaultInv, NEW enforce \in BOOLEAN, RecoveryDone(enforce)
  PROVE  VaultInv' /\ Reason
<1> DEFINE k == nkeys + 1
           c1 == cm_initialize_new_zone(cm, k)
           c2 == SetDeferred(c1, recovery.pin)
           r1 == WithMnemonic(rom, c1, k)
           r == [r1 EXCEPT !.imported = @ \/ ~enforce]
           r2 == WithDeferred(r, c2, recovery.pin)
<1>1. MoreKeys
  BY DEF RecoveryDone
<1>2. /\ RestOK /\ rom \in Roms /\ nkeys \in Nat /\ k \in Keys
      /\ recovery \in [mode : {"none", "dry", "real"}, pin : Deferred]
      /\ reset \in [awaiting : BOOLEAN, pin : Deferred, skip : BOOLEAN]
      /\ recovery.pin \in Deferred
      /\ NoRecovery \in [mode : {"none", "dry", "real"}, pin : Deferred]
  BY <1>1, Here DEF RestOK, MoreKeys, NoRecovery, Deferred
<1>3. CASE /\ CommitMnemonic(c2, r2)
           /\ recovery' = NoRecovery
           /\ pinCached' = (pinCached /\ recovery.pin = "none")
           /\ UNCHANGED <<reset, unlocked>>
  <2>1. IsOpen(c2) <=> IsOpen(c1)
    BY <1>1, <1>2, NewSeed
  <2> HIDE DEF c1, c2, k, IsOpen
  <2>2. /\ r1 \in Roms /\ r1.mnemonic = (IF IsOpen(c1) THEN k ELSE rom.mnemonic)
        /\ r1.pin = rom.pin /\ r1.imported = rom.imported
    BY <1>2 DEF WithMnemonic, Roms
  <2>3. r \in Roms /\ r.mnemonic = r1.mnemonic /\ r.pin = rom.pin /\ (rom.imported => r.imported)
    <3> HIDE DEF r1
    <3>1. r1.imported \in BOOLEAN /\ (r1.imported \/ ~enforce) \in BOOLEAN
      BY <2>2 DEF Roms
    <3>2. r.imported = (r1.imported \/ ~enforce)
      BY <2>2 DEF Roms
    <3>3. r \in Roms /\ r.mnemonic = r1.mnemonic /\ r.pin = r1.pin
      BY <2>2, <3>1 DEF Roms
    <3> HIDE DEF r
    <3> QED
      BY <2>2, <3>2, <3>3
  <2>4. /\ r2 \in Roms /\ r2.mnemonic = r1.mnemonic /\ (rom.imported => r2.imported)
        /\ IsOpen(c1) /\ recovery.pin # "none" => (r2.pin <=> IsPin(recovery.pin))
        /\ ~IsOpen(c1) \/ recovery.pin = "none" => (r2.pin <=> rom.pin)
    <3> HIDE DEF r, r1
    <3>1. CASE recovery.pin = "none" \/ ~IsOpen(c2)
      <4>1. r2 = r
        BY <3>1 DEF WithDeferred, WithPin
      <4> QED
        BY <2>1, <2>3, <3>1, <4>1
    <3>2. CASE recovery.pin # "none" /\ IsOpen(c2)
      <4>1. r2 = [r EXCEPT !.pin = IsPin(recovery.pin)] /\ IsPin(recovery.pin) \in BOOLEAN
        BY <3>2 DEF WithDeferred, WithPin, IsPin
      <4> HIDE DEF r2
      <4>2. r2 \in Roms /\ r2.mnemonic = r.mnemonic /\ r2.imported = r.imported
            /\ r2.pin = IsPin(recovery.pin)
        BY <2>3, <4>1 DEF Roms
      <4> QED
        BY <2>1, <2>3, <3>2, <4>2
    <3> QED
      BY <3>1, <3>2
  <2> HIDE DEF r2
  <2>5. /\ reset' \in [awaiting : BOOLEAN, pin : Deferred, skip : BOOLEAN]
        /\ recovery' \in [mode : {"none", "dry", "real"}, pin : Deferred]
    BY <1>2, <1>3
  <2>6. r2.mnemonic = IF IsOpen(c1) THEN nkeys + 1 ELSE rom.mnemonic
    <3> HIDE DEF r1
    <3> QED
      BY <2>2, <2>4 DEF k
  <2>7. c1 = cm_initialize_new_zone(cm, nkeys + 1) /\ c2 = SetDeferred(c1, recovery.pin)
    BY DEF c1, c2, k
  <2>8. unlocked' = unlocked /\ pinCached' = (pinCached /\ recovery.pin = "none")
    BY <1>3
  <2>9. CommitMnemonic(c2, r2)
    BY <1>3
  <2> QED
    BY ONLY VaultInv, <1>1, <1>2, <2>4, <2>5, <2>6, <2>7, <2>8, <2>9, CommitKeeps
<1>4. ASSUME NEW c \in {c1, c2}, CutShort(c, rom, wrong) PROVE VaultInv' /\ Reason
  BY <1>1, <1>2, <1>4, NewSeedCutShort
<1> QED
  BY <1>3, <1>4 DEF RecoveryDone

-----------------------------------------------------------------------------
(* The theorems.                                                           *)

LEMMA NewDevice == Init => VaultInv
<1> SUFFICES ASSUME Init PROVE VaultInv
  OBVIOUS
<1> USE ZoneFacts
<1> DEFINE c == [pac |-> [z \in Zones |-> MaxAttempts], pw |-> [z \in Zones |-> DefaultPW],
                 key |-> [z \in Zones |-> NoKey], state |-> "IDLE", zone |-> NoZone]
<1>1. cm = cm_init(c) /\ rom = Erased /\ used = {} /\ nkeys = 0 /\ wrong = 0 /\ spoiled = {}
      /\ pinCached = FALSE /\ seed = NoKey /\ unlocked = FALSE
  BY DEF Init
<1>2. MaxAttempts \in 0 .. MaxAttempts /\ NoKey \in Keys /\ 0 \in Keys
  BY DEF NoKey
<1>3. /\ c \in CryptoMems /\ c.zone = NoZone
      /\ \A z \in Zones : c.pac[z] = MaxAttempts /\ c.pw[z] = DefaultPW /\ c.key[z] = NoKey
  <2>1. [z \in Zones |-> MaxAttempts] \in [Zones -> 0 .. MaxAttempts]
    BY <1>2
  <2>2. [z \in Zones |-> DefaultPW] \in [Zones -> Passwords]
    OBVIOUS
  <2>3. [z \in Zones |-> NoKey] \in [Zones -> Keys]
    BY <1>2
  <2> QED
    BY <2>1, <2>2, <2>3 DEF CryptoMems, CmStates
<1> HIDE DEF c
<1>4. Zoned(c)
  BY <1>3 DEF Zoned, IsFresh
<1>5. /\ ChipInv(cm) /\ SameData(c, cm)
      /\ (cm.zone = NoZone /\ Alive(c) = {}) \/ cm.zone \in Alive(c)
  BY <1>1, <1>3, <1>4, CmInit
<1>6. Alive(cm) = Alive(c) /\ Alive(c) \subseteq Zones
  BY <1>5 DEF SameData, Alive
<1>7. /\ Erased \in Roms /\ Erased.mnemonic = NoKey /\ Erased.pin = FALSE
  BY <1>2 DEF Erased, Roms
<1> HIDE DEF Alive, IsOpen
<1>8. Intact(cm, rom, wrong) /\ NoLeak(cm, rom, used)
  <2>1. \A z \in Alive(cm) : cm.pw[z] = DefaultPW
    BY <1>3, <1>5, <1>6 DEF SameData
  <2> QED
    BY <1>1, <1>5, <1>6, <1>7, <2>1 DEF Intact, NoLeak
<1>9. Stored(cm, rom, wrong, spoiled, used, nkeys)
  BY <1>1, <1>5, <1>7, <1>8 DEF Stored, NoKey
<1>10. Session(rom, pinCached, seed, unlocked)
  BY <1>1 DEF Session
<1>11. TypeOK
  <2>1. /\ losses = 0 /\ 0 \in 0 .. MaxLosses /\ halted = FALSE
        /\ reset = NoReset /\ recovery = NoRecovery
    BY VaultAssumption DEF Init
  <2>2. "none" \in Deferred
    BY DEF Deferred
  <2> QED
    BY <1>1, <1>2, <1>5, <1>7, <2>1, <2>2, TypeSplit
       DEF RestOK, NoReset, NoRecovery, ChipInv
<1> QED
  BY <1>9, <1>10, <1>11 DEF VaultInv

LEMMA StepKeeps ==
  ASSUME VaultInv, [Next]_vars
  PROVE  VaultInv' /\ (Reason \/ UNCHANGED vars)
<1>1. CASE UNCHANGED vars
  BY <1>1 DEF vars, VaultInv, TypeOK, Stored, ChipInv, Zoned, IsFresh, IsOpen, Alive, Intact,
              NoLeak, Session
<1>2. CASE PowerCycle
  BY <1>2, PowerCycleKeeps
<1>3. CASE Handle
  <2>1. ASSUME NEW useCached \in BOOLEAN, PinRefused(useCached) PROVE VaultInv' /\ Reason
    BY <2>1, PinRefusedKeeps
  <2>2. CASE Ping
    BY <2>2, PingKeeps
  <2>3. CASE UseSeed
    BY <2>3, UseSeedKeeps
  <2>4. CASE ApplySettings
    BY <2>4, ApplySettingsKeeps
  <2>5. CASE BackupDevice
    BY <2>5, BackupDeviceKeeps
  <2>6. ASSUME NEW p \in Pins, ChangePin(p) PROVE VaultInv' /\ Reason
    BY <2>6, ChangePinKeeps
  <2>7. ASSUME NEW force \in BOOLEAN, WipeDevice(force) PROVE VaultInv' /\ Reason
    BY <2>7, WipeDeviceKeeps
  <2>8. ASSUME NEW p \in Pins, NEW content \in {"mnemonic", "node", "nothing"},
               LoadDevice(p, content)
        PROVE  VaultInv' /\ Reason
    BY <2>8, LoadDeviceKeeps
  <2>9. CASE EntropyAck
    BY <2>9, EntropyAckKeeps
  <2>10. CASE RecoveryDryRun
    BY <2>10, RecoveryDryRunKeeps
  <2>11. ASSUME NEW enforce \in BOOLEAN, RecoveryDone(enforce) PROVE VaultInv' /\ Reason
    BY <2>11, RecoveryDoneKeeps
  <2>12. CASE \/ ApplyFlags \/ ClearSession \/ Initialize \/ RecoveryDryDone \/ RecoveryInvalid
              \/ \E p \in Deferred, skip \in BOOLEAN : ResetDevice(p, skip)
              \/ \E p \in Deferred : RecoveryDevice(p)
    BY <2>12, QuietHandlers
  <2> QED
    BY ONLY <1>3, <2>1, <2>2, <2>3, <2>4, <2>5, <2>6, <2>7, <2>8, <2>9, <2>10, <2>11, <2>12
       DEF Handle
<1> QED
  BY <1>1, <1>2, <1>3 DEF Next

THEOREM VaultInvariant == Spec => []VaultInv
<1>1. Init => VaultInv
  BY NewDevice
<1>2. VaultInv /\ [Next]_vars => VaultInv'
  BY StepKeeps
<1> QED
  BY <1>1, <1>2, PTL DEF Spec

\* Reset, recovery, PIN changes, wipes, wrong PINs and power losses between two
\* handlers never part the stored mnemonic from its key: storage_getSeed can
\* always decode what the record in flash holds.
THEOREM SeedIsNotLost == Spec => []SeedSurvives
<1>1. VaultInv => SeedSurvives
  BY DEF VaultInv, Stored, Intact, SeedSurvives
<1> QED
  BY <1>1, VaultInvariant, PTL

\* protectPin and storage_containsPin spend one attempt on every wrong PIN and
\* restore all of them with the right one; no other call of the chip's driver
\* spends one.
THEOREM AttemptsCount == Spec => []AttemptsAreCounted
<1>1. VaultInv => AttemptsAreCounted
  BY DEF VaultInv, Stored, Intact, AttemptsAreCounted
<1> QED
  BY <1>1, VaultInvariant, PTL

\* What session_cachePin and session_cacheSeed leave behind on a device with a
\* PIN was put there after the PIN had been entered.
THEOREM PinIsNeeded == Spec => []PinGuards
<1>1. VaultInv => PinGuards
  BY DEF VaultInv, Session, PinGuards
<1> QED
  BY <1>1, VaultInvariant, PTL

\* cm_wipe_zone and the key that replaces another leave none behind that the
\* chip would still give away.
THEOREM NoOldKeyIsReadable == Spec => []NoKeyOutlivesItsSeed
<1>1. VaultInv => NoKeyOutlivesItsSeed
  <2> SUFFICES ASSUME VaultInv, NEW z \in Zones, cm.key[z] \in used \ {NoKey, rom.mnemonic}
               PROVE  cm.pac[z] = 0
    BY DEF NoKeyOutlivesItsSeed
  <2>1. z \notin Alive(cm)
    BY Here DEF NoLeak
  <2> QED
    BY <2>1, Here, CmType
<1> QED
  BY <1>1, VaultInvariant, PTL

\* storage_getSeed caches only what it derived from the stored mnemonic, and
\* every handler that replaces the mnemonic drops the cached seed.
THEOREM CachedSeedIsTheStored == Spec => []CachedSeedIsStored
<1>1. VaultInv => CachedSeedIsStored
  BY DEF VaultInv, Session, CachedSeedIsStored
<1> QED
  BY <1>1, VaultInvariant, PTL

\* cm_send_default_PW kills the zone in use if it is guarded by a PIN: only a
\* wipe, or power lost before one, ever gets there on a device that is whole.
THEOREM ZonesAreNotWasted == Spec => ZonesDieForAReason
<1>1. VaultInv /\ [Next]_vars =>
        [Alive(cm') # Alive(cm) =>
           \/ spoiled \cup spoiled' # {}
           \/ wrong = MaxAttempts - 1
           \/ rom' = Erased /\ (losses' > losses \/ (rom.pin /\ ~IsOpen(cm)))]_vars
  BY StepKeeps DEF Reason
<1> QED
  BY <1>1, VaultInvariant, PTL DEF Spec, ZonesDieForAReason

=============================================================================
