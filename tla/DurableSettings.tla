--------------------------- MODULE DurableSettings ---------------------------
(* What the settings store promises: settings in use, a durable copy that   *)
(* lags behind and only ever catches up, and restarts that lose no more     *)
(* than what the copy has not caught up with.                               *)
EXTENDS Integers

CONSTANTS
  Key,
  Version   \* numbers of the changes of a setting; 0 is the default

VARIABLES settings, durable
vars == <<settings, durable>>

TypeOK == settings \in [Key -> Version] /\ durable \in [Key -> Version]

Init ==
  /\ settings = [k \in Key |-> 0]
  /\ durable = [k \in Key |-> 0]

Update(k) ==
  /\ \E v \in Version : v > settings[k] /\ settings' = [settings EXCEPT ![k] = v]
  /\ UNCHANGED durable

(* A copy no older than the last one, and of settings that were in use.     *)
Persist ==
  /\ durable' \in [Key -> Version]
  /\ \A k \in Key : durable[k] <= durable'[k] /\ durable'[k] <= settings[k]
  /\ UNCHANGED settings

Restart ==
  /\ settings' = durable
  /\ UNCHANGED durable

Next == (\E k \in Key : Update(k)) \/ Persist \/ Restart

Spec == Init /\ [][Next]_vars
=============================================================================
