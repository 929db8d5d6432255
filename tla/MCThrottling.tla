---------------------------- MODULE MCThrottling ----------------------------
(* Two requests, a cheap throttle and a dear one, two rules. *)
EXTENDS Throttling

CONSTANTS r1, r2, cheap, dear, rule, bypass

MCCost == [t \in Throttles |-> IF t = cheap THEN 1 ELSE 2]
MCGate == [t \in Throttles |-> IF t = cheap THEN {r1, r2} ELSE {r1}]
MCMatches == [u \in Rules |-> IF u = rule THEN {r1, r2} ELSE {r2}]
MCOwn == [t \in Throttles |-> IF t = dear THEN {rule} ELSE {}]

MCConfigs == {[onError |-> "raise", skip |-> FALSE, minWait |-> 0, failing |-> {}],
              [onError |-> "allow", skip |-> FALSE, minWait |-> 2, failing |-> {bypass}],
              [onError |-> "throttle", skip |-> TRUE, minWait |-> 0, failing |-> {}]}
=============================================================================
