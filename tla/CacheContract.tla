---------------------------- MODULE CacheContract ----------------------------
(***************************************************************************)
(* What a cache promises its callers (internal/cache), whatever it evicts: *)
(* a value it returns is the one last set for that key, set not longer     *)
(* than MaxAge ago, and neither deleted nor cleared since.  It may forget  *)
(* at any time.                                                            *)
(***************************************************************************)
EXTENDS Naturals

CONSTANTS Key, Value, Nothing

VARIABLES
  maxAge,  \* how long a value lasts
  now,
  last,    \* the value last set for a key and when, or Nothing
  answer   \* the answer to the latest Get

cvars == <<maxAge, now, last, answer>>

Written == [value : Value, at : Nat]

Init ==
  /\ maxAge \in Nat
  /\ now = 0
  /\ last = [k \in Key |-> Nothing]
  /\ answer = Nothing

Set(k, v) ==
  /\ last' = [last EXCEPT ![k] = [value |-> v, at |-> now]]
  /\ UNCHANGED <<maxAge, now, answer>>

\* Delete of a key, or Clear.
Forget(K) ==
  /\ last' = [k \in Key |-> IF k \in K THEN Nothing ELSE last[k]]
  /\ UNCHANGED <<maxAge, now, answer>>

Miss ==
  /\ answer' = Nothing
  /\ UNCHANGED <<maxAge, now, last>>

Hit(k) ==
  /\ last[k] # Nothing
  /\ now <= last[k].at + maxAge
  /\ answer' = last[k].value
  /\ UNCHANGED <<maxAge, now, last>>

Tick ==
  /\ now' = now + 1
  /\ UNCHANGED <<maxAge, last, answer>>

Next ==
  \/ \E k \in Key : (\E v \in Value : Set(k, v)) \/ Hit(k)
  \/ \E K \in SUBSET Key : Forget(K)
  \/ Miss \/ Tick

Spec == Init /\ [][Next]_cvars

=============================================================================
