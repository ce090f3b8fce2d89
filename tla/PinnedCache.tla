---------------------------- MODULE PinnedCache ----------------------------
(***************************************************************************)
(* What a client of the table cache is promised, without reference counts, *)
(* lists or pointers: an entry a client holds stays allocated; a key finds *)
(* the last entry inserted under it until that entry is erased or evicted; *)
(* and only entries nobody holds are evicted, the one that has been idle   *)
(* longest first.                                                          *)
(***************************************************************************)
EXTENDS Naturals, SequencesExt

CONSTANTS Key, Entry, NoEntry

VARIABLES
  cached,  \* the entry a key finds, or NoEntry
  pins,    \* the handles clients have to each entry
  idle,    \* the cached entries nobody holds, the longest idle first
  alive    \* the entries that are allocated

vars == <<cached, pins, idle, alive>>

\* The entries someone still needs.
Needed(c, p) == {e \in Entry : p[e] > 0 \/ \E k \in Key : c[k] = e}

Init ==
  /\ cached = [k \in Key |-> NoEntry]
  /\ pins = [e \in Entry |-> 0]
  /\ idle = <<>>
  /\ alive = {}

\* Nothing stays allocated that nobody needs, in every step.
Update(c, p) ==
  /\ cached' = c
  /\ pins' = p
  /\ alive' = Needed(c, p)

\* An entry handed out without being cached: the cache is turned off.
Bypass(e) ==
  /\ e \notin alive
  /\ Update(cached, [pins EXCEPT ![e] = 1])
  /\ UNCHANGED idle

\* The entry of the key, if any, is superseded.
Insert(k, e) ==
  /\ e \notin alive
  /\ Update([cached EXCEPT ![k] = e], [pins EXCEPT ![e] = 1])
  /\ idle' = RemoveFirst(idle, cached[k])

Lookup(k) ==
  /\ cached[k] # NoEntry
  /\ Update(cached, [pins EXCEPT ![cached[k]] = @ + 1])
  /\ idle' = RemoveFirst(idle, cached[k])

Release(e) ==
  /\ pins[e] > 0
  /\ Update(cached, [pins EXCEPT ![e] = @ - 1])
  /\ idle' = IF pins[e] = 1 /\ \E k \in Key : cached[k] = e
             THEN Append(idle, e)
             ELSE idle

Erase(k) ==
  /\ cached[k] # NoEntry
  /\ Update([cached EXCEPT ![k] = NoEntry], pins)
  /\ idle' = RemoveFirst(idle, cached[k])

Evict ==
  /\ idle # <<>>
  /\ Update([k \in Key |-> IF cached[k] = Head(idle) THEN NoEntry
                                                     ELSE cached[k]], pins)
  /\ idle' = Tail(idle)

Next ==
  \/ \E e \in Entry : Bypass(e) \/ Release(e)
  \/ \E k \in Key, e \in Entry : Insert(k, e)
  \/ \E k \in Key : Lookup(k) \/ Erase(k)
  \/ Evict

Spec == Init /\ [][Next]_vars

=============================================================================
