------------------------------- MODULE Outbox -------------------------------
(***************************************************************************)
(* What the retry queues promise, without rows, accounts, groups or HTTP:  *)
(* boxes of entries are sent in rounds, one kind at a time and in turn.    *)
(* In a round each entry of the box is sent once; the other side may carry *)
(* it out, and what is acknowledged was carried out.  When nothing is open *)
(* any more the box loses the acknowledged entries and no other.  A crash  *)
(* ends a round and leaves every box as it was: at least once, in order.   *)
(***************************************************************************)
EXTENDS Naturals, Sequences

CONSTANTS Kind,    \* the kinds of entries, each with a box of its own
          Item,    \* the entries
          Later    \* the kinds whose turn comes after a kind, and after "none"

VARIABLES
  box,      \* the entries waiting, by kind
  ready,    \* the kinds that may be sent
  round,    \* the kind being sent, or "none"
  open,     \* the positions of the box that are not settled
  carried,  \* those of them the other side has carried out
  acked     \* the positions it has acknowledged

outboxVars == <<box, ready, round, open, carried, acked>>

\* The first kind whose turn comes after k and whose box is not empty.
Turn(b, k) ==
  LET due == {r \in Later[k] \cap ready : b[r] # <<>>}
  IN  IF due = {} THEN "none" ELSE CHOOSE r \in due : due \subseteq {r} \cup Later[r]

\* t is s without the positions I, in the same order.
IsWithout(t, s, I) ==
  \E f \in [DOMAIN t -> DOMAIN s \ I] :
     /\ \A i \in DOMAIN t : t[i] = s[f[i]]
     /\ \A i, j \in DOMAIN t : i < j => f[i] < f[j]
     /\ \A n \in DOMAIN s \ I : \E i \in DOMAIN t : f[i] = n

Init ==
  /\ \A k \in Kind : box[k] \in Seq(Item)
  /\ ready \subseteq Kind
  /\ round = "none" /\ open = {} /\ carried = {} /\ acked = {}

Begin(k, b) ==
  /\ round' = k
  /\ open' = IF k = "none" THEN {} ELSE DOMAIN b[k]
  /\ carried' = {} /\ acked' = {}

Start ==
  /\ round = "none" /\ Begin(Turn(box, "none"), box)
  /\ UNCHANGED <<box, ready>>

Carry(i) ==
  /\ carried' = carried \cup {i}
  /\ UNCHANGED <<box, ready, round, open, acked>>

\* The sender hears of success, which is true, or of a failure, which may
\* not be.
Settle(i) ==
  /\ open' = open \ {i} /\ carried' = carried \ {i}
  /\ \/ acked' = acked
     \/ i \in carried /\ acked' = acked \cup {i}
  /\ UNCHANGED <<box, ready, round>>

Finish ==
  /\ round # "none" /\ open = {}
  /\ \A k \in Kind \ {round} : box'[k] = box[k]
  /\ IsWithout(box'[round], box[round], acked)
  /\ Begin(Turn(box', round), box')
  /\ UNCHANGED ready

Crash == Begin("none", box) /\ UNCHANGED <<box, ready>>

Next ==
  \/ Start
  \/ \E i \in open : Carry(i)
  \/ \E i \in open : Settle(i)
  \/ Finish
  \/ Crash

Spec == Init /\ [][Next]_outboxVars
=============================================================================
