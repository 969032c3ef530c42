------------------------------ MODULE OrderLife ------------------------------
(***************************************************************************)
(* The life of the orders of one book as its clients can follow it: what a *)
(* book promises, with nothing of how it keeps orders.  OrderBookLife shows*)
(* that the book of OrderBook keeps these promises, the weak ones as well: *)
(* an order may be told that it is in and be out (a parked stop order), or *)
(* leave the market without a word (the order a failed match leaves        *)
(* behind).                                                                *)
(***************************************************************************)
CONSTANT OrderIds

VARIABLES
  phase,   (* unknown, working (being matched on arrival), market or out    *)
  told,    (* the statuses reported of each order                           *)
  deals    (* pairs of an order that came and the resting order it met      *)

vars == <<phase, told, deals>>

Withdrawn(id) == told[id] \cap {"Canceled", "Rejected"} # {}
Closed(id)    == Withdrawn(id) \/ "Filled" \in told[id]

Move(id, from, to) == phase[id] \in from /\ phase' = [phase EXCEPT ![id] = to]
Tell(id, status)   == told' = [told EXCEPT ![id] = @ \cup {status}]

-----------------------------------------------------------------------------
(* An order comes that may trade at once.  Nothing was said of it before.  *)
Arrive(id) ==
  /\ Move(id, {"unknown"}, "working")
  /\ told[id] = {}
  /\ UNCHANGED <<told, deals>>

(* An order comes and is answered at once: the client hears once and for   *)
(* all what became of it, or New when it is a stop order that is parked.   *)
Answer(id) ==
  /\ Move(id, {"unknown"}, "out")
  /\ told[id] = {}
  /\ \E status \in {"Rejected", "Canceled", "New"} : Tell(id, status)
  /\ UNCHANGED deals

(* An order takes its place in the market, on arrival or after it traded.  *)
Rest(id) ==
  /\ Move(id, {"unknown", "working"}, "market")
  /\ ~Withdrawn(id)
  /\ UNCHANGED <<told, deals>>

(* The order being matched meets one in the market, and only this one is   *)
(* told; it leaves when it is used up.  Neither was closed before.         *)
Trade(id) ==
  /\ phase[id] = "working" /\ ~Closed(id)
  /\ \E maker \in OrderIds :
       /\ phase[maker] = "market" /\ ~Closed(maker)
       /\ deals' = deals \cup {<<id, maker>>}
       /\ \/ Tell(maker, "PartiallyFilled") /\ UNCHANGED phase
          \/ Tell(maker, "Filled") /\ Move(maker, {"market"}, "out")

(* The order that was matched is told how it ended.  It is out, or goes on *)
(* to be dropped or to rest.                                               *)
Report(id) ==
  /\ Move(id, {"working"}, "out") \/ Move(id, {"working"}, "working")
  /\ ~Closed(id)
  /\ \E status \in {"PartiallyFilled", "Filled", "Canceled", "Rejected"} : Tell(id, status)
  /\ UNCHANGED deals

(* What is left of a matched order is dropped.                             *)
Discard(id) ==
  /\ Move(id, {"working"}, "out")
  /\ Tell(id, "Canceled")
  /\ UNCHANGED deals

(* A match fails: the order that came is rejected, whatever it has traded, *)
(* and the order it met leaves the market untold.                          *)
Fail(id) ==
  /\ phase[id] = "working" /\ ~Closed(id)
  /\ \E maker \in OrderIds :
       /\ phase[maker] = "market"
       /\ phase' = [phase EXCEPT ![id] = "out", ![maker] = "out"]
  /\ Tell(id, "Rejected")
  /\ UNCHANGED deals

(* An order leaves the market, cancelled or expired.                       *)
Withdraw(id) ==
  /\ Move(id, {"market"}, "out")
  /\ ~Withdrawn(id)
  /\ Tell(id, "Canceled")
  /\ UNCHANGED deals

(* A cancellation is refused, of an order that is not in the market.       *)
Refuse(id) ==
  /\ phase[id] \in {"unknown", "out"}
  /\ Tell(id, "Rejected")
  /\ UNCHANGED <<phase, deals>>

-----------------------------------------------------------------------------
Init ==
  /\ phase = [id \in OrderIds |-> "unknown"]
  /\ told = [id \in OrderIds |-> {}]
  /\ deals = {}

Next ==
  \E id \in OrderIds :
    \/ Arrive(id) \/ Answer(id) \/ Rest(id)
    \/ Trade(id) \/ Report(id) \/ Discard(id) \/ Fail(id)
    \/ Withdraw(id) \/ Refuse(id)

Spec == Init /\ [][Next]_vars
=============================================================================
