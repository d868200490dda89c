---------------------------- MODULE AlertPromise ----------------------------
(***************************************************************************)
(* What the tasks promise of the alarms about one device: every stored     *)
(* reading is checked, unless its hand-over fails; a push that a check     *)
(* has dispatched stays owed until the member is notified or it is given   *)
(* up; and whatever happens twice has been paid for by a repetition, of a  *)
(* delivery or of a send whose answer was lost.                            *)
(***************************************************************************)
EXTENDS Naturals

CONSTANTS Times,  \* readings
          Users   \* accounts that may get a push

VARIABLES check,    \* by reading: none, due, made, or excused from being made
          events,   \* batches of alert events, by reading
          owed,     \* the pushes that still have to end, <<reading, user>>
          sent,     \* notifications, by reading and user
          gaveUp,   \* pushes given up
          repeats   \* repetitions, by reading

vars == <<check, events, owed, sent, gaveUp, repeats>>

Init ==
  /\ check = [t \in Times |-> "none"]
  /\ events = [t \in Times |-> 0]
  /\ owed = {}
  /\ sent = [t \in Times |-> [u \in Users |-> 0]]
  /\ gaveUp = {}
  /\ repeats = [t \in Times |-> 0]

(* A reading is stored: its check is due. *)
Store(t) ==
  /\ check[t] = "none"
  /\ check' = [check EXCEPT ![t] = "due"]
  /\ UNCHANGED <<events, owed, sent, gaveUp, repeats>>

(* The check cannot be handed over; nothing has been done for it. *)
Excuse(t) ==
  /\ check[t] = "due" /\ events[t] = 0 /\ repeats[t] = 0
  /\ \A u \in Users : sent[t][u] = 0 /\ <<t, u>> \notin owed
  /\ check' = [check EXCEPT ![t] = "excused"]
  /\ UNCHANGED <<events, owed, sent, gaveUp, repeats>>

Record(t) ==
  /\ check[t] = "due" /\ events[t] <= repeats[t]
  /\ events' = [events EXCEPT ![t] = @ + 1]
  /\ UNCHANGED <<check, owed, sent, gaveUp, repeats>>

Dispatch(t, u) ==
  /\ check[t] = "due"
  /\ owed' = owed \cup {<<t, u>>}
  /\ UNCHANGED <<check, events, sent, gaveUp, repeats>>

Finish(t) ==
  /\ check[t] = "due"
  /\ check' = [check EXCEPT ![t] = "made"]
  /\ UNCHANGED <<events, owed, sent, gaveUp, repeats>>

(* An owed push may be owed still, as it may be under way more than once. *)
Resolves(p) == p \in owed /\ owed' \in {owed, owed \ {p}}

(* The sender may not know, and send again, or give up. *)
Notify(t, u) ==
  /\ Resolves(<<t, u>>)
  /\ sent[t][u] <= repeats'[t]
  /\ sent' = [sent EXCEPT ![t][u] = @ + 1]
  /\ gaveUp' \in {gaveUp, gaveUp \cup {<<t, u>>}}
  /\ repeats' \in {repeats, [repeats EXCEPT ![t] = @ + 1]}
  /\ UNCHANGED <<check, events>>

GiveUp(t, u) ==
  /\ Resolves(<<t, u>>)
  /\ gaveUp' = gaveUp \cup {<<t, u>>}
  /\ UNCHANGED <<check, events, sent, repeats>>

(* A message is delivered again: of the check, or of a push that may have ended. *)
Redeliver(t) ==
  /\ check[t] \in {"due", "made"}
  /\ repeats' = [repeats EXCEPT ![t] = @ + 1]
  /\ \/ UNCHANGED owed
     \/ \E u \in Users : /\ sent[t][u] > 0 \/ <<t, u>> \in gaveUp
                         /\ owed' = owed \cup {<<t, u>>}
  /\ UNCHANGED <<check, events, sent, gaveUp>>

Next == \E t \in Times :
  \/ Store(t) \/ Excuse(t) \/ Record(t) \/ Finish(t) \/ Redeliver(t)
  \/ \E u \in Users : Dispatch(t, u) \/ Notify(t, u) \/ GiveUp(t, u)

Spec == Init /\ [][Next]_vars
=============================================================================
