---------------------------- MODULE AtLeastOnce ----------------------------
(***************************************************************************)
(* What a consumer of a queue promises its producers: a message is owed    *)
(* until it has been handled or rejected, and may be handled again.        *)
(***************************************************************************)
CONSTANT Messages

VARIABLES
  owed,      \* accepted, and to be delivered yet
  handled,   \* handled at least once
  rejected   \* given up, and set aside or discarded

vars == <<owed, handled, rejected>>

Init == owed = {} /\ handled = {} /\ rejected = {}

Accept(m) ==
  /\ m \notin owed \cup handled \cup rejected
  /\ owed' = owed \cup {m}
  /\ UNCHANGED <<handled, rejected>>

Handle(m) ==
  /\ m \in owed \cup handled \cup rejected
  /\ handled' = handled \cup {m}
  /\ UNCHANGED <<owed, rejected>>

\* Giving a message up ends the debt, unless another delivery is under way.
Reject(m) ==
  /\ m \in owed
  /\ rejected' = rejected \cup {m}
  /\ owed' \in {owed, owed \ {m}}
  /\ UNCHANGED handled

Release(m) ==
  /\ m \in owed
  /\ m \in handled \cup rejected
  /\ owed' = owed \ {m}
  /\ UNCHANGED <<handled, rejected>>

\* A delivery that was still under way when another one ended the debt fails.
OweAgain(m) ==
  /\ m \in handled \cup rejected
  /\ owed' = owed \cup {m}
  /\ UNCHANGED <<handled, rejected>>

Next ==
  \E m \in Messages : 
    Accept(m) \/ Handle(m) \/ Reject(m) \/ Release(m) \/ OweAgain(m)

Spec == Init /\ [][Next]_vars
=============================================================================
