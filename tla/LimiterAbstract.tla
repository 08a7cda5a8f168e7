--------------------------- MODULE LimiterAbstract ---------------------------
(***************************************************************************)
(* What the rate limiter promises, without Redis, connections, commands or *)
(* late replies: a counter per window that gives a call its number in one  *)
(* step.  A call is let through or denied by its number alone, once, or it *)
(* is let through uncounted.                                               *)
(***************************************************************************)
EXTENDS Naturals, FiniteSets

CONSTANTS Callers, Limit, MaxWindow

VARIABLES
  now,          \* the present window
  counter,      \* the last number given in each window
  entered,      \* the calls made so far
  win,          \* the window of each of them
  number,       \* the number it was given, 0 for none
  verdict       \* "none", "allowed", "denied", or "open": let through uncounted

absVars == <<now, counter, entered, win, number, verdict>>

Windows == 0..MaxWindow

Init ==
  /\ now = 0
  /\ counter = [w \in Windows |-> 0]
  /\ entered = {}
  /\ win = [c \in Callers |-> 0]
  /\ number = [c \in Callers |-> 0]
  /\ verdict = [c \in Callers |-> "none"]

Calls(w) == {c \in entered : win[c] = w}

Enter(c) ==
  /\ c \notin entered
  /\ entered' = entered \cup {c}
  /\ win' = [win EXCEPT ![c] = now]
  /\ UNCHANGED <<now, counter, number, verdict>>

\* No more numbers are given in a window than it has calls.
Count(w) ==
  /\ counter[w] < Cardinality(Calls(w))
  /\ counter' = [counter EXCEPT ![w] = @ + 1]
  /\ UNCHANGED <<now, entered, win, verdict>>

TakeNumber(c) ==
  /\ c \in entered /\ verdict[c] = "none" /\ number[c] = 0
  /\ Count(win[c])
  /\ number' = [number EXCEPT ![c] = counter[win[c]] + 1]

\* A number that comes too late for its call is lost.
LoseNumber(c) ==
  /\ verdict[c] = "open"
  /\ Count(win[c])
  /\ UNCHANGED number

Decide(c) ==
  /\ verdict[c] = "none" /\ number[c] # 0
  /\ verdict' = [verdict EXCEPT ![c] = IF number[c] <= Limit THEN "allowed" ELSE "denied"]
  /\ UNCHANGED <<now, counter, entered, win, number>>

FailOpen(c) ==
  /\ c \in entered /\ verdict[c] = "none"
  /\ verdict' = [verdict EXCEPT ![c] = "open"]
  /\ number' = [number EXCEPT ![c] = 0]
  /\ UNCHANGED <<now, counter, entered, win>>

\* The counter of a window may be forgotten when the window is over.
Forget(w) ==
  /\ w < now
  /\ counter' = [counter EXCEPT ![w] = 0]
  /\ UNCHANGED <<now, entered, win, number, verdict>>

NextWindow ==
  /\ now < MaxWindow
  /\ now' = now + 1
  /\ UNCHANGED <<counter, entered, win, number, verdict>>

Next ==
  \/ \E c \in Callers : Enter(c) \/ TakeNumber(c) \/ LoseNumber(c) \/ Decide(c) \/ FailOpen(c)
  \/ \E w \in Windows : Forget(w)
  \/ NextWindow

Spec == Init /\ [][Next]_absVars
=============================================================================
