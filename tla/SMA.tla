-------------------------------- MODULE SMA --------------------------------
(***************************************************************************)
(* The simple moving average of class SMA: a ring of Period integers with  *)
(* a cached total.  head and tail are offsets into the window; NULL marks  *)
(* an average to which nothing was added, and the content of a slot that   *)
(* was never written.                                                      *)
(***************************************************************************)
EXTENDS Integers

CONSTANTS Period, NULL

ASSUME SmaAssumption == Period \in Nat \ {0}

New ==
  [window |-> [i \in 0 .. Period - 1 |-> NULL], head |-> NULL, tail |-> NULL,
   total |-> 0]

inc(p) == IF p + 1 >= Period THEN 0 ELSE p + 1

\* Mutant: the oldest value is overwritten but stays in the total.
AddKeepsTotal(s, val) ==
  IF s.head = NULL
  THEN [s EXCEPT !.window[0] = val, !.head = 0, !.tail = inc(0), !.total = val]
  ELSE [window |-> [s.window EXCEPT ![s.tail] = val],
        head |-> IF s.head = s.tail THEN inc(s.head) ELSE s.head,
        tail |-> inc(s.tail),
        total |-> s.total + val]

\* A full window (head = tail) gives up its oldest value first.
add(s, val) ==
  IF s.head = NULL
  THEN [s EXCEPT !.window[0] = val, !.head = 0, !.tail = inc(0), !.total = val]
  ELSE LET full == s.head = s.tail IN
       [window |-> [s.window EXCEPT ![s.tail] = val],
        head |-> IF full THEN inc(s.head) ELSE s.head,
        tail |-> inc(s.tail),
        total |-> s.total + val - (IF full THEN s.window[s.head] ELSE 0)]

size(s) ==
  IF s.head = NULL THEN 0
  ELSE IF s.head = s.tail THEN Period
  ELSE (Period + s.tail - s.head) % Period

\* The conversion of a quotient to int drops its fraction.
Truncated(a, b) == IF a >= 0 THEN a \div b ELSE -((-a) \div b)

avg(s) == IF size(s) = 0 THEN 0 ELSE Truncated(s.total, size(s))
=============================================================================
