---------------------------- MODULE DirectReplay ----------------------------
(***************************************************************************)
(* BM_DirectReplayInMemory: the events of make_mixed_stream applied to a   *)
(* book one after another, pass after pass with the book cleared between,  *)
(* until one is rejected.  It is what a queued replay has to look like.    *)
(***************************************************************************)
EXTENDS LimitOrderBook

CONSTANTS
  Cycles,        \* the argument of make_mixed_stream
  MaxPasses      \* bound on the benchmark's iterations

VARIABLES
  consumed,      \* events of this pass that were applied
  pass,          \* which iteration of the benchmark this is
  failed         \* an event was rejected

directVars == <<vars, consumed, pass, failed>>

\* An order is added, partly executed and cancelled.
Cycle(i) ==
  LET event(type, price, quantity, offset) ==
        [type |-> type, timestamp |-> i * 3 + offset, order_id |-> i + 1,
         side |-> "Buy", price |-> price, quantity |-> quantity]
      price == 10000 + (i % 64)
  IN  <<event("Add", price, 100, 0), event("Execute", price, 40, 1),
        event("Cancel", 0, 0, 2)>>

\* The events of the cycles one after another, three of each.
make_mixed_stream ==
  [n \in 1 .. 3 * Cycles |-> Cycle((n - 1) \div 3)[1 + ((n - 1) % 3)]]

DirectInit == Init /\ consumed = 0 /\ pass = 1 /\ failed = FALSE

ApplyNext ==
  /\ ~failed /\ consumed < Len(make_mixed_stream)
  /\ apply(make_mixed_stream[consumed + 1])
  /\ failed' = (result' # "Applied")
  /\ consumed' = consumed + 1
  /\ UNCHANGED pass

NextPass ==
  /\ ~failed /\ consumed = Len(make_mixed_stream) /\ pass < MaxPasses
  /\ clear
  /\ consumed' = 0 /\ pass' = pass + 1
  /\ UNCHANGED failed

DirectSpec == DirectInit /\ [][ApplyNext \/ NextPass]_directVars
=============================================================================
