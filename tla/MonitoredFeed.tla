---------------------------- MODULE MonitoredFeed ----------------------------
(***************************************************************************)
(* The loop of BM_FeatureExtractionAnomalyScoring: each event the book     *)
(* accepts is observed by the monitor, and both are cleared between two    *)
(* passes over the stream.                                                 *)
(***************************************************************************)
EXTENDS AnomalyMonitor

CONSTANTS
  Feed,        \* the events of the stream, in any order
  MaxEvents    \* bound on the events of a pass

ASSUME FeedAssumption == Feed \subseteq FeedEvent /\ MaxEvents \in Nat

feedVars == <<vars, monitorVars>>

FeedInit == Init /\ MonitorInit

\* An event the book rejects would end the benchmark: it is not observed.
ApplyAndObserve(event) ==
  /\ Len(observed) < MaxEvents
  /\ apply(event)
  /\ result' = "Applied"
  /\ observe(event)

NextPass == clear /\ MonitorReset

FeedNext == NextPass \/ \E event \in Feed : ApplyAndObserve(event)

FeedSpec == FeedInit /\ [][FeedNext]_feedVars
=============================================================================
