-------------------------- MODULE MCFeedContinuity --------------------------
(* Instances of FeedContinuity: five slots that may trade, then the market  *)
(* shuts, so that every bar is published before the clock stops.            *)
EXTENDS FeedContinuity

=============================================================================
